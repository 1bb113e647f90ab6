------------------------------- MODULE ChatProofs ------------------------------
(***************************************************************************)
(* Proofs about a chat.  Of ChatTurns, and of KeyRotation which its turns  *)
(* call: for any number of messages and of keys, any limit of the history  *)
(* and any number of LLM calls, symbols and faults.  Of ChatWorkflow:      *)
(* whatever messages, routes and failures a session sees, a backtest is of *)
(* the strategy it is stored with.                                         *)
(***************************************************************************)
EXTENDS ChatTurns, ChatWorkflow, SumLemmas
-----------------------------------------------------------------------------
(* The rotation of the keys.                                               *)
\* The key of a call is never ahead of the active one, and the attempts it has
\* left reach to the last key from wherever the others have moved the index.
InCall(c) == key[c] # NoKey => key[c] <= active /\ left[c] >= N - 1 - active

RotationInv == TypeOK /\ NeverOutOfAttempts /\ \A c \in Callers : InCall(c)

\* A key is a number and NoKey is not.
LEMMA KeysAreNumbers == NoKey \notin Keys /\ Keys \subseteq Nat /\ 0 \in Keys
BY RotationAssumption DEF Keys

LEMMA RotationStarts == Init => RotationInv
BY KeysAreNumbers DEF Init, RotationInv, TypeOK, NeverOutOfAttempts, InCall, Results

\* End leaves every other call as it was.
LEMMA EndKeeps ==
    ASSUME RotationInv, NEW c \in Callers, NEW how \in Results \ {"last_error"}, End(c, how), active' = active
    PROVE  RotationInv'
<1>1. TypeOK'
  BY KeysAreNumbers DEF RotationInv, TypeOK, End
<1>2. NeverOutOfAttempts'
  BY DEF RotationInv, TypeOK, NeverOutOfAttempts, End
<1>3. ASSUME NEW d \in Callers PROVE InCall(d)'
  <2>1. CASE d = c
    BY <2>1 DEF RotationInv, TypeOK, InCall, End
  <2>2. CASE d # c
    BY <2>2 DEF RotationInv, TypeOK, InCall, End
  <2> QED BY <2>1, <2>2
<1> QED BY <1>1, <1>2, <1>3 DEF RotationInv

LEMMA BeginKeeps ==
    ASSUME RotationInv, NEW c \in Callers, Begin(c)
    PROVE  RotationInv'
<1>1. OtherAttempts \in Keys /\ OtherAttempts >= N - 1 - active
  BY RotationAssumption DEF RotationInv, TypeOK, OtherAttempts, Keys
<1>2. TypeOK'
  BY <1>1 DEF RotationInv, TypeOK, Begin, Results
<1>3. NeverOutOfAttempts'
  BY DEF RotationInv, TypeOK, NeverOutOfAttempts, Begin
<1>4. ASSUME NEW d \in Callers PROVE InCall(d)'
  <2>1. CASE d = c
    BY <1>1, <2>1, KeysAreNumbers DEF RotationInv, TypeOK, InCall, Begin
  <2>2. CASE d # c
    BY <2>2 DEF RotationInv, TypeOK, InCall, Begin
  <2> QED BY <2>1, <2>2
<1> QED BY <1>2, <1>3, <1>4 DEF RotationInv

\* When the index can move, the call that moves it has an attempt left: this is
\* why the loop's end is never reached.
LEMMA RotateMoves ==
    ASSUME RotationInv, NEW c \in Callers, key[c] # NoKey, MovedTo(active) < N
    PROVE  left[c] > 0 /\ key[c] < MovedTo(active) /\ MovedTo(active) \in Keys
<1>1. active \in Nat /\ left[c] \in Nat /\ key[c] \in Nat /\ N \in Nat
  BY KeysAreNumbers, RotationAssumption DEF RotationInv, TypeOK
<1> QED BY <1>1 DEF RotationInv, InCall, MovedTo, Keys

LEMMA RotateKeeps ==
    ASSUME RotationInv, NEW c \in Callers, Rotate(c)
    PROVE  RotationInv'
<1>1. CASE MovedTo(active) >= N /\ End(c, "all_exhausted") /\ UNCHANGED active
  BY <1>1, EndKeeps DEF Results
<1>2. CASE /\ MovedTo(active) < N
           /\ active' = MovedTo(active)
           /\ IF left[c] = 0 THEN End(c, "last_error")
              ELSE /\ key' = [key EXCEPT ![c] = active']
                   /\ left' = [left EXCEPT ![c] = @ - 1]
                   /\ UNCHANGED <<good, result>>
  <2>1. left[c] > 0 /\ key[c] < MovedTo(active) /\ MovedTo(active) \in Keys
    BY <1>2, RotateMoves DEF Rotate
  <2>2. /\ key' = [key EXCEPT ![c] = active']
        /\ left' = [left EXCEPT ![c] = @ - 1]
        /\ UNCHANGED <<good, result>>
    BY <1>2, <2>1 DEF Keys
  <2>3. left[c] - 1 \in Keys
    BY <2>1, RotationAssumption DEF RotationInv, TypeOK, Keys
  <2>4. TypeOK'
    BY <1>2, <2>1, <2>2, <2>3 DEF RotationInv, TypeOK
  <2>5. NeverOutOfAttempts'
    BY <2>2 DEF RotationInv, NeverOutOfAttempts
  <2>6. ASSUME NEW d \in Callers PROVE InCall(d)'
    <3>1. active \in Nat /\ N \in Nat /\ active' = active + 1
      BY <1>2, KeysAreNumbers, RotationAssumption DEF RotationInv, TypeOK, MovedTo
    <3>2. left[d] \in Nat /\ (key[d] # NoKey => key[d] \in Nat)
      BY KeysAreNumbers DEF RotationInv, TypeOK
    <3>3. CASE d = c
      <4>1. key'[d] = active' /\ left'[d] = left[d] - 1
        BY <2>2, <3>3 DEF RotationInv, TypeOK
      <4>2. left[d] >= N - 1 - active
        BY <3>3 DEF Rotate, RotationInv, InCall
      <4> QED BY <3>1, <3>2, <4>1, <4>2 DEF InCall
    <3>4. CASE d # c
      <4>1. key'[d] = key[d] /\ left'[d] = left[d]
        BY <2>2, <3>4 DEF RotationInv, TypeOK
      <4> QED BY <3>1, <3>2, <4>1 DEF RotationInv, InCall
    <3> QED BY <3>3, <3>4
  <2> QED BY <2>4, <2>5, <2>6 DEF RotationInv
<1> QED BY <1>1, <1>2 DEF Rotate

LEMMA RotationKeeps == RotationInv /\ [Next]_vars => RotationInv'
<1> SUFFICES ASSUME RotationInv, [Next]_vars PROVE RotationInv'
  OBVIOUS
<1>1. ASSUME NEW c \in Callers, Begin(c) PROVE RotationInv'
  BY <1>1, BeginKeeps
<1>2. ASSUME NEW c \in Callers, Answered(c) PROVE RotationInv'
  BY <1>2, EndKeeps DEF Answered, Results
<1>3. ASSUME NEW c \in Callers, Rotate(c) PROVE RotationInv'
  BY <1>3, RotateKeeps
<1>4. CASE UNCHANGED vars
  BY <1>4 DEF vars, RotationInv, TypeOK, NeverOutOfAttempts, InCall
<1> QED BY <1>1, <1>2, <1>3, <1>4 DEF Next

LEMMA RotationInvariance == Spec => []RotationInv
BY RotationStarts, RotationKeeps, PTL DEF Spec

\* The state is well-typed in every reachable state, so the index never leaves the
\* list of keys and get_active_key never has to reset it.
THEOREM TypeCorrect == Spec => []TypeOK
<1>1. RotationInv => TypeOK
  BY DEF RotationInv
<1> QED BY <1>1, RotationInvariance, PTL

\* The loop of _openrouter_with_rotation never ends by running out of attempts.
THEOREM AttemptsAlwaysSuffice == Spec => []NeverOutOfAttempts
<1>1. RotationInv => NeverOutOfAttempts
  BY DEF RotationInv
<1> QED BY <1>1, RotationInvariance, PTL

LEMMA StepAscends ==
    ASSUME RotationInv, [Next]_vars
    PROVE  [\A c \in Callers : key[c] # NoKey /\ key'[c] # NoKey /\ left'[c] # left[c] => key'[c] > key[c]]_vars
<1> SUFFICES ASSUME NEW d \in Callers, key[d] # NoKey, key'[d] # NoKey, left'[d] # left[d], Next
             PROVE  key'[d] > key[d]
  BY DEF vars
<1>1. ASSUME NEW c \in Callers, Begin(c) PROVE FALSE
  BY <1>1 DEF Begin, RotationInv, TypeOK
<1>2. ASSUME NEW c \in Callers, NEW how, End(c, how) PROVE FALSE
  BY <1>2 DEF End, RotationInv, TypeOK
<1>3. ASSUME NEW c \in Callers, Answered(c) PROVE FALSE
  BY <1>2, <1>3 DEF Answered
<1>4. ASSUME NEW c \in Callers, Rotate(c) PROVE key'[d] > key[d]
  <2>1. /\ MovedTo(active) < N /\ active' = MovedTo(active)
        /\ key' = [key EXCEPT ![c] = active'] /\ left' = [left EXCEPT ![c] = @ - 1]
    BY <1>2, <1>4 DEF Rotate
  <2>2. d = c
    BY <2>1 DEF RotationInv, TypeOK
  <2>3. key'[d] = MovedTo(active)
    BY <2>1, <2>2 DEF RotationInv, TypeOK
  <2>4. key[d] < MovedTo(active)
    BY <2>1, RotateMoves
  <2>5. key[d] \in Nat /\ MovedTo(active) \in Nat
    BY KeysAreNumbers, <2>1, RotateMoves DEF RotationInv, TypeOK
  <2> QED BY <2>3, <2>4, <2>5
<1> QED BY <1>1, <1>3, <1>4 DEF Next

\* No call tries a key twice.
THEOREM AttemptsAlwaysAscend == Spec => AttemptsAscend
BY StepAscends, RotationInvariance, PTL DEF Spec, AttemptsAscend
-----------------------------------------------------------------------------
(* The turns.                                                              *)

Stages == {"none", "queued", "thinking", "fetching", "backtesting", "running", "failing", "cancelling", "over"}

Turns == [stage : Stages, attached : BOOLEAN, base : SUBSET Callers, calls : Nat, left : Nat,
          ran : BOOLEAN, paused : BOOLEAN, lost : BOOLEAN]

Statuses == {"processing", "completed", "failed"}

InputSets == SUBSET Callers

Rows == [of : Callers \cup {NoTurn}, who : {"system", "assistant", "user"},
         status : Statuses, draft : InputSets \cup {NoDraft}]

\* The second row is the welcome, which has the empty draft and belongs to no turn.
HistoryOK ==
    /\ history \in Seq(Rows)
    /\ Len(history) >= 2
    /\ history[2] = Row(NoTurn, "assistant", "completed", {})

ChatTypeOK ==
    /\ HistoryOK
    /\ turn \in [Callers -> Turns]
    /\ registered \in Callers \cup {NoTurn}
    /\ overlapped \in BOOLEAN
    /\ faults \in Nat

\* What the history h shows of a message: its status, and the answers to it.
StatusIn(h, m) == {h[k].status : k \in {j \in DOMAIN h : h[j].of = m /\ h[j].who = "user"}}

AnswersIn(h, m) == {k \in DOMAIN h : h[k].of = m /\ h[k].who = "assistant"}

OutcomeIn(h, m) == {h[k].status : k \in AnswersIn(h, m)}

\* A turn at work has no answer yet, and loses its message only to a backtest; one
\* that is being stopped may have had its commit go through.
TurnInv(h, t, m) ==
    LET status == StatusIn(h, m)
        outcome == OutcomeIn(h, m)
    IN  /\ \A i, j \in AnswersIn(h, m) : i = j
        /\ t.stage = "none" => status = {} /\ outcome = {}
        /\ t.stage \in {"none", "queued", "thinking"} => t.attached
        /\ t.stage = "backtesting" => t.attached \/ t.ran
        /\ t.stage = "running" => t.ran /\ t.left > 0
        /\ t.stage \in {"queued", "thinking", "fetching", "backtesting", "running", "failing"}
              => status = {"processing"} /\ outcome = {}
        /\ t.stage = "cancelling" =>
              /\ t.paused
              /\ \/ status = {"processing"} /\ (outcome = {} \/ (outcome = {"completed"} /\ t.ran))
                 \/ status = {"completed"} /\ outcome = {"completed"}
        /\ t.stage = "over" =>
              \/ status = {"completed"} /\ (outcome = {"completed"} \/ (t.paused /\ outcome = {}))
              \/ status = {"failed"} /\ outcome = {"failed"}
              \/ status = {"processing"} /\ (t.lost \/ t.ran) /\ outcome \in {{}, {"completed"}}

OutcomeInv == ChatTypeOK /\ \A m \in Callers : TurnInv(history, turn[m], m)

Completed(m) == "completed" \in OutcomeIn(history, m)

Apart == ~overlapped /\ Len(history) <= HistoryLimit

\* Without overlap the rows of the one turn in progress are the last ones, and it starts
\* from a draft that has the inputs of all turns that were answered.
WorksOnLatest(m) ==
    /\ turn[m].stage # "queued" => \A o \in Callers \ {m} : Completed(o) => o \in turn[m].base
    /\ \/ history[Len(history)].of = m /\ history[Len(history)].who = "user"
       \/ turn[m].stage = "cancelling" /\ history[Len(history)].draft = NewDraft(m)

DraftInv ==
    Apart => /\ \A m \in Callers : Completed(m) => m \in LastDraft(history)
             /\ \A m, o \in Callers : InProgress(m) /\ InProgress(o) => m = o
             /\ \A m \in Callers : InProgress(m) => WorksOnLatest(m)

\* A new row shows in what the history says of its message, and of no other.
LEMMA Appended ==
    ASSUME NEW h \in Seq(Rows), NEW r \in Rows, NEW m
    PROVE  LET g == Append(h, r)
               asks == r.of = m /\ r.who = "user"
               answers == r.of = m /\ r.who = "assistant"
           IN  /\ g \in Seq(Rows) /\ Len(g) = Len(h) + 1 /\ g[Len(g)] = r
               /\ \A k \in 1..Len(h) : g[k] = h[k]
               /\ StatusIn(g, m) = StatusIn(h, m) \cup (IF asks THEN {r.status} ELSE {})
               /\ AnswersIn(g, m) = AnswersIn(h, m) \cup (IF answers THEN {Len(g)} ELSE {})
               /\ OutcomeIn(g, m) = OutcomeIn(h, m) \cup (IF answers THEN {r.status} ELSE {})
               /\ r.of # m => /\ StatusIn(g, m) = StatusIn(h, m)
                              /\ AnswersIn(g, m) = AnswersIn(h, m)
                              /\ OutcomeIn(g, m) = OutcomeIn(h, m)
<1> DEFINE g == Append(h, r)
           asks == r.of = m /\ r.who = "user"
           answers == r.of = m /\ r.who = "assistant"
<1>1. /\ g \in Seq(Rows) /\ Len(g) = Len(h) + 1 /\ Len(h) \in Nat /\ g[Len(g)] = r
      /\ \A k \in 1..Len(h) : g[k] = h[k]
      /\ DOMAIN g = 1..Len(g) /\ DOMAIN h = 1..Len(h)
  OBVIOUS
<1>2. DOMAIN g = DOMAIN h \cup {Len(g)} /\ Len(g) \notin DOMAIN h
  BY <1>1
<1> HIDE DEF g
<1>3. {j \in DOMAIN g : g[j].of = m /\ g[j].who = "user"}
        = {j \in DOMAIN h : h[j].of = m /\ h[j].who = "user"} \cup (IF asks THEN {Len(g)} ELSE {})
  BY <1>1, <1>2
<1>4. AnswersIn(g, m) = AnswersIn(h, m) \cup (IF answers THEN {Len(g)} ELSE {})
  BY <1>1, <1>2 DEF AnswersIn
<1>5. StatusIn(g, m) = StatusIn(h, m) \cup (IF asks THEN {r.status} ELSE {})
  BY <1>1, <1>2, <1>3 DEF StatusIn
<1>6. OutcomeIn(g, m) = OutcomeIn(h, m) \cup (IF answers THEN {r.status} ELSE {})
  <2>1. \A k \in AnswersIn(h, m) : k \in 1..Len(h)
    BY <1>1 DEF AnswersIn
  <2> QED
    BY <1>1, <1>4, <2>1 DEF OutcomeIn
<1> QED
  BY <1>1, <1>4, <1>5, <1>6 DEF g

\* What a change of the row of a message does: its status is what was set, everything else
\* is kept.
Updates(h, m, status, g) ==
    /\ g \in Seq(Rows) /\ Len(g) = Len(h)
    /\ \A k \in 1..Len(h) : /\ g[k].of = h[k].of /\ g[k].who = h[k].who
                            /\ h[k].who # "user" \/ h[k].of # m => g[k] = h[k]
    /\ StatusIn(g, m) = IF StatusIn(h, m) = {} THEN {} ELSE {status}
    /\ \A o : o # m => StatusIn(g, o) = StatusIn(h, o)
    /\ \A o : AnswersIn(g, o) = AnswersIn(h, o) /\ OutcomeIn(g, o) = OutcomeIn(h, o)

LEMMA Updated ==
    ASSUME NEW h \in Seq(Rows), NEW m \in Callers, NEW status \in Statuses, NEW inputs \in InputSets,
           NEW g, g = WithStatus(h, m, status) \/ g = WithUser(h, m, status, inputs)
    PROVE  Updates(h, m, status, g)
<1>1. Len(h) \in Nat /\ DOMAIN h = 1..Len(h) /\ \A k \in 1..Len(h) : h[k] \in Rows
  OBVIOUS
<1>2. DOMAIN g = 1..Len(h)
  BY <1>1 DEF WithStatus, WithUser
<1>3. ASSUME NEW k \in 1..Len(h)
      PROVE  /\ g[k] \in Rows /\ g[k].of = h[k].of /\ g[k].who = h[k].who
             /\ h[k].who # "user" \/ h[k].of # m => g[k] = h[k]
             /\ h[k].who = "user" /\ h[k].of = m => g[k].status = status
  <2>1. \/ g[k] = IF h[k].of = m /\ h[k].who = "user"
                THEN [h[k] EXCEPT !.status = status, !.draft = inputs] ELSE h[k]
        \/ g[k] = IF h[k].of = m /\ h[k].who = "user" THEN [h[k] EXCEPT !.status = status] ELSE h[k]
    BY <1>1 DEF WithStatus, WithUser
  <2>2. h[k] \in Rows
    BY <1>1
  <2> QED
    BY <2>1, <2>2 DEF Rows
<1>4. g \in Seq(Rows) /\ Len(g) = Len(h)
  <2>1. g = [k \in 1..Len(h) |-> g[k]]
    BY <1>2 DEF WithStatus, WithUser
  <2> QED
    BY <1>1, <1>3, <2>1
<1>5. \A o : {j \in DOMAIN g : g[j].of = o /\ g[j].who = "user"}
              = {j \in DOMAIN h : h[j].of = o /\ h[j].who = "user"}
  BY <1>1, <1>2, <1>3
<1>6. \A o : AnswersIn(g, o) = AnswersIn(h, o)
  BY <1>1, <1>2, <1>3 DEF AnswersIn
<1>7. \A o : OutcomeIn(g, o) = OutcomeIn(h, o)
  <2> SUFFICES ASSUME NEW o PROVE OutcomeIn(g, o) = OutcomeIn(h, o)
    OBVIOUS
  <2>1. \A k \in AnswersIn(h, o) : g[k].status = h[k].status
    BY <1>1, <1>3 DEF AnswersIn
  <2> QED
    BY <1>6, <2>1 DEF OutcomeIn
<1>8. ASSUME NEW o, o # m PROVE StatusIn(g, o) = StatusIn(h, o)
  <2> DEFINE U == {j \in DOMAIN h : h[j].of = o /\ h[j].who = "user"}
  <2>1. \A k \in U : g[k].status = h[k].status
    BY <1>1, <1>3, <1>8
  <2>2. StatusIn(h, o) = {h[k].status : k \in U} /\ StatusIn(g, o) = {g[k].status : k \in U}
    BY <1>5 DEF StatusIn
  <2> QED
    BY <2>1, <2>2
<1>9. StatusIn(g, m) = IF StatusIn(h, m) = {} THEN {} ELSE {status}
  <2> DEFINE U == {j \in DOMAIN h : h[j].of = m /\ h[j].who = "user"}
  <2>1. \A k \in U : g[k].status = status
    BY <1>1, <1>3
  <2>2. StatusIn(h, m) = {h[k].status : k \in U} /\ StatusIn(g, m) = {g[k].status : k \in U}
    BY <1>5 DEF StatusIn
  <2> HIDE DEF U
  <2>3. CASE U = {}
    BY <2>2, <2>3
  <2>4. CASE U # {}
    <3>1. \E k \in U : TRUE
      BY <2>4
    <3>2. StatusIn(g, m) = {status}
      BY <2>1, <2>2, <3>1
    <3>3. StatusIn(h, m) # {}
      BY <2>2, <3>1, ZenonT(30)
    <3> QED
      BY <3>2, <3>3
  <2> QED
    BY <2>3, <2>4
<1> QED
  BY <1>3, <1>4, <1>6, <1>7, <1>8, <1>9 DEF Updates

LEMMA StatusUpdates ==
    ASSUME NEW h \in Seq(Rows), NEW m \in Callers, NEW status \in Statuses
    PROVE  Updates(h, m, status, WithStatus(h, m, status))
<1>1. {} \in InputSets
  BY DEF InputSets
<1> QED
  BY <1>1, Updated

LEMMA UserUpdates ==
    ASSUME NEW h \in Seq(Rows), NEW m \in Callers, NEW status \in Statuses, NEW inputs \in InputSets
    PROVE  Updates(h, m, status, WithUser(h, m, status, inputs))
BY Updated

LEMMA LatestRow ==
    ASSUME NEW h \in Seq(Rows), Len(h) >= 2, h[2].draft # NoDraft
    PROVE  /\ Max(Drafted(h)) \in Drafted(h)
           /\ \A k \in Drafted(h) : k <= Max(Drafted(h))
           /\ Drafted(h) = {k \in 1..Len(h) : k <= HistoryLimit /\ h[k].draft # NoDraft}
<1> DEFINE n == Min({Len(h), HistoryLimit})
           D == Drafted(h)
<1>1. Len(h) \in Nat /\ HistoryLimit \in Nat /\ HistoryLimit >= 2
  BY ChatAssumption
<1>2. n = IF Len(h) <= HistoryLimit THEN Len(h) ELSE HistoryLimit
  <2> DEFINE m == IF Len(h) <= HistoryLimit THEN Len(h) ELSE HistoryLimit
             T == {Len(h), HistoryLimit}
  <2>1. m \in T /\ \A y \in T : m <= y
    BY <1>1
  <2>2. \A x \in T : (\A y \in T : x <= y) => x = m
    BY <1>1
  <2> HIDE DEF T, m
  <2>3. Min(T) = m
    BY <2>1, <2>2 DEF Min
  <2> QED
    BY <2>3 DEF T, m
<1> HIDE DEF n
<1>3. D = {k \in 1..n : h[k].draft # NoDraft}
  BY DEF Drafted, n
<1>4. D \subseteq Nat /\ 2 \in D /\ \A k \in D : k <= n
  BY <1>1, <1>2, <1>3
<1>5. n \in Nat
  BY <1>1, <1>2
<1>6. \E k \in D : \A j \in D : k >= j
  <2> HIDE DEF D
  <2> QED
    BY <1>4, <1>5, GreatestNumber
<1>7. Max(D) \in D /\ \A j \in D : Max(D) >= j
  <2> HIDE DEF D
  <2> QED
    BY <1>6 DEF Max
<1>8. \A k \in D : k <= Max(D)
  BY <1>4, <1>7
<1> QED
  BY <1>1, <1>2, <1>3, <1>7, <1>8

\* A draft is never the absence of one.
LEMMA DraftsAreSets == {} # NoDraft /\ NoDraft \notin InputSets
BY ChatAssumption DEF InputSets

LEMMA DraftIsSet ==
    ASSUME NEW h \in Seq(Rows), Len(h) >= 2, h[2].draft # NoDraft
    PROVE  LastDraft(h) \in InputSets
<1>1. Max(Drafted(h)) \in 1..Len(h) /\ h[Max(Drafted(h))].draft # NoDraft
  BY LatestRow
<1>2. h[Max(Drafted(h))] \in Rows
  BY <1>1
<1> QED
  BY <1>1, <1>2 DEF LastDraft, Rows

\* Rows without a draft do not change the last one.
LEMMA SameDrafts ==
    ASSUME NEW h \in Seq(Rows), Len(h) >= 2, h[2].draft # NoDraft,
           NEW g \in Seq(Rows), Len(g) >= Len(h),
           \A k \in 1..Len(h) : g[k].draft = h[k].draft,
           \A k \in 1..Len(g) : k > Len(h) => g[k].draft = NoDraft
    PROVE  LastDraft(g) = LastDraft(h)
<1>1. Len(g) \in Nat /\ Len(h) \in Nat /\ 2 \in 1..Len(h)
  OBVIOUS
<1>2. /\ Max(Drafted(h)) \in Drafted(h)
      /\ Drafted(h) = {k \in 1..Len(h) : k <= HistoryLimit /\ h[k].draft # NoDraft}
  BY LatestRow
<1>3. Drafted(g) = {k \in 1..Len(g) : k <= HistoryLimit /\ g[k].draft # NoDraft}
  BY <1>1, LatestRow
<1>4. Drafted(g) = Drafted(h)
  BY <1>1, <1>2, <1>3
<1> QED
  BY <1>2, <1>4 DEF LastDraft

\* The last row that is read has the last draft, if it has one.
LEMMA DraftOfLastRow ==
    ASSUME NEW h \in Seq(Rows), Len(h) >= 2, h[2].draft # NoDraft,
           Len(h) <= HistoryLimit, h[Len(h)].draft # NoDraft
    PROVE  LastDraft(h) = h[Len(h)].draft
<1>1. Len(h) \in Nat
  OBVIOUS
<1>2. /\ Max(Drafted(h)) \in Drafted(h)
      /\ \A k \in Drafted(h) : k <= Max(Drafted(h))
      /\ Drafted(h) = {k \in 1..Len(h) : k <= HistoryLimit /\ h[k].draft # NoDraft}
  BY LatestRow
<1>3. Len(h) \in Drafted(h)
  BY <1>1, <1>2
<1>4. Max(Drafted(h)) = Len(h)
  BY <1>1, <1>2, <1>3
<1> QED
  BY <1>4 DEF LastDraft

\* What a step of the turn of m may do to the history: change its row, add one of its own.
RowChanged(h, m, g) ==
    \/ g = h
    \/ \E status \in Statuses :
          \/ g = WithStatus(h, m, status)
          \/ \E inputs \in InputSets : g = WithUser(h, m, status, inputs)

OwnRows(h, m, g) ==
    \/ RowChanged(h, m, g)
    \/ \E r \in Rows : \E f : RowChanged(h, m, f) /\ r.of = m /\ g = Append(f, r)

LEMMA OthersSee ==
    ASSUME HistoryOK, NEW m \in Callers, NEW g, OwnRows(history, m, g)
    PROVE  /\ g \in Seq(Rows) /\ Len(g) >= Len(history) /\ g[2] = history[2]
           /\ \A o : o # m => /\ StatusIn(g, o) = StatusIn(history, o)
                             /\ AnswersIn(g, o) = AnswersIn(history, o)
                             /\ OutcomeIn(g, o) = OutcomeIn(history, o)
<1>1. history \in Seq(Rows) /\ Len(history) \in Nat /\ Len(history) >= 2 /\ history[2].of # m
  BY ChatAssumption DEF HistoryOK, Row
<1>2. ASSUME NEW f, RowChanged(history, m, f)
      PROVE  /\ f \in Seq(Rows) /\ Len(f) = Len(history) /\ f[2] = history[2]
             /\ \A o : o # m => /\ StatusIn(f, o) = StatusIn(history, o)
                               /\ AnswersIn(f, o) = AnswersIn(history, o)
                               /\ OutcomeIn(f, o) = OutcomeIn(history, o)
  <2>1. CASE f = history
    BY <1>1, <2>1
  <2>2. CASE \E status \in Statuses, inputs \in InputSets :
                f = WithStatus(history, m, status) \/ f = WithUser(history, m, status, inputs)
    <3>1. PICK status \in Statuses, inputs \in InputSets :
                f = WithStatus(history, m, status) \/ f = WithUser(history, m, status, inputs)
      BY <2>2
    <3>2. /\ f \in Seq(Rows) /\ Len(f) = Len(history)
          /\ \A k \in 1..Len(history) : history[k].of # m => f[k] = history[k]
          /\ \A o : o # m => StatusIn(f, o) = StatusIn(history, o)
          /\ \A o : AnswersIn(f, o) = AnswersIn(history, o) /\ OutcomeIn(f, o) = OutcomeIn(history, o)
      <4>1. Updates(history, m, status, f)
        BY <1>1, <3>1, StatusUpdates, UserUpdates
      <4> QED
        BY <4>1 DEF Updates
    <3>3. 2 \in 1..Len(history)
      BY <1>1
    <3> QED
      BY <1>1, <3>2, <3>3
  <2>3. {} \in InputSets
    BY DEF InputSets
  <2> QED
    BY <1>2, <2>1, <2>2, <2>3 DEF RowChanged
<1>3. CASE RowChanged(history, m, g)
  BY <1>1, <1>2, <1>3
<1>4. ASSUME NEW r \in Rows, NEW f, RowChanged(history, m, f), r.of = m, g = Append(f, r)
      PROVE  /\ g \in Seq(Rows) /\ Len(g) >= Len(history) /\ g[2] = history[2]
             /\ \A o : o # m => /\ StatusIn(g, o) = StatusIn(history, o)
                               /\ AnswersIn(g, o) = AnswersIn(history, o)
                               /\ OutcomeIn(g, o) = OutcomeIn(history, o)
  <2>1. /\ f \in Seq(Rows) /\ Len(f) = Len(history) /\ f[2] = history[2]
        /\ \A o : o # m => /\ StatusIn(f, o) = StatusIn(history, o)
                          /\ AnswersIn(f, o) = AnswersIn(history, o)
                          /\ OutcomeIn(f, o) = OutcomeIn(history, o)
    BY <1>2, <1>4
  <2>2. g \in Seq(Rows) /\ Len(g) = Len(f) + 1 /\ \A k \in 1..Len(f) : g[k] = f[k]
    BY <1>4, <2>1, Appended
  <2>3. ASSUME NEW o, o # m
        PROVE  /\ StatusIn(g, o) = StatusIn(f, o)
               /\ AnswersIn(g, o) = AnswersIn(f, o)
               /\ OutcomeIn(g, o) = OutcomeIn(f, o)
    <3>1. r.of # o
      BY <1>4, <2>3
    <3>2. /\ StatusIn(Append(f, r), o) = StatusIn(f, o)
          /\ AnswersIn(Append(f, r), o) = AnswersIn(f, o)
          /\ OutcomeIn(Append(f, r), o) = OutcomeIn(f, o)
      BY <2>1, <3>1, Appended
    <3> QED
      BY <1>4, <3>2
  <2>4. 2 \in 1..Len(f)
    BY <1>1, <2>1
  <2> QED
    BY <1>1, <2>1, <2>2, <2>3, <2>4
<1> QED
  BY <1>3, <1>4 DEF OwnRows
-----------------------------------------------------------------------------
(* OutcomeInv is inductive.                                                *)

\* A step of one turn, and of its rows.
LEMMA TurnStep ==
    ASSUME OutcomeInv, NEW m \in Callers, NEW t \in Turns, turn' = [turn EXCEPT ![m] = t],
           OwnRows(history, m, history'), TurnInv(history', t, m),
           registered' \in Callers \cup {NoTurn}, overlapped' \in BOOLEAN, faults' \in Nat
    PROVE  OutcomeInv'
<1>1. HistoryOK /\ turn \in [Callers -> Turns]
  BY DEF OutcomeInv, ChatTypeOK
<1>2. /\ history' \in Seq(Rows) /\ Len(history') >= Len(history) /\ history'[2] = history[2]
      /\ \A o : o # m => /\ StatusIn(history', o) = StatusIn(history, o)
                        /\ AnswersIn(history', o) = AnswersIn(history, o)
                        /\ OutcomeIn(history', o) = OutcomeIn(history, o)
  BY <1>1, OthersSee
<1>3. HistoryOK'
  <2>1. history \in Seq(Rows) /\ Len(history) >= 2 /\ history[2] = Row(NoTurn, "assistant", "completed", {})
    BY <1>1 DEF HistoryOK
  <2>2. Len(history) \in Nat /\ Len(history') \in Nat
    BY <1>2, <2>1
  <2>3. Len(history') >= 2
    BY <1>2, <2>1, <2>2
  <2> QED
    BY <1>2, <2>1, <2>3 DEF HistoryOK, Row
<1>4. turn' \in [Callers -> Turns]
  BY <1>1
<1>5. ASSUME NEW o \in Callers PROVE TurnInv(history', turn'[o], o)
  <2>1. CASE o = m
    BY <1>1, <2>1
  <2>2. CASE o # m
    <3>1. turn'[o] = turn[o] /\ TurnInv(history, turn[o], o)
      BY <1>1, <2>2 DEF OutcomeInv
    <3> QED
      BY <1>2, <2>2, <3>1 DEF TurnInv
  <2> QED
    BY <2>1, <2>2
<1> QED
  BY <1>3, <1>4, <1>5 DEF OutcomeInv, ChatTypeOK

\* What OutcomeInv says of a turn.
LEMMA TurnFacts ==
    ASSUME OutcomeInv, NEW m \in Callers
    PROVE  /\ HistoryOK /\ history \in Seq(Rows) /\ turn \in [Callers -> Turns] /\ turn[m] \in Turns
           /\ TurnInv(history, turn[m], m)
           /\ registered \in Callers \cup {NoTurn} /\ overlapped \in BOOLEAN /\ faults \in Nat
           /\ (OutcomeIn(history, m) = {}) = (AnswersIn(history, m) = {})
  BY ZenonT(30) DEF OutcomeInv, ChatTypeOK, HistoryOK, OutcomeIn

LEMMA NoNewRow == ASSUME NEW m PROVE OwnRows(history, m, history)
  BY DEF OwnRows, RowChanged

\* Steps that leave the history alone.
LEMMA ThinkingSteps ==
    ASSUME OutcomeInv, NEW m \in Callers,
           Start(m) \/ Ask(m) \/ Fetch(m) \/ Backtest(m) \/ SymbolEnds(m) \/ Fail(m)
    PROVE  OutcomeInv'
<1> DEFINE t == turn'[m]
<1>1. /\ HistoryOK /\ history \in Seq(Rows) /\ turn \in [Callers -> Turns] /\ turn[m] \in Turns
      /\ TurnInv(history, turn[m], m)
      /\ registered \in Callers \cup {NoTurn} /\ overlapped \in BOOLEAN /\ faults \in Nat
  BY TurnFacts
<1>2. history' = history /\ overlapped' = overlapped
  BY DEF Start, Ask, Fetch, Backtest, SymbolEnds, Fail
<1>3. registered' \in Callers \cup {NoTurn} /\ faults' \in Nat
  BY <1>1 DEF Start, Ask, Fetch, Backtest, SymbolEnds, Fail
<1>4. t \in Turns /\ turn' = [turn EXCEPT ![m] = t] /\ TurnInv(history, t, m)
  <2>1. CASE Start(m)
    <3>1. LastDraft(history) \in SUBSET Callers
      BY <1>1, DraftIsSet, DraftsAreSets DEF HistoryOK, Row, InputSets
    <3> QED
      BY <1>1, <2>1, <3>1 DEF Start, Turns, Stages, TurnInv
  <2>2. CASE Ask(m)
    <3> DEFINE x == [turn[m] EXCEPT !.calls = turn[m].calls + 1]
    <3>1. turn' = [turn EXCEPT ![m] = x]
      BY <1>1, <2>2 DEF Ask
    <3>4. turn[m] \in Turns /\ turn[m].calls \in Nat /\ turn[m].calls + 1 \in Nat
      BY <1>1 DEF Turns
    <3>5. turn[m].stage = "thinking"
      BY <2>2 DEF Ask
    <3>2. x \in Turns /\ x.stage = turn[m].stage /\ x.attached = turn[m].attached /\ x.stage = "thinking"
      BY <3>4, <3>5 DEF Turns
    <3>3. turn'[m] = x
      BY <1>1, <3>1
    <3> HIDE DEF x
    <3> QED
      BY <1>1, <3>1, <3>2, <3>3 DEF TurnInv
  <2>3. CASE Fetch(m)
    BY <1>1, <2>3 DEF Fetch, Turns, Stages, TurnInv
  <2>4. CASE Backtest(m)
    <3>1. PICK n \in 1..MaxSymbols : turn' = [turn EXCEPT ![m].stage = "backtesting", ![m].left = n]
      BY <2>4 DEF Backtest
    <3>2. n \in Nat
      BY <3>1, ChatAssumption
    <3> QED
      BY <1>1, <2>4, <3>1, <3>2 DEF Backtest, Turns, Stages, TurnInv
  <2>5. CASE SymbolEnds(m)
    <3>1. turn' = [turn EXCEPT ![m].stage = "backtesting", ![m].left = turn[m].left - 1]
      BY <2>5 DEF SymbolEnds, AfterSymbol
    <3>3. turn[m].left \in Nat /\ (turn[m].stage = "running" => turn[m].left > 0)
      BY <1>1 DEF Turns, TurnInv
    <3>4. turn[m].left > 0
      BY <2>5, <3>3 DEF SymbolEnds
    <3>2. turn[m].left - 1 \in Nat
      BY <3>3, <3>4
    <3> QED
      BY <1>1, <2>5, <3>1, <3>2 DEF SymbolEnds, Turns, Stages, TurnInv
  <2>6. CASE Fail(m)
    BY <1>1, <2>6 DEF Fail, To, Turns, Stages, TurnInv
  <2> QED
    BY <2>1, <2>2, <2>3, <2>4, <2>5, <2>6
<1> HIDE DEF t
<1> QED
  BY <1>1, <1>2, <1>3, <1>4, NoNewRow, TurnStep

\* An answer is added, and the message is completed if it is attached.
LEMMA CommitShows ==
    ASSUME OutcomeInv, NEW m \in Callers, NEW attached \in BOOLEAN,
           StatusIn(history, m) = {"processing"}, OutcomeIn(history, m) = {}
    PROVE  LET h == Committed(m, attached)
           IN  /\ OwnRows(history, m, h)
               /\ StatusIn(h, m) = IF attached THEN {"completed"} ELSE {"processing"}
               /\ OutcomeIn(h, m) = {"completed"}
               /\ \A i, j \in AnswersIn(h, m) : i = j
               /\ NewDraft(m) \in InputSets
               /\ h \in Seq(Rows) /\ Len(h) = Len(history) + 1 /\ h[Len(h)].draft = NewDraft(m)
<1> DEFINE h == Committed(m, attached)
           f == IF attached THEN WithUser(history, m, "completed", NewDraft(m)) ELSE history
           r == Row(m, "assistant", "completed", NewDraft(m))
<1>1. /\ history \in Seq(Rows) /\ turn[m] \in Turns
      /\ (OutcomeIn(history, m) = {}) = (AnswersIn(history, m) = {})
  BY TurnFacts
<1>2. NewDraft(m) \in InputSets /\ "completed" \in Statuses
  BY <1>1 DEF NewDraft, Turns, InputSets, Statuses
<1>3. r \in Rows /\ r.of = m /\ r.who = "assistant" /\ r.status = "completed" /\ r.draft = NewDraft(m)
  BY <1>2 DEF Row, Rows, Statuses
<1>4. h = Append(f, r)
  BY DEF Committed
<1>5. /\ f \in Seq(Rows) /\ RowChanged(history, m, f)
      /\ StatusIn(f, m) = IF attached THEN {"completed"} ELSE {"processing"}
      /\ AnswersIn(f, m) = {} /\ OutcomeIn(f, m) = {} /\ Len(f) = Len(history)
  <2>1. CASE attached
    <3>1. f = WithUser(history, m, "completed", NewDraft(m))
      BY <2>1
    <3> HIDE DEF f
    <3>2. RowChanged(history, m, f)
      BY <1>2, <3>1 DEF RowChanged, Statuses
    <3>3. /\ f \in Seq(Rows) /\ Len(f) = Len(history)
          /\ StatusIn(f, m) = IF StatusIn(history, m) = {} THEN {} ELSE {"completed"}
          /\ AnswersIn(f, m) = AnswersIn(history, m) /\ OutcomeIn(f, m) = OutcomeIn(history, m)
      <4>1. Updates(history, m, "completed", f)
        BY <1>1, <1>2, <3>1, UserUpdates
      <4> QED
        BY <4>1 DEF Updates
    <3> QED
      BY <1>1, <2>1, <3>2, <3>3
  <2>2. CASE ~attached
    BY <1>1, <2>2 DEF RowChanged
  <2> QED
    BY <2>1, <2>2
<1> HIDE DEF h, f, r
<1>6. /\ h \in Seq(Rows) /\ Len(h) = Len(f) + 1 /\ h[Len(h)] = r
      /\ StatusIn(h, m) = StatusIn(f, m) \cup {}
      /\ AnswersIn(h, m) = AnswersIn(f, m) \cup {Len(h)}
      /\ OutcomeIn(h, m) = OutcomeIn(f, m) \cup {"completed"}
  BY <1>3, <1>4, <1>5, Appended
<1>7. OwnRows(history, m, h)
  BY <1>3, <1>4, <1>5 DEF OwnRows
<1> QED
  BY <1>2, <1>3, <1>5, <1>6, <1>7 DEF h

\* A turn that is over keeps what it went through.
LEMMA EndedTurn ==
    ASSUME OutcomeInv, NEW m \in Callers, NEW lost \in BOOLEAN
    PROVE  /\ Ended(m, lost) \in Turns /\ Ended(m, lost).stage = "over"
           /\ Ended(m, lost).ran = turn[m].ran /\ Ended(m, lost).paused = turn[m].paused
           /\ Ended(m, lost).lost = lost
<1>1. turn[m] \in Turns
  BY TurnFacts
<1> QED
  BY <1>1 DEF Ended, Quiet, Turns, Stages

LEMMA AnswerSteps ==
    ASSUME OutcomeInv, NEW m \in Callers, Answer(m) \/ FetchReplies(m)
    PROVE  OutcomeInv'
<1> DEFINE attached == IF turn[m].stage = "fetching" THEN TRUE ELSE turn[m].attached
           t == Ended(m, FALSE)
<1>1. /\ HistoryOK /\ history \in Seq(Rows) /\ turn \in [Callers -> Turns] /\ turn[m] \in Turns
      /\ TurnInv(history, turn[m], m)
      /\ registered \in Callers \cup {NoTurn} /\ overlapped \in BOOLEAN /\ faults \in Nat
  BY TurnFacts
<1>2. turn[m].stage \in {"thinking", "fetching", "backtesting"} /\ attached \in BOOLEAN
  BY <1>1 DEF Answer, Answering, FetchReplies, Turns
<1>3. history' = Committed(m, attached)
  BY DEF Answer, Answering, FetchReplies, Refetched
<1>4. attached \/ turn[m].ran
  BY <1>1, <1>2 DEF TurnInv
<1>5. /\ turn' = [turn EXCEPT ![m] = t] /\ registered' \in Callers \cup {NoTurn}
      /\ overlapped' = overlapped /\ faults' = faults
  BY <1>1 DEF Answer, FetchReplies, Over
<1> HIDE DEF attached
<1>6. StatusIn(history, m) = {"processing"} /\ OutcomeIn(history, m) = {}
  BY <1>1, <1>2 DEF TurnInv
<1>7. /\ OwnRows(history, m, history')
      /\ StatusIn(history', m) = IF attached THEN {"completed"} ELSE {"processing"}
      /\ OutcomeIn(history', m) = {"completed"}
      /\ \A i, j \in AnswersIn(history', m) : i = j
  BY <1>2, <1>3, <1>6, CommitShows
<1>8. t \in Turns /\ t.stage = "over" /\ t.ran = turn[m].ran
  BY EndedTurn
<1> HIDE DEF t
<1>9. TurnInv(history', t, m)
  BY <1>4, <1>7, <1>8 DEF TurnInv
<1> QED
  BY <1>1, <1>5, <1>7, <1>8, <1>9, TurnStep

LEMMA SendKeeps == ASSUME OutcomeInv, NEW m \in Callers, Send(m) PROVE OutcomeInv'
<1> DEFINE t == [turn[m] EXCEPT !.stage = "queued"]
           r == Row(m, "user", "processing", NoDraft)
<1>1. /\ HistoryOK /\ history \in Seq(Rows) /\ turn \in [Callers -> Turns] /\ turn[m] \in Turns
      /\ TurnInv(history, turn[m], m)
      /\ registered \in Callers \cup {NoTurn} /\ overlapped \in BOOLEAN /\ faults \in Nat
      /\ (OutcomeIn(history, m) = {}) = (AnswersIn(history, m) = {})
  BY TurnFacts
<1>2. /\ r \in Rows /\ r.of = m /\ r.who = "user" /\ r.status = "processing" /\ r.draft = NoDraft
      /\ history' = Append(history, r)
  BY DEF Send, Row, Rows, Statuses
<1>3. t \in Turns /\ turn' = [turn EXCEPT ![m] = t] /\ t.stage = "queued" /\ t.attached = turn[m].attached
  BY <1>1 DEF Send, To, Turns, Stages
<1>4. turn[m].stage = "none" /\ registered' = registered /\ faults' = faults /\ overlapped' \in BOOLEAN
  BY <1>1 DEF Send
<1> HIDE DEF r, t
<1>5. OwnRows(history, m, history')
  BY <1>2 DEF OwnRows, RowChanged
<1>6. /\ StatusIn(history', m) = StatusIn(history, m) \cup {"processing"}
      /\ AnswersIn(history', m) = AnswersIn(history, m) \cup {}
      /\ OutcomeIn(history', m) = OutcomeIn(history, m) \cup {}
  <2>1. /\ StatusIn(Append(history, r), m) = StatusIn(history, m)
              \cup (IF r.of = m /\ r.who = "user" THEN {r.status} ELSE {})
        /\ AnswersIn(Append(history, r), m) = AnswersIn(history, m)
              \cup (IF r.of = m /\ r.who = "assistant" THEN {Len(Append(history, r))} ELSE {})
        /\ OutcomeIn(Append(history, r), m) = OutcomeIn(history, m)
              \cup (IF r.of = m /\ r.who = "assistant" THEN {r.status} ELSE {})
    <3>1. history \in Seq(Rows) /\ r \in Rows
      BY <1>1, <1>2
    <3> QED
      BY <3>1, Appended
  <2> QED
    BY <1>2, <2>1
<1>7. StatusIn(history, m) = {} /\ OutcomeIn(history, m) = {} /\ turn[m].attached
  BY <1>1, <1>4 DEF TurnInv
<1>8. TurnInv(history', t, m)
  BY <1>1, <1>3, <1>6, <1>7 DEF TurnInv
<1> QED
  BY <1>1, <1>3, <1>4, <1>5, <1>8, TurnStep

LEMMA RunSymbolKeeps == ASSUME OutcomeInv, NEW m \in Callers, RunSymbol(m) PROVE OutcomeInv'
<1> DEFINE t == [turn[m] EXCEPT !.stage = "running", !.attached = FALSE, !.ran = TRUE]
<1>1. /\ HistoryOK /\ history \in Seq(Rows) /\ turn \in [Callers -> Turns] /\ turn[m] \in Turns
      /\ TurnInv(history, turn[m], m)
      /\ registered \in Callers \cup {NoTurn} /\ overlapped \in BOOLEAN /\ faults \in Nat
  BY TurnFacts
<1>2. /\ t \in Turns /\ turn' = [turn EXCEPT ![m] = t]
      /\ t.stage = "running" /\ t.ran /\ t.left = turn[m].left
  BY <1>1 DEF RunSymbol, Turns, Stages
<1>3. /\ turn[m].stage = "backtesting" /\ turn[m].left > 0
      /\ registered' = registered /\ faults' = faults /\ overlapped' = overlapped
  BY DEF RunSymbol
<1> HIDE DEF t
<1>4. StatusIn(history, m) = {"processing"} /\ OutcomeIn(history, m) = {}
  BY <1>1, <1>3 DEF TurnInv
<1>5. /\ OwnRows(history, m, history')
      /\ StatusIn(history', m) = {"processing"} /\ OutcomeIn(history', m) = {}
      /\ AnswersIn(history', m) = AnswersIn(history, m)
  <2>1. CASE history' = history
    BY <1>4, <2>1, NoNewRow
  <2>2. CASE history' = WithUser(history, m, "processing", NewDraft(m))
    <3>1. NewDraft(m) \in InputSets /\ "processing" \in Statuses
      BY <1>1 DEF NewDraft, Turns, InputSets, Statuses
    <3>2. Updates(history, m, "processing", history')
      BY <1>1, <2>2, <3>1, UserUpdates
    <3>3. OwnRows(history, m, history')
      BY <2>2, <3>1 DEF OwnRows, RowChanged
    <3> QED
      BY <1>4, <3>2, <3>3 DEF Updates
  <2> QED
    BY <2>1, <2>2 DEF RunSymbol
<1>6. TurnInv(history', t, m)
  BY <1>1, <1>2, <1>3, <1>5 DEF TurnInv
<1> QED
  BY <1>1, <1>2, <1>3, <1>5, <1>6, TurnStep

LEMMA WriteFailureKeeps == ASSUME OutcomeInv, NEW m \in Callers, WriteFailure(m) PROVE OutcomeInv'
<1> DEFINE t == Ended(m, FALSE)
           f == WithStatus(history, m, "failed")
           r == Row(m, "assistant", "failed", NoDraft)
<1>1. /\ HistoryOK /\ history \in Seq(Rows) /\ turn \in [Callers -> Turns] /\ turn[m] \in Turns
      /\ TurnInv(history, turn[m], m)
      /\ registered \in Callers \cup {NoTurn} /\ overlapped \in BOOLEAN /\ faults \in Nat
      /\ (OutcomeIn(history, m) = {}) = (AnswersIn(history, m) = {})
  BY TurnFacts
<1>2. /\ turn[m].stage = "failing" /\ history' = Append(f, r)
      /\ turn' = [turn EXCEPT ![m] = t] /\ registered' \in Callers \cup {NoTurn}
      /\ faults' = faults /\ overlapped' = overlapped
  BY <1>1 DEF WriteFailure, Over, StatusFailed
<1>3. StatusIn(history, m) = {"processing"} /\ AnswersIn(history, m) = {} /\ OutcomeIn(history, m) = {}
  BY <1>1, <1>2 DEF TurnInv
<1>4. /\ RowChanged(history, m, f) /\ Updates(history, m, "failed", f)
      /\ r \in Rows /\ r.of = m /\ r.who = "assistant" /\ r.status = "failed"
  <2>1. "failed" \in Statuses
    BY DEF Statuses
  <2>2. Updates(history, m, "failed", f)
    BY <1>1, <2>1, StatusUpdates
  <2> QED
    BY <2>1, <2>2 DEF RowChanged, Statuses, Row, Rows
<1>5. t \in Turns /\ t.stage = "over"
  BY EndedTurn
<1> HIDE DEF t, f, r
<1>6. f \in Seq(Rows) /\ StatusIn(f, m) = {"failed"} /\ AnswersIn(f, m) = {} /\ OutcomeIn(f, m) = {}
  BY <1>3, <1>4 DEF Updates
<1>7. /\ StatusIn(history', m) = StatusIn(f, m) \cup {}
      /\ AnswersIn(history', m) = AnswersIn(f, m) \cup {Len(history')}
      /\ OutcomeIn(history', m) = OutcomeIn(f, m) \cup {"failed"}
  BY <1>2, <1>4, <1>6, Appended
<1>8. OwnRows(history, m, history')
  BY <1>2, <1>4 DEF OwnRows
<1>9. TurnInv(history', t, m)
  BY <1>5, <1>6, <1>7 DEF TurnInv
<1> QED
  BY <1>1, <1>2, <1>5, <1>8, <1>9, TurnStep

\* A handler that writes the message, or gives up.
LEMMA StopSteps ==
    ASSUME OutcomeInv, NEW m \in Callers, WriteCancel(m) \/ HandlerFails(m) \/ PauseHandler(m)
    PROVE  OutcomeInv'
<1>1. /\ HistoryOK /\ history \in Seq(Rows) /\ turn \in [Callers -> Turns] /\ turn[m] \in Turns
      /\ TurnInv(history, turn[m], m)
      /\ registered \in Callers \cup {NoTurn} /\ overlapped \in BOOLEAN /\ faults \in Nat
  BY TurnFacts
<1>2. /\ registered' \in Callers \cup {NoTurn} /\ overlapped' = overlapped /\ faults' \in Nat
  <2>1. registered' \in {registered, NoTurn}
    BY DEF WriteCancel, HandlerFails, PauseHandler, Over
  <2>2. overlapped' = overlapped /\ (faults' = faults \/ faults' = faults + 1)
    BY DEF WriteCancel, HandlerFails, PauseHandler
  <2> QED
    BY <1>1, <2>1, <2>2
<1>3. CASE HandlerFails(m) \/ PauseHandler(m)
  <2> DEFINE t == Ended(m, TRUE)
  <2>1. /\ turn' = [turn EXCEPT ![m] = t] /\ history' = history
        /\ turn[m].stage \in {"failing", "cancelling"}
    BY <1>3 DEF HandlerFails, PauseHandler, Over
  <2>2. t \in Turns /\ t.stage = "over" /\ t.lost /\ t.paused = turn[m].paused
    BY EndedTurn
  <2> HIDE DEF t
  <2>3. TurnInv(history, t, m)
    BY <1>1, <2>1, <2>2 DEF TurnInv
  <2> QED
    BY <1>1, <1>2, <2>1, <2>2, <2>3, NoNewRow, TurnStep
<1>4. CASE WriteCancel(m)
  <2> DEFINE t == Ended(m, FALSE)
             f == WithStatus(history, m, "completed")
  <2>1. /\ turn' = [turn EXCEPT ![m] = t] /\ turn[m].stage = "cancelling"
        /\ history' = IF StatusIn(history, m) = {"processing"} THEN f ELSE history
    BY <1>4 DEF WriteCancel, Over, Status, StatusIn
  <2>2. t \in Turns /\ t.stage = "over" /\ t.paused = turn[m].paused
    BY EndedTurn
  <2>3. RowChanged(history, m, f) /\ Updates(history, m, "completed", f)
    <3>1. "completed" \in Statuses
      BY DEF Statuses
    <3>2. Updates(history, m, "completed", f)
      BY <1>1, <3>1, StatusUpdates
    <3> QED
      BY <3>1, <3>2 DEF RowChanged, Statuses
  <2> HIDE DEF t, f
  <2>4. OwnRows(history, m, history')
    BY <2>1, <2>3, NoNewRow DEF OwnRows
  <2>5. TurnInv(history', t, m)
    <3>1. CASE StatusIn(history, m) = {"processing"}
      <4>1. /\ StatusIn(history', m) = {"completed"} /\ OutcomeIn(history', m) = OutcomeIn(history, m)
            /\ AnswersIn(history', m) = AnswersIn(history, m)
        BY <2>1, <2>3, <3>1 DEF Updates
      <4> QED
        BY <1>1, <2>1, <2>2, <3>1, <4>1 DEF TurnInv
    <3>2. CASE StatusIn(history, m) # {"processing"}
      BY <1>1, <2>1, <2>2, <3>2 DEF TurnInv
    <3> QED
      BY <3>1, <3>2
  <2> QED
    BY <1>1, <1>2, <2>1, <2>2, <2>4, <2>5, TurnStep
<1> QED
  BY <1>3, <1>4

\* The pause finds the turn at work; its last commit may go through.
LEMMA PauseKeeps == ASSUME OutcomeInv, NEW m \in Callers, Pause(m) PROVE OutcomeInv'
<1> DEFINE t == [turn[m] EXCEPT !.stage = "cancelling", !.paused = TRUE]
<1>1. /\ HistoryOK /\ history \in Seq(Rows) /\ turn \in [Callers -> Turns] /\ turn[m] \in Turns
      /\ TurnInv(history, turn[m], m)
      /\ registered \in Callers \cup {NoTurn} /\ overlapped \in BOOLEAN /\ faults \in Nat
  BY TurnFacts
<1>2. /\ turn[m].stage \in {"thinking", "fetching", "backtesting", "running"}
      /\ registered' = registered /\ overlapped' = overlapped /\ faults' = faults
      /\ \/ history' = history
         \/ Answering(m) /\ history' = Committed(m, turn[m].attached)
  BY DEF Pause
<1>3. /\ t \in Turns /\ turn' = [turn EXCEPT ![m] = t]
      /\ t.stage = "cancelling" /\ t.paused /\ t.ran = turn[m].ran
  BY <1>1 DEF Pause, Turns, Stages
<1> HIDE DEF t
<1>4. StatusIn(history, m) = {"processing"} /\ OutcomeIn(history, m) = {}
  BY <1>1, <1>2 DEF TurnInv
<1>5. CASE history' = history
  <2>1. TurnInv(history', t, m)
    BY <1>1, <1>3, <1>4, <1>5 DEF TurnInv
  <2> QED
    BY <1>1, <1>2, <1>3, <1>5, <2>1, NoNewRow, TurnStep
<1>6. CASE Answering(m) /\ history' = Committed(m, turn[m].attached)
  <2>1. turn[m].attached \/ turn[m].ran
    BY <1>1, <1>6 DEF Answering, TurnInv
  <2>2. turn[m].attached \in BOOLEAN
    BY <1>1 DEF Turns
  <2>3. /\ OwnRows(history, m, history')
        /\ StatusIn(history', m) = IF turn[m].attached THEN {"completed"} ELSE {"processing"}
        /\ OutcomeIn(history', m) = {"completed"}
        /\ \A i, j \in AnswersIn(history', m) : i = j
    BY <1>4, <1>6, <2>2, CommitShows
  <2>4. TurnInv(history', t, m)
    BY <1>3, <2>1, <2>3 DEF TurnInv
  <2> QED
    BY <1>1, <1>2, <1>3, <2>3, <2>4, TurnStep
<1> QED
  BY <1>2, <1>5, <1>6

LEMMA RestartKeeps == ASSUME OutcomeInv, Restart PROVE OutcomeInv'
<1>1. /\ turn' = [m \in Callers |-> IF InProgress(m) THEN Ended(m, TRUE) ELSE turn[m]]
      /\ history' = history /\ registered' = NoTurn /\ overlapped' = overlapped /\ faults' = faults + 1
  BY DEF Restart
<1>2. ASSUME NEW m \in Callers PROVE turn'[m] \in Turns /\ TurnInv(history', turn'[m], m)
  <2>1. turn[m] \in Turns /\ TurnInv(history, turn[m], m)
    BY TurnFacts
  <2>2. CASE InProgress(m)
    <3> DEFINE t == Ended(m, TRUE)
    <3>1. t \in Turns /\ t.stage = "over" /\ t.lost /\ t.paused = turn[m].paused /\ t.ran = turn[m].ran
      BY EndedTurn
    <3>2. turn'[m] = t
      BY <1>1, <2>2
    <3> HIDE DEF t
    <3>3. turn[m].stage \in Stages \ {"none", "over"}
      BY <2>1, <2>2 DEF InProgress, Turns
    <3> QED
      BY <1>1, <2>1, <3>1, <3>2, <3>3 DEF TurnInv, Stages
  <2>3. CASE ~InProgress(m)
    BY <1>1, <2>1, <2>3
  <2> QED
    BY <2>2, <2>3
<1>3. HistoryOK' /\ overlapped' \in BOOLEAN /\ faults' \in Nat
  BY <1>1 DEF OutcomeInv, ChatTypeOK, HistoryOK
<1>4. turn' \in [Callers -> Turns]
  BY <1>1, <1>2
<1> QED
  BY <1>1, <1>2, <1>3, <1>4 DEF OutcomeInv, ChatTypeOK

LEMMA ChatStarts == ChatInit => OutcomeInv
<1> SUFFICES ASSUME ChatInit PROVE OutcomeInv
  OBVIOUS
<1> DEFINE i == Row(NoTurn, "system", "completed", NoDraft)
           w == Row(NoTurn, "assistant", "completed", {})
<1>1. history = <<i, w>> /\ turn = [m \in Callers |-> Quiet] /\ registered = NoTurn /\ overlapped = FALSE /\ faults = 0
  BY DEF ChatInit
<1>2. i \in Rows /\ w \in Rows /\ i.of = NoTurn /\ w.of = NoTurn
  BY DEF Row, Rows, Statuses, InputSets
<1> HIDE DEF i
<1>3. HistoryOK
  BY <1>1, <1>2 DEF HistoryOK
<1>4. Quiet \in Turns /\ Quiet.stage = "none" /\ Quiet.attached
  BY DEF Quiet, Turns, Stages
<1> HIDE DEF w
<1>5. ASSUME NEW m \in Callers PROVE TurnInv(history, turn[m], m)
  <2>1. \A k \in DOMAIN history : history[k].of # m
    BY <1>1, <1>2, ChatAssumption
  <2>2. StatusIn(history, m) = {} /\ AnswersIn(history, m) = {} /\ OutcomeIn(history, m) = {}
    BY <2>1 DEF StatusIn, AnswersIn, OutcomeIn
  <2>3. turn[m] = Quiet
    BY <1>1
  <2> QED
    BY <1>4, <2>2, <2>3 DEF TurnInv
<1> QED
  BY <1>1, <1>3, <1>4, <1>5 DEF OutcomeInv, ChatTypeOK

LEMMA ChatKeeps == OutcomeInv /\ [ChatNext]_allVars => OutcomeInv'
<1> SUFFICES ASSUME OutcomeInv, [ChatNext]_allVars PROVE OutcomeInv'
  OBVIOUS
<1>1. ASSUME NEW m \in Callers,
             Progress(m) \/ Send(m) \/ Fail(m) \/ HandlerFails(m) \/ Pause(m) \/ PauseHandler(m)
      PROVE  OutcomeInv'
  <2>1. CASE Start(m) \/ Ask(m) \/ Fetch(m) \/ Backtest(m) \/ SymbolEnds(m) \/ Fail(m)
    BY <2>1, ThinkingSteps
  <2>2. CASE Reply(m)
    BY <2>2 DEF Reply, chatVars, OutcomeInv, ChatTypeOK, HistoryOK
  <2>3. CASE Answer(m) \/ FetchReplies(m)
    BY <2>3, AnswerSteps
  <2>4. CASE RunSymbol(m)
    BY <2>4, RunSymbolKeeps
  <2>5. CASE Send(m)
    BY <2>5, SendKeeps
  <2>6. CASE WriteFailure(m)
    BY <2>6, WriteFailureKeeps
  <2>7. CASE WriteCancel(m) \/ HandlerFails(m) \/ PauseHandler(m)
    BY <2>7, StopSteps
  <2>8. CASE Pause(m)
    BY <2>8, PauseKeeps
  <2> QED
    BY <1>1, <2>1, <2>2, <2>3, <2>4, <2>5, <2>6, <2>7, <2>8 DEF Progress
<1>2. CASE Restart
  BY <1>2, RestartKeeps
<1>3. CASE UNCHANGED allVars
  BY <1>3 DEF allVars, chatVars, OutcomeInv, ChatTypeOK, HistoryOK
<1> QED
  BY <1>1, <1>2, <1>3 DEF ChatNext

LEMMA OutcomesAlways == ChatSpec => []OutcomeInv
BY ChatStarts, ChatKeeps, PTL DEF ChatSpec

\* The rows, the turns and the registry keep their types: a turn is never without a row it
\* could answer, and a backtest never counts below zero.
THEOREM ChatTypeCorrect == ChatSpec => []ChatTypeOK
<1>1. OutcomeInv => ChatTypeOK
  BY DEF OutcomeInv
<1> QED
  BY <1>1, OutcomesAlways, PTL

LEMMA SeenInHistory ==
    ASSUME NEW m
    PROVE  /\ Status(m) = StatusIn(history, m) /\ Answers(m) = AnswersIn(history, m)
           /\ {history[k].status : k \in Answers(m)} = OutcomeIn(history, m)
  BY DEF Status, StatusIn, Answers, AnswersIn, OutcomeIn

\* Whatever a pause, a failure, a commit, an outage and a restart do to each other: a turn
\* leaves one answer, and its message has the status of that answer.
THEOREM OneOutcomeAlways == ChatSpec => []OneOutcome
<1>1. OutcomeInv => OneOutcome
  <2> SUFFICES ASSUME OutcomeInv, NEW m \in Callers
               PROVE  /\ Cardinality(AnswersIn(history, m)) <= 1
                      /\ StatusIn(history, m) = {"completed"} =>
                            \/ OutcomeIn(history, m) = {"completed"}
                            \/ turn[m].paused /\ OutcomeIn(history, m) = {}
                      /\ StatusIn(history, m) = {"failed"} <=> OutcomeIn(history, m) = {"failed"}
    BY SeenInHistory DEF OneOutcome
  <2>1. TurnInv(history, turn[m], m) /\ turn[m].stage \in Stages
    BY TurnFacts DEF Turns
  <2>2. Cardinality(AnswersIn(history, m)) <= 1
    <3>1. CASE AnswersIn(history, m) = {}
      BY <3>1, FS_EmptySet
    <3>2. CASE AnswersIn(history, m) # {}
      <4>1. PICK k : AnswersIn(history, m) = {k}
        BY <2>1, <3>2 DEF TurnInv
      <4>2. Cardinality({k}) = 1
        BY FS_Singleton, Zenon
      <4> QED
        BY <4>1, <4>2
    <3> QED
      BY <3>1, <3>2
  <2> QED
    BY <2>1, <2>2 DEF TurnInv, Stages
<1> QED
  BY <1>1, OutcomesAlways, PTL

\* A turn that ended on its own feet, without a backtest, has freed its message.
THEOREM SettledAlways == ChatSpec => []SettledUnlessDetached
<1>1. OutcomeInv => SettledUnlessDetached
  <2> SUFFICES ASSUME OutcomeInv, NEW m \in Callers,
                      turn[m].stage = "over", StatusIn(history, m) = {"processing"}
               PROVE  turn[m].lost \/ turn[m].ran
    BY SeenInHistory DEF SettledUnlessDetached
  <2>1. TurnInv(history, turn[m], m)
    BY TurnFacts
  <2> QED
    BY <2>1 DEF TurnInv
<1> QED
  BY <1>1, OutcomesAlways, PTL
-----------------------------------------------------------------------------
(* DraftInv is inductive: what the turns that were answered have put into  *)
(* the draft.                                                              *)

LEMMA DraftStarts == ChatInit => DraftInv
<1> SUFFICES ASSUME ChatInit PROVE DraftInv
  OBVIOUS
<1>1. OutcomeInv /\ \A m \in Callers : turn[m].stage = "none"
  BY ChatStarts DEF ChatInit, Quiet
<1>2. \A m \in Callers : ~Completed(m) /\ ~InProgress(m)
  BY <1>1 DEF Completed, InProgress, OutcomeInv, TurnInv
<1> QED
  BY <1>2 DEF DraftInv

\* Rows and drafts stay as they are, and no turn starts.
LEMMA UntouchedDrafts ==
    ASSUME DraftInv, history' = history, overlapped' = overlapped,
           \A o \in Callers : InProgress(o)' =>
              /\ InProgress(o) /\ turn'[o].base = turn[o].base
              /\ turn'[o].stage # "queued" => turn[o].stage # "queued"
              /\ turn[o].stage = "cancelling" => turn'[o].stage = "cancelling"
    PROVE  DraftInv'
<1> SUFFICES ASSUME Apart' PROVE /\ \A m \in Callers : Completed(m)' => m \in LastDraft(history')
                                 /\ \A m, o \in Callers : InProgress(m)' /\ InProgress(o)' => m = o
                                 /\ \A m \in Callers : InProgress(m)' => WorksOnLatest(m)'
  BY DEF DraftInv
<1>1. /\ \A m \in Callers : Completed(m) => m \in LastDraft(history)
      /\ \A m, o \in Callers : InProgress(m) /\ InProgress(o) => m = o
      /\ \A m \in Callers : InProgress(m) => WorksOnLatest(m)
  BY DEF DraftInv, Apart
<1>2. \A m : Completed(m)' = Completed(m)
  BY DEF Completed
<1>3. ASSUME NEW m \in Callers, InProgress(m)' PROVE WorksOnLatest(m)'
  BY <1>1, <1>2, <1>3 DEF WorksOnLatest, NewDraft
<1> QED
  BY <1>1, <1>2, <1>3

\* The turn of m changes its rows; the other messages show what they showed.
LEMMA OwnStepDrafts ==
    ASSUME OutcomeInv, DraftInv, NEW m \in Callers, OwnRows(history, m, history'), overlapped' = overlapped,
           Apart', InProgress(m)
    PROVE  /\ Apart /\ WorksOnLatest(m) /\ \A o \in Callers : InProgress(o) => o = m
           /\ history' \in Seq(Rows) /\ Len(history') >= 2 /\ history'[2].draft # NoDraft
           /\ \A o \in Callers \ {m} : Completed(o)' = Completed(o)
<1>1. HistoryOK
  BY DEF OutcomeInv, ChatTypeOK
<1>2. /\ history' \in Seq(Rows) /\ Len(history') >= Len(history) /\ history'[2] = history[2]
      /\ \A o : o # m => OutcomeIn(history', o) = OutcomeIn(history, o)
  BY <1>1, OthersSee
<1>3. Len(history) \in Nat /\ Len(history') \in Nat /\ Len(history) >= 2 /\ HistoryLimit \in Nat
      /\ history[2].draft # NoDraft
  BY <1>1, <1>2, ChatAssumption, DraftsAreSets DEF HistoryOK, Row
<1>4. Apart
  BY <1>2, <1>3 DEF Apart
<1> QED
  BY <1>2, <1>3, <1>4 DEF DraftInv, Completed

\* The commit of an answer makes the draft of the turn the last one.
LEMMA CommitDrafts ==
    ASSUME OutcomeInv, DraftInv, NEW m \in Callers, NEW attached \in BOOLEAN,
           turn[m].stage \in {"thinking", "fetching", "backtesting"},
           history' = Committed(m, attached), overlapped' = overlapped,
           \A o \in Callers \ {m} : turn'[o] = turn[o],
           \/ turn'[m].stage = "over"
           \/ turn'[m].stage = "cancelling" /\ turn'[m].base = turn[m].base
    PROVE  DraftInv'
<1> SUFFICES ASSUME Apart' PROVE /\ \A o \in Callers : Completed(o)' => o \in LastDraft(history')
                                 /\ \A n, o \in Callers : InProgress(n)' /\ InProgress(o)' => n = o
                                 /\ \A o \in Callers : InProgress(o)' => WorksOnLatest(o)'
  BY DEF DraftInv
<1>1. /\ StatusIn(history, m) = {"processing"} /\ OutcomeIn(history, m) = {}
      /\ InProgress(m)
  BY TurnFacts DEF TurnInv, InProgress
<1>2. /\ OwnRows(history, m, history') /\ NewDraft(m) \in InputSets
      /\ Len(history') = Len(history) + 1 /\ history'[Len(history')].draft = NewDraft(m)
  BY <1>1, CommitShows
<1>3. /\ Apart /\ WorksOnLatest(m) /\ \A o \in Callers : InProgress(o) => o = m
      /\ history' \in Seq(Rows) /\ Len(history') >= 2 /\ history'[2].draft # NoDraft
      /\ \A o \in Callers \ {m} : Completed(o)' = Completed(o)
  BY <1>1, <1>2, OwnStepDrafts
<1>4. LastDraft(history') = NewDraft(m)
  <2>1. NewDraft(m) # NoDraft /\ Len(history') <= HistoryLimit
    BY <1>2, DraftsAreSets DEF Apart
  <2> QED
    BY <1>2, <1>3, <2>1, DraftOfLastRow
<1>5. \A o \in Callers \ {m} : Completed(o) => o \in turn[m].base
  BY <1>3 DEF WorksOnLatest
<1>6. \A o \in Callers : Completed(o)' => o \in LastDraft(history')
  BY <1>3, <1>4, <1>5 DEF NewDraft
<1>7. \A o \in Callers : InProgress(o)' => o = m
  BY <1>3 DEF InProgress
<1>8. InProgress(m)' => WorksOnLatest(m)'
  <2> SUFFICES ASSUME InProgress(m)' PROVE WorksOnLatest(m)'
    OBVIOUS
  <2>1. turn'[m].stage = "cancelling" /\ turn'[m].base = turn[m].base
    BY DEF InProgress
  <2> QED
    BY <1>2, <1>3, <1>5, <2>1 DEF WorksOnLatest, NewDraft
<1> QED
  BY <1>6, <1>7, <1>8

\* The rows keep their drafts; new ones have none; the turn is over.
LEMMA HandlerDrafts ==
    ASSUME OutcomeInv, DraftInv, NEW m \in Callers, WriteFailure(m) \/ WriteCancel(m)
    PROVE  DraftInv'
<1> DEFINE status == IF turn[m].stage = "failing" THEN "failed" ELSE "completed"
           f == WithStatus(history, m, status)
           r == Row(m, "assistant", "failed", NoDraft)
<1> SUFFICES ASSUME Apart' PROVE /\ \A o \in Callers : Completed(o)' => o \in LastDraft(history')
                                 /\ \A n, o \in Callers : InProgress(n)' /\ InProgress(o)' => n = o
                                 /\ \A o \in Callers : InProgress(o)' => WorksOnLatest(o)'
  BY DEF DraftInv
<1>1. /\ HistoryOK /\ history \in Seq(Rows) /\ turn \in [Callers -> Turns] /\ turn[m] \in Turns
      /\ TurnInv(history, turn[m], m)
  BY TurnFacts
<1>2. /\ \A o \in Callers \ {m} : turn'[o] = turn[o]
      /\ turn'[m].stage = "over" /\ overlapped' = overlapped /\ InProgress(m)
  BY <1>1, EndedTurn DEF WriteFailure, WriteCancel, Over, InProgress
<1>3. /\ r \in Rows /\ r.of = m /\ r.who = "assistant" /\ r.status = "failed" /\ r.draft = NoDraft
  BY DEF Row, Rows, Statuses
<1>4. status \in Statuses /\ Updates(history, m, status, f) /\ RowChanged(history, m, f)
  <2>1. status \in Statuses
    BY DEF Statuses
  <2> HIDE DEF status
  <2>2. Updates(history, m, status, f)
    BY <1>1, <2>1, StatusUpdates
  <2> QED
    BY <2>1, <2>2 DEF RowChanged, Statuses
<1>5. \A k \in 1..Len(history) : f[k].draft = history[k].draft
  <2>1. \A k \in 1..Len(history) : history[k] \in Rows
    BY <1>1
  <2>2. ASSUME NEW k \in 1..Len(history) PROVE f[k].draft = history[k].draft
    <3>1. f[k] = IF history[k].of = m /\ history[k].who = "user" THEN [history[k] EXCEPT !.status = status] ELSE history[k]
      BY <1>1, SMTT(30) DEF WithStatus
    <3> QED
      BY <2>1, <3>1 DEF Rows
  <2> QED
    BY <2>2
<1>6. \/ history' = history
      \/ history' = f
      \/ history' = Append(f, r)
  BY DEF WriteFailure, WriteCancel, StatusFailed
<1>7. turn[m].stage = "cancelling" \/ (OutcomeIn(history, m) = {} /\ history' = Append(f, r))
  BY <1>1 DEF WriteFailure, WriteCancel, StatusFailed, TurnInv
<1> HIDE DEF f, r, status
<1>8. /\ f \in Seq(Rows) /\ Len(f) = Len(history)
      /\ OutcomeIn(f, m) = OutcomeIn(history, m) /\ Len(history) \in Nat
  BY <1>1, <1>4 DEF Updates
<1>9. OwnRows(history, m, history')
  BY <1>3, <1>4, <1>6 DEF OwnRows, RowChanged
<1>10. /\ Apart /\ WorksOnLatest(m) /\ \A o \in Callers : InProgress(o) => o = m
       /\ history' \in Seq(Rows) /\ Len(history') >= 2 /\ history'[2].draft # NoDraft
       /\ \A o \in Callers \ {m} : Completed(o)' = Completed(o)
  BY <1>2, <1>9, OwnStepDrafts
<1>11. LastDraft(history') = LastDraft(history)
  <2>1. /\ Len(history') \in Nat /\ Len(history') >= Len(history)
        /\ \A k \in 1..Len(history) : history'[k].draft = history[k].draft
        /\ \A k \in 1..Len(history') : k > Len(history) => history'[k].draft = NoDraft
    <3>1. CASE history' = history
      BY <1>8, <3>1
    <3>2. CASE history' = f
      BY <1>5, <1>8, <3>2
    <3>3. CASE history' = Append(f, r)
      <4>1. /\ Len(history') = Len(f) + 1 /\ history'[Len(history')] = r
            /\ \A k \in 1..Len(f) : history'[k] = f[k]
        BY <1>3, <1>8, <3>3, Appended
      <4> QED
        BY <1>3, <1>5, <1>8, <4>1
    <3> QED
      BY <1>6, <3>1, <3>2, <3>3
  <2>2. Len(history) >= 2 /\ history[2].draft # NoDraft
    BY <1>1, DraftsAreSets DEF HistoryOK, Row
  <2> QED
    BY <1>1, <1>10, <2>1, <2>2, SameDrafts
<1>12. Completed(m)' => Completed(m)
  <2>1. CASE history' \in {history, f}
    BY <1>8, <2>1 DEF Completed
  <2>2. CASE history' = Append(f, r)
    <3>1. OutcomeIn(Append(f, r), m) = OutcomeIn(f, m) \cup (IF r.of = m /\ r.who = "assistant" THEN {r.status} ELSE {})
      <4>1. f \in Seq(Rows) /\ r \in Rows
        BY <1>3, <1>8
      <4> QED
        BY <4>1, Appended
    <3> QED
      BY <1>3, <1>8, <2>2, <3>1 DEF Completed
  <2> QED
    BY <1>6, <2>1, <2>2
<1>13. \A o \in Callers : ~InProgress(o)'
  BY <1>2, <1>10 DEF InProgress
<1>14. \A o \in Callers : Completed(o) => o \in LastDraft(history)
  BY <1>10 DEF DraftInv
<1> QED
  BY <1>10, <1>11, <1>12, <1>13, <1>14

\* The task reads the latest draft.
LEMMA StartDrafts == ASSUME OutcomeInv, DraftInv, NEW m \in Callers, Start(m) PROVE DraftInv'
<1> SUFFICES ASSUME Apart' PROVE /\ \A o \in Callers : Completed(o)' => o \in LastDraft(history')
                                 /\ \A n, o \in Callers : InProgress(n)' /\ InProgress(o)' => n = o
                                 /\ \A o \in Callers : InProgress(o)' => WorksOnLatest(o)'
  BY DEF DraftInv
<1>1. /\ turn \in [Callers -> Turns] /\ turn[m] \in Turns
  BY TurnFacts
<1>2. /\ turn[m].stage = "queued" /\ history' = history /\ overlapped' = overlapped
      /\ turn' = [turn EXCEPT ![m].stage = "thinking", ![m].base = LastDraft(history)]
  BY DEF Start
<1>3. /\ \A o \in Callers \ {m} : turn'[o] = turn[o]
      /\ turn'[m].stage = "thinking" /\ turn'[m].base = LastDraft(history)
  BY <1>1, <1>2 DEF Turns
<1>4. Apart /\ \A o : Completed(o)' = Completed(o)
  BY <1>2 DEF Apart, Completed
<1>5. /\ \A o \in Callers : Completed(o) => o \in LastDraft(history)
      /\ \A n, o \in Callers : InProgress(n) /\ InProgress(o) => n = o
      /\ WorksOnLatest(m) /\ InProgress(m)
  BY <1>2, <1>4 DEF DraftInv, InProgress
<1>6. \A o \in Callers : InProgress(o)' => o = m
  BY <1>3, <1>5 DEF InProgress
<1>7. WorksOnLatest(m)'
  BY <1>2, <1>3, <1>4, <1>5 DEF WorksOnLatest
<1> QED
  BY <1>2, <1>4, <1>5, <1>6, <1>7

\* A message is sent while no turn is in progress, or the premise is gone.
LEMMA SendDrafts == ASSUME OutcomeInv, DraftInv, NEW m \in Callers, Send(m) PROVE DraftInv'
<1> DEFINE r == Row(m, "user", "processing", NoDraft)
<1> SUFFICES ASSUME Apart' PROVE /\ \A o \in Callers : Completed(o)' => o \in LastDraft(history')
                                 /\ \A n, o \in Callers : InProgress(n)' /\ InProgress(o)' => n = o
                                 /\ \A o \in Callers : InProgress(o)' => WorksOnLatest(o)'
  BY DEF DraftInv
<1>1. /\ HistoryOK /\ history \in Seq(Rows) /\ turn \in [Callers -> Turns] /\ turn[m] \in Turns
  BY TurnFacts
<1>2. /\ turn' = [turn EXCEPT ![m].stage = "queued"]
      /\ history' = Append(history, r)
      /\ overlapped' = (overlapped \/ \E o \in Callers : InProgress(o))
  BY DEF Send, To
<1>3. r \in Rows /\ r.of = m /\ r.who = "user" /\ r.draft = NoDraft
  BY DEF Row, Rows, Statuses
<1> HIDE DEF r
<1>4. /\ history' \in Seq(Rows) /\ Len(history') = Len(history) + 1 /\ history'[Len(history')] = r
      /\ \A k \in 1..Len(history) : history'[k] = history[k]
  BY <1>1, <1>2, <1>3, Appended
<1>5. ASSUME NEW o PROVE OutcomeIn(history', o) = OutcomeIn(history, o)
  <2>1. OutcomeIn(Append(history, r), o)
          = OutcomeIn(history, o) \cup (IF r.of = o /\ r.who = "assistant" THEN {r.status} ELSE {})
    <3>1. history \in Seq(Rows) /\ r \in Rows
      BY <1>1, <1>3
    <3> QED
      BY <3>1, Appended
  <2> QED
    BY <1>2, <1>3, <2>1
<1>6. Len(history) \in Nat /\ Len(history') \in Nat /\ HistoryLimit \in Nat /\ Len(history) >= 2
      /\ history[2].draft # NoDraft
  BY <1>1, <1>4, ChatAssumption, DraftsAreSets DEF HistoryOK, Row
<1>7. Apart /\ \A o \in Callers : ~InProgress(o)
  <2>1. ~overlapped'
    BY Zenon DEF Apart
  <2>2. ~overlapped /\ ~ \E o \in Callers : InProgress(o)
    BY <1>2, <2>1, Zenon
  <2>3. Len(history) <= HistoryLimit
    BY <1>4, <1>6 DEF Apart
  <2> QED
    BY <2>2, <2>3 DEF Apart
<1>8. \A o \in Callers : Completed(o) => o \in LastDraft(history)
  BY <1>7 DEF DraftInv
<1>9. LastDraft(history') = LastDraft(history)
  <2>1. \A k \in 1..Len(history') : k > Len(history) => history'[k].draft = NoDraft
    BY <1>3, <1>4, <1>6
  <2>2. Len(history') >= Len(history) /\ \A k \in 1..Len(history) : history'[k].draft = history[k].draft
    BY <1>4, <1>6
  <2> QED
    BY <1>1, <1>4, <1>6, <2>1, <2>2, SameDrafts
<1>10. \A o \in Callers : InProgress(o)' => o = m
  BY <1>1, <1>2, <1>7 DEF InProgress
<1>11. WorksOnLatest(m)'
  BY <1>1, <1>2, <1>3, <1>4 DEF WorksOnLatest, Turns
<1> QED
  BY <1>5, <1>8, <1>9, <1>10, <1>11 DEF Completed

\* The commit before a backtest writes the draft of the turn into the last row.
LEMMA RunSymbolDrafts == ASSUME OutcomeInv, DraftInv, NEW m \in Callers, RunSymbol(m) PROVE DraftInv'
<1>1. /\ HistoryOK /\ history \in Seq(Rows) /\ turn \in [Callers -> Turns] /\ turn[m] \in Turns
      /\ TurnInv(history, turn[m], m)
  BY TurnFacts
<1>2. /\ turn[m].stage = "backtesting" /\ InProgress(m) /\ overlapped' = overlapped
      /\ turn' = [turn EXCEPT ![m].stage = "running", ![m].attached = FALSE, ![m].ran = TRUE]
  BY DEF RunSymbol, InProgress
<1>3. /\ \A o \in Callers \ {m} : turn'[o] = turn[o]
      /\ turn'[m].stage = "running" /\ turn'[m].base = turn[m].base
  BY <1>1, <1>2 DEF Turns
<1>4. CASE history' = history
  BY <1>2, <1>3, <1>4, UntouchedDrafts DEF InProgress
<1>5. CASE history' = WithUser(history, m, "processing", NewDraft(m))
  <2> SUFFICES ASSUME Apart' PROVE /\ \A o \in Callers : Completed(o)' => o \in LastDraft(history')
                                   /\ \A n, o \in Callers : InProgress(n)' /\ InProgress(o)' => n = o
                                   /\ \A o \in Callers : InProgress(o)' => WorksOnLatest(o)'
    BY DEF DraftInv
  <2>1. NewDraft(m) \in InputSets /\ "processing" \in Statuses
    BY <1>1 DEF NewDraft, Turns, InputSets, Statuses
  <2>2. Updates(history, m, "processing", history')
    BY <1>1, <1>5, <2>1, UserUpdates
  <2>3. OwnRows(history, m, history')
    BY <1>5, <2>1 DEF OwnRows, RowChanged, Statuses
  <2>4. /\ Apart /\ WorksOnLatest(m) /\ \A o \in Callers : InProgress(o) => o = m
        /\ history' \in Seq(Rows) /\ Len(history') >= 2 /\ history'[2].draft # NoDraft
        /\ \A o \in Callers \ {m} : Completed(o)' = Completed(o)
    BY <1>2, <2>3, OwnStepDrafts
  <2>5. /\ history[Len(history)].of = m /\ history[Len(history)].who = "user"
        /\ Len(history) \in Nat /\ Len(history) >= 2 /\ Len(history) \in 1..Len(history)
    BY <1>1, <1>2, <2>4 DEF WorksOnLatest, HistoryOK
  <2>6. history'[Len(history)] = [history[Len(history)] EXCEPT !.status = "processing", !.draft = NewDraft(m)]
    <3>1. Len(history) \in DOMAIN history
      BY <1>1, <2>5
    <3> QED
      BY <1>5, <2>5, <3>1 DEF WithUser
  <2>7. history'[Len(history)].draft = NewDraft(m) /\ Len(history') = Len(history)
        /\ history'[Len(history)].of = m /\ history'[Len(history)].who = "user"
    <3>1. history[Len(history)] \in Rows
      BY <1>1, <2>5
    <3> QED
      BY <2>2, <2>5, <2>6, <3>1 DEF Updates, Rows
  <2>8. LastDraft(history') = NewDraft(m)
    <3>1. NewDraft(m) # NoDraft /\ Len(history') <= HistoryLimit
      BY <2>1, DraftsAreSets DEF Apart
    <3> QED
      BY <2>4, <2>7, <3>1, DraftOfLastRow
  <2>9. ~Completed(m)'
    BY <1>1, <1>2, <2>2 DEF Updates, Completed, TurnInv
  <2>10. \A o \in Callers \ {m} : Completed(o) => o \in turn[m].base
    BY <1>2, <2>4 DEF WorksOnLatest
  <2>11. \A o \in Callers : InProgress(o)' => o = m
    BY <1>3, <2>4 DEF InProgress
  <2>12. WorksOnLatest(m)'
    BY <1>3, <2>4, <2>7, <2>10 DEF WorksOnLatest
  <2> QED
    BY <2>4, <2>8, <2>9, <2>10, <2>11, <2>12 DEF NewDraft
<1> QED
  BY <1>4, <1>5 DEF RunSymbol

LEMMA DraftsKept == OutcomeInv /\ DraftInv /\ [ChatNext]_allVars => DraftInv'
<1> SUFFICES ASSUME OutcomeInv, DraftInv, [ChatNext]_allVars PROVE DraftInv'
  OBVIOUS
<1>1. turn \in [Callers -> Turns]
  BY DEF OutcomeInv, ChatTypeOK
<1>2. ASSUME NEW m \in Callers, Ask(m) \/ Fetch(m) \/ Backtest(m) \/ SymbolEnds(m) \/ Fail(m)
      PROVE  DraftInv'
  <2>1. /\ history' = history /\ overlapped' = overlapped
        /\ \A o \in Callers \ {m} : turn'[o] = turn[o]
        /\ turn[m].stage \in {"thinking", "fetching", "backtesting", "running"}
    BY <1>1, <1>2 DEF Ask, Fetch, Backtest, SymbolEnds, Fail, To
  <2>2. turn'[m].base = turn[m].base
    <3>1. turn[m] \in Turns
      BY <1>1
    <3> QED
      BY <1>1, <1>2, <3>1 DEF Ask, Fetch, Backtest, SymbolEnds, Fail, To, Turns
  <2> QED
    BY <2>1, <2>2, UntouchedDrafts DEF InProgress
<1>3. ASSUME NEW m \in Callers, Reply(m) PROVE DraftInv'
  <2>1. history' = history /\ overlapped' = overlapped /\ turn' = turn
    BY <1>3 DEF Reply, chatVars
  <2> QED
    BY <2>1, UntouchedDrafts DEF InProgress
<1>4. ASSUME NEW m \in Callers, HandlerFails(m) \/ PauseHandler(m) PROVE DraftInv'
  <2>1. /\ history' = history /\ overlapped' = overlapped
        /\ turn' = [turn EXCEPT ![m] = Ended(m, TRUE)]
    BY <1>4 DEF HandlerFails, PauseHandler, Over
  <2>2. turn'[m].stage = "over" /\ \A o \in Callers \ {m} : turn'[o] = turn[o]
    BY <1>1, <2>1, EndedTurn
  <2> QED
    BY <2>1, <2>2, UntouchedDrafts DEF InProgress
<1>5. ASSUME NEW m \in Callers, Answer(m) \/ FetchReplies(m) PROVE DraftInv'
  <2>1. /\ turn[m].stage \in {"thinking", "fetching", "backtesting"} /\ overlapped' = overlapped
        /\ turn' = [turn EXCEPT ![m] = Ended(m, FALSE)]
        /\ history' = Committed(m, turn[m].attached) \/ history' = Committed(m, TRUE)
    BY <1>5 DEF Answer, Answering, FetchReplies, Refetched, Over
  <2>2. turn[m].attached \in BOOLEAN /\ TRUE \in BOOLEAN
    BY <1>1 DEF Turns
  <2>3. turn'[m].stage = "over" /\ \A o \in Callers \ {m} : turn'[o] = turn[o]
    BY <1>1, <2>1, EndedTurn
  <2> QED
    BY <2>1, <2>2, <2>3, CommitDrafts
<1>6. ASSUME NEW m \in Callers, Pause(m) PROVE DraftInv'
  <2>1. /\ turn[m].stage \in {"thinking", "fetching", "backtesting", "running"} /\ overlapped' = overlapped
        /\ turn' = [turn EXCEPT ![m].stage = "cancelling", ![m].paused = TRUE]
        /\ \/ history' = history
           \/ Answering(m) /\ history' = Committed(m, turn[m].attached)
    BY <1>6 DEF Pause
  <2>2. /\ turn'[m].stage = "cancelling" /\ turn'[m].base = turn[m].base
        /\ \A o \in Callers \ {m} : turn'[o] = turn[o]
    BY <1>1, <2>1 DEF Turns
  <2>3. CASE history' = history
    BY <2>1, <2>2, <2>3, UntouchedDrafts DEF InProgress
  <2>4. CASE Answering(m) /\ history' = Committed(m, turn[m].attached)
    <3>1. turn[m].attached \in BOOLEAN /\ turn[m].stage \in {"thinking", "fetching", "backtesting"}
      BY <1>1, <2>4 DEF Turns, Answering
    <3> QED
      BY <2>1, <2>2, <2>4, <3>1, CommitDrafts
  <2> QED
    BY <2>1, <2>3, <2>4
<1>7. CASE Restart
  <2>1. /\ turn' = [m \in Callers |-> IF InProgress(m) THEN Ended(m, TRUE) ELSE turn[m]]
        /\ history' = history /\ overlapped' = overlapped
    BY <1>7 DEF Restart
  <2>2. \A m \in Callers : ~InProgress(m)'
    BY <2>1, EndedTurn DEF InProgress
  <2> QED
    BY <2>1, <2>2, UntouchedDrafts
<1>8. CASE UNCHANGED allVars
  <2>1. history' = history /\ overlapped' = overlapped /\ turn' = turn
    BY <1>8 DEF allVars, chatVars
  <2> QED
    BY <2>1, UntouchedDrafts DEF InProgress
<1> QED
  BY <1>2, <1>3, <1>4, <1>5, <1>6, <1>7, <1>8, StartDrafts, SendDrafts, RunSymbolDrafts, HandlerDrafts
     DEF ChatNext, Progress

\* For any number of messages: while turns do not overlap and the history is read as a whole,
\* the latest draft has the inputs of every turn that was answered, whatever was paused,
\* failed, detached or lost in between.
THEOREM DraftsAlwaysAccumulate == ChatSpec => []DraftsAccumulate
<1>1. DraftInv => DraftsAccumulate
  <2>1. \A m : (\E k \in Answers(m) : history[k].status = "completed") <=> Completed(m)
    BY SeenInHistory DEF Completed
  <2> QED
    BY <2>1 DEF DraftInv, Apart, DraftsAccumulate
<1> QED
  BY <1>1, OutcomesAlways, DraftStarts, DraftsKept, PTL DEF ChatSpec
-----------------------------------------------------------------------------
(* The calls of the turns rotate the keys as KeyRotation has it; a pause   *)
(* or a restart ends them.                                                 *)

LEMMA TurnsKeepRotation == RotationInv /\ [ChatNext]_allVars => RotationInv'
<1> SUFFICES ASSUME RotationInv, [ChatNext]_allVars PROVE RotationInv'
  OBVIOUS
<1>1. ASSUME [Next]_vars PROVE RotationInv'
  BY <1>1, RotationKeeps
<1>2. ASSUME NEW m \in Callers, Ask(m) \/ Reply(m) PROVE [Next]_vars
  BY <1>2 DEF Ask, Reply, Next
<1>3. ASSUME NEW m \in Callers, Pause(m) PROVE RotationInv'
  <2>1. CASE UNCHANGED vars
    BY <1>1, <2>1
  <2>2. CASE End(m, "returned") /\ active' = active
    BY <2>2, EndKeeps DEF Results
  <2> QED
    BY <1>3, <2>1, <2>2 DEF Pause
<1>4. CASE Restart
  <2>1. /\ key' = [m \in Callers |-> NoKey] /\ left' = [m \in Callers |-> 0]
        /\ good' = good /\ active' = active /\ result' = result
    BY <1>4 DEF Restart
  <2> QED
    BY <2>1, KeysAreNumbers DEF RotationInv, TypeOK, NeverOutOfAttempts, InCall
<1>5. \/ \E m \in Callers : Ask(m) \/ Reply(m) \/ Pause(m)
      \/ Restart
      \/ UNCHANGED vars
  BY DEF ChatNext, Progress, Start, Answer, Fetch, FetchReplies, Backtest, RunSymbol, SymbolEnds,
         WriteFailure, WriteCancel, Send, Fail, HandlerFails, PauseHandler, allVars
<1> QED
  BY <1>1, <1>2, <1>3, <1>4, <1>5

\* The turns of a chat, which are paused and lost, keep the promise of the rotation too: no
\* call of a turn tries a key twice.
THEOREM TurnsAscend == ChatSpec => AttemptsAscend
<1> DEFINE Ascend ==
      \A c \in Callers : key[c] # NoKey /\ key'[c] # NoKey /\ left'[c] # left[c] => key'[c] > key[c]
<1>1. ASSUME RotationInv, [ChatNext]_allVars PROVE [Ascend]_vars
  <2>1. ASSUME [Next]_vars PROVE [Ascend]_vars
    BY <1>1, <2>1, StepAscends
  <2>2. ASSUME NEW m \in Callers, Pause(m) PROVE [Ascend]_vars
    BY <1>1, <2>2 DEF Pause, End, RotationInv, TypeOK
  <2>3. CASE Restart
    BY <2>3 DEF Restart
  <2>4. ASSUME NEW m \in Callers, Ask(m) \/ Reply(m) PROVE [Next]_vars
    BY <2>4 DEF Ask, Reply, Next
  <2>5. \/ \E m \in Callers : Ask(m) \/ Reply(m) \/ Pause(m)
        \/ Restart
        \/ UNCHANGED vars
    BY <1>1 DEF ChatNext, Progress, Start, Answer, Fetch, FetchReplies, Backtest, RunSymbol, SymbolEnds,
           WriteFailure, WriteCancel, Send, Fail, HandlerFails, PauseHandler, allVars
  <2> QED
    BY <2>1, <2>2, <2>3, <2>4, <2>5
<1>2. ChatInit => RotationInv
  BY RotationStarts DEF ChatInit
<1>3. ChatSpec => [][Ascend]_vars
  BY <1>1, <1>2, TurnsKeepRotation, PTL DEF ChatSpec
<1> QED BY <1>3 DEF AttemptsAscend, Ascend
-----------------------------------------------------------------------------
(* The workflow.  A step reads the draft, the row and the file, each       *)
(* written by another step.  What ties them together is WorkflowInv: a     *)
(* plan was made for the inputs of its draft; a row has the asset that its *)
(* file is named by; a draft in a mode that may be backtested is that of   *)
(* the row; and while nothing has spoilt it, the file is what was          *)
(* assembled.                                                              *)
PlanFits(d) == d.plan # NoPlan => d.plan.of = d.symbol

Stored ==
    /\ row \in [path : AnyAsset, yaml : Yamls, of : AnyAsset]
    /\ row.of = row.yaml.symbol
    /\ row.path = row.yaml.symbol
    /\ file \in Yamls
    /\ ~spoilt => file = row.yaml /\ row.yaml.numbers = row.yaml.symbol

\* The draft is that of the row.
Current(d, s) ==
    /\ d.plan \in Plans
    /\ d.plan.of = d.symbol
    /\ d.symbol = row.path
    /\ ~s => d.plan.rules = row.yaml.rules /\ d.risk = row.yaml.risk

WorkflowInv ==
    /\ draft \in Drafts
    /\ spoilt \in BOOLEAN
    /\ PlanFits(draft)
    /\ row # NoRow => Stored
    /\ draft.mode \in Built => Stored /\ Current(draft, spoilt)
    /\ BacktestsTheStrategy

Modes == Built \cup {"collect_user_input", "plan_signals"}

LEMMA ModesApart == "collect_user_input" \notin Built /\ "plan_signals" \notin Built
BY DEF Built

\* A message leaves the plan and the mode alone if the core inputs stay, and drops
\* them otherwise.
LEMMA HeardFacts ==
    ASSUME NEW d \in Drafts, NEW symbol \in AnyAsset, NEW risk \in Risks
    PROVE  LET h == Heard(d, symbol, risk)
           IN  /\ h \in Drafts /\ h.symbol = symbol /\ h.risk = risk
               /\ symbol = d.symbol => h.plan = d.plan /\ h.mode = d.mode
               /\ symbol # d.symbol => h.plan = NoPlan /\ h.mode = "collect_user_input"
BY DEF Heard, Core, Reset, Drafts, AnyAsset

\* A turn that ends in a reply may be backtested afterwards only if it might before, and
\* a plan it makes is for its inputs.
LEMMA RepliesFacts ==
    ASSUME NEW d \in Drafts, NEW heard \in Drafts, NEW yes \in BOOLEAN, PlanFits(heard),
           Replies(d, heard, yes)
    PROVE  /\ draft' \in Drafts /\ PlanFits(draft')
           /\ draft'.mode \in Built =>
                 /\ heard.mode \in Built
                 /\ draft'.plan = heard.plan /\ draft'.symbol = heard.symbol /\ draft'.risk = heard.risk
<1> DEFINE agreed == Agreed(d, heard, yes)
           e == [heard EXCEPT !.confirmed = @ \/ (Complete(heard) /\ agreed)]
<1>1. agreed \in BOOLEAN /\ Complete(heard) \in BOOLEAN
  BY DEF Agreed, Complete
<1>2. /\ e \in Drafts /\ e.mode = heard.mode /\ e.plan = heard.plan /\ e.symbol = heard.symbol
      /\ e.risk = heard.risk
  BY <1>1 DEF Drafts
<1>3. \/ draft' = e
      \/ draft' = [e EXCEPT !.mode = "collect_user_input"]
      \/ draft' = [e EXCEPT !.mode = "plan_signals"]
      \/ \E r \in Rules : draft' = [e EXCEPT !.plan = Plan(e, r), !.mode = "plan_signals"]
  BY DEF Replies
<1> HIDE DEF e
<1>4. CASE draft' = e
  BY <1>2, <1>4 DEF PlanFits
<1>5. CASE draft' = [e EXCEPT !.mode = "collect_user_input"] \/ draft' = [e EXCEPT !.mode = "plan_signals"]
  BY <1>2, <1>5, ModesApart DEF PlanFits, Drafts
<1>6. CASE \E r \in Rules : draft' = [e EXCEPT !.plan = Plan(e, r), !.mode = "plan_signals"]
  <2>1. PICK r \in Rules : draft' = [e EXCEPT !.plan = Plan(e, r), !.mode = "plan_signals"]
    BY <1>6
  <2>2. Plan(e, r) \in Plans /\ Plan(e, r).of = e.symbol
    BY <1>2 DEF Plan, Plans, Core, Drafts
  <2> QED BY <1>2, <2>1, <2>2, ModesApart DEF PlanFits, Drafts
<1> QED BY <1>3, <1>4, <1>5, <1>6
-----------------------------------------------------------------------------
LEMMA FreshFacts ==
    Fresh \in Drafts /\ Fresh.plan = NoPlan /\ Fresh.mode = "collect_user_input"
BY WorkflowAssumption DEF Fresh, Drafts, AnyAsset

LEMMA WorkflowStarts == WorkflowInit => WorkflowInv
<1> SUFFICES ASSUME WorkflowInit PROVE WorkflowInv
  OBVIOUS
<1>1. draft = Fresh /\ row = NoRow /\ spoilt = FALSE /\ backtest = NoResult
  BY DEF WorkflowInit
<1>2. BacktestsTheStrategy
  BY <1>1 DEF BacktestsTheStrategy
<1>3. PlanFits(draft)
  BY <1>1, FreshFacts DEF PlanFits
<1> QED BY <1>1, <1>2, <1>3, FreshFacts, ModesApart DEF WorkflowInv

\* Steps that write neither the row nor the file, and run nothing.
LEMMA DraftStep ==
    ASSUME WorkflowInv, UNCHANGED <<row, file>>, backtest' = NoResult,
           spoilt' \in BOOLEAN, spoilt => spoilt',
           draft' \in Drafts, PlanFits(draft'),
           draft'.mode \in Built =>
              /\ draft.mode \in Built
              /\ draft'.plan = draft.plan /\ draft'.symbol = draft.symbol
              /\ ~spoilt' => draft'.risk = draft.risk
    PROVE  WorkflowInv'
<1>1. row' # NoRow => Stored'
  BY DEF WorkflowInv, Stored
<1>2. draft'.mode \in Built => Stored' /\ Current(draft, spoilt)'
  BY DEF WorkflowInv, Stored, Current
<1>3. PlanFits(draft)'
  BY DEF PlanFits
<1>4. BacktestsTheStrategy'
  BY DEF BacktestsTheStrategy
<1> QED BY <1>1, <1>2, <1>3, <1>4 DEF WorkflowInv

LEMMA SignalsStep == WorkflowInv /\ ModifySignals => WorkflowInv'
<1> SUFFICES ASSUME WorkflowInv, ModifySignals PROVE WorkflowInv'
  OBVIOUS
<1>1. PICK plan \in {draft.plan} \cup
                    {IF draft.plan = NoPlan THEN Plan(draft, r) ELSE [draft.plan EXCEPT !.rules = r] : r \in Rules} :
         draft' = [draft EXCEPT !.plan = plan, !.mode = ModeModified(draft)]
  BY DEF ModifySignals
<1>2. draft \in Drafts /\ PlanFits(draft)
  BY DEF WorkflowInv
<1>3. plan \in Plans \cup {NoPlan} /\ (plan # NoPlan => plan.of = draft.symbol)
  <2>1. \A r \in Rules : Plan(draft, r) \in Plans /\ Plan(draft, r).of = draft.symbol
    BY <1>2 DEF Plan, Plans, Core, Drafts
  <2>2. draft.plan # NoPlan =>
           \A r \in Rules : [draft.plan EXCEPT !.rules = r] \in Plans
                            /\ [draft.plan EXCEPT !.rules = r].of = draft.symbol
    BY <1>2 DEF Drafts, Plans, PlanFits
  <2>3. plan = draft.plan \/ \E r \in Rules : plan = IF draft.plan = NoPlan THEN Plan(draft, r)
                                                     ELSE [draft.plan EXCEPT !.rules = r]
    BY <1>1
  <2>4. CASE plan = draft.plan
    BY <1>2, <2>4 DEF Drafts, PlanFits
  <2>5. CASE \E r \in Rules : plan = IF draft.plan = NoPlan THEN Plan(draft, r) ELSE [draft.plan EXCEPT !.rules = r]
    BY <2>1, <2>2, <2>5
  <2> QED BY <2>3, <2>4, <2>5
<1>4. draft' \in Drafts /\ PlanFits(draft') /\ draft'.mode = "plan_signals"
  BY <1>1, <1>2, <1>3 DEF Drafts, PlanFits, ModeModified
<1> QED BY <1>4, DraftStep, ModesApart DEF ModifySignals, Keep, WorkflowInv

LEMMA RiskStep ==
    ASSUME NEW risk \in Risks, NEW yes \in BOOLEAN, WorkflowInv, RiskUpdate(risk, yes),
           UNCHANGED <<row, file, spoilt>>
    PROVE  WorkflowInv'
<1>1. draft \in Drafts /\ PlanFits(draft)
  BY DEF WorkflowInv
<1>2. CASE risk = draft.risk
  BY <1>1, <1>2, DraftStep DEF RiskUpdate, WorkflowInv
<1>3. CASE risk # draft.risk
  <2>1. draft' = [draft EXCEPT !.risk = risk, !.mode = ModeOfRisk(draft)]
    BY <1>3 DEF RiskUpdate
  <2>2. ModeOfRisk(draft) \in Modes /\ ModeOfRisk(draft) \notin Built
    BY <1>1, ModesApart DEF ModeOfRisk, Drafts, Modes
  <2>3. draft' \in Drafts /\ PlanFits(draft') /\ draft'.mode \notin Built
    BY <1>1, <2>1, <2>2 DEF Drafts, PlanFits, Modes
  <2> QED BY <2>3, DraftStep DEF RiskUpdate, WorkflowInv
<1> QED BY <1>2, <1>3

LEMMA InputsStep == WorkflowInv /\ ModifyInputs => WorkflowInv'
<1> SUFFICES ASSUME WorkflowInv, ModifyInputs PROVE WorkflowInv'
  OBVIOUS
<1>1. PICK symbol \in AnyAsset, risk \in Risks, asked \in {"no", "field", "value"} :
         draft' = [[Reset(draft) EXCEPT !.symbol = symbol, !.risk = risk, !.mode = "collect_user_input"]
                     EXCEPT !.asked = asked]
  BY DEF ModifyInputs, AnyAsset
<1>2. draft' \in Drafts /\ PlanFits(draft') /\ draft'.mode = "collect_user_input"
  BY <1>1 DEF WorkflowInv, Drafts, Reset, PlanFits
<1> QED BY <1>2, DraftStep, ModesApart DEF ModifyInputs, Keep, WorkflowInv

LEMMA ReplyStep ==
    ASSUME NEW symbol \in AnyAsset, NEW risk \in Risks, NEW yes \in BOOLEAN, WorkflowInv, Respond(symbol, risk, yes)
    PROVE  WorkflowInv'
<1> DEFINE heard == Heard(draft, symbol, risk)
<1>1. draft \in Drafts /\ PlanFits(draft)
  BY DEF WorkflowInv
<1>2. /\ heard \in Drafts /\ heard.symbol = symbol /\ heard.risk = risk
      /\ symbol = draft.symbol => heard.plan = draft.plan /\ heard.mode = draft.mode
      /\ symbol # draft.symbol => heard.plan = NoPlan /\ heard.mode = "collect_user_input"
  BY <1>1, HeardFacts
<1>3. PlanFits(heard)
  BY <1>1, <1>2 DEF PlanFits
<1>4. Replies(draft, heard, yes) /\ spoilt' = (spoilt \/ Settings(heard)) /\ backtest' = NoResult
      /\ UNCHANGED <<row, file>>
  BY DEF Respond
<1>5. Settings(heard) <=> draft.mode \in Built /\ risk # draft.risk
  BY <1>2 DEF Settings
<1> HIDE DEF heard
<1>6. /\ draft' \in Drafts /\ PlanFits(draft')
      /\ draft'.mode \in Built =>
            /\ heard.mode \in Built
            /\ draft'.plan = heard.plan /\ draft'.symbol = heard.symbol /\ draft'.risk = heard.risk
  BY <1>1, <1>2, <1>3, <1>4, RepliesFacts
<1>7. spoilt' \in BOOLEAN /\ (spoilt => spoilt')
  BY <1>4, <1>5 DEF WorkflowInv
<1>8. draft'.mode \in Built =>
         /\ draft.mode \in Built
         /\ draft'.plan = draft.plan /\ draft'.symbol = draft.symbol
         /\ ~spoilt' => draft'.risk = draft.risk
  BY <1>2, <1>4, <1>5, <1>6, ModesApart
<1> QED BY <1>4, <1>6, <1>7, <1>8, DraftStep

LEMMA NewStrategyStep ==
    ASSUME NEW symbol \in AnyAsset, NEW risk \in Risks, NEW yes \in BOOLEAN, WorkflowInv, NewStrategy(symbol, risk, yes)
    PROVE  WorkflowInv'
<1> DEFINE heard == Heard(Fresh, symbol, risk)
<1>1. Fresh \in Drafts /\ Fresh.plan = NoPlan /\ Fresh.mode = "collect_user_input"
  BY FreshFacts
<1>2. heard \in Drafts /\ heard.plan = NoPlan /\ heard.mode = "collect_user_input"
  BY <1>1, HeardFacts
<1>3. Replies(Fresh, heard, yes) /\ backtest' = NoResult /\ UNCHANGED <<row, file, spoilt>>
  BY DEF NewStrategy, Keep
<1> HIDE DEF heard
<1>4. draft' \in Drafts /\ PlanFits(draft') /\ draft'.mode \notin Built
  BY <1>1, <1>2, <1>3, RepliesFacts, ModesApart DEF PlanFits
<1> QED BY <1>3, <1>4, DraftStep DEF WorkflowInv
-----------------------------------------------------------------------------
LEMMA AssembleStep ==
    ASSUME NEW symbol \in AnyAsset, NEW risk \in Risks, NEW yes \in BOOLEAN, WorkflowInv, Assemble(symbol, risk, yes)
    PROVE  WorkflowInv'
<1> DEFINE heard == Heard(draft, symbol, risk)
           yaml == Yaml(heard, heard.symbol)
<1>1. draft \in Drafts /\ PlanFits(draft)
  BY DEF WorkflowInv
<1>2. /\ heard \in Drafts /\ heard.symbol = symbol /\ heard.risk = risk
      /\ symbol = draft.symbol => heard.plan = draft.plan /\ heard.mode = draft.mode
      /\ symbol # draft.symbol => heard.plan = NoPlan /\ heard.mode = "collect_user_input"
  BY <1>1, HeardFacts
<1>3. heard.plan \in Plans /\ heard.plan.of = symbol /\ symbol = draft.symbol
  BY <1>1, <1>2 DEF Assemble, Assembles, Drafts, PlanFits
<1>4. /\ yaml \in Yamls /\ yaml.symbol = symbol /\ yaml.risk = risk
      /\ yaml.rules = heard.plan.rules /\ yaml.numbers = heard.plan.numbers
  BY <1>2, <1>3 DEF Yaml, Yamls, Plans
<1>5. backtest' = NoResult
  BY DEF Assemble
<1>6. BacktestsTheStrategy'
  BY <1>5 DEF BacktestsTheStrategy
<1>7. CASE /\ file' = yaml
           /\ row' = [path |-> heard.symbol, yaml |-> yaml, of |-> heard.plan.of]
           /\ draft' = [heard EXCEPT !.mode = "assemble_strategy"]
           /\ spoilt' = (heard.plan.numbers # heard.symbol)
  <2> HIDE DEF heard, yaml
  <2>1. draft' \in Drafts /\ draft'.plan = heard.plan /\ draft'.symbol = symbol /\ draft'.risk = risk
    BY <1>2, <1>7 DEF Drafts, Built
  <2>2. PlanFits(draft)'
    BY <1>3, <2>1 DEF PlanFits
  <2>3. Stored'
    BY <1>2, <1>3, <1>4, <1>7 DEF Stored
  <2>4. Current(draft, spoilt)'
    BY <1>2, <1>3, <1>4, <1>7, <2>1 DEF Current
  <2>5. spoilt' \in BOOLEAN
    BY <1>7
  <2> QED BY <1>6, <2>1, <2>2, <2>3, <2>4, <2>5 DEF WorkflowInv
<1>8. CASE /\ IF row # NoRow /\ row.path = heard.symbol THEN file' = yaml /\ spoilt' = TRUE
              ELSE UNCHANGED <<file, spoilt>>
           /\ UNCHANGED <<draft, row>>
  <2>1. CASE row # NoRow /\ row.path = heard.symbol
    <3> HIDE DEF heard, yaml
    <3>1. file' = yaml /\ spoilt' = TRUE /\ UNCHANGED <<draft, row>>
      BY <1>8, <2>1
    <3>2. Stored'
      BY <1>4, <2>1, <3>1 DEF Stored, WorkflowInv
    <3>3. draft'.mode \in Built => Current(draft, spoilt)'
      BY <3>1 DEF Current, WorkflowInv
    <3> QED BY <1>1, <1>6, <3>1, <3>2, <3>3 DEF WorkflowInv, PlanFits
  <2>2. CASE ~(row # NoRow /\ row.path = heard.symbol)
    <3>1. UNCHANGED <<draft, row, file, spoilt>>
      BY <1>8, <2>2
    <3> QED BY <1>5, <3>1, DraftStep DEF WorkflowInv, PlanFits
  <2> QED BY <2>1, <2>2
<1> QED BY <1>7, <1>8 DEF Assemble

LEMMA BacktestStep ==
    ASSUME NEW named \in AnyAsset, NEW risk \in Risks, WorkflowInv, RunBacktest(named, risk)
    PROVE  WorkflowInv'
<1> DEFINE data == IF named # NoAsset THEN named ELSE file.symbol
           heard == Heard(draft, draft.symbol, risk)
           tuned == [heard EXCEPT !.plan.numbers = data]
           asset == IF named # NoAsset THEN named ELSE heard.symbol
           yaml == Yaml(tuned, asset)
           now == spoilt \/ Settings(heard)
           Ends(d, ran) ==
              \/ draft' = [d EXCEPT !.mode = "backtest_complete"] /\ backtest' = Result(named, data, ran, now)
              \/ draft' = [d EXCEPT !.mode = "backtest_confirmation"] /\ backtest' = NoResult
<1>1. /\ draft \in Drafts /\ PlanFits(draft) /\ spoilt \in BOOLEAN
      /\ Stored /\ Current(draft, spoilt)
      /\ draft.mode \in Built
  BY DEF WorkflowInv, RunBacktest
<1>2. /\ heard \in Drafts /\ heard.symbol = draft.symbol /\ heard.risk = risk /\ heard.plan = draft.plan
      /\ heard.mode = draft.mode
  BY <1>1, HeardFacts DEF Drafts
<1>3. data \in AnyAsset /\ asset \in AnyAsset
  BY <1>1, <1>2 DEF Stored, Yamls, Drafts
<1>4. heard.plan \in Plans /\ heard.plan.of = heard.symbol
  BY <1>1, <1>2 DEF Current, PlanFits
<1>5. /\ tuned \in Drafts /\ tuned.symbol = heard.symbol /\ tuned.risk = risk
      /\ tuned.plan \in Plans /\ tuned.plan.rules = heard.plan.rules
      /\ tuned.plan.numbers = data /\ tuned.plan.of = heard.plan.of
  BY <1>2, <1>3, <1>4 DEF Drafts, Plans
<1>6. /\ yaml \in Yamls /\ yaml.symbol = asset /\ yaml.risk = risk
      /\ yaml.rules = draft.plan.rules /\ yaml.numbers = data
  BY <1>2, <1>3, <1>4, <1>5 DEF Yaml, Yamls, Plans
<1>7. now \in BOOLEAN /\ (~now => ~spoilt /\ risk = draft.risk)
  BY <1>1, <1>2 DEF Settings
<1>8. row' = row
  BY DEF RunBacktest
<1> SUFFICES ASSUME TRUE PROVE WorkflowInv'
  OBVIOUS
<1>9. \/ /\ draft' = [heard EXCEPT !.mode = "backtest_confirmation"]
         /\ backtest' = NoResult /\ spoilt' = now /\ UNCHANGED file
      \/ Ends(heard, [file EXCEPT !.symbol = data]) /\ spoilt' = now /\ UNCHANGED file
      \/ /\ Ends(tuned, yaml)
         /\ IF heard.symbol = row.path THEN file' = yaml ELSE UNCHANGED file
         /\ spoilt' = (now \/ data # heard.symbol)
  BY DEF RunBacktest
<1> HIDE DEF heard, tuned, yaml, asset, now
<1>10. ASSUME NEW d \in Drafts, d.symbol = draft.symbol, d.risk = risk, d.plan \in Plans,
              d.plan.rules = draft.plan.rules, d.plan.of = d.symbol,
              draft' \in {[d EXCEPT !.mode = m] : m \in Built}, spoilt' \in BOOLEAN, now => spoilt'
       PROVE  draft' \in Drafts /\ PlanFits(draft)' /\ Current(draft, spoilt)'
  <2>1. draft' \in Drafts /\ draft'.symbol = d.symbol /\ draft'.risk = d.risk /\ draft'.plan = d.plan
    BY <1>10 DEF Drafts
  <2>2. Current(draft, spoilt)'
    BY <1>1, <1>7, <1>8, <1>10, <2>1 DEF Current
  <2>3. PlanFits(draft)'
    BY <1>10, <2>1 DEF PlanFits
  <2> QED BY <2>1, <2>2, <2>3
<1>11. CASE /\ draft' = [heard EXCEPT !.mode = "backtest_confirmation"]
            /\ backtest' = NoResult /\ spoilt' = now /\ UNCHANGED file
  <2>1. draft' \in {[heard EXCEPT !.mode = m] : m \in Built}
    BY <1>11 DEF Built
  <2>2. draft' \in Drafts /\ PlanFits(draft)' /\ Current(draft, spoilt)'
    BY <1>2, <1>4, <1>7, <1>10, <1>11, <2>1
  <2>3. Stored'
    BY <1>1, <1>7, <1>8, <1>11 DEF Stored
  <2>4. BacktestsTheStrategy'
    BY <1>11 DEF BacktestsTheStrategy
  <2> QED BY <1>7, <1>11, <2>2, <2>3, <2>4 DEF WorkflowInv
<1>12. CASE Ends(heard, [file EXCEPT !.symbol = data]) /\ spoilt' = now /\ UNCHANGED file
  <2>1. draft' \in {[heard EXCEPT !.mode = m] : m \in Built}
    BY <1>12 DEF Built
  <2>2. draft' \in Drafts /\ PlanFits(draft)' /\ Current(draft, spoilt)'
    BY <1>2, <1>4, <1>7, <1>10, <1>12, <2>1
  <2>3. Stored'
    BY <1>1, <1>7, <1>8, <1>12 DEF Stored
  <2>4. BacktestsTheStrategy'
    <3>1. SUFFICES ASSUME backtest' # NoResult, ~backtest'.spoilt PROVE BacktestsTheStrategy'
      BY DEF BacktestsTheStrategy
    <3>2. backtest' = Result(named, data, [file EXCEPT !.symbol = data], now)
      BY <1>12, <3>1
    <3>3. ~now /\ file = row.yaml /\ row.yaml.numbers = row.yaml.symbol
      BY <1>1, <1>7, <3>1, <3>2 DEF Result, Stored
    <3> QED BY <1>1, <1>8, <3>2, <3>3 DEF BacktestsTheStrategy, Result, Stored, Yamls
  <2> QED BY <1>7, <1>12, <2>2, <2>3, <2>4 DEF WorkflowInv
<1>13. CASE /\ Ends(tuned, yaml)
            /\ IF heard.symbol = row.path THEN file' = yaml ELSE UNCHANGED file
            /\ spoilt' = (now \/ data # heard.symbol)
  <2>1. draft' \in {[tuned EXCEPT !.mode = m] : m \in Built}
    BY <1>13 DEF Built
  <2>2. spoilt' \in BOOLEAN /\ (now => spoilt') /\ (~spoilt' => ~now /\ data = heard.symbol)
    BY <1>7, <1>13
  <2>3. draft' \in Drafts /\ PlanFits(draft)' /\ Current(draft, spoilt)'
    BY <1>2, <1>4, <1>5, <1>10, <2>1, <2>2
  <2>4. file' = yaml
    BY <1>1, <1>2, <1>13 DEF Current
  <2>5. ~now => yaml = [row.yaml EXCEPT !.symbol = asset, !.numbers = data]
    BY <1>1, <1>6, <1>7 DEF Stored, Current, Yamls
  <2>6. ~spoilt' => yaml = row.yaml /\ row.yaml.numbers = row.yaml.symbol
    <3> SUFFICES ASSUME ~spoilt' PROVE yaml = row.yaml /\ row.yaml.numbers = row.yaml.symbol
      OBVIOUS
    <3>1. ~now /\ data = row.yaml.symbol /\ heard.symbol = row.yaml.symbol
      BY <1>1, <1>2, <2>2 DEF Stored, Current
    <3>2. row.yaml.numbers = row.yaml.symbol
      BY <1>1, <1>7, <3>1 DEF Stored
    <3>3. asset = row.yaml.symbol
      BY <3>1 DEF asset
    <3>4. row.yaml \in Yamls
      BY <1>1 DEF Stored
    <3> HIDE DEF data
    <3> QED BY <2>5, <3>1, <3>2, <3>3, <3>4, ZenonT(30) DEF Yamls
  <2>7. Stored'
    BY <1>1, <1>6, <1>8, <2>4, <2>6 DEF Stored
  <2>8. BacktestsTheStrategy'
    <3>1. SUFFICES ASSUME backtest' # NoResult, ~backtest'.spoilt PROVE BacktestsTheStrategy'
      BY DEF BacktestsTheStrategy
    <3>2. backtest' = Result(named, data, yaml, now)
      BY <1>13, <3>1
    <3>3. ~now
      BY <3>1, <3>2 DEF Result
    <3>4. named = NoAsset => data = row.yaml.symbol /\ asset = row.yaml.symbol
      BY <1>1, <1>2, <1>7, <3>3 DEF Stored, Current, asset
    <3>5. asset = data
      BY <3>4 DEF asset
    <3> QED BY <1>1, <1>6, <1>8, <2>5, <3>2, <3>3, <3>4, <3>5 DEF BacktestsTheStrategy, Result, Stored
  <2> QED BY <2>2, <2>3, <2>7, <2>8 DEF WorkflowInv
<1> QED BY <1>9, <1>11, <1>12, <1>13
-----------------------------------------------------------------------------
LEMMA RouteStep == WorkflowInv /\ RouteBacktest => WorkflowInv'
<1> SUFFICES ASSUME WorkflowInv, RouteBacktest PROVE WorkflowInv'
  OBVIOUS
<1>1. row # NoRow /\ Stored /\ UNCHANGED <<draft, row, file, spoilt>>
  BY DEF RouteBacktest, WorkflowInv
<1>2. PICK named \in AnyAsset :
         backtest' = Result(named, IF named # NoAsset THEN named ELSE file.symbol,
                          [file EXCEPT !.symbol = IF named # NoAsset THEN named ELSE file.symbol], spoilt)
  BY DEF RouteBacktest, AnyAsset
<1>3. BacktestsTheStrategy'
  <2>1. SUFFICES ASSUME ~spoilt PROVE BacktestsTheStrategy'
    BY <1>2 DEF BacktestsTheStrategy, Result
  <2>2. file = row.yaml /\ row.yaml.numbers = row.yaml.symbol
    BY <1>1, <2>1 DEF Stored
  <2> QED BY <1>1, <1>2, <2>2 DEF BacktestsTheStrategy, Result, Stored, Yamls
<1> QED BY <1>1, <1>3 DEF WorkflowInv, PlanFits, Stored, Current

LEMMA OtherSessionStep == WorkflowInv /\ OtherSession => WorkflowInv'
<1> SUFFICES ASSUME WorkflowInv, OtherSession PROVE WorkflowInv'
  OBVIOUS
<1>1. row # NoRow /\ Stored /\ spoilt' = TRUE /\ backtest' = NoResult /\ UNCHANGED <<draft, row>>
  BY DEF OtherSession, WorkflowInv
<1>2. file' \in Yamls
  BY WorkflowAssumption DEF OtherSession, Yamls, AnyAsset
<1>3. Stored'
  BY <1>1, <1>2 DEF Stored
<1>4. BacktestsTheStrategy'
  BY <1>1 DEF BacktestsTheStrategy
<1> QED BY <1>1, <1>3, <1>4 DEF WorkflowInv, PlanFits, Current

LEMMA SettleStep == WorkflowInv /\ Settle => WorkflowInv'
BY DraftStep DEF Settle, WorkflowInv, PlanFits

LEMMA ConfirmStep == WorkflowInv /\ Confirm => WorkflowInv'
<1> SUFFICES ASSUME WorkflowInv, Confirm PROVE WorkflowInv'
  OBVIOUS
<1>1. draft \in Drafts /\ draft.symbol \in AnyAsset /\ draft.risk \in Risks
  BY DEF WorkflowInv, Drafts
<1>2. CASE Respond(draft.symbol, draft.risk, TRUE)
  BY <1>1, <1>2, ReplyStep
<1>3. CASE Assemble(draft.symbol, draft.risk, TRUE)
  BY <1>1, <1>3, AssembleStep
<1>4. CASE draft' = [Reset(draft) EXCEPT !.mode = "collect_user_input"] /\ backtest' = NoResult /\ Keep
  <2>1. draft' \in Drafts /\ PlanFits(draft') /\ draft'.mode = "collect_user_input"
    BY <1>1, <1>4 DEF Drafts, Reset, PlanFits
  <2> QED BY <1>4, <2>1, DraftStep, ModesApart DEF Keep, WorkflowInv
<1>5. CASE RiskUpdate(draft.risk, TRUE) /\ UNCHANGED <<row, file, spoilt, done>>
  BY <1>1, <1>5, RiskStep
<1> QED BY <1>2, <1>3, <1>4, <1>5 DEF Confirm

LEMMA MessageStep == WorkflowInv /\ Message => WorkflowInv'
<1> SUFFICES ASSUME WorkflowInv, Message PROVE WorkflowInv'
  OBVIOUS
<1>1. CASE ModifySignals
  BY <1>1, SignalsStep
<1>2. CASE ModifyInputs
  BY <1>2, InputsStep
<1>3. CASE \E risk \in Risks, yes \in BOOLEAN : RiskUpdate(risk, yes) /\ Keep
  BY <1>3, RiskStep DEF Keep
<1>4. CASE \E symbol \in AnyAsset, risk \in Risks, yes \in BOOLEAN :
              Respond(symbol, risk, yes) \/ Assemble(symbol, risk, yes) \/ NewStrategy(symbol, risk, yes)
  BY <1>4, ReplyStep, AssembleStep, NewStrategyStep
<1>5. CASE \E named \in AnyAsset, risk \in Risks : RunBacktest(named, risk)
  BY <1>5, BacktestStep
<1> QED BY <1>1, <1>2, <1>3, <1>4, <1>5 DEF Message, AnyAsset

LEMMA WorkflowStep == WorkflowInv /\ [WorkflowNext]_workflowVars => WorkflowInv'
<1> SUFFICES ASSUME WorkflowInv, [WorkflowNext]_workflowVars PROVE WorkflowInv'
  OBVIOUS
<1>1. CASE Message
  BY <1>1, MessageStep
<1>2. CASE RouteBacktest
  BY <1>2, RouteStep
<1>3. CASE OtherSession
  BY <1>3, OtherSessionStep
<1>4. CASE Settle
  BY <1>4, SettleStep
<1>5. CASE Confirm
  BY <1>5, ConfirmStep
<1>6. CASE UNCHANGED workflowVars
  BY <1>6 DEF workflowVars, WorkflowInv, PlanFits, Stored, Current, BacktestsTheStrategy
<1> QED BY <1>1, <1>2, <1>3, <1>4, <1>5, <1>6 DEF WorkflowNext

LEMMA WorkflowInvariant == WorkflowSpec => []WorkflowInv
BY WorkflowStarts, WorkflowStep, PTL DEF WorkflowSpec

\* The draft, the row and the file keep their shape through every route.
THEOREM WorkflowTyped == WorkflowSpec => []WorkflowTypeOK
<1>1. WorkflowInv => WorkflowTypeOK
  BY DEF WorkflowInv, WorkflowTypeOK, Stored
<1> QED BY <1>1, WorkflowInvariant, PTL

\* For any assets, rules and settings, a backtest, by a chat message or by the route, is
\* of the strategy it is stored with (chat_service.py:4762-4960, routes/backtest.py:351-389).
THEOREM AlwaysBacktestsTheStrategy == WorkflowSpec => []BacktestsTheStrategy
<1>1. WorkflowInv => BacktestsTheStrategy
  BY DEF WorkflowInv
<1> QED BY <1>1, WorkflowInvariant, PTL
=============================================================================
