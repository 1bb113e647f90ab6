----------------------- MODULE UniverseEvaluateProofs -----------------------
(***************************************************************************)
(* Proofs about UniverseEvaluate for every set of symbols and of calls in  *)
(* flight, every list a resolver may answer with, every length of a        *)
(* refresh window, and any number of bars.                                 *)
(***************************************************************************)
EXTENDS UniverseEvaluate, SumLemmas

\* The symbols a call has evaluated so far, each with an answer.
Answered(raw) == {raw[i].symbol : i \in DOMAIN raw}

IsSequence(raw) == raw \in Seq({raw[i] : i \in DOMAIN raw})

Fields == {"stage", "bar", "sent", "todo", "raw", "pool", "exits", "entries", "skipped"}

\* What every call that is being served knows, and which of its held symbols wait.
Managing(x) ==
    /\ Fields \subseteq DOMAIN x
    /\ x.stage \in {"fanout", "replied"}
    /\ x.todo \in Seq(Symbols)
    /\ IsSequence(x.raw)
    /\ HeldIn(x.sent) \subseteq Range(x.todo) \cup Answered(x.raw)
    /\ x.stage = "replied" => x.todo = << >>

Resolving(x) ==
    /\ {"stage", "bar", "sent"} \subseteq DOMAIN x
    /\ x.stage = "resolving"

CallInv ==
    /\ DOMAIN call = Calls
    /\ bar \in 0..LastBar
    /\ \A c \in Calls : call[c] # NoCall =>
          /\ call[c].bar \in 0..LastBar
          /\ Resolving(call[c]) \/ Managing(call[c])

\* What is cached or was served is an answer of the resolver for that instant.
WindowInv ==
    /\ cache \in [0..LastBar -> MemberLists \cup {NoList}]
    /\ known \in [0..LastBar -> SUBSET MemberLists]
    /\ DOMAIN served = 0..(LastBar \div WindowBars)
    /\ \A b \in 0..LastBar : cache[b] # NoList => cache[b] \in known[b]
    /\ \A w \in 0..(LastBar \div WindowBars) : served[w] \subseteq known[w * WindowBars]

\* A resolver that reads the history as of an instant has one answer for it.
OneAnswer == Deterministic => \A b \in 0..LastBar : \A x, y \in known[b] : x = y

IInv == CallInv /\ WindowInv /\ OneAnswer

LEMMA EnumerationOfSet ==
    ASSUME NEW S, IsFiniteSet(S)
    PROVE  /\ SetToSeq(S) \in [1..Cardinality(S) -> S]
           /\ S = {SetToSeq(S)[i] : i \in 1..Cardinality(S)}
           /\ \A i, j \in 1..Cardinality(S) : SetToSeq(S)[i] = SetToSeq(S)[j] => i = j
<1> DEFINE n == Cardinality(S)
<1>1. n \in Nat /\ ExistsBijection(1..n, S)
  BY FS_CardinalityType
<1>2. \E f \in [1..n -> S] : IsInjective(f)
  BY <1>1 DEF ExistsBijection, Bijection, Injection, IsInjective
<1>3. SetToSeq(S) \in [1..n -> S] /\ IsInjective(SetToSeq(S))
  BY <1>2 DEF SetToSeq
<1>4. SetToSeq(S) \in Surjection(1..n, S)
  <2>1. SetToSeq(S) \in Injection(1..n, S)
    BY <1>3 DEF Injection, IsInjective
  <2>2. IsFiniteSet(1..n) /\ Cardinality(1..n) = n
    BY <1>1, FS_Interval
  <2> QED
    BY <2>1, <2>2, FS_Injection
<1> QED
  BY <1>3, <1>4 DEF Surjection, IsInjective

LEMMA SequenceOfSet ==
    ASSUME NEW S, IsFiniteSet(S)
    PROVE  SetToSeq(S) \in Seq(S) /\ S = Range(SetToSeq(S))
<1> DEFINE n == Cardinality(S)
           list == SetToSeq(S)
<1>1. n \in Nat
  BY FS_CardinalityType
<1>2. list \in [1..n -> S] /\ S = {list[i] : i \in 1..n}
  BY EnumerationOfSet
<1> HIDE DEF n, list
<1>3. list \in Seq(S) /\ DOMAIN list = 1..n
  BY <1>1, <1>2
<1> QED
  BY <1>2, <1>3 DEF Range, list

\* Every held symbol is evaluated: as a member or after them.
LEMMA HeldIsListed ==
    ASSUME NEW members \in Seq(Symbols), NEW b
    PROVE  /\ EvalSymbols(members, b) \in Seq(Symbols)
           /\ HeldIn(b) \subseteq Range(EvalSymbols(members, b))
<1> DEFINE others == HeldIn(b) \ Range(members)
           rest == SetToSeq(others)
<1>1. IsFiniteSet(others) /\ others \subseteq Symbols /\ HeldIn(b) \subseteq Symbols
  BY FS_Subset, EvaluateAssumption DEF HeldIn
<1>2. rest \in Seq(others) /\ others = Range(rest)
  BY <1>1, SequenceOfSet
<1>3. rest \in Seq(Symbols)
  BY <1>1, <1>2
<1>4. EvalSymbols(members, b) = members \o rest
  BY DEF EvalSymbols
<1> HIDE DEF rest
<1>5. members \o rest \in Seq(Symbols)
  BY <1>3
<1>6. Range(members) \subseteq Range(members \o rest)
  <2> SUFFICES ASSUME NEW i \in DOMAIN members
               PROVE  \E j \in DOMAIN (members \o rest) : (members \o rest)[j] = members[i]
    BY DEF Range
  <2> QED
    BY <1>3
<1>7. Range(rest) \subseteq Range(members \o rest)
  <2> SUFFICES ASSUME NEW i \in DOMAIN rest
               PROVE  \E j \in DOMAIN (members \o rest) : (members \o rest)[j] = rest[i]
    BY DEF Range
  <2>1. /\ Len(members) + i \in DOMAIN (members \o rest)
        /\ (members \o rest)[Len(members) + i] = rest[i]
    BY <1>3
  <2> QED
    BY <2>1
<1> QED
  BY <1>2, <1>4, <1>5, <1>6, <1>7

\* The first bar of a window is on the clock.
LEMMA WindowStart ==
    ASSUME NEW w \in 0..(LastBar \div WindowBars)
    PROVE  w * WindowBars \in 0..LastBar
<1>1. WindowBars \in Nat \ {0} /\ LastBar \in Nat
  BY EvaluateAssumption
<1> DEFINE l == LastBar \div WindowBars
<1>2. l \in Nat /\ l * WindowBars <= LastBar
  BY <1>1, SMT
<1>3. w \in Nat /\ w <= l
  BY <1>2
<1> HIDE DEF l
<1>4. w * WindowBars <= l * WindowBars /\ w * WindowBars \in Nat
  BY <1>1, <1>2, <1>3, SMT
<1> QED
  BY <1>1, <1>2, <1>4

\* A call that starts its fan-out has every held symbol before it.
LEMMA FanOutManages ==
    ASSUME NEW members \in MemberLists, NEW b, NEW sent
    PROVE  Managing(FanOut(members, b, sent)) /\ FanOut(members, b, sent).bar = b
<1> DEFINE x == FanOut(members, b, sent)
<1>1. members \in Seq(Symbols)
  BY EvaluateAssumption
<1>2. /\ Fields \subseteq DOMAIN x
      /\ x.stage = "fanout" /\ x.bar = b /\ x.sent = sent
      /\ x.todo = EvalSymbols(members, sent) /\ x.raw = << >>
  BY DEF FanOut, Fields
<1>3. IsSequence(<< >>)
  BY DEF IsSequence
<1> QED
  BY <1>1, <1>2, <1>3, HeldIsListed DEF Managing

\* The instant of a window is on the clock, and belongs to that window.
LEMMA Instant ==
    ASSUME NEW b \in 0..LastBar
    PROVE  /\ b \div WindowBars \in 0..(LastBar \div WindowBars)
           /\ RefreshAsof(b) = (b \div WindowBars) * WindowBars
           /\ RefreshAsof(b) \in 0..LastBar
<1>1. WindowBars \in Nat \ {0} /\ LastBar \in Nat
  BY EvaluateAssumption
<1> DEFINE q == b \div WindowBars
           l == LastBar \div WindowBars
<1>2. q \in Nat /\ q * WindowBars <= b /\ b < (q + 1) * WindowBars
  BY <1>1, SMT
<1>3. l \in Nat /\ l * WindowBars <= LastBar /\ LastBar < (l + 1) * WindowBars
  BY <1>1, SMT
<1>4. RefreshAsof(b) = q * WindowBars
  BY DEF RefreshAsof
<1> HIDE DEF q, l
<1>5. q <= l
  <2> SUFFICES ASSUME q > l PROVE FALSE
    BY <1>2, <1>3
  <2>1. q >= l + 1
    BY <1>2, <1>3
  <2>2. q * WindowBars >= (l + 1) * WindowBars
    BY <1>1, <1>2, <1>3, <2>1, SMT
  <2> QED
    BY <1>1, <1>2, <1>3, <2>2
<1>6. q * WindowBars \in Nat
  BY <1>1, <1>2
<1> QED
  BY <1>1, <1>2, <1>3, <1>4, <1>5, <1>6 DEF q, l

LEMMA InitEstablishes == Init => IInv
<1> SUFFICES ASSUME Init PROVE IInv
  OBVIOUS
<1>1. LastBar \in Nat /\ NoList \notin MemberLists
  BY EvaluateAssumption
<1>2. CallInv
  BY <1>1 DEF Init, CallInv
<1>3. WindowInv /\ OneAnswer
  <2>1. \A w \in 0..(LastBar \div WindowBars) : served[w] = {}
    BY DEF Init
  <2> QED
    BY <1>1, <2>1 DEF Init, WindowInv, OneAnswer
<1> QED
  BY <1>2, <1>3 DEF IInv

\* A call that ends or that starts leaves the others as they are.
LEMMA OneCallChanges ==
    ASSUME IInv, NEW c \in Calls, NEW x, call' = [call EXCEPT ![c] = x], bar' = bar,
           x # NoCall => x.bar \in 0..LastBar /\ (Resolving(x) \/ Managing(x))
    PROVE  CallInv'
<1>1. DOMAIN call' = Calls /\ call'[c] = x /\ \A d \in Calls : d # c => call'[d] = call[d]
  BY DEF IInv, CallInv
<1>2. bar' \in 0..LastBar
  BY DEF IInv, CallInv
<1> SUFFICES ASSUME NEW d \in Calls, call'[d] # NoCall
             PROVE  call'[d].bar \in 0..LastBar /\ (Resolving(call'[d]) \/ Managing(call'[d]))
  BY <1>1, <1>2 DEF CallInv, Resolving, Managing
<1> QED
  BY <1>1 DEF IInv, CallInv

\* A list that the resolver answered with for the instant may be served.
LEMMA ServeKeeps ==
    ASSUME IInv, NEW b \in 0..LastBar, NEW members, members \in known'[RefreshAsof(b)],
           Serve(members, b),
           known' \in [0..LastBar -> SUBSET MemberLists],
           \A i \in 0..LastBar : known[i] \subseteq known'[i]
    PROVE  /\ DOMAIN served' = 0..(LastBar \div WindowBars)
           /\ \A w \in 0..(LastBar \div WindowBars) : served'[w] \subseteq known'[w * WindowBars]
<1> DEFINE v == b \div WindowBars
           W == 0..(LastBar \div WindowBars)
<1>1. v \in W /\ RefreshAsof(b) = v * WindowBars
  BY Instant
<1>2. served' = [served EXCEPT ![v] = @ \cup {members}] /\ DOMAIN served = W
  BY DEF Serve, IInv, WindowInv
<1>3. \A w \in W : w * WindowBars \in 0..LastBar
  BY WindowStart
<1>4. served' = [w \in W |-> IF w = v THEN served[v] \cup {members} ELSE served[w]]
  BY <1>2
<1> HIDE DEF v, W
<1>5. ASSUME NEW w \in W PROVE served'[w] \subseteq known'[w * WindowBars]
  <2>1. served[w] \subseteq known[w * WindowBars]
    BY DEF IInv, WindowInv, W
  <2>2. known[w * WindowBars] \subseteq known'[w * WindowBars]
    BY <1>3
  <2>3. w = v => members \in known'[w * WindowBars]
    BY <1>1
  <2> QED
    BY <1>4, <2>1, <2>2, <2>3
<1> QED
  BY <1>4, <1>5 DEF W

\* A step that leaves caches and history alone.
LEMMA WindowKept ==
    ASSUME IInv, UNCHANGED lookups
    PROVE  WindowInv' /\ OneAnswer'
  BY DEF IInv, lookups, WindowInv, OneAnswer

LEMMA StartPreserves ==
    ASSUME IInv, NEW c \in Calls, StartHit(c) \/ StartMiss(c)
    PROVE  IInv'
<1>0. bar \in 0..LastBar
  BY DEF IInv, CallInv
<1>1. CASE StartHit(c)
  <2> DEFINE members == Cached(bar)
  <2>1. /\ members # NoList
        /\ call' = [call EXCEPT ![c] = FanOut(members, bar, book)]
        /\ Serve(members, bar)
        /\ bar' = bar /\ cache' = cache /\ known' = known
    BY <1>1 DEF StartHit
  <2>2. members \in known[RefreshAsof(bar)] /\ members \in MemberLists
    BY <1>0, <2>1, Instant DEF IInv, WindowInv, Cached
  <2> HIDE DEF members
  <2>3. CallInv'
    <3> DEFINE x == FanOut(members, bar, book)
    <3>1. Managing(x) /\ x.bar = bar
      BY <2>2, FanOutManages
    <3>2. call' = [call EXCEPT ![c] = x]
      BY <2>1
    <3> HIDE DEF x
    <3> QED
      BY <1>0, <2>1, <3>1, <3>2, OneCallChanges
  <2>4. known' \in [0..LastBar -> SUBSET MemberLists]
    BY <2>1 DEF IInv, WindowInv
  <2>5. /\ DOMAIN served' = 0..(LastBar \div WindowBars)
        /\ \A w \in 0..(LastBar \div WindowBars) : served'[w] \subseteq known'[w * WindowBars]
    BY <1>0, <2>1, <2>2, <2>4, ServeKeeps
  <2>6. WindowInv' /\ OneAnswer'
    BY <2>1, <2>5 DEF IInv, WindowInv, OneAnswer
  <2> QED
    BY <2>3, <2>6 DEF IInv
<1>2. CASE StartMiss(c)
  <2> DEFINE x == [stage |-> "resolving", bar |-> bar, sent |-> book]
  <2>1. call' = [call EXCEPT ![c] = x] /\ bar' = bar /\ UNCHANGED lookups
    BY <1>2 DEF StartMiss
  <2>2. Resolving(x) /\ x.bar \in 0..LastBar
    BY <1>0 DEF Resolving
  <2> HIDE DEF x
  <2> QED
    BY <2>1, <2>2, OneCallChanges, WindowKept DEF IInv
<1> QED
  BY <1>1, <1>2

\* With a deterministic resolver a second miss of an instant finds what the first did.
LEMMA ResolvePreserves ==
    ASSUME IInv, NEW c \in Calls, Resolve(c)
    PROVE  IInv'
<1> DEFINE b == call[c].bar
           asof == RefreshAsof(b)
<1>1. b \in 0..LastBar
  BY DEF Resolve, IInv, CallInv
<1>2. asof \in 0..LastBar
  BY <1>1, Instant
<1>3. PICK members \in Resolutions(asof) :
         /\ cache' = Memoized(asof, members)
         /\ known' = [known EXCEPT ![asof] = @ \cup {members}]
         /\ call' = [call EXCEPT ![c] = FanOut(members, b, call[c].sent)]
         /\ Serve(members, b)
  BY DEF Resolve
<1>4. bar' = bar
  BY DEF Resolve
<1> HIDE DEF b, asof
<1>5. members \in MemberLists /\ (Deterministic /\ known[asof] # {} => members \in known[asof])
  BY <1>2 DEF Resolutions, IInv, WindowInv
<1>6. CallInv'
  <2> DEFINE x == FanOut(members, b, call[c].sent)
  <2>1. Managing(x) /\ x.bar = b
    BY <1>5, FanOutManages
  <2>2. call' = [call EXCEPT ![c] = x]
    BY <1>3
  <2> HIDE DEF x
  <2> QED
    BY <1>1, <1>4, <2>1, <2>2, OneCallChanges
<1>7. /\ known' \in [0..LastBar -> SUBSET MemberLists]
      /\ members \in known'[asof]
      /\ \A i \in 0..LastBar : known[i] \subseteq known'[i]
      /\ \A i \in 0..LastBar : i # asof => known'[i] = known[i]
      /\ known'[asof] = known[asof] \cup {members}
  BY <1>2, <1>3, <1>5 DEF IInv, WindowInv
<1>8. /\ DOMAIN served' = 0..(LastBar \div WindowBars)
      /\ \A w \in 0..(LastBar \div WindowBars) : served'[w] \subseteq known'[w * WindowBars]
  BY <1>1, <1>3, <1>7, ServeKeeps DEF asof
<1>9. /\ cache' \in [0..LastBar -> MemberLists \cup {NoList}]
      /\ cache'[asof] = members
      /\ \A i \in 0..LastBar : i # asof => cache'[i] = cache[i]
  BY <1>2, <1>3, <1>5 DEF Memoized, IInv, WindowInv
<1>10. WindowInv'
  BY <1>7, <1>8, <1>9 DEF IInv, WindowInv
<1>11. OneAnswer'
  BY <1>2, <1>5, <1>7 DEF IInv, OneAnswer
<1> QED
  BY <1>6, <1>10, <1>11 DEF IInv

LEMMA ForgetPreserves ==
    ASSUME IInv, NEW b \in 0..LastBar, Forget(b)
    PROVE  IInv'
<1>1. cache' = [cache EXCEPT ![b] = NoList] /\ UNCHANGED <<bar, known, served, call>>
  BY DEF Forget
<1>2. CallInv'
  BY <1>1 DEF IInv, CallInv, Resolving, Managing
<1>3. WindowInv' /\ OneAnswer'
  BY <1>1 DEF IInv, WindowInv, OneAnswer
<1> QED
  BY <1>2, <1>3 DEF IInv

\* The symbol at the head of the list has its answer when it leaves the list.
LEMMA EvaluatePreserves ==
    ASSUME IInv, NEW c \in Calls, EvaluateMember(c)
    PROVE  IInv'
<1> DEFINE x == call[c]
           s == Head(x.todo)
<1>1. Managing(x) /\ x.bar \in 0..LastBar /\ x.stage = "fanout" /\ x.todo # << >>
  BY DEF EvaluateMember, IInv, CallInv, Resolving
<1>2. PICK answer \in Answers(s, x.sent[s], x.pool.cash) :
         call' = [call EXCEPT ![c].todo = Tail(@), ![c].raw = Append(@, answer)]
  BY DEF EvaluateMember
<1>3. answer.symbol = s
  BY DEF Answers, Exits
<1> DEFINE y == [x EXCEPT !.todo = Tail(@), !.raw = Append(@, answer)]
<1>4. call' = [call EXCEPT ![c] = y]
  BY <1>2 DEF IInv, CallInv
<1> HIDE DEF x
<1>5. /\ DOMAIN y = DOMAIN x
      /\ y.todo = Tail(x.todo) /\ y.raw = Append(x.raw, answer)
      /\ y.stage = x.stage /\ y.bar = x.bar /\ y.sent = x.sent
  BY <1>1 DEF Managing, Fields
<1> HIDE DEF y, s
<1>6. Managing(y)
  <2>1. x.todo \in Seq(Symbols) /\ x.todo # << >>
    BY <1>1 DEF Managing
  <2>2. y.todo \in Seq(Symbols) /\ Range(x.todo) \subseteq {s} \cup Range(y.todo)
    <3>1. /\ Tail(x.todo) \in Seq(Symbols) /\ Len(x.todo) \in Nat \ {0}
          /\ s = x.todo[1] /\ Len(Tail(x.todo)) = Len(x.todo) - 1
          /\ \A j \in 1..Len(Tail(x.todo)) : Tail(x.todo)[j] = x.todo[j + 1]
      BY <2>1 DEF s
    <3>2. ASSUME NEW i \in DOMAIN x.todo PROVE x.todo[i] \in {s} \cup Range(Tail(x.todo))
      <4>1. i \in 1..Len(x.todo)
        BY <2>1
      <4>2. CASE i = 1
        BY <3>1, <4>2
      <4>3. CASE i # 1
        <5>1. i - 1 \in 1..Len(Tail(x.todo)) /\ Tail(x.todo)[i - 1] = x.todo[i]
          BY <3>1, <4>1, <4>3
        <5>2. i - 1 \in DOMAIN Tail(x.todo)
          BY <3>1, <5>1
        <5> QED
          BY <5>1, <5>2 DEF Range
      <4> QED
        BY <4>2, <4>3
    <3>3. Range(x.todo) \subseteq {s} \cup Range(Tail(x.todo))
      BY <3>2 DEF Range
    <3> QED
      BY <1>5, <3>1, <3>3
  <2> DEFINE S == {x.raw[i] : i \in DOMAIN x.raw} \cup {answer}
  <2>3. x.raw \in Seq(S)
    BY <1>1 DEF Managing, IsSequence
  <2>4. y.raw \in Seq(S) /\ Len(y.raw) = Len(x.raw) + 1 /\ y.raw[Len(y.raw)] = answer
        /\ \A i \in DOMAIN x.raw : i \in DOMAIN y.raw /\ y.raw[i] = x.raw[i]
    BY <1>5, <2>3
  <2> HIDE DEF S
  <2>5. IsSequence(y.raw)
    BY <2>4 DEF IsSequence
  <2>6. Answered(x.raw) \cup {s} \subseteq Answered(y.raw)
    <3>1. Len(y.raw) \in DOMAIN y.raw
      BY <2>3, <2>4
    <3> QED
      BY <1>3, <2>4, <3>1 DEF Answered
  <2> QED
    BY <1>1, <1>5, <2>2, <2>5, <2>6 DEF Managing
<1>7. CallInv'
  <2>1. bar' = bar
    BY DEF EvaluateMember
  <2> QED
    BY <1>1, <1>4, <1>5, <1>6, <2>1, OneCallChanges
<1> QED
  BY <1>7, WindowKept DEF IInv, EvaluateMember

\* Arbitration keeps the answers it arbitrates.
LEMMA AggregatePreserves ==
    ASSUME IInv, NEW c \in Calls, Aggregate(c)
    PROVE  IInv'
<1> DEFINE x == call[c]
           out == AfterEntries(SymbolsOf(ExitAnswers(x.raw)),
                               Outcome(AfterExits(x.pool, x.raw), << >>, << >>), x.raw)
           y == [x EXCEPT !.stage = "replied", !.pool = out.pool, !.exits = ExitAnswers(x.raw),
                          !.entries = out.entries, !.skipped = out.skipped]
<1>1. Managing(x) /\ x.bar \in 0..LastBar /\ x.todo = << >>
  BY DEF Aggregate, IInv, CallInv, Resolving
<1>2. call' = [call EXCEPT ![c] = y]
  BY DEF Aggregate, IInv, CallInv
<1> HIDE DEF x, out
<1>3. /\ DOMAIN y = DOMAIN x
      /\ y.stage = "replied" /\ y.todo = x.todo /\ y.raw = x.raw
      /\ y.bar = x.bar /\ y.sent = x.sent
  BY <1>1 DEF Managing, Fields
<1> HIDE DEF y
<1>4. Managing(y)
  BY <1>1, <1>3 DEF Managing
<1>5. CallInv'
  <2>1. bar' = bar
    BY DEF Aggregate
  <2> QED
    BY <1>1, <1>2, <1>3, <1>4, <2>1, OneCallChanges
<1> QED
  BY <1>5, WindowKept DEF IInv, Aggregate

\* A call that ends: its reply is applied or lost.
LEMMA EndPreserves ==
    ASSUME IInv, NEW c \in Calls, ApplyReply(c) \/ LoseReply(c)
    PROVE  IInv'
<1>1. call' = [call EXCEPT ![c] = NoCall] /\ bar' = bar /\ UNCHANGED lookups
  BY DEF ApplyReply, LoseReply
<1> QED
  BY <1>1, OneCallChanges, WindowKept DEF IInv

\* IInv is inductive: one case per action.
LEMMA NextPreserves == IInv /\ [Next]_vars => IInv'
<1> SUFFICES ASSUME IInv, [Next]_vars PROVE IInv'
  OBVIOUS
<1>1. CASE \E c \in Calls : StartHit(c) \/ StartMiss(c)
  BY <1>1, StartPreserves
<1>2. CASE \E c \in Calls : Resolve(c)
  BY <1>2, ResolvePreserves
<1>3. CASE \E c \in Calls : EvaluateMember(c)
  BY <1>3, EvaluatePreserves
<1>4. CASE \E c \in Calls : Aggregate(c)
  BY <1>4, AggregatePreserves
<1>5. CASE \E c \in Calls : ApplyReply(c) \/ LoseReply(c)
  BY <1>5, EndPreserves
<1>6. CASE \E b \in 0..LastBar : Forget(b)
  BY <1>6, ForgetPreserves
<1>7. CASE (\E s \in Symbols : BrokerStop(s)) \/ NextBar \/ UNCHANGED vars
  <2>1. call' = call /\ UNCHANGED lookups
    BY <1>7 DEF BrokerStop, NextBar, vars
  <2>2. bar' \in 0..LastBar
    BY <1>7, EvaluateAssumption DEF BrokerStop, NextBar, vars, IInv, CallInv
  <2>3. CallInv'
    BY <2>1, <2>2 DEF IInv, CallInv, Resolving, Managing
  <2> QED
    BY <2>1, <2>3, WindowKept DEF IInv
<1> QED
  BY <1>1, <1>2, <1>3, <1>4, <1>5, <1>6, <1>7 DEF Next

LEMMA IInvAlways == Spec => []IInv
  BY InitEstablishes, NextPreserves, PTL DEF Spec

\* Whatever list the resolver answers with, and however many calls are in flight:
\* every reply rests on an answer for every position the OMS had sent.
THEOREM HeldAreAlwaysManaged == Spec => []HeldAlwaysManaged
<1>1. IInv => HeldAlwaysManaged
  <2> SUFFICES ASSUME IInv, NEW c \in Replied, NEW s \in HeldIn(call[c].sent)
               PROVE  \E i \in DOMAIN call[c].raw : call[c].raw[i].symbol = s
    BY DEF HeldAlwaysManaged
  <2>1. Managing(call[c]) /\ call[c].todo = << >>
    BY DEF Replied, IInv, CallInv, Resolving, Managing
  <2>2. s \in Answered(call[c].raw)
    BY <2>1 DEF Managing, Range
  <2> QED
    BY <2>2 DEF Answered
<1> QED
  BY <1>1, IInvAlways, PTL

OneCallAtATime == \A c, d \in Calls : c = d

\* The start of a window is a bar of that window.
LEMMA StartOfWindow ==
    ASSUME NEW w \in Nat, NEW v \in Nat, w * WindowBars = v * WindowBars
    PROVE  w = v
<1>1. WindowBars \in Nat \ {0}
  BY EvaluateAssumption
<1>2. ASSUME NEW i \in Nat, NEW j \in Nat, i < j PROVE i * WindowBars # j * WindowBars
  <2>1. i + 1 <= j
    BY <1>2
  <2>2. (i + 1) * WindowBars <= j * WindowBars
    BY <1>1, <2>1, SMT
  <2> QED
    BY <1>1, <2>2, SMT
<1> QED
  BY <1>2

\* The list of a window is the cached one, and a lone call that resolves a window is
\* the first of it.
CachedInv ==
    /\ \A w \in 0..(LastBar \div WindowBars) :
          served[w] # {} => /\ cache[w * WindowBars] # NoList
                            /\ served[w] = {cache[w * WindowBars]}
    /\ \A c \in Calls : (call[c] # NoCall /\ call[c].stage = "resolving")
                          => cache[RefreshAsof(call[c].bar)] = NoList

\* The members a lone call starts with, when nothing forgets, are those of its window.
LEMMA ServedIsCached ==
    ASSUME OneCallAtATime, IInv, CachedInv, NEW c \in Calls, NEW b \in 0..LastBar,
           NEW members \in MemberLists, Serve(members, b),
           cache' = Memoized(RefreshAsof(b), members),
           cache[RefreshAsof(b)] \in {NoList, members},
           call'[c].stage # "resolving"
    PROVE  CachedInv'
<1> DEFINE v == b \div WindowBars
           W == 0..(LastBar \div WindowBars)
<1>1. v \in W /\ RefreshAsof(b) = v * WindowBars /\ RefreshAsof(b) \in 0..LastBar
  BY Instant
<1>2. /\ DOMAIN served = W /\ cache \in [0..LastBar -> MemberLists \cup {NoList}]
      /\ served' = [served EXCEPT ![v] = @ \cup {members}]
  BY DEF Serve, IInv, WindowInv
<1>3. \A w \in W : w \in Nat /\ w * WindowBars \in 0..LastBar
  BY WindowStart
<1>4. /\ cache'[v * WindowBars] = members /\ members # NoList
      /\ \A i \in 0..LastBar : i # v * WindowBars => cache'[i] = cache[i]
  BY <1>1, <1>2, EvaluateAssumption DEF Memoized
<1>5. ASSUME NEW w \in W, served'[w] # {}
      PROVE  cache'[w * WindowBars] # NoList /\ served'[w] = {cache'[w * WindowBars]}
  <2>1. CASE w = v
    <3>1. served[v] \subseteq {members}
      BY <1>1 DEF CachedInv
    <3>2. served'[v] = {members}
      BY <1>1, <1>2, <3>1
    <3> QED
      BY <1>4, <2>1, <3>2
  <2>2. CASE w # v
    <3>1. w * WindowBars # v * WindowBars
      BY <1>1, <1>3, <2>2, StartOfWindow
    <3>2. cache'[w * WindowBars] = cache[w * WindowBars] /\ served'[w] = served[w]
      BY <1>2, <1>3, <1>4, <2>2, <3>1
    <3> QED
      BY <1>5, <3>2 DEF CachedInv
  <2> QED
    BY <2>1, <2>2
<1>6. \A d \in Calls : call'[d].stage # "resolving"
  BY DEF OneCallAtATime
<1> QED
  BY <1>5, <1>6 DEF CachedInv

LEMMA CachedNext ==
    ASSUME OneCallAtATime, ~MayForget
    PROVE  IInv /\ CachedInv /\ [Next]_vars => CachedInv'
<1> SUFFICES ASSUME IInv, CachedInv, [Next]_vars PROVE CachedInv'
  OBVIOUS
<1>0. bar \in 0..LastBar /\ DOMAIN call = Calls
  BY DEF IInv, CallInv
<1>1. CASE \E c \in Calls : StartHit(c)
  <2> PICK c \in Calls : StartHit(c)
    BY <1>1
  <2> DEFINE members == Cached(bar)
  <2>1. /\ members # NoList /\ Serve(members, bar) /\ cache' = cache
        /\ call' = [call EXCEPT ![c] = FanOut(members, bar, book)]
    BY DEF StartHit
  <2>2. members = cache[RefreshAsof(bar)] /\ members \in MemberLists
    BY <1>0, <2>1, Instant DEF IInv, WindowInv, Cached
  <2>3. call'[c].stage # "resolving"
    BY <1>0, <2>1 DEF FanOut
  <2>4. cache' = Memoized(RefreshAsof(bar), members)
    <3>1. RefreshAsof(bar) \in 0..LastBar /\ cache \in [0..LastBar -> MemberLists \cup {NoList}]
      BY <1>0, Instant DEF IInv, WindowInv
    <3> HIDE DEF members
    <3> QED
      BY <2>1, <2>2, <3>1 DEF Memoized
  <2> HIDE DEF members
  <2> QED
    BY <1>0, <2>1, <2>2, <2>3, <2>4, ServedIsCached
<1>2. CASE \E c \in Calls : StartMiss(c)
  <2> PICK c \in Calls : StartMiss(c)
    BY <1>2
  <2> DEFINE x == [stage |-> "resolving", bar |-> bar, sent |-> book]
  <2>1. call' = [call EXCEPT ![c] = x] /\ UNCHANGED lookups /\ cache[RefreshAsof(bar)] = NoList
    BY DEF StartMiss, Cached
  <2>2. call'[c].bar = bar
    BY <1>0, <2>1
  <2>3. \A d \in Calls : cache'[RefreshAsof(call'[d].bar)] = NoList
    BY <2>1, <2>2 DEF OneCallAtATime, lookups
  <2> QED
    BY <2>1, <2>3 DEF CachedInv, lookups, RefreshAsof
<1>3. CASE \E c \in Calls : Resolve(c)
  <2> PICK c \in Calls : Resolve(c)
    BY <1>3
  <2> DEFINE b == call[c].bar
  <2>1. b \in 0..LastBar /\ cache[RefreshAsof(b)] = NoList
    BY DEF Resolve, IInv, CallInv, CachedInv
  <2>2. PICK members \in Resolutions(RefreshAsof(b)) :
           /\ cache' = Memoized(RefreshAsof(b), members)
           /\ call' = [call EXCEPT ![c] = FanOut(members, b, call[c].sent)]
           /\ Serve(members, b)
    BY DEF Resolve
  <2>3. members \in MemberLists
    BY <2>1, Instant DEF Resolutions, IInv, WindowInv
  <2>4. call'[c].stage # "resolving"
    BY <1>0, <2>2 DEF FanOut
  <2> HIDE DEF b
  <2> QED
    BY <2>1, <2>2, <2>3, <2>4, ServedIsCached
<1>4. CASE \E c \in Calls : EvaluateMember(c) \/ Aggregate(c) \/ ApplyReply(c) \/ LoseReply(c)
  <2> PICK c \in Calls : EvaluateMember(c) \/ Aggregate(c) \/ ApplyReply(c) \/ LoseReply(c)
    BY <1>4
  <2>1. UNCHANGED lookups
    BY DEF EvaluateMember, Aggregate, ApplyReply, LoseReply
  <2>2. ASSUME NEW d \in Calls, call'[d] # NoCall PROVE call'[d].stage # "resolving"
    <3>1. d = c /\ Managing(call[c]) /\ (EvaluateMember(c) \/ Aggregate(c))
      BY <1>0, <2>2 DEF OneCallAtATime, EvaluateMember, Aggregate, ApplyReply, LoseReply,
                        IInv, CallInv, Resolving
    <3>2. CASE EvaluateMember(c)
      <4>1. call'[c].stage = call[c].stage
        BY <1>0, <3>1, <3>2 DEF EvaluateMember, Managing, Fields
      <4> QED
        BY <3>1, <4>1 DEF Managing
    <3>3. CASE Aggregate(c)
      BY <1>0, <3>1, <3>3 DEF Aggregate, Managing, Fields
    <3> QED
      BY <3>1, <3>2, <3>3
  <2> QED
    BY <2>1, <2>2 DEF CachedInv, lookups
<1>5. CASE (\E s \in Symbols : BrokerStop(s)) \/ NextBar \/ UNCHANGED vars
  <2>1. call' = call /\ UNCHANGED lookups
    BY <1>5 DEF BrokerStop, NextBar, vars
  <2> QED
    BY <2>1 DEF CachedInv, lookups, RefreshAsof
<1> QED
  BY <1>1, <1>2, <1>3, <1>4, <1>5 DEF Next, Forget

\* At most one list, when there is one.
LEMMA OneListStable ==
    ASSUME \A w \in DOMAIN served : \A x, y \in served[w] : x = y
    PROVE  WindowStable
<1> SUFFICES ASSUME NEW w \in DOMAIN served PROVE Cardinality(served[w]) <= 1
  BY DEF WindowStable
<1>1. CASE served[w] = {}
  BY <1>1, FS_EmptySet
<1>2. CASE served[w] # {}
  <2>1. PICK x : served[w] = {x}
    BY <1>2
  <2>2. Cardinality({x}) = 1
    BY FS_Singleton, Zenon
  <2> QED
    BY <2>1, <2>2
<1> QED
  BY <1>1, <1>2

\* Whatever the resolver answers, also when its ticker moves or its fetches fail: while
\* the calls of a deployment do not overlap and the process keeps its cache, the window
\* is resolved once and every later call of it is evaluated on that list
\* (live_universe.py:12-13).
THEOREM WindowsStableCallByCall ==
    ASSUME OneCallAtATime, ~MayForget
    PROVE  Spec => []WindowStable
<1>1. Init => CachedInv
  <2> SUFFICES ASSUME Init PROVE CachedInv
    OBVIOUS
  <2>1. /\ \A w \in 0..(LastBar \div WindowBars) : served[w] = {}
        /\ \A c \in Calls : call[c] = NoCall
    BY DEF Init
  <2> QED
    BY <2>1 DEF CachedInv
<1>2. IInv /\ CachedInv => WindowStable
  <2> SUFFICES ASSUME IInv, CachedInv PROVE WindowStable
    OBVIOUS
  <2>1. DOMAIN served = 0..(LastBar \div WindowBars)
    BY DEF IInv, WindowInv
  <2>2. \A w \in DOMAIN served : \A x, y \in served[w] : x = y
    BY <2>1 DEF CachedInv
  <2> QED
    BY <2>2, OneListStable
<1> QED
  BY <1>1, <1>2, CachedNext, IInvAlways, PTL DEF Spec

\* A resolver that reads the history as of an instant needs no coordination: however
\* calls overlap and whatever the caches forget, a window has one list.
THEOREM WindowsOfHistoryStable == Deterministic /\ Spec => []WindowStable
<1>1. Deterministic /\ IInv => WindowStable
  <2> SUFFICES ASSUME Deterministic, IInv PROVE WindowStable
    OBVIOUS
  <2>1. ASSUME NEW w \in DOMAIN served
        PROVE  \A x, y \in served[w] : x = y
    <3>1. w \in 0..(LastBar \div WindowBars) /\ served[w] \subseteq known[w * WindowBars]
      BY DEF IInv, WindowInv
    <3> QED
      BY <3>1, WindowStart DEF IInv, OneAnswer
  <2> QED
    BY <2>1, OneListStable
<1>2. CASE Deterministic
  BY <1>1, <1>2, IInvAlways, PTL
<1>3. CASE ~Deterministic
  BY <1>3
<1> QED
  BY <1>2, <1>3

\* Every symbol that was bought for a bar has an order with that key.
OrdersInv == filled \subseteq orders

LEMMA OrdersKept == OrdersInv /\ [Next]_vars => OrdersInv'
<1> SUFFICES ASSUME OrdersInv, [Next]_vars PROVE OrdersInv'
  OBVIOUS
<1>1. CASE \E c \in Calls : ApplyReply(c)
  <2> PICK c \in Calls : ApplyReply(c)
    BY <1>1
  <2>1. /\ orders' = orders \cup {Key(c, call[c].entries[i].symbol) : i \in DOMAIN call[c].entries}
        /\ filled' = filled \cup {<<s, call[c].bar>> : s \in {x \in Symbols : Bought(c, x) > 0}}
    BY DEF ApplyReply
  <2>2. ASSUME NEW s \in Symbols, Bought(c, s) > 0
        PROVE  <<s, call[c].bar>> \in orders'
    <3>1. \E i \in DOMAIN call[c].entries : call[c].entries[i].symbol = s
      BY <2>2 DEF Bought
    <3> QED
      BY <2>1, <3>1 DEF Key
  <2> QED
    BY <2>1, <2>2 DEF OrdersInv
<1>2. CASE UNCHANGED <<orders, filled>>
  BY <1>2 DEF OrdersInv
<1>3. \/ \E c \in Calls : ApplyReply(c)
      \/ UNCHANGED <<orders, filled>>
  BY DEF Next, StartHit, StartMiss, Resolve, EvaluateMember, Aggregate, LoseReply,
         BrokerStop, Forget, NextBar, vars
<1> QED
  BY <1>1, <1>2, <1>3

\* Whatever is retried, lost or in flight: a symbol is bought once for a bar.
THEOREM EntryOncePerBar == Spec => OneEntryPerBar
<1>1. Init => OrdersInv
  BY DEF Init, OrdersInv
<1>2. ASSUME OrdersInv, NEW c \in Calls, NEW s \in Symbols, ApplyReply(c), Bought(c, s) > 0
      PROVE  <<s, call[c].bar>> \notin filled
  BY <1>2 DEF Bought, Key, OrdersInv
<1>3. OrdersInv /\ [Next]_vars =>
        [\A c \in Calls, s \in Symbols :
            (ApplyReply(c) /\ Bought(c, s) > 0) => <<s, call[c].bar>> \notin filled]_vars
  BY <1>2
<1> QED
  BY <1>1, <1>3, OrdersKept, PTL DEF Spec, OneEntryPerBar
-----------------------------------------------------------------------------
(* The pool of a call: what a release and an admission do to the slots, to *)
(* the capital of each symbol and to the ledger.                           *)

Lot == [capital : Nat, sector : {NoSector}]

Positions == UNION {[S -> Lot] : S \in SUBSET Symbols}

Pools == [positions : Positions, cash : Int]

\* The capital a pool has in each symbol, open or not.
Stake(p) == [s \in Symbols |-> IF s \in Held(p) THEN p.positions[s].capital ELSE 0]

Ledger(p) == p.cash + SumFunctionOnSet(Stake(p), Symbols)

LEMMA PoolParts ==
    ASSUME NEW p \in Pools
    PROVE  /\ p.cash \in Int
           /\ Held(p) \subseteq Symbols /\ IsFiniteSet(Held(p))
           /\ p.positions \in [Held(p) -> Lot]
           /\ \A s \in Held(p) : p.positions[s].capital \in Nat
<1>1. p.cash \in Int /\ p.positions \in Positions
  BY DEF Pools
<1>2. PICK S \in SUBSET Symbols : p.positions \in [S -> Lot]
  BY <1>1 DEF Positions
<1>3. Held(p) = S
  BY <1>2 DEF Held
<1>4. \A s \in S : p.positions[s] \in Lot
  BY <1>2
<1>5. \A l \in Lot : l.capital \in Nat
  BY DEF Lot
<1> QED
  BY <1>1, <1>2, <1>3, <1>4, <1>5, FS_Subset, EvaluateAssumption

LEMMA PoolMade ==
    ASSUME NEW S, S \subseteq Symbols, NEW f \in [S -> Lot], NEW c \in Int,
           NEW p, p = [positions |-> f, cash |-> c]
    PROVE  p \in Pools /\ p.cash = c /\ p.positions = f /\ Held(p) = S
<1>1. f \in Positions
  BY DEF Positions
<1>2. p \in Pools
  BY <1>1 DEF Pools
<1> QED
  BY <1>2 DEF Held

LEMMA StakeType ==
    ASSUME NEW p \in Pools
    PROVE  /\ Stake(p) \in [Symbols -> Nat]
           /\ SumFunctionOnSet(Stake(p), Symbols) \in Nat
<1>1. \A s \in Symbols : Stake(p)[s] \in Nat
  BY PoolParts DEF Stake
<1>2. Stake(p) \in [Symbols -> Nat]
  BY <1>1 DEF Stake
<1>3. SumFunctionOnSet(Stake(p), Symbols) \in Nat
  BY <1>1, SumNat, EvaluateAssumption
<1> QED
  BY <1>2, <1>3

\* The stakes add up to what they did but for the symbol whose stake changes.
LEMMA StakeChanges ==
    ASSUME NEW a \in [Symbols -> Nat], NEW s \in Symbols, NEW v \in Nat,
           NEW b, b = [a EXCEPT ![s] = v]
    PROVE  SumFunctionOnSet(b, Symbols) = SumFunctionOnSet(a, Symbols) - a[s] + v
<1>1. IsFiniteSet(Symbols)
  BY EvaluateAssumption
<1>2. \A y \in Symbols : a[y] \in Int /\ b[y] \in Int
  OBVIOUS
<1>3. \A y \in Symbols \ {s} : b[y] = a[y]
  OBVIOUS
<1>4. b[s] = v
  OBVIOUS
<1>5. SumFunctionOnSet(b, Symbols) = SumFunctionOnSet(a, Symbols) - a[s] + b[s]
  BY ONLY <1>1, <1>2, <1>3, SumExcept, s \in Symbols
<1> QED
  BY <1>4, <1>5

\* q is p after symbol s was sold at cost.
Frees(p, q, s) ==
    /\ q \in Pools
    /\ Held(q) = Held(p) \ {s}
    /\ Stake(q) = [Stake(p) EXCEPT ![s] = 0]
    /\ q.cash >= p.cash
    /\ Ledger(q) = Ledger(p)

LEMMA ReleaseFrees ==
    ASSUME NEW p \in Pools, NEW s \in Symbols
    PROVE  Frees(p, Release(p, s, 0), s)
<1> DEFINE q == Release(p, s, 0)
<1>1. CASE s \notin Held(p)
  <2>1. q = p /\ Held(p) \ {s} = Held(p) /\ Stake(p)[s] = 0
    BY <1>1 DEF Release, Stake
  <2>2. [Stake(p) EXCEPT ![s] = 0] = Stake(p)
    BY <2>1, StakeType
  <2> QED
    BY <2>1, <2>2, PoolParts DEF Frees
<1>2. CASE s \in Held(p)
  <2> DEFINE S == Held(p) \ {s}
             f == [x \in S |-> p.positions[x]]
             c == p.cash + p.positions[s].capital + 0
  <2>1. S \subseteq Symbols /\ f \in [S -> Lot] /\ c \in Int
    BY <1>2, PoolParts
  <2>2. q = [positions |-> f, cash |-> c]
    BY <1>2 DEF Release
  <2>3. q \in Pools /\ q.cash = c /\ q.positions = f /\ Held(q) = S
    <3> HIDE DEF S, f, c, q
    <3> QED
      BY <2>1, <2>2, PoolMade
  <2>4. Stake(q) = [Stake(p) EXCEPT ![s] = 0]
    BY <2>3 DEF Stake
  <2>5. Stake(p) \in [Symbols -> Nat] /\ Stake(p)[s] = p.positions[s].capital
    BY <1>2, StakeType DEF Stake
  <2>6. q.cash = p.cash + Stake(p)[s] /\ p.cash \in Int
    BY <2>3, <2>5, PoolParts
  <2> HIDE DEF q
  <2>7. SumFunctionOnSet(Stake(q), Symbols) = SumFunctionOnSet(Stake(p), Symbols) - Stake(p)[s] + 0
    BY ONLY <2>4, <2>5, StakeChanges, s \in Symbols, 0 \in Nat, ZenonT(30)
  <2>8. SumFunctionOnSet(Stake(p), Symbols) \in Nat /\ Stake(p)[s] \in Nat
    BY <2>5, StakeType
  <2>9. q.cash >= p.cash /\ Ledger(q) = Ledger(p)
    BY <2>6, <2>7, <2>8 DEF Ledger
  <2> QED
    BY <2>3, <2>4, <2>9 DEF Frees, q
<1> QED
  BY <1>1, <1>2

\* q is p after amount was spent on symbol s.
Takes(p, q, s, amount) ==
    /\ q \in Pools
    /\ Held(q) = Held(p) \cup {s}
    /\ Stake(q) = [Stake(p) EXCEPT ![s] = amount]
    /\ q.cash = p.cash - amount
    /\ Ledger(q) = Ledger(p)

LEMMA AdmitTakes ==
    ASSUME NEW p \in Pools, NEW s \in Symbols, s \notin Held(p), NEW amount \in Nat
    PROVE  Takes(p, Admit(p, s, amount, NoSector), s, amount)
<1> DEFINE q == Admit(p, s, amount, NoSector)
           S == Held(p) \cup {s}
           f == [x \in S |-> IF x = s THEN [capital |-> amount, sector |-> NoSector]
                             ELSE p.positions[x]]
           c == p.cash - amount
<1>1. S \subseteq Symbols /\ f \in [S -> Lot] /\ c \in Int
  <2>1. [capital |-> amount, sector |-> NoSector] \in Lot
    BY DEF Lot
  <2> QED
    BY <2>1, PoolParts
<1>2. q = [positions |-> f, cash |-> c]
  BY DEF Admit
<1>3. q \in Pools /\ q.cash = c /\ q.positions = f /\ Held(q) = S
  <2> HIDE DEF S, f, c, q
  <2> QED
    BY <1>1, <1>2, PoolMade
<1>4. Stake(q) = [Stake(p) EXCEPT ![s] = amount]
  <2>1. /\ s \in S /\ f[s].capital = amount
        /\ \A x \in Held(p) : x \in S /\ f[x] = p.positions[x]
        /\ \A x \in S : x = s \/ x \in Held(p)
    OBVIOUS
  <2> HIDE DEF f, q, S
  <2>2. \A x \in Symbols : Stake(q)[x] = IF x = s THEN amount ELSE Stake(p)[x]
    BY <1>3, <2>1 DEF Stake
  <2> QED
    BY <2>2 DEF Stake
<1>5. Stake(p) \in [Symbols -> Nat] /\ Stake(p)[s] = 0
  BY StakeType DEF Stake
<1> HIDE DEF q
<1>6. SumFunctionOnSet(Stake(q), Symbols) = SumFunctionOnSet(Stake(p), Symbols) - 0 + amount
  BY ONLY <1>4, <1>5, StakeChanges, amount \in Nat, s \in Symbols, ZenonT(30)
<1>7. SumFunctionOnSet(Stake(p), Symbols) \in Nat /\ p.cash \in Int
  BY StakeType, PoolParts
<1>8. Ledger(q) = Ledger(p)
  BY <1>3, <1>6, <1>7 DEF Ledger
<1> QED
  BY <1>3, <1>4, <1>8 DEF Takes, q

\* The equity of a pool is a number, and so is what an entry may get.
LEMMA AllocationType ==
    ASSUME NEW p \in Pools, NEW stop \in StopPcts
    PROVE  Allocation(p, stop) \in Int /\ Allocation(p, stop) <= p.cash
<1> DEFINE S == Held(p)
           f == [s \in S |-> p.positions[s].capital]
           equity == Equity(p)
<1>1. p.cash \in Int /\ IsFiniteSet(S) /\ \A s \in S : f[s] \in Int
  BY PoolParts
<1>2. CapitalOf(p, S) = SumFunctionOnSet(f, S)
  BY DEF CapitalOf, SumFunction
<1> HIDE DEF f, S
<1>3. SumFunctionOnSet(f, S) \in Int
  BY <1>1, SumType
<1>4. equity \in Int
  BY <1>1, <1>2, <1>3 DEF Equity, S
<1> HIDE DEF equity
<1>5. stop \in Nat \ {0} /\ MaxPositions \in Nat \ {0} /\ RiskPct \in Nat
  BY EvaluateAssumption, PoolAssumption
<1>6. TargetAllocation(p, stop) \in Int
  <2> DEFINE r == RiskPct * equity
  <2>1. r \in Int
    BY <1>4, <1>5
  <2> HIDE DEF r
  <2>2. r \div stop \in Int /\ equity \div MaxPositions \in Int
    BY <1>4, <1>5, <2>1, SMT
  <2> QED
    BY <2>2 DEF TargetAllocation, r, equity
<1> QED
  BY <1>1, <1>6 DEF Allocation, Smaller
-----------------------------------------------------------------------------
(* Arbitration, pass 2a: the fold over the answers, one by one.            *)

Actions == {"exit_triggered", "entry_created", "no_action"}

Rows ==
    {r \in [symbol : Symbols, action : Actions, amount : Nat, stop : StopPcts \cup {NoStop}] :
        r.action = "entry_created" => r.stop \in StopPcts}

LEMMA RowParts ==
    ASSUME NEW r \in Rows
    PROVE  /\ r.symbol \in Symbols /\ r.action \in Actions /\ r.amount \in Nat
           /\ r.action = "entry_created" => r.stop \in StopPcts
  BY DEF Rows

LEMMA ExitTrace ==
    ASSUME NEW p \in Pools, NEW raw \in Seq(Rows)
    PROVE  \E h \in [0..Len(raw) -> Pools] :
              /\ h[0] = p /\ h[Len(raw)] = AfterExits(p, raw)
              /\ \A i \in 1..Len(raw) : h[i] = ReleaseExit(h[i - 1], raw[i])
<1> DEFINE F == [x \in Pools \X Rows |-> ReleaseExit(x[1], x[2])]
           D == DOMAIN raw
           Solves(k) == k = [s \in SUBSET D |-> IF s = {} THEN p ELSE ReleaseExit(k[s \ {Max(s)}], raw[Max(s)])]
           k == CHOOSE k : Solves(k)
<1>1. ASSUME NEW q \in Pools, NEW r \in Rows
      PROVE  ReleaseExit(q, r) \in Pools /\ F[<<q, r>>] = ReleaseExit(q, r)
  <2>1. Release(q, r.symbol, 0) \in Pools
    BY ReleaseFrees, RowParts DEF Frees
  <2> QED
    BY <2>1 DEF ReleaseExit
<1>2. Foldable(Pools, Rows, F, p, raw)
  <2>1. \A x \in Pools \X Rows : x[1] \in Pools /\ x[2] \in Rows
    OBVIOUS
  <2> QED
    BY <1>1, <2>1 DEF Foldable
<1>3. D = 1..Len(raw) /\ Len(raw) \in Nat /\ \A i \in D : raw[i] \in Rows
  OBVIOUS
<1>4. \A s \in SUBSET D : s # {} => Max(s) \in D
  BY <1>3, LastIndex
<1>5. \E e : Solves(e)
  <2>1. PICK e : FoldUnfolding(e, Pools, F, p, raw)
    BY <1>2, FoldUnfolds
  <2>2. ASSUME NEW s \in SUBSET D, s # {}
        PROVE  F[<<e[s \ {Max(s)}], raw[Max(s)]>>] = ReleaseExit(e[s \ {Max(s)}], raw[Max(s)])
    <3>1. e[s \ {Max(s)}] \in Pools /\ raw[Max(s)] \in Rows
      BY <1>3, <1>4, <2>1, <2>2 DEF FoldUnfolding
    <3> HIDE DEF F
    <3> QED
      BY <1>1, <3>1
  <2> HIDE DEF F
  <2>3. Solves(e)
    BY <2>1, <2>2 DEF FoldUnfolding
  <2> QED
    BY <2>3
<1>6. Solves(k)
  <2> HIDE DEF Solves
  <2> QED
    BY <1>5
<1>7. AfterExits(p, raw) = k[D]
  BY DEF AfterExits, FoldLeft, MapThenFoldSet
<1> HIDE DEF k
<1>8. k[{}] = p
  BY <1>6
<1>9. ASSUME NEW s \in SUBSET D, s # {}, k[s \ {Max(s)}] \in Pools
      PROVE  k[s] = F[<<k[s \ {Max(s)}], raw[Max(s)]>>]
  <2>1. k[s] = ReleaseExit(k[s \ {Max(s)}], raw[Max(s)])
    BY <1>6, <1>9
  <2>2. raw[Max(s)] \in Rows
    BY <1>3, <1>4, <1>9
  <2> HIDE DEF F
  <2> QED
    BY <1>1, <1>9, <2>1, <2>2
<1> HIDE DEF F, Solves
<1>10. PICK h : TraceOf(h, Pools, F, p, raw) /\ h[Len(raw)] = k[D]
  <2>1. FoldsInto(k, Pools, F, p, raw)
    BY <1>8, <1>9 DEF FoldsInto
  <2> QED
    BY <1>2, <2>1, FoldTrace
<1>11. ASSUME NEW i \in 1..Len(raw) PROVE h[i] = ReleaseExit(h[i - 1], raw[i])
  <2>1. h[i - 1] \in Pools /\ raw[i] \in Rows
    BY <1>3, <1>10 DEF TraceOf
  <2> QED
    BY <1>1, <1>10, <2>1 DEF TraceOf
<1> QED
  BY <1>7, <1>10, <1>11 DEF TraceOf

\* The symbols that exit among the first i answers.
ExitedBy(raw, i) == {raw[j].symbol : j \in {k \in 1..i : raw[k].action = "exit_triggered"}}

\* q is p after the symbols of E were sold at cost.
Released(p, q, E) ==
    /\ q \in Pools
    /\ Held(q) = Held(p) \ E
    /\ \A s \in Symbols \ E : Stake(q)[s] = Stake(p)[s]
    /\ q.cash >= p.cash
    /\ Ledger(q) = Ledger(p)

LEMMA FreesReleases ==
    ASSUME NEW p \in Pools, NEW q \in Pools, NEW r \in Pools, NEW E, NEW s \in Symbols,
           Released(p, q, E), Frees(q, r, s)
    PROVE  Released(p, r, E \cup {s})
<1>1. Held(r) = Held(p) \ (E \cup {s}) /\ Ledger(r) = Ledger(p) /\ r \in Pools
  BY DEF Released, Frees
<1>2. ASSUME NEW x \in Symbols \ (E \cup {s}) PROVE Stake(r)[x] = Stake(p)[x]
  BY StakeType DEF Released, Frees
<1>3. r.cash >= p.cash
  BY PoolParts DEF Released, Frees
<1> QED
  BY <1>1, <1>2, <1>3 DEF Released

LEMMA ExitsRelease ==
    ASSUME NEW p \in Pools, NEW raw \in Seq(Rows)
    PROVE  Released(p, AfterExits(p, raw), SymbolsOf(ExitAnswers(raw)))
<1>1. PICK h \in [0..Len(raw) -> Pools] :
         /\ h[0] = p /\ h[Len(raw)] = AfterExits(p, raw)
         /\ \A i \in 1..Len(raw) : h[i] = ReleaseExit(h[i - 1], raw[i])
  BY ExitTrace
<1>2. Len(raw) \in Nat /\ DOMAIN raw = 1..Len(raw) /\ \A i \in 1..Len(raw) : raw[i] \in Rows
  OBVIOUS
<1> DEFINE n == Len(raw)
           G == {i \in Nat : i <= n => Released(p, h[i], ExitedBy(raw, i))}
<1>3. 0 \in G
  <2>1. ExitedBy(raw, 0) = {}
    BY DEF ExitedBy
  <2>2. p.cash \in Int
    BY PoolParts
  <2>3. Released(p, p, {})
    BY <2>2 DEF Released
  <2> QED
    BY <1>1, <2>1, <2>3
<1>4. ASSUME NEW i \in Nat, i \in G PROVE i + 1 \in G
  <2> SUFFICES ASSUME i + 1 <= n PROVE Released(p, h[i + 1], ExitedBy(raw, i + 1))
    OBVIOUS
  <2> DEFINE r == raw[i + 1]
  <2>1. i + 1 \in 1..n /\ (i + 1) - 1 = i /\ i \in 0..n /\ i + 1 \in 0..n /\ i <= n
    BY <1>2
  <2>2. r \in Rows /\ h[i] \in Pools /\ h[i + 1] \in Pools /\ h[i + 1] = ReleaseExit(h[i], r)
    BY <1>1, <1>2, <2>1
  <2>3. Released(p, h[i], ExitedBy(raw, i))
    BY <1>4, <2>1
  <2>4. \A j \in 1..(i + 1) : j \in 1..i \/ j = i + 1
    BY <2>1
  <2>5. 1..i \subseteq 1..(i + 1) /\ i + 1 \in 1..(i + 1)
    BY <2>1
  <2>6. CASE r.action = "exit_triggered"
    <3>1. ExitedBy(raw, i + 1) = ExitedBy(raw, i) \cup {r.symbol}
      BY <2>4, <2>5, <2>6 DEF ExitedBy
    <3>2. Frees(h[i], h[i + 1], r.symbol) /\ r.symbol \in Symbols
      BY <2>2, <2>6, RowParts, ReleaseFrees DEF ReleaseExit
    <3> HIDE DEF r
    <3> QED
      BY <2>2, <2>3, <3>1, <3>2, FreesReleases
  <2>7. CASE r.action # "exit_triggered"
    <3>1. ExitedBy(raw, i + 1) = ExitedBy(raw, i)
      BY <2>4, <2>5, <2>7 DEF ExitedBy
    <3>2. h[i + 1] = h[i]
      BY <2>2, <2>7 DEF ReleaseExit
    <3> QED
      BY <2>3, <3>1, <3>2
  <2> QED
    BY <2>6, <2>7
<1>5. Released(p, h[n], ExitedBy(raw, n))
  <2> HIDE DEF G
  <2>1. n \in G
    BY <1>2, <1>3, <1>4, InductionOnNumbers
  <2> QED
    BY <1>2, <2>1 DEF G
<1>6. ExitedBy(raw, n) = SymbolsOf(ExitAnswers(raw))
  BY <1>2 DEF ExitedBy, SymbolsOf, ExitAnswers
<1> QED
  BY <1>1, <1>5, <1>6
-----------------------------------------------------------------------------
(* Arbitration, pass 2b.                                                   *)

Reasons == {"already_open", "position_cap", "insufficient_capital", "sector_cap"}

Entry == [symbol : Symbols, amount : Nat, cost : Nat]

Skip == [symbol : Symbols, reason : Reasons]

Outcomes == [pool : Pools, entries : Seq(Entry), skipped : Seq(Skip)]

LEMMA OutcomeParts ==
    ASSUME NEW u \in Outcomes
    PROVE  u.pool \in Pools /\ u.entries \in Seq(Entry) /\ u.skipped \in Seq(Skip)
  BY DEF Outcomes

\* One entry was admitted, or refused for a reason that holds of the pool.
Admits(u, v) ==
    \E s \in Symbols : \E amount, cost \in Nat :
        /\ s \notin Held(u.pool)
        /\ ~ (Cardinality(Held(u.pool)) >= MaxPositions)
        /\ amount <= u.pool.cash
        /\ Takes(u.pool, v.pool, s, amount)
        /\ v.entries = Append(u.entries, [symbol |-> s, amount |-> amount, cost |-> cost])
        /\ v.skipped = u.skipped

Refuses(u, v) ==
    \E s \in Symbols : \E reason \in Reasons :
        /\ reason = "position_cap" => Cardinality(Held(u.pool)) >= MaxPositions
        /\ v.pool = u.pool
        /\ v.entries = u.entries
        /\ v.skipped = Append(u.skipped, [symbol |-> s, reason |-> reason])

LEMMA ArbitrateDecides ==
    ASSUME NEW u \in Outcomes, NEW r \in Rows, r.action = "entry_created"
    PROVE  Arbitrate(u, r) \in Outcomes /\ (Admits(u, Arbitrate(u, r)) \/ Refuses(u, Arbitrate(u, r)))
<1> DEFINE s == r.symbol
           verdict == Verdict(u.pool, r.symbol, r.stop, NoSector)
           amount == Allocation(u.pool, r.stop)
           v == Arbitrate(u, r)
<1>1. s \in Symbols /\ r.stop \in StopPcts /\ r.amount \in Nat
  BY RowParts
<1>2. u.pool \in Pools /\ u.entries \in Seq(Entry) /\ u.skipped \in Seq(Skip)
  BY OutcomeParts
<1>3. amount \in Int /\ amount <= u.pool.cash
  BY <1>1, <1>2, AllocationType
<1>4. CASE verdict = "admit"
  <2>1. /\ s \notin Held(u.pool)
        /\ ~ (Cardinality(Held(u.pool)) >= MaxPositions)
        /\ ~ (amount <= 0)
    BY <1>4 DEF Verdict
  <2> DEFINE p == Admit(u.pool, s, amount, NoSector)
             e == [symbol |-> s, amount |-> amount, cost |-> r.amount]
  <2>2. amount \in Nat
    BY <1>3, <2>1
  <2>3. Takes(u.pool, p, s, amount)
    <3> HIDE DEF amount, p
    <3> USE DEF p
    <3> QED
      BY <1>1, <1>2, <2>1, <2>2, AdmitTakes
  <2>4. p \in Pools
    BY <2>3 DEF Takes
  <2>5. v = Outcome(p, Append(u.entries, e), u.skipped)
    BY <1>4 DEF Arbitrate, Admitted
  <2>6. Append(u.entries, e) \in Seq(Entry)
    <3>1. e \in Entry
      BY <1>1, <2>2 DEF Entry
    <3> QED
      BY <1>2, <3>1
  <2> HIDE DEF p, amount, v
  <2>7. v \in Outcomes /\ v.pool = p /\ v.entries = Append(u.entries, e) /\ v.skipped = u.skipped
    <3> DEFINE list == Append(u.entries, e)
    <3>1. v = [pool |-> p, entries |-> list, skipped |-> u.skipped]
      BY <2>5 DEF Outcome
    <3>2. list \in Seq(Entry)
      BY <2>6
    <3> HIDE DEF list
    <3>3. v \in Outcomes
      BY <1>2, <2>4, <3>1, <3>2 DEF Outcomes
    <3>4. v.pool = p /\ v.entries = list /\ v.skipped = u.skipped
      BY <3>1
    <3> QED
      BY <3>3, <3>4 DEF list
  <2>8. Admits(u, v)
    BY <1>1, <1>3, <2>1, <2>2, <2>3, <2>7 DEF Admits
  <2> QED
    BY <2>7, <2>8 DEF v
<1>5. CASE verdict # "admit"
  <2> DEFINE k == [symbol |-> s, reason |-> verdict]
  <2>1. /\ verdict \in Reasons
        /\ verdict = "position_cap" => Cardinality(Held(u.pool)) >= MaxPositions
    BY <1>5 DEF Verdict, Reasons
  <2>2. v = Outcome(u.pool, u.entries, Append(u.skipped, k))
    BY <1>5 DEF Arbitrate
  <2>3. Append(u.skipped, k) \in Seq(Skip)
    <3>1. k \in Skip
      BY <1>1, <2>1 DEF Skip
    <3> QED
      BY <1>2, <3>1
  <2> HIDE DEF v, verdict
  <2>4. v \in Outcomes /\ v.pool = u.pool /\ v.entries = u.entries /\ v.skipped = Append(u.skipped, k)
    <3> DEFINE list == Append(u.skipped, k)
    <3>1. v = [pool |-> u.pool, entries |-> u.entries, skipped |-> list]
      BY <2>2 DEF Outcome
    <3>2. list \in Seq(Skip)
      BY <2>3
    <3> HIDE DEF list
    <3>3. v \in Outcomes
      BY <1>2, <3>1, <3>2 DEF Outcomes
    <3>4. v.pool = u.pool /\ v.entries = u.entries /\ v.skipped = list
      BY <3>1
    <3> QED
      BY <3>3, <3>4 DEF list
  <2>5. Refuses(u, v)
    BY <1>1, <2>1, <2>4 DEF Refuses
  <2> QED
    BY <2>4, <2>5 DEF v
<1> QED
  BY <1>4, <1>5

\* One step of the fold of pass 2b.
Compete(exited, u, r) ==
    IF r.action = "entry_created" /\ r.symbol \notin exited THEN Arbitrate(u, r) ELSE u

HasTrace(exited, o, raw) ==
    \E h \in [0..Len(raw) -> Outcomes] :
       /\ h[0] = o /\ h[Len(raw)] = AfterEntries(exited, o, raw)
       /\ \A i \in 1..Len(raw) : h[i] = Compete(exited, h[i - 1], raw[i])

LEMMA EntryTrace ==
    ASSUME NEW exited, NEW o \in Outcomes, NEW raw \in Seq(Rows)
    PROVE  HasTrace(exited, o, raw)
<1> DEFINE F == [x \in Outcomes \X Rows |-> Compete(exited, x[1], x[2])]
           D == DOMAIN raw
           Solves(k) == k = [s \in SUBSET D |->
                                IF s = {} THEN o ELSE Compete(exited, k[s \ {Max(s)}], raw[Max(s)])]
           k == CHOOSE k : Solves(k)
<1>1. ASSUME NEW q \in Outcomes, NEW r \in Rows
      PROVE  Compete(exited, q, r) \in Outcomes /\ F[<<q, r>>] = Compete(exited, q, r)
  <2>1. Compete(exited, q, r) \in Outcomes
    BY ArbitrateDecides DEF Compete
  <2> QED
    BY <2>1
<1>2. Foldable(Outcomes, Rows, F, o, raw)
  <2>1. \A x \in Outcomes \X Rows : x[1] \in Outcomes /\ x[2] \in Rows
    OBVIOUS
  <2> QED
    BY <1>1, <2>1 DEF Foldable
<1>3. D = 1..Len(raw) /\ Len(raw) \in Nat /\ \A i \in D : raw[i] \in Rows
  OBVIOUS
<1>4. \A s \in SUBSET D : s # {} => Max(s) \in D
  BY <1>3, LastIndex
<1>5. \E e : Solves(e)
  <2>1. PICK e : FoldUnfolding(e, Outcomes, F, o, raw)
    BY <1>2, FoldUnfolds
  <2>2. ASSUME NEW s \in SUBSET D, s # {}
        PROVE  F[<<e[s \ {Max(s)}], raw[Max(s)]>>] = Compete(exited, e[s \ {Max(s)}], raw[Max(s)])
    <3>1. e[s \ {Max(s)}] \in Outcomes /\ raw[Max(s)] \in Rows
      BY <1>3, <1>4, <2>1, <2>2 DEF FoldUnfolding
    <3> HIDE DEF F
    <3> QED
      BY <1>1, <3>1
  <2> HIDE DEF F
  <2>3. Solves(e)
    BY <2>1, <2>2 DEF FoldUnfolding
  <2> QED
    BY <2>3
<1>6. Solves(k)
  <2> HIDE DEF Solves
  <2> QED
    BY <1>5
<1>7. AfterEntries(exited, o, raw) = k[D]
  BY DEF AfterEntries, FoldLeft, MapThenFoldSet, Compete
<1> HIDE DEF k
<1>8. k[{}] = o
  BY <1>6
<1>9. ASSUME NEW s \in SUBSET D, s # {}, k[s \ {Max(s)}] \in Outcomes
      PROVE  k[s] = F[<<k[s \ {Max(s)}], raw[Max(s)]>>]
  <2>1. k[s] = Compete(exited, k[s \ {Max(s)}], raw[Max(s)])
    BY <1>6, <1>9
  <2>2. raw[Max(s)] \in Rows
    BY <1>3, <1>4, <1>9
  <2> HIDE DEF F
  <2> QED
    BY <1>1, <1>9, <2>1, <2>2
<1> HIDE DEF F, Solves
<1>10. PICK h : TraceOf(h, Outcomes, F, o, raw) /\ h[Len(raw)] = k[D]
  <2>1. FoldsInto(k, Outcomes, F, o, raw)
    BY <1>8, <1>9 DEF FoldsInto
  <2> QED
    BY <1>2, <2>1, FoldTrace
<1>11. ASSUME NEW i \in 1..Len(raw) PROVE h[i] = Compete(exited, h[i - 1], raw[i])
  <2>1. h[i - 1] \in Outcomes /\ raw[i] \in Rows
    BY <1>3, <1>10 DEF TraceOf
  <2> QED
    BY <1>1, <1>10, <2>1 DEF TraceOf
<1> QED
  BY <1>7, <1>10, <1>11 DEF TraceOf, HasTrace

\* What pass 2b has made of a pool p: slots and capital that were taken are those of
\* its entries, and an entry refused a slot met a pool that had none.
Settled(p, v) ==
    /\ v \in Outcomes
    /\ Held(v.pool) = Held(p) \cup SymbolsOf(Range(v.entries))
    /\ \A i \in DOMAIN v.entries :
          /\ v.entries[i].symbol \notin Held(p)
          /\ v.entries[i].amount = Stake(v.pool)[v.entries[i].symbol]
    /\ \A s \in Held(p) : Stake(v.pool)[s] = Stake(p)[s]
    /\ \A i \in DOMAIN v.skipped :
          v.skipped[i].reason = "position_cap" => Cardinality(Held(v.pool)) >= MaxPositions
    /\ Ledger(v.pool) = Ledger(p)
    /\ p.cash >= 0 /\ Cardinality(Held(p)) <= MaxPositions =>
          v.pool.cash >= 0 /\ Cardinality(Held(v.pool)) <= MaxPositions

LEMMA RefusesSettles ==
    ASSUME NEW p \in Pools, NEW u \in Outcomes, NEW v \in Outcomes, Settled(p, u), Refuses(u, v)
    PROVE  Settled(p, v)
<1>1. PICK s \in Symbols, reason \in Reasons :
         /\ reason = "position_cap" => Cardinality(Held(u.pool)) >= MaxPositions
         /\ v.pool = u.pool
         /\ v.entries = u.entries
         /\ v.skipped = Append(u.skipped, [symbol |-> s, reason |-> reason])
  BY DEF Refuses
<1>2. u.skipped \in Seq(Skip)
  BY OutcomeParts
<1>3. ASSUME NEW i \in DOMAIN v.skipped, v.skipped[i].reason = "position_cap"
      PROVE  Cardinality(Held(v.pool)) >= MaxPositions
  <2>1. \/ i \in DOMAIN u.skipped /\ v.skipped[i] = u.skipped[i]
        \/ v.skipped[i] = [symbol |-> s, reason |-> reason]
    BY <1>1, <1>2
  <2>2. CASE i \in DOMAIN u.skipped /\ v.skipped[i] = u.skipped[i]
    BY <1>1, <1>3, <2>2 DEF Settled
  <2>3. CASE v.skipped[i] = [symbol |-> s, reason |-> reason]
    BY <1>1, <1>3, <2>3
  <2> QED
    BY <2>1, <2>2, <2>3
<1> QED
  BY <1>1, <1>3 DEF Settled

LEMMA AdmitsSettles ==
    ASSUME NEW p \in Pools, NEW u \in Outcomes, NEW v \in Outcomes, Settled(p, u), Admits(u, v)
    PROVE  Settled(p, v)
<1>1. PICK s \in Symbols, amount \in Nat, cost \in Nat :
         /\ s \notin Held(u.pool)
         /\ ~ (Cardinality(Held(u.pool)) >= MaxPositions)
         /\ amount <= u.pool.cash
         /\ Takes(u.pool, v.pool, s, amount)
         /\ v.entries = Append(u.entries, [symbol |-> s, amount |-> amount, cost |-> cost])
         /\ v.skipped = u.skipped
  BY DEF Admits
<1> DEFINE e == [symbol |-> s, amount |-> amount, cost |-> cost]
<1>2. u.entries \in Seq(Entry) /\ u.pool \in Pools /\ v.pool \in Pools
  BY OutcomeParts
<1>3. /\ Held(v.pool) = Held(u.pool) \cup {s}
      /\ Stake(v.pool) = [Stake(u.pool) EXCEPT ![s] = amount]
      /\ v.pool.cash = u.pool.cash - amount
      /\ Ledger(v.pool) = Ledger(u.pool)
  BY <1>1 DEF Takes
<1>4. /\ DOMAIN v.entries = DOMAIN u.entries \cup {Len(u.entries) + 1}
      /\ \A i \in DOMAIN u.entries : v.entries[i] = u.entries[i]
      /\ v.entries[Len(u.entries) + 1] = e
  BY <1>1, <1>2
<1>5. Range(v.entries) = Range(u.entries) \cup {e}
  BY <1>4 DEF Range
<1>6. SymbolsOf(Range(v.entries)) = SymbolsOf(Range(u.entries)) \cup {s}
  <2>1. e.symbol = s
    OBVIOUS
  <2> HIDE DEF e
  <2> QED
    BY <1>5, <2>1 DEF SymbolsOf
<1>7. Held(v.pool) = Held(p) \cup SymbolsOf(Range(v.entries))
  BY <1>3, <1>6 DEF Settled
<1>8. Stake(v.pool)[s] = amount /\ \A x \in Symbols \ {s} : Stake(v.pool)[x] = Stake(u.pool)[x]
  BY <1>2, <1>3, StakeType
<1>9. ASSUME NEW i \in DOMAIN v.entries
      PROVE  /\ v.entries[i].symbol \notin Held(p)
             /\ v.entries[i].amount = Stake(v.pool)[v.entries[i].symbol]
  <2>1. CASE i \in DOMAIN u.entries
    <3>1. u.entries[i] \in Entry
      BY <1>2, <2>1
    <3>2. u.entries[i].symbol \in Symbols
      BY <3>1 DEF Entry
    <3>3. u.entries[i].symbol \in Held(u.pool)
      BY <2>1 DEF Settled, SymbolsOf, Range
    <3>4. u.entries[i].symbol # s
      BY <1>1, <3>3
    <3> QED
      BY <1>4, <1>8, <2>1, <3>2, <3>4 DEF Settled
  <2>2. CASE i = Len(u.entries) + 1
    <3>1. s \notin Held(p)
      BY <1>1 DEF Settled
    <3>2. v.entries[i].symbol = s /\ v.entries[i].amount = amount
      BY <1>4, <2>2
    <3> QED
      BY <1>8, <3>1, <3>2
  <2> QED
    BY <1>4, <2>1, <2>2
<1>10. \A x \in Held(p) : Stake(v.pool)[x] = Stake(p)[x]
  <2>1. \A x \in Held(p) : x \in Symbols /\ x # s
    BY <1>1, PoolParts DEF Settled
  <2> QED
    BY <1>8, <2>1 DEF Settled
<1>11. /\ Cardinality(Held(u.pool)) \in Nat
       /\ Cardinality(Held(v.pool)) = Cardinality(Held(u.pool)) + 1
  <2>1. IsFiniteSet(Held(u.pool))
    BY <1>2, PoolParts
  <2> QED
    BY <1>1, <1>3, <2>1, FS_CardinalityType, FS_AddElement
<1>12. \A i \in DOMAIN v.skipped :
          v.skipped[i].reason = "position_cap" => Cardinality(Held(v.pool)) >= MaxPositions
  BY <1>1, <1>11, PoolAssumption DEF Settled
<1>13. u.pool.cash \in Int
  BY <1>2, PoolParts
<1>14. p.cash >= 0 /\ Cardinality(Held(p)) <= MaxPositions =>
          v.pool.cash >= 0 /\ Cardinality(Held(v.pool)) <= MaxPositions
  BY <1>1, <1>3, <1>11, <1>13, PoolAssumption DEF Settled
<1> QED
  BY <1>3, <1>7, <1>9, <1>10, <1>12, <1>14 DEF Settled

LEMMA EntriesSettle ==
    ASSUME NEW exited, NEW p \in Pools, NEW raw \in Seq(Rows)
    PROVE  Settled(p, AfterEntries(exited, Outcome(p, << >>, << >>), raw))
<1> DEFINE o == Outcome(p, << >>, << >>)
           n == Len(raw)
<1>1. o \in Outcomes
  BY DEF Outcome, Outcomes
<1>2. Settled(p, o)
  <2>1. o.pool = p /\ o.entries = << >> /\ o.skipped = << >>
    BY DEF Outcome
  <2>2. DOMAIN o.entries = {} /\ DOMAIN o.skipped = {}
    BY <2>1
  <2>3. SymbolsOf(Range(o.entries)) = {}
    BY <2>2 DEF SymbolsOf, Range
  <2> HIDE DEF o
  <2> QED
    BY <1>1, <2>1, <2>2, <2>3 DEF Settled
<1> HIDE DEF o
<1>3. PICK h \in [0..Len(raw) -> Outcomes] :
         /\ h[0] = o /\ h[Len(raw)] = AfterEntries(exited, o, raw)
         /\ \A i \in 1..Len(raw) : h[i] = Compete(exited, h[i - 1], raw[i])
  <2>1. HasTrace(exited, o, raw)
    BY <1>1, EntryTrace
  <2> QED
    BY <2>1 DEF HasTrace
<1>4. n \in Nat /\ \A i \in 1..n : raw[i] \in Rows
  BY DEF n
<1> DEFINE G == {i \in Nat : i <= n => Settled(p, h[i])}
<1>5. 0 \in G
  BY <1>2, <1>3
<1>6. ASSUME NEW i \in Nat, i \in G PROVE i + 1 \in G
  <2> SUFFICES ASSUME i + 1 <= n PROVE Settled(p, h[i + 1])
    OBVIOUS
  <2> DEFINE r == raw[i + 1]
             u == h[i]
             v == h[i + 1]
  <2>1. i + 1 \in 1..n /\ (i + 1) - 1 = i /\ i \in 0..n /\ i + 1 \in 0..n /\ i <= n
    BY <1>4
  <2>2. r \in Rows /\ u \in Outcomes /\ v \in Outcomes /\ v = Compete(exited, u, r)
    BY <1>3, <1>4, <2>1
  <2>3. Settled(p, u)
    BY <1>6, <2>1
  <2> HIDE DEF r, u, v
  <2>4. CASE v = u
    BY <2>3, <2>4 DEF v
  <2>5. CASE r.action = "entry_created" /\ v = Arbitrate(u, r)
    <3>1. Admits(u, v) \/ Refuses(u, v)
      BY <2>2, <2>5, ArbitrateDecides
    <3> QED
      BY <2>2, <2>3, <3>1, AdmitsSettles, RefusesSettles DEF v
  <2> QED
    BY <2>2, <2>4, <2>5 DEF Compete
<1>7. Settled(p, h[n])
  <2> HIDE DEF G
  <2>1. n \in G
    BY <1>4, <1>5, <1>6, InductionOnNumbers
  <2> QED
    BY <1>4, <2>1 DEF G
<1> QED
  BY <1>3, <1>7 DEF o
-----------------------------------------------------------------------------
(* The pool that is rebuilt from what the caller holds.                    *)

LEMMA RebuiltPool ==
    ASSUME NEW sent \in [Symbols -> Nat]
    PROVE  /\ PoolFor(sent) \in Pools
           /\ Held(PoolFor(sent)) = HeldIn(sent)
           /\ Stake(PoolFor(sent)) = sent
           /\ Ledger(PoolFor(sent)) = TotalCapital
<1> DEFINE H == HeldIn(sent)
           list == SetToSeq(H)
           lots == Lots(sent)
           n == Cardinality(H)
           p == PoolFor(sent)
<1>1. H \subseteq Symbols /\ IsFiniteSet(H) /\ IsFiniteSet(Symbols) /\ n \in Nat
  BY FS_Subset, FS_CardinalityType, EvaluateAssumption DEF HeldIn
<1>2. \A s \in Symbols : sent[s] \in Int /\ (s \notin H => sent[s] = 0)
  BY DEF HeldIn
<1>3. SumFunctionOnSet(sent, H) = SumFunctionOnSet(sent, Symbols)
  <2> HIDE DEF H
  <2> QED
    BY <1>1, <1>2, SumSupport
<1>4. SumFunctionOnSet(sent, Symbols) \in Int /\ TotalCapital \in Nat
  BY <1>1, <1>2, SumType, PoolAssumption
<1>5. CASE H = {}
  <2> DEFINE f == << >>
  <2>1. p = [positions |-> f, cash |-> TotalCapital]
    BY <1>5 DEF PoolFor, NewPool
  <2>2. f \in [{} -> Lot]
    OBVIOUS
  <2> HIDE DEF f
  <2>3. {} \subseteq Symbols /\ TotalCapital \in Int
    BY <1>4
  <2>4. p \in Pools /\ p.cash = TotalCapital /\ Held(p) = {}
    <3> HIDE DEF p, H
    <3>1. p.positions = f /\ p.cash = TotalCapital /\ DOMAIN f = {}
      BY <2>1, <2>2
    <3>2. f \in Positions
      BY <2>2, <2>3 DEF Positions
    <3>3. p \in Pools
      BY <2>1, <2>3, <3>2 DEF Pools
    <3> QED
      BY <3>1, <3>3 DEF Held
  <2>5. SumFunctionOnSet(sent, Symbols) = 0
    BY <1>3, <1>5, SumEmpty
  <2>6. Stake(p) = sent
    BY <1>2, <1>5, <2>4 DEF Stake
  <2> QED
    BY <1>4, <1>5, <2>4, <2>5, <2>6 DEF Ledger
<1>6. CASE H # {}
  <2>1. /\ list \in [1..n -> H] /\ H = {list[i] : i \in 1..n}
        /\ \A i, j \in 1..n : list[i] = list[j] => i = j
    BY <1>1, EnumerationOfSet, ZenonT(30)
  <2>2. lots = [i \in 1..n |-> [symbol |-> list[i], capital |-> sent[list[i]], sector |-> NoSector]]
    BY DEF Lots
  <2> HIDE DEF lots, n, H, list
  <2>3. /\ DOMAIN lots = 1..n
        /\ \A i \in 1..n : /\ lots[i].symbol = list[i] /\ lots[i].capital = sent[list[i]]
                           /\ lots[i].sector = NoSector
    BY <2>2
  <2>4. {lots[i].symbol : i \in DOMAIN lots} = H
    BY <2>1, <2>3
  <2>5. ASSUME NEW i \in 1..n PROVE LastOf(lots, list[i]) = i
    <3>1. \A j \in DOMAIN lots : lots[j].symbol = list[i] <=> j = i
      BY <2>1, <2>3
    <3>2. i <= i
      BY <1>1
    <3> QED
      BY <2>3, <3>1, <3>2 DEF LastOf
  <2> DEFINE f == [s \in H |-> [capital |-> lots[LastOf(lots, s)].capital,
                                sector  |-> lots[LastOf(lots, s)].sector]]
             paid == [i \in 1..n |-> lots[i].capital]
             c == TotalCapital - SumFunctionOnSet(paid, 1..n)
  <2>6. p = [positions |-> f, cash |-> c]
    BY <1>6, <2>3, <2>4 DEF PoolFor, Rebuild, SumFunction, lots, H
  <2>7. \A s \in H : f[s] = [capital |-> sent[s], sector |-> NoSector]
    BY <2>1, <2>3, <2>5
  <2>8. f \in [H -> Lot]
    <3>1. \A s \in H : sent[s] \in Nat
      BY <1>1
    <3>2. \A s \in H : f[s] \in Lot
      BY <2>7, <3>1 DEF Lot
    <3> QED
      BY <3>2
  <2>9. SumFunctionOnSet(paid, 1..n) = SumFunctionOnSet(sent, H)
    <3>1. paid = [i \in 1..n |-> sent[list[i]]]
      BY <2>3
    <3>2. \A i \in 1..n : sent[list[i]] \in Int
      BY <1>1, <1>2, <2>1
    <3>3. IsFiniteSet(1..n)
      BY <1>1, FS_Interval
    <3>4. SumFunctionOnSet(sent, {list[i] : i \in 1..n}) = SumFunctionOnSet([i \in 1..n |-> sent[list[i]]], 1..n)
      <4>1. \A i, j \in 1..n : list[i] = list[j] => i = j
        BY <2>1
      <4> DEFINE D == 1..n
      <4> HIDE DEF D
      <4> QED
        BY <3>2, <3>3, <4>1, SumReindex DEF D
    <3> QED
      BY <2>1, <3>1, <3>4
  <2> HIDE DEF f, p, paid
  <2>10. c = TotalCapital - SumFunctionOnSet(sent, Symbols) /\ c \in Int
    BY <1>3, <1>4, <2>9
  <2> HIDE DEF c
  <2>11. p \in Pools /\ p.cash = c /\ p.positions = f /\ Held(p) = H
    BY <1>1, <2>6, <2>8, <2>10, PoolMade
  <2>12. \A s \in Symbols : Stake(p)[s] = sent[s]
    <3>1. ASSUME NEW s \in H PROVE p.positions[s].capital = sent[s]
      <4>1. p.positions[s] = [capital |-> sent[s], sector |-> NoSector]
        BY <2>7, <2>11
      <4> QED
        BY <4>1
    <3>2. \A s \in Symbols : Stake(p)[s] = IF s \in H THEN p.positions[s].capital ELSE 0
      BY <2>11 DEF Stake
    <3> QED
      BY <1>1, <1>2, <3>1, <3>2
  <2>13. Stake(p) = sent
    BY <2>12 DEF Stake
  <2>14. Ledger(p) = TotalCapital
    BY <1>4, <2>10, <2>11, <2>13 DEF Ledger
  <2> QED
    BY <2>11, <2>13, <2>14 DEF p, H
<1> QED
  BY <1>5, <1>6
-----------------------------------------------------------------------------
(* Slots and capital of the calls in flight.                               *)

\* What the service decided rests on the pool that its caller's positions leave.
Arbitrated(x) ==
    /\ x.exits = ExitAnswers(x.raw)
    /\ Settled(AfterExits(PoolFor(x.sent), x.raw), Outcome(x.pool, x.entries, x.skipped))

Trading(x) ==
    /\ x.sent \in [Symbols -> Nat]
    /\ x.stage # "resolving" => x.raw \in Seq(Rows)
    /\ x.stage = "fanout" => x.pool = PoolFor(x.sent)
    /\ x.stage = "replied" => Arbitrated(x)

TradeInv ==
    /\ book \in [Symbols -> Nat]
    /\ \A c \in Calls : call[c] # NoCall => Trading(call[c])

WithinPool(b) ==
    /\ Cardinality(HeldIn(b)) <= MaxPositions
    /\ SumFunctionOnSet(b, Symbols) <= TotalCapital

\* A call that is alone works on what the broker may only have closed since, and
\* every exit it answers is a full one.
Sole(x) ==
    /\ WithinPool(x.sent)
    /\ \A s \in Symbols : book[s] = 0 \/ book[s] = x.sent[s]
    /\ x.stage # "resolving" =>
          \A i \in DOMAIN x.raw :
              x.raw[i].action = "exit_triggered" => x.raw[i].amount = x.sent[x.raw[i].symbol]

BudgetInv ==
    /\ WithinPool(book)
    /\ \A c \in Calls : call[c] # NoCall => Sole(call[c])

LEMMA TradeInit == Init => TradeInv
<1> SUFFICES ASSUME Init PROVE TradeInv
  OBVIOUS
<1>1. book = [s \in Symbols |-> 0] /\ call = [c \in Calls |-> NoCall]
  BY DEF Init
<1> QED
  BY <1>1 DEF TradeInv

\* A call that ends or that changes leaves the others as they are.
LEMMA OneCallTrades ==
    ASSUME IInv, TradeInv, NEW c \in Calls, NEW x, call' = [call EXCEPT ![c] = x],
           book' \in [Symbols -> Nat], x # NoCall => Trading(x)
    PROVE  TradeInv'
<1>1. DOMAIN call' = Calls /\ call'[c] = x /\ \A d \in Calls : d # c => call'[d] = call[d]
  BY DEF IInv, CallInv
<1>2. ASSUME NEW d \in Calls, call'[d] # NoCall PROVE Trading(call'[d])
  BY <1>1, <1>2 DEF TradeInv
<1>3. \A d \in Calls : call'[d] # NoCall => Trading(call[d])'
  BY <1>2 DEF Trading, Arbitrated
<1> QED
  BY <1>3 DEF TradeInv

LEMMA FanOutTrades ==
    ASSUME NEW members, NEW b, NEW sent \in [Symbols -> Nat]
    PROVE  Trading(FanOut(members, b, sent))
<1> DEFINE x == FanOut(members, b, sent)
<1>1. x.stage = "fanout" /\ x.sent = sent /\ x.raw = << >> /\ x.pool = PoolFor(sent)
  BY DEF FanOut
<1> HIDE DEF x
<1>2. x.raw \in Seq(Rows)
  BY <1>1
<1>3. Trading(x)
  BY <1>1, <1>2 DEF Trading
<1> QED
  BY <1>3 DEF x

LEMMA TradeStart ==
    ASSUME IInv, TradeInv, NEW c \in Calls, StartHit(c) \/ StartMiss(c)
    PROVE  TradeInv'
<1>1. book' = book /\ book \in [Symbols -> Nat]
  BY DEF StartHit, StartMiss, TradeInv
<1>2. CASE StartHit(c)
  <2> DEFINE x == FanOut(Cached(bar), bar, book)
  <2>1. call' = [call EXCEPT ![c] = x]
    BY <1>2 DEF StartHit
  <2>2. Trading(x)
    BY <1>1, FanOutTrades
  <2> HIDE DEF x
  <2> QED
    BY <1>1, <2>1, <2>2, OneCallTrades
<1>3. CASE StartMiss(c)
  <2> DEFINE x == [stage |-> "resolving", bar |-> bar, sent |-> book]
  <2>1. call' = [call EXCEPT ![c] = x]
    BY <1>3 DEF StartMiss
  <2>2. Trading(x)
    BY <1>1 DEF Trading
  <2> HIDE DEF x
  <2> QED
    BY <1>1, <2>1, <2>2, OneCallTrades
<1> QED
  BY <1>2, <1>3

LEMMA TradeResolve ==
    ASSUME IInv, TradeInv, NEW c \in Calls, Resolve(c)
    PROVE  TradeInv'
<1>1. book' = book /\ book \in [Symbols -> Nat] /\ call[c].sent \in [Symbols -> Nat]
  BY DEF Resolve, TradeInv, Trading
<1>2. PICK members : call' = [call EXCEPT ![c] = FanOut(members, call[c].bar, call[c].sent)]
  BY DEF Resolve
<1> DEFINE x == FanOut(members, call[c].bar, call[c].sent)
<1>3. Trading(x)
  BY <1>1, FanOutTrades
<1>4. call' = [call EXCEPT ![c] = x]
  BY <1>2
<1> HIDE DEF x
<1> QED
  BY <1>1, <1>3, <1>4, OneCallTrades

\* What the evaluator may answer is an answer of the arbitration's inputs.
LEMMA AnswersAreRows ==
    ASSUME NEW s \in Symbols, NEW held \in Nat, NEW cash, NEW answer \in Answers(s, held, cash)
    PROVE  answer \in Rows
<1>1. CASE answer = [symbol |-> s, action |-> "exit_triggered", amount |-> held, stop |-> NoStop]
  BY <1>1 DEF Rows, Actions
<1>2. CASE /\ held > 1
           /\ answer = [symbol |-> s, action |-> "exit_triggered", amount |-> held \div 2, stop |-> NoStop]
  <2>1. held \div 2 \in Nat
    BY <1>2
  <2> DEFINE half == held \div 2
  <2> HIDE DEF half
  <2> QED
    BY <1>2, <2>1 DEF Rows, Actions, half
<1>3. CASE \E cost \in Affordable(cash), p \in StopPcts :
              answer = [symbol |-> s, action |-> "entry_created", amount |-> cost, stop |-> p]
  <2>1. Affordable(cash) \subseteq Nat
    BY EvaluateAssumption DEF Affordable
  <2> QED
    BY <1>3, <2>1 DEF Rows, Actions
<1>4. CASE answer = [symbol |-> s, action |-> "no_action", amount |-> 0, stop |-> NoStop]
  BY <1>4 DEF Rows, Actions
<1> QED
  BY <1>1, <1>2, <1>3, <1>4 DEF Answers, Exits

LEMMA TradeEvaluate ==
    ASSUME IInv, TradeInv, NEW c \in Calls, EvaluateMember(c)
    PROVE  TradeInv'
<1> DEFINE x == call[c]
           s == Head(x.todo)
<1>1. Managing(x) /\ x.stage = "fanout" /\ x.todo # << >> /\ Trading(x)
  BY DEF EvaluateMember, IInv, CallInv, Resolving, TradeInv
<1>2. PICK answer \in Answers(s, x.sent[s], x.pool.cash) :
         call' = [call EXCEPT ![c].todo = Tail(@), ![c].raw = Append(@, answer)]
  BY DEF EvaluateMember
<1> DEFINE y == [x EXCEPT !.todo = Tail(@), !.raw = Append(@, answer)]
<1>3. call' = [call EXCEPT ![c] = y]
  BY <1>2 DEF IInv, CallInv
<1> HIDE DEF x
<1>4. /\ y.raw = Append(x.raw, answer) /\ y.stage = x.stage
      /\ y.sent = x.sent /\ y.pool = x.pool
  BY <1>1 DEF Managing, Fields
<1> HIDE DEF y
<1>5. s \in Symbols /\ x.sent[s] \in Nat
  <2>1. x.todo \in Seq(Symbols)
    BY <1>1 DEF Managing
  <2>2. s \in Symbols
    BY <1>1, <2>1
  <2>3. x.sent \in [Symbols -> Nat]
    BY <1>1 DEF Trading
  <2> QED
    BY <2>2, <2>3
<1>6. answer \in Rows
  BY <1>5, AnswersAreRows
<1>7. y.raw \in Seq(Rows)
  BY <1>1, <1>4, <1>6 DEF Trading
<1>8. Trading(y)
  BY <1>1, <1>4, <1>7 DEF Trading
<1>9. book' = book
  BY DEF EvaluateMember
<1> QED
  BY <1>3, <1>8, <1>9, OneCallTrades DEF TradeInv

LEMMA TradeAggregate ==
    ASSUME IInv, TradeInv, NEW c \in Calls, Aggregate(c)
    PROVE  TradeInv'
<1> DEFINE x == call[c]
           start == AfterExits(x.pool, x.raw)
           exited == SymbolsOf(ExitAnswers(x.raw))
           out == AfterEntries(exited, Outcome(start, << >>, << >>), x.raw)
           y == [x EXCEPT !.stage = "replied", !.pool = out.pool, !.exits = ExitAnswers(x.raw),
                          !.entries = out.entries, !.skipped = out.skipped]
<1>1. Managing(x) /\ x.stage = "fanout" /\ Trading(x)
  BY DEF Aggregate, IInv, CallInv, Resolving, TradeInv
<1>2. call' = [call EXCEPT ![c] = y]
  BY DEF Aggregate, IInv, CallInv
<1> HIDE DEF x, out, start
<1>3. /\ y.stage = "replied" /\ y.sent = x.sent /\ y.raw = x.raw
      /\ y.exits = ExitAnswers(x.raw) /\ y.pool = out.pool
      /\ y.entries = out.entries /\ y.skipped = out.skipped
  BY <1>1 DEF Managing, Fields
<1> HIDE DEF y
<1>4. x.sent \in [Symbols -> Nat] /\ x.raw \in Seq(Rows) /\ x.pool = PoolFor(x.sent)
  BY <1>1 DEF Trading
<1>5. x.pool \in Pools
  BY <1>4, RebuiltPool
<1>6. start \in Pools
  BY <1>4, <1>5, ExitsRelease DEF Released, start
<1>7. Settled(start, out)
  <2> HIDE DEF exited
  <2> QED
    BY <1>4, <1>6, EntriesSettle DEF out
<1>8. Settled(start, Outcome(y.pool, y.entries, y.skipped))
  <2>1. out \in Outcomes
    BY <1>7 DEF Settled
  <2>2. out = [pool |-> out.pool, entries |-> out.entries, skipped |-> out.skipped]
    BY <2>1 DEF Outcomes
  <2>3. out = Outcome(y.pool, y.entries, y.skipped)
    BY <1>3, <2>2 DEF Outcome
  <2> QED
    BY <1>7, <2>3
<1>9. Arbitrated(y)
  BY <1>3, <1>4, <1>8 DEF Arbitrated, start
<1>10. Trading(y)
  BY <1>3, <1>4, <1>9 DEF Trading
<1>11. book' = book
  BY DEF Aggregate
<1> QED
  BY <1>2, <1>10, <1>11, OneCallTrades DEF TradeInv

\* What is known of a reply: its slots and capital against what the caller had sent.
LEMMA ReplyParts ==
    ASSUME NEW x, Trading(x), x.stage = "replied"
    PROVE  /\ x.pool \in Pools /\ x.entries \in Seq(Entry) /\ x.skipped \in Seq(Skip)
           /\ x.exits = ExitAnswers(x.raw) /\ x.exits \subseteq Rows
           /\ Held(x.pool) = (HeldIn(x.sent) \ SymbolsOf(x.exits)) \cup SymbolsOf(Range(x.entries))
           /\ \A i \in DOMAIN x.entries :
                 /\ x.entries[i].symbol \notin HeldIn(x.sent) \ SymbolsOf(x.exits)
                 /\ x.entries[i].amount = Stake(x.pool)[x.entries[i].symbol]
           /\ \A s \in HeldIn(x.sent) \ SymbolsOf(x.exits) : Stake(x.pool)[s] = x.sent[s]
           /\ \A i \in DOMAIN x.skipped :
                 x.skipped[i].reason = "position_cap" => Cardinality(Held(x.pool)) >= MaxPositions
           /\ Ledger(x.pool) = TotalCapital
           /\ WithinPool(x.sent) => x.pool.cash >= 0 /\ Cardinality(Held(x.pool)) <= MaxPositions
<1> DEFINE p == PoolFor(x.sent)
           start == AfterExits(p, x.raw)
           v == Outcome(x.pool, x.entries, x.skipped)
           E == SymbolsOf(x.exits)
           H == HeldIn(x.sent)
<1>1. x.sent \in [Symbols -> Nat] /\ x.raw \in Seq(Rows) /\ x.exits = ExitAnswers(x.raw)
      /\ Settled(start, v)
  BY DEF Trading, Arbitrated
<1>2. v.pool = x.pool /\ v.entries = x.entries /\ v.skipped = x.skipped
  BY DEF Outcome
<1>3. p \in Pools /\ Held(p) = H /\ Stake(p) = x.sent /\ Ledger(p) = TotalCapital
  BY <1>1, RebuiltPool
<1>4. Released(p, start, E)
  BY <1>1, <1>3, ExitsRelease
<1> HIDE DEF p, v, start, E
<1>5. v \in Outcomes
  BY <1>1 DEF Settled
<1>6. x.pool \in Pools /\ x.entries \in Seq(Entry) /\ x.skipped \in Seq(Skip)
  BY <1>2, <1>5, OutcomeParts
<1>7. x.exits \subseteq Rows
  <2>1. \A i \in DOMAIN x.raw : x.raw[i] \in Rows
    BY <1>1
  <2> QED
    BY <1>1, <2>1 DEF ExitAnswers
<1>8. Held(start) = H \ E
  BY <1>3, <1>4 DEF Released
<1>9. Held(x.pool) = (H \ E) \cup SymbolsOf(Range(x.entries))
  BY <1>1, <1>2, <1>8 DEF Settled
<1>10. \A i \in DOMAIN x.entries :
          /\ x.entries[i].symbol \notin H \ E
          /\ x.entries[i].amount = Stake(x.pool)[x.entries[i].symbol]
  BY <1>1, <1>2, <1>8 DEF Settled
<1>11. \A s \in H \ E : Stake(x.pool)[s] = x.sent[s]
  <2>1. \A s \in H : s \in Symbols
    BY DEF HeldIn
  <2>2. \A s \in H \ E : Stake(start)[s] = x.sent[s]
    BY <1>3, <1>4, <2>1 DEF Released
  <2> QED
    BY <1>1, <1>2, <1>8, <2>2 DEF Settled
<1>12. \A i \in DOMAIN x.skipped :
          x.skipped[i].reason = "position_cap" => Cardinality(Held(x.pool)) >= MaxPositions
  BY <1>1, <1>2 DEF Settled
<1>13. Ledger(x.pool) = TotalCapital
  BY <1>1, <1>2, <1>3, <1>4 DEF Settled, Released
<1>14. ASSUME WithinPool(x.sent)
       PROVE  x.pool.cash >= 0 /\ Cardinality(Held(x.pool)) <= MaxPositions
  <2>1. p.cash >= 0
    <3>1. p.cash + SumFunctionOnSet(x.sent, Symbols) = TotalCapital /\ p.cash \in Int
      BY <1>3, PoolParts DEF Ledger
    <3>2. SumFunctionOnSet(x.sent, Symbols) <= TotalCapital /\ SumFunctionOnSet(x.sent, Symbols) \in Nat
      BY <1>3, <1>14, StakeType DEF WithinPool
    <3> QED
      BY <3>1, <3>2, PoolAssumption
  <2>2. start.cash >= 0
    <3>1. start.cash \in Int /\ p.cash \in Int /\ start.cash >= p.cash
      BY <1>3, <1>4, PoolParts DEF Released
    <3> QED
      BY <2>1, <3>1
  <2>3. Cardinality(Held(start)) <= MaxPositions
    <3>1. IsFiniteSet(H) /\ Cardinality(H) <= MaxPositions
      BY <1>3, <1>14, PoolParts DEF WithinPool
    <3>2. Cardinality(H \ E) <= Cardinality(H) /\ IsFiniteSet(H \ E)
      BY <3>1, FS_Subset
    <3>3. Cardinality(H) \in Nat /\ Cardinality(H \ E) \in Nat
      BY <3>1, <3>2, FS_CardinalityType
    <3> QED
      BY <1>8, <3>1, <3>2, <3>3, PoolAssumption
  <2> QED
    BY <1>1, <1>2, <2>2, <2>3 DEF Settled
<1> QED
  BY <1>1, <1>6, <1>7, <1>9, <1>10, <1>11, <1>12, <1>13, <1>14 DEF E

\* The orders of a reply, as the caller reads them.
LEMMA OrdersRead ==
    ASSUME NEW c \in Calls, Trading(call[c]), call[c].stage = "replied", NEW s \in Symbols
    PROVE  /\ Sold(c, s) \in Nat /\ Bought(c, s) \in Nat
           /\ \/ Bought(c, s) = 0
              \/ \E i \in DOMAIN call[c].entries :
                    call[c].entries[i].symbol = s /\ Bought(c, s) = OrderOf(call[c].entries[i])
           /\ s \notin SymbolsOf(call[c].exits) => Sold(c, s) = 0
           /\ s \in SymbolsOf(call[c].exits) =>
                 \E r \in call[c].exits : r.symbol = s /\ Sold(c, s) = r.amount
<1> DEFINE x == call[c]
           mine == {i \in DOMAIN x.entries : x.entries[i].symbol = s /\ Key(c, s) \notin orders}
           out == {r \in x.exits : r.symbol = s}
<1>1. x.entries \in Seq(Entry) /\ x.exits \subseteq Rows
  BY ReplyParts
<1>2. Bought(c, s) = IF mine = {} THEN 0 ELSE OrderOf(x.entries[CHOOSE i \in mine : TRUE])
  BY DEF Bought
<1>3. Sold(c, s) = IF out = {} THEN 0 ELSE (CHOOSE r \in out : TRUE).amount
  BY DEF Sold
<1> HIDE DEF x
<1>4. Bought(c, s) = 0 \/ \E i \in DOMAIN x.entries : x.entries[i].symbol = s /\ Bought(c, s) = OrderOf(x.entries[i])
  <2> DEFINE j == CHOOSE i \in mine : TRUE
  <2>1. mine # {} => j \in mine
    OBVIOUS
  <2> HIDE DEF j
  <2>2. mine # {} => j \in DOMAIN x.entries /\ x.entries[j].symbol = s
    BY <2>1
  <2>3. mine # {} => Bought(c, s) = OrderOf(x.entries[j])
    BY <1>2 DEF j
  <2>4. mine = {} => Bought(c, s) = 0
    BY <1>2
  <2> HIDE DEF mine
  <2> QED
    BY <2>2, <2>3, <2>4
<1>5. Bought(c, s) \in Nat
  <2>1. \A i \in DOMAIN x.entries : x.entries[i] \in Entry
    BY <1>1
  <2>2. \A i \in DOMAIN x.entries : OrderOf(x.entries[i]) \in Nat
    BY <2>1 DEF Entry, OrderOf
  <2> QED
    BY <1>4, <2>2
<1>6. out # {} => \E r \in out : Sold(c, s) = r.amount
  <2> DEFINE r == CHOOSE r \in out : TRUE
  <2>1. out # {} => r \in out
    OBVIOUS
  <2>2. out # {} => Sold(c, s) = r.amount
    BY <1>3
  <2> HIDE DEF r, out
  <2> QED
    BY <2>1, <2>2
<1>7. out = {} => Sold(c, s) = 0
  BY <1>3
<1>8. s \in SymbolsOf(x.exits) <=> out # {}
  BY DEF SymbolsOf
<1>9. Sold(c, s) \in Nat
  <2>1. \A r \in out : r.amount \in Nat
    BY <1>1, RowParts
  <2> HIDE DEF out
  <2> QED
    BY <1>6, <1>7, <2>1
<1> QED
  BY <1>4, <1>5, <1>6, <1>7, <1>8, <1>9 DEF x

LEMMA TradeApply ==
    ASSUME IInv, TradeInv, NEW c \in Calls, ApplyReply(c) \/ LoseReply(c)
    PROVE  TradeInv'
<1>1. call' = [call EXCEPT ![c] = NoCall]
  BY DEF ApplyReply, LoseReply
<1>2. book' \in [Symbols -> Nat]
  <2>1. CASE LoseReply(c)
    BY <2>1 DEF LoseReply, TradeInv
  <2>2. CASE ApplyReply(c)
    <3>1. /\ book' = [s \in Symbols |-> Larger(0, book[s] - Sold(c, s)) + Bought(c, s)]
          /\ call[c] # NoCall /\ call[c].stage = "replied"
      BY <2>2 DEF ApplyReply
    <3>2. Trading(call[c]) /\ book \in [Symbols -> Nat]
      BY <3>1 DEF TradeInv
    <3>3. ASSUME NEW s \in Symbols PROVE Larger(0, book[s] - Sold(c, s)) + Bought(c, s) \in Nat
      <4>1. Sold(c, s) \in Nat /\ Bought(c, s) \in Nat /\ book[s] \in Nat
        BY <3>1, <3>2, OrdersRead
      <4> QED
        BY <4>1 DEF Larger
    <3> QED
      BY <3>1, <3>3
  <2> QED
    BY <2>1, <2>2
<1> QED
  BY <1>1, <1>2, OneCallTrades

LEMMA TradeNext == IInv /\ TradeInv /\ [Next]_vars => TradeInv'
<1> SUFFICES ASSUME IInv, TradeInv, [Next]_vars PROVE TradeInv'
  OBVIOUS
<1>1. CASE \E c \in Calls : StartHit(c) \/ StartMiss(c)
  BY <1>1, TradeStart
<1>2. CASE \E c \in Calls : Resolve(c)
  BY <1>2, TradeResolve
<1>3. CASE \E c \in Calls : EvaluateMember(c)
  BY <1>3, TradeEvaluate
<1>4. CASE \E c \in Calls : Aggregate(c)
  BY <1>4, TradeAggregate
<1>5. CASE \E c \in Calls : ApplyReply(c) \/ LoseReply(c)
  BY <1>5, TradeApply
<1>6. CASE \/ \E b \in 0..LastBar : Forget(b)
           \/ \E s \in Symbols : BrokerStop(s)
           \/ NextBar \/ UNCHANGED vars
  <2>1. call' = call
    BY <1>6 DEF Forget, BrokerStop, NextBar, vars
  <2>2. book' \in [Symbols -> Nat]
    BY <1>6 DEF Forget, BrokerStop, NextBar, vars, TradeInv
  <2> QED
    BY <2>1, <2>2 DEF TradeInv, Trading, Arbitrated
<1> QED
  BY <1>1, <1>2, <1>3, <1>4, <1>5, <1>6 DEF Next

LEMMA TradeAlways == Spec => []TradeInv
  BY TradeInit, TradeNext, IInvAlways, PTL DEF Spec

\* An entry is refused a slot only when the positions that the caller sent, without
\* those that exit in this call, and the entries that this call admits take them all:
\* for any symbols, capital and cap, with exits of a part of a position too, and with
\* any number of calls in flight (universe_evaluator.py: exits are released before the
\* entries compete).
THEOREM SlotsRefusedOnlyWhenTaken == Spec => []NoSpuriousCapSkip
<1>1. TradeInv => NoSpuriousCapSkip
  <2> SUFFICES ASSUME TradeInv, NEW c \in Replied, NEW i \in DOMAIN call[c].skipped,
                      call[c].skipped[i].reason = "position_cap"
               PROVE  Cardinality((HeldIn(call[c].sent) \ SymbolsOf(call[c].exits))
                                  \cup SymbolsOf(Range(call[c].entries))) >= MaxPositions
    BY DEF NoSpuriousCapSkip
  <2>1. Trading(call[c]) /\ call[c].stage = "replied"
    BY DEF Replied, TradeInv
  <2> QED
    BY <2>1, ReplyParts
<1> QED
  BY <1>1, TradeAlways, PTL
-----------------------------------------------------------------------------
(* The book.  Calls of one deployment do not overlap, an exit closes the   *)
(* whole position and the OMS buys what was allocated: without any of them *)
(* the book may leave the pool, see the README, Divergences.               *)

LEMMA EmptyBook == \A b : b = [s \in Symbols |-> 0] => WithinPool(b)
<1> SUFFICES ASSUME NEW b, b = [s \in Symbols |-> 0] PROVE WithinPool(b)
  OBVIOUS
<1>1. HeldIn(b) = {}
  BY DEF HeldIn
<1>2. IsFiniteSet(Symbols) /\ \A s \in Symbols : b[s] \in Int /\ b[s] = 0
  BY EvaluateAssumption
<1>3. SumFunctionOnSet(b, {}) = SumFunctionOnSet(b, Symbols)
  <2>1. {} \in SUBSET Symbols /\ \A s \in Symbols \ {} : b[s] = 0
    BY <1>2
  <2> QED
    BY <1>2, <2>1, SumSupport
<1>4. SumFunctionOnSet(b, Symbols) = 0
  BY <1>3, SumEmpty
<1> QED
  BY <1>1, <1>4, FS_EmptySet, PoolAssumption DEF WithinPool

\* A book that has no more of anything stays within the pool.
LEMMA SmallerBook ==
    ASSUME NEW a \in [Symbols -> Nat], NEW b \in [Symbols -> Nat],
           WithinPool(a), \A s \in Symbols : b[s] <= a[s]
    PROVE  WithinPool(b)
<1>1. IsFiniteSet(Symbols) /\ HeldIn(a) \subseteq Symbols /\ HeldIn(b) \subseteq HeldIn(a)
  BY EvaluateAssumption DEF HeldIn
<1>2. IsFiniteSet(HeldIn(a)) /\ IsFiniteSet(HeldIn(b)) /\ Cardinality(HeldIn(b)) <= Cardinality(HeldIn(a))
  BY <1>1, FS_Subset
<1>3. Cardinality(HeldIn(a)) \in Nat /\ Cardinality(HeldIn(b)) \in Nat
  BY <1>2, FS_CardinalityType
<1>4. SumFunctionOnSet(b, Symbols) <= SumFunctionOnSet(a, Symbols)
  BY <1>1, SumMonotone
<1>5. SumFunctionOnSet(a, Symbols) \in Int /\ SumFunctionOnSet(b, Symbols) \in Int
  BY <1>1, SumType
<1> QED
  BY <1>2, <1>3, <1>4, <1>5, PoolAssumption DEF WithinPool

\* So does a book that has no more of anything than a pool that kept its own limits.
LEMMA BookOfPool ==
    ASSUME NEW p \in Pools, Ledger(p) = TotalCapital, p.cash >= 0,
           Cardinality(Held(p)) <= MaxPositions,
           NEW b \in [Symbols -> Nat], \A s \in Symbols : b[s] <= Stake(p)[s]
    PROVE  WithinPool(b)
<1>1. Stake(p) \in [Symbols -> Nat] /\ SumFunctionOnSet(Stake(p), Symbols) \in Nat
  BY StakeType
<1>2. SumFunctionOnSet(Stake(p), Symbols) <= TotalCapital
  BY <1>1, PoolParts, PoolAssumption DEF Ledger
<1>3. HeldIn(Stake(p)) \subseteq Held(p) /\ IsFiniteSet(Held(p))
  BY PoolParts DEF HeldIn, Stake
<1>4. Cardinality(HeldIn(Stake(p))) <= MaxPositions
  <2>1. Cardinality(HeldIn(Stake(p))) <= Cardinality(Held(p)) /\ IsFiniteSet(HeldIn(Stake(p)))
    BY <1>3, FS_Subset
  <2>2. Cardinality(HeldIn(Stake(p))) \in Nat /\ Cardinality(Held(p)) \in Nat
    BY <1>3, <2>1, FS_CardinalityType
  <2> QED
    BY <2>1, <2>2, PoolAssumption
<1>5. WithinPool(Stake(p))
  BY <1>2, <1>4 DEF WithinPool
<1> HIDE DEF Stake
<1> QED
  BY <1>1, <1>5, SmallerBook

\* After a lone call, the caller holds of each symbol at most what the pool has in it.
LEMMA ReplyFits ==
    ASSUME BuysAllocated, NEW c \in Calls, NEW b \in [Symbols -> Nat],
           Trading(call[c]), call[c].stage = "replied",
           \A s \in Symbols : b[s] = 0 \/ b[s] = call[c].sent[s],
           \A r \in call[c].exits : r.amount = call[c].sent[r.symbol],
           NEW s \in Symbols
    PROVE  Larger(0, b[s] - Sold(c, s)) + Bought(c, s) <= Stake(call[c].pool)[s]
<1> DEFINE x == call[c]
           E == SymbolsOf(x.exits)
           H == HeldIn(x.sent)
           kept == Larger(0, b[s] - Sold(c, s))
<1>1. x.sent \in [Symbols -> Nat] /\ x.pool \in Pools
  BY ReplyParts DEF Trading
<1>2. Stake(x.pool)[s] \in Nat /\ x.sent[s] \in Nat /\ b[s] \in Nat /\ b[s] <= x.sent[s]
  BY <1>1, StakeType
<1>3. Sold(c, s) \in Nat /\ Bought(c, s) \in Nat
  BY OrdersRead
<1>4. s \notin H \ E => kept = 0
  <2>1. s \in E => Sold(c, s) = x.sent[s]
    BY OrdersRead
  <2>2. s \notin H => x.sent[s] = 0
    BY <1>2 DEF HeldIn
  <2> QED
    BY <1>2, <1>3, <2>1, <2>2 DEF Larger
<1>5. kept <= x.sent[s] /\ kept \in Nat
  BY <1>2, <1>3 DEF Larger
<1>6. s \in H \ E => Stake(x.pool)[s] = x.sent[s]
  BY ReplyParts
<1>7. Bought(c, s) # 0 => s \notin H \ E /\ Bought(c, s) = Stake(x.pool)[s]
  BY OrdersRead, ReplyParts DEF OrderOf
<1> HIDE DEF kept, x, E, H
<1>8. kept + Bought(c, s) <= Stake(x.pool)[s]
  BY <1>2, <1>3, <1>4, <1>5, <1>6, <1>7
<1> QED
  BY <1>8 DEF kept, x

LEMMA BudgetInit == Init => BudgetInv
  BY EmptyBook DEF Init, BudgetInv

\* The only call changes, with the book as it was.
LEMMA LoneCall ==
    ASSUME OneCallAtATime, IInv, NEW c \in Calls, NEW x, call' = [call EXCEPT ![c] = x],
           book' = book, WithinPool(book), x # NoCall => Sole(x)
    PROVE  BudgetInv'
<1>1. call'[c] = x /\ \A d \in Calls : d = c
  BY DEF OneCallAtATime, IInv, CallInv
<1>2. \A d \in Calls : call'[d] # NoCall => Sole(call[d])'
  BY <1>1 DEF Sole
<1> QED
  BY <1>2 DEF BudgetInv

LEMMA BudgetStart ==
    ASSUME OneCallAtATime, IInv, BudgetInv, NEW c \in Calls, StartHit(c) \/ StartMiss(c)
    PROVE  BudgetInv'
<1>1. book' = book /\ WithinPool(book)
  BY DEF StartHit, StartMiss, BudgetInv
<1>2. CASE StartHit(c)
  <2> DEFINE x == FanOut(Cached(bar), bar, book)
  <2>1. call' = [call EXCEPT ![c] = x]
    BY <1>2 DEF StartHit
  <2>2. x.sent = book /\ x.raw = << >>
    BY DEF FanOut
  <2> HIDE DEF x
  <2>3. Sole(x)
    BY <1>1, <2>2 DEF Sole
  <2> QED
    BY <1>1, <2>1, <2>3, LoneCall
<1>3. CASE StartMiss(c)
  <2> DEFINE x == [stage |-> "resolving", bar |-> bar, sent |-> book]
  <2>1. call' = [call EXCEPT ![c] = x]
    BY <1>3 DEF StartMiss
  <2>2. x.sent = book /\ x.stage = "resolving"
    OBVIOUS
  <2> HIDE DEF x
  <2>3. Sole(x)
    BY <1>1, <2>2 DEF Sole
  <2> QED
    BY <1>1, <2>1, <2>3, LoneCall
<1> QED
  BY <1>2, <1>3

LEMMA BudgetResolve ==
    ASSUME OneCallAtATime, IInv, BudgetInv, NEW c \in Calls, Resolve(c)
    PROVE  BudgetInv'
<1>1. book' = book /\ WithinPool(book) /\ Sole(call[c])
  BY DEF Resolve, BudgetInv
<1>2. PICK members : call' = [call EXCEPT ![c] = FanOut(members, call[c].bar, call[c].sent)]
  BY DEF Resolve
<1> DEFINE x == FanOut(members, call[c].bar, call[c].sent)
<1>3. call' = [call EXCEPT ![c] = x]
  BY <1>2
<1>4. x.sent = call[c].sent /\ x.raw = << >>
  BY DEF FanOut
<1> HIDE DEF x
<1>5. Sole(x)
  BY <1>1, <1>4 DEF Sole
<1> QED
  BY <1>1, <1>3, <1>5, LoneCall

\* Without a ladder an exit closes what was sent.
LEMMA BudgetEvaluate ==
    ASSUME ~PartialExits, OneCallAtATime, IInv, TradeInv, BudgetInv,
           NEW c \in Calls, EvaluateMember(c)
    PROVE  BudgetInv'
<1> DEFINE x == call[c]
           s == Head(x.todo)
<1>1. Managing(x) /\ x.stage = "fanout" /\ Sole(x) /\ x.raw \in Seq(Rows)
  BY DEF EvaluateMember, IInv, CallInv, Resolving, BudgetInv, TradeInv, Trading
<1>2. PICK answer \in Answers(s, x.sent[s], x.pool.cash) :
         call' = [call EXCEPT ![c].todo = Tail(@), ![c].raw = Append(@, answer)]
  BY DEF EvaluateMember
<1> DEFINE y == [x EXCEPT !.todo = Tail(@), !.raw = Append(@, answer)]
<1>3. call' = [call EXCEPT ![c] = y]
  BY <1>2 DEF IInv, CallInv
<1>4. answer.symbol = s /\ (answer.action = "exit_triggered" => answer.amount = x.sent[s])
  BY DEF Answers, Exits
<1> HIDE DEF x
<1>5. y.raw = Append(x.raw, answer) /\ y.stage = x.stage /\ y.sent = x.sent
  BY <1>1 DEF Managing, Fields
<1> HIDE DEF y, s
<1>6. ASSUME NEW i \in DOMAIN y.raw, y.raw[i].action = "exit_triggered"
      PROVE  y.raw[i].amount = y.sent[y.raw[i].symbol]
  <2>1. (i \in DOMAIN x.raw /\ y.raw[i] = x.raw[i]) \/ y.raw[i] = answer
    BY <1>1, <1>5
  <2>2. CASE i \in DOMAIN x.raw /\ y.raw[i] = x.raw[i]
    BY <1>1, <1>5, <1>6, <2>2 DEF Sole
  <2>3. CASE y.raw[i] = answer
    BY <1>4, <1>5, <1>6, <2>3
  <2> QED
    BY <2>1, <2>2, <2>3
<1>7. Sole(y)
  BY <1>1, <1>5, <1>6 DEF Sole
<1>8. book' = book /\ WithinPool(book)
  BY DEF EvaluateMember, BudgetInv
<1> QED
  BY <1>3, <1>7, <1>8, LoneCall

LEMMA BudgetAggregate ==
    ASSUME OneCallAtATime, IInv, BudgetInv, NEW c \in Calls, Aggregate(c)
    PROVE  BudgetInv'
<1> DEFINE x == call[c]
           out == AfterEntries(SymbolsOf(ExitAnswers(x.raw)),
                               Outcome(AfterExits(x.pool, x.raw), << >>, << >>), x.raw)
           y == [x EXCEPT !.stage = "replied", !.pool = out.pool, !.exits = ExitAnswers(x.raw),
                          !.entries = out.entries, !.skipped = out.skipped]
<1>1. Managing(x) /\ x.stage = "fanout" /\ Sole(x)
  BY DEF Aggregate, IInv, CallInv, Resolving, BudgetInv
<1>2. call' = [call EXCEPT ![c] = y]
  BY DEF Aggregate, IInv, CallInv
<1> HIDE DEF x, out
<1>3. y.stage = "replied" /\ y.raw = x.raw /\ y.sent = x.sent
  BY <1>1 DEF Managing, Fields
<1> HIDE DEF y
<1>4. Sole(y)
  BY <1>1, <1>3 DEF Sole
<1>5. book' = book /\ WithinPool(book)
  BY DEF Aggregate, BudgetInv
<1> QED
  BY <1>2, <1>4, <1>5, LoneCall

LEMMA BudgetApply ==
    ASSUME BuysAllocated, OneCallAtATime, IInv, TradeInv, BudgetInv, NEW c \in Calls,
           ApplyReply(c) \/ LoseReply(c)
    PROVE  BudgetInv'
<1>1. call' = [call EXCEPT ![c] = NoCall]
  BY DEF ApplyReply, LoseReply
<1>2. WithinPool(book')
  <2>1. CASE LoseReply(c)
    BY <2>1 DEF LoseReply, BudgetInv
  <2>2. CASE ApplyReply(c)
    <3> DEFINE x == call[c]
    <3>1. /\ book' = [s \in Symbols |-> Larger(0, book[s] - Sold(c, s)) + Bought(c, s)]
          /\ call[c] # NoCall /\ call[c].stage = "replied"
      BY <2>2 DEF ApplyReply
    <3>2. /\ Trading(x) /\ Sole(x) /\ book \in [Symbols -> Nat] /\ book' \in [Symbols -> Nat]
      BY <2>2, <3>1, TradeApply DEF TradeInv, BudgetInv
    <3>3. \A r \in x.exits : r.amount = x.sent[r.symbol]
      <4>1. x.exits = ExitAnswers(x.raw)
        BY <3>1, <3>2, ReplyParts
      <4>2. \A i \in DOMAIN x.raw :
               x.raw[i].action = "exit_triggered" => x.raw[i].amount = x.sent[x.raw[i].symbol]
        BY <3>1, <3>2 DEF Sole
      <4> QED
        BY <4>1, <4>2 DEF ExitAnswers
    <3>4. \A s \in Symbols : book[s] = 0 \/ book[s] = x.sent[s]
      BY <3>2 DEF Sole
    <3>5. \A s \in Symbols : book'[s] <= Stake(x.pool)[s]
      BY <3>1, <3>2, <3>3, <3>4, ReplyFits
    <3>6. /\ x.pool \in Pools /\ Ledger(x.pool) = TotalCapital
          /\ x.pool.cash >= 0 /\ Cardinality(Held(x.pool)) <= MaxPositions
      BY <3>1, <3>2, ReplyParts DEF Sole
    <3> HIDE DEF x
    <3> QED
      BY <3>2, <3>5, <3>6, BookOfPool
  <2> QED
    BY <2>1, <2>2
<1>3. \A d \in Calls : call'[d] = NoCall
  BY <1>1 DEF OneCallAtATime, IInv, CallInv
<1> QED
  BY <1>2, <1>3 DEF BudgetInv, WithinPool

\* A stop that fills at the broker leaves less than every call knows of.
LEMMA BudgetStop ==
    ASSUME TradeInv, BudgetInv, NEW s \in Symbols, BrokerStop(s)
    PROVE  BudgetInv'
<1>1. book' = [book EXCEPT ![s] = 0] /\ call' = call /\ book \in [Symbols -> Nat]
  BY DEF BrokerStop, TradeInv
<1>2. book' \in [Symbols -> Nat] /\ \A x \in Symbols : book'[x] <= book[x] /\ book'[x] \in {0, book[x]}
  BY <1>1
<1>3. WithinPool(book')
  BY <1>1, <1>2, SmallerBook DEF BudgetInv
<1>4. ASSUME NEW c \in Calls, call'[c] # NoCall PROVE Sole(call[c])'
  <2>1. Sole(call[c])
    BY <1>1, <1>4 DEF BudgetInv
  <2> QED
    BY <1>1, <1>2, <2>1 DEF Sole, WithinPool, HeldIn
<1> QED
  BY <1>3, <1>4 DEF BudgetInv, WithinPool

LEMMA BudgetNext ==
    ASSUME ~PartialExits, OneCallAtATime, BuysAllocated
    PROVE  IInv /\ TradeInv /\ BudgetInv /\ [Next]_vars => BudgetInv'
<1> SUFFICES ASSUME IInv, TradeInv, BudgetInv, [Next]_vars PROVE BudgetInv'
  OBVIOUS
<1>1. CASE \E c \in Calls : StartHit(c) \/ StartMiss(c)
  BY <1>1, BudgetStart
<1>2. CASE \E c \in Calls : Resolve(c)
  BY <1>2, BudgetResolve
<1>3. CASE \E c \in Calls : EvaluateMember(c)
  BY <1>3, BudgetEvaluate
<1>4. CASE \E c \in Calls : Aggregate(c)
  BY <1>4, BudgetAggregate
<1>5. CASE \E c \in Calls : ApplyReply(c) \/ LoseReply(c)
  BY <1>5, BudgetApply
<1>6. CASE \E s \in Symbols : BrokerStop(s)
  BY <1>6, BudgetStop
<1>7. CASE (\E b \in 0..LastBar : Forget(b)) \/ NextBar \/ UNCHANGED vars
  <2>1. call' = call /\ book' = book
    BY <1>7 DEF Forget, NextBar, vars
  <2> QED
    BY <2>1 DEF BudgetInv, Sole, WithinPool, HeldIn
<1> QED
  BY <1>1, <1>2, <1>3, <1>4, <1>5, <1>6, <1>7 DEF Next

\* A caller whose calls do not overlap, whose exits are full and which scales its entries
\* to the capital allocated to them never holds more positions than the cap, nor more capital than the deployment has, however old the
\* positions it sends are, whichever replies are lost, and whatever stops fill at the
\* broker meanwhile: for any symbols, capital, cap, sizing and lists of members
\* (docs/dynamic-universe-phase-d.md: "never exceeded").
THEOREM BookAlwaysWithinPool ==
    ASSUME OneCallAtATime, ~PartialExits, BuysAllocated
    PROVE  Spec => []BookWithinPool
<1>1. Init => BudgetInv
  BY BudgetInit
<1>2. TradeInv /\ BudgetInv => BookWithinPool
  <2> SUFFICES ASSUME TradeInv, BudgetInv PROVE BookWithinPool
    OBVIOUS
  <2>1. DOMAIN book = Symbols
    BY DEF TradeInv
  <2> QED
    BY <2>1 DEF BudgetInv, WithinPool, BookWithinPool, SumFunction
<1> QED
  BY <1>1, <1>2, BudgetNext, IInvAlways, TradeAlways, PTL DEF Spec
=============================================================================
