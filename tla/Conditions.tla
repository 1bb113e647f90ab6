------------------------------ MODULE Conditions ------------------------------
(***************************************************************************)
(* The condition language of the strategies                                *)
(* (quant_engine/engine/conditions.py): a parsed condition is asked at a   *)
(* bar by one of two evaluators, one over the data frame and a fast one    *)
(* over precomputed arrays, which the simulator takes when the condition   *)
(* uses nothing the arrays cannot serve.                                   *)
(*                                                                         *)
(* A parsed condition is the table of its nodes: the operands of a node    *)
(* are the places of nodes before it, and the root is the last.            *)
(* A frame of data is [bars, reference, enriched]: enriched when the       *)
(* pattern columns have been added to it.  A value is a number or NaN, a   *)
(* truth value is 1 or 0.  Means and ratios are rounded down, a ratio      *)
(* counts percent.                                                         *)
(***************************************************************************)
EXTENDS SignalFrames

Number(v) == [kind |-> "number", value |-> v]

Name(x) == [kind |-> "identifier", name |-> x]

Call(f, args) == [kind |-> "function", name |-> f, args |-> args]

Negative(e) == [kind |-> "unary", operand |-> e]

Binary(op, l, r) == [kind |-> "binary", op |-> op, left |-> l, right |-> r]

Compare(l, op, r) == [kind |-> "comparison", op |-> op, left |-> l, right |-> r]

Boolean(l, op, r) == [kind |-> "boolean", op |-> op, left |-> l, right |-> r]

Not(e) == [kind |-> "not", operand |-> e]

Functions == {"PREV", "SMA", "AVG", "MAX", "MIN", "RS", "OPENING_RANGE_HIGH", "OPENING_RANGE_LOW"}

\* What may stand at place k.
Nodes(k) ==
    LET places == 1..(k - 1)
    IN  [kind : {"number"}, value : Nat] \cup
        [kind : {"identifier"}, name : STRING] \cup
        [kind : {"unary", "not"}, operand : places] \cup
        [kind : {"binary", "comparison", "boolean"}, op : STRING, left : places, right : places] \cup
        [kind : {"function"}, name : Functions, args : Seq(places)]

Calls(e) == {k \in DOMAIN e : e[k].kind = "function"}

Operands(node) ==
    CASE node.kind \in {"number", "identifier"} -> {}
      [] node.kind \in {"unary", "not"} -> {node.operand}
      [] node.kind = "function" -> Range(node.args)
      [] OTHER -> {node.left, node.right}

Fields == {"CLOSE", "HIGH", "LOW"}

IsField(node) == node.kind = "identifier" /\ node.name \in Fields

\* With other arguments the evaluators raise, but for an average or extreme of an
\* indicator, which is left out.
Arguments(e, name, args) ==
    CASE name = "PREV" -> Len(args) = 2
      [] name = "SMA" -> Len(args) = 1 \/ (Len(args) = 2 /\ IsField(e[args[1]]))
      [] name \in {"AVG", "MAX", "MIN"} -> Len(args) = 2 /\ IsField(e[args[1]])
      [] OTHER -> Len(args) = 1

IsParsed(e) ==
    /\ Len(e) \in Nat \ {0} /\ DOMAIN e = 1..Len(e)
    /\ \A k \in DOMAIN e : /\ e[k] \in Nodes(k)
                           /\ e[k].kind = "function" => Arguments(e, e[k].name, e[k].args)
-----------------------------------------------------------------------------
(* Values.                                                                 *)

Truth(b) == IF b THEN 1 ELSE 0

Truthy(v) == v # NaN /\ v # 0

Arithmetic(op, l, r) ==
    IF NaN \in {l, r} \/ (op = "/" /\ r = 0)
    THEN NaN
    ELSE CASE op = "+" -> l + r
           [] op = "-" -> l - r
           [] op = "*" -> l * r
           [] op = "/" -> l \div r

\* A comparison with a missing value does not hold.
Holds(op, l, r) ==
    /\ l # NaN
    /\ r # NaN
    /\ CASE op = ">"  -> l > r
         [] op = "<"  -> l < r
         [] op = ">=" -> l >= r
         [] op = "<=" -> l <= r
         [] op = "==" -> l = r
         [] op = "!=" -> l # r

Field(name, bar) ==
    CASE name = "CLOSE" -> bar.close
      [] name = "HIGH"  -> bar.high
      [] name = "LOW"   -> bar.low

Column(name, df, i) ==
    CASE name \in Fields -> Field(name, df.bars[i])
      [] name = "REF_CLOSE" -> df.reference[i]
      [] name \in PatternNames ->
            IF df.enriched THEN Truth(Pattern(name, df.bars, i)) ELSE NaN
      [] OTHER -> NaN

Aggregate(agg, values, n) ==
    CASE agg \in {"AVG", "SMA"} -> SumFunctionOnSet(values, DOMAIN values) \div n
      [] agg = "MAX" -> Max(Range(values))
      [] agg = "MIN" -> Min(Range(values))

\* A rolling aggregate needs n bars.
Rolling(agg, field, n, df, i) ==
    IF n <= 0 \/ i < n
    THEN NaN
    ELSE Aggregate(agg, [j \in (i - n + 1)..i |-> Field(field, df.bars[j])], n)

\* The return over n bars relative to that of the reference.
RelativeStrength(n, df, i) ==
    LET then == i - n
    IN  IF \/ n <= 0 \/ then < 1
           \/ NaN \in {df.reference[i], df.reference[then]}
           \/ 0 \in {df.bars[then].close, df.reference[then], df.reference[i]}
        THEN NaN
        ELSE (100 * df.bars[i].close * df.reference[then])
                \div (df.bars[then].close * df.reference[i])
-----------------------------------------------------------------------------
(* Compilation.                                                            *)

Unprepared == {"AVG", "MAX", "MIN", "RS"}

OpeningRanges == {"OPENING_RANGE_HIGH", "OPENING_RANGE_LOW"}

Periodic == {"SMA"} \cup OpeningRanges

\* Mutant: only a function at the head of the condition is looked at.
HeadPrepared(e) == Last(e).kind = "function" => Last(e).name \notin Unprepared

OneNumber(e, args) == Len(args) = 1 /\ e[args[1]].kind = "number"

\* No node of the condition is a function the arrays cannot serve.
FastPathSafe(e) ==
    \A k \in Calls(e) :
        /\ e[k].name \notin Unprepared
        /\ e[k].name = "PREV" => e[e[k].args[1]].kind = "identifier"
        /\ e[k].name \in Periodic => OneNumber(e, e[k].args)

\* The period of a call, or the offset of PREV.
Period(e, k) == e[Last(e[k].args)]

\* A literal is never negative.
LiteralPeriods(e) == \A k \in Calls(e) : Period(e, k).kind = "number"

\* How many bars a node may look back, its own included; the opening range looks back to
\* the start of the session.
Reaches(e, reach) ==
    /\ \A k \in DOMAIN e : \A o \in Operands(e[k]) : reach[o] <= reach[k]
    /\ \A k \in Calls(e) :
          LET n == Period(e, k).value
          IN  CASE e[k].name = "PREV" -> reach[e[k].args[1]] + n <= reach[k]
                [] e[k].name = "RS" -> n + 1 <= reach[k]
                [] e[k].name \in {"SMA", "AVG", "MAX", "MIN"} -> n <= reach[k]
                [] OTHER -> SessionLength <= reach[k]
-----------------------------------------------------------------------------
(* The evaluators: fast reads arrays, slow the data frame.                 *)

\* A column k bars before.
Before(column, k, i) ==
    IF k = NaN \/ i - k \notin DOMAIN column THEN NaN ELSE column[i - k]

SlowCall(node, e, columns, df, i) ==
    LET first == node.args[1]
        last  == columns[node.args[Len(node.args)]][i]
        field == IF Len(node.args) = 1 THEN "CLOSE" ELSE e[first].name
    IN  CASE node.name = "PREV" -> Before(columns[first], last, i)
          [] node.name \in {"SMA", "AVG", "MAX", "MIN"} -> Rolling(node.name, field, last, df, i)
          [] node.name = "RS" -> RelativeStrength(last, df, i)
          [] OTHER -> OpeningRange(node.name, last, df.bars, i)

FastCall(node, e, columns, df, i) ==
    LET first == node.args[1]
    IN  CASE node.name = "PREV" -> Before(columns[first], columns[node.args[2]][i], i)
          [] node.name = "SMA" /\ OneNumber(e, node.args) ->
                Rolling("SMA", "CLOSE", e[first].value, df, i)
          [] node.name \in OpeningRanges /\ OneNumber(e, node.args) ->
                OpeningColumn(node.name, e[first].value, df.bars, i)
          [] OTHER -> NaN

\* The value of a node at bar i, given the columns of the nodes before it.
ValueAt(node, e, columns, df, i, fast) ==
    LET Of(k) == columns[k][i]
    IN  CASE node.kind = "number" -> node.value
          [] node.kind = "identifier" -> Column(node.name, df, i)
          [] node.kind = "unary" -> Arithmetic("-", 0, Of(node.operand))
          [] node.kind = "binary" -> Arithmetic(node.op, Of(node.left), Of(node.right))
          [] node.kind = "comparison" -> Truth(Holds(node.op, Of(node.left), Of(node.right)))
          [] node.kind = "boolean" ->
                IF node.op = "AND" THEN Truth(Truthy(Of(node.left)) /\ Truthy(Of(node.right)))
                                   ELSE Truth(Truthy(Of(node.left)) \/ Truthy(Of(node.right)))
          [] node.kind = "not" -> Truth(~Truthy(Of(node.operand)))
          [] OTHER -> IF fast THEN FastCall(node, e, columns, df, i)
                              ELSE SlowCall(node, e, columns, df, i)

\* The column of every node over the frame.
Columns(e, df, fast) ==
    LET column[k \in DOMAIN e] ==
            [i \in DOMAIN df.bars |-> ValueAt(e[k], e, column, df, i, fast)]
    IN  column

Fires(e, df, i, fast) == i \in DOMAIN df.bars /\ Truthy(Columns(e, df, fast)[Len(e)][i])
=============================================================================
