----------------------------- MODULE ChatWorkflow -----------------------------
(***************************************************************************)
(* What the turns of a chat session make of a strategy                     *)
(* (app/services/chat/chat_service.py, run_ai_processing, with             *)
(* strategy/builder.py and strategy/yaml_generator.py): from inputs to     *)
(* planned signals, to a stored strategy with its YAML file, to backtests. *)
(*                                                                         *)
(* A turn restores the draft of the turn before, takes what the message    *)
(* says, does one thing that the LLM router chose, and stores the draft    *)
(* with the mode of the workflow.  Turns do not overlap here (ChatTurns    *)
(* has their interleaving).  Any message may get any route.                *)
(*                                                                         *)
(* The asset stands for the six core inputs: one that is missing makes     *)
(* them incomplete, another one changes them, and with the timeframe it    *)
(* names the YAML file.  Rules are the signals with their conditions,      *)
(* numbers the parameters that a backtest calibrates on the candles of an  *)
(* asset, risk every other setting.  Turns that only answer keep the draft *)
(* and its mode: they are stuttering steps.  Discovery and universes are   *)
(* not modelled.                                                           *)
(***************************************************************************)
EXTENDS Naturals, FiniteSets

CONSTANTS
    Assets, Rules, Risks,
    DefaultRisk,
    NoAsset, NoPlan, NoRow, NoFile, NoResult

ASSUME WorkflowAssumption ==
    DefaultRisk \in Risks /\ NoAsset \notin Assets

VARIABLES
    draft,  \* the builder, as stored with the last message
    row,    \* the strategy of the session
    file,   \* the YAML file that the row names; no other is read
    backtest, \* the result of the last turn, if it ran one
    spoilt, \* the file or the draft is no longer what the last assembly stored (history variable)
    done,   \* from now on the user only confirms, and nothing fails
    parity    \* of the turns after that

workflowVars == <<draft, row, file, backtest, spoilt, done, parity>>

Built == {"assemble_strategy", "backtest_confirmation", "backtest_complete"}

Fresh == [mode |-> "collect_user_input", symbol |-> NoAsset, confirmed |-> FALSE,
          asked |-> "no", plan |-> NoPlan, risk |-> DefaultRisk]

WorkflowInit ==
    /\ draft = Fresh
    /\ row = NoRow
    /\ file = NoFile
    /\ backtest = NoResult
    /\ spoilt = FALSE
    /\ done = FALSE /\ parity = 0

Core(d) == d.symbol

Complete(d) == d.symbol # NoAsset

Reset(d) == [d EXCEPT !.confirmed = FALSE, !.plan = NoPlan]

\* generate_yaml: the file of the draft, run on an asset.
Yaml(d, asset) ==
    [symbol |-> asset, rules |-> d.plan.rules, numbers |-> d.plan.numbers, risk |-> d.risk]

Plan(d, rules) == [rules |-> rules, of |-> Core(d), numbers |-> d.symbol]
-----------------------------------------------------------------------------
(* Routes of their own.                                                    *)

Keep == UNCHANGED <<row, file, spoilt, done, parity>>

\* Mutant: the strategy that was assembled before may still be backtested.
ModeKept(d) == d.mode

\* "so that the next yes re-assembles the strategy" (chat_service.py:3195-3196).
ModeModified(d) == "plan_signals"

\* A signal is swapped, added or removed, or a formula takes its place, which needs no plan.
\* The mode moves also when nothing could be applied.
ModifySignals ==
    /\ \E plan \in {draft.plan} \cup
                   {IF draft.plan = NoPlan THEN Plan(draft, r) ELSE [draft.plan EXCEPT !.rules = r] : r \in Rules} :
          draft' = [draft EXCEPT !.plan = plan, !.mode = ModeModified(draft)]
    /\ backtest' = NoResult
    /\ Keep

\* Mutant: the route is taken as it comes.
NotRerouted(yes) == FALSE

\* A confirmation that the router takes for the risk update it confirms.
Rerouted(yes) == yes /\ draft.mode = "plan_signals" /\ draft.plan # NoPlan

ModeOfRisk(d) ==
    IF d.plan # NoPlan
    THEN IF row # NoRow \/ d.mode \in Built THEN "plan_signals" ELSE d.mode
    ELSE IF Complete(d) /\ d.confirmed THEN "plan_signals" ELSE "collect_user_input"

\* Settings that do not differ, or a question which one is meant, change nothing.
RiskUpdate(risk, yes) ==
    /\ ~Rerouted(yes)
    /\ draft' = IF risk = draft.risk THEN draft ELSE [draft EXCEPT !.risk = risk, !.mode = ModeOfRisk(draft)]
    /\ backtest' = NoResult

\* A request to change inputs: which field, which value, or the value at once.
ModifyInputs ==
    /\ \E symbol \in Assets \cup {NoAsset}, risk \in Risks :
          LET d == [Reset(draft) EXCEPT !.symbol = symbol, !.risk = risk,
                                        !.mode = "collect_user_input"]
          IN  \/ Core(d) = Core(draft) /\ draft' = [d EXCEPT !.asked = "field"]
              \/ ~Complete(d) /\ draft' = [d EXCEPT !.asked = "value"]
              \/ draft' = [d EXCEPT !.asked = "no"]
    /\ backtest' = NoResult
    /\ Keep
-----------------------------------------------------------------------------
(* The main path: the message may name inputs and settings.  A change of   *)
(* the core inputs drops the plan and the confirmation; other settings are *)
(* taken in passing.                                                       *)

Heard(d, symbol, risk) ==
    LET e == [d EXCEPT !.symbol = symbol, !.risk = risk, !.asked = "no"]
    IN  IF Core(e) = Core(d) THEN e ELSE [Reset(e) EXCEPT !.mode = "collect_user_input"]

\* Inputs that replace confirmed ones have to be confirmed in a turn of their own.
Agreed(d, heard, yes) ==
    yes /\ ~(Core(heard) # Core(d) /\ (d.confirmed \/ d.mode # "collect_user_input"))

Settings(heard) == draft.mode \in Built /\ heard.risk # draft.risk

Assembles(d, heard, yes) ==
    /\ heard.plan # NoPlan
    /\ Agreed(d, heard, yes)
    /\ d.mode \in {"plan_signals", "assemble_strategy"}

\* What is left of a turn: the reply, the confirmation of the inputs, and the plan.
Replies(d, heard, yes) ==
    LET agreed == Agreed(d, heard, yes)
        e == [heard EXCEPT !.confirmed = @ \/ (Complete(heard) /\ agreed)]
    IN  \/ ~agreed /\ draft' = e
        \/ e.mode \in Built /\ draft' = e
        \/ /\ e.mode \notin Built
           /\ IF ~Complete(e) \/ ~e.confirmed THEN draft' = [e EXCEPT !.mode = "collect_user_input"]
              ELSE IF e.plan # NoPlan THEN draft' = [e EXCEPT !.mode = "plan_signals"]
              ELSE \/ draft' = [e EXCEPT !.mode = "collect_user_input"] \* asks for the risk first
                   \/ \E r \in Rules : draft' = [e EXCEPT !.plan = Plan(e, r), !.mode = "plan_signals"]

Respond(symbol, risk, yes) ==
    LET heard == Heard(draft, symbol, risk)
    IN  /\ draft.asked # "value"
        /\ ~Assembles(draft, heard, yes)
        /\ Replies(draft, heard, yes)
        /\ spoilt' = (spoilt \/ Settings(heard))
        /\ backtest' = NoResult
        /\ UNCHANGED <<row, file>>

\* A builder of its own; what the message says goes through the main path.
NewStrategy(symbol, risk, yes) ==
    /\ Replies(Fresh, Heard(Fresh, symbol, risk), yes)
    /\ backtest' = NoResult
    /\ Keep

\* The session has one strategy, which is updated in place.
Assemble(symbol, risk, yes) ==
    LET heard == Heard(draft, symbol, risk)
        yaml == Yaml(heard, heard.symbol)
    IN  /\ draft.asked # "value"
        /\ Assembles(draft, heard, yes)
        /\ \/ /\ file' = yaml
              /\ row' = [path |-> heard.symbol, yaml |-> yaml, of |-> heard.plan.of]
              /\ draft' = [heard EXCEPT !.mode = "assemble_strategy"]
              /\ spoilt' = (heard.plan.numbers # heard.symbol)
           \/ /\ ~done \* the transaction fails, and the file is written
              /\ IF row # NoRow /\ row.path = heard.symbol
                 THEN file' = yaml /\ spoilt' = TRUE
                 ELSE UNCHANGED <<file, spoilt>>
              /\ UNCHANGED <<draft, row>>
        /\ backtest' = NoResult
-----------------------------------------------------------------------------
(* Backtests.                                                              *)

Result(asked, data, ran, without) ==
    [asked |-> asked, data |-> data, ran |-> ran, spoilt |-> without]

\* run_backtest, for the asset that the message names (of several, the last), or else for
\* that of the file.  With candles enough the draft is calibrated, and its file written anew.
RunBacktest(named, risk) ==
    LET base == file
        data == IF named # NoAsset THEN named ELSE base.symbol
        heard == Heard(draft, draft.symbol, risk)
        tuned == [heard EXCEPT !.plan.numbers = data]
        yaml == Yaml(tuned, IF named # NoAsset THEN named ELSE heard.symbol)
        now == spoilt \/ Settings(heard)
        \* the engine answers, or the run ends in an error
        Ends(d, ran) ==
            \/ draft' = [d EXCEPT !.mode = "backtest_complete"] /\ backtest' = Result(named, data, ran, now)
            \/ draft' = [d EXCEPT !.mode = "backtest_confirmation"] /\ backtest' = NoResult
    IN  /\ draft.asked # "value" /\ draft.mode \in Built
        /\ IF data = NoAsset
           THEN draft' = [heard EXCEPT !.mode = "backtest_confirmation"] /\ backtest' = NoResult
                /\ spoilt' = now /\ UNCHANGED file
           ELSE \/ Ends(heard, [base EXCEPT !.symbol = data]) /\ spoilt' = now /\ UNCHANGED file
                \/ /\ Ends(tuned, yaml)
                   /\ IF heard.symbol = row.path THEN file' = yaml ELSE UNCHANGED file
                   /\ spoilt' = (now \/ data # heard.symbol)
        /\ UNCHANGED <<row, done, parity>>

\* POST /backtest for the stored strategy, from outside the chat, in one step.
RouteBacktest ==
    /\ row # NoRow
    /\ \E named \in Assets \cup {NoAsset} :
          LET data == IF named # NoAsset THEN named ELSE file.symbol
          IN  data # NoAsset /\ backtest' = Result(named, data, [file EXCEPT !.symbol = data], spoilt)
    /\ UNCHANGED <<draft, row, file, spoilt, done, parity>>

\* Another session assembles, or backtests, a strategy whose file has the same name.
OtherSession ==
    /\ row # NoRow
    /\ \E a \in Assets : \* for whatever rules: not those of this session
          file' = [symbol |-> a, rules |-> NoPlan, numbers |-> a, risk |-> DefaultRisk]
    /\ spoilt' = TRUE
    /\ backtest' = NoResult
    /\ UNCHANGED <<draft, row, done, parity>>
-----------------------------------------------------------------------------
\* The message says "yes" and nothing else.
Confirm ==
    \/ /\ Respond(draft.symbol, draft.risk, TRUE) \/ Assemble(draft.symbol, draft.risk, TRUE)
       /\ UNCHANGED <<done, parity>>
    \/ /\ draft.asked = "value" \* the turn counts as one that modifies inputs
       /\ draft' = [Reset(draft) EXCEPT !.mode = "collect_user_input"]
       /\ backtest' = NoResult
       /\ Keep
    \/ /\ RiskUpdate(draft.risk, TRUE) \* the router sends the settings again
       /\ parity' = 1 - parity
       /\ UNCHANGED <<row, file, spoilt, done>>

Message ==
    \/ ModifySignals \/ ModifyInputs
    \/ \E risk \in Risks, yes \in BOOLEAN : RiskUpdate(risk, yes) /\ Keep
    \/ \E symbol \in Assets \cup {NoAsset}, risk \in Risks, yes \in BOOLEAN :
          \/ (Respond(symbol, risk, yes) \/ Assemble(symbol, risk, yes)) /\ UNCHANGED <<done, parity>>
          \/ NewStrategy(symbol, risk, yes)
    \/ \E named \in Assets \cup {NoAsset}, risk \in Risks : row # NoRow /\ RunBacktest(named, risk)

Settle ==
    /\ done' = TRUE
    /\ backtest' = NoResult
    /\ UNCHANGED <<draft, row, file, spoilt, parity>>

WorkflowNext ==
    \/ ~done /\ (Message \/ RouteBacktest \/ OtherSession \/ Settle)
    \/ done /\ Confirm

WorkflowSpec == WorkflowInit /\ [][WorkflowNext]_workflowVars /\ WF_workflowVars(done /\ Confirm)
-----------------------------------------------------------------------------
AnyAsset == Assets \cup {NoAsset}

Plans == [rules : Rules, of : AnyAsset, numbers : AnyAsset]

Drafts == [mode : Built \cup {"collect_user_input", "plan_signals"}, symbol : AnyAsset, confirmed : BOOLEAN,
           asked : {"no", "field", "value"}, plan : Plans \cup {NoPlan}, risk : Risks]

Yamls == [symbol : AnyAsset, rules : Rules \cup {NoPlan}, numbers : AnyAsset, risk : Risks]

WorkflowTypeOK ==
    /\ draft \in Drafts
    /\ row # NoRow => /\ row \in [path : AnyAsset, yaml : Yamls, of : AnyAsset]
                      /\ file \in Yamls
    /\ spoilt \in BOOLEAN

\* A backtest is of the strategy it is stored with: its inputs, its rules, made for these
\* inputs, and its settings, on its asset unless the message names another ("the
\* already-planned signals/strategy are reused verbatim and only the backtested symbol
\* changes", chat_service.py:4046-4048).  Not so when its file was written since by another
\* session, a failed assembly or the backtest of another asset, or a setting was taken in
\* passing without a new assembly.
BacktestsTheStrategy ==
    backtest # NoResult /\ ~backtest.spoilt =>
        /\ row.of = row.yaml.symbol
        /\ backtest.ran = [row.yaml EXCEPT !.symbol = backtest.data, !.numbers = backtest.ran.numbers]
        /\ backtest.asked = NoAsset => /\ backtest.data = row.yaml.symbol
                                     /\ backtest.ran.numbers = backtest.data

\* A user who only confirms gets the planned signals assembled, also when the router takes
\* each confirmation for the settings it confirms ("loop forever", chat_service.py:3651-3660),
\* unless the session waits for the new value of an input, which they were made for.
ConfirmationAssembles ==
    done /\ draft.asked = "no" /\ draft.mode = "plan_signals" /\ draft.plan # NoPlan ~> draft.mode \in Built
=============================================================================
