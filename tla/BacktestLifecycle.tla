-------------------------- MODULE BacktestLifecycle --------------------------
(***************************************************************************)
(* The life of the backtests of one strategy across two services: the API  *)
(* (app/api/v1/routes/backtest.py, app/services/backtest) and the quant    *)
(* engine (quant_engine/main.py).                                          *)
(*                                                                         *)
(* A trigger reads the strategy, commits a running row, and leaves the     *)
(* rest to a background task.  The task posts the job to the engine, which *)
(* answers at once, computes in a thread and puts the result back with     *)
(* retries.  Every task and job lives in memory.  A chat run, and a        *)
(* dynamic universe, are computed synchronously and store their own row.   *)
(* The reads and writes of one database transaction after its last check   *)
(* are one step.                                                           *)
(***************************************************************************)
EXTENDS Integers, FiniteSets

CONSTANTS
    Backtests,   \* backtest ids the requests may draw
    MaxAttempts, \* attempts of the callback
    MaxFaults,   \* bound: lost calls and failing steps
    MaxCrashes   \* bound: restarts of a service, outages of the database

ASSUME LifecycleAssumption ==
    /\ MaxAttempts \in Nat \ {0}
    /\ MaxFaults \in Nat
    /\ MaxCrashes \in Nat

\* What the engine reports: a good run, a run below the thresholds, which is still
\* a completed backtest, or "Backtest execution failed: ...".
Outcomes == {"passed", "below_threshold", "execution_error"}

VARIABLES
    strategy,  \* status of the strategy
    row,       \* status of each backtest row, "none" when there is none
    result,    \* result_json
    request,   \* trigger requests in progress: "idle" or "checked"
    task,      \* background task of the API
    engine,    \* job of the engine: its stage, outcome and attempts left
    faults,
    crashes

lifecycleVars == <<strategy, row, result, request, task, engine, faults, crashes>>

NoJob == [stage |-> "none", outcome |-> "passed", attempts |-> 0]

LifecycleInit ==
    /\ strategy = "confirmed"
    /\ row = [b \in Backtests |-> "none"]
    /\ result = [b \in Backtests |-> "none"]
    /\ request = [b \in Backtests |-> "idle"]
    /\ task = [b \in Backtests |-> "none"]
    /\ engine = [b \in Backtests |-> NoJob]
    /\ faults = 0
    /\ crashes = 0
-----------------------------------------------------------------------------
(* The trigger.                                                            *)

MayRun == strategy \in {"confirmed", "backtest_complete"}

TriggerCheck(b) ==
    /\ row[b] = "none" /\ request[b] = "idle"
    /\ MayRun
    /\ request' = [request EXCEPT ![b] = "checked"]
    /\ UNCHANGED <<strategy, row, result, task, engine, faults, crashes>>

\* The status read by the check is not read again.
TriggerCommit(b) ==
    /\ request[b] = "checked"
    /\ row[b] = "none"
    /\ request' = [request EXCEPT ![b] = "idle"]
    /\ row' = [row EXCEPT ![b] = "running"]
    /\ strategy' = "backtesting"
    /\ task' = [task EXCEPT ![b] = "preparing"]
    /\ UNCHANGED <<result, engine, faults, crashes>>
-----------------------------------------------------------------------------
(* What a result does to the rows.                                         *)

\* Mutant: every result completes the backtest.
RowAfterAny(outcome) == "completed"

\* _classify_backtest_status.
RowAfter(outcome) == IF outcome = "execution_error" THEN "failed" ELSE "completed"

StrategyAfter(outcome) ==
    IF outcome = "execution_error" THEN "confirmed" ELSE "backtest_complete"

\* apply_sanitized_result_to_row: whatever the row said before.
Store(b, outcome) ==
    /\ row' = [row EXCEPT ![b] = RowAfter(outcome)]
    /\ result' = [result EXCEPT ![b] = outcome]
    /\ strategy' = StrategyAfter(outcome)

\* insert_chat_backtest_row: the chat runs a backtest of the strategy to its end and
\* inserts a finished row.
ChatRun(b, outcome) ==
    /\ row[b] = "none" /\ request[b] = "idle"
    /\ Store(b, outcome)
    /\ UNCHANGED <<request, task, engine, faults, crashes>>

\* insert_failed_chat_backtest: the run had no result.
ChatRunFails(b) ==
    /\ row[b] = "none" /\ request[b] = "idle"
    /\ row' = [row EXCEPT ![b] = "failed"]
    /\ strategy' = "confirmed"
    /\ UNCHANGED <<result, request, task, engine, faults, crashes>>

\* A chat turn changes the strategy and confirms it again, whatever it was doing.
ChatReconfirms ==
    /\ strategy' = "confirmed"
    /\ UNCHANGED <<row, result, request, task, engine, faults, crashes>>
-----------------------------------------------------------------------------
(* The background task.                                                    *)

\* _run_dynamic_backtest_and_persist: no callback, the task stores the result.  The
\* strategy file says whether it names a universe when the task reads it, which a
\* chat turn may have changed since the trigger.
DynamicRun(b, outcome) ==
    /\ task[b] = "preparing"
    /\ Store(b, outcome)
    /\ task' = [task EXCEPT ![b] = "none"]
    /\ UNCHANGED <<request, engine, faults, crashes>>

\* The market data is there: the job is sent to the engine.
Post(b) ==
    /\ task[b] = "preparing"
    /\ task' = [task EXCEPT ![b] = "posting"]
    /\ UNCHANGED <<strategy, row, result, request, engine, faults, crashes>>

\* The engine accepted: the task is over.
PostAnswered(b) ==
    /\ task[b] = "posting"
    /\ engine[b].stage # "none"
    /\ task' = [task EXCEPT ![b] = "none"]
    /\ UNCHANGED <<strategy, row, result, request, engine, faults, crashes>>

\* Reading the data fails, or the post is refused, or times out although the
\* engine has accepted: to the task it is one exception.
TaskFails(b) ==
    /\ task[b] \in {"preparing", "posting"}
    /\ faults < MaxFaults
    /\ faults' = faults + 1
    /\ task' = [task EXCEPT ![b] = "failing"]
    /\ UNCHANGED <<strategy, row, result, request, engine, crashes>>

\* Mutant: the strategy is left as it is.
StrategyKept == strategy

StrategyFreed == "confirmed"

\* _mark_backtest_failed: in a session of its own, whatever the row says by now.
MarkFailed(b) ==
    /\ task[b] = "failing"
    /\ row' = [row EXCEPT ![b] = "failed"]
    /\ strategy' = StrategyFreed
    /\ task' = [task EXCEPT ![b] = "none"]
    /\ UNCHANGED <<result, request, engine, faults, crashes>>

\* The database is out: the error is logged and the row stays.
MarkLost(b) ==
    /\ task[b] = "failing"
    /\ crashes < MaxCrashes
    /\ crashes' = crashes + 1
    /\ task' = [task EXCEPT ![b] = "none"]
    /\ UNCHANGED <<strategy, row, result, request, engine, faults>>
-----------------------------------------------------------------------------
(* The engine: start_backtest, _execute_and_callback, _post_result.        *)

Accept(b) ==
    /\ task[b] = "posting"
    /\ engine[b].stage = "none"
    /\ engine' = [engine EXCEPT ![b].stage = "running"]
    /\ UNCHANGED <<strategy, row, result, request, task, faults, crashes>>

\* Mutant: the callback gives up one attempt early.
OneAttemptLess == MaxAttempts - 1

Attempts == MaxAttempts

Execute(b, outcome) ==
    /\ engine[b].stage = "running"
    /\ engine' = [engine EXCEPT ![b] =
          [stage |-> "calling", outcome |-> outcome, attempts |-> Attempts]]
    /\ UNCHANGED <<strategy, row, result, request, task, faults, crashes>>

\* Another attempt after the wait, or the result is given up.
AfterFailedAttempt(b) ==
    IF engine[b].attempts > 1 THEN [engine[b] EXCEPT !.attempts = @ - 1]
    ELSE [engine[b] EXCEPT !.attempts = 0, !.stage = "lost"]

\* receive_backtest_result has committed and its answer arrives.
Callback(b) ==
    /\ engine[b].stage = "calling"
    /\ Store(b, engine[b].outcome)
    /\ engine' = [engine EXCEPT ![b].stage = "delivered"]
    /\ UNCHANGED <<request, task, faults, crashes>>

\* It has committed and its answer is lost: the result will be put again.
CallbackUnanswered(b) ==
    /\ engine[b].stage = "calling"
    /\ faults < MaxFaults
    /\ faults' = faults + 1
    /\ Store(b, engine[b].outcome)
    /\ engine' = [engine EXCEPT ![b] = AfterFailedAttempt(b)]
    /\ UNCHANGED <<request, task, crashes>>

\* The call does not get through, or its transaction fails.
CallbackFails(b) ==
    /\ engine[b].stage = "calling"
    /\ faults < MaxFaults
    /\ faults' = faults + 1
    /\ engine' = [engine EXCEPT ![b] = AfterFailedAttempt(b)]
    /\ UNCHANGED <<strategy, row, result, request, task, crashes>>
-----------------------------------------------------------------------------
(* Restarts: what is in memory is gone, and nothing resumes it.            *)

ApiCrash ==
    /\ crashes < MaxCrashes
    /\ crashes' = crashes + 1
    /\ request' = [b \in Backtests |-> "idle"]
    /\ task' = [b \in Backtests |-> "none"]
    /\ UNCHANGED <<strategy, row, result, engine, faults>>

EngineCrash ==
    /\ crashes < MaxCrashes
    /\ crashes' = crashes + 1
    /\ engine' = [b \in Backtests |->
          IF engine[b].stage \in {"running", "calling"}
          THEN [engine[b] EXCEPT !.stage = "lost"] ELSE engine[b]]
    /\ UNCHANGED <<strategy, row, result, request, task, faults>>
-----------------------------------------------------------------------------
Progress(b) ==
    \/ TriggerCommit(b)
    \/ \E outcome \in Outcomes : DynamicRun(b, outcome) \/ Execute(b, outcome)
    \/ Post(b)
    \/ PostAnswered(b)
    \/ MarkFailed(b)
    \/ Accept(b)
    \/ Callback(b)

Fault(b) ==
    \/ TaskFails(b)
    \/ MarkLost(b)
    \/ CallbackUnanswered(b)
    \/ CallbackFails(b)

LifecycleNext ==
    \/ \E b \in Backtests :
          \/ TriggerCheck(b)
          \/ \E outcome \in Outcomes : ChatRun(b, outcome)
          \/ ChatRunFails(b)
          \/ Progress(b)
          \/ Fault(b)
    \/ ChatReconfirms
    \/ ApiCrash
    \/ EngineCrash

LifecycleSpec == LifecycleInit /\ [][LifecycleNext]_lifecycleVars

\* A running process gets on with its tasks; requests, faults and restarts are not
\* fair.
LifecycleFairSpec == LifecycleSpec /\ \A b \in Backtests : WF_lifecycleVars(Progress(b))
-----------------------------------------------------------------------------
LifecycleTypeOK ==
    /\ strategy \in {"confirmed", "backtesting", "backtest_complete"}
    /\ row \in [Backtests -> {"none", "running", "completed", "failed"}]
    /\ result \in [Backtests -> Outcomes \cup {"none"}]
    /\ request \in [Backtests -> {"idle", "checked"}]
    /\ task \in [Backtests -> {"none", "preparing", "posting", "failing"}]
    /\ engine \in [Backtests -> [stage : {"none", "running", "calling", "delivered", "lost"},
                                 outcome : Outcomes, attempts : 0..MaxAttempts]]
    /\ faults \in Nat
    /\ crashes \in Nat

\* A strategy that refuses triggers because it is backtesting has a backtest that
\* is running, whoever else has been writing its status in between.
BusyHasRun == strategy = "backtesting" => \E b \in Backtests : row[b] = "running"

\* A strategy that is presented as backtested has a completed backtest to show.
CompleteHasRow == strategy = "backtest_complete" => \E b \in Backtests : row[b] = "completed"

\* A completed row shows a result of its own run, and never an execution error:
\* not after repeated callbacks, late failures or restarts.
CompletedHasResult ==
    \A b \in Backtests : row[b] = "completed" => result[b] \in {"passed", "below_threshold"}

\* With fewer lost calls than attempts of the callback, every accepted trigger ends,
\* unless a service restarts or the database is out before it has: the API "stores
\* the result, marks the backtest completed or failed" (docs/BACKTESTING.md:16).
EveryBacktestEnds ==
    \A b \in Backtests :
        (row[b] = "running") ~> (row[b] # "running" \/ crashes > 0 \/ faults >= MaxAttempts)

\* "Strategy must be in 'confirmed' state" (app/api/v1/routes/backtest.py:349): a
\* trigger is not accepted for a strategy whose backtest is in progress.
TriggeredWhenFree ==
    [][\A b \in Backtests : TriggerCommit(b) => strategy # "backtesting"]_lifecycleVars

\* "a successful response means the row is durable"
\* (app/api/v1/routes/backtest.py:479): once the engine has its answer, the row keeps
\* the status of the result it put.
DeliveredIsDurable ==
    \A b \in Backtests :
        engine[b].stage = "delivered" => row[b] = RowAfter(engine[b].outcome)
=============================================================================
