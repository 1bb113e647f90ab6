------------------------------- MODULE ChatTurns -------------------------------
(***************************************************************************)
(* The turns of one chat session (app/services/chat/chat_service.py, with  *)
(* the routes of app/api/v1/routes/chat.py).                               *)
(*                                                                         *)
(* A message is stored as "processing" and answered by a background task   *)
(* of the API process, which reads the history, calls the LLM (KeyRotation:*)
(* every turn is one of its callers), may fetch market data or run         *)
(* backtests, and commits its answer.  The task can be paused, can fail    *)
(* and is lost when the process restarts.  Tasks are coroutines: a step    *)
(* goes from one await to the next.  The rows of a message are those of    *)
(* the history with its name.                                              *)
(***************************************************************************)
EXTENDS KeyRotation, Sequences, FiniteSetsExt

CONSTANTS
    HistoryLimit, \* rows that a turn reads, 80 in the code
    NoTurn,       \* no registered task
    NoDraft,
    MaxCalls,     \* bound: LLM calls of a turn
    MaxSymbols,   \* bound: symbols of a backtest
    MaxFaults     \* bound: failing turns, outages of the database, restarts

ASSUME ChatAssumption ==
    /\ HistoryLimit \in Nat \ {0, 1} /\ MaxCalls \in Nat /\ MaxSymbols \in Nat /\ MaxFaults \in Nat
    /\ NoTurn \notin Callers /\ \A draft \in SUBSET Callers : draft # NoDraft

VARIABLES
    history,    \* chat_messages of the session, in the order of created_at
    turn,       \* the background task of each message
    registered, \* the task in _active_generations
    overlapped, \* history variable: two turns have been in progress at a time
    faults

chatVars == <<history, turn, registered, overlapped, faults>>

allVars == <<vars, chatVars>>

\* attached: user_msg belongs to the open database session.
\* base: the draft the turn starts from.  left: symbols still to be backtested.
\* ran: a backtest has been run.  lost: no code of the turn will write its outcome any more.
Quiet == [stage |-> "none", attached |-> TRUE, base |-> {}, calls |-> 0, left |-> 0,
          ran |-> FALSE, paused |-> FALSE, lost |-> FALSE]

Row(m, who, status, draft) == [of |-> m, who |-> who, status |-> status, draft |-> draft]

\* A new session has its instructions and a welcome.
ChatInit ==
    /\ Init
    /\ history = <<Row(NoTurn, "system", "completed", NoDraft), Row(NoTurn, "assistant", "completed", {})>>
    /\ turn = [m \in Callers |-> Quiet]
    /\ registered = NoTurn
    /\ overlapped = FALSE
    /\ faults = 0

InProgress(m) == turn[m].stage \notin {"none", "over"}

Status(m) == {history[k].status : k \in {j \in DOMAIN history : history[j].of = m /\ history[j].who = "user"}}

Answers(m) == {k \in DOMAIN history : history[k].of = m /\ history[k].who = "assistant"}
-----------------------------------------------------------------------------
(* Rows.                                                                   *)

\* The changes of a committed user_msg.
WithUser(h, m, status, draft) ==
    [k \in DOMAIN h |-> IF h[k].of = m /\ h[k].who = "user"
                        THEN [h[k] EXCEPT !.status = status, !.draft = draft] ELSE h[k]]

\* A separate database session sets the status only.
WithStatus(h, m, status) ==
    [k \in DOMAIN h |-> IF h[k].of = m /\ h[k].who = "user" THEN [h[k] EXCEPT !.status = status] ELSE h[k]]

NewDraft(m) == turn[m].base \cup {m}

\* The answer is committed together with the changes of user_msg, which are lost when
\* it is detached.
Committed(m, attached) ==
    Append(IF attached THEN WithUser(history, m, "completed", NewDraft(m)) ELSE history,
           Row(m, "assistant", "completed", NewDraft(m)))

\* The rows with a draft, of the oldest HistoryLimit.
Drafted(h) == {k \in 1..Min({Len(h), HistoryLimit}) : h[k].draft # NoDraft}

\* Mutant: the last rows are not read.
FirstDraftOf(h) == h[Min(Drafted(h))].draft

\* last_draft.
LastDraft(h) == h[Max(Drafted(h))].draft
-----------------------------------------------------------------------------
(* Steps of a turn.                                                        *)

To(m, stage) == turn' = [turn EXCEPT ![m].stage = stage]

\* What the properties ask of a turn that is over.
Ended(m, lost) ==
    [Quiet EXCEPT !.stage = "over", !.ran = turn[m].ran, !.paused = turn[m].paused, !.lost = lost]

\* The task ends; its done callback leaves a turn that has registered since.
Over(m, lost) ==
    /\ turn' = [turn EXCEPT ![m] = Ended(m, lost)]
    /\ registered' = IF registered = m THEN NoTurn ELSE registered

Idle(m) == key[m] = NoKey

\* accept_message: the row is committed before the background task starts.
Send(m) ==
    /\ turn[m].stage = "none"
    /\ history' = Append(history, Row(m, "user", "processing", NoDraft))
    /\ To(m, "queued")
    /\ overlapped' = (overlapped \/ \E o \in Callers : InProgress(o))
    /\ UNCHANGED <<vars, registered, faults>>

Start(m) ==
    /\ turn[m].stage = "queued"
    /\ registered' = m
    /\ turn' = [turn EXCEPT ![m].stage = "thinking", ![m].base = LastDraft(history)]
    /\ UNCHANGED <<vars, history, overlapped, faults>>

Ask(m) ==
    /\ turn[m].stage = "thinking" /\ turn[m].calls < MaxCalls
    /\ Begin(m)
    /\ turn' = [turn EXCEPT ![m].calls = @ + 1]
    /\ UNCHANGED <<history, registered, overlapped, faults>>

Reply(m) ==
    /\ Answered(m) \/ Rotate(m)
    /\ UNCHANGED chatVars

\* The turn may be at its last commit.
Answering(m) ==
    \/ turn[m].stage = "thinking" /\ Idle(m)
    \/ turn[m].stage = "backtesting" /\ turn[m].left = 0

\* The final commit, or that of an early return; user_msg may be detached.
Answer(m) ==
    /\ Answering(m)
    /\ history' = Committed(m, turn[m].attached)
    /\ Over(m, FALSE)
    /\ UNCHANGED <<vars, overlapped, faults>>

\* The database session is released for the time of the fetch, which detaches user_msg.
Fetch(m) ==
    /\ turn[m].stage = "thinking" /\ Idle(m)
    /\ turn' = [turn EXCEPT ![m].stage = "fetching", ![m].attached = FALSE]
    /\ UNCHANGED <<vars, history, registered, overlapped, faults>>

\* Mutant: user_msg is used as it is.
NotRefetched(m) == turn[m].attached

Refetched(m) == TRUE

\* Whether or not there was data, the turn answers.
FetchReplies(m) ==
    /\ turn[m].stage = "fetching"
    /\ history' = Committed(m, Refetched(m))
    /\ Over(m, FALSE)
    /\ UNCHANGED <<vars, overlapped, faults>>

Backtest(m) ==
    /\ turn[m].stage = "thinking" /\ Idle(m)
    /\ \E n \in 1..MaxSymbols :
          turn' = [turn EXCEPT ![m].stage = "backtesting", ![m].left = n]
    /\ UNCHANGED <<vars, history, registered, overlapped, faults>>

\* What user_msg has so far is committed, and the database session released.
RunSymbol(m) ==
    /\ turn[m].stage = "backtesting" /\ turn[m].left > 0
    /\ turn' = [turn EXCEPT ![m].stage = "running", ![m].attached = FALSE, ![m].ran = TRUE]
    /\ history' = IF turn[m].attached THEN WithUser(history, m, "processing", NewDraft(m)) ELSE history
    /\ UNCHANGED <<vars, registered, overlapped, faults>>

\* Mutant: a symbol without a result is run again.
AfterSymbolRetried(m) == {turn[m].left - 1, turn[m].left}

\* A symbol that failed is recorded, and the loop goes on.
AfterSymbol(m) == {turn[m].left - 1}

\* The run of the symbol ends, or the symbol is refused before the commit.
SymbolEnds(m) ==
    /\ turn[m].stage = "running" \/ (turn[m].stage = "backtesting" /\ turn[m].left > 0)
    /\ \E n \in AfterSymbol(m) :
          turn' = [turn EXCEPT ![m].stage = "backtesting", ![m].left = n]
    /\ UNCHANGED <<vars, history, registered, overlapped, faults>>
-----------------------------------------------------------------------------
(* Failures.                                                               *)

\* An error of the LLM or of anything else: the database session is rolled back.
Fail(m) ==
    /\ turn[m].stage \in {"thinking", "fetching", "backtesting"} /\ Idle(m)
    /\ faults < MaxFaults
    /\ faults' = faults + 1
    /\ To(m, "failing")
    /\ UNCHANGED <<vars, history, registered, overlapped>>

\* Mutant: the status is not written in the transaction of the message.
StatusKept(m) == history

StatusFailed(m) == WithStatus(history, m, "failed")

\* In a database session of its own.
WriteFailure(m) ==
    /\ turn[m].stage = "failing"
    /\ history' = Append(StatusFailed(m), Row(m, "assistant", "failed", NoDraft))
    /\ Over(m, FALSE)
    /\ UNCHANGED <<vars, overlapped, faults>>

\* Only a message that is still processing.
WriteCancel(m) ==
    /\ turn[m].stage = "cancelling"
    /\ history' = IF Status(m) = {"processing"} THEN WithStatus(history, m, "completed") ELSE history
    /\ Over(m, FALSE)
    /\ UNCHANGED <<vars, overlapped, faults>>

\* The database is out: the handler gives up without a word.
HandlerFails(m) ==
    /\ turn[m].stage \in {"failing", "cancelling"}
    /\ faults < MaxFaults
    /\ faults' = faults + 1
    /\ Over(m, TRUE)
    /\ UNCHANGED <<vars, history, overlapped>>

\* cancel_ai_processing: CancelledError is raised at the await of the registered task.
\* An LLM call ends there; a commit it was waiting for may still go through.
Pause(m) ==
    /\ registered = m
    /\ turn[m].stage \in {"thinking", "fetching", "backtesting", "running"}
    /\ turn' = [turn EXCEPT ![m].stage = "cancelling", ![m].paused = TRUE]
    /\ IF Idle(m) THEN UNCHANGED vars ELSE End(m, "returned") /\ UNCHANGED active
    /\ history' \in {history} \cup
          (IF Answering(m) THEN {Committed(m, turn[m].attached)} ELSE {})
    /\ UNCHANGED <<registered, overlapped, faults>>

\* A pause that reaches a handler ends it, because no handler expects another one.
PauseHandler(m) ==
    /\ registered = m
    /\ turn[m].stage \in {"failing", "cancelling"}
    /\ Over(m, TRUE)
    /\ UNCHANGED <<vars, history, overlapped, faults>>

\* Nothing looks for the messages of the process that was restarted.
Restart ==
    /\ faults < MaxFaults
    /\ faults' = faults + 1
    /\ turn' = [m \in Callers |-> IF InProgress(m) THEN Ended(m, TRUE) ELSE turn[m]]
    /\ registered' = NoTurn
    /\ key' = [m \in Callers |-> NoKey] /\ left' = [m \in Callers |-> 0]
    /\ UNCHANGED <<good, active, result, history, overlapped>>

Progress(m) ==
    \/ Start(m) \/ Ask(m) \/ Reply(m) \/ Answer(m)
    \/ Fetch(m) \/ FetchReplies(m)
    \/ Backtest(m) \/ RunSymbol(m) \/ SymbolEnds(m)
    \/ WriteFailure(m) \/ WriteCancel(m)

ChatNext ==
    \/ \E m \in Callers :
          Progress(m) \/ Send(m) \/ Fail(m) \/ HandlerFails(m) \/ Pause(m) \/ PauseHandler(m)
    \/ Restart

\* Every await of a task returns: the LLM and the market data have timeouts, and the
\* event loop runs each task that is ready.
ChatFairness == \A m \in Callers : WF_allVars(Progress(m))

ChatSpec == ChatInit /\ [][ChatNext]_allVars /\ ChatFairness
-----------------------------------------------------------------------------
\* A turn leaves one answer, and the status of its message says which one, however a
\* pause, a failure and a commit fall together: "only messages that were fully
\* completed before the pause remain in history" (routes/chat.py:621-622).
OneOutcome ==
    \A m \in Callers :
        LET answered == {history[k].status : k \in Answers(m)}
        IN  /\ Cardinality(Answers(m)) <= 1
            /\ Status(m) = {"completed"} => answered = {"completed"} \/ (turn[m].paused /\ answered = {})
            /\ Status(m) = {"failed"} <=> answered = {"failed"}

\* A turn that is over has freed its message, unless the message was detached by a
\* backtest, or its handler or its process was stopped (chat_service.py:3627-3633).
SettledUnlessDetached ==
    \A m \in Callers :
        turn[m].stage = "over" /\ Status(m) = {"processing"} => turn[m].lost \/ turn[m].ran

\* As long as turns do not overlap and the history fits the limit, the latest draft has
\* the inputs of every turn that was answered (chat_service.py:2763-2777).
DraftsAccumulate ==
    ~overlapped /\ Len(history) <= HistoryLimit =>
        \A m \in Callers : (\E k \in Answers(m) : history[k].status = "completed") => m \in LastDraft(history)

\* Whatever the LLM, the market data and the backtests answer, a turn ends, if the
\* process does not first (chat_service.py:2731-6312).
EveryTurnEnds == \A m \in Callers : turn[m].stage = "queued" ~> turn[m].stage = "over"
=============================================================================
