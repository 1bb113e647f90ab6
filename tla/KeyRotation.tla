------------------------------ MODULE KeyRotation ------------------------------
(***************************************************************************)
(* Rotation of the OpenRouter keys: OpenRouterKeyManager keeps the index   *)
(* of the active key (app/services/ai/openrouter_key_manager.py), and      *)
(* every LLM call of the process runs _openrouter_with_rotation            *)
(* (app/services/ai/llm.py).  Calls are coroutines of one event loop:      *)
(* between two awaits a call runs alone, and it awaits only the provider.  *)
(***************************************************************************)
EXTENDS Integers

CONSTANTS
    Callers,    \* coroutines that call the provider
    N,          \* number of configured keys
    NoKey       \* a caller that is not in a call

ASSUME RotationAssumption == N \in Nat \ {0} /\ NoKey \notin Nat

Keys == 0..N-1

VARIABLES
    good,       \* keys with credit: they never give a rotatable error
    active,     \* active_key_index of the state file
    key,        \* key[c]: the key c is calling with
    left,       \* left[c]: attempts of the loop after this one
    result      \* result[c]: how the last call of c ended

vars == <<good, active, key, left, result>>

Results == {"none", "returned", "all_exhausted", "last_error"}

\* The file may have any index of an earlier run; the constructor of LLMService
\* reads it once, which resets one out of range.
Init ==
    /\ good \in SUBSET Keys
    /\ active \in Keys
    /\ key = [c \in Callers |-> NoKey]
    /\ left = [c \in Callers |-> 0]
    /\ result = [c \in Callers |-> "none"]
-----------------------------------------------------------------------------
\* max_attempts, less the first attempt.
OtherAttempts == N - active - 1

Begin(c) ==
    /\ key[c] = NoKey
    /\ key' = [key EXCEPT ![c] = active]
    /\ left' = [left EXCEPT ![c] = OtherAttempts]
    /\ result' = [result EXCEPT ![c] = "none"]
    /\ UNCHANGED <<good, active>>

End(c, how) ==
    /\ key' = [key EXCEPT ![c] = NoKey]
    /\ left' = [left EXCEPT ![c] = 0]
    /\ result' = [result EXCEPT ![c] = how]
    /\ UNCHANGED good

\* The provider answers, or with an error that no other key would mend.
Answered(c) ==
    /\ key[c] # NoKey
    /\ End(c, "returned")
    /\ UNCHANGED active

\* Mutant: the key after the last is the first.
AroundTo(k) == (k + 1) % N

\* new_index = active_index + 1, whichever key has failed.
MovedTo(k) == k + 1

\* A rotatable error: the manager moves on, and the loop goes on with the key
\* the manager now has.
Rotate(c) ==
    /\ key[c] # NoKey
    /\ key[c] \notin good
    /\ \/ /\ MovedTo(active) >= N
          /\ End(c, "all_exhausted")
          /\ UNCHANGED active
       \/ /\ MovedTo(active) < N
          /\ active' = MovedTo(active)
          /\ IF left[c] = 0 THEN End(c, "last_error")
             ELSE /\ key' = [key EXCEPT ![c] = active']
                  /\ left' = [left EXCEPT ![c] = @ - 1]
                  /\ UNCHANGED <<good, result>>

Next == \E c \in Callers : Begin(c) \/ Answered(c) \/ Rotate(c)

Spec == Init /\ [][Next]_vars
-----------------------------------------------------------------------------
TypeOK ==
    /\ good \subseteq Keys
    /\ active \in Keys
    /\ key \in [Callers -> Keys \cup {NoKey}]
    /\ left \in [Callers -> Keys]
    /\ result \in [Callers -> Results]

\* However the failures of several calls interleave, none tries a key again
\* (llm.py:423-444).
AttemptsAscend ==
    [][\A c \in Callers :
          key[c] # NoKey /\ key'[c] # NoKey /\ left'[c] # left[c] => key'[c] > key[c]]_vars

\* max_attempts is read once and other calls move the index meanwhile, and still a
\* call never stops for want of attempts while a key after its own is left
\* (llm.py:446-447 is never reached).
NeverOutOfAttempts == \A c \in Callers : result[c] # "last_error"

\* "All N configured OpenRouter API keys are exhausted or unavailable"
\* (llm.py:440-441): the key that is active then has no credit.  Two calls that fail
\* with one key break it: the second moves the index past a key nobody has tried.
GivesUpHonestly ==
    \A c \in Callers : result[c] = "all_exhausted" => active \notin good
=============================================================================
