----------------------------- MODULE RemoteCall -----------------------------
(***************************************************************************)
(* What a synchronous module call promises to the code that makes it: one  *)
(* call at a time; the stage runs a call at most once, before the call     *)
(* returns or long after; a call that returns a body returns the whole     *)
(* answer that the stage gave to that very call.  An error says nothing    *)
(* about whether the stage has run or will run.                            *)
(***************************************************************************)
EXTENDS Naturals, Sequences

CONSTANTS MaxCalls,   \* bound on the number of calls
          MaxAnswer,  \* bound on the length of an answer
          None        \* the stage has not answered; nothing has returned yet

VARIABLES calls,    \* calls made so far
          calling,  \* the last of them has not returned
          runs,     \* how often the stage has run each call
          answer,   \* the length of the stage's answer to a call
          ret       \* the last return: the call, and its body or None

vars == <<calls, calling, runs, answer, ret>>
Id == 1 .. MaxCalls

\* The answer to call k, unit by unit.
Answer(k, n) == [i \in 1 .. n |-> <<k, i>>]

Init == /\ calls = 0 /\ calling = FALSE /\ ret = None
        /\ runs = [k \in Id |-> 0]
        /\ answer = [k \in Id |-> None]

Invoke == /\ ~calling /\ calls < MaxCalls
          /\ calls' = calls + 1 /\ calling' = TRUE
          /\ UNCHANGED <<runs, answer, ret>>

Run(k) == /\ k =< calls /\ runs[k] = 0
          /\ runs' = [runs EXCEPT ![k] = 1]
          /\ UNCHANGED <<calls, calling, answer, ret>>

GiveAnswer(k, n) == /\ runs[k] = 1 /\ answer[k] = None
                    /\ answer' = [answer EXCEPT ![k] = n]
                    /\ UNCHANGED <<calls, calling, runs, ret>>

ReturnBody == /\ calling /\ answer[calls] # None
              /\ ret' = [call |-> calls, body |-> Answer(calls, answer[calls])]
              /\ calling' = FALSE /\ UNCHANGED <<calls, runs, answer>>

ReturnError == /\ calling
               /\ ret' = [call |-> calls, body |-> None]
               /\ calling' = FALSE /\ UNCHANGED <<calls, runs, answer>>

Next == \/ Invoke \/ ReturnBody \/ ReturnError
        \/ \E k \in Id : Run(k) \/ \E n \in 0 .. MaxAnswer : GiveAnswer(k, n)

Spec == Init /\ [][Next]_vars
=============================================================================
