------------------------------ MODULE ToolBash ------------------------------
(***************************************************************************)
(* One call of tool_bash (src/modules/tools/agent_tools.c): the command is *)
(* run in its own process group with its two outputs on pipes, captured up *)
(* to a cap, and stopped at its deadline or when the delegate is stopped.  *)
(*                                                                         *)
(* The command is any process: it writes, closes its outputs, leaves a     *)
(* helper behind that has them open (in its process group or outside it),  *)
(* and exits when it likes.  Output is abstracted to its length and to how *)
(* much of it comes before the first NUL byte, where the result is cut.    *)
(* Every call on the system may fail, and the code looks at few of them.   *)
(***************************************************************************)
EXTENDS Integers, FiniteSets

CONSTANTS Cap,       \* AGENT_TOOL_OUTPUT_RAW_MAX, the bytes kept of a stream
          Discard,   \* the buffer that excess output is read into
          PipeCap,   \* the bytes a pipe holds
          MaxWrite,  \* bound on what the command writes to a stream
          Deadline   \* timeout_ms, in ticks of the clock

ASSUME BashAssumption ==
    /\ Cap \in Nat \ {0} /\ Discard \in Nat \ {0} /\ PipeCap \in Nat \ {0}
    /\ MaxWrite \in Nat /\ Deadline \in Nat

Stream == {"out", "err"}
Fd == Stream \X {"r", "w"}
Failed == 0 - 1

VARIABLES
    pc,       \* where tool_bash is
    fds,      \* the pipe ends it has open
    child,    \* the command: "none", "running", "exited", "reaped"
    helper,   \* a background process of it: "none", "group", "escaped", "gone"
    has,      \* the outputs that the command and its helper hold open
    status,   \* the wait status of the command, or Failed for a signal
    wrote, piped, \* bytes written to a stream; those not yet read
    text,     \* of those written, the ones before the first NUL
    got,      \* out_len, err_len
    open,     \* stdout_open, stderr_open
    broken,   \* history: the streams on which read() has failed
    lost,     \* history: a waitpid has failed
    why,      \* timed_out, cancelled
    code,     \* exit_code
    clock,    \* CLOCK_MONOTONIC since the deadline was set, up to the deadline
    stop,     \* the delegate has been told to stop
    learned   \* sandbox_learned_observe was called

cmdVars == <<helper, has, wrote, text>>
mishaps == <<broken, lost>>
vars == <<pc, fds, child, status, piped, got, open, why, code, clock, stop, learned, cmdVars,
          mishaps>>

TypeOK ==
    /\ pc \in {"start", "pipes", "setup", "loop", "select", "reap", "returned"}
    /\ fds \subseteq Fd
    /\ child \in {"none", "running", "exited", "reaped"}
    /\ helper \in {"none", "group", "escaped", "gone"}
    /\ has \subseteq {"child", "helper"} \X Stream
    /\ status \in {Failed, 0, 1} /\ code \in {Failed, 0, 1}
    /\ wrote \in [Stream -> 0 .. MaxWrite] /\ text \in [Stream -> 0 .. MaxWrite]
    /\ piped \in [Stream -> 0 .. PipeCap]
    /\ got \in [Stream -> 0 .. Cap]
    /\ open \in [Stream -> BOOLEAN] /\ broken \subseteq Stream /\ lost \in BOOLEAN
    /\ why \in {"none", "timeout", "cancel", "pipe", "refused", "nofork", "noroom"}
    /\ clock \in 0 .. Deadline
    /\ stop \in BOOLEAN /\ learned \in BOOLEAN

Init ==
    /\ pc = "start" /\ fds = {}
    /\ child = "none" /\ helper = "none" /\ has = {} /\ status = Failed
    /\ wrote = [s \in Stream |-> 0] /\ text = wrote /\ piped = wrote /\ got = wrote
    /\ open = [s \in Stream |-> TRUE] /\ broken = {} /\ lost = FALSE
    /\ why = "none" /\ code = Failed /\ clock = 0
    /\ stop = FALSE /\ learned = FALSE

-----------------------------------------------------------------------------
(* Before the command runs.                                                 *)

\* A detached or a container workspace runs the command; the learned
\* toolchain takes note of a success in a container.
RemoteExec ==
    /\ pc = "start"
    /\ \E c \in {Failed, 0, 1}, container \in BOOLEAN :
         code' = c /\ learned' = (container /\ c = 0)
    /\ pc' = "returned"
    /\ UNCHANGED <<fds, child, status, piped, got, open, why, clock, stop, cmdVars, mishaps>>

\* pipe() twice; when the second fails the first pipe stays open.
MakePipes ==
    /\ pc = "start"
    /\ \/ pc' = "pipes" /\ fds' = Fd /\ UNCHANGED why
       \/ /\ pc' = "returned" /\ why' = "pipe"
          /\ fds' \in {{}, {"out"} \X {"r", "w"}}
    /\ UNCHANGED <<child, status, piped, got, open, code, clock, stop, learned, cmdVars, mishaps>>

CloseAll == {}

\* A delegate's shell with the sandbox off.
Refuse ==
    /\ pc = "pipes"
    /\ pc' = "returned" /\ why' = "refused" /\ fds' = CloseAll
    /\ UNCHANGED <<child, status, piped, got, open, code, clock, stop, learned, cmdVars, mishaps>>

\* The guarded, the sandboxed or the plain fork; each closes the write ends
\* in the parent, and the read ends when no child came of it.
Launch ==
    /\ pc = "pipes"
    /\ \/ /\ child' = "running" /\ has' = {"child"} \X Stream
          /\ fds' = Stream \X {"r"} /\ pc' = "setup" /\ UNCHANGED why
       \/ /\ fds' = CloseAll /\ pc' = "returned" /\ why' = "nofork"
          /\ UNCHANGED <<child, has>>
    /\ UNCHANGED <<status, piped, got, open, code, clock, stop, learned, helper, wrote, text,
                   mishaps>>

-----------------------------------------------------------------------------
(* Stopping and reaping.                                                    *)

\* Slip: the signal goes to the command and not to its process group.
KillsChildOnly(h) == h

\* kill(-pid): a helper goes with the group unless it is not in it.  (A
\* command that the sandbox did not make the leader of a group before its
\* exec has no group; all its helpers are then "escaped".)
KillsGroup(h) == IF h = "group" THEN "gone" ELSE h

\* The signals, and the waitpid that follows them everywhere.  Its result is
\* not looked at: interrupted it leaves a zombie, and the command may also
\* have been waited for by somebody else.
bash_kill_child_tree ==
    /\ status' = IF child = "running" THEN Failed ELSE status
    /\ helper' = KillsGroup(helper)
    /\ has' = {h \in has : h[1] = "helper" /\ helper' # "gone"}
    /\ \/ child' = "reaped" /\ UNCHANGED lost
       \/ child' \in {"exited", "reaped"} /\ lost' = TRUE
    /\ UNCHANGED broken

\* malloc fails, or a descriptor is too large for select.
SetupFails ==
    /\ pc = "setup"
    /\ bash_kill_child_tree
    /\ fds' = CloseAll /\ pc' = "returned" /\ why' = "noroom"
    /\ UNCHANGED <<piped, got, open, code, clock, stop, learned, wrote, text>>

SetupDone ==
    /\ pc = "setup" /\ pc' = "loop"
    /\ UNCHANGED <<fds, child, status, piped, got, open, why, code, clock, stop, learned, cmdVars,
                   mishaps>>

-----------------------------------------------------------------------------
(* The loop that captures the output.                                       *)

LeaveLoop(reason) ==
    /\ pc' = "reap" /\ why' = reason /\ fds' = CloseAll
    /\ UNCHANGED <<child, status, piped, got, open, code, clock, stop, learned, cmdVars, mishaps>>

\* Slip: the deadline is not looked at.
NeverLate == FALSE

Late == clock >= Deadline

\* Slip: the end of the command is taken for the end of its output.
DoneAtExit == child = "exited" \/ \A s \in Stream : ~open[s]

BothClosed == \A s \in Stream : ~open[s]

LoopTop ==
    /\ pc = "loop"
    /\ \/ BothClosed /\ LeaveLoop("none")
       \/ ~BothClosed /\ Late /\ LeaveLoop("timeout")
       \/ ~BothClosed /\ ~Late /\ stop /\ LeaveLoop("cancel")
       \/ /\ ~BothClosed /\ ~Late /\ ~stop /\ pc' = "select"
          /\ UNCHANGED <<fds, child, status, piped, got, open, why, code, clock, stop,
                         learned, cmdVars, mishaps>>

\* A stream can be read when it has bytes, or when nobody can write to it.
Ready(s) == open[s] /\ (piped[s] > 0 \/ \A p \in {"child", "helper"} : <<p, s>> \notin has)

Least(a, b) == IF a < b THEN a ELSE b

\* Slip: past the cap nothing is read any more.
TakenUpToCap(s) == Least(piped[s], Cap - got[s])

\* What read() takes: into the room that is left, else into the discard
\* buffer.  The buffers are allocated with out_cap = rawcap = Cap, so the code
\* that would make them grow, and might fail to, is never reached.
Taken(s) == Least(piped[s], IF got[s] < Cap THEN Cap - got[s] ELSE Discard)

\* Both streams that are ready are read; end of file and an error of read()
\* both count as the end of the stream.
SelectReads ==
    /\ pc = "select"
    /\ \E s \in Stream : Ready(s)
    /\ \E bad \in SUBSET {s \in Stream : Ready(s)} :
         /\ piped' = [s \in Stream |->
                        IF Ready(s) /\ s \notin bad THEN piped[s] - Taken(s) ELSE piped[s]]
         /\ got' = [s \in Stream |->
                      IF Ready(s) /\ s \notin bad /\ got[s] < Cap THEN got[s] + Taken(s)
                                                                  ELSE got[s]]
         /\ open' = [s \in Stream |->
                       open[s] /\ s \notin bad /\ (Ready(s) => piped[s] > 0)]
         /\ broken' = broken \cup bad
    /\ pc' = "loop"
    /\ UNCHANGED <<fds, child, status, why, code, clock, stop, learned, cmdVars, lost>>

\* select returns with nothing, is interrupted, or fails.
SelectElse ==
    /\ pc = "select"
    /\ \/ /\ \A s \in Stream : ~Ready(s) /\ pc' = "loop"
          /\ UNCHANGED <<fds, child, status, piped, got, open, why, code, clock, stop,
                         learned, cmdVars, mishaps>>
       \/ LeaveLoop("timeout")

-----------------------------------------------------------------------------
(* After the loop.                                                          *)

\* Slip: the exit code starts as success.
CodeOfStopped == 0

StoppedCode == Failed

Reap ==
    /\ pc = "reap"
    /\ \/ why # "none" /\ bash_kill_child_tree /\ code' = StoppedCode
       \/ /\ why = "none" /\ child = "exited"
          /\ child' = "reaped" /\ code' = status
          /\ UNCHANGED <<status, helper, has, mishaps>>
    /\ pc' = "returned"
    /\ UNCHANGED <<fds, piped, got, open, why, clock, stop, learned, wrote, text>>

\* The waitpid for a command that was not stopped fails: a signal interrupts
\* it, or somebody else has waited for the command.  status keeps the 0 it
\* started with, which reads as an exit with 0.
WaitFails ==
    /\ pc = "reap" /\ why = "none"
    /\ child' = IF child = "running" THEN "running" ELSE "reaped"
    /\ lost' = TRUE /\ code' = 0 /\ pc' = "returned"
    /\ UNCHANGED <<fds, status, piped, got, open, why, clock, stop, learned, cmdVars, broken>>

\* What the result says of a stream: a C string, which ends at a NUL.  The
\* stderr of a command that was cancelled is replaced.
Result(s) == IF s = "err" /\ why = "cancel" THEN 0 ELSE Least(got[s], text[s])

-----------------------------------------------------------------------------
(* The command, its helper, the clock and the one who stops the delegate.   *)

outside == <<pc, fds, got, open, why, code, learned, mishaps>>

\* A byte, which may be NUL.
CommandWrites(p, s) ==
    /\ <<p, s>> \in has /\ piped[s] < PipeCap /\ wrote[s] < MaxWrite
    /\ piped' = [piped EXCEPT ![s] = @ + 1]
    /\ wrote' = [wrote EXCEPT ![s] = @ + 1]
    /\ \/ text[s] = wrote[s] /\ text' = [text EXCEPT ![s] = @ + 1]
       \/ UNCHANGED text
    /\ UNCHANGED <<outside, child, status, helper, has, clock, stop>>

CommandCloses(p, s) ==
    /\ <<p, s>> \in has /\ has' = has \ {<<p, s>>}
    /\ UNCHANGED <<outside, child, status, helper, wrote, text, piped, clock, stop>>

CommandSpawns(where) ==
    /\ child = "running" /\ helper = "none" /\ helper' = where
    /\ has' = has \cup {<<"helper", h[2]>> : h \in has}
    /\ UNCHANGED <<outside, child, status, wrote, text, piped, clock, stop>>

CommandExits ==
    /\ child = "running" /\ child' = "exited"
    /\ status' \in {Failed, 0, 1}
    /\ has' = {h \in has : h[1] = "helper"}
    /\ UNCHANGED <<outside, helper, wrote, text, piped, clock, stop>>

HelperExits ==
    /\ helper \in {"group", "escaped"} /\ helper' = "gone"
    /\ has' = {h \in has : h[1] = "child"}
    /\ UNCHANGED <<outside, child, status, wrote, text, piped, clock, stop>>

Tick ==
    /\ pc \in {"loop", "select"} /\ clock < Deadline /\ clock' = clock + 1
    /\ UNCHANGED <<outside, child, status, piped, stop, cmdVars>>

StopDelegate ==
    /\ ~stop /\ stop' = TRUE
    /\ UNCHANGED <<outside, child, status, piped, clock, cmdVars>>

Step == RemoteExec \/ MakePipes \/ Refuse \/ Launch \/ SetupFails \/ SetupDone
        \/ LoopTop \/ SelectReads \/ SelectElse \/ Reap

Command ==
    \/ \E p \in {"child", "helper"}, s \in Stream : CommandWrites(p, s) \/ CommandCloses(p, s)
    \/ \E where \in {"group", "escaped"} : CommandSpawns(where)
    \/ CommandExits
    \/ HelperExits

Next == Step \/ WaitFails \/ Command \/ Tick \/ StopDelegate

(* tool_bash keeps running and time passes; nothing is assumed of the       *)
(* command or of the one who stops the delegate, and no signal ever has to  *)
(* interrupt the wait.                                                      *)
Spec == Init /\ [][Next]_vars /\ WF_vars(Step) /\ WF_vars(Tick)

-----------------------------------------------------------------------------
(* Properties.                                                              *)

Ran == pc = "returned" /\ child # "none"

\* The result of a command that was not stopped has the whole of each output
\* that could be read, whoever wrote it and however late: all that comes
\* before the first NUL, up to the cap.
OutputComplete ==
    Ran /\ why = "none" =>
        \A s \in Stream \ broken : Result(s) = Least(Cap, text[s])

\* A round of the loop takes something out of every pipe that has something
\* in it, past the cap as before it, unless the stream cannot be read: no
\* command waits on a full pipe for its deadline because it talks too much.
PipesDrained ==
    [][\A s \in Stream : pc = "select" /\ pc' = "loop" /\ open[s] /\ piped[s] > 0 =>
         piped'[s] < piped[s] \/ s \in broken']_vars

\* Whatever way tool_bash returns: a command that was stopped is dead, and so
\* is its process group; a command is left unreaped only by a wait that
\* failed; the pipes are closed, but for the first one when the second could
\* not be made, and then no command has been started.
NothingLeftBehind ==
    pc = "returned" =>
        /\ child \in {"none", "reaped"} \/ lost
        /\ child # "none" /\ why # "none" => child # "running" /\ helper # "group"
        /\ fds = {} \/ (why = "pipe" /\ child = "none" /\ fds = {"out"} \X {"r", "w"})

\* Success is only reported for a command that exited with 0 by itself, or
\* whose wait failed, and never for one that was stopped; only of a success
\* does the learned toolchain hear.
SuccessIsReal ==
    pc = "returned" /\ (code = 0 \/ learned) =>
        /\ code = 0
        /\ child # "none" => why = "none" /\ (lost \/ (child = "reaped" /\ status = 0))

\* tool_bash returns in the end, or waits for good in the one place that no
\* deadline reaches, the waitpid for a command that has given up both its
\* outputs and keeps running.  Silence, a full pipe or a helper left behind
\* with the outputs open cannot hold it.
WaitsForChild == pc = "reap" /\ why = "none" /\ child = "running"
BashReturns == <>[](pc = "returned" \/ WaitsForChild)

(* The inductive invariant behind the safety properties.  What has been     *)
(* read of a stream is what was written less what is still in the pipe, and *)
(* the first Cap bytes of it are kept; a stream whose reads succeed is      *)
(* taken for ended only when its pipe is empty and nobody can write to it   *)
(* any more, and then nobody ever can.                                      *)
Captured == \A s \in Stream : /\ piped[s] =< wrote[s] /\ text[s] =< wrote[s]
                              /\ got[s] = Least(Cap, wrote[s] - piped[s])
EndedForGood ==
    \A s \in Stream \ broken : ~open[s] =>
        piped[s] = 0 /\ \A p \in {"child", "helper"} : <<p, s>> \notin has
Stage ==
    /\ pc \in {"start", "pipes"} => child = "none" /\ \A s \in Stream : open[s]
    /\ pc \in {"setup", "loop", "select", "reap"} => child \in {"running", "exited"}
    /\ pc \in {"start", "pipes", "setup", "loop", "select"} => why = "none"
    /\ pc = "reap" => why \in {"none", "timeout", "cancel"}
    /\ pc # "returned" => code = Failed /\ ~learned /\ ~lost
    /\ pc \in {"start", "reap"} => fds = {}
    /\ pc = "reap" /\ why = "none" => BothClosed
BashInv == /\ TypeOK /\ Captured /\ EndedForGood /\ Stage
           /\ (Ran /\ why = "none" => BothClosed)
           /\ NothingLeftBehind /\ SuccessIsReal
=============================================================================
