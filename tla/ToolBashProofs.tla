--------------------------- MODULE ToolBashProofs ----------------------------
(***************************************************************************)
(* Proofs about tool_bash, for every cap, pipe size, deadline and amount   *)
(* of output.                                                              *)
(***************************************************************************)
EXTENDS ToolBash, TLAPS

(* The call begins in the invariant.                                        *)
LEMMA BashInit == Init => BashInv
<1> SUFFICES ASSUME Init PROVE BashInv
  OBVIOUS
<1>1. /\ wrote = [s \in Stream |-> 0] /\ text = [s \in Stream |-> 0] /\ piped = [s \in Stream |-> 0]
      /\ got = [s \in Stream |-> 0] /\ open = [s \in Stream |-> TRUE]
  BY DEF Init
<1>2. TypeOK
  <2>1. /\ wrote \in [Stream -> 0 .. MaxWrite] /\ text \in [Stream -> 0 .. MaxWrite]
        /\ piped \in [Stream -> 0 .. PipeCap]
        /\ got \in [Stream -> 0 .. Cap] /\ open \in [Stream -> BOOLEAN] /\ clock \in 0 .. Deadline
    BY <1>1, BashAssumption DEF Init
  <2> QED  BY <2>1 DEF Init, TypeOK
<1>3. Captured
  BY <1>1, BashAssumption DEF Captured, Least
<1>4. EndedForGood /\ Stage
  BY <1>1 DEF Init, EndedForGood, Stage
<1> QED  BY <1>2, <1>3, <1>4 DEF Init, BashInv, Ran, NothingLeftBehind, SuccessIsReal

(* The steps before the command runs.                                       *)
LEMMA StartStep ==
    ASSUME BashInv, RemoteExec \/ MakePipes \/ Refuse \/ Launch PROVE BashInv'
<1> USE BashAssumption DEF BashInv, TypeOK, Captured, EndedForGood, Stage, Ran, BothClosed,
       NothingLeftBehind, SuccessIsReal, Failed, Fd, cmdVars, mishaps, CloseAll
<1>1. CASE RemoteExec  BY <1>1 DEF RemoteExec
<1>2. CASE MakePipes
  <2>1. {"out"} \X {"r", "w"} \subseteq Stream \X {"r", "w"}
    BY DEF Stream
  <2>2. CASE pc' = "pipes"  BY <1>2, <2>2 DEF MakePipes
  <2>3. CASE pc' # "pipes"
    <3>1. /\ pc' = "returned" /\ why' = "pipe" /\ child = "none" /\ child' = "none"
          /\ fds' = {} \/ fds' = {"out"} \X {"r", "w"}
      BY <1>2, <2>3 DEF MakePipes
    <3>2. fds' \subseteq Stream \X {"r", "w"}
      BY <2>1, <3>1
    <3>3. NothingLeftBehind' /\ Stage'
      BY <1>2, <3>1 DEF MakePipes
    <3>4. TypeOK'
      BY <1>2, <3>1, <3>2 DEF MakePipes
    <3> QED  BY <1>2, <3>1, <3>3, <3>4 DEF MakePipes
  <2> QED  BY <2>2, <2>3
<1>3. CASE Refuse  BY <1>3 DEF Refuse
<1>4. CASE Launch
  <2>1. CASE pc' = "setup"
    <3>1. /\ has' \subseteq {"child", "helper"} \X Stream /\ fds' \subseteq Stream \X {"r", "w"}
          /\ child' = "running" /\ why' = why
      BY <1>4, <2>1 DEF Launch
    <3>2. pc = "pipes" /\ UNCHANGED <<status, piped, got, open, code, clock, stop, learned,
                                      helper, wrote, text, broken, lost>>
      BY <1>4 DEF Launch
    <3>3. TypeOK'
      BY <2>1, <3>1, <3>2
    <3> QED  BY <2>1, <3>1, <3>2, <3>3
  <2>2. CASE pc' # "setup"
    <3>1. pc' = "returned" /\ why' = "nofork" /\ fds' = {} /\ child' = child /\ has' = has
      BY <1>4, <2>2 DEF Launch
    <3> QED  BY <1>4, <3>1 DEF Launch
  <2> QED  BY <2>1, <2>2
<1> QED  BY <1>1, <1>2, <1>3, <1>4

(* A command that is stopped is dead with its group, reaped or not.         *)
LEMMA KillStep ==
    ASSUME BashInv, child \in {"running", "exited"}, ~lost, bash_kill_child_tree
    PROVE  /\ child' \in {"exited", "reaped"} /\ (child' = "reaped" \/ lost') /\ lost' \in BOOLEAN
           /\ helper' \in {"none", "escaped", "gone"} /\ status' \in {Failed, 0, 1}
           /\ has' \subseteq has /\ broken' = broken
<1>1. /\ child' \in {"exited", "reaped"} /\ (child' = "reaped" \/ lost') /\ lost' \in BOOLEAN
      /\ broken' = broken
  BY DEF BashInv, TypeOK, bash_kill_child_tree
<1>2. helper' \in {"none", "escaped", "gone"} /\ status' \in {Failed, 0, 1}
  BY DEF BashInv, TypeOK, bash_kill_child_tree, KillsGroup
<1>3. has' \subseteq has
  BY DEF bash_kill_child_tree
<1> QED  BY <1>1, <1>2, <1>3

(* The last things that can fail with the command running.                  *)
LEMMA SetupStep ==
    ASSUME BashInv, SetupFails \/ SetupDone PROVE BashInv'
<1> USE BashAssumption DEF BashInv, TypeOK, Captured, EndedForGood, Stage, Ran, BothClosed,
       NothingLeftBehind, SuccessIsReal, Failed, Fd, cmdVars, mishaps, CloseAll
<1>1. CASE SetupFails  BY <1>1, KillStep DEF SetupFails
<1>2. CASE SetupDone  BY <1>2 DEF SetupDone
<1> QED  BY <1>1, <1>2

(* The capture loop is left with both streams ended, or for a reason.       *)
LEMMA LeaveStep ==
    ASSUME BashInv, pc \in {"loop", "select"}, NEW reason \in {"none", "timeout", "cancel"},
           reason = "none" => BothClosed, LeaveLoop(reason)
    PROVE  BashInv'
  BY DEF BashInv, TypeOK, Captured, EndedForGood, Stage, Ran, BothClosed,
       NothingLeftBehind, SuccessIsReal, Failed, Fd, cmdVars, mishaps, CloseAll, LeaveLoop

(* The capture loop goes round or is left.                                  *)
LEMMA LoopStep ==
    ASSUME BashInv, LoopTop \/ SelectElse PROVE BashInv'
<1>1. CASE /\ UNCHANGED <<fds, child, status, piped, got, open, why, code, clock, stop,
                          learned, cmdVars, mishaps>>
           /\ pc \in {"loop", "select"} /\ pc' \in {"loop", "select"}
  BY <1>1 DEF BashInv, TypeOK, Captured, EndedForGood, Stage, Ran, BothClosed,
       NothingLeftBehind, SuccessIsReal, cmdVars, mishaps
<1>2. CASE LoopTop  BY <1>1, <1>2, LeaveStep DEF LoopTop
<1>3. CASE SelectElse  BY <1>1, <1>3, LeaveStep DEF SelectElse, Stream
<1> QED  BY <1>2, <1>3

(* The command is waited for, or stopped and then waited for, and the wait  *)
(* may fail.                                                                *)
LEMMA ReapStep ==
    ASSUME BashInv, Reap \/ WaitFails PROVE BashInv'
<1> USE BashAssumption DEF BashInv, TypeOK, Captured, EndedForGood, Stage, Ran, BothClosed,
       NothingLeftBehind, SuccessIsReal, Failed, Fd, cmdVars, mishaps
<1>1. CASE Reap /\ why # "none"  BY <1>1, KillStep DEF Reap, StoppedCode
<1>2. CASE Reap /\ why = "none"  BY <1>2 DEF Reap
<1>3. CASE WaitFails  BY <1>3 DEF WaitFails
<1> QED  BY <1>1, <1>2, <1>3

(* Nothing the command, its helper or the clock does breaks the invariant.  *)
LEMMA OutsideStep ==
    ASSUME BashInv, Command \/ Tick \/ StopDelegate \/ UNCHANGED vars PROVE BashInv'
<1> USE BashAssumption DEF BashInv, TypeOK, Captured, EndedForGood, Stage, Ran, BothClosed,
       NothingLeftBehind, SuccessIsReal, Failed, outside, cmdVars, mishaps
<1>1. ASSUME NEW p \in {"child", "helper"}, NEW s \in Stream, CommandWrites(p, s) PROVE BashInv'
  BY <1>1 DEF CommandWrites, Least
<1>2. ASSUME NEW p \in {"child", "helper"}, NEW s \in Stream, CommandCloses(p, s) PROVE BashInv'
  BY <1>2 DEF CommandCloses
<1>3. ASSUME NEW where \in {"group", "escaped"}, CommandSpawns(where) PROVE BashInv'
  BY <1>3 DEF CommandSpawns
<1>4. CASE CommandExits  BY <1>4 DEF CommandExits
<1>5. CASE HelperExits  BY <1>5 DEF HelperExits
<1>6. CASE Tick  BY <1>6 DEF Tick
<1>7. CASE StopDelegate  BY <1>7 DEF StopDelegate
<1>8. CASE UNCHANGED vars  BY <1>8 DEF vars
<1> QED  BY <1>1, <1>2, <1>3, <1>4, <1>5, <1>6, <1>7, <1>8 DEF Command

(* One round of reads: what is kept stays a prefix of what was written, a   *)
(* stream that read() reports as ended has ended, and one on which read()   *)
(* failed is known as such.                                                 *)
LEMMA ReadStep ==
    ASSUME BashInv, SelectReads
    PROVE  /\ BashInv'
           /\ \A s \in Stream : open[s] /\ piped[s] > 0 => piped'[s] < piped[s] \/ s \in broken'
<1>0. PICK bad \in SUBSET {s \in Stream : Ready(s)} :
         /\ piped' = [s \in Stream |->
                        IF Ready(s) /\ s \notin bad THEN piped[s] - Taken(s) ELSE piped[s]]
         /\ got' = [s \in Stream |->
                      IF Ready(s) /\ s \notin bad /\ got[s] < Cap THEN got[s] + Taken(s)
                                                                  ELSE got[s]]
         /\ open' = [s \in Stream |->
                       open[s] /\ s \notin bad /\ (Ready(s) => piped[s] > 0)]
         /\ broken' = broken \cup bad
  BY DEF SelectReads
<1>1. /\ piped \in [Stream -> 0 .. PipeCap] /\ got \in [Stream -> 0 .. Cap]
      /\ wrote \in [Stream -> 0 .. MaxWrite] /\ open \in [Stream -> BOOLEAN]
      /\ Cap \in Nat \ {0} /\ Discard \in Nat \ {0} /\ PipeCap \in Nat /\ MaxWrite \in Nat
      /\ broken \subseteq Stream
  BY BashAssumption DEF BashInv, TypeOK
<1>2. \A s \in Stream : /\ Taken(s) \in 0 .. piped[s]
                        /\ got[s] < Cap => Taken(s) =< Cap - got[s]
                        /\ piped[s] > 0 => Taken(s) > 0
  BY <1>1 DEF Taken, Least
<1>3. \A s \in Stream : s \notin bad =>
         /\ piped'[s] = IF Ready(s) THEN piped[s] - Taken(s) ELSE piped[s]
         /\ got'[s] = IF Ready(s) /\ got[s] < Cap THEN got[s] + Taken(s) ELSE got[s]
         /\ open'[s] = (open[s] /\ (Ready(s) => piped[s] > 0))
  BY <1>0
<1>33. \A s \in bad : piped'[s] = piped[s] /\ got'[s] = got[s]
  BY <1>0
<1>4. /\ UNCHANGED <<fds, child, status, why, code, clock, stop, learned, cmdVars, lost>>
      /\ pc = "select" /\ pc' = "loop"
  BY DEF SelectReads
<1>5. piped' \in [Stream -> 0 .. PipeCap] /\ got' \in [Stream -> 0 .. Cap]
  BY <1>0, <1>1, <1>2
<1>6. open' \in [Stream -> BOOLEAN] /\ broken' \subseteq Stream
  BY <1>0, <1>1
<1>7. TypeOK'
  BY <1>4, <1>5, <1>6 DEF BashInv, TypeOK, cmdVars
<1>8. Captured'
  <2> SUFFICES ASSUME NEW s \in Stream
               PROVE  piped'[s] =< wrote[s] /\ got'[s] = Least(Cap, wrote[s] - piped'[s])
    BY <1>4 DEF Captured, cmdVars, BashInv
  <2>1. piped[s] =< wrote[s] /\ got[s] = Least(Cap, wrote[s] - piped[s])
    BY DEF BashInv, Captured
  <2>2. CASE s \in bad  BY <1>33, <2>1, <2>2
  <2>3. CASE s \notin bad  BY <1>1, <1>2, <1>3, <2>1, <2>3 DEF Least
  <2> QED  BY <2>2, <2>3
<1>9. EndedForGood'
  <2> SUFFICES ASSUME NEW s \in Stream \ broken', ~open'[s]
               PROVE  piped'[s] = 0 /\ \A p \in {"child", "helper"} : <<p, s>> \notin has
    BY <1>4 DEF EndedForGood, cmdVars
  <2>0. s \notin bad /\ s \in Stream \ broken
    BY <1>0
  <2>1. CASE ~open[s]
    BY <1>3, <2>0, <2>1 DEF BashInv, EndedForGood, Ready
  <2>2. CASE open[s] /\ Ready(s) /\ ~(piped[s] > 0)
    <3>1. piped[s] = 0
      BY <1>1, <2>2
    <3>2. Taken(s) = 0
      BY <1>2, <3>1
    <3> QED  BY <1>3, <2>0, <2>2, <3>1, <3>2 DEF Ready
  <2> QED  BY <1>3, <2>0, <2>1, <2>2
<1>10. \A s \in Stream : open[s] /\ piped[s] > 0 => piped'[s] < piped[s] \/ s \in broken'
  <2> SUFFICES ASSUME NEW s \in Stream, open[s], piped[s] > 0, s \notin bad
               PROVE  piped'[s] < piped[s]
    BY <1>0
  <2>1. Ready(s)
    BY DEF Ready
  <2> QED  BY <1>1, <1>2, <1>3, <2>1
<1>11. BashInv'
  BY <1>4, <1>7, <1>8, <1>9 DEF BashInv, Stage, Ran, NothingLeftBehind, SuccessIsReal, BothClosed
<1> QED  BY <1>10, <1>11

(* The inductive invariant holds throughout a call of tool_bash.            *)
THEOREM BashInvariant == Spec => []BashInv
<1>1. BashInv /\ [Next]_vars => BashInv'
  BY StartStep, SetupStep, LoopStep, ReadStep, ReapStep, OutsideStep DEF Next, Step
<1> QED  BY BashInit, <1>1, PTL DEF Spec

(* The variables keep their types; in particular the buffers are never      *)
(* written past the cap.                                                    *)
THEOREM BashTypeCorrect == Spec => []TypeOK
<1>1. BashInv => TypeOK
  BY DEF BashInv
<1> QED  BY BashInvariant, <1>1, PTL

(* The result of a command that was not stopped holds all the output that   *)
(* could be read, up to the first NUL and to the cap, for every cap and     *)
(* pipe size and whoever wrote it.                                          *)
THEOREM OutputIsComplete == Spec => []OutputComplete
<1>1. BashInv => OutputComplete
  <2> SUFFICES ASSUME BashInv, Ran, why = "none", NEW s \in Stream \ broken
               PROVE  Result(s) = Least(Cap, text[s])
    BY DEF OutputComplete
  <2>1. piped[s] = 0
    BY DEF BashInv, BothClosed, EndedForGood
  <2>2. /\ got[s] = Least(Cap, wrote[s] - piped[s]) /\ wrote[s] \in Nat
        /\ text[s] \in Nat /\ text[s] =< wrote[s] /\ Cap \in Nat
    BY BashAssumption DEF BashInv, Captured, TypeOK
  <2> QED  BY <2>1, <2>2 DEF Result, Least
<1> QED  BY BashInvariant, <1>1, PTL

(* Every round of the capture loop takes something out of every pipe that   *)
(* has something in it and can be read, past the cap too.                   *)
THEOREM PipesAreDrained == Spec => PipesDrained
<1> DEFINE D == \A s \in Stream :
                  pc = "select" /\ pc' = "loop" /\ open[s] /\ piped[s] > 0 =>
                      piped'[s] < piped[s] \/ s \in broken'
<1>1. BashInv /\ [Next]_vars => [D]_vars
  <2> SUFFICES ASSUME BashInv, Next, pc = "select", pc' = "loop",
                      NEW s \in Stream, open[s], piped[s] > 0
               PROVE  piped'[s] < piped[s] \/ s \in broken'
    OBVIOUS
  <2>1. CASE SelectReads  BY <2>1, ReadStep
  <2>2. CASE SelectElse  BY <2>2 DEF SelectElse, Ready, LeaveLoop
  <2>3. ~(Command \/ Tick \/ StopDelegate)
    BY DEF Command, CommandWrites, CommandCloses, CommandSpawns, CommandExits, HelperExits, Tick,
           StopDelegate, outside
  <2> QED  BY <2>1, <2>2, <2>3 DEF Next, Step, RemoteExec, MakePipes, Refuse, Launch, SetupFails,
              SetupDone, LoopTop, Reap, WaitFails
<1> QED  BY BashInvariant, <1>1, PTL DEF Spec, PipesDrained

(* Whatever way tool_bash returns, no process of the group of a stopped     *)
(* command lives, a command is unreaped only by a wait that failed, and no  *)
(* pipe is open but the one it is known to leak.                            *)
THEOREM BashLeavesNothing == Spec => []NothingLeftBehind
<1>1. BashInv => NothingLeftBehind
  BY DEF BashInv
<1> QED  BY BashInvariant, <1>1, PTL

(* Success is only ever reported for a command that exited with 0 by itself *)
(* or whose wait failed, and never for one that was stopped.                *)
THEOREM BashSuccessIsReal == Spec => []SuccessIsReal
<1>1. BashInv => SuccessIsReal
  BY DEF BashInv
<1> QED  BY BashInvariant, <1>1, PTL
=============================================================================
