---------------------------- MODULE GuardedChain ----------------------------
(***************************************************************************)
(* The guarded shell fallback (src/modules/tools/agent_tools.c).           *)
(*                                                                         *)
(* Under the parent-worktree guard tool_bash does not hand a command line  *)
(* to a shell: it splits the line into commands, checks each of them, and  *)
(* a forked child, the chain, evaluates `&&', `;' and `|' itself.  The     *)
(* line is first tried as a read-only chain, then as a chain of workspace  *)
(* commands (no pipes, no cd); when both decline, tool_bash goes on to the *)
(* sandbox.                                                                *)
(*                                                                         *)
(* A line is abstracted to its segments and the operators between them.    *)
(* A segment keeps what the checks read of its words.  A command ends with *)
(* code 0 or 1; when it ends, and whether a pipe, a fork or a chdir fails, *)
(* is free.  Process 0 is the chain, process k the command k; pipe k       *)
(* leads from command k to command k + 1.                                  *)
(***************************************************************************)
EXTENDS Integers, Sequences, FiniteSets

CONSTANTS MaxCommands,  \* size of command_starts, command_counts, operators (32)
          Lines         \* the command lines the agent may give

Operator == {"&&", ";", "|", "||"}

\* name: "" is an empty segment, "list" one of readonly_commands, "make" a
\* build or file command, "script" a path to an executable.  plain: the
\* words pass bash_git_subcommand_is_readonly or the option checks of the command's
\* name, which is its basename.  The checks are by name and let some changes
\* through (git branch -D, git remote add).  inside: every path-like word, and
\* every path option of make, resolves under the guard's write root (for a
\* workspace command: and the workspace itself lies there).
Segment == [name: {"", "cd", "git", "list", "make", "script"},
            plain: BOOLEAN, inside: BOOLEAN]

\* long: 64 words or more.
Line == [seg: Seq(Segment), op: Seq(Operator), long: BOOLEAN]

ASSUME ChainAssumption ==
    /\ MaxCommands \in Nat \ {0}
    /\ \A l \in Lines : l \in Line /\ Len(l.seg) > 0 /\ Len(l.op) = Len(l.seg) - 1

VARIABLES
    line,   \* the command line
    mode,   \* which of the two chains is tried or runs
    pc,     \* where tool_bash, then the chain child, is
    n,      \* command_count
    top,    \* history: the highest index of operators[] written, from 0
    i,      \* the command the evaluator is at
    to, s,  \* pipe_end, and the stage started or waited for
    rc,     \* last_rc
    cwd,    \* the chain's directory: the cd commands that took effect
    proc,   \* every command's process
    code,   \* and the code it ended with
    held,   \* the pipe ends each process holds
    ran,    \* history: the commands executed, where, and reading a pipe or not
    cut     \* history: the commands of pipelines and segments that failed to start

vars == <<line, mode, pc, n, top, i, to, s, rc, cwd, proc, code, held, ran, cut>>
scanVars == <<line, mode, n, top>>
runVars == <<i, to, s, rc, cwd, proc, code, held, ran, cut>>

Cmd == DOMAIN line.seg

Init ==
    /\ line \in Lines
    /\ mode = "readonly" /\ pc = "scan" /\ n = 0 /\ top = 0
    /\ i = 1 /\ to = 0 /\ s = 0 /\ rc = 0 /\ cwd = <<>>
    /\ proc = [k \in Cmd |-> "none"]
    /\ code = [k \in Cmd |-> 0]
    /\ held = [p \in {0} \cup Cmd |-> {}]
    /\ ran = {} /\ cut = {}

-----------------------------------------------------------------------------
(* The checks.                                                              *)

bash_command_is_readonly_exec(c) ==
    CASE c.name = "cd" -> c.inside
      [] c.name \in {"git", "list"} -> c.plain
      [] OTHER -> FALSE

bash_command_is_guarded_workspace_segment(c) ==
    c.inside /\ c.name \in {"make", "script"}

Eligible(c) == IF mode = "readonly" THEN bash_command_is_readonly_exec(c)
                                    ELSE bash_command_is_guarded_workspace_segment(c)

AllowedOp == IF mode = "readonly" THEN {"&&", ";", "|"} ELSE {"&&", ";"}

\* The line is not for this chain: the other one is tried, then neither is.
Decline ==
    /\ mode' = IF mode = "readonly" THEN "workspace" ELSE "declined"
    /\ pc' = IF mode = "readonly" THEN "scan" ELSE "declined"
    /\ n' = 0
    /\ UNCHANGED <<line, top>> /\ UNCHANGED runVars

\* Slip: the room for the operator that follows is not checked again.
RoomForOperatorUnchecked(count) == TRUE

\* After a command has been counted, its operator needs a cell of its own.
RoomForOperator(count) == count < MaxCommands

\* One segment of bash_readonly_chain_validate or bash_workspace_chain_validate.
ScanSegment ==
    LET c == line.seg[n + 1]
        atEnd == n + 1 = Len(line.seg)
        ok == /\ ~line.long /\ c.name # "" /\ n < MaxCommands /\ Eligible(c)
              /\ atEnd \/ (line.op[n + 1] \in AllowedOp /\ RoomForOperator(n + 1))
    IN /\ pc = "scan"
       /\ IF ok
          THEN /\ n' = n + 1
               /\ top' = IF atEnd THEN top ELSE n + 1
               /\ pc' = IF atEnd THEN "fork" ELSE "scan"
               /\ UNCHANGED <<line, mode>> /\ UNCHANGED runVars
          ELSE Decline

\* The fork of the chain child, in the directory of the workspace.
ForkChain ==
    /\ pc = "fork"
    /\ \/ Decline
       \/ pc' = "loop" /\ UNCHANGED scanVars /\ UNCHANGED runVars

-----------------------------------------------------------------------------
(* The evaluator in the chain child.                                        *)

\* Command k is executed in directory dir; input is the pipe it reads, 0 for none.
Executed(k, dir, input) == [cmd |-> k, cwd |-> dir, input |-> input]
Executes(k, dir, input) == ran' = ran \cup {Executed(k, dir, input)}

CdCode(ok) == IF ok THEN 0 ELSE 1

\* A read-only chain of one command is executed by the child itself.
ExecDirect ==
    /\ pc = "loop" /\ mode = "readonly" /\ n = 1
    /\ Executes(1, cwd, 0)
    /\ \E r \in {0, 1} :
         /\ code' = [code EXCEPT ![1] = r]
         /\ rc' = r
    /\ pc' = "exited"
    /\ UNCHANGED scanVars /\ UNCHANGED <<i, to, s, cwd, proc, held, cut>>

\* Slip: a failed command ends the line, whatever the operator is.
SkippedOnFailure(k) == k > 1 /\ rc # 0

\* A command after `&&' is skipped when the last one failed; a command after
\* `|' is not looked at again.
Skipped(k) == k > 1 /\ line.op[k - 1] = "&&" /\ rc # 0

PipeEnd(k) ==
    CHOOSE e \in k .. n :
        /\ \A j \in k .. e - 1 : line.op[j] = "|"
        /\ e = n \/ line.op[e] # "|"

InChain == pc = "loop" /\ i <= n /\ ~(mode = "readonly" /\ n = 1)

SkipCommand ==
    /\ InChain /\ Skipped(i)
    /\ i' = i + 1
    /\ UNCHANGED scanVars /\ UNCHANGED <<pc, to, s, rc, cwd, proc, code, held, ran, cut>>

bash_exec_readonly_cd ==
    /\ InChain /\ ~Skipped(i) /\ PipeEnd(i) = i
    /\ line.seg[i].name = "cd"
    /\ \E ok \in BOOLEAN :
         /\ rc' = CdCode(ok)
         /\ code' = [code EXCEPT ![i] = IF ok THEN 0 ELSE 1]
         /\ cwd' = IF ok THEN Append(cwd, i) ELSE cwd
    /\ Executes(i, cwd, 0)
    /\ i' = i + 1
    /\ UNCHANGED scanVars /\ UNCHANGED <<pc, to, s, proc, held, cut>>

\* A pipeline begins, or a command of its own, which is a pipeline of one
\* stage but for the directory it runs in.
BeginPipeline ==
    /\ InChain /\ ~Skipped(i)
    /\ PipeEnd(i) > i \/ line.seg[i].name # "cd"
    /\ to' = PipeEnd(i) /\ s' = i /\ pc' = "pipeline"
    /\ UNCHANGED scanVars /\ UNCHANGED <<i, rc, cwd, proc, code, held, ran, cut>>

\* Slip: the chain keeps the writing end of the pipe it has made.
KeptEndsBoth(k) == IF k < to THEN {<<"r", k>>, <<"w", k>>} ELSE {}

\* The ends of its new pipe the chain holds once stage k has been forked.
KeptEnds(k) == IF k < to THEN {<<"r", k>>} ELSE {}

ForkStage ==
    /\ pc = "pipeline"
    /\ line.seg[s].name # "cd"
    /\ proc' = [proc EXCEPT ![s] = "forked"]
    /\ held' = [held EXCEPT ![s] = held[0] \cup (IF s < to THEN {"r", "w"} \X {s} ELSE {}),
                            ![0] = (@ \ {<<"r", s - 1>>}) \cup KeptEnds(s)]
    /\ pc' = IF s = to THEN "wait" ELSE "pipeline"
    /\ s' = IF s = to THEN i ELSE s + 1
    /\ UNCHANGED scanVars /\ UNCHANGED <<i, to, rc, cwd, code, ran, cut>>

\* The ends left open when the pipeline is given up.
CutEnds(ends) == {}

\* No pipe, no fork, or a cd among the stages: the pipeline fails with 127,
\* and nobody waits for the stages that were started.
CutPipeline ==
    /\ pc = "pipeline"
    /\ held' = [held EXCEPT ![0] = CutEnds(@)]
    /\ rc' = 127 /\ cut' = cut \cup i .. to
    /\ i' = to + 1 /\ pc' = "loop"
    /\ UNCHANGED scanVars /\ UNCHANGED <<to, s, cwd, proc, code, ran>>

\* Slip: only the first stage is waited for.
WaitNextNone(k) == to + 1

WaitNext(k) == k + 1

\* One turn of the waitpid loop: the code of the last stage is the pipeline's.
WaitStage ==
    /\ pc = "wait"
    /\ IF s > to
       THEN /\ pc' = "loop" /\ i' = to + 1
            /\ UNCHANGED <<s, rc, proc>>
       ELSE /\ proc[s] = "exited"
            /\ proc' = [proc EXCEPT ![s] = "reaped"]
            /\ rc' = code[s] /\ s' = WaitNext(s)
            /\ UNCHANGED <<pc, i>>
    /\ UNCHANGED scanVars /\ UNCHANGED <<to, cwd, code, held, ran, cut>>

ExitChain ==
    /\ pc = "loop" /\ i > n
    /\ pc' = "exited"
    /\ held' = [held EXCEPT ![0] = {}]
    /\ UNCHANGED scanVars /\ UNCHANGED <<i, to, s, rc, cwd, proc, code, ran, cut>>

-----------------------------------------------------------------------------
(* The commands.                                                            *)

\* Between fork and exec a stage drops the reading end of the pipe it writes.
ExecEnds(k, ends) == ends \ {<<"r", k>>}

\* A stage of a pipeline goes to the workspace, a command of its own stays.
StageCwd(k) == IF held[k] # {} THEN <<>> ELSE cwd

ExecStage(k) ==
    /\ proc[k] = "forked"
    /\ proc' = [proc EXCEPT ![k] = "running"]
    /\ held' = [held EXCEPT ![k] = ExecEnds(k, @)]
    /\ Executes(k, StageCwd(k), IF <<"r", k - 1>> \in held[k] THEN k - 1 ELSE 0)
    /\ UNCHANGED scanVars /\ UNCHANGED <<pc, i, to, s, rc, cwd, code, cut>>

EndCommand(k) ==
    /\ proc[k] = "running"
    /\ proc' = [proc EXCEPT ![k] = "exited"]
    /\ held' = [held EXCEPT ![k] = {}]
    /\ \E r \in {0, 1} : code' = [code EXCEPT ![k] = r]
    /\ UNCHANGED scanVars /\ UNCHANGED <<pc, i, to, s, rc, cwd, ran, cut>>

\* A command that reads its pipe to the end has met it: nobody can write.
AtEof(k) == <<"r", k - 1>> \in held[k] =>
                \A p \in DOMAIN held : <<"w", k - 1>> \notin held[p]

\* Nor does a full pipe hold it up: somebody reads, or nobody can.
CanWrite(k) == <<"w", k>> \in held[k] =>
    \/ \E p \in Cmd : proc[p] \in {"forked", "running"} /\ p # k /\ <<"r", k>> \in held[p]
    \/ \A p \in DOMAIN held : <<"r", k>> \notin held[p]

Chain ==
    \/ ScanSegment \/ ForkChain \/ ExecDirect \/ SkipCommand \/ bash_exec_readonly_cd
    \/ BeginPipeline \/ ForkStage \/ CutPipeline \/ WaitStage \/ ExitChain

Stopped == pc \in {"exited", "declined"} /\ \A k \in Cmd : proc[k] \notin {"forked", "running"}

Next ==
    \/ Chain
    \/ \E k \in Cmd : ExecStage(k) \/ EndCommand(k)
    \/ Stopped /\ UNCHANGED vars

(* The chain runs on; a command ends once it has nothing more to read and   *)
(* nothing keeps it from writing.                                           *)
Spec ==
    /\ Init /\ [][Next]_vars
    /\ WF_vars(Chain)
    /\ \A k \in 1 .. MaxCommands :
         /\ WF_vars(k \in Cmd /\ ExecStage(k))
         /\ WF_vars(k \in Cmd /\ AtEof(k) /\ CanWrite(k) /\ EndCommand(k))

-----------------------------------------------------------------------------
(* What a shell does with the line.                                         *)

\* The first stage of the pipeline that command k of line l is in.
PipeHead(l, k) ==
    CHOOSE h \in 1 .. k :
        /\ \A j \in h .. k - 1 : l.op[j] = "|"
        /\ h = 1 \/ l.op[h - 1] # "|"

\* After the pipeline that ends with command k, when the commands end with
\* the codes c and `after' tells the same of the pipelines before: the
\* commands executed, the code of the last, and the directory, which a cd of
\* its own moves.
ShellAt(l, c, after, k) ==
    LET h == PipeHead(l, k)
        before == after[h - 1]
    IN IF k = 0 THEN [ran |-> {}, rc |-> 0, cwd |-> <<>>]
       ELSE IF h > 1 /\ l.op[h - 1] = "&&" /\ before.rc # 0 THEN before
       ELSE [ran |-> before.ran \cup
                       {Executed(j, before.cwd, IF j > h THEN j - 1 ELSE 0) : j \in h .. k},
             rc |-> c[k],
             cwd |-> IF h = k /\ l.seg[k].name = "cd" /\ c[k] = 0
                     THEN Append(before.cwd, k) ELSE before.cwd]

Shell(l, c) ==
    LET after[k \in 0 .. Len(l.seg)] == ShellAt(l, c, after, k) IN after

\* The pipelines the evaluator treats as a shell does are those that are not
\* skipped, and that start where the chain started.
PlainUpTo(l, c, m) ==
    \A h \in 1 .. m : h < Len(l.seg) /\ PipeHead(l, h) = h /\ l.op[h] = "|" =>
        /\ h > 1 /\ l.op[h - 1] = "&&" => Shell(l, c)[h - 1].rc = 0
        /\ Shell(l, c)[h - 1].cwd = <<>>
PlainPipelines == PlainUpTo(line, code, Len(line.seg))

-----------------------------------------------------------------------------
(* Properties.                                                              *)

\* A line the chain has run to the end did what a shell would have done: the
\* same commands, each in the same directory and behind the same pipe, with
\* the same code; for plain pipelines, when every process could be started.
ChainIsShell ==
    pc = "exited" /\ cut = {} /\ PlainPipelines =>
        ran = Shell(line, code)[n].ran /\ rc = Shell(line, code)[n].rc

\* The commands of a line follow one another: whatever has been started and
\* not been waited for belongs to the pipeline the chain is at, or to one
\* that was given up half-started; and the chain does not exit before.
Sequential ==
    \A k \in Cmd : proc[k] \in {"forked", "running", "exited"} =>
        k \in cut \/ (pc \in {"pipeline", "wait"} /\ k \in i .. to)

\* A line that is run has been accepted as a whole: no command is executed
\* of a line with an empty segment, an operator or a command that the chain
\* does not take; and the arrays of the scan are never written past their end.
AcceptedWhole ==
    /\ top < MaxCommands
    /\ ran # {} =>
         /\ n = Len(line.seg) /\ n <= MaxCommands
         /\ \A k \in Cmd : line.seg[k].name # "" /\ Eligible(line.seg[k])
         /\ \A k \in DOMAIN line.op : line.op[k] \in AllowedOp

\* Every line is declined or run to its end, and no stage outlives it for
\* ever, waited for or not: none waits for the end of its input, or for a
\* reader, because the chain or a sibling holds the other end of the pipe.
ChainEnds == <>[]Stopped

-----------------------------------------------------------------------------
(* What the proofs rest on.                                                 *)

Mode == {"readonly", "workspace", "declined"}
Where == {"scan", "fork", "loop", "pipeline", "wait", "exited", "declined"}

(* The variables keep their types.                                          *)
TypeOK ==
    /\ line \in Lines /\ mode \in Mode /\ pc \in Where
    /\ n \in Nat /\ top \in Nat
    /\ i \in Nat \ {0} /\ to \in Nat /\ s \in Nat
    /\ rc \in {0, 1, 127} /\ cwd \in Seq(Cmd)
    /\ proc \in [Cmd -> {"none", "forked", "running", "exited", "reaped"}]
    /\ code \in [Cmd -> {0, 1}]
    /\ DOMAIN held = {0} \cup Cmd
    /\ ran \subseteq [cmd: Cmd, cwd: Seq(Cmd), input: Nat]
    /\ cut \subseteq Cmd

(* The commands counted so far are the ones that this chain takes, and      *)
(* nothing has run before all of them have been counted.                    *)
ScanInv ==
    /\ n <= MaxCommands /\ top < MaxCommands
    /\ pc = "scan" => n < Len(line.seg)
    /\ pc \notin {"scan", "declined"} => n = Len(line.seg)
    /\ \A k \in 1 .. n :
         /\ line.seg[k].name # "" /\ Eligible(line.seg[k])
         /\ k < Len(line.seg) => line.op[k] \in AllowedOp
    /\ pc \in {"scan", "fork", "declined"} => ran = {}
    /\ pc \in {"scan", "fork"} => i = 1 /\ rc = 0 /\ cwd = <<>>

(* The pipeline at hand is a pipeline of the line, and the stages that have *)
(* been waited for are its first ones.                                      *)
WaitInv ==
    /\ pc \in {"loop", "pipeline", "wait"} => i <= n + 1
    /\ pc = "loop" /\ mode = "readonly" /\ n = 1 => i = 1
    /\ pc \in {"pipeline", "wait"} =>
         /\ to \in i .. n
         /\ \A j \in i .. to - 1 : line.op[j] = "|"
         /\ to = n \/ line.op[to] # "|"
         /\ to = i => line.seg[i].name # "cd"
         /\ ~(mode = "readonly" /\ n = 1)
    /\ pc = "pipeline" => s \in i .. to
    /\ pc = "wait" => /\ s \in i .. to + 1
                      /\ \A k \in i .. s - 1 : proc[k] = "reaped"
                      /\ s > i => rc = code[s - 1]

(* The chain holds the reading end of the last pipe it made and nothing     *)
(* else; a stage starts with the two pipes it stands between.               *)
EndsInv ==
    /\ held[0] = IF pc = "pipeline" /\ s > i THEN {<<"r", s - 1>>} ELSE {}
    /\ pc \in {"pipeline", "wait"} => \A k \in i .. to :
         proc[k] = "forked" =>
             held[k] = (IF k > i THEN {<<"r", k - 1>>} ELSE {})
                       \cup (IF k < to THEN {"r", "w"} \X {k} ELSE {})

(* The commands behind the evaluator have not been started.                 *)
ForkInv ==
    /\ pc \in {"scan", "fork", "declined"} => \A k \in Cmd : proc[k] = "none"
    /\ pc = "loop" => \A k \in Cmd : k >= i => proc[k] = "none"
    /\ pc \in {"pipeline", "wait"} => \A k \in Cmd : k > to => proc[k] = "none"
    /\ pc = "pipeline" => \A k \in s .. to : proc[k] = "none"

(* Up to the pipeline at hand the chain has done what a shell does, and of  *)
(* that pipeline it has done what has been started.                         *)
ShellInv ==
    LET done == Shell(line, code)[i - 1]
    IN /\ cut = {} /\ pc = "loop" /\ PlainUpTo(line, code, i - 1) =>
            /\ i = 1 \/ i = n + 1 \/ line.op[i - 1] # "|"
            /\ ran = done.ran /\ rc = done.rc /\ cwd = done.cwd
       /\ cut = {} /\ pc \in {"pipeline", "wait"} /\ PlainUpTo(line, code, i) =>
            /\ i = 1 \/ line.op[i - 1] # "|"
            /\ i > 1 /\ line.op[i - 1] = "&&" => done.rc = 0
            /\ cwd = done.cwd
            /\ ran = done.ran \cup
                       {Executed(j, done.cwd, IF j > i THEN j - 1 ELSE 0) :
                           j \in {k \in i .. to : proc[k] \in {"running", "exited", "reaped"}}}

(* The inductive invariant.                                                 *)
ChainInv ==
    /\ TypeOK /\ ScanInv /\ WaitInv /\ EndsInv /\ ForkInv
    /\ Sequential /\ ShellInv /\ ChainIsShell
=============================================================================
