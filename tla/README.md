# Verification of aimee-module-tools

TLA+ models of the `tools` module of aimee: the shared-memory bus its Go process
is served over and how a process attaches to it, both ends of a call over it, and the
C code that dispatches and executes the tool calls of agents. Each module is translated from the source;
TLC checks small instances, and TLAPS proves the main results about the ring, the
attach, both ends of a call, the dispatcher, edits, the guarded chain and the shell tool for
every value of their constants. `PROJECT.json` maps every definition to the
lines it models. Paths below are relative to the repository.

## 1. The system

| Part | State | Operations | Interacts with |
|---|---|---|---|
| Bus ring (`server-go/bus/ring.go`) | head, tail, slots in shared memory | ProduceBegin/Commit, ConsumeBegin/Commit | the host at the other end, in another process |
| Bus client (`client.go`, `client_connect.go`, `region.go`) | mappings, `pendingRead`, the epoch at attach, heartbeat | attach, emit (Request, Reply, Cancel, Publish), Poll, Detach | rings; the host's control region |
| Wire and module protocol (`wire.go`, `module_protocol.go`) | none | encode, decode, validate, deadline test | client, runtime, caller |
| Module runtime (`module_runtime.go`) | assemblies, jobs, the `done` channel, the reply being sent | the serving loop, handler goroutines, shutdown | Poll and Reply of one client; the handlers |
| Module caller (`module_caller.go`) | next correlation, the body collected | Call, send, awaitReply | the runtime, through the host |
| Classification stage (`server-go/modules/tools`, `module_adapter.c`) | none | classify a tool name | dispatcher, through the bus |
| Dispatcher (`agent_tools_dispatch.c`, `agent_tools_completion.c`) | thread-local outcome carriers, registered hooks | dispatch_tool_call_ctx and one `td_*` handler per tool | guardrail, policy, DB1, classifier, audit hook |
| Anchored edits (`agent_tools_anchored.c`, parts of the other two) | the workspace file, the snapshots | read, write, edit, edit by anchor, by symbol, grep | the workspace provider, other agents |
| Guarded chain (`guarded_readonly_exec` in `agent_tools.c`) | the commands of a line, a forked child that evaluates them, its pipes | scan, check, fork, wait | the shell tool; the stages of a pipeline |
| Shell tool (`tool_bash` in `agent_tools.c`) | pipes, buffers, the child | launch, capture loop, stop, reap | the command, its descendants, the clock, the delegate's cancellation |
| Read-only tools, notes, search, output cap | none | format what one command or store returns | dispatcher |

What is hard here, and what makes each part correct:

* **Ring.** Two processes, free-running 64-bit indices, slots written in several
  steps. Correct: a FIFO queue in which nobody sees a slot that another writes.
* **Serving loop.** One goroutine against as many handlers as are in flight, with
  cancels, deadlines, fragments, a full ring, a restarted host and shutdown in any
  order. Correct: exactly one final reply for everything that is owed one, no
  goroutine left blocked, limits kept, and an end to shutdown.
* **Attach.** Descriptors and mappings acquired one by one with a dozen error returns, a
  heartbeat goroutine nobody waits for, a host that may restart in the middle. Correct:
  everything is given back once, a restart is noticed, a live client is not reaped, the
  context ends it all.
* **Caller.** A call is abandoned at its deadline while its request, its cancel and its
  answer are still under way in two rings. Correct: what a call returns is the whole
  answer to that call, and what it leaves behind in the module is
  accounted for.
* **Dispatcher.** A long list of gates with early returns, and outcome carriers
  that outlive a call. Correct: the audit record tells the truth about its own
  call; a refused call has no effect; writes are guarded, given to the rewind store and
  recorded; what the guardrail rewrites is what runs.
* **Edits.** Agents act on views that grow old, of a file others write. Correct: an
  edit replaces what its agent was shown and nothing else, as far as C strings reach.
* **Guarded chain.** The code is its own little shell. Correct: it does what a shell would
  do with the line, one pipeline after the other, without keeping a pipe open.
* **Shell.** A command may do anything with its outputs and descendants. Correct:
  complete output up to the cap, bounded time, nothing of the group left running, and a
  success that is the command's own; under calls on the system whose failure is not looked at.

The complete list of such hazards, each at its line with the property that covers
it, is in `PROJECT.json`.

## 2. The modules

| Module | Models |
|---|---|
| `Fifo` | abstract queue: send, look at the first message, release it |
| `BusRing` | `emit` and `Poll` over a `Ring`, one action per shared-memory access |
| `BusRingProofs` | the theorems about it |
| `ModuleRuntime` | `runModuleClient`, `replyModuleResult`, `finishModuleWork`, `runHandler` |
| `ModuleRuntimeProofs` | the theorems about it |
| `RemoteCall` | abstract synchronous call: run at most once, return the whole answer or an error |
| `ModuleCall` | `Call`, `send`, `awaitReply`, composed with two rings, the host and the serving side |
| `ModuleCallProofs` | the theorems about it |
| `BusAttach` | `connectModule`, `RunModuleProcess`, `ConnectClient`, `keepAlive`, `AttachAs`, `Detach` |
| `BusAttachProofs` | the theorems about it |
| `ToolDispatch` | `dispatch_tool_call_ctx` and its inner half, the `td_*` handlers by kind |
| `ToolDispatchProofs` | the theorems about it |
| `AnchoredEdit` | the tools that read and write one file, run by several agents |
| `AnchoredEditProofs` | the theorems about it |
| `GuardedChain` | the scan of a guarded command line and the child that evaluates it |
| `GuardedChainProofs` | the theorems about it |
| `ToolBash` | one call of `tool_bash` against any command |
| `ToolBashProofs` | the theorems about it |
| `MC*` | the constants and symmetry sets of the runs |

Definitions whose comment begins with `Slip:` are deliberate mistakes:
each is what a plausible bug would turn the definition below it into, and each is
used to show that some property notices.

**BusRing.** `head`, `tail` and `slots` are the shared words; the producer's and the
consumer's program counters split `emit` and `Poll` where the other side can act.
Indices run modulo `IndexMod`, a multiple of the capacity, in place of 2^64, so that
the wrap happens in every run. A slot that is being written holds `Torn`. `Init`
is every occupancy that `AttachRing` accepts. Go's `atomic` operations are
sequentially consistent, so interleaving is the memory model. The mapping to
`Fifo`: the queue is the committed slots, the view is the slot that Poll handed
out and has not released.

**ModuleRuntime.** `pc` is the place in the serving loop; `asm`, `job`, `due`,
`flag`, `done` are its maps, the cancel flags and the channel; `now` is the clock
reading the loop took before `Poll`, which may be old when it is used; `rep` is the
reply being fragmented. `owed` counts what must still be answered and `late`
marks requests started past their deadline: both are history variables that no guard
reads. A body is its length, a request's identity a header value.
The host drains the ring when it likes or never. From the moment shutdown begins results
are dropped and replies are owed to nobody.

**ModuleCall.** `pc`, `correlation`, `offset` are the caller's; `outbound` and `inbound`
are the client's two rings; `asm`, `job`, `flag` the serving side, as in `ModuleRuntime`
but for the requests of this caller only, other clients taking up assembly slots.
A unit of a body names the call it belongs to, so that mixing two calls shows even where
correlations agree. `note` is history. The host forwards in order, refuses, restarts and
delivers strays. The mapping to `RemoteCall` counts calls, runs and answers. The test for a
short frame in `awaitReply` is kept as written, though `module_protocol.go:91` has refused such
a frame before. Requests of 4 GiB and more, whose length the test at `module_caller.go:101`
takes modulo 2^32, are left out.

**BusAttach.** `open` counts each descriptor and mapping, so a leak is a 1 too many and a
double release a -1. `pc` has one place per system call that can fail. `beater` is the
keepAlive goroutine, split between its look at the context and its write. A write after
`Detach` is possible in the model as in the code, where it is a store into memory that is no
longer mapped (`client.go:183`, `region.go:122`); what it does to the process is left out. The host's
listening socket, answer, epoch and reaper are external.

**ToolDispatch.** One call at a time per thread; every seam outside the repository
(cancellation, permission, role, git gate, guardrail, write guards, services, classifier, tool
result) answers freely. The check for a stopped job is one of them: it says no when a symbol
is not linked in or the lookup fails (`agent_tools_dispatch.c:173-187`), so it tells nothing of
the job. An argument field is absent, as asked, or rewritten. `did` is the
history of the call's effects against which the audit record is judged; what the
database is asked to keep may be kept or lost, since the results of
`auto_snapshot_record` and `db1_session_write_path_record` are ignored. Each `td_*`
handler, or group of handlers that differ in wording only, is an action with its missing
parameters, guards, outages and results, those failures included that are told without
`error:` and the answers that cannot be serialised; the stderr of a command is its own and may
begin `refused:`. Names with a namespace are `remote`. Carriers
are thread-local and nothing else is shared, so one thread is the general case.

**AnchoredEdit.** A file is a function from lines to values, to a NUL, or to nothing past its
end. An agent has a view (what it was shown, and the snapshot it may cite) and at most one
call under way. Each call is split at its reads and writes of the file, since nothing is
locked between them. `Commit` writes back a C string: what follows the first NUL of the new
text is lost (`agent_tools.c:1355`), and `tool_edit_file` does not look past one either.
Snapshots may be evicted at any time, as the store is bounded.
`raced` and `current` are history variables.

**GuardedChain.** A line is a sequence of segments, of which only what the checks read is
kept, and the operators between them. `proc` is the state of each forked command, `held`
the pipe ends each process has open, `cut` the stages of a pipeline given up half-way.
`Shell` is the reference: a recursive function over the commands that says which run, in
which directory, behind which pipe, and with which code.

**ToolBash.** The command and one descendant of it, in the process group or
outside, write, close their outputs and exit freely. Output is its length and how much of it
comes before the first NUL, where the result ends. Reads, `select` and the three unchecked
`waitpid`s may fail (`WaitFails`: the status then still has the 0 it was given). The buffers
are allocated at the cap, so the branches that would let them grow (`agent_tools.c:1056`,
`1078`) are never taken and there is nothing in the model for a failed `realloc`.
The clock counts from the moment the deadline is set.

## 3. The runs

| Run | Instance | Checks |
|---|---|---|
| `ring` | capacity 2, indices mod 6; a good pair of messages, one too large, one invalid, one that does not decode | no shared slot, refinement of `Fifo` (nothing lost, repeated, reordered or torn), a committed message is released |
| `runtime` | 2 correlations, 1 in flight, ring of 1, replies of up to two fragments, one tick | result channel never blocks, no assembly behind a job, reply accounting, late starts, cancels, shutdown ends, everything owed is answered |
| `call` | 2 calls of no or two fragments, answers of two or three, rings of 1, one assembly | refinement of `RemoteCall`, whole requests, cancels and halves accounted for, the call returns |
| `attach` | a module and a caller, one restart | released once, restart noticed, not reaped, everything ends with the context |
| `dispatch` | 1 thread, any call of: every kind of tool, each alias, the forms of an edit, missing parameters | what ok and refused mean, write tracking, the mode, what the guardrail sees and rewrites, every call audited once and in order |
| `edits` | an agent and a writer outside, 2 lines, 2 values and NUL | surgical commit, local edits, a view is good for a retry |
| `chain` | every line of up to 4 commands over a small vocabulary, arrays of 4 | the chain is a shell, pipelines follow one another, all or nothing, it ends and so do its stages |
| `bash` | cap 1, up to 2 bytes a stream, pipes of 2 | complete output, pipes drained past the cap, nothing left behind, success is real, it returns |

Bounds. Two slots and six index values give an empty, a partly filled and a full
ring at every position of the wrap. Two correlations against one place give
contention for the job, the assembly and the result with one left over; a ring of one place
makes every fragment wait for the last. (The safety properties of larger instances are the
theorems' affair.) One tick is enough to be before and after a
deadline. Two calls are what a late reply needs to be mistaken; an answer above the
response limit and one below it end a call differently; one assembly slot is taken by
another client or by a half. Four commands give `a && b | c ; d` and every other mix of
the three operators around a pipeline of two or three stages, and one command more than
the arrays hold. Two lines, one cited and one not, are what the edit
properties tell apart; the other agents matter to an edit only by what they write, which the
writer outside does too, at any time and with any text. A cap of one byte with two written has bytes both kept and
dropped. `CHECK_DEADLOCK FALSE` stands where the system really stops: when the
serving loop has returned, when a client has gone, when the last call has returned and
when `tool_bash` has.

Four runs end in a violation. Each states what a comment says and shows that the code
does otherwise; `PROJECT.json` quotes the lines.

| Run | What the code does |
|---|---|
| `partial_request` | a first fragment refused for lack of an assembly slot is forgotten, and the last one alone is run as a whole request |
| `rewrite_two_fields` | the guardrail's rewrite of a script that also has a `command` goes to the field that is not run |
| `failure_marks` | a `grep` that could not run answers "no matches found" and is audited as ok, though every tool that is no exec tool is said to mark its failures with `error:` |
| `edit_race` | a write between the read and the write-back of an anchored edit is lost |

Other disagreements and surprises met while modelling, each visible in the module named:

* `ToolDispatch`: with the classifier down a command that failed is audited as ok, which is
  what the comment at `agent_tools_dispatch.c:101-103` says must not be; other handlers tell
  of failures in words of their own, and an answer that cannot be serialised passes for a
  success (`Unmarked` and `Hidden` list them all; `OkMeansSucceeded` says that nothing else
  is audited wrongly). A command that ran and whose stderr begins `refused:` is
  audited as refused (`:123`): `RefusedHasNoEffect` names that one exception. `edit_symbol` lacks
  the session-isolation guard it is said to mirror (`:1120`) and finds its file in the code
  index, after the guardrail; the guardrail's input is made
  from the arguments before aliases are resolved, so the five mapped tools show it nothing
  of a path or command given under an alias (`BlindSpot` is the two together, and
  `GuardrailSeesTarget` says there is no third). `verify` acts on `target`, which no rewrite of
  a path reaches. A write answered by `error: out of memory` (`agent_tools.c:1385`) has
  happened and is not recorded. The reason
  `permission` (`:2104`) is not in the list of `agent_tools.h:225-226`, so the model's
  `Reason` is wider than that list; a command killed
  at its deadline is audited as `error`, since no tool answers `error: timeout`.
* `ToolBash`: a `waitpid` that fails for a command that was not stopped is reported as exit
  code 0, and the command may be left unreaped (`agent_tools.c:1117-1120`); the first pipe
  leaks when the second cannot be made (`:806-808`). The properties name these cases.
* `AnchoredEdit`: a row of an anchored grep may show one text under the anchor of another
  (`agent_tools_anchored.c:424`); an edit of a file with a NUL byte loses what follows it
  (`Lost`); candidate rows of `read_symbol` carry tags of no snapshot.
* `ModuleCall`: the expiry is looked at only when the inbound ring is empty; a cancel that
  finds the ring full is dropped; each request that `send` gives up between two fragments
  holds an assembly slot of the module until it ends.
* `BusAttach`: `Detach` does not wait for the keepAlive goroutine, which may still write a
  heartbeat, into unmapped memory; `Recvmsg` looks neither at the context nor at a deadline.
* `GuardedChain`: after a failed `&&` only the first stage of a pipeline is skipped;
  pipelines run in the workspace whatever `cd` came before; a `cd` or a failed fork inside
  a pipeline returns 127 without a wait for the stages already running (`ChainIsShell` is
  about the plain pipelines, and lines whose processes could all be started).

Fairness.

* `ring`: the consumer polls for ever, which both users of Poll do, and an emit that
  has begun runs to its end. Nobody must begin one.
* `runtime`: the loop and each handler goroutine keep running (handlers are
  required to do bounded work between looks at `Cancelled`). The `select` between
  context and timer is strongly fair to the context: Go picks among ready cases at
  random. Nothing is assumed of host, clock or context; `AcceptedIsAnswered` alone
  supposes, inside the formula, that the host goes on draining the ring.
* `call`: the caller's goroutine goes on and the clock passes a deadline that was set.
  Nothing is assumed of host and module; `CallReturns` supposes, inside the formula, that
  the host does not deliver strays for ever.
* `attach`: the attaching goroutine, the serving loop and the heartbeat goroutine go on, and
  a `select` that is offered the end of the context again and again takes it (Go chooses at
  random). `ContextEndsAll` supposes, inside the formula, that a host which accepted a
  connection answers or goes away.
* `chain`: the chain goes on; a forked stage executes its program; a command whose input
  has ended and whose output has room or no reader ends. A command that does neither is
  the command's own affair.
* `dispatch`: a thread in a dispatch goes on; the seams and tools return.
* `bash`: `tool_bash` goes on and time passes. Nothing is assumed of the command, so
  `BashReturns` names the one place where the call can wait for good: the `waitpid`
  for a command that closed both outputs and still runs.

## 4. What is proved

`ModuleRuntimeProofs`, for every set of correlations and every positive limit on
jobs, body, ring and clock (the assumptions named in `ModuleRuntime`):

| Theorem | Establishes |
|---|---|
| `InductiveInvariant` | `Spec => []IInv` |
| `TypeCorrect` | types, including every bound on bodies, assemblies and channel |
| `SendNeverBlocks` | a finished handler can always hand over its result |
| `AssemblyExcludesJob` | no correlation is assembled and running at once |
| `EveryRequestAccounted` | exactly one final reply for each thing owed |
| `LateStart` | a request started after its deadline is not answered with a result |
| `CancelIsHonoured` | a cancel of a running job is never lost |

The argument. That the channel has room is not inductive alone: it needs that the
channel holds only queued jobs and each of them once (`Channel`), so that its length
is at most the number of jobs not still being returned, and that jobs never exceed
`moduleMaxInFlight` (`JobBound`). A job about to be sent is one of them and not in the
channel, so there is a free place. `ReplyAccounting` needs to know in which loop
states a reply is under way (`Replying`) and what a return of the loop leaves
(`Exited`); `LateStartNeverOk` needs that the clock of a late job stays past
its deadline (`LateIsDue`), so that `Outcome`'s second look at the deadline overrules
the result. `IInv` is the conjunction of these with the properties. The step proof
has one lemma per group of actions, by the part of the state they touch.

`AnchoredEditProofs`, for any number of lines and any sets of agents and values, of which `None`,
the NUL and the end of the file are no members:

| Theorem | Establishes |
|---|---|
| `EditInvariant` | `Spec => []EditInv` |
| `EditTypeCorrect` | types; what an edit writes back, cut at a NUL, has no hole |
| `RetryWorks` | a view is good for a retry until somebody writes |
| `UnracedCommitIsSurgical` | an anchored edit nobody races replaces what was shown and leaves the rest alone, up to a NUL it leaves in place |
| `UnracedEditStaysLocal` | the same locality for edits by string and by symbol |

The argument. An edit is judged when it writes back, several steps after it looked at
the snapshot, which may be evicted in between. `EditInv` carries what it found across:
while nobody has raced it the bytes it read are the file's (`UnracedBase`), the lines it
cites are those of its agent's view (`CitedAsShown`, from the verification against the
snapshot and from `SnapshotOfText`), and what it writes is a value, over lines that are there
(`WorkHasValue`).
The proof has one lemma per tool, over four that they share: a call begins, a call ends,
a text is shown, a write lands. `edit_race` shows why the condition that nobody races
cannot be dropped.

`BusRingProofs`, for every capacity of at least two and every index width that is a
multiple of it (in the code, powers of two and 2^64):

| Theorem | Establishes |
|---|---|
| `RingInvariant`, `RingTypeCorrect` | `Spec => []RingInv`; head and tail stay within their width |
| `SlotsAreExclusive` | the producer never fills the slot the consumer reads |
| `RingIsFifo` | `Spec => RefinesFifo`: every step is a step of the queue or changes nothing of it |

The argument. Each end acts on a comparison it made several steps ago. `RingInv` says that
what it found still holds, since the other end can only add to it: a producer past
`ProduceBegin` still has room, a consumer past `ConsumeBegin` still has a slot. The
arithmetic is in lemmas of its own: the wrap does not move a slot (the width is a multiple
of the capacity), and two indices less than a capacity apart select different slots. So
writing at head disturbs no committed slot, a commit appends and a release takes the oldest.

`BusAttachProofs`, for either owner and any number of host restarts:

| Theorem | Establishes |
|---|---|
| `AttachInvariant`, `AttachTypeCorrect` | `Spec => []AttachInv` |
| `NothingLeaks` | every resource is given back exactly once on every path |
| `RestartIsNoticed` | a restart after the answer shows as a change of epoch |
| `IdleClientKept` | an attached client is not reaped while its context lasts |

The argument. `AttachInv` gives for each step the exact set of descriptors and mappings held
(`Holds`), which is what that step's error return releases; that the client's epoch is the
answer's; and that a caller's goroutine lives until the context ends, so that whoever is
scanned without a beat has lost its context, its host or its attachment.

`ToolBashProofs`, for every cap, pipe size, deadline and amount of output:

| Theorem | Establishes |
|---|---|
| `BashInvariant`, `BashTypeCorrect` | `Spec => []BashInv`; no buffer is filled past the cap |
| `OutputIsComplete` | all output of a command that was not stopped, of each stream that could be read, up to the cap and the first NUL |
| `PipesAreDrained` | every round takes something out of every pipe that has something |
| `BashLeavesNothing` | a stopped command is dead with its group; only a failed wait leaves a command unreaped; the pipes are closed |
| `BashSuccessIsReal` | success only for a command that exited with 0 by itself, or whose wait failed |

The argument. What has been read of a stream is what was written less what the pipe holds
(`Captured`); a stream whose reads succeed is closed only with an empty pipe and no writer left, and a writer
cannot come back, since a new process inherits only what its parent holds
(`EndedForGood`). So when both are closed everything that could be read has been.

`ModuleCallProofs`, for any number of calls, any lengths of requests, answers and
fragments and any positive capacities and limit on assemblies; `None` is neither a number nor
a body:

| Theorem | Establishes |
|---|---|
| `CallInvariant`, `CallTypeCorrect` | `Spec => []CallInv`; no call is run twice |
| `RequestsAreWhole` | a handler gets the whole body of one call, unless a fragment was refused |
| `LeftCallsAreCancelled` | the job of a call its caller has left is, or is about to be, cancelled, unless the ring was full |
| `HalvesAreAccounted` | half a request stays with the module only while the rest is under way or when `send` was cut off |
| `CallIsRemote` | `Spec => IsRemoteCall`: the refinement of `RemoteCall`, step by step |

The argument. None of these is inductive: what a handler gets was decided when `send` put the
first fragment on the ring, and what `Call` returns when the module cut its answer. `CallInv`
follows a body through all the places it can be in. On the outbound ring the frames of one call
are adjacent, each beginning where the one before it, or what the module has assembled, ends
(`JoinInv`, `LastInv`); one that announces more has the rest right behind it, or in `send`, or
`send` was cut off (`RestInv`); one that does not is its call's last (`OrderInv`). So a fragment
taken by the module extends an assembly of its own call or begins one (`AssemblyInv`). A cancel
is behind the frames of its call (`CancelInv`). On the way back an answer comes from a run and a
run from a call that was sent whole (`JobInv`); the results of the call at hand begin where the
body received so far ends, and the reply under way where they end (`ResultInv`, `ResultOrder`,
`ReplyInv`); late results of earlier calls carry other correlations. For the refinement, the
start of a call is `Invoke`, an error return `ReturnError`, the poll of the last result
`ReturnBody`, the start of the job `Run` and the handler's answer `GiveAnswer`; every other step,
of caller, host and module, leaves the mapped state as it is. `partial_request` shows why the
condition on refused fragments cannot be dropped.

`ToolDispatchProofs`, for any set of threads and any non-empty set of calls:

| Theorem | Establishes |
|---|---|
| `DispatchInvariant`, `TypeCorrect` | `Spec => []DispatchInv` |
| `OkIsSuccess` | a call audited as ok was let through and did not fail, but for the named ways in which a failure does not show |
| `RefusalIsClean` | a refused call has had no effect, unless it is a command whose own stderr begins `refused:` |
| `ModeIsOfTheCall` | no mode is inherited from an earlier call of the thread |
| `WritesAreTracked` | every write of `write_file` and `edit_file` was permitted and given to the rewind store first; one without an error is given to the stale-read tracker |
| `RewritesAreObeyed`, `GuardrailIsShown` | redirected calls do not act on what was asked; the tool's target was shown, but for the two blind spots |
| `HooksFireInOrder` | the events of a call fire as started, completed, audited, none twice, none left out |

The argument. The properties speak of the audit record, which is written after the handler has
gone, from the thread-local carriers and the text of the result. `DispatchInv` says for each
stage what carriers, arguments and effect can be: nothing but renamed aliases before the
guardrail (`Waiting`), the fields a redirected tool reads no longer as asked in the handler
(`Handling`), result and carriers that tell what was done on return (`Returned`), and that the
record keeps it (`Reported`, `Accounted`); `Hooked` ties the events fired to the stage. The step proof goes through the handlers one by one;
they share `ReturnStep`, for a verdict given before any handler has run, and
`AnswerStep`, for any answer whose result and effect agree (`Sound`); `CommonStep` has the
answers that many handlers can give. That the target was shown is `TargetIs`, once for all.

`GuardedChainProofs`, for lines of any length and every positive `MAX_COMMANDS`:

| Theorem | Establishes |
|---|---|
| `ChainInvariant` | `Spec => []ChainInv` |
| `RunsAsShell` | a chain of plain pipelines run to its end did what a shell does |
| `CommandsAreSequential` | no command outlives its pipeline, unless that was given up |
| `RunsAcceptedLines` | nothing runs of a line not accepted to its end; the arrays are not overrun |

The argument. `ShellInv` says that before each pipeline what has run, the directory and the code
are `Shell`'s at the command before it, and inside a pipeline what a shell has done of the stages
started so far. `WaitInv` ties the code to the last stage waited for, `EndsInv` the pipe ends to
the stages, so that a stage reads what the one before it writes. Two facts about the line need
induction: the end of a pipeline, and that `Shell` has a value at every command. The library's
induction theorems cannot be used (an operator is their parameter); the proofs take the
least counterexample instead (`Least`, from the well-foundedness of the naturals), and show that
a function with the equations of `Shell` exists (`ShellExists`) before they unfold it.

The type invariants are theorems, so the runs do not repeat them.

Only model-checked: liveness, since fairness is out of the prover's reach
(`CommittedIsConsumed`, `ShutdownEnds`, `AcceptedIsAnswered`, `EveryCallAudited`,
`BashReturns`, `CallReturns`, `ContextEndsAll`, `ChainEnds`), and the four runs that expect a
violation. (Of `EveryCallAudited` the order of the events, `HookOrder`, is proved.) Every invariant, action property and refinement of the other runs is stated by a
theorem.

## 5. Not modelled

* The host of the bus, DB1, the policy and sandbox services: outside the repository,
  present only as free answers.
* A heartbeat's store after `Detach`: reachable in `BusAttach`, its consequence is not.
* Byte layouts (`wire.go`, `module_protocol.go`, the offsets of `region.go`), JSON,
  formatting and messages. The codecs are pure and the repository tests their round trip.
* The table of the classification stage, in Go and in C: two constant lists of names. Of it
  the dispatcher's model has the executing tools.
* Which words the guarded chain accepts as a command, and the HTTP request of `verify`:
  string and socket handling without state of its own.
* The session state that is loaded and saved around the guardrail: what a lost update
  loses is decided in DB1, outside the repository.
* The output cap: three lines of arithmetic.
* Unsynchronised use of one client by two goroutines: the source forbids it.

## 6. Plan

Done, in this order: `Fifo`, `BusRing`; `ModuleRuntime` and its proofs;
`ToolDispatch`; `AnchoredEdit` and its proofs; `ToolBash`; `RemoteCall`, `ModuleCall`;
`BusAttach`; `GuardedChain`; the remaining handlers of the dispatcher; the proofs about
`BusRing`, `BusAttach` and `ToolBash`; the proofs about `GuardedChain`, `ToolDispatch` and
`ModuleCall` with its refinement of `RemoteCall`; then the failures that the C code does not look
at (waits, reads, captures, records, unmarked errors) and the limits of C strings, with the
properties and proofs restated around them.

Next: the safety half of the liveness properties, as action properties with theorems (what a
step of a loop that must end may never undo), and shorter proofs where a lemma can be shared.
