---------------------------- MODULE ToolDispatch ----------------------------
(***************************************************************************)
(* The tool-call dispatcher (src/modules/tools/agent_tools_dispatch.c).    *)
(*                                                                         *)
(* Every agent thread makes one call at a time: dispatch_tool_call_ctx     *)
(* fires "started", resets the thread's outcome carriers, runs             *)
(* dispatch_tool_call_ctx_inner (parse, cancellation, argument aliases,    *)
(* permission, role and git gates, the guardrail, the td_* handler), then  *)
(* fires "completed", classifies the result and emits one completion       *)
(* record to the audit hook.                                               *)
(*                                                                         *)
(* A field of the arguments is abstracted to whether it is there and       *)
(* whether the guardrail has rewritten it; a field that is not a string    *)
(* counts as absent.  A result is abstracted to what the wrapper reads of  *)
(* it.  The answers of the policy seams and of the tools are free.         *)
(***************************************************************************)
EXTENDS Integers, FiniteSets

CONSTANTS Thread,           \* agent threads
          Calls,            \* the calls the agents make
          None              \* an absent field; no audit record yet

Tool == {"bash", "execute_script", "run_tests", "read_file", "write_file",
         "edit_file", "edit_symbol", "list_files", "grep", "test", "verify",
         "git_show", "git_write", "mcp", "lookup", "search_docs",
         "tool_output_get", "note", "propose", "clarify", "diagnose", "process",
         "remote", "unknown"}

(* Handlers that differ only in wording share a name: `git_show' is the     *)
(* log, the diff and the status of a repository and `git_write' a change of *)
(* it, `mcp' is a handler of the MCP table, `lookup' asks an index, a       *)
(* memory, the rules, the web or the parent agent, `note' reads or adds to  *)
(* the notes of the knowledge service, `propose' proposes a rule or a       *)
(* learning signal to it, `clarify' keeps a clarification and `diagnose' a   *)
(* diagnosis in the database, `process' starts, kills or shows background   *)
(* processes, `remote' is a namespaced name.                                *)
Shell == {"bash", "execute_script"}
Runner == Shell \cup {"run_tests"}
Mutators == {"write_file", "edit_file", "edit_symbol"}

(* The tools the module classes as executing.                               *)
Exec == Runner \cup {"test"}

(* The aliases in table order are filepath, file_path and then `file' and   *)
(* its synonyms for path, and cmd for command.                              *)
Field == {"path", "filepath", "file_path", "file", "command", "cmd", "body"}
Args == [Field -> {None, "asked", "rewritten"}]

(* `form' tells the three forms of edit_file apart: anchored, an anchored   *)
(* dry run, or old_string.                                                  *)
Call == [tool: Tool, parses: BOOLEAN, form: {"anchored", "dry", "string"},
         args: [Field -> {None, "asked"}]]

Guard == {"readonly", "parent", "isolation"}

Verdict == {"ok", "error", "timeout", "refused"}
Reason == {"", "guardrail", "role", "cancelled", "tool_error", "timeout",
           "unknown_tool", "bad_args", "policy", "permission"}
Mode == {"internal", "outbound", "outbound:stdio", "outbound:sse"}
Carriers == [verdict: Verdict, reason: Reason, mode: Mode, explicit: BOOLEAN]
Audit == [verdict: Verdict, reason: Reason, mode: Mode]

(* What the wrapper reads of a result: an exec envelope by its exit code    *)
(* and the beginning of its stderr, the "error:" and timeout prefixes,      *)
(* anything else; `lost' is an answer that could not be serialised: NULL,   *)
(* an empty object, or one with an "error" field.                           *)
Result == {"exit0", "exitN", "refused:", "error:", "error: timeout", "text", "lost"}

(* What the database does with what it is asked to keep.                    *)
Attempt == {"none", "failed", "kept"}

(* History: what the call has done by the time it returns. `snapshot' and   *)
(* `recorded' are the capture for rewind and the record for stale reads,    *)
(* `act' the value the tool acted on, `redirect' the field kind the         *)
(* guardrail redirected, `blocked' the write guards that held, `shown' that *)
(* the guardrail was shown what the tool acts on, `left' that something     *)
(* outside the files was changed (a note, a record, a process, a            *)
(* repository), `down' that the seam behind the tool gave no answer, `up'   *)
(* that the classifier gave one.                                            *)
Effect == [ran: BOOLEAN, failed: BOOLEAN, wrote: BOOLEAN, snapshot: Attempt,
           recorded: Attempt, read: BOOLEAN, left: BOOLEAN, down: BOOLEAN,
           act: {None, "asked", "rewritten", "index", "cwd"},
           redirect: {None, "path", "command"}, blocked: SUBSET Guard,
           shown: BOOLEAN, up: BOOLEAN]

ASSUME DispatchAssumption ==
    /\ Calls \subseteq Call /\ Calls # {}
    /\ None \notin {"asked", "rewritten", "index", "cwd", "path", "command"} \cup Audit

VARIABLES
    pc,         \* where the thread is
    call, args, \* the call, and its arguments as they stand
    out,        \* g_td_verdict, g_td_reason, g_td_mode, g_td_explicit
    result,     \* the string _inner returned
    hooks,      \* the events fired for the call, in order
    audit,      \* the last completion record
    did         \* history

vars == <<pc, call, args, out, result, hooks, audit, did>>

NoEffect == [ran |-> FALSE, failed |-> FALSE, wrote |-> FALSE, snapshot |-> "none",
             recorded |-> "none", read |-> FALSE, left |-> FALSE, down |-> FALSE,
             act |-> None, redirect |-> None, blocked |-> {}, shown |-> FALSE,
             up |-> FALSE]
Fresh == [verdict |-> "ok", reason |-> "", mode |-> "internal", explicit |-> FALSE]

TypeOK ==
    /\ pc \in [Thread -> {"idle", "parse", "gates", "guardrail", "handler", "return"}]
    /\ call \in [Thread -> Call]
    /\ args \in [Thread -> Args]
    /\ out \in [Thread -> Carriers]
    /\ result \in [Thread -> Result]
    /\ hooks \in [Thread -> {"none", "started", "completed", "audited"}]
    /\ audit \in [Thread -> Audit \cup {None}]
    /\ did \in [Thread -> Effect]

Init ==
    /\ pc = [t \in Thread |-> "idle"]
    /\ call \in [Thread -> {CHOOSE c \in Calls : TRUE}]
    /\ args = [t \in Thread |-> call[t].args]
    /\ out = [t \in Thread |-> Fresh]
    /\ result = [t \in Thread |-> "text"]
    /\ hooks = [t \in Thread |-> "none"]
    /\ audit = [t \in Thread |-> None]
    /\ did = [t \in Thread |-> NoEffect]

-----------------------------------------------------------------------------
(* The outcome carriers. *)

\* The carriers are thread-local.
Carrier(t) == t

\* Slip: td_outcome_reset leaves the mode of the previous call.
ResetKeepsMode(o) == [Fresh EXCEPT !.mode = o.mode]

\* Slip: td_outcome_reset leaves the verdict of the previous call.
ResetKeepsVerdict(o) == [o EXCEPT !.mode = "internal"]

td_outcome_reset(o) == Fresh

td_outcome_set(o, verdict, reason) ==
    [o EXCEPT !.verdict = verdict, !.reason = reason, !.explicit = TRUE]

OutcomeOf(t) == out[Carrier(t)]
PutOutcome(t, o) == out' = [out EXCEPT ![Carrier(t)] = o]

-----------------------------------------------------------------------------
(* dispatch_tool_call_ctx up to the inner call. *)

\* The thread's observer is told of a phase of the call.
agent_tools_emit_tool_event(t, phase) == hooks' = [hooks EXCEPT ![t] = phase]

Start(t, c) ==
    /\ pc[t] = "idle"
    /\ pc' = [pc EXCEPT ![t] = "parse"]
    /\ agent_tools_emit_tool_event(t, "started")
    /\ call' = [call EXCEPT ![t] = c]
    /\ args' = [args EXCEPT ![t] = c.args]
    /\ PutOutcome(t, td_outcome_reset(OutcomeOf(t)))
    /\ did' = [did EXCEPT ![t] = NoEffect]
    /\ UNCHANGED <<result, audit>>

\* _inner returns with a definitive verdict and an "error:" string.
Return(t, verdict, reason) ==
    /\ PutOutcome(t, td_outcome_set(OutcomeOf(t), verdict, reason))
    /\ result' = [result EXCEPT ![t] = "error:"]
    /\ pc' = [pc EXCEPT ![t] = "return"]
    /\ UNCHANGED <<call, args, hooks, audit, did>>

Proceed(t, next) ==
    /\ pc' = [pc EXCEPT ![t] = next]
    /\ UNCHANGED <<call, out, result, hooks, audit>>

Alias(a, from, to) ==
    IF a[from] # None /\ a[to] = None
    THEN [a EXCEPT ![to] = a[from], ![from] = None] ELSE a

Normalise(a) ==
    Alias(Alias(Alias(Alias(a, "filepath", "path"), "file_path", "path"),
                "file", "path"), "cmd", "command")

\* What the check for a stopped job or delegation may say.  The job is stopped
\* elsewhere, at any time, and a check that is not linked in, or whose lookup
\* fails, says no: the answer is free.
tool_dispatch_cancelled == BOOLEAN

ParseArgs(t) ==
    /\ pc[t] = "parse"
    /\ \/ ~call[t].parses /\ Return(t, "error", "bad_args")
       \/ \E stopped \in tool_dispatch_cancelled :
            /\ call[t].parses
            /\ \/ stopped /\ Return(t, "refused", "cancelled")
               \/ /\ ~stopped
                  /\ args' = [args EXCEPT ![t] = Normalise(@)]
                  /\ Proceed(t, "gates") /\ UNCHANGED did

\* The command line the knowledge-write and the git gates look at.
ShellCommand(t) ==
    CASE call[t].tool = "bash" -> args[t]["command"]
      [] call[t].tool = "execute_script" -> args[t]["body"]
      [] OTHER -> None

\* The shell permission, the role's toolset, the stale-context commands, and
\* the git gate; each answer comes from a seam outside the dispatcher.
Gates(t) ==
    /\ pc[t] = "gates"
    /\ \/ call[t].tool \in Shell /\ Return(t, "refused", "permission")
       \/ Return(t, "refused", "role")
       \/ ShellCommand(t) # None /\ Return(t, "refused", "policy")
       \/ Proceed(t, "guardrail") /\ UNCHANGED <<args, did>>

-----------------------------------------------------------------------------
(* The guardrail: rc 0 passes, 1 rewrites a path, 3 rewrites a command.     *)

\* The fields that name a path, and the tools whose input is mapped.
PathFields == {"path", "filepath", "file_path", "file"}
Mapped == Shell \cup {"read_file", "write_file", "edit_file"}

\* Slip: the name of the editor hooks' field is looked up in the call.
GuardrailInputHook(t) ==
    CASE call[t].tool \in {"read_file", "write_file", "edit_file"} ->
            call[t].args["file_path"] # None
      [] call[t].tool = "edit_symbol" -> \E f \in PathFields : call[t].args[f] # None
      [] OTHER -> TRUE

\* Whether the guardrail is shown what the tool will act on.  Its input is made
\* from the arguments as the agent gave them, aliases unresolved: one field for
\* the mapped tools, everything for the others.  That does not hold what
\* edit_symbol looks up in the code index later; the directory a git tool falls
\* back on is given beside it.
guardrail_input_json(t) ==
    CASE call[t].tool = "bash" -> call[t].args["command"] # None
      [] call[t].tool = "execute_script" -> call[t].args["body"] # None
      [] call[t].tool \in {"read_file", "write_file", "edit_file"} ->
            call[t].args["path"] # None
      [] call[t].tool = "edit_symbol" -> \E f \in PathFields : call[t].args[f] # None
      [] OTHER -> TRUE

\* Slip: the field the editor hooks use is rewritten, whatever the call has.
PathFieldHook(a) == "file_path"

PathField(a) == IF a["file_path"] # None THEN "file_path" ELSE "path"

CommandField(a) ==
    LET there == {f \in {"command", "cmd", "body"} : a[f] # None}
    IN CASE "command" \in there -> "command"
         [] "command" \notin there /\ "cmd" \in there -> "cmd"
         [] there = {"body"} -> "body"
         [] OTHER -> None

Rewrite(t, field, kind) ==
    /\ args' = [args EXCEPT ![t][field] = IF @ = None THEN None ELSE "rewritten"]
    /\ did' = [did EXCEPT ![t].redirect = kind, ![t].shown = guardrail_input_json(t)]
    /\ Proceed(t, "handler")

pre_tool_check(t, rc, msg) ==
    /\ pc[t] = "guardrail"
    /\ \/ /\ rc = 0 /\ Proceed(t, "handler") /\ UNCHANGED args
          /\ did' = [did EXCEPT ![t].shown = guardrail_input_json(t)]
       \/ rc = 1 /\ msg /\ Rewrite(t, PathField(args[t]), "path")
       \/ /\ rc = 3 /\ msg
          /\ LET field == CommandField(args[t])
             IN IF field # None THEN Rewrite(t, field, "command")
                                ELSE Return(t, "refused", "guardrail")
       \/ (rc = 2 \/ ~msg) /\ rc # 0 /\ Return(t, "refused", "guardrail")

-----------------------------------------------------------------------------
(* The handlers.                                                            *)

\* The handler answers with result r, having had the effect e.
Answer(t, r, e) ==
    /\ pc[t] = "handler"
    /\ result' = [result EXCEPT ![t] = r]
    /\ did' = [did EXCEPT ![t] = e]
    /\ pc' = [pc EXCEPT ![t] = "return"]
    /\ UNCHANGED <<call, args, hooks, audit>>

Fail(t) == Answer(t, "error:", [did[t] EXCEPT !.failed = TRUE]) /\ UNCHANGED out

\* The tool has run, and its answer cannot be serialised.
Loses(t, e) == Answer(t, "lost", [e EXCEPT !.ran = TRUE, !.failed = TRUE])

\* What the tool has found is handed on as it is, and may begin like an error.
HandsOn(t, e) ==
    \E r \in {"text", "error:", "error: timeout"} : Answer(t, r, [e EXCEPT !.ran = TRUE])

\* A failure told in other words than "error:".
InWords(t, e) == Answer(t, "text", [e EXCEPT !.failed = TRUE])

\* The command line of an exec tool.
CommandOf(t) == IF call[t].tool = "execute_script" THEN args[t]["body"]
                                                   ELSE args[t]["command"]

\* A command runs and exits, or fails without having run (no pipe, no fork,
\* no reverse channel); one killed at its deadline answers exit code -1.  The
\* exit code is the one tool_bash reports.
Executes(t) ==
    LET e == [did[t] EXCEPT !.ran = TRUE, !.act = CommandOf(t)]
    IN /\ CommandOf(t) # None
       /\ UNCHANGED out
       /\ \/ Answer(t, "exit0", e)
          \/ Answer(t, "exitN", [e EXCEPT !.failed = TRUE])
          \/ Answer(t, "exitN", [did[t] EXCEPT !.failed = TRUE])

\* td_bash and td_execute_script also hand on the refusal of a delegate without
\* a sandbox, which is a stderr that begins "refused:"; so may the stderr of a
\* command that ran, whatever its exit code.
RunCommand(t) ==
    LET e == [did[t] EXCEPT !.act = CommandOf(t)]
    IN /\ call[t].tool \in Shell
       /\ \/ Fail(t)
          \/ Executes(t)
          \/ /\ CommandOf(t) # None /\ UNCHANGED out
             /\ \/ Answer(t, "refused:", [did[t] EXCEPT !.failed = TRUE])
                \/ \E failed \in BOOLEAN :
                     Answer(t, "refused:", [e EXCEPT !.ran = TRUE, !.failed = failed])
                \/ Loses(t, e)

\* td_run_tests keeps only the exit code of what the shell tool answers; an
\* answer that cannot be serialised is an error.
td_run_tests(t) ==
    /\ call[t].tool = "run_tests"
    /\ \/ Fail(t)
       \/ Executes(t)
       \/ /\ CommandOf(t) # None /\ UNCHANGED out
          /\ Answer(t, "error:", [did[t] EXCEPT !.ran = TRUE, !.failed = TRUE,
                                                !.act = CommandOf(t)])

\* td_read_file: a text that begins like an error is not recorded as read.
td_read_file(t) ==
    LET e == [did[t] EXCEPT !.act = args[t]["path"]]
    IN /\ call[t].tool = "read_file"
       /\ \/ Fail(t)
          \/ /\ args[t]["path"] # None /\ UNCHANGED out
             /\ \/ Answer(t, "text", [e EXCEPT !.ran = TRUE, !.read = TRUE])
                \/ Answer(t, "error:", [e EXCEPT !.ran = TRUE])

\* Slip: the rewind snapshot is taken only for an anchored edit.
SnapshotAnchoredOnly(t) == call[t].form = "anchored"

\* auto_snapshot_record is called before the write is tried, except on a dry run.
TakesSnapshot(t) == call[t].form # "dry" \/ call[t].tool = "write_file"

\* auto_snapshot_record captures nothing when it is switched off, when there is
\* no session and when the database fails; nobody looks at its answer.
Captures(t) == IF TakesSnapshot(t) THEN {"failed", "kept"} ELSE {"none"}

\* The tool is tried on the path it was given.
Tried(t, blocked, snapshot) ==
    [did[t] EXCEPT !.ran = TRUE, !.act = args[t]["path"], !.blocked = blocked,
                   !.snapshot = snapshot]

\* The file is written and db1_session_write_path_record is called, whose
\* failure is ignored; or the answer is an error, with nothing written, a part
\* written, or all of it and no memory for the answer.
Written(t, e) ==
    \/ \E kept \in {"failed", "kept"} :
         Answer(t, "text", [e EXCEPT !.wrote = TRUE, !.recorded = kept])
    \/ \E wrote \in BOOLEAN : Answer(t, "error:", [e EXCEPT !.failed = TRUE, !.wrote = wrote])

\* td_write_file: a missing parameter or a guard that holds fails before the
\* snapshot.  The advisories that follow a write only add to its answer.
td_write_file(t, blocked) ==
    /\ call[t].tool = "write_file"
    /\ \/ Fail(t)
       \/ /\ args[t]["path"] # None /\ blocked = {}
          /\ \E snapshot \in Captures(t) : Written(t, Tried(t, blocked, snapshot))
          /\ UNCHANGED out

\* td_edit_file: a dry run skips the guards and commits nothing; a rejected
\* anchored edit answers a status that is no error, and is not recorded.
td_edit_file(t, blocked) ==
    LET dry == call[t].form = "dry"
    IN /\ call[t].tool = "edit_file"
       /\ \/ Fail(t)
          \/ /\ args[t]["path"] # None
             /\ dry \/ blocked = {}
             /\ UNCHANGED out
             /\ \E snapshot \in Captures(t) :
                  LET e == Tried(t, blocked, snapshot)
                  IN \/ ~dry /\ Written(t, e)
                     \/ call[t].form # "string" /\ InWords(t, e)
                     \/ dry /\ Answer(t, "text", e)
                     \/ dry /\ Answer(t, "error:", [e EXCEPT !.failed = TRUE])

\* td_edit_symbol: no isolation guard, no rewind snapshot, the parent guard
\* for a given path only (tool_write_file has it for every path); any answer but
\* "error:" for a given path is recorded as a write, candidate lists and
\* rejected plans included.
td_edit_symbol(t, blocked) ==
    LET path == args[t]["path"]
        tried == [did[t] EXCEPT !.ran = TRUE, !.blocked = blocked,
                                !.act = IF path = None THEN "index" ELSE path]
    IN /\ call[t].tool = "edit_symbol"
       /\ \/ Fail(t)
          \/ /\ "readonly" \notin blocked
             /\ path = None \/ "parent" \notin blocked
             /\ UNCHANGED out
             /\ \/ \E kept \in IF path = None THEN {"none"} ELSE {"failed", "kept"} :
                     \/ /\ "parent" \notin blocked
                        /\ Answer(t, "text", [tried EXCEPT !.wrote = TRUE, !.recorded = kept])
                     \/ InWords(t, [tried EXCEPT !.recorded = kept])
                \/ \E wrote \in BOOLEAN :
                     /\ wrote => "parent" \notin blocked
                     /\ Answer(t, "error:", [tried EXCEPT !.failed = TRUE, !.wrote = wrote])

\* A tool answers what it found, or says that it failed.
Says(t, e) ==
    \/ HandsOn(t, e)
    \/ \E r \in {"error:", "error: timeout"} : Answer(t, r, [e EXCEPT !.failed = TRUE])

\* The seam behind the tool gives no answer, and the tool says so.
SaysDown(t, e) == Answer(t, "error:", [e EXCEPT !.failed = TRUE, !.down = TRUE])

\* A listing or a search at one path; a path that does not pass its validation,
\* or that cannot be listed, is an error.
Looks(t, e) == HandsOn(t, e) \/ Answer(t, "error:", [e EXCEPT !.failed = TRUE])

td_list_files(t) ==
    /\ call[t].tool = "list_files"
    /\ \/ Fail(t)
       \/ /\ args[t]["path"] # None /\ UNCHANGED out
          /\ Looks(t, [did[t] EXCEPT !.act = args[t]["path"]])

\* A grep that cannot run answers that there are no matches.
td_grep(t) ==
    LET e == [did[t] EXCEPT !.act = args[t]["path"]]
    IN /\ call[t].tool = "grep"
       /\ \/ Fail(t)
          \/ /\ args[t]["path"] # None /\ UNCHANGED out
             /\ Looks(t, e) \/ InWords(t, e)

\* td_test: a check that does not hold is an answer like any other.
td_test(t) ==
    LET e == [did[t] EXCEPT !.act = args[t]["path"]]
    IN /\ call[t].tool = "test"
       /\ \/ Fail(t)
          \/ /\ args[t]["path"] # None /\ UNCHANGED out
             /\ Answer(t, "text", [e EXCEPT !.ran = TRUE]) \/ Loses(t, e)

\* td_verify: only a missing parameter is an error.  command_succeeds runs a
\* command, unless the parent's worktree is read-only.
td_verify(t, blocked) ==
    LET e == [did[t] EXCEPT !.blocked = blocked]
    IN /\ call[t].tool = "verify"
       /\ \/ Fail(t)
          \/ /\ UNCHANGED out
             /\ \E left \in BOOLEAN :
                  /\ left => "parent" \notin blocked
                  /\ \/ Answer(t, "text", [e EXCEPT !.ran = TRUE, !.left = left])
                     \/ Loses(t, [e EXCEPT !.left = left])

\* The directory of the session stands in for a repository that is not named.
RepoOf(t) == IF args[t]["path"] # None THEN args[t]["path"] ELSE "cwd"

\* td_git_log, td_git_diff, td_git_status: a git that fails and says nothing
\* is an error; what a failing git has said is an answer.
GitShow(t) ==
    LET e == [did[t] EXCEPT !.act = RepoOf(t)]
    IN /\ call[t].tool = "git_show"
       /\ UNCHANGED out
       /\ Looks(t, e) \/ InWords(t, e)

\* td_git_write: no provider, or no content, is an error; the text of the
\* handler is the answer, whatever it says, and a change it reports as failed
\* may be half done.
td_git_write(t) ==
    LET e == [did[t] EXCEPT !.act = RepoOf(t)]
    IN /\ call[t].tool = "git_write"
       /\ UNCHANGED out
       /\ \/ SaysDown(t, e)
          \/ \E left \in BOOLEAN : \/ Says(t, [e EXCEPT !.left = left])
                                   \/ InWords(t, [e EXCEPT !.left = left])

\* td_mcp_tool: the text of the content blocks, or no provider, or no content.
td_mcp_tool(t) ==
    /\ call[t].tool = "mcp"
    /\ UNCHANGED out
    /\ \/ SaysDown(t, did[t])
       \/ \E left \in BOOLEAN : \/ Says(t, [did[t] EXCEPT !.left = left])
                                \/ InWords(t, [did[t] EXCEPT !.left = left])

\* td_env_get, td_request_input, td_code_search, td_find_symbol,
\* td_search_memory, td_web_search, td_web_read, td_rules_list, td_read_symbol:
\* a service that does not answer is reported, or looks like one that found
\* nothing.
LookupTool(t) ==
    /\ call[t].tool = "lookup"
    /\ UNCHANGED out
    /\ \/ Says(t, did[t])
       \/ SaysDown(t, did[t])
       \/ Answer(t, "text", [did[t] EXCEPT !.ran = TRUE, !.down = TRUE])

\* td_search_docs: a bad scope, no project and no response are errors; what
\* the ranker is told of the hits is not awaited.
td_search_docs(t) ==
    /\ call[t].tool = "search_docs"
    /\ \/ Fail(t)
       \/ (Says(t, did[t]) \/ SaysDown(t, did[t])) /\ UNCHANGED out

\* td_tool_output_get: no reference, no store and nothing found are errors.
td_tool_output_get(t) ==
    /\ call[t].tool = "tool_output_get"
    /\ \/ Fail(t)
       \/ (HandsOn(t, did[t]) \/ SaysDown(t, did[t])) /\ UNCHANGED out

\* Slip: no response from the knowledge service is taken for an empty one.
NoResponseEmpty(t, e) == Answer(t, "text", [e EXCEPT !.ran = TRUE, !.down = TRUE])

\* Without a response the note may or may not have been kept.
NoResponse(t, e) == SaysDown(t, e)

\* A service or a store refuses, gives no response, or does what it is asked.
Asks(t) ==
    \/ Fail(t)
    \/ /\ UNCHANGED out
       /\ \E left \in BOOLEAN :
            \/ NoResponse(t, [did[t] EXCEPT !.left = left])
            \/ Answer(t, "text", [did[t] EXCEPT !.ran = TRUE, !.left = left])

\* td_create_note, td_list_notes, td_search_notes.
NoteTool(t) == call[t].tool = "note" /\ Asks(t)

\* td_rules_propose, td_learning_propose, td_learning_review: a review that the
\* service refuses looks like an empty one.
ProposeTool(t) ==
    /\ call[t].tool = "propose"
    /\ \/ Asks(t)
       \/ /\ UNCHANGED out
          /\ InWords(t, did[t]) \/ \E left \in BOOLEAN : Loses(t, [did[t] EXCEPT !.left = left])

\* The storage is opened before anything is recorded in it.
Records(t) ==
    \/ Fail(t)
    \/ SaysDown(t, did[t]) /\ UNCHANGED out
    \/ /\ Answer(t, "text", [did[t] EXCEPT !.ran = TRUE, !.left = TRUE])
       /\ UNCHANGED out

\* td_clarify_start, td_clarify_answer: once the record is made the session may
\* still fail to be rendered.
ClarifyTool(t) ==
    /\ call[t].tool = "clarify"
    /\ Records(t) \/ (Loses(t, [did[t] EXCEPT !.left = TRUE]) /\ UNCHANGED out)

\* td_diagnose_start, _observe and _evidence record, td_diagnose_status shows.
DiagnoseTool(t) ==
    /\ call[t].tool = "diagnose"
    /\ Records(t) \/ (Answer(t, "text", [did[t] EXCEPT !.ran = TRUE]) /\ UNCHANGED out)

\* td_run_background_process and td_kill_background_process; what proc_start
\* says of a failure is handed on as it is.  The outputs and the list of the
\* processes are always an answer.
ProcessTool(t, blocked) ==
    LET e == [did[t] EXCEPT !.blocked = blocked]
    IN /\ call[t].tool = "process"
       /\ UNCHANGED out
       /\ \/ Answer(t, "error:", [e EXCEPT !.failed = TRUE])
          \/ HandsOn(t, e)
          \/ /\ "parent" \notin blocked
             /\ Answer(t, "text", [e EXCEPT !.ran = TRUE, !.left = TRUE]) \/ InWords(t, e)

\* A namespaced tool: the mode names the transport, and a failed call is a
\* definitive error; an answer that cannot be serialised is not.
RemoteTool(t) ==
    /\ call[t].tool = "remote"
    /\ \E m \in Mode \ {"internal"} :
         \/ /\ PutOutcome(t, [OutcomeOf(t) EXCEPT !.mode = m])
            /\ Answer(t, "text", [did[t] EXCEPT !.ran = TRUE]) \/ Loses(t, did[t])
         \/ /\ PutOutcome(t, td_outcome_set([OutcomeOf(t) EXCEPT !.mode = m],
                                            "error", "tool_error"))
            /\ Answer(t, "error:", [did[t] EXCEPT !.failed = TRUE])

UnknownTool(t) ==
    /\ call[t].tool = "unknown" /\ pc[t] = "handler"
    /\ Return(t, "error", "unknown_tool")

-----------------------------------------------------------------------------
(* dispatch_tool_call_ctx after the inner call.                             *)

td_classify_exec_result(o, r) ==
    CASE r = "refused:" -> td_outcome_set(o, "refused", "policy")
      [] r = "exitN" -> td_outcome_set(o, "error", "tool_error")
      [] OTHER -> o

ClassifyPrefix(o, r) ==
    CASE ~o.explicit /\ r = "error: timeout" -> td_outcome_set(o, "timeout", "timeout")
      [] ~o.explicit /\ r = "error:" -> td_outcome_set(o, "error", "tool_error")
      [] OTHER -> o

\* is_exec_tool asks the bus; a classifier that is absent or fails says no.
is_exec_tool(t, up) == up /\ call[t].tool \in Exec

Classify(t, up) ==
    LET o == OutcomeOf(t)
    IN ClassifyPrefix(IF ~o.explicit /\ is_exec_tool(t, up)
                      THEN td_classify_exec_result(o, result[t]) ELSE o, result[t])

Completed(t) ==
    /\ pc[t] = "return" /\ hooks[t] = "started"
    /\ agent_tools_emit_tool_event(t, "completed")
    /\ UNCHANGED <<pc, call, args, out, result, audit, did>>

\* The one observer of the process is given the outcome of the call.
agent_tools_emit_tool_completion(t, o) ==
    /\ audit' = [audit EXCEPT ![t] = [verdict |-> o.verdict, reason |-> o.reason,
                                      mode |-> o.mode]]
    /\ hooks' = [hooks EXCEPT ![t] = "audited"]

\* Slip: a verdict _inner has set is taken for one it has reported.
EmitUnlessExplicit(t, up) ==
    /\ pc[t] = "return" /\ hooks[t] = "completed"
    /\ pc' = [pc EXCEPT ![t] = "idle"]
    /\ hooks' = [hooks EXCEPT ![t] = IF OutcomeOf(t).explicit THEN @ ELSE "audited"]
    /\ UNCHANGED <<call, args, out, result, audit, did>>

EmitCompletion(t, up) ==
    LET o == Classify(t, up)
    IN /\ pc[t] = "return" /\ hooks[t] = "completed"
       /\ PutOutcome(t, o)
       /\ agent_tools_emit_tool_completion(t, o)
       /\ pc' = [pc EXCEPT ![t] = "idle"]
       /\ did' = [did EXCEPT ![t].up = up]
       /\ UNCHANGED <<call, args, result>>

Handler(t) ==
    /\ pc[t] = "handler"
    /\ \/ RunCommand(t)
       \/ td_read_file(t)
       \/ td_run_tests(t)
       \/ td_list_files(t)
       \/ td_grep(t)
       \/ td_test(t)
       \/ GitShow(t)
       \/ td_git_write(t)
       \/ td_mcp_tool(t)
       \/ LookupTool(t)
       \/ td_search_docs(t)
       \/ td_tool_output_get(t)
       \/ NoteTool(t)
       \/ ProposeTool(t)
       \/ ClarifyTool(t)
       \/ DiagnoseTool(t)
       \/ \E blocked \in SUBSET Guard :
            \/ td_write_file(t, blocked)
            \/ td_edit_file(t, blocked)
            \/ td_edit_symbol(t, blocked)
            \/ td_verify(t, blocked)
            \/ ProcessTool(t, blocked)
       \/ RemoteTool(t)
       \/ UnknownTool(t)

Step(t) ==
    \/ ParseArgs(t)
    \/ Gates(t)
    \/ \E rc \in 0 .. 3, msg \in BOOLEAN : pre_tool_check(t, rc, msg)
    \/ Handler(t)
    \/ Completed(t)
    \/ \E up \in BOOLEAN : EmitCompletion(t, up)

Next ==
    \E t \in Thread : (\E c \in Calls : Start(t, c)) \/ Step(t)

(* A dispatch that has begun is driven to its end by its thread; the seams  *)
(* and the tools it calls are assumed to return.                            *)
Spec == Init /\ [][Next]_vars /\ \A t \in Thread : WF_vars(Step(t))

-----------------------------------------------------------------------------
(* Properties.                                                              *)

\* The thread's last call has been audited.
Audited(t) == pc[t] = "idle" /\ audit[t] # None

\* Nothing was run, written, snapshotted, recorded, read or left behind.
Untouched(d) ==
    /\ ~d.ran /\ ~d.wrote /\ ~d.read /\ ~d.left
    /\ d.snapshot = "none" /\ d.recorded = "none"

\* A call audited as refused has had no effect at all: no command ran, no
\* file was written, snapshotted, recorded or read, nothing was left behind,
\* whatever calls the thread made before.  The exception is a shell command
\* whose own stderr begins "refused:": it is classed with the refusals of the
\* sandbox by that word, though it has run.
RefusedHasNoEffect ==
    \A t \in Thread : Audited(t) /\ audit[t].verdict = "refused" =>
        \/ Untouched(did[t])
        \/ call[t].tool \in Shell /\ result[t] = "refused:"

\* The handlers that tell of some failures without the "error:" marker: the
\* text of a process, of git or of an MCP handler, a grep that cannot run, a
\* review that is refused, a rejected edit, a service that looks empty.
Unmarked(c) ==
    \/ c.tool \in {"process", "git_show", "git_write", "mcp", "grep", "propose",
                   "lookup", "edit_symbol"}
    \/ c.tool = "edit_file" /\ c.form # "string"

\* A failure of call c, answered with r, that the wrapper has no means to see,
\* the classifier being up or not.
Hidden(c, r, up) == Unmarked(c) \/ r = "lost" \/ (c.tool \in Exec /\ ~up)

\* A call audited as ok was let through to its tool, and the tool did not fail
\* and had an answer from the service behind it.  The exceptions are the
\* failures that do not show: the handlers that do not mark them all, an answer
\* that could not be serialised, an exec tool while the classifier is down.
\* For reading, writing, listing, notes, records, searches in the documents and
\* for the exec tools with the classifier up, ok can be relied on.
OkMeansSucceeded ==
    \A t \in Thread : Audited(t) /\ audit[t].verdict = "ok" =>
        /\ did[t].ran \/ did[t].failed
        /\ did[t].failed \/ did[t].down => Hidden(call[t], result[t], did[t].up)

\* An audit record is about its own call: an outbound mode is only reported
\* for a namespaced tool that was routed out, and such a call that succeeded
\* reports its transport, whatever calls the thread made before.
ModeIsOwn ==
    \A t \in Thread : Audited(t) =>
        /\ audit[t].mode # "internal" => call[t].tool = "remote"
        /\ call[t].tool = "remote" /\ did[t].ran => audit[t].mode # "internal"

\* The writes of a call with effect d are permitted, and told to the rewind
\* store and to the stale-read tracker.
Tracked(tool, d) ==
    /\ tool \in {"write_file", "edit_file"} =>
         /\ d.wrote => d.snapshot # "none" /\ d.blocked = {}
         /\ d.recorded # "none" => d.wrote
    /\ d.wrote /\ ~d.failed /\ d.act # "index" => d.recorded # "none"
    /\ d.wrote => {"readonly", "parent"} \cap d.blocked = {}
    /\ tool \in {"process", "verify"} /\ d.left => "parent" \notin d.blocked

\* A file that write_file or edit_file has changed, even one whose write was
\* answered by an error, passed all three write guards and was given to the
\* rewind store first, and only a file that was changed is given to the
\* stale-read tracker.  A write that is not answered by an error is given to
\* the tracker, except of a file that edit_symbol found in the index.  What is
\* given may still not be kept: both stores may be off or fail.  edit_symbol,
\* background processes and verify keep to the guards they are subject to.
WritesTracked == \A t \in Thread : Audited(t) => Tracked(call[t].tool, did[t])

OneField(a) ==
    /\ Cardinality({f \in PathFields : a[f] # None}) <= 1
    /\ Cardinality({f \in {"command", "cmd", "body"} : a[f] # None}) <= 1

\* The tools that act on a path.
PathTools == Mutators \cup {"read_file", "list_files", "grep", "test", "git_show", "git_write"}

Redirected(t) ==
    \/ did[t].redirect = "path" /\ call[t].tool \in PathTools
    \/ did[t].redirect = "command" /\ call[t].tool \in Runner

\* The path or command that the guardrail redirected is never acted on as it
\* was asked, whichever alias names it, for calls with one field of a kind.
RewriteReachesTool ==
    \A t \in Thread : Redirected(t) /\ OneField(call[t].args) => did[t].act # "asked"

\* The call names its fields as the tools do.
NamesNoAlias(a) == \A f \in {"filepath", "file_path", "file", "cmd"} : a[f] = None

\* Where the guardrail cannot see what the tool will act on: a symbol that is
\* looked up later, and an alias that is not in the input of a mapped tool.
BlindSpot(c, act) ==
    \/ c.tool = "edit_symbol" /\ act = "index"
    \/ c.tool \in Mapped /\ ~NamesNoAlias(c.args)

\* What a tool acts on has been shown to the guardrail before it runs, but for
\* the two blind spots: the file that edit_symbol takes from the code index, and
\* an alias in a call of bash, execute_script, read_file, write_file or
\* edit_file, which is resolved for the tool and not for the guardrail.
GuardrailSeesTarget ==
    \A t \in Thread : Audited(t) /\ did[t].act # None =>
        did[t].shown \/ BlindSpot(call[t], did[t].act)

\* A call's events fire in the order started, completed, audited, none twice
\* and none left out.
HookOrder ==
    [][\A t \in Thread : hooks'[t] # hooks[t] =>
         <<hooks[t], hooks'[t]>> \in {<<"none", "started">>, <<"started", "completed">>,
                                      <<"completed", "audited">>, <<"audited", "started">>}]_vars

\* Every call that starts is audited, whichever of its many returns it takes,
\* once, after "completed" has fired and before the thread starts another.
EveryCallAudited ==
    HookOrder /\ \A t \in Thread : hooks[t] = "started" ~> hooks[t] = "audited"

(* What comments and documentation say, and the code does not do.           *)

\* The rewrite goes to the field the guardrail read, so the tool runs the
\* redirected line, however many command fields the call carries.
RewriteReachesToolAlways ==
    \A t \in Thread : Redirected(t) => did[t].act # "asked"

\* Every tool that is no exec tool signals failure with a leading "error:"
\* marker, so that its audit record tells of it.
FailuresAreMarked ==
    \A t \in Thread : Audited(t) /\ did[t].failed /\ call[t].tool \notin Exec =>
        audit[t].verdict # "ok"

-----------------------------------------------------------------------------
(* What the proofs rest on: where a call stands at each stage.              *)

\* Before the guardrail nothing has happened but the renaming of aliases.
Waiting(t) ==
    /\ out[t] = Fresh
    /\ did[t] = NoEffect
    /\ pc[t] = "parse" => args[t] = call[t].args
    /\ pc[t] # "parse" => args[t] = Normalise(call[t].args)

\* Behind the guardrail the fields that the tools read are the ones the call
\* named, and of a redirected kind none is left as it was asked.
Handling(t) ==
    /\ out[t] = Fresh
    /\ did[t] = [NoEffect EXCEPT !.redirect = did[t].redirect,
                                 !.shown = guardrail_input_json(t)]
    /\ NamesNoAlias(call[t].args) =>
         \A f \in {"path", "command", "body"} : call[t].args[f] = None => args[t][f] = None
    /\ (\A f \in PathFields : call[t].args[f] = None) => args[t]["path"] = None
    /\ OneField(call[t].args) =>
         /\ did[t].redirect = "path" => args[t]["path"] # "asked"
         /\ did[t].redirect = "command" => "asked" \notin {args[t]["command"], args[t]["body"]}

\* The result and the carriers _inner leaves tell what the call has done.
Returned(t) ==
    /\ out[t].explicit <=> out[t].verdict # "ok"
    /\ ~out[t].explicit => did[t].ran \/ did[t].failed
    /\ ~out[t].explicit /\ result[t] \in {"text", "exit0"} /\ (did[t].failed \/ did[t].down)
         => Unmarked(call[t])
    /\ result[t] = "exitN" => call[t].tool \in Exec
    /\ result[t] = "refused:" => call[t].tool \in Shell
    /\ out[t].verdict = "refused" => Untouched(did[t])

\* What holds of the effect of a call once it has returned, audited or not.
Accounted(t, mode) ==
    /\ mode # "internal" => call[t].tool = "remote"
    /\ call[t].tool = "remote" /\ did[t].ran => mode # "internal"
    /\ Tracked(call[t].tool, did[t])
    /\ did[t].act # None => did[t].shown \/ BlindSpot(call[t], did[t].act)

\* The audit record, by itself.
Reported(t) ==
    /\ audit[t].verdict = "refused" => \/ Untouched(did[t])
                                       \/ call[t].tool \in Shell /\ result[t] = "refused:"
    /\ audit[t].verdict = "ok" =>
         /\ did[t].ran \/ did[t].failed
         /\ did[t].failed \/ did[t].down => Hidden(call[t], result[t], did[t].up)

\* The events fired tell where the call is.
Hooked(t) ==
    /\ pc[t] = "idle" => hooks[t] \in {"none", "audited"}
    /\ pc[t] \in {"parse", "gates", "guardrail", "handler"} => hooks[t] = "started"
    /\ pc[t] = "return" => hooks[t] \in {"started", "completed"}

ThreadInv(t) ==
    /\ pc[t] \in {"parse", "gates", "guardrail"} => Waiting(t)
    /\ pc[t] = "handler" => Handling(t)
    /\ pc[t] = "return" => Returned(t) /\ Accounted(t, out[t].mode)
    /\ Audited(t) => Reported(t) /\ Accounted(t, audit[t].mode)
    /\ Redirected(t) /\ OneField(call[t].args) => did[t].act # "asked"
    /\ Hooked(t)

(* The inductive invariant.                                                 *)
DispatchInv == TypeOK /\ \A t \in Thread : ThreadInv(t)
=============================================================================
