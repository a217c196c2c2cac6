-------------------------- MODULE MCToolDispatch --------------------------
(* Small instances of ToolDispatch: the sets of calls the agents make.     *)
EXTENDS ToolDispatch

With(fields) == [f \in Field |-> IF f \in fields THEN "asked" ELSE None]
Make(tool, fields) ==
    [tool |-> tool, parses |-> TRUE, form |-> "string", args |-> With(fields)]

\* Every tool, each alias, the three forms of an edit, missing parameters.
AllCalls ==
    {Make("bash", {}), Make("bash", {"command"}), Make("bash", {"cmd"}),
     Make("bash", {"command", "cmd"}), Make("execute_script", {"body"}),
     Make("run_tests", {"command"}), Make("read_file", {"file_path"}),
     Make("write_file", {"path"}), Make("write_file", {"file"}),
     Make("edit_symbol", {}), Make("edit_symbol", {"path"}),
     Make("list_files", {"path"}), Make("grep", {"file"}), Make("test", {"path"}),
     Make("verify", {}), Make("git_show", {}), Make("git_show", {"file"}),
     Make("git_write", {"path"}), Make("mcp", {}), Make("lookup", {}), Make("search_docs", {}),
     Make("tool_output_get", {}), Make("note", {}), Make("propose", {}), Make("clarify", {}),
     Make("diagnose", {}), Make("process", {}), Make("remote", {}), Make("unknown", {}),
     [Make("bash", {"command"}) EXCEPT !.parses = FALSE]}
    \cup {[Make("edit_file", {"filepath"}) EXCEPT !.form = f] : f \in {"anchored", "dry", "string"}}

\* A script call that also carries a command field.
TwoFields == {Make("execute_script", {"command", "body"})}

\* A search under a path.
Searching == {Make("grep", {"path"})}
=============================================================================
