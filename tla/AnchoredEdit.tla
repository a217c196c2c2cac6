---------------------------- MODULE AnchoredEdit ----------------------------
(***************************************************************************)
(* Several agent threads reading and editing one workspace file through    *)
(* tool_read_file, tool_write_file (agent_tools.c), tool_edit_file,        *)
(* tool_edit_file_anchored (agent_tools_dispatch.c), tool_read_outline,    *)
(* tool_read_symbol, tool_edit_symbol and tool_grep_anchored               *)
(* (agent_tools_anchored.c).                                               *)
(*                                                                         *)
(* An edit reads the whole file, plans the new text, and writes the whole  *)
(* file back; nothing locks the file in between.  An anchored edit cites   *)
(* lines of an immutable snapshot minted by an earlier read, which the     *)
(* store of snapshots may have evicted.  A line is abstracted to a value,  *)
(* its digest to the value itself.                                         *)
(*                                                                         *)
(* A file may hold NUL bytes (the reads look for them in its first 4096    *)
(* bytes only, tool_edit_file nowhere), and the write-back is that of a C  *)
(* string: what follows the first NUL of the new text is lost.  A NUL byte *)
(* is a line of its own here.                                              *)
(***************************************************************************)
EXTENDS FiniteSets, Integers

CONSTANTS Agent, Val,
          Lines,     \* bound on the number of lines of the file
          Nul, Gone, \* a NUL byte; no line, the file being shorter
          None       \* nothing; a snapshot that has been evicted

Line == 1 .. Lines
Content == {c \in [Line -> Val \cup {Nul, Gone}] :
              \A k, l \in Line : k < l /\ c[k] = Gone => c[l] = Gone}

(* What an agent has been shown: the text, and the snapshot its anchors     *)
(* belong to, for as long as the store keeps it.                            *)
View == [snap: Content \cup {None}, text: Content, by: {"read", "grep"}]

(* A tool call between its read and its write: the bytes it read, the lines *)
(* it replaces and by what, and the snapshot edit_symbol has minted.        *)
Work == [tool: {"grep", "anchored", "string", "symbol", "planned"}, base: Content,
         cites: SUBSET Line, val: Val \cup {None}, snap: Content \cup {None}]

ASSUME EditAssumption ==
    /\ None \notin Val \cup Content \cup View \cup Work \cup Agent
    /\ Nul \notin Val /\ Gone \notin Val /\ Nul # Gone
    /\ Lines \in Nat

VARIABLES
    file,    \* the bytes of the file
    view,    \* what each agent was last shown
    work,    \* the call each agent thread is in
    raced,   \* history: another write landed since this call read the file
    current  \* history: no write has landed since the agent was shown its view

vars == <<file, view, work, raced, current>>

TypeOK ==
    /\ file \in Content
    /\ view \in [Agent -> View \cup {None}]
    /\ work \in [Agent -> Work \cup {None}]
    /\ raced \in [Agent -> BOOLEAN]
    /\ current \in [Agent -> BOOLEAN]

Init ==
    /\ file \in Content
    /\ view = [a \in Agent |-> None]
    /\ work = [a \in Agent |-> None]
    /\ raced = [a \in Agent |-> FALSE]
    /\ current = [a \in Agent |-> FALSE]

-----------------------------------------------------------------------------
(* The store of snapshots (anchor_snapshot.h) serves every file and session *)
(* of the process, so a snapshot may be evicted at any time.                *)

anchor_snapshot_evict(a) ==
    \/ /\ view[a] # None /\ view[a].snap # None
       /\ view' = [view EXCEPT ![a].snap = None]
       /\ UNCHANGED <<file, work, raced, current>>
    \/ /\ work[a] # None /\ work[a].snap # None
       /\ work' = [work EXCEPT ![a].snap = None]
       /\ UNCHANGED <<file, view, raced, current>>

-----------------------------------------------------------------------------
(* Steps that several tools share.                                          *)

\* The text is shown under the anchors of a snapshot minted over snap.
Show(a, snap, text, by) ==
    /\ view' = [view EXCEPT ![a] = [snap |-> snap, text |-> text, by |-> by]]
    /\ current' = [current EXCEPT ![a] = text = file]

Calling(tool, cites, val, snap) ==
    [tool |-> tool, base |-> file, cites |-> cites, val |-> val, snap |-> snap]

\* The call goes on to its next step with the bytes it read.
Begin(a, w) ==
    /\ work' = [work EXCEPT ![a] = w]
    /\ raced' = [raced EXCEPT ![a] = FALSE]

\* The call ends without a write.
End(a) ==
    /\ work' = [work EXCEPT ![a] = None]
    /\ raced' = [raced EXCEPT ![a] = FALSE]

\* write_all: the whole file is replaced by what the call computed.
Land(a, content) ==
    /\ file' = content
    /\ raced' = [b \in Agent |-> b # a /\ work[b] # None]
    /\ current' = [b \in Agent |-> FALSE]

-----------------------------------------------------------------------------
(* Texts as C strings.                                                      *)

\* Line l of the text is a NUL or comes after one.
Cut(text, l) == \E k \in 1 .. l : text[k] = Nul

\* The text as far as strlen() sees it.
CString(text) == [l \in Line |-> IF Cut(text, l) THEN Gone ELSE text[l]]

-----------------------------------------------------------------------------
(* The tools.                                                               *)

\* One read gives both the text shown and the snapshot of its anchors.
tool_read_file(a) ==
    /\ work[a] = None
    /\ Show(a, file, file, "read")
    /\ UNCHANGED <<file, work, raced>>

\* The skeleton of a file is shown under anchors like a read is.
tool_read_outline(a) == tool_read_file(a)

\* One definition is shown under anchors of its own; the rows that list
\* several definitions of a name have tags and no snapshot.
tool_read_symbol(a) ==
    /\ work[a] = None
    /\ \E snap \in {file, None} : Show(a, snap, file, "read")
    /\ UNCHANGED <<file, work, raced>>

\* tool_grep_anchored runs grep, then reads the file for the anchors: the
\* rows show grep's text under tags and a snapshot of the second read.
GrepRun(a) ==
    /\ work[a] = None
    /\ Begin(a, Calling("grep", {}, None, None))
    /\ UNCHANGED <<file, view, current>>

GrepAnchor(a) ==
    /\ work[a] # None /\ work[a].tool = "grep"
    /\ Show(a, file, work[a].base, "grep")
    /\ End(a)
    /\ UNCHANGED file

\* edit_anchored_plan: each cited line is there and has the digest its
\* snapshot has.
Verifies(a, cites) == \A l \in cites : file[l] # Gone /\ file[l] = view[a].snap[l]

SnapshotExpired(a) ==
    /\ work[a] = None /\ view[a] # None
    /\ view[a].snap = None
    /\ view' = [view EXCEPT ![a] = None]
    /\ UNCHANGED <<file, work, raced, current>>

\* Slip: the rejection re-issues the text of the snapshot that was cited.
RejectOldText(a, cites) ==
    /\ work[a] = None /\ view[a] # None /\ view[a].snap # None
    /\ ~Verifies(a, cites)
    /\ current' = [current EXCEPT ![a] = TRUE]
    /\ UNCHANGED <<file, view, work, raced>>

\* A rejected plan mints a fresh snapshot over the bytes it read.
RejectEdit(a, cites) ==
    /\ work[a] = None /\ view[a] # None /\ view[a].snap # None
    /\ ~Verifies(a, cites)
    /\ Show(a, file, file, "read")
    /\ UNCHANGED <<file, work, raced>>

\* Slip: the verdict of the plan is not looked at.
PlanUnverified(a, cites, val) ==
    /\ work[a] = None /\ view[a] # None /\ view[a].snap # None
    /\ Begin(a, Calling("anchored", cites, val, None))
    /\ UNCHANGED <<file, view, current>>

PlanEdit(a, cites, val) ==
    /\ work[a] = None /\ view[a] # None /\ view[a].snap # None
    /\ Verifies(a, cites)
    /\ Begin(a, Calling("anchored", cites, val, None))
    /\ UNCHANGED <<file, view, current>>

\* Slip: the edit starts from the text shown earlier, not from a fresh read.
EditShownText(a, old, val, replace_all) ==
    /\ work[a] = None /\ view[a] # None
    /\ LET hits == {l \in Line : view[a].text[l] = old}
       IN hits # {} /\ Begin(a, [Calling("string", hits, val, None)
                                  EXCEPT !.base = view[a].text])
    /\ UNCHANGED <<file, view, current>>

\* tool_edit_file: old_string occurs once, or every occurrence is replaced.
\* strstr() and strlen() do not look past a NUL.
tool_edit_file(a, old, val, replace_all) ==
    LET hits == {l \in Line : file[l] = old /\ ~Cut(file, l)}
    IN /\ work[a] = None
       /\ hits # {}
       /\ Cardinality(hits) > 1 => replace_all
       /\ Begin(a, Calling("string", hits, val, None))
       /\ UNCHANGED <<file, view, current>>

\* tool_edit_symbol reads the file and mints a snapshot of its own ...
SymbolRead(a, span, val) ==
    /\ work[a] = None
    /\ \A l \in span : file[l] # Gone
    /\ Begin(a, Calling("symbol", span, val, file))
    /\ UNCHANGED <<file, view, current>>

\* ... which another thread's reads may evict before it is copied back.
SymbolPlan(a) ==
    /\ work[a] # None /\ work[a].tool = "symbol"
    /\ \/ work[a].snap = None /\ End(a)
       \/ /\ work[a].snap # None
          /\ work' = [work EXCEPT ![a].tool = "planned", ![a].snap = None]
          /\ UNCHANGED raced
    /\ UNCHANGED <<file, view, current>>

\* The planned text: the bytes that were read with the cited lines replaced.
NewText(w) == [l \in Line |-> IF l \in w.cites THEN w.val ELSE w.base[l]]

\* The write-back through tool_write_file: write_all of strlen(new_text)
\* bytes; or a guard, the test for UTF-8 or the write refuses.
Commit(a) ==
    /\ work[a] # None /\ work[a].tool \in {"anchored", "string", "planned"}
    /\ \/ Land(a, CString(NewText(work[a]))) /\ work' = [work EXCEPT ![a] = None]
       \/ End(a) /\ UNCHANGED <<file, current>>
    /\ UNCHANGED view

\* write_file: its content comes from JSON as a C string.
tool_write_file(a, content) ==
    /\ work[a] = None
    /\ Land(a, CString(content))
    /\ UNCHANGED <<view, work>>

\* A writer that is none of these tools, at any time.
OutsideWrite(content) ==
    /\ Land(None, content)
    /\ UNCHANGED <<view, work>>

Next ==
    \/ \E content \in Content : OutsideWrite(content)
    \/ \E a \in Agent :
           \/ anchor_snapshot_evict(a)
           \/ tool_read_file(a)
           \/ tool_read_outline(a)
           \/ tool_read_symbol(a)
           \/ GrepRun(a)
           \/ GrepAnchor(a)
           \/ SnapshotExpired(a)
           \/ \E cites \in SUBSET Line \ {{}}, val \in Val : PlanEdit(a, cites, val)
           \/ \E cites \in SUBSET Line \ {{}} : RejectEdit(a, cites)
           \/ \E old, val \in Val, replace_all \in BOOLEAN :
                tool_edit_file(a, old, val, replace_all)
           \/ \E l \in Line, val \in Val : SymbolRead(a, {l}, val)
           \/ SymbolPlan(a)
           \/ Commit(a)
           \/ \E content \in Content : tool_write_file(a, content)

Spec == Init /\ [][Next]_vars

-----------------------------------------------------------------------------
(* Properties.                                                              *)

\* The call of agent a commits in this step.
Commits(a) == work[a] # None /\ work'[a] = None /\ file' # file

\* In the step that ends the call of a, line l is lost because a NUL that the
\* edit does not replace stands at it or before it.
Lost(a, l) == file'[l] = Gone /\ \E k \in (1 .. l) \ work[a].cites : file[k] = Nul

\* When no other write lands while an anchored edit is under way, the edit
\* replaces lines that still read as the agent was shown them, however old
\* its view is, and leaves every other line alone but for those that the
\* write-back of a C string cuts off.
SurgicalCommit ==
    [][\A a \in Agent :
         Commits(a) /\ work[a].tool = "anchored" /\ view[a].by = "read" /\ ~raced[a] =>
           \A l \in Line : IF l \in work[a].cites THEN file[l] = view[a].text[l]
                                                  ELSE file'[l] = file[l] \/ Lost(a, l)]_vars

\* An edit by old_string, by symbol or by anchors that nobody races puts its
\* value in the lines it names and changes no other line, up to the first
\* NUL that it leaves in place; what stands from there on is lost.
UnracedEditIsLocal ==
    [][\A a \in Agent :
         Commits(a) /\ ~raced[a] =>
           \A l \in Line :
             \/ file'[l] = IF l \in work[a].cites THEN work[a].val ELSE file[l]
             \/ Lost(a, l)]_vars

\* A view is good for a retry: while nothing has been written since a read or
\* a rejection showed it, its snapshot, if it is still stored, has the file's
\* own bytes, so an edit that cites it is not rejected again.
ViewIsCurrent ==
    \A a \in Agent : current[a] /\ view[a] # None /\ view[a].by = "read" =>
        /\ view[a].text = file
        /\ view[a].snap \in {None, file}

(* What comments say of concurrent use, and the code does not do.           *)

\* An anchored edit of a text without NUL bytes preserves the bytes it does
\* not replace.
EditPreservesRest ==
    [][\A a \in Agent :
         Commits(a) /\ work[a].tool = "anchored" /\ (\A l \in Line : work[a].base[l] # Nul) =>
           \A l \in Line \ work[a].cites : file'[l] = file[l]]_vars

-----------------------------------------------------------------------------
(***************************************************************************)
(* The inductive invariant.  A call that nobody raced works on the file's  *)
(* own bytes; an anchored edit under way belongs to a view whose lines it  *)
(* was verified against; a view by a read has its own text as snapshot;    *)
(* what an edit replaces is there in the bytes it read.                    *)
(***************************************************************************)
WorkHasValue ==
    \A a \in Agent : work[a] # None /\ work[a].tool # "grep" =>
        work[a].val \in Val /\ \A l \in work[a].cites : work[a].base[l] # Gone

UnracedBase ==
    \A a \in Agent : work[a] # None /\ ~raced[a] => work[a].base = file

CitedAsShown ==
    \A a \in Agent : work[a] # None /\ work[a].tool = "anchored" =>
        /\ view[a] # None
        /\ view[a].by = "read" =>
             \A l \in work[a].cites : work[a].base[l] = view[a].text[l]

SnapshotOfText ==
    \A a \in Agent : view[a] # None /\ view[a].by = "read" =>
        view[a].snap \in {None, view[a].text}

EditInv == TypeOK /\ WorkHasValue /\ UnracedBase /\ CitedAsShown /\ SnapshotOfText /\ ViewIsCurrent
=============================================================================
