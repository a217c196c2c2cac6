------------------------- MODULE AnchoredEditProofs -------------------------
(***************************************************************************)
(* What an edit that nobody races does to the file, proved for any number  *)
(* of agents, lines and values.                                            *)
(***************************************************************************)
EXTENDS AnchoredEdit, TLAPS

(* Before any call nobody has a view and nothing is under way.              *)
LEMMA InitEditInv == Init => EditInv
  BY EditAssumption
  DEF Init, EditInv, TypeOK, WorkHasValue, UnracedBase, CitedAsShown, SnapshotOfText,
      ViewIsCurrent

(* A text cut at its first NUL is a text.                                   *)
LEMMA CStringIsContent ==
  ASSUME NEW c \in Content
  PROVE  CString(c) \in Content
<1>1. CString(c) \in [Line -> Val \cup {Nul, Gone}]
  BY DEF CString, Content
<1>2. ASSUME NEW k \in Line, NEW l \in Line, k < l, CString(c)[k] = Gone
      PROVE  CString(c)[l] = Gone
  <2>1. CASE Cut(c, k)
    <3>1. Cut(c, l)
      BY <1>2, <2>1, EditAssumption DEF Cut, Line
    <3> QED  BY <3>1 DEF CString
  <2>2. CASE ~Cut(c, k)
    <3>1. c[l] = Gone
      BY <1>2, <2>2 DEF CString, Content
    <3> QED  BY <3>1 DEF CString
  <2> QED  BY <2>1, <2>2
<1> QED  BY <1>1, <1>2 DEF Content

(* The text an edit plans is a text.                                        *)
LEMMA NewTextIsContent ==
  ASSUME NEW w \in Work, w.val \in Val, \A l \in w.cites : w.base[l] # Gone
  PROVE  NewText(w) \in Content
<1>1. w.base \in Content /\ w.cites \subseteq Line
  BY DEF Work
<1>2. NewText(w) \in [Line -> Val \cup {Nul, Gone}]
  BY <1>1 DEF NewText, Content
<1>3. ASSUME NEW k \in Line, NEW l \in Line, k < l, NewText(w)[k] = Gone
      PROVE  NewText(w)[l] = Gone
  <2>1. w.base[k] = Gone
    BY <1>3, EditAssumption DEF NewText
  <2>2. w.base[l] = Gone
    BY <1>1, <1>3, <2>1 DEF Content
  <2> QED  BY <2>2 DEF NewText
<1> QED  BY <1>2, <1>3 DEF Content

(* What the write-back leaves of line l: the planned line, unless a NUL     *)
(* that is not replaced comes at or before it.                              *)
LEMMA WrittenLine ==
  ASSUME NEW w \in Work, w.val \in Val, NEW l \in Line
  PROVE  \/ CString(NewText(w))[l] = NewText(w)[l]
         \/ /\ CString(NewText(w))[l] = Gone
            /\ \E k \in (1 .. l) \ w.cites : w.base[k] = Nul
<1>1. CASE ~Cut(NewText(w), l)  BY <1>1 DEF CString
<1>2. CASE Cut(NewText(w), l)
  <2>1. PICK k \in 1 .. l : NewText(w)[k] = Nul
    BY <1>2 DEF Cut
  <2>2. k \in Line
    BY EditAssumption DEF Line
  <2>3. k \notin w.cites /\ w.base[k] = Nul
    BY <2>1, <2>2, EditAssumption DEF NewText
  <2> QED  BY <1>2, <2>3 DEF CString
<1> QED  BY <1>1, <1>2

(* The steps that only show an agent something: the store's evictions, a    *)
(* read, a rejected or an expired edit.                                     *)
LEMMA ShowStep ==
  ASSUME EditInv, NEW a \in Agent,
         \/ tool_read_file(a)
         \/ tool_read_symbol(a)
         \/ \E cites \in SUBSET Line \ {{}} : RejectEdit(a, cites)
  PROVE  EditInv'
<1> USE DEF EditInv
<1> PICK snap \in {file, None} :
      /\ work[a] = None
      /\ Show(a, snap, file, "read")
      /\ UNCHANGED <<file, work, raced>>
  BY DEF tool_read_file, tool_read_symbol, RejectEdit
<1> DEFINE shown == [snap |-> snap, text |-> file, by |-> "read"]
<1>1. /\ work[a] = None
      /\ view' = [view EXCEPT ![a] = shown]
      /\ current' = [current EXCEPT ![a] = TRUE]
      /\ UNCHANGED <<file, work, raced>>
  BY DEF Show
<1>2. shown \in View  BY DEF TypeOK, View
<1>3. shown # None /\ shown.by = "read" /\ shown.text = file /\ shown.snap \in {file, None}
  BY <1>2, EditAssumption
<1> HIDE DEF shown
<1>4. TypeOK'  BY <1>1, <1>2 DEF TypeOK
<1>5. WorkHasValue' /\ UnracedBase'  BY <1>1 DEF WorkHasValue, UnracedBase
<1>6. \A b \in Agent : view'[b] = IF b = a THEN shown ELSE view[b]
  BY <1>1 DEF TypeOK
<1>7. CitedAsShown'  BY <1>1, <1>6 DEF CitedAsShown
<1>8. SnapshotOfText'  BY <1>3, <1>6 DEF SnapshotOfText
<1>9. \A b \in Agent : b # a => (current'[b] <=> current[b])
  BY <1>1 DEF TypeOK
<1>10. ViewIsCurrent'  BY <1>1, <1>3, <1>6, <1>9 DEF ViewIsCurrent
<1> QED  BY <1>4, <1>5, <1>7, <1>8, <1>10

(* The snapshot store may forget any snapshot.                              *)
LEMMA EvictStep ==
  ASSUME EditInv, NEW a \in Agent, anchor_snapshot_evict(a)
  PROVE  EditInv'
<1> USE DEF EditInv
<1>1. CASE /\ view[a] # None /\ view[a].snap # None
           /\ view' = [view EXCEPT ![a].snap = None]
           /\ UNCHANGED <<file, work, raced, current>>
  <2> DEFINE v == [view[a] EXCEPT !.snap = None]
  <2>1. /\ v \in View /\ v.snap = None
        /\ v.text = view[a].text /\ v.by = view[a].by
    BY <1>1 DEF TypeOK, View
  <2>2. view' = [view EXCEPT ![a] = v]  BY <1>1
  <2> HIDE DEF v
  <2>3. v # None  BY <2>1, EditAssumption
  <2>4. \A b \in Agent : view'[b] = IF b = a THEN v ELSE view[b]
    BY <2>2 DEF TypeOK
  <2>5. TypeOK'  BY <1>1, <2>1, <2>2 DEF TypeOK
  <2>6. WorkHasValue' /\ UnracedBase'  BY <1>1 DEF WorkHasValue, UnracedBase
  <2>7. CitedAsShown'  BY <1>1, <2>1, <2>3, <2>4 DEF CitedAsShown
  <2>8. SnapshotOfText'  BY <1>1, <2>1, <2>4 DEF SnapshotOfText
  <2>9. ViewIsCurrent'  BY <1>1, <2>1, <2>4 DEF ViewIsCurrent
  <2> QED  BY <2>5, <2>6, <2>7, <2>8, <2>9
<1>2. CASE /\ work[a] # None /\ work[a].snap # None
           /\ work' = [work EXCEPT ![a].snap = None]
           /\ UNCHANGED <<file, view, raced, current>>
  <2> DEFINE w == [work[a] EXCEPT !.snap = None]
  <2>1. /\ w \in Work /\ w.tool = work[a].tool /\ w.base = work[a].base
        /\ w.cites = work[a].cites /\ w.val = work[a].val
    BY <1>2 DEF TypeOK, Work
  <2>2. work' = [work EXCEPT ![a] = w]  BY <1>2
  <2> HIDE DEF w
  <2>3. \A b \in Agent : work'[b] = IF b = a THEN w ELSE work[b]
    BY <2>2 DEF TypeOK
  <2>4. TypeOK'  BY <1>2, <2>1, <2>2 DEF TypeOK
  <2>5. WorkHasValue' /\ UnracedBase'
    BY <1>2, <2>1, <2>3 DEF WorkHasValue, UnracedBase
  <2>6. CitedAsShown'  BY <1>2, <2>1, <2>3 DEF CitedAsShown
  <2>7. SnapshotOfText' /\ ViewIsCurrent'
    BY <1>2 DEF SnapshotOfText, ViewIsCurrent
  <2> QED  BY <2>4, <2>5, <2>6, <2>7
<1> QED  BY <1>1, <1>2 DEF anchor_snapshot_evict

(* The agent whose snapshot is gone drops its view.                         *)
LEMMA ExpiredStep ==
  ASSUME EditInv, NEW a \in Agent, SnapshotExpired(a)
  PROVE  EditInv'
<1> USE DEF EditInv, SnapshotExpired
<1>1. \A b \in Agent : view'[b] = IF b = a THEN None ELSE view[b]
  BY DEF TypeOK
<1>2. TypeOK'  BY DEF TypeOK
<1>3. WorkHasValue' /\ UnracedBase'  BY DEF WorkHasValue, UnracedBase
<1>4. CitedAsShown'  BY <1>1 DEF CitedAsShown
<1>5. SnapshotOfText' /\ ViewIsCurrent'  BY <1>1 DEF SnapshotOfText, ViewIsCurrent
<1> QED  BY <1>2, <1>3, <1>4, <1>5

(* A call begins with the file's bytes; an anchored one after its cited     *)
(* lines were found to be those of the view.                                *)
LEMMA BeginStep ==
  ASSUME EditInv, NEW a \in Agent, NEW w \in Work,
         Begin(a, w), UNCHANGED <<file, view, current>>,
         w.base = file,
         w.tool # "grep" => w.val \in Val /\ \A l \in w.cites : file[l] # Gone,
         w.tool = "anchored" =>
            /\ view[a] # None
            /\ view[a].by = "read" => \A l \in w.cites : file[l] = view[a].text[l]
  PROVE  EditInv'
<1> USE DEF EditInv, Begin
<1>1. \A b \in Agent : /\ work'[b] = IF b = a THEN w ELSE work[b]
                       /\ b # a => (raced'[b] <=> raced[b])
  BY DEF TypeOK
<1>2. TypeOK'  BY DEF TypeOK
<1>3. WorkHasValue' /\ UnracedBase'  BY <1>1 DEF WorkHasValue, UnracedBase
<1>4. CitedAsShown'  BY <1>1 DEF CitedAsShown
<1>5. SnapshotOfText' /\ ViewIsCurrent'  BY DEF SnapshotOfText, ViewIsCurrent
<1> QED  BY <1>2, <1>3, <1>4, <1>5

(* A call ends without touching the file.                                   *)
LEMMA EndStep ==
  ASSUME EditInv, NEW a \in Agent, End(a), UNCHANGED <<file, view, current>>
  PROVE  EditInv'
<1> USE DEF EditInv, End
<1>1. \A b \in Agent : /\ work'[b] = IF b = a THEN None ELSE work[b]
                       /\ b # a => (raced'[b] <=> raced[b])
  BY DEF TypeOK
<1>2. TypeOK'  BY DEF TypeOK
<1>3. WorkHasValue' /\ UnracedBase'  BY <1>1 DEF WorkHasValue, UnracedBase
<1>4. CitedAsShown'  BY <1>1 DEF CitedAsShown
<1>5. SnapshotOfText' /\ ViewIsCurrent'  BY DEF SnapshotOfText, ViewIsCurrent
<1> QED  BY <1>2, <1>3, <1>4, <1>5

(* The second half of tool_grep_anchored shows what grep printed, with a    *)
(* snapshot of the file as it is by then.                                   *)
LEMMA GrepAnchorStep ==
  ASSUME EditInv, NEW a \in Agent, GrepAnchor(a)
  PROVE  EditInv'
<1> USE DEF EditInv, GrepAnchor, Show, End
<1> DEFINE shown == [snap |-> file, text |-> work[a].base, by |-> "grep"]
<1>1. shown \in View /\ shown.by = "grep"  BY DEF TypeOK, View, Work
<1>2. view' = [view EXCEPT ![a] = shown]  OBVIOUS
<1> HIDE DEF shown
<1>3. \A b \in Agent : /\ work'[b] = IF b = a THEN None ELSE work[b]
                       /\ view'[b] = IF b = a THEN shown ELSE view[b]
                       /\ b # a => (raced'[b] <=> raced[b]) /\ (current'[b] <=> current[b])
  BY <1>2 DEF TypeOK
<1>4. TypeOK'  BY <1>1, <1>2 DEF TypeOK
<1>5. WorkHasValue' /\ UnracedBase'  BY <1>3 DEF WorkHasValue, UnracedBase
<1>6. CitedAsShown'  BY <1>3 DEF CitedAsShown
<1>7. SnapshotOfText' /\ ViewIsCurrent'
  BY <1>1, <1>3 DEF SnapshotOfText, ViewIsCurrent
<1> QED  BY <1>4, <1>5, <1>6, <1>7

(* A write lands: every other call under way is raced from here on, and no  *)
(* view is current.                                                         *)
LEMMA LandStep ==
  ASSUME EditInv, NEW a \in Agent \cup {None}, NEW content \in Content, Land(a, content),
         work' = [b \in Agent |-> IF b = a THEN None ELSE work[b]], UNCHANGED view
  PROVE  EditInv'
<1> USE DEF EditInv, Land
<1>1. \A b \in Agent : /\ work'[b] = IF b = a THEN None ELSE work[b]
                       /\ raced'[b] <=> b # a /\ work[b] # None
                       /\ ~current'[b]
  BY DEF TypeOK
<1>2. TypeOK'  BY DEF TypeOK
<1>3. WorkHasValue' /\ UnracedBase'  BY <1>1 DEF WorkHasValue, UnracedBase
<1>4. CitedAsShown'  BY <1>1 DEF CitedAsShown
<1>5. SnapshotOfText' /\ ViewIsCurrent'  BY <1>1 DEF SnapshotOfText, ViewIsCurrent
<1> QED  BY <1>2, <1>3, <1>4, <1>5

(* The reading half of tool_edit_file_anchored: the cited lines are         *)
(* verified against the snapshot.                                           *)
LEMMA PlanEditStep ==
  ASSUME EditInv, NEW a \in Agent, NEW cites \in SUBSET Line, NEW val \in Val,
         PlanEdit(a, cites, val)
  PROVE  EditInv'
<1> DEFINE w == Calling("anchored", cites, val, None)
<1>1. /\ w \in Work /\ w.base = file /\ w.tool = "anchored"
      /\ w.cites = cites /\ w.val = val
  BY DEF Calling, Work, EditInv, TypeOK
<1>2. Begin(a, w) /\ UNCHANGED <<file, view, current>> /\ view[a] # None
  BY DEF PlanEdit
<1>3. /\ view[a].by = "read" => \A l \in cites : file[l] = view[a].text[l]
      /\ \A l \in cites : file[l] # Gone
  BY DEF PlanEdit, Verifies, EditInv, SnapshotOfText
<1> HIDE DEF w
<1> QED  BY <1>1, <1>2, <1>3, BeginStep

(* The reading half of tool_edit_file.                                      *)
LEMMA StringEditStep ==
  ASSUME EditInv, NEW a \in Agent, NEW old \in Val, NEW val \in Val,
         NEW replace_all \in BOOLEAN, tool_edit_file(a, old, val, replace_all)
  PROVE  EditInv'
<1> DEFINE hits == {l \in Line : file[l] = old /\ ~Cut(file, l)}
           w == Calling("string", hits, val, None)
<1>1. /\ w \in Work /\ w.base = file /\ w.tool = "string"
      /\ w.val = val /\ \A l \in w.cites : file[l] # Gone
  BY EditAssumption DEF Calling, Work, EditInv, TypeOK
<1>2. Begin(a, w) /\ UNCHANGED <<file, view, current>>
  BY DEF tool_edit_file
<1> HIDE DEF w
<1> QED  BY <1>1, <1>2, BeginStep

(* The first read of tool_edit_symbol.                                      *)
LEMMA SymbolReadStep ==
  ASSUME EditInv, NEW a \in Agent, NEW l \in Line, NEW val \in Val,
         SymbolRead(a, {l}, val)
  PROVE  EditInv'
<1> DEFINE w == Calling("symbol", {l}, val, file)
<1>1. /\ w \in Work /\ w.base = file /\ w.tool = "symbol"
      /\ w.val = val /\ w.cites = {l}
  BY DEF Calling, Work, EditInv, TypeOK
<1>2. Begin(a, w) /\ UNCHANGED <<file, view, current>> /\ file[l] # Gone
  BY DEF SymbolRead
<1> HIDE DEF w
<1> QED  BY <1>1, <1>2, BeginStep

(* The first half of tool_grep_anchored.                                    *)
LEMMA GrepRunStep ==
  ASSUME EditInv, NEW a \in Agent, GrepRun(a)
  PROVE  EditInv'
<1> DEFINE w == Calling("grep", {}, None, None)
<1>1. w \in Work /\ w.base = file /\ w.tool = "grep"
  BY DEF Calling, Work, EditInv, TypeOK
<1>2. Begin(a, w) /\ UNCHANGED <<file, view, current>>
  BY DEF GrepRun
<1> HIDE DEF w
<1> QED  BY <1>1, <1>2, BeginStep

(* tool_edit_symbol plans on its snapshot, or finds it evicted.             *)
LEMMA SymbolPlanStep ==
  ASSUME EditInv, NEW a \in Agent, SymbolPlan(a)
  PROVE  EditInv'
<1>1. CASE work[a].snap = None /\ End(a)
  BY <1>1, EndStep DEF SymbolPlan
<1>2. CASE /\ work[a].snap # None
           /\ work' = [work EXCEPT ![a].tool = "planned", ![a].snap = None]
           /\ UNCHANGED raced
  <2> USE DEF EditInv
  <2> DEFINE w == [work[a] EXCEPT !.tool = "planned", !.snap = None]
  <2>1. work[a] # None /\ work[a].tool = "symbol" /\ UNCHANGED <<file, view, current>>
    BY DEF SymbolPlan
  <2>2. /\ w \in Work /\ w.tool = "planned" /\ w.base = work[a].base
        /\ w.val = work[a].val /\ w.cites = work[a].cites
    BY <2>1 DEF TypeOK, Work
  <2>3. work' = [work EXCEPT ![a] = w]  BY <1>2 DEF TypeOK
  <2> HIDE DEF w
  <2>4. \A b \in Agent : work'[b] = IF b = a THEN w ELSE work[b]
    BY <2>3 DEF TypeOK
  <2>5. TypeOK'
    <3>1. work' \in [Agent -> Work \cup {None}]
      BY <2>2, <2>3 DEF TypeOK
    <3> QED  BY <1>2, <2>1, <3>1 DEF TypeOK
  <2>6. UnracedBase'
    BY <1>2, <2>1, <2>2, <2>4 DEF UnracedBase
  <2>9. WorkHasValue'
    <3>1. w.val \in Val /\ \A l \in w.cites : w.base[l] # Gone
      BY <2>1, <2>2 DEF WorkHasValue
    <3> QED  BY <2>4, <3>1 DEF WorkHasValue
  <2>7. CitedAsShown'  BY <2>1, <2>2, <2>4 DEF CitedAsShown
  <2>8. SnapshotOfText' /\ ViewIsCurrent'
    BY <2>1 DEF SnapshotOfText, ViewIsCurrent
  <2> QED  BY <2>5, <2>6, <2>7, <2>8, <2>9
<1> QED  BY <1>1, <1>2 DEF SymbolPlan

(* The writing half of an edit.                                             *)
LEMMA CommitStep ==
  ASSUME EditInv, NEW a \in Agent, Commit(a)
  PROVE  EditInv'
<1>1. CASE Land(a, CString(NewText(work[a]))) /\ work' = [work EXCEPT ![a] = None]
  <2>1. work[a] \in Work /\ work[a].val \in Val /\ \A l \in work[a].cites : work[a].base[l] # Gone
    BY DEF Commit, EditInv, TypeOK, WorkHasValue
  <2>2. CString(NewText(work[a])) \in Content
    BY <2>1, NewTextIsContent, CStringIsContent
  <2>3. work' = [b \in Agent |-> IF b = a THEN None ELSE work[b]]
    BY <1>1 DEF EditInv, TypeOK
  <2> QED  BY <1>1, <2>2, <2>3, LandStep DEF Commit
<1>2. CASE End(a) /\ UNCHANGED <<file, current>>
  BY <1>2, EndStep DEF Commit
<1> QED  BY <1>1, <1>2 DEF Commit

(* tool_write_file.                                                         *)
LEMMA WriteStep ==
  ASSUME EditInv, NEW a \in Agent, NEW content \in Content, tool_write_file(a, content)
  PROVE  EditInv'
<1>1. work' = [b \in Agent |-> IF b = a THEN None ELSE work[b]]
  BY DEF tool_write_file, EditInv, TypeOK
<1> QED  BY <1>1, CStringIsContent, LandStep DEF tool_write_file

(* A write by anybody else.                                                 *)
LEMMA OutsideStep ==
  ASSUME EditInv, NEW content \in Content, OutsideWrite(content)
  PROVE  EditInv'
<1>1. work' = [b \in Agent |-> IF b = None THEN None ELSE work[b]]
  BY EditAssumption DEF OutsideWrite, EditInv, TypeOK
<1> QED  BY <1>1, LandStep DEF OutsideWrite

(* Every step keeps the invariant.                                          *)
LEMMA NextEditInv == EditInv /\ [Next]_vars => EditInv'
<1> SUFFICES ASSUME EditInv, [Next]_vars PROVE EditInv'
  OBVIOUS
<1>1. CASE UNCHANGED vars
  BY <1>1 DEF vars, EditInv, TypeOK, WorkHasValue, UnracedBase, CitedAsShown,
              SnapshotOfText, ViewIsCurrent
<1>3. CASE \E content \in Content : OutsideWrite(content)
  BY <1>3, OutsideStep
<1>2. CASE Next /\ ~\E content \in Content : OutsideWrite(content)
  <2> PICK a \in Agent :
        \/ anchor_snapshot_evict(a)
        \/ tool_read_file(a)
        \/ tool_read_outline(a)
        \/ tool_read_symbol(a)
        \/ GrepRun(a)
        \/ GrepAnchor(a)
        \/ SnapshotExpired(a)
        \/ \E cites \in SUBSET Line \ {{}}, val \in Val : PlanEdit(a, cites, val)
        \/ \E cites \in SUBSET Line \ {{}} : RejectEdit(a, cites)
        \/ \E old, val \in Val, replace_all \in BOOLEAN :
             tool_edit_file(a, old, val, replace_all)
        \/ \E l \in Line, val \in Val : SymbolRead(a, {l}, val)
        \/ SymbolPlan(a)
        \/ Commit(a)
        \/ \E content \in Content : tool_write_file(a, content)
    BY <1>2 DEF Next
  <2>1. CASE anchor_snapshot_evict(a)  BY <2>1, EvictStep
  <2>2. CASE tool_read_file(a)  BY <2>2, ShowStep
  <2>13. CASE tool_read_outline(a)  BY <2>13, ShowStep DEF tool_read_outline
  <2>14. CASE tool_read_symbol(a)  BY <2>14, ShowStep
  <2>3. CASE GrepRun(a)  BY <2>3, GrepRunStep
  <2>4. CASE GrepAnchor(a)  BY <2>4, GrepAnchorStep
  <2>5. CASE SnapshotExpired(a)  BY <2>5, ExpiredStep
  <2>6. CASE \E cites \in SUBSET Line \ {{}}, val \in Val : PlanEdit(a, cites, val)
    BY <2>6, PlanEditStep
  <2>7. CASE \E cites \in SUBSET Line \ {{}} : RejectEdit(a, cites)
    BY <2>7, ShowStep
  <2>8. CASE \E old, val \in Val, replace_all \in BOOLEAN :
               tool_edit_file(a, old, val, replace_all)
    BY <2>8, StringEditStep
  <2>9. CASE \E l \in Line, val \in Val : SymbolRead(a, {l}, val)
    BY <2>9, SymbolReadStep
  <2>10. CASE SymbolPlan(a)  BY <2>10, SymbolPlanStep
  <2>11. CASE Commit(a)  BY <2>11, CommitStep
  <2>12. CASE \E content \in Content : tool_write_file(a, content)
    BY <2>12, WriteStep
  <2> QED  BY <2>1, <2>2, <2>3, <2>4, <2>5, <2>6, <2>7, <2>8, <2>9, <2>10, <2>11, <2>12,
          <2>13, <2>14
<1> QED  BY <1>1, <1>2, <1>3

-----------------------------------------------------------------------------
(* The invariant holds for any number of agents, lines and values.          *)
THEOREM EditInvariant == Spec => []EditInv
  BY InitEditInv, NextEditInv, PTL DEF Spec

(* The file, the views and the calls under way keep to their types.         *)
THEOREM EditTypeCorrect == Spec => []TypeOK
  BY EditInvariant, PTL DEF EditInv

(* A view that tool_read_file or a rejected edit has shown is good for a    *)
(* retry until somebody writes.                                             *)
THEOREM RetryWorks == Spec => []ViewIsCurrent
  BY EditInvariant, PTL DEF EditInv

(* Only the write-back of an agent's own edit ends its call and changes the *)
(* file in one step.                                                        *)
LEMMA CommitsByCommit ==
  ASSUME EditInv, Next, NEW a \in Agent, Commits(a)
  PROVE  /\ Commit(a) /\ file' = CString(NewText(work[a]))
         /\ work[a] \in Work /\ work[a].val \in Val
<1>0. ~\E content \in Content : OutsideWrite(content)
  BY DEF OutsideWrite, Commits
<1> PICK b \in Agent :
        \/ Commit(b)
        \/ \E content \in Content : tool_write_file(b, content)
  BY <1>0 DEF Next, Commits, anchor_snapshot_evict, tool_read_file, tool_read_outline,
         tool_read_symbol, GrepRun, GrepAnchor,
         SnapshotExpired, PlanEdit, RejectEdit, tool_edit_file, SymbolRead, SymbolPlan
<1>1. CASE Commit(b)
  <2>1. \A c \in Agent : c # b => work'[c] = work[c]
    BY <1>1 DEF Commit, End, EditInv, TypeOK
  <2>2. a = b  BY <2>1 DEF Commits
  <2> QED  BY <1>1, <2>2 DEF Commit, Land, Commits, EditInv, TypeOK, WorkHasValue
<1>2. CASE \E content \in Content : tool_write_file(b, content)
  BY <1>2 DEF tool_write_file, Commits
<1> QED  BY <1>1, <1>2

(* What an edit that nobody races does to each line.                        *)
LEMMA CommittedLine ==
  ASSUME EditInv, Next, NEW a \in Agent, Commits(a), ~raced[a], NEW l \in Line
  PROVE  \/ file'[l] = IF l \in work[a].cites THEN work[a].val ELSE file[l]
         \/ Lost(a, l)
<1>1. work[a].base = file
  BY DEF Commits, EditInv, UnracedBase
<1>2. file' = CString(NewText(work[a])) /\ work[a] \in Work /\ work[a].val \in Val
  BY CommitsByCommit
<1>3. NewText(work[a])[l] = IF l \in work[a].cites THEN work[a].val ELSE file[l]
  BY <1>1 DEF NewText
<1>4. \/ file'[l] = NewText(work[a])[l]
      \/ file'[l] = Gone /\ \E k \in (1 .. l) \ work[a].cites : file[k] = Nul
  BY <1>1, <1>2, WrittenLine
<1> QED  BY <1>3, <1>4 DEF Lost

(* An anchored edit that nobody races replaces what its agent was shown,    *)
(* however old the view is, and changes nothing else up to the first NUL    *)
(* that it leaves in place.                                                 *)
THEOREM UnracedCommitIsSurgical == Spec => SurgicalCommit
<1> DEFINE Surgical(a) ==
      Commits(a) /\ work[a].tool = "anchored" /\ view[a].by = "read" /\ ~raced[a] =>
        \A l \in Line : IF l \in work[a].cites THEN file[l] = view[a].text[l]
                                               ELSE file'[l] = file[l] \/ Lost(a, l)
<1>1. ASSUME EditInv, Next, NEW a \in Agent PROVE Surgical(a)
  <2> SUFFICES ASSUME Commits(a), work[a].tool = "anchored", view[a].by = "read", ~raced[a],
                      NEW l \in Line
               PROVE  IF l \in work[a].cites THEN file[l] = view[a].text[l]
                                              ELSE file'[l] = file[l] \/ Lost(a, l)
    OBVIOUS
  <2>1. work[a] # None  BY DEF Commits
  <2>2. work[a].base = file  BY <1>1, <2>1 DEF EditInv, UnracedBase
  <2>3. \A k \in work[a].cites : file[k] = view[a].text[k]
    BY <1>1, <2>1, <2>2 DEF EditInv, CitedAsShown
  <2>4. l \notin work[a].cites => file'[l] = file[l] \/ Lost(a, l)  BY <1>1, CommittedLine
  <2> QED  BY <2>3, <2>4
<1>2. EditInv /\ [Next]_vars => [\A a \in Agent : Surgical(a)]_vars
  BY <1>1
<1> QED  BY <1>2, EditInvariant, PTL DEF Spec, SurgicalCommit

(* An edit by old_string, by symbol or by anchors that nobody races puts    *)
(* its value in the lines it names and changes no other, up to the first    *)
(* NUL that it leaves in place.                                             *)
THEOREM UnracedEditStaysLocal == Spec => UnracedEditIsLocal
<1> DEFINE Local(a) ==
      Commits(a) /\ ~raced[a] =>
        \A l \in Line :
          \/ file'[l] = IF l \in work[a].cites THEN work[a].val ELSE file[l]
          \/ Lost(a, l)
<1>1. ASSUME EditInv, Next, NEW a \in Agent PROVE Local(a)
  BY <1>1, CommittedLine
<1>2. EditInv /\ [Next]_vars => [\A a \in Agent : Local(a)]_vars
  BY <1>1
<1> QED  BY <1>2, EditInvariant, PTL DEF Spec, UnracedEditIsLocal
=============================================================================
