----------------------- MODULE SupervisedRuns_proofs -----------------------
(***************************************************************************)
(* What SupervisedRuns promises for every set of run ids and every bound   *)
(* on calls, follow-ups and faults.                                        *)
(***************************************************************************)
EXTENDS SupervisedRuns, FiniteSetTheorems, TLAPS

(* No two children work on one row, and the row of a follow-up is one that no
   client has been told of. *)
WorksAlone ==
  /\ \A p \in Runs : Lives(p) => proc[p].works \in Runs
  /\ \A p, q \in Runs : Lives(p) /\ Lives(q) /\ proc[p].works = proc[q].works => p = q
  /\ \A p \in Runs : Lives(p) /\ proc[p].works # p => proc[proc[p].works].stage = "none"

(* The row of a living child is as far as the child, and a cancel that is still
   to mark a row has killed the child first. *)
RowsFollow ==
  /\ \A p \in Runs : proc[p].stage \in {"spawned", "locked"} => row[proc[p].works] = "absent"
  /\ \A p \in Runs : At(p, "working") => row[proc[p].works] = "running"
  /\ \A c \in calls : c.op = "marking" => proc[c.run].stage = "gone"

CallsOn(r) == {c \in calls : c.run = r}

(* Three kinds of run whose answers must stand: one that is not over, ... *)
StillOpen(r) ==
  /\ proc[r].stage # "gone" /\ answers[r] = {} /\ CallsOn(r) = {} /\ r \notin flagged
  /\ Told(r) => r \in registry

(* ... one whose child ended by itself, of which the row tells what is said, ... *)
EndedItself(r) ==
  /\ proc[r].stage = "gone" /\ r \notin flagged
  /\ answers[r] \subseteq {MapRunStatus(row[r])}
  /\ \A c \in CallsOn(r) : c.op # "marking" /\ ~c.flag

(* ... and one that was cancelled, of which nothing else is said: not even when
   its handle is gone, for then its row has been marked, or there is none. *)
EndedByCancel(r) ==
  /\ proc[r].stage = "gone" /\ answers[r] \subseteq {"cancelled"}
  /\ row[r] \in {"absent", "running", "cancelled"}
  /\ row[r] = "running" => Marking(r)
  /\ Marking(r) => r \in registry
  /\ r \in registry => r \in flagged
  /\ \A c \in CallsOn(r) : \/ c.op = "marking" \/ c.flag
                           \/ c.op = "absent" /\ r \notin registry

OneAnswer == \A r \in Runs \ excused : StillOpen(r) \/ EndedItself(r) \/ EndedByCancel(r)

IInv == TypeOK /\ WorksAlone /\ RowsFollow /\ StrandedOnlyByKill /\ OneAnswer
-----------------------------------------------------------------------------
(* What a step leaves in the slot of child p; the other slots stay. *)
Slot(p, stage, works) ==
  /\ proc' \in [Runs -> Proc]
  /\ proc'[p].stage = stage /\ proc'[p].works = works
  /\ \A q \in Runs \ {p} : proc'[q] = proc[q]

(* The three ways a child writes its slot. *)
LEMMA SlotWrites ==
  ASSUME TypeOK, NEW p \in Runs
  PROVE  /\ \A stage \in Stages : Goto(p, stage) => Slot(p, stage, proc[p].works)
         /\ End(p) => Slot(p, "gone", p)
         /\ Drain(p) => FollowUpId \in Fresh /\ Slot(p, "spawned", FollowUpId)
<1>0. proc \in [Runs -> Proc] /\ MaxFollowUps \in Nat
  BY SupervisedAssumption DEF TypeOK
<1>1. ASSUME NEW stage \in Stages, Goto(p, stage) PROVE Slot(p, stage, proc[p].works)
  <2> DEFINE new == [proc[p] EXCEPT !.stage = stage]
  <2>1. new \in Proc /\ new.stage = stage /\ new.works = proc[p].works
    BY <1>0 DEF Proc
  <2>2. proc' = [proc EXCEPT ![p] = new]
    BY <1>0, <1>1 DEF Goto
  <2> HIDE DEF new
  <2> QED BY <1>0, <2>1, <2>2 DEF Slot
<1>2. End(p) => Slot(p, "gone", p)
  BY <1>0 DEF End, Gone, Slot, Proc, Stages
<1>3. Fresh \ Asked # {} => FollowUpId \in Fresh /\ FollowUpId \in Runs
  BY DEF FollowUpId, Fresh
<1>4. ASSUME Drain(p) PROVE FollowUpId \in Fresh /\ Slot(p, "spawned", FollowUpId)
  <2> DEFINE new == [stage |-> "spawned", works |-> FollowUpId, drained |-> proc[p].drained + 1]
  <2>1. FollowUpId \in Fresh /\ FollowUpId \in Runs
    BY <1>3, <1>4 DEF Drain
  <2>2. proc[p].drained + 1 \in 0 .. MaxFollowUps
    BY <1>0, <1>4 DEF Drain, DrainsOn, Proc
  <2>3. new \in Proc
    BY <2>1, <2>2 DEF Proc, Stages
  <2>4. proc' = [proc EXCEPT ![p] = new]
    BY <1>4 DEF Drain
  <2> QED BY <1>0, <2>1, <2>3, <2>4 DEF Slot
<1> QED BY <1>1, <1>2, <1>4

(* And the way a start writes one. *)
LEMMA StartWrites ==
  ASSUME TypeOK, AnalyzeStart
  PROVE  UNCHANGED proc \/ (NewId \in Fresh /\ Slot(NewId, "spawned", NewId))
<1>1. Fresh \cap Asked # {} => NewId \in Fresh /\ NewId \in Runs
  BY DEF NewId, Fresh
<1> QED BY <1>1, SupervisedAssumption DEF TypeOK, AnalyzeStart, Slot, Proc, Stages

(* The variables other than proc keep their types. *)
RestOK ==
  /\ lock \in Runs \cup {None} /\ marker \in BOOLEAN
  /\ row \in [Runs -> Row]
  /\ registry \subseteq Runs /\ flagged \subseteq registry
  /\ calls \subseteq Call
  /\ faults \in 0 .. MaxFaults
  /\ answers \in [Runs -> SUBSET Settled]
  /\ excused \subseteq Runs /\ stray \subseteq Runs

(* Every step keeps the types. *)
LEMMA TypeStep == TypeOK /\ WorksAlone /\ [Next]_vars => TypeOK'
<1> SUFFICES ASSUME TypeOK, WorksAlone, [Next]_vars PROVE TypeOK'
  OBVIOUS
<1>0. proc \in [Runs -> Proc] /\ RestOK /\ MaxFaults \in Nat
  BY SupervisedAssumption DEF TypeOK, RestOK
<1>a. ASSUME proc' \in [Runs -> Proc], RestOK' PROVE TypeOK'
  BY <1>a DEF TypeOK, RestOK
<1>b. ASSUME NEW r \in Runs, NEW status \in Row, SetRow(r, status) PROVE row' \in [Runs -> Row]
  BY <1>0, <1>b DEF SetRow, RestOK
<1>c. \A p \in Runs : Lives(p) => proc[p].works \in Runs
  BY DEF WorksAlone
<1>d. ASSUME NEW op \in {"exited", "absent", "marking"}, NEW r \in Runs, Begin(op, r)
      PROVE  calls' \subseteq Call
  <2> DEFINE flag == r \in flagged'
  <2>1. calls' = calls \cup {[op |-> op, run |-> r, flag |-> flag]}
    BY <1>d DEF Begin
  <2>2. flag \in BOOLEAN
    OBVIOUS
  <2> HIDE DEF flag
  <2> QED BY <1>0, <2>1, <2>2 DEF Call, RestOK
<1>e. ASSUME NEW c \in calls, NEW said \in SUBSET Settled, Answer(c, c.run, said)
      PROVE  calls' \subseteq Call /\ answers' \in [Runs -> SUBSET Settled]
  <2>1. c.run \in Runs
    BY <1>0 DEF RestOK, Call
  <2>2. answers[c.run] \cup said \in SUBSET Settled
    BY <1>0, <2>1 DEF RestOK
  <2> QED BY <1>0, <1>e, <2>1, <2>2 DEF Answer, RestOK
<1> USE DEF RestOK, child, handles, history
<1>1. ASSUME NEW p \in Runs, Lock(p) PROVE TypeOK'
  BY <1>0, <1>1, <1>a, SlotWrites DEF Lock, Slot, Stages
<1>2. ASSUME NEW p \in Runs, BeginRun(p) PROVE TypeOK'
  BY <1>0, <1>2, <1>a, <1>b, <1>c, SlotWrites DEF BeginRun, Slot, Stages, Lives, At, Row
<1>3. ASSUME NEW p \in Runs, Settle(p) PROVE TypeOK'
  <2>1. row' \in [Runs -> Row]
    BY <1>3, <1>b, <1>c DEF Settle, Lives, At, Row, Settled
  <2> QED BY <1>0, <1>3, <1>a, <2>1, SlotWrites DEF Settle, Slot, Stages
<1>4. ASSUME NEW p \in Runs, Unlock(p) \/ Drain(p) \/ Exit(p) PROVE TypeOK'
  BY <1>0, <1>4, <1>a, SlotWrites DEF Unlock, Drain, Exit, Slot, Stages
<1>5. ASSUME NEW p \in Runs, Die(p) PROVE TypeOK'
  <2>1. lock' \in Runs \cup {None} /\ faults' \in 0 .. MaxFaults
    BY <1>0, <1>5 DEF Die, Released
  <2>2. stray' \subseteq Runs
    BY <1>0, <1>5, <1>c DEF Die
  <2> QED BY <1>0, <1>5, <1>a, <2>1, <2>2, SlotWrites DEF Die, Slot
<1>6. CASE RequestRefresh
  BY <1>0, <1>6, <1>a DEF RequestRefresh
<1>7. CASE AnalyzeStart
  <2>1. proc' \in [Runs -> Proc] /\ (UNCHANGED proc \/ NewId \in Runs)
    BY <1>0, <1>7, StartWrites DEF Slot, Fresh, AnalyzeStart
  <2>2. registry' \subseteq Runs /\ flagged' \subseteq registry' /\ excused' \subseteq Runs
    BY <1>0, <1>7, StartWrites DEF AnalyzeStart, Kept, Flags, NewId, Fresh
  <2> QED BY <1>0, <1>7, <1>a, <2>1, <2>2 DEF AnalyzeStart
<1>8. ASSUME NEW r \in Runs, AnalyzeStatus(r) PROVE TypeOK'
  BY <1>0, <1>8, <1>a, <1>d DEF AnalyzeStatus
<1>9. ASSUME NEW r \in Runs, CancelKills(r) PROVE TypeOK'
  <2>1. lock' \in Runs \cup {None} /\ proc' \in [Runs -> Proc] /\ calls' \subseteq Call
    BY <1>0, <1>9, <1>d, SlotWrites DEF CancelKills, Released, Slot
  <2>2. flagged' \subseteq registry' /\ excused' \subseteq Runs /\ stray' \subseteq Runs
    BY <1>0, <1>9, <1>c DEF CancelKills
  <2> QED BY <1>0, <1>9, <1>a, <2>1, <2>2 DEF CancelKills
<1>10. ASSUME NEW c \in calls, MarkRunCancelled(c) PROVE TypeOK'
  <2>1. c.run \in Runs /\ Marked(row[c.run]) \in Row
    BY <1>0 DEF Call, Marked, Row, Settled
  <2>2. row' \in [Runs -> Row] /\ faults' \in 0 .. MaxFaults
    BY <1>0, <1>10, <1>b, <2>1 DEF MarkRunCancelled
  <2>3. excused' \subseteq Runs /\ stray' \subseteq Runs
    BY <1>0, <1>10, <2>1 DEF MarkRunCancelled
  <2>4. calls' \subseteq Call /\ answers' \in [Runs -> SUBSET Settled]
    BY <1>10, <1>e DEF MarkRunCancelled, Settled
  <2> QED BY <1>0, <1>10, <1>a, <2>2, <2>3, <2>4 DEF MarkRunCancelled
<1>11. ASSUME NEW c \in calls, ReadRunRow(c) PROVE TypeOK'
  <2>1. c.run \in Runs /\ TerminalStatus(row[c.run], c.flag) \in Settled
    BY <1>0 DEF Call, TerminalStatus, MapRunStatus, Row, Settled
  <2>2. calls' \subseteq Call /\ answers' \in [Runs -> SUBSET Settled]
    BY <1>11, <1>e, <2>1 DEF ReadRunRow
  <2> QED BY <1>0, <1>11, <1>a, <2>2 DEF ReadRunRow
<1>12. CASE RestartServe
  BY <1>0, <1>12, <1>a DEF RestartServe
<1>13. CASE UNCHANGED vars
  BY <1>0, <1>13, <1>a DEF vars
<1> QED BY <1>1, <1>2, <1>3, <1>4, <1>5, <1>6, <1>7, <1>8, <1>9, <1>10, <1>11, <1>12, <1>13
        DEF Next, Child, Tool
-----------------------------------------------------------------------------
(* Every step leaves each child alone with its row. *)
LEMMA AloneStep == TypeOK /\ WorksAlone /\ [Next]_vars => WorksAlone'
<1> SUFFICES ASSUME TypeOK, WorksAlone, [Next]_vars PROVE WorksAlone'
  OBVIOUS
<1>0. proc \in [Runs -> Proc]
  BY DEF TypeOK
<1>a. ASSUME NEW p \in Runs, NEW stage, Lives(p), stage # "none", Slot(p, stage, proc[p].works)
      PROVE  WorksAlone'
  BY <1>0, <1>a DEF WorksAlone, Lives, Slot
<1>b. ASSUME NEW p \in Runs, Lives(p), Slot(p, "gone", p) PROVE WorksAlone'
  BY <1>0, <1>b DEF WorksAlone, Lives, Slot
<1>c. \A r \in Fresh : r \in Runs /\ proc[r].stage = "none" /\ \A q \in Runs : proc[q].works # r
  BY DEF Fresh, Used
<1>d. ASSUME NEW p \in Runs, NEW n \in Fresh, Slot(p, "spawned", n), Lives(p) \/ p = n
      PROVE  WorksAlone'
  BY <1>0, <1>c, <1>d DEF WorksAlone, Lives, Slot
<1>e. UNCHANGED proc => WorksAlone'
  BY DEF WorksAlone, Lives
<1>1. ASSUME NEW p \in Runs, Lock(p) PROVE WorksAlone'
  BY <1>1, <1>a, <1>b, SlotWrites DEF Lock, At, Lives, Stages
<1>2. ASSUME NEW p \in Runs, BeginRun(p) \/ Settle(p) PROVE WorksAlone'
  BY <1>2, <1>a, SlotWrites DEF BeginRun, Settle, At, Lives, Stages
<1>3. ASSUME NEW p \in Runs, Unlock(p) \/ Exit(p) PROVE WorksAlone'
  BY <1>3, <1>a, <1>b, SlotWrites DEF Unlock, Exit, At, Lives, Stages
<1>4. ASSUME NEW p \in Runs, Drain(p) PROVE WorksAlone'
  BY <1>4, <1>d, SlotWrites DEF Drain, DrainsOn, At, Lives
<1>5. ASSUME NEW p \in Runs, Die(p) \/ CancelKills(p) PROVE WorksAlone'
  BY <1>5, <1>b, SlotWrites DEF Die, CancelKills
<1>6. CASE AnalyzeStart
  BY <1>6, <1>c, <1>d, <1>e, StartWrites
<1>7. CASE RequestRefresh \/ RestartServe \/ UNCHANGED vars
  BY <1>7, <1>e DEF RequestRefresh, RestartServe, child, vars
<1>8. ASSUME NEW r \in Runs, AnalyzeStatus(r) PROVE WorksAlone'
  BY <1>8, <1>e DEF AnalyzeStatus, child
<1>9. ASSUME NEW c \in calls, MarkRunCancelled(c) \/ ReadRunRow(c) PROVE WorksAlone'
  BY <1>9, <1>e DEF MarkRunCancelled, ReadRunRow, child
<1> QED BY <1>1, <1>2, <1>3, <1>4, <1>5, <1>6, <1>7, <1>8, <1>9 DEF Next, Child, Tool

(* A step that writes one row. *)
RowsOf(r, status) ==
  /\ row'[r] = status /\ \A s \in Runs \ {r} : row'[s] = row[s]

(* What SetRow leaves in the rows. *)
LEMMA RowWrites ==
  ASSUME TypeOK, NEW r \in Runs
  PROVE  \A status \in Row : SetRow(r, status) => RowsOf(r, status)
  BY DEF TypeOK, SetRow, RowsOf

(* A cancel that is to mark a row meets no child at work on it. *)
LEMMA MarksAlone ==
  ASSUME TypeOK, WorksAlone, RowsFollow, NEW c \in calls, c.op = "marking"
  PROVE  c.run \in Runs /\ \A p \in Runs : Lives(p) => proc[p].works # c.run
<1>1. c.run \in Runs /\ proc[c.run].stage = "gone"
  BY DEF TypeOK, Call, RowsFollow
<1> QED BY <1>1 DEF WorksAlone, Lives

(* Every step keeps the rows where their children are. *)
LEMMA RowsStep == TypeOK /\ WorksAlone /\ RowsFollow /\ [Next]_vars => RowsFollow'
<1> SUFFICES ASSUME TypeOK, WorksAlone, RowsFollow, [Next]_vars PROVE RowsFollow'
  OBVIOUS
<1>0. /\ proc \in [Runs -> Proc] /\ row \in [Runs -> Row] /\ calls \subseteq Call
      /\ \A c \in calls : c.run \in Runs
      /\ \A p \in Runs : Lives(p) => proc[p].works \in Runs
  BY DEF TypeOK, Call, WorksAlone
<1>a. ASSUME NEW p \in Runs, Lives(p), Slot(p, "gone", p), row' = row,
             \A c \in calls' : c \in calls \/ c.run = p
      PROVE  RowsFollow'
  BY <1>0, <1>a DEF RowsFollow, Slot, Lives, At
<1>b. \A r \in Fresh : r \in Runs /\ proc[r].stage = "none" /\ row[r] = "absent"
  BY DEF Fresh, Used
<1>c. ASSUME NEW p \in Runs, NEW n \in Fresh, Slot(p, "spawned", n), Lives(p) \/ p = n,
             row' = row, calls' = calls
      PROVE  RowsFollow'
  BY <1>0, <1>b, <1>c DEF RowsFollow, Slot, Lives, At
<1>d. ASSUME proc' = proc, row' = row,
             \A c \in calls' : c \in calls \/ c.op # "marking"
      PROVE  RowsFollow'
  BY <1>d DEF RowsFollow, At
<1> USE DEF child, handles, history
<1>1. ASSUME NEW p \in Runs, Lock(p) PROVE RowsFollow'
  <2>1. CASE lock = None
    <3>1. Slot(p, "locked", proc[p].works)
      BY <1>1, <2>1, SlotWrites DEF Lock, Stages
    <3> QED BY <1>0, <1>1, <3>1 DEF Lock, RowsFollow, Slot, At
  <2>2. CASE lock # None
    BY <1>1, <1>a, <2>2, SlotWrites DEF Lock, At, Lives
  <2> QED BY <2>1, <2>2
<1>2. ASSUME NEW p \in Runs, BeginRun(p) PROVE RowsFollow'
  <2>1. Slot(p, "working", proc[p].works) /\ Lives(p) /\ calls' = calls
    BY <1>2, SlotWrites DEF BeginRun, Stages, At, Lives
  <2>2. RowsOf(proc[p].works, "running")
    BY <1>0, <1>2, <2>1, RowWrites DEF BeginRun, Row
  <2> QED BY <1>0, <2>1, <2>2 DEF RowsFollow, Slot, RowsOf, At, Lives, WorksAlone
<1>3. ASSUME NEW p \in Runs, Settle(p) PROVE RowsFollow'
  <2>1. Slot(p, "passes", proc[p].works) /\ Lives(p) /\ calls' = calls
    BY <1>3, SlotWrites DEF Settle, Stages, At, Lives
  <2>2. PICK status \in {"completed", "failed"} : RowsOf(proc[p].works, status)
    BY <1>0, <1>3, <2>1, RowWrites DEF Settle, Row, Settled
  <2> QED BY <1>0, <2>1, <2>2 DEF RowsFollow, Slot, RowsOf, At, Lives, WorksAlone
<1>4. ASSUME NEW p \in Runs, Unlock(p) PROVE RowsFollow'
  <2>1. CASE row[proc[p].works] = "failed"
    BY <1>4, <1>a, <2>1, SlotWrites DEF Unlock, At, Lives
  <2>2. CASE row[proc[p].works] # "failed"
    <3>1. Slot(p, "draining", proc[p].works)
      BY <1>4, <2>2, SlotWrites DEF Unlock, Stages
    <3> QED BY <1>0, <1>4, <3>1 DEF Unlock, RowsFollow, Slot, At
  <2> QED BY <2>1, <2>2
<1>5. ASSUME NEW p \in Runs, Drain(p) PROVE RowsFollow'
  BY <1>5, <1>c, SlotWrites DEF Drain, DrainsOn, At, Lives
<1>6. ASSUME NEW p \in Runs, Exit(p) PROVE RowsFollow'
  BY <1>6, <1>a, SlotWrites DEF Exit, At, Lives
<1>7. ASSUME NEW p \in Runs, Die(p) PROVE RowsFollow'
  BY <1>7, <1>a, SlotWrites DEF Die
<1>8. CASE AnalyzeStart
  <2>1. row' = row /\ calls' = calls
    BY <1>8 DEF AnalyzeStart
  <2> QED BY <1>8, <1>b, <1>c, <1>d, <2>1, StartWrites
<1>9. ASSUME NEW r \in Runs, AnalyzeStatus(r) PROVE RowsFollow'
  BY <1>9, <1>d DEF AnalyzeStatus, Begin
<1>10. ASSUME NEW r \in Runs, CancelKills(r) PROVE RowsFollow'
  BY <1>10, <1>a, SlotWrites DEF CancelKills, Begin
<1>11. ASSUME NEW c \in calls, MarkRunCancelled(c) PROVE RowsFollow'
  <2>1. c.run \in Runs /\ \A p \in Runs : Lives(p) => proc[p].works # c.run
    BY <1>11, MarksAlone DEF MarkRunCancelled
  <2>2. \A s \in Runs \ {c.run} : row'[s] = row[s]
    BY <1>0, <1>11, <2>1 DEF MarkRunCancelled, SetRow
  <2>3. proc' = proc /\ calls' \subseteq calls
    BY <1>11 DEF MarkRunCancelled, Answer
  <2> QED BY <1>0, <2>1, <2>2, <2>3 DEF RowsFollow, At, Lives
<1>12. ASSUME NEW c \in calls, ReadRunRow(c) PROVE RowsFollow'
  BY <1>12, <1>d DEF ReadRunRow, Answer
<1>13. CASE RequestRefresh \/ RestartServe \/ UNCHANGED vars
  BY <1>13, <1>d DEF RequestRefresh, RestartServe, vars
<1> QED BY <1>1, <1>2, <1>3, <1>4, <1>5, <1>6, <1>7, <1>8, <1>9, <1>10, <1>11, <1>12, <1>13
        DEF Next, Child, Tool

(* A child is at work on the row. *)
Worked(r) == \E p \in Runs : At(p, "working") /\ proc[p].works = r

(* No step strands a row otherwise than by a kill, an error or a lost write. *)
LEMMA StrandedStep ==
  TypeOK /\ WorksAlone /\ RowsFollow /\ StrandedOnlyByKill /\ [Next]_vars => StrandedOnlyByKill'
<1> SUFFICES ASSUME TypeOK, WorksAlone, RowsFollow, StrandedOnlyByKill, [Next]_vars,
                    NEW r \in Runs, row'[r] = "running"
             PROVE  r \in stray' \/ Marking(r)' \/ Worked(r)'
  BY DEF StrandedOnlyByKill, Worked
<1>0. /\ proc \in [Runs -> Proc] /\ row \in [Runs -> Row] /\ calls \subseteq Call
      /\ row[r] = "running" => r \in stray \/ Marking(r) \/ Worked(r)
      /\ \A p \in Runs : Lives(p) => proc[p].works \in Runs
      /\ \A c \in calls : c.run \in Runs
  BY DEF TypeOK, StrandedOnlyByKill, Worked, WorksAlone, Call
<1>a. ASSUME row'[r] = row[r], stray \subseteq stray', calls \subseteq calls',
             \A p \in Runs : At(p, "working") /\ proc[p].works = r => proc'[p] = proc[p]
      PROVE  r \in stray' \/ Marking(r)' \/ Worked(r)'
  BY <1>0, <1>a DEF Marking, Worked, At
<1> USE DEF child, handles, history
<1>1. ASSUME NEW p \in Runs, Lock(p) PROVE r \in stray' \/ Marking(r)' \/ Worked(r)'
  <2>1. ~At(p, "working") /\ \A q \in Runs \ {p} : proc'[q] = proc[q]
    BY <1>1, SlotWrites DEF Lock, At, Slot, Stages
  <2> QED BY <1>1, <1>a, <2>1 DEF Lock
<1>2. ASSUME NEW p \in Runs, BeginRun(p) PROVE r \in stray' \/ Marking(r)' \/ Worked(r)'
  <2>1. Slot(p, "working", proc[p].works) /\ Lives(p) /\ ~At(p, "working")
    BY <1>2, SlotWrites DEF BeginRun, Stages, At, Lives
  <2>2. CASE proc[p].works = r
    BY <2>1, <2>2 DEF Worked, At, Slot
  <2>3. CASE proc[p].works # r
    <3>1. row'[r] = row[r]
      BY <1>0, <1>2, <2>1, <2>3, RowWrites DEF BeginRun, RowsOf, Row
    <3> QED BY <1>2, <1>a, <2>1, <3>1 DEF BeginRun, Slot
  <2> QED BY <2>2, <2>3
<1>3. ASSUME NEW p \in Runs, Settle(p) PROVE r \in stray' \/ Marking(r)' \/ Worked(r)'
  <2>1. Slot(p, "passes", proc[p].works) /\ Lives(p)
    BY <1>3, SlotWrites DEF Settle, Stages, At, Lives
  <2>2. PICK status \in {"completed", "failed"} : RowsOf(proc[p].works, status)
    BY <1>0, <1>3, <2>1, RowWrites DEF Settle, Row, Settled
  <2>3. proc[p].works # r /\ row'[r] = row[r]
    BY <1>0, <2>2 DEF RowsOf
  <2> QED BY <1>3, <1>a, <2>1, <2>3 DEF Settle, Slot
<1>4. ASSUME NEW p \in Runs, Unlock(p) \/ Drain(p) \/ Exit(p)
      PROVE  r \in stray' \/ Marking(r)' \/ Worked(r)'
  <2>1. ~At(p, "working") /\ \A q \in Runs \ {p} : proc'[q] = proc[q]
    BY <1>4, SlotWrites DEF Unlock, Drain, DrainsOn, Exit, At, Slot, Stages
  <2> QED BY <1>4, <1>a, <2>1 DEF Unlock, Drain, Exit
<1>5. ASSUME NEW p \in Runs, Die(p) PROVE r \in stray' \/ Marking(r)' \/ Worked(r)'
  <2>1. \A q \in Runs \ {p} : proc'[q] = proc[q]
    BY <1>5, SlotWrites DEF Die, Slot
  <2>2. CASE At(p, "working") /\ proc[p].works = r
    BY <1>5, <2>2 DEF Die
  <2>3. CASE ~(At(p, "working") /\ proc[p].works = r)
    BY <1>5, <1>a, <2>1, <2>3 DEF Die
  <2> QED BY <2>2, <2>3
<1>6. CASE AnalyzeStart
  <2>1. \A q \in Runs : At(q, "working") => proc'[q] = proc[q]
    BY <1>6, StartWrites DEF Slot, Fresh, Used, At
  <2> QED BY <1>6, <1>a, <2>1 DEF AnalyzeStart
<1>7. ASSUME NEW s \in Runs, AnalyzeStatus(s) PROVE r \in stray' \/ Marking(r)' \/ Worked(r)'
  BY <1>7, <1>a DEF AnalyzeStatus, Begin
<1>8. ASSUME NEW s \in Runs, CancelKills(s) PROVE r \in stray' \/ Marking(r)' \/ Worked(r)'
  <2>1. \A q \in Runs \ {s} : proc'[q] = proc[q]
    BY <1>8, SlotWrites DEF CancelKills, Slot
  <2>2. CASE At(s, "working") /\ proc[s].works = r /\ s = r
    <3> DEFINE c == [op |-> "marking", run |-> s, flag |-> s \in flagged']
    <3>1. c \in calls' /\ c.op = "marking" /\ c.run = s
      BY <1>8 DEF CancelKills, Begin
    <3> HIDE DEF c
    <3> QED BY <2>2, <3>1 DEF Marking
  <2>3. CASE At(s, "working") /\ proc[s].works = r /\ s # r
    BY <1>8, <2>3 DEF CancelKills
  <2>4. CASE ~(At(s, "working") /\ proc[s].works = r)
    BY <1>8, <1>a, <2>1, <2>4 DEF CancelKills, Begin
  <2> QED BY <2>2, <2>3, <2>4
<1>9. ASSUME NEW c \in calls, MarkRunCancelled(c) PROVE r \in stray' \/ Marking(r)' \/ Worked(r)'
  <2>1. CASE c.run = r
    <3>1. row'[r] # Marked(row[r])
      BY DEF Marked
    <3> QED BY <1>0, <1>9, <2>1, <3>1 DEF MarkRunCancelled, SetRow
  <2>2. CASE c.run # r
    <3>1. row'[r] = row[r] /\ stray \subseteq stray' /\ proc' = proc
      BY <1>0, <1>9, <2>2 DEF MarkRunCancelled, SetRow
    <3>2. Marking(r) => Marking(r)'
      BY <1>9, <2>2 DEF MarkRunCancelled, Answer, Marking
    <3> QED BY <1>0, <3>1, <3>2 DEF Worked, At
  <2> QED BY <2>1, <2>2
<1>10. ASSUME NEW c \in calls, ReadRunRow(c) PROVE r \in stray' \/ Marking(r)' \/ Worked(r)'
  <2>1. Marking(r) => Marking(r)'
    BY <1>10 DEF ReadRunRow, Answer, Marking
  <2> QED BY <1>0, <1>10, <2>1 DEF ReadRunRow, Worked, At
<1>11. CASE RestartServe
  BY <1>0, <1>11 DEF RestartServe, Worked, At
<1>12. CASE RequestRefresh \/ UNCHANGED vars
  BY <1>12, <1>a DEF RequestRefresh, vars
<1> QED BY <1>1, <1>2, <1>3, <1>4, <1>5, <1>6, <1>7, <1>8, <1>9, <1>10, <1>11, <1>12
        DEF Next, Child, Tool
-----------------------------------------------------------------------------
Answered(r) == StillOpen(r) \/ EndedItself(r) \/ EndedByCancel(r)

(* A step that leaves a run and what is known of it alone. *)
LEMMA AnswerFrame ==
  ASSUME NEW r \in Runs, Answered(r),
         proc'[r] = proc[r], answers'[r] = answers[r],
         \A c : c.run = r => (c \in calls' <=> c \in calls),
         r \in registry' <=> r \in registry, r \in flagged' <=> r \in flagged,
         proc[r].stage = "gone" => row'[r] = row[r]
  PROVE  Answered(r)'
<1>1. CallsOn(r)' = CallsOn(r) /\ Marking(r)' = Marking(r)
  BY DEF CallsOn, Marking
<1>2. StillOpen(r) => StillOpen(r)'
  BY <1>1 DEF StillOpen, Told
<1>3. EndedItself(r) => EndedItself(r)'
  BY <1>1 DEF EndedItself
<1>4. EndedByCancel(r) => EndedByCancel(r)'
  BY <1>1 DEF EndedByCancel
<1> QED BY <1>2, <1>3, <1>4 DEF Answered

(* A step of a child: it may end by itself. *)
LEMMA AnswerChild ==
  ASSUME NEW r \in Runs, Answered(r), NEW p \in Runs, Lives(p),
         NEW stage, stage # "none", NEW works, Slot(p, stage, works),
         answers' = answers, calls' = calls, registry' = registry, flagged' = flagged,
         p # r /\ proc[r].stage = "gone" => row'[r] = row[r]
  PROVE  Answered(r)'
<1>1. CASE p # r
  BY <1>1, AnswerFrame DEF Slot
<1>2. CASE p = r
  <2>1. StillOpen(r)
    BY <1>2 DEF Answered, EndedItself, EndedByCancel, Lives
  <2>2. CallsOn(r)' = {} /\ proc'[r].stage = stage /\ r \in registry'
    BY <1>2, <2>1 DEF StillOpen, CallsOn, Slot, Told, Lives
  <2>3. CASE stage = "gone"
    BY <2>1, <2>2, <2>3 DEF Answered, StillOpen, EndedItself
  <2>4. CASE stage # "gone"
    BY <2>1, <2>2, <2>4 DEF Answered, StillOpen
  <2> QED BY <2>3, <2>4
<1> QED BY <1>1, <1>2

(* Every step leaves each run that must stand by its answer with one answer. *)
LEMMA AnswerStep == TypeOK /\ WorksAlone /\ RowsFollow /\ OneAnswer /\ [Next]_vars => OneAnswer'
<1> SUFFICES ASSUME TypeOK, WorksAlone, RowsFollow, OneAnswer, [Next]_vars,
                    NEW r \in Runs, r \notin excused'
             PROVE  Answered(r)'
  BY DEF OneAnswer, Answered
<1>0. /\ proc \in [Runs -> Proc] /\ row \in [Runs -> Row] /\ calls \subseteq Call
      /\ answers \in [Runs -> SUBSET Settled] /\ flagged \subseteq registry
      /\ \A p \in Runs : Lives(p) => proc[p].works \in Runs
      /\ \A c \in calls : c.run \in Runs /\ c.flag \in BOOLEAN
  BY DEF TypeOK, WorksAlone, Call
<1>a. excused \subseteq excused'
  BY DEF Next, Child, Tool, Lock, BeginRun, Settle, Unlock, Drain, Exit, Die, RequestRefresh,
         AnalyzeStart, AnalyzeStatus, CancelKills, MarkRunCancelled, ReadRunRow, RestartServe,
         vars, child, handles, history
<1>b. Answered(r)
  BY <1>a DEF OneAnswer, Answered
<1>c. \A p \in Runs : Lives(p) /\ p # r /\ proc[r].stage = "gone" => proc[p].works # r
  BY DEF WorksAlone
<1> USE DEF child, handles, history
<1>1. ASSUME NEW p \in Runs, Lock(p) PROVE Answered(r)'
  BY <1>1, <1>b, AnswerChild, SlotWrites DEF Lock, At, Lives, Stages
<1>2. ASSUME NEW p \in Runs, BeginRun(p) PROVE Answered(r)'
  <2>1. Slot(p, "working", proc[p].works) /\ Lives(p)
    BY <1>2, SlotWrites DEF BeginRun, Stages, At, Lives
  <2>2. p # r /\ proc[r].stage = "gone" => row'[r] = row[r]
    BY <1>0, <1>2, <1>c, <2>1 DEF BeginRun, SetRow
  <2> QED BY <1>2, <1>b, <2>1, <2>2, AnswerChild DEF BeginRun
<1>3. ASSUME NEW p \in Runs, Settle(p) PROVE Answered(r)'
  <2>1. Slot(p, "passes", proc[p].works) /\ Lives(p)
    BY <1>3, SlotWrites DEF Settle, Stages, At, Lives
  <2>2. p # r /\ proc[r].stage = "gone" => row'[r] = row[r]
    BY <1>0, <1>3, <1>c, <2>1 DEF Settle, SetRow
  <2> QED BY <1>3, <1>b, <2>1, <2>2, AnswerChild DEF Settle
<1>4. ASSUME NEW p \in Runs, Unlock(p) PROVE Answered(r)'
  BY <1>4, <1>b, AnswerChild, SlotWrites DEF Unlock, At, Lives, Stages
<1>5. ASSUME NEW p \in Runs, Drain(p) \/ Exit(p) PROVE Answered(r)'
  BY <1>5, <1>b, AnswerChild, SlotWrites DEF Drain, DrainsOn, Exit, At, Lives
<1>6. ASSUME NEW p \in Runs, Die(p) PROVE Answered(r)'
  BY <1>6, <1>b, AnswerChild, SlotWrites DEF Die
<1>7. CASE AnalyzeStart
  <2>1. /\ calls' = calls /\ answers' = answers /\ row' = row /\ flagged' = flagged \cap Kept
        /\ r \in registry \ Kept => ~Marking(r)
        /\ r \in Kept => r \in registry'
    BY <1>7 DEF AnalyzeStart, Flags
  <2>2. CallsOn(r)' = CallsOn(r) /\ Marking(r)' = Marking(r)
    BY <2>1 DEF CallsOn, Marking
  <2>3. CASE proc'[r] = proc[r]
    <3>1. CASE StillOpen(r)
      BY <2>1, <2>2, <2>3, <3>1 DEF StillOpen, Answered, Told, Kept, Lives
    <3>2. CASE EndedItself(r)
      BY <2>1, <2>2, <2>3, <3>2 DEF EndedItself, Answered
    <3>3. CASE EndedByCancel(r)
      <4>1. r \notin registry'
        <5>1. Fresh \cap Asked # {} => NewId \in Fresh
          BY DEF NewId
        <5> QED BY <1>7, <2>3, <3>3, <5>1 DEF AnalyzeStart, EndedByCancel, Kept, Lives, Fresh, Used
      <4>2. ~Marking(r)
        BY <2>1, <3>3 DEF EndedByCancel, Kept, Lives
      <4>3. \A c \in CallsOn(r) : c.flag \/ c.op = "absent"
        BY <3>3, <4>2 DEF EndedByCancel, CallsOn, Marking
      <4> QED BY <2>1, <2>2, <2>3, <3>3, <4>1, <4>2, <4>3 DEF EndedByCancel, Answered
    <3> QED BY <1>b, <3>1, <3>2, <3>3 DEF Answered
  <2>4. CASE proc'[r] # proc[r]
    <3>1. r = NewId /\ NewId \in Fresh /\ proc'[r].stage = "spawned"
      BY <1>7, <2>4, StartWrites DEF Slot
    <3>2. proc[r].stage = "none" /\ r \in registry'
      BY <1>7, <2>4, <3>1 DEF Fresh, Used, AnalyzeStart
    <3>3. StillOpen(r)
      BY <1>b, <3>2 DEF Answered, EndedItself, EndedByCancel
    <3> QED BY <2>1, <2>2, <3>1, <3>2, <3>3 DEF StillOpen, Answered
  <2> QED BY <2>3, <2>4
<1>d. ASSUME NEW op \in {"exited", "absent", "marking"}, NEW s \in Runs, Begin(op, s)
      PROVE  \E c : /\ calls' = calls \cup {c} /\ c.op = op /\ c.run = s
                    /\ c.flag = (s \in flagged')
  <2> DEFINE c == [op |-> op, run |-> s, flag |-> s \in flagged']
  <2>1. calls' = calls \cup {c}
    BY <1>d DEF Begin
  <2>2. c.op = op /\ c.run = s
    OBVIOUS
  <2>3. c.flag = (s \in flagged')
    BY Zenon
  <2> HIDE DEF c
  <2> QED BY <2>1, <2>2, <2>3
<1>8. ASSUME NEW s \in Runs, AnalyzeStatus(s) PROVE Answered(r)'
  <2>1. PICK c : /\ calls' = calls \cup {c} /\ c.run = s /\ c.flag = (s \in flagged')
                 /\ c.op = IF s \in registry THEN "exited" ELSE "absent"
    BY <1>8, <1>d DEF AnalyzeStatus
  <2>2. CASE s # r
    BY <1>8, <1>b, <2>1, <2>2, AnswerFrame DEF AnalyzeStatus
  <2>3. CASE s = r
    <3>1. CallsOn(r)' = CallsOn(r) \cup {c} /\ Marking(r)' = Marking(r)
      BY <2>1, <2>3 DEF CallsOn, Marking
    <3>2. ~StillOpen(r)
      BY <1>8, <2>3 DEF AnalyzeStatus, StillOpen, Told, Lives
    <3>3. EndedItself(r) => EndedItself(r)'
      BY <1>8, <2>1, <2>3, <3>1 DEF AnalyzeStatus, EndedItself
    <3>4. EndedByCancel(r) => EndedByCancel(r)'
      BY <1>8, <2>1, <2>3, <3>1 DEF AnalyzeStatus, EndedByCancel
    <3> QED BY <1>b, <3>2, <3>3, <3>4 DEF Answered
  <2> QED BY <2>2, <2>3
<1>9. ASSUME NEW s \in Runs, CancelKills(s) PROVE Answered(r)'
  <2>1. PICK c : calls' = calls \cup {c} /\ c.run = s /\ c.op = "marking"
    BY <1>9, <1>d DEF CancelKills
  <2>2. Slot(s, "gone", s)
    BY <1>9, SlotWrites DEF CancelKills
  <2>3. CASE s # r
    BY <1>9, <1>b, <2>1, <2>2, <2>3, AnswerFrame DEF CancelKills, Slot
  <2>4. CASE s = r
    <3>1. StillOpen(r)
      BY <1>9, <1>b, <2>4 DEF CancelKills, Answered, EndedItself, EndedByCancel, Lives
    <3>2. row'[r] \in {"absent", "running"}
      BY <1>0, <1>9, <2>4 DEF CancelKills, Row
    <3>3. CallsOn(r)' = {c} /\ Marking(r)'
      BY <2>1, <2>4, <3>1 DEF CallsOn, Marking, StillOpen
    <3>4. proc'[r].stage = "gone" /\ answers'[r] = {} /\ r \in registry' /\ r \in flagged'
      BY <1>9, <2>2, <2>4, <3>1 DEF CancelKills, StillOpen, Slot
    <3> QED BY <2>1, <3>2, <3>3, <3>4 DEF Answered, EndedByCancel
  <2> QED BY <2>3, <2>4
<1>10. ASSUME NEW c \in calls, MarkRunCancelled(c) PROVE Answered(r)'
  <2>1. CASE c.run # r
    BY <1>0, <1>10, <1>b, <2>1, AnswerFrame DEF MarkRunCancelled, Answer, SetRow
  <2>2. CASE c.run = r
    <3>1. EndedByCancel(r)
      BY <1>10, <1>b, <2>2 DEF MarkRunCancelled, Answered, StillOpen, EndedItself, CallsOn
    <3>2. row'[r] \in {"absent", "cancelled"}
      BY <1>0, <1>10, <2>2, <3>1 DEF MarkRunCancelled, SetRow, Marked, EndedByCancel
    <3>3. answers'[r] \subseteq {"cancelled"} /\ CallsOn(r)' \subseteq CallsOn(r)
      BY <1>0, <1>10, <2>2, <3>1 DEF MarkRunCancelled, Answer, EndedByCancel, CallsOn
    <3>4. UNCHANGED <<proc, registry, flagged>> /\ r \in registry
      BY <1>10, <2>2, <3>1 DEF MarkRunCancelled, EndedByCancel, Marking
    <3> QED BY <3>1, <3>2, <3>3, <3>4 DEF Answered, EndedByCancel
  <2> QED BY <2>1, <2>2
<1>11. ASSUME NEW c \in calls, ReadRunRow(c) PROVE Answered(r)'
  <2>1. CASE c.run # r
    BY <1>0, <1>11, <1>b, <2>1, AnswerFrame DEF ReadRunRow, Answer
  <2>2. CASE c.run = r
    <3>1. c \in CallsOn(r) /\ CallsOn(r)' \subseteq CallsOn(r) /\ Marking(r)' = Marking(r)
      BY <1>11, <2>2 DEF ReadRunRow, Answer, CallsOn, Marking
    <3>2. UNCHANGED <<proc, row, registry, flagged>>
      BY <1>11 DEF ReadRunRow
    <3> DEFINE said == IF row[r] = "absent" /\ c.op = "absent"
                       THEN {} ELSE {TerminalStatus(row[r], c.flag)}
    <3>3. answers'[r] = answers[r] \cup said
      BY <1>0, <1>11, <2>2 DEF ReadRunRow, Answer
    <3>4. ASSUME EndedItself(r) PROVE Answered(r)'
      <4>1. said \subseteq {MapRunStatus(row[r])}
        BY <3>1, <3>4 DEF EndedItself, TerminalStatus
      <4> HIDE DEF said
      <4> QED BY <3>1, <3>2, <3>3, <3>4, <4>1 DEF EndedItself, Answered
    <3>5. ASSUME EndedByCancel(r) PROVE Answered(r)'
      <4>1. c.flag \/ (c.op = "absent" /\ row[r] \in {"absent", "cancelled"})
        BY <1>11, <3>1, <3>5 DEF EndedByCancel, ReadRunRow
      <4>2. said \subseteq {"cancelled"}
        BY <4>1 DEF TerminalStatus, MapRunStatus
      <4> HIDE DEF said
      <4> QED BY <3>1, <3>2, <3>3, <3>5, <4>2 DEF EndedByCancel, Answered
    <3> QED BY <1>b, <3>1, <3>4, <3>5 DEF Answered, StillOpen
  <2> QED BY <2>1, <2>2
<1>12. CASE RestartServe
  <2>1. r \notin registry /\ r \notin registry' /\ r \notin flagged' /\ calls' = {}
    BY <1>12 DEF RestartServe
  <2>2. UNCHANGED <<proc, row, answers>> /\ CallsOn(r)' = {} /\ ~Marking(r)'
    BY <1>12, <2>1 DEF RestartServe, CallsOn, Marking
  <2>3. StillOpen(r) => StillOpen(r)'
    BY <2>1, <2>2 DEF StillOpen, Told
  <2>4. EndedItself(r) => EndedItself(r)'
    BY <2>1, <2>2 DEF EndedItself
  <2>5. EndedByCancel(r) => EndedByCancel(r)'
    BY <2>1, <2>2 DEF EndedByCancel
  <2> QED BY <1>b, <2>3, <2>4, <2>5 DEF Answered
<1>13. CASE RequestRefresh \/ UNCHANGED vars
  BY <1>13, <1>b, AnswerFrame DEF RequestRefresh, vars
<1> QED BY <1>1, <1>2, <1>3, <1>4, <1>5, <1>6, <1>7, <1>8, <1>9, <1>10, <1>11, <1>12, <1>13
        DEF Next, Child, Tool
-----------------------------------------------------------------------------
(* At first there is no child, no row, no call and nothing has been said. *)
LEMMA InitIInv == Init => IInv
<1> SUFFICES ASSUME Init PROVE IInv
  OBVIOUS
<1>1. NoProc \in Proc /\ NoProc.stage = "none"
  BY SupervisedAssumption DEF NoProc, Proc, Stages
<1>2. TypeOK
  <2>1. proc \in [Runs -> Proc] /\ row \in [Runs -> Row] /\ faults \in 0 .. MaxFaults
    BY <1>1, SupervisedAssumption DEF Init, Row
  <2>2. answers \in [Runs -> SUBSET Settled] /\ flagged \subseteq registry /\ calls \subseteq Call
    BY DEF Init
  <2> QED BY <2>1, <2>2 DEF Init, TypeOK
<1>3. WorksAlone /\ RowsFollow /\ StrandedOnlyByKill
  BY <1>1 DEF Init, WorksAlone, RowsFollow, StrandedOnlyByKill, Lives, At
<1>4. OneAnswer
  BY <1>1 DEF Init, OneAnswer, StillOpen, CallsOn, Told
<1> QED BY <1>2, <1>3, <1>4 DEF IInv

(* No step leaves the inductive invariant. *)
LEMMA StepIInv == IInv /\ [Next]_vars => IInv'
  BY TypeStep, AloneStep, RowsStep, StrandedStep, AnswerStep DEF IInv

(* So it holds throughout. *)
LEMMA SpecIInv == Spec => []IInv
  BY InitIInv, StepIInv, PTL DEF Spec

(* The variables keep their types, however calls, children and servers overlap. *)
THEOREM TypeSafety == Spec => []TypeOK
<1>1. IInv => TypeOK
  BY DEF IInv
<1> QED BY <1>1, SpecIInv, PTL

(* A row reads running with nobody at work on it only by a kill from outside, a
   write that was lost, or a cancel that met the follow-up. *)
THEOREM RowsAreSettled == Spec => []StrandedOnlyByKill
<1>1. IInv => StrandedOnlyByKill
  BY DEF IInv
<1> QED BY <1>1, SpecIInv, PTL

(* A client that asks again about a run that is over hears what it heard before,
   unless the run is one of the exceptions. *)
THEOREM OneAnswerEach == Spec => []AnswersStand
<1>1. IInv => AnswersStand
  <2> SUFFICES ASSUME IInv, NEW r \in Runs, r \notin excused
               PROVE  ~(Cardinality(answers[r]) > 1)
    BY DEF AnswersStand
  <2>1. PICK status : answers[r] \subseteq {status}
    BY DEF IInv, OneAnswer, StillOpen, EndedItself, EndedByCancel
  <2>2. IsFiniteSet({status}) /\ Cardinality({status}) = 1
    BY FS_Singleton
  <2>3. Cardinality(answers[r]) <= 1 /\ Cardinality(answers[r]) \in Nat
    BY <2>1, <2>2, FS_Subset, FS_CardinalityType
  <2> QED BY <2>3
<1> QED BY <1>1, SpecIInv, PTL

(* No step changes a row that has settled: not that of a late child, not that
   of a late cancel. *)
THEOREM NoRowSettlesTwice == Spec => SettledRowsStand
<1>1. ASSUME IInv, [Next]_vars, NEW r \in Runs, row[r] \in Settled
      PROVE  row'[r] = row[r]
  <2>0. /\ row \in [Runs -> Row] /\ TypeOK /\ RowsFollow
        /\ \A p \in Runs : Lives(p) => proc[p].works \in Runs
    BY <1>1 DEF IInv, TypeOK, WorksAlone
  <2>1. ASSUME NEW p \in Runs, BeginRun(p) PROVE row'[r] = row[r]
    <3>1. row[proc[p].works] = "absent" /\ Lives(p)
      BY <2>0, <2>1 DEF BeginRun, At, RowsFollow, Lives
    <3> QED BY <1>1, <2>0, <2>1, <3>1 DEF BeginRun, SetRow, Settled
  <2>2. ASSUME NEW p \in Runs, Settle(p) PROVE row'[r] = row[r]
    <3>1. row[proc[p].works] = "running" /\ Lives(p)
      BY <2>0, <2>2 DEF Settle, At, RowsFollow, Lives
    <3> QED BY <1>1, <2>0, <2>2, <3>1 DEF Settle, SetRow, Settled
  <2>3. ASSUME NEW c \in calls, MarkRunCancelled(c) PROVE row'[r] = row[r]
    BY <1>1, <2>0, <2>3 DEF MarkRunCancelled, SetRow, Marked, Settled
  <2>4. CASE /\ ~\E p \in Runs : BeginRun(p) \/ Settle(p)
             /\ ~\E c \in calls : MarkRunCancelled(c)
    BY <1>1, <2>4 DEF Next, Child, Tool, Lock, Unlock, Drain, Exit, Die, RequestRefresh,
       AnalyzeStart, AnalyzeStatus, CancelKills, ReadRunRow, RestartServe, vars, child
  <2> QED BY <2>1, <2>2, <2>3, <2>4
<1>2. IInv /\ [Next]_vars => [\A r \in Runs : row[r] \in Settled => row'[r] = row[r]]_vars
  BY <1>1
<1> QED BY <1>2, SpecIInv, PTL DEF Spec, SettledRowsStand
-----------------------------------------------------------------------------
(***************************************************************************)
(* One writer at a time, and an end for every child.                       *)
(***************************************************************************)
HasLock == {"locked", "working", "passes"}

(* The stages between taking the lock and giving it back are those of its holder. *)
LockHeld == \A p \in Runs : proc[p].stage \in HasLock <=> lock = p

(* A row is written by one process at a time: opened and settled by the child
   that holds the lock and works on it, and marked by a cancel only when no
   child is left that could still settle it. *)
RowsHaveOneWriter ==
  [][\A r \in Runs :
       \/ row'[r] = row[r]
       \/ /\ row[r] = "absent" /\ row'[r] = "running"
          /\ \E p \in Runs : lock = p /\ proc[p].works = r
       \/ /\ row[r] = "running" /\ row'[r] \in {"completed", "failed"}
          /\ \E p \in Runs : lock = p /\ proc[p].works = r
       \/ /\ row[r] = "running" /\ row'[r] = "cancelled"
          /\ \A p \in Runs : Lives(p) => proc[p].works # r]_vars

(* What a child still has to go through: its rounds, and the stages of one. *)
StagesLeft ==
  [stage \in Stages |->
     CASE stage = "spawned" -> 5 [] stage = "locked"   -> 4 [] stage = "working" -> 3
       [] stage = "passes"  -> 2 [] stage = "draining" -> 1 [] OTHER -> 0]

WayToGo(p) == 5 * (MaxFollowUps - proc[p].drained) + StagesLeft[proc[p].stage]

(* The guards of Child(p). *)
ChildMayGo(p) ==
  \/ proc[p].stage \in {"spawned", "locked", "working", "passes"}
  \/ DrainsOn(p) /\ Fresh \ Asked # {}
  \/ At(p, "draining") /\ ~DrainsOn(p)

(* A child that lives can go on, as long as there are run ids. *)
NoChildWaits == Fresh \ Asked # {} => \A p \in Runs : Lives(p) => ChildMayGo(p)

ChildrenAreBounded ==
  [][\A p \in Runs :
       \/ proc'[p] = proc[p]
       \/ ~Lives(p)'
       \/ ~Told(p) /\ proc'[p] = [stage |-> "spawned", works |-> p, drained |-> 0]
       \/ Lives(p) /\ WayToGo(p)' \in Nat /\ WayToGo(p)' < WayToGo(p)]_vars

(* Every step leaves the lock with the one child in the stages that have it. *)
LEMMA LockStep == TypeOK /\ LockHeld /\ [Next]_vars => LockHeld'
<1> SUFFICES ASSUME TypeOK, LockHeld, [Next]_vars PROVE LockHeld'
  OBVIOUS
<1>0. proc \in [Runs -> Proc] /\ None \notin Runs
  BY SupervisedAssumption DEF TypeOK
<1> USE DEF LockHeld, HasLock, Slot
<1>a. UNCHANGED <<proc, lock>> => LockHeld'
  OBVIOUS
<1>1. ASSUME NEW p \in Runs, Lock(p) PROVE LockHeld'
  <2>1. CASE lock = None
    <3>1. Slot(p, "locked", proc[p].works)
      BY <1>1, <2>1, SlotWrites DEF Lock, Stages
    <3> QED BY <1>0, <1>1, <2>1, <3>1 DEF Lock
  <2>2. CASE lock # None
    BY <1>0, <1>1, <2>2, SlotWrites DEF Lock, At
  <2> QED BY <2>1, <2>2
<1>2. ASSUME NEW p \in Runs, BeginRun(p) PROVE LockHeld'
  <2>1. Slot(p, "working", proc[p].works)
    BY <1>2, SlotWrites DEF BeginRun, Stages
  <2> QED BY <1>0, <1>2, <2>1 DEF BeginRun, At
<1>3. ASSUME NEW p \in Runs, Settle(p) PROVE LockHeld'
  <2>1. Slot(p, "passes", proc[p].works)
    BY <1>3, SlotWrites DEF Settle, Stages
  <2> QED BY <1>0, <1>3, <2>1 DEF Settle, At
<1>4. ASSUME NEW p \in Runs, Unlock(p) PROVE LockHeld'
  <2>1. \E stage \in {"gone", "draining"} : proc'[p].stage = stage
        /\ \A q \in Runs \ {p} : proc'[q] = proc[q]
    BY <1>4, SlotWrites DEF Unlock, Stages
  <2> QED BY <1>0, <1>4, <2>1 DEF Unlock, At
<1>5. ASSUME NEW p \in Runs, Drain(p) \/ Exit(p) PROVE LockHeld'
  BY <1>0, <1>5, SlotWrites DEF Drain, DrainsOn, Exit, At
<1>6. ASSUME NEW p \in Runs, Die(p) \/ CancelKills(p) PROVE LockHeld'
  BY <1>0, <1>6, SlotWrites DEF Die, CancelKills, Released
<1>7. CASE AnalyzeStart
  <2>1. lock' = lock /\ \A r \in Fresh : r \in Runs /\ proc[r].stage = "none"
    BY <1>7 DEF AnalyzeStart, Fresh, Used
  <2> QED BY <1>0, <1>7, <2>1, StartWrites
<1>8. CASE RequestRefresh \/ RestartServe \/ UNCHANGED vars
  BY <1>8 DEF RequestRefresh, RestartServe, child, vars
<1>9. ASSUME NEW r \in Runs, AnalyzeStatus(r) PROVE LockHeld'
  BY <1>9, <1>a DEF AnalyzeStatus, child
<1>10. ASSUME NEW c \in calls, MarkRunCancelled(c) \/ ReadRunRow(c) PROVE LockHeld'
  BY <1>10, <1>a DEF MarkRunCancelled, ReadRunRow, child
<1> QED BY <1>1, <1>2, <1>3, <1>4, <1>5, <1>6, <1>7, <1>8, <1>9, <1>10 DEF Next, Child, Tool

(* At most one child is between taking the lock and giving it back, the holder. *)
THEOREM LockIsExclusive == Spec => []LockHeld
<1>1. Init => LockHeld
  BY SupervisedAssumption DEF Init, LockHeld, NoProc, HasLock
<1>2. IInv /\ LockHeld /\ [Next]_vars => LockHeld'
  BY LockStep DEF IInv
<1> QED BY <1>1, <1>2, SpecIInv, PTL DEF Spec

(* No row is written by two processes at a time: only the holder of the lock
   opens or settles a row, and a cancel marks one that nobody is left to settle. *)
THEOREM OneWriterPerRow == Spec => RowsHaveOneWriter
<1> DEFINE Written(r) ==
       \/ row'[r] = row[r]
       \/ /\ row[r] = "absent" /\ row'[r] = "running"
          /\ \E p \in Runs : lock = p /\ proc[p].works = r
       \/ /\ row[r] = "running" /\ row'[r] \in {"completed", "failed"}
          /\ \E p \in Runs : lock = p /\ proc[p].works = r
       \/ /\ row[r] = "running" /\ row'[r] = "cancelled"
          /\ \A p \in Runs : Lives(p) => proc[p].works # r
<1>1. ASSUME IInv, LockHeld, [Next]_vars, NEW r \in Runs PROVE Written(r)
  <2>0. /\ row \in [Runs -> Row] /\ TypeOK /\ RowsFollow /\ WorksAlone
        /\ \A p \in Runs : Lives(p) => proc[p].works \in Runs
    BY <1>1 DEF IInv, TypeOK, WorksAlone
  <2>1. ASSUME NEW p \in Runs, BeginRun(p) PROVE Written(r)
    <3>1. row[proc[p].works] = "absent" /\ Lives(p) /\ lock = p
      BY <1>1, <2>0, <2>1 DEF BeginRun, At, RowsFollow, Lives, LockHeld, HasLock
    <3> QED BY <2>0, <2>1, <3>1 DEF BeginRun, SetRow
  <2>2. ASSUME NEW p \in Runs, Settle(p) PROVE Written(r)
    <3>1. row[proc[p].works] = "running" /\ Lives(p) /\ lock = p
      BY <1>1, <2>0, <2>2 DEF Settle, At, RowsFollow, Lives, LockHeld, HasLock
    <3> QED BY <2>0, <2>2, <3>1 DEF Settle, SetRow
  <2>3. ASSUME NEW c \in calls, MarkRunCancelled(c) PROVE Written(r)
    <3>1. c.run \in Runs /\ \A p \in Runs : Lives(p) => proc[p].works # c.run
      BY <2>0, <2>3, MarksAlone DEF MarkRunCancelled
    <3> QED BY <2>0, <2>3, <3>1 DEF MarkRunCancelled, SetRow, Marked
  <2>4. CASE /\ ~\E p \in Runs : BeginRun(p) \/ Settle(p)
             /\ ~\E c \in calls : MarkRunCancelled(c)
    BY <1>1, <2>4 DEF Next, Child, Tool, Lock, Unlock, Drain, Exit, Die, RequestRefresh,
       AnalyzeStart, AnalyzeStatus, CancelKills, ReadRunRow, RestartServe, vars, child
  <2> QED BY <2>1, <2>2, <2>3, <2>4
<1>2. IInv /\ LockHeld /\ [Next]_vars => [\A r \in Runs : Written(r)]_vars
  BY <1>1
<1> QED BY <1>2, SpecIInv, LockIsExclusive, PTL DEF Spec, RowsHaveOneWriter

(* A child that lives never waits: whatever holds the lock, it goes on or ends. *)
THEOREM NoChildWaitsHolds == Spec => []NoChildWaits
<1>1. IInv => NoChildWaits
  <2> SUFFICES ASSUME TypeOK, Fresh \ Asked # {}, NEW p \in Runs, Lives(p) PROVE ChildMayGo(p)
    BY DEF IInv, NoChildWaits
  <2>1. proc[p].stage \in Stages /\ proc[p].drained \in 0 .. MaxFollowUps /\ MaxFollowUps \in Nat
    BY SupervisedAssumption DEF TypeOK, Proc
  <2> QED BY <2>1 DEF ChildMayGo, Lives, At, Stages
<1> QED BY <1>1, SpecIInv, PTL

(* The stages in numbers. *)
LEMMA StageValues ==
  /\ StagesLeft["spawned"] = 5 /\ StagesLeft["locked"] = 4 /\ StagesLeft["working"] = 3
  /\ StagesLeft["passes"] = 2 /\ StagesLeft["draining"] = 1
  /\ \A stage \in Stages : StagesLeft[stage] \in 0 .. 5
  BY DEF StagesLeft, Stages

(* A child comes nearer to its end with each step it takes, the rounds it drains
   included: MAX_PENDING_FOLLOW_UPS bounds it however many refreshes are queued. *)
THEOREM ChildrenEndInTime == Spec => ChildrenAreBounded
<1> DEFINE Fine(p) ==
       \/ proc'[p] = proc[p]
       \/ ~Lives(p)'
       \/ ~Told(p) /\ proc'[p] = [stage |-> "spawned", works |-> p, drained |-> 0]
       \/ Lives(p) /\ WayToGo(p)' \in Nat /\ WayToGo(p)' < WayToGo(p)
<1>1. ASSUME TypeOK, [Next]_vars, NEW p \in Runs PROVE Fine(p)
  <2>0. /\ proc \in [Runs -> Proc] /\ MaxFollowUps \in Nat
        /\ proc[p].stage \in Stages /\ proc[p].drained \in 0 .. MaxFollowUps
    BY <1>1, SupervisedAssumption DEF TypeOK, Proc
  <2>a. ASSUME NEW from \in Stages, NEW to \in Stages, At(p, from), Goto(p, to), Lives(p),
               StagesLeft[to] < StagesLeft[from]
        PROVE  Fine(p)
    <3>1. proc'[p].stage = to /\ proc'[p].drained = proc[p].drained
      BY <2>0, <2>a DEF Goto, Proc
    <3> QED BY <2>0, <2>a, <3>1, StageValues DEF WayToGo, At
  <2>b. ASSUME NEW q \in Runs, q # p, NEW stage, NEW works, Slot(q, stage, works) PROVE Fine(p)
    BY <2>b DEF Slot
  <2>c. ASSUME End(p) PROVE Fine(p)
    BY <1>1, <2>c, SlotWrites DEF Slot, Lives
  <2>1. ASSUME NEW q \in Runs, q # p, Child(q) \/ Die(q) \/ CancelKills(q) PROVE Fine(p)
    BY <1>1, <2>1, <2>b, SlotWrites
       DEF Child, Lock, BeginRun, Settle, Unlock, Drain, Exit, Die, CancelKills, Stages
  <2>2. CASE Lock(p)
    BY <2>2, <2>a, <2>c, StageValues DEF Lock, Stages, At, Lives
  <2>3. CASE BeginRun(p) \/ Settle(p)
    BY <2>3, <2>a, StageValues DEF BeginRun, Settle, Stages, At, Lives
  <2>4. CASE Unlock(p)
    BY <2>4, <2>a, <2>c, StageValues DEF Unlock, Stages, At, Lives
  <2>5. CASE Drain(p)
    <3>1. /\ At(p, "draining") /\ Lives(p) /\ proc[p].drained < MaxFollowUps
          /\ proc'[p].stage = "spawned" /\ proc'[p].drained = proc[p].drained + 1
      BY <2>0, <2>5 DEF Drain, DrainsOn, At, Lives
    <3>2. WayToGo(p) = 5 * (MaxFollowUps - proc[p].drained) + 1
      BY <3>1, StageValues DEF WayToGo, At
    <3>3. WayToGo(p)' = 5 * (MaxFollowUps - (proc[p].drained + 1)) + 5
      BY <3>1, StageValues DEF WayToGo
    <3> QED BY <2>0, <3>1, <3>2, <3>3
  <2>6. CASE Exit(p) \/ Die(p) \/ CancelKills(p)
    BY <2>6, <2>c DEF Exit, Die, CancelKills
  <2>7. CASE AnalyzeStart
    <3>1. \A r \in Fresh : r \in Runs /\ proc[r].stage = "none"
      BY DEF Fresh, Used
    <3>2. Fresh \cap Asked # {} => NewId \in Fresh
      BY DEF NewId
    <3> QED BY <2>0, <2>7, <3>1, <3>2 DEF AnalyzeStart, Told
  <2>8. CASE UNCHANGED proc
    BY <2>8
  <2>9. \/ UNCHANGED proc \/ AnalyzeStart
        \/ \E q \in Runs : Child(q) \/ Die(q) \/ CancelKills(q)
    BY <1>1 DEF Next, Tool, RequestRefresh, AnalyzeStatus, MarkRunCancelled, ReadRunRow,
       RestartServe, vars, child
  <2> QED BY <2>1, <2>2, <2>3, <2>4, <2>5, <2>6, <2>7, <2>8, <2>9 DEF Child
<1>2. IInv /\ [Next]_vars => [\A p \in Runs : Fine(p)]_vars
  BY <1>1 DEF IInv
<1> QED BY <1>2, SpecIInv, PTL DEF Spec, ChildrenAreBounded
==============================================================================
