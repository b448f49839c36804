------------------------- MODULE WriterActor_proofs -------------------------
(***************************************************************************)
(* What holds of the writer actor for every number of runs, entities,      *)
(* batch size and session bound.  The argument is one inductive invariant, *)
(* IInv, that ties the actor's two beliefs (`in_tx`, `current_run`) to     *)
(* SQLite's transaction and to the row of `runs`; the safety properties    *)
(* are read off it one action at a time.                                   *)
(***************************************************************************)
EXTENDS WriterActor, TLAPS

(* Where the process is, and what that says of the actor. *)
Process ==
  /\ pc = "idle" <=> job = None
  /\ pc # "idle" => config \in Configs
  /\ pc \in {"idle", "opening"} => current = None /\ ~sqlTx /\ ~inTx
  /\ pc \in Working => inTx /\ sqlTx
  /\ pc \in Working \cup {"committing", "failing"} => current = job
  /\ current # None => current = job /\ disk.runs[current] = "running"

(* What the connection sees beyond the file is the open transaction's, and a
   run's row changes in it only when the run is given up. *)
Transaction ==
  /\ ~sqlTx => view = disk
  /\ current # None => view.runs = disk.runs
  /\ sqlTx /\ ~inTx => job \in faulted

(* Every row that reads running has its process, or is known lost. *)
Rows == \A r \in Runs : disk.runs[r] = "running" => r \in faulted \/ r = current

IInv == TypeOK /\ Process /\ Transaction /\ Rows
-----------------------------------------------------------------------------
(* Setting the status of a row leaves the graph alone. *)
LEMMA WithStatusType ==
  ASSUME NEW db \in Db, NEW r \in Runs, NEW status \in Status
  PROVE  /\ WithStatus(db, r, status) \in Db
         /\ WithStatus(db, r, status).runs = [db.runs EXCEPT ![r] = status]
         /\ WithStatus(db, r, status).graph = db.graph
  BY DEF Db, WithStatus

(* Replacing the graph leaves the rows alone. *)
LEMMA WithGraphType ==
  ASSUME NEW db \in Db, NEW g \in Graph
  PROVE  /\ WithGraph(db, g) \in Db
         /\ WithGraph(db, g).runs = db.runs
         /\ WithGraph(db, g).graph = g
  BY DEF Db, WithGraph

(* What the three graph writes of a run produce is a graph. *)
LEMMA GraphWrites ==
  ASSUME NEW g \in Graph
  PROVE  /\ \A c \in Children, p \in Parents \cup {None} : EntityRow(g, c, p) \in Graph
         /\ \A c \in Children, p \in Parents : ContainsEdge(g, c, p) \in Graph
         /\ \A r \in Runs : SubsystemsOf(g, r) \in Graph
<1>1. ASSUME NEW c \in Children, NEW p \in Parents \cup {None}
      PROVE  EntityRow(g, c, p) \in Graph
  BY <1>1 DEF EntityRow, Graph
<1>2. ASSUME NEW c \in Children, NEW p \in Parents
      PROVE  ContainsEdge(g, c, p) \in Graph
  BY <1>2 DEF ContainsEdge, Graph
<1>3. ASSUME NEW r \in Runs PROVE SubsystemsOf(g, r) \in Graph
  BY <1>3 DEF SubsystemsOf, Graph
<1> QED BY <1>1, <1>2, <1>3

(* The two queries of the parent check find exactly the graphs whose two
   encodings disagree. *)
LEMMA MismatchIsInconsistency ==
  ASSUME NEW g \in Graph
  PROVE  ParentContainsMismatch(g) <=> ~Consistent(g)
<1>1. ASSUME NEW c \in Children
      PROVE  ContainersOf(g, c) = {g.parent[c]} \ {None} <=>
             /\ g.parent[c] # None => ContainersOf(g, c) # {}
             /\ \A p \in ContainersOf(g, c) : g.parent[c] = p
  <2>1. ContainersOf(g, c) \subseteq Parents /\ None \notin Parents
    BY NoneAssumption DEF ContainersOf
  <2> QED BY <2>1
<1> QED BY <1>1 DEF ParentContainsMismatch, Consistent

LEMMA EmptyGraphType == EmptyGraph \in Graph
  BY DEF EmptyGraph, Graph

(* Replacing the subsystem rows touches neither encoding. *)
LEMMA SubsystemsKeepConsistency ==
  ASSUME NEW g \in Graph, NEW r \in Runs
  PROVE  Consistent(SubsystemsOf(g, r)) <=> Consistent(g)
  BY DEF Consistent, ContainersOf, SubsystemsOf, Graph
-----------------------------------------------------------------------------
(***************************************************************************)
(* Type correctness.                                                       *)
(***************************************************************************)
LEMMA EmptyBatch == 0 \in 0 .. BatchSize - 1
  BY WriterAssumption

(* A batch boundary keeps the types, whichever way it ends. *)
LEMMA CloseBatchType ==
  ASSUME TypeOK, job \in Runs, NEW new \in Db, NEW end \in BatchEnds, CloseBatch(new, end)
  PROVE  /\ disk' \in Db /\ view' \in Db /\ sqlTx' \in BOOLEAN /\ inTx' \in BOOLEAN
         /\ writes' \in 0 .. BatchSize - 1 /\ faulted' \in SUBSET Runs
  BY EmptyBatch DEF CloseBatch, TypeOK

(* A write command keeps the types, whichever way it ends. *)
LEMMA InRunWriteType ==
  ASSUME TypeOK, pc # "idle", job \in Runs, NEW g \in Graph, NEW granted \in Graph,
         NEW next \in Stages,
         InRunWrite(WithGraph(view, g), granted, next), sent' \in 0 .. MaxWrites
  PROVE  TypeOK'
<1> DEFINE new == WithGraph(view, g)
<1>1. new \in Db /\ new.graph \in Graph
  BY WithGraphType DEF TypeOK
<1> HIDE DEF new
<1>2. UNCHANGED <<current, session>>
  BY DEF InRunWrite, new
<1>3. /\ disk' \in Db /\ view' \in Db /\ sqlTx' \in BOOLEAN /\ inTx' \in BOOLEAN
      /\ writes' \in 0 .. BatchSize - 1 /\ faulted' \in SUBSET Runs
      /\ pc' \in Stages /\ acked' \in Graph
  <2>1. CASE CanWrite /\ ~BatchFull /\ Bump(new, granted, next)
    <3>1. /\ view' = new /\ sqlTx' = TRUE /\ inTx' = TRUE /\ writes' = writes + 1
          /\ acked' = granted /\ pc' = next /\ UNCHANGED <<disk, faulted>>
      BY <2>1 DEF Bump
    <3>2. writes' \in 0 .. BatchSize - 1
      BY <2>1, <3>1, WriterAssumption DEF BatchFull, TypeOK
    <3> QED BY <1>1, <3>1, <3>2 DEF TypeOK
  <2>2. CASE CanWrite /\ BatchFull /\ Bump(new, granted, next)
    <3>1. PICK end \in BatchEnds :
            /\ CloseBatch(new, end)
            /\ acked' = IF ClosedCleanly(end) THEN granted ELSE acked
            /\ pc' = IF ClosedCleanly(end) THEN next ELSE "failing"
      BY <2>2 DEF Bump
    <3>2. pc' \in Stages /\ acked' \in Graph
      BY <3>1, <1>1 DEF TypeOK, Stages
    <3> QED BY <3>1, <3>2, <1>1, CloseBatchType
  <2>3. CASE WriteFails(new)
    BY <1>1, <2>3 DEF WriteFails, TypeOK, Stages
  <2> QED BY <2>1, <2>2, <2>3 DEF InRunWrite, new
<1> QED BY <1>2, <1>3 DEF TypeOK, session

(* FlushRunBatch keeps the types. *)
LEMMA FlushRunBatchType ==
  ASSUME TypeOK, job \in Runs, NEW onOk \in Stages, NEW onError \in Stages,
         FlushRunBatch(onOk, onError)
  PROVE  TypeOK'
<1>1. /\ disk' \in Db /\ view' \in Db /\ sqlTx' \in BOOLEAN /\ inTx' \in BOOLEAN
      /\ writes' \in 0 .. BatchSize - 1 /\ faulted' \in SUBSET Runs /\ pc' \in Stages
  <2>1. CASE \E end \in BatchEnds : CloseBatch(view, end) /\ pc' \in {onOk, onError}
    BY <2>1, CloseBatchType DEF TypeOK
  <2>2. CASE pc' = onError /\ UNCHANGED disk /\ view' = disk /\ sqlTx' = FALSE
             /\ inTx' = FALSE /\ writes' = 0 /\ UNCHANGED faulted
    BY <2>2, EmptyBatch DEF TypeOK
  <2>3. CASE pc' = onError /\ UNCHANGED <<disk, view, sqlTx, inTx, writes, faulted>>
    BY <2>3 DEF TypeOK
  <2>4. "reopened" \in BatchEnds
    BY DEF BatchEnds
  <2> QED BY <2>1, <2>2, <2>3, <2>4 DEF FlushRunBatch
<1> QED BY <1>1 DEF FlushRunBatch, TypeOK, session

(* What is left when a process is gone is well typed if the database is. *)
LEMMA GoneType ==
  ASSUME TypeOK, ProcessGone, disk' \in Db, faulted' \in SUBSET Runs
  PROVE  TypeOK'
<1>1. /\ disk' \in Db /\ view' \in Db /\ sqlTx' \in BOOLEAN /\ inTx' \in BOOLEAN
      /\ writes' \in 0 .. BatchSize - 1 /\ acked' \in Graph /\ faulted' \in SUBSET Runs
  BY EmptyBatch, EmptyGraphType DEF ProcessGone
<1>2. sent' \in 0 .. MaxWrites /\ sessions' \in 0 .. MaxSessions
  BY WriterAssumption DEF ProcessGone, TypeOK
<1>3. /\ current' \in Runs \cup {None} /\ pc' \in Stages /\ job' \in Runs \cup {None}
      /\ outcome' \in Terminal /\ config' \in Configs \cup {None}
  BY DEF ProcessGone, Stages, Terminal
<1> QED BY <1>1, <1>2, <1>3 DEF TypeOK

(* Every step keeps the types. *)
LEMMA TypeStep ==
  ASSUME TypeOK, pc = "idle" <=> job = None, [Next]_vars
  PROVE  TypeOK'
<1>0. pc # "idle" => job \in Runs
  BY DEF TypeOK
<1>1. ASSUME NEW c \in Children, NEW p \in Parents \cup {None}, InsertEntity(c, p)
      PROVE  TypeOK'
  <2>1. {EntityRow(view.graph, c, p), EntityRow(acked, c, p)} \subseteq Graph
        /\ "indexing" \in Stages
    BY GraphWrites DEF TypeOK, Db, Stages
  <2>2. sent' \in 0 .. MaxWrites
    BY <1>1, WriterAssumption DEF InsertEntity, TypeOK
  <2> QED BY <1>0, <1>1, <2>1, <2>2, InRunWriteType DEF InsertEntity
<1>2. ASSUME NEW c \in Children, NEW p \in Parents, InsertEdge(c, p)
      PROVE  TypeOK'
  <2>1. {ContainsEdge(view.graph, c, p), ContainsEdge(acked, c, p)} \subseteq Graph
        /\ "indexing" \in Stages
    BY GraphWrites DEF TypeOK, Db, Stages
  <2>2. sent' \in 0 .. MaxWrites
    BY <1>2, WriterAssumption DEF InsertEdge, TypeOK
  <2> QED BY <1>0, <1>2, <2>1, <2>2, InRunWriteType DEF InsertEdge
<1>3. CASE ReconcileSubsystemGraph
  <2>1. job \in Runs /\ sent' \in 0 .. MaxWrites
    BY <1>0, <1>3 DEF ReconcileSubsystemGraph, TypeOK
  <2>2. {SubsystemsOf(view.graph, job), SubsystemsOf(acked, job)} \subseteq Graph
        /\ "emitting" \in Stages
    BY <2>1, GraphWrites DEF TypeOK, Db, Stages
  <2> QED BY <1>3, <2>1, <2>2, InRunWriteType DEF ReconcileSubsystemGraph
<1>4. CASE Phase3Flush \/ EmissionFlush
  <2>1. {"reconciling", "failing", "committing"} \subseteq Stages
    BY DEF Stages
  <2> QED BY <1>0, <1>4, <2>1, FlushRunBatchType DEF Phase3Flush, EmissionFlush
<1>5. CASE Phase3Disabled \/ EmissionDisabled
  BY <1>5 DEF Phase3Disabled, EmissionDisabled, TypeOK, actor, session, Stages
<1>6. ASSUME NEW r \in Runs, Start(r) PROVE TypeOK'
  <2>1. PICK stale \in SUBSET {q \in Runs : disk.runs[q] = "running"} :
          /\ disk' = [disk EXCEPT !.runs =
                        [q \in Runs |-> IF q \in stale THEN "failed" ELSE @[q]]]
          /\ faulted' = faulted \ stale
    BY <1>6 DEF Start
  <2>2. disk' \in Db /\ view' \in Db
    BY <1>6, <2>1 DEF Start, TypeOK, Db, Status, Terminal
  <2>3. sessions' \in 0 .. MaxSessions
    BY <1>6, WriterAssumption DEF Start, TypeOK
  <2> QED BY <1>6, <2>1, <2>2, <2>3 DEF Start, TypeOK, actor, Stages
<1>7. CASE OpenRun
  <2>1. PICK after \in Status : disk' = WithStatus(disk, job, after)
    BY <1>0, <1>7 DEF OpenRun, RepairedStatus, TypeOK, Db, Status, Terminal
  <2>2. disk' \in Db /\ view' \in Db
    BY <1>0, <1>7, <2>1, WithStatusType DEF OpenRun, TypeOK
  <2>3. sent' \in 0 .. MaxWrites /\ writes' \in 0 .. BatchSize - 1
    BY <1>7, EmptyBatch, WriterAssumption DEF OpenRun
  <2> QED BY <1>0, <1>7, <2>2, <2>3 DEF OpenRun, TypeOK, Db, Stages, session
<1>8. CASE FinishIndexing
  BY <1>8 DEF FinishIndexing, TypeOK, actor, Stages, Terminal
<1>9. CASE CommitRun
  <2>1. job \in Runs /\ "failed" \in Status /\ outcome \in Status
    BY <1>0, <1>9 DEF CommitRun, TypeOK, Status, Terminal
  <2>2. \A db \in Db : WithStatus(db, job, "failed") \in Db /\ WithStatus(db, job, outcome) \in Db
    BY <2>1, WithStatusType
  <2>3. disk' \in Db /\ view' \in Db
    BY <1>9, <2>2 DEF CommitRun, CommitOverMismatch, CommitBatchAndRow, CommitRowAlone,
                      CommitFails, TypeOK
  <2>4. sqlTx' \in BOOLEAN /\ inTx' \in BOOLEAN /\ writes' \in 0 .. BatchSize - 1
    BY <1>9, EmptyBatch DEF CommitRun, CommitOverMismatch, CommitBatchAndRow,
                            CommitRowAlone, CommitFails, TypeOK
  <2>5. current' \in Runs \cup {None} /\ pc' \in Stages
    BY <1>9 DEF CommitRun, CommitOverMismatch, CommitBatchAndRow, CommitRowAlone,
                CommitFails, TypeOK, Stages
  <2> QED BY <1>9, <2>3, <2>4, <2>5 DEF CommitRun, TypeOK, session
<1>10. CASE FailRun
  <2>1. job \in Runs /\ "failed" \in Status
    BY <1>0, <1>10 DEF FailRun, Status, Terminal
  <2>2. BatchDropped \in Db /\ WithStatus(BatchDropped, job, "failed") \in Db
    BY <2>1, WithStatusType DEF BatchDropped, TypeOK
  <2>3. view' \in Db /\ disk' \in Db
    BY <1>10, <2>2 DEF FailRun, TypeOK
  <2> QED BY <1>10, <2>3, EmptyBatch DEF FailRun, TypeOK, session, Stages
<1>11. CASE CloseChannel
  <2>1. current # None => WithStatus(disk, current, "failed") \in Db
    BY WithStatusType DEF TypeOK, Status, Terminal
  <2>2. disk' \in Db /\ faulted' \in SUBSET Runs
    BY <1>11, <2>1 DEF CloseChannel, CleanupAfterChannelClose, TypeOK
  <2> QED BY <1>11, <2>2, GoneType DEF CloseChannel
<1>12. CASE Crash
  <2>1. disk' \in Db /\ faulted' \in SUBSET Runs
    BY <1>0, <1>12 DEF Crash, TypeOK
  <2> QED BY <1>12, <2>1, GoneType DEF Crash
<1>13. CASE UNCHANGED vars
  BY <1>13 DEF vars, TypeOK
<1> QED BY <1>1, <1>2, <1>3, <1>4, <1>5, <1>6, <1>7, <1>8, <1>9, <1>10, <1>11, <1>12, <1>13
        DEF Next, Step
-----------------------------------------------------------------------------
(***************************************************************************)
(* The inductive invariant.                                                *)
(***************************************************************************)
(* While a process works, its run is the actor's and its row is open. *)
LEMMA WorkingJob ==
  ASSUME IInv, pc \in Working
  PROVE  /\ job \in Runs /\ current = job /\ current # None /\ inTx /\ sqlTx
         /\ disk.runs[job] = "running" /\ view.runs = disk.runs
  BY NoneAssumption DEF IInv, TypeOK, Process, Transaction, Working

(* A batch boundary of the open run keeps the actor's beliefs true, or leaves the
   run among the faulted ones. *)
LEMMA CloseBatchInv ==
  ASSUME IInv, pc \in Working, NEW new \in Db, new.runs = disk.runs,
         NEW end \in BatchEnds, CloseBatch(new, end),
         NEW next \in Working \cup {"committing"},
         pc' \in {"failing", "committing"} \/ (ClosedCleanly(end) /\ pc' = next),
         UNCHANGED <<current, session>>
  PROVE  (Process /\ Transaction /\ Rows)'
<1>1. /\ job \in Runs /\ current = job /\ current # None /\ disk.runs[job] = "running"
      /\ view.runs = disk.runs /\ config \in Configs
  BY WorkingJob DEF IInv, Process, Working
<1>2. disk'.runs = disk.runs /\ view'.runs = disk.runs
  BY DEF CloseBatch
<1>3. Process'
  BY <1>1, <1>2, NoneAssumption DEF Process, Working, CloseBatch, ClosedCleanly, session
<1>4. Transaction'
  BY <1>1, <1>2 DEF Transaction, CloseBatch, session, BatchEnds
<1>5. Rows'
  BY <1>2 DEF Rows, IInv, CloseBatch
<1> QED BY <1>3, <1>4, <1>5

(* So does a write command, whichever way it ends. *)
LEMMA InRunWriteInv ==
  ASSUME IInv, pc \in Working, NEW g \in Graph, NEW granted,
         NEW next \in Working, InRunWrite(WithGraph(view, g), granted, next)
  PROVE  (Process /\ Transaction /\ Rows)'
<1> DEFINE new == WithGraph(view, g)
<1>1. /\ job \in Runs /\ current = job /\ current # None /\ disk.runs[job] = "running"
      /\ view.runs = disk.runs /\ config \in Configs /\ inTx /\ sqlTx
  BY WorkingJob DEF IInv, Process, Working
<1>2. new \in Db /\ new.runs = disk.runs
  BY <1>1, WithGraphType DEF IInv, TypeOK
<1>3. UNCHANGED <<current, session>>
  BY DEF InRunWrite
<1> HIDE DEF new
<1>4. CASE CanWrite /\ ~BatchFull /\ Bump(new, granted, next)
  <2>1. /\ view' = new /\ sqlTx' = TRUE /\ inTx' = TRUE
        /\ pc' = next /\ UNCHANGED <<disk, faulted>>
    BY <1>4 DEF Bump
  <2> QED BY <1>1, <1>2, <1>3, <2>1, NoneAssumption
          DEF IInv, Process, Transaction, Rows, Working, session
<1>5. CASE CanWrite /\ BatchFull /\ Bump(new, granted, next)
  <2>1. PICK end \in BatchEnds :
          /\ CloseBatch(new, end)
          /\ pc' = IF ClosedCleanly(end) THEN next ELSE "failing"
    BY <1>5 DEF Bump
  <2> QED BY <1>2, <1>3, <2>1, CloseBatchInv
<1>6. CASE WriteFails(new)
  BY <1>1, <1>2, <1>3, <1>6, NoneAssumption
     DEF WriteFails, IInv, Process, Transaction, Rows, Working, session
<1> QED BY <1>4, <1>5, <1>6 DEF InRunWrite, new

(* And so does FlushRunBatch, whose failure may or may not fail the run. *)
LEMMA FlushRunBatchInv ==
  ASSUME IInv, pc \in Working, NEW onOk \in Working \cup {"committing"},
         NEW onError \in {"failing", "committing"}, FlushRunBatch(onOk, onError)
  PROVE  (Process /\ Transaction /\ Rows)'
<1>1. /\ job \in Runs /\ current = job /\ current # None /\ disk.runs[job] = "running"
      /\ view.runs = disk.runs /\ config \in Configs /\ inTx /\ sqlTx
  BY WorkingJob DEF IInv, Process, Working
<1>2. UNCHANGED <<current, session>>
  BY DEF FlushRunBatch
<1>3. CASE view' = disk /\ sqlTx' = FALSE /\ inTx' = FALSE /\ pc' = onError
           /\ UNCHANGED <<disk, faulted>>
  BY <1>1, <1>2, <1>3, NoneAssumption DEF IInv, Process, Transaction, Rows, Working, session
<1>4. CASE \E end \in BatchEnds : CloseBatch(view, end) /\ pc' = IF ClosedCleanly(end) THEN onOk ELSE onError
  BY <1>1, <1>2, <1>4, CloseBatchInv DEF IInv, TypeOK
<1>5. CASE pc' = onError /\ UNCHANGED <<disk, view, sqlTx, inTx, faulted>>
  BY <1>1, <1>2, <1>5, NoneAssumption DEF IInv, Process, Transaction, Rows, Working, session
<1> QED BY <1>1, <1>3, <1>4, <1>5 DEF FlushRunBatch

(* A process that is gone leaves no belief behind. *)
LEMMA GoneInv ==
  ASSUME IInv, ProcessGone,
         \A r \in Runs : disk'.runs[r] = "running" => r \in faulted'
  PROVE  (Process /\ Transaction /\ Rows)'
  BY DEF ProcessGone, Process, Transaction, Rows, Working

(* Every step keeps the invariant. *)
LEMMA InvStep ==
  ASSUME IInv, [Next]_vars
  PROVE  IInv'
<1> SUFFICES (Process /\ Transaction /\ Rows)'
  BY TypeStep DEF IInv, Process
<1>0. pc # "idle" => job \in Runs /\ job # None /\ config \in Configs
  BY DEF IInv, TypeOK, Process
<1>1. ASSUME NEW c \in Children, NEW p \in Parents \cup {None}, InsertEntity(c, p)
      PROVE  (Process /\ Transaction /\ Rows)'
  <2>1. EntityRow(view.graph, c, p) \in Graph /\ "indexing" \in Working
    BY GraphWrites DEF IInv, TypeOK, Db, Working
  <2> QED BY <1>1, <2>1, InRunWriteInv DEF InsertEntity
<1>2. ASSUME NEW c \in Children, NEW p \in Parents, InsertEdge(c, p)
      PROVE  (Process /\ Transaction /\ Rows)'
  <2>1. ContainsEdge(view.graph, c, p) \in Graph /\ "indexing" \in Working
    BY GraphWrites DEF IInv, TypeOK, Db, Working
  <2> QED BY <1>2, <2>1, InRunWriteInv DEF InsertEdge
<1>3. CASE ReconcileSubsystemGraph
  <2>1. SubsystemsOf(view.graph, job) \in Graph /\ {"reconciling", "emitting"} \subseteq Working
    BY <1>0, <1>3, GraphWrites DEF ReconcileSubsystemGraph, IInv, TypeOK, Db, Working
  <2> QED BY <1>3, <2>1, InRunWriteInv DEF ReconcileSubsystemGraph
<1>4. CASE Phase3Flush \/ EmissionFlush
  <2>1. {"clustering", "reconciling", "emitting"} \subseteq Working
    BY DEF Working
  <2> QED BY <1>4, <2>1, FlushRunBatchInv DEF Phase3Flush, EmissionFlush
<1>5. CASE Phase3Disabled \/ EmissionDisabled
  BY <1>5 DEF Phase3Disabled, EmissionDisabled, IInv, Process, Transaction, Rows,
              Working, actor, session
<1>6. ASSUME NEW r \in Runs, Start(r) PROVE (Process /\ Transaction /\ Rows)'
  <2>1. PICK stale \in SUBSET {q \in Runs : disk.runs[q] = "running"} :
          /\ disk' = [disk EXCEPT !.runs =
                        [q \in Runs |-> IF q \in stale THEN "failed" ELSE @[q]]]
          /\ faulted' = faulted \ stale
    BY <1>6 DEF Start
  <2>2. \A q \in Runs : disk'.runs[q] = IF q \in stale THEN "failed" ELSE disk.runs[q]
    BY <2>1 DEF IInv, TypeOK, Db
  <2>3. current = None /\ current' = None /\ ~sqlTx /\ ~inTx
    BY <1>6 DEF Start, IInv, Process, actor
  <2>4. Rows'
    BY <2>1, <2>2, <2>3 DEF IInv, Rows
  <2>5. Process' /\ Transaction'
    BY <1>6, <2>3, NoneAssumption DEF Start, actor, Process, Transaction, Working
  <2> QED BY <2>4, <2>5
<1>7. CASE OpenRun
  <2>1. PICK end \in {"refused", "repaired", "stranded", "opened"} :
          /\ LET before == disk.runs[job]
                 after  == CASE end = "refused"  -> before
                             [] end = "repaired" -> RepairedStatus(before)
                             [] OTHER            -> "running"
             IN  disk' = WithStatus(disk, job, after)
          /\ inTx' = (end = "opened") /\ sqlTx' = (end = "opened")
          /\ current' = IF end = "opened" THEN job ELSE None
          /\ pc' = IF end = "opened" THEN "indexing" ELSE "exiting"
          /\ faulted' = CASE end = "stranded" -> faulted \cup {job}
                          [] end = "opened"   -> faulted \ {job}
                          [] OTHER            -> faulted
    BY <1>7 DEF OpenRun
  <2>2. job \in Runs /\ job # None /\ current = None /\ disk \in Db
    BY <1>0, <1>7 DEF OpenRun, IInv, TypeOK
  <2>3. \A r \in Runs : r # job => disk'.runs[r] = disk.runs[r]
    BY <2>1, <2>2 DEF WithStatus, Db
  <2>4. disk'.runs[job] = IF end = "refused" THEN disk.runs[job] ELSE
                          IF end = "repaired" THEN RepairedStatus(disk.runs[job]) ELSE "running"
    BY <2>1, <2>2 DEF WithStatus, Db
  <2>5. \A r \in Runs : disk'.runs[r] = "running" => r \in faulted' \/ r = current'
    <3>1. CASE end \in {"refused", "repaired"}
      <4>1. faulted' = faulted /\ current' = None
        BY <2>1, <3>1
      <4>2. disk'.runs[job] = "running" => disk.runs[job] = "running"
        BY <2>4, <3>1 DEF RepairedStatus
      <4> QED BY <2>2, <2>3, <4>1, <4>2, NoneAssumption DEF IInv, Rows
    <3>2. CASE end = "stranded"
      BY <2>1, <2>2, <2>3, <3>2, NoneAssumption DEF IInv, Rows
    <3>3. CASE end = "opened"
      <4>1. faulted' = faulted \ {job} /\ current' = job
        BY <2>1, <3>3
      <4> QED BY <2>2, <2>3, <4>1, NoneAssumption DEF IInv, Rows
    <3> QED BY <3>1, <3>2, <3>3
  <2>6. Process' /\ Transaction'
    BY <1>0, <1>7, <2>1, <2>2, <2>4 DEF OpenRun, session, Process, Transaction, Working
  <2> QED BY <2>5, <2>6 DEF Rows
<1>8. CASE FinishIndexing
  <2>1. UNCHANGED <<disk, view, sqlTx, actor, job, config, faulted>>
    BY <1>8 DEF FinishIndexing
  <2>2. pc' \in {"clustering", "emitting", "failing", "exiting", "committing"}
    BY <1>8 DEF FinishIndexing
  <2>3. pc = "indexing"
    BY <1>8 DEF FinishIndexing
  <2> QED BY <2>1, <2>2, <2>3 DEF IInv, Process, Transaction, Rows, Working, actor
<1>9. CASE CommitRun
  <2>1. /\ job \in Runs /\ job # None /\ current = job /\ disk.runs[job] = "running"
        /\ disk \in Db /\ view \in Db /\ view.runs = disk.runs /\ config \in Configs
        /\ outcome \in Status /\ outcome # "running" /\ "failed" \in Status
    BY <1>0, <1>9 DEF CommitRun, IInv, TypeOK, Process, Transaction, Status, Terminal
  <2>2. \A db \in {disk, view}, status \in {"failed", outcome} :
          WithStatus(db, job, status).runs = [disk.runs EXCEPT ![job] = status]
    BY <2>1, WithStatusType
  <2>3. \A status \in {"failed", outcome} : [disk.runs EXCEPT ![job] = status][job] # "running"
                                            /\ \A r \in Runs : r # job =>
                 [disk.runs EXCEPT ![job] = status][r] = disk.runs[r]
    BY <2>1 DEF Db
  <2>4. UNCHANGED <<job, outcome, config, faulted>>
    BY <1>9 DEF CommitRun, session
  <2>5. CASE CommitOverMismatch
    BY <2>1, <2>2, <2>3, <2>4, <2>5
       DEF CommitOverMismatch, IInv, Process, Transaction, Rows, Working
  <2>6. CASE CommitBatchAndRow
    BY <2>1, <2>2, <2>3, <2>4, <2>6
       DEF CommitBatchAndRow, IInv, Process, Transaction, Rows, Working
  <2>7. CASE CommitRowAlone
    BY <2>1, <2>2, <2>3, <2>4, <2>7
       DEF CommitRowAlone, IInv, Process, Transaction, Rows, Working
  <2>8. CASE CommitFails
    BY <2>1, <2>4, <2>8 DEF CommitFails, IInv, Process, Transaction, Rows, Working
  <2> QED BY <1>9, <2>5, <2>6, <2>7, <2>8 DEF CommitRun
<1>10. CASE FailRun
  <2>1. /\ job \in Runs /\ job # None /\ current = job /\ disk.runs[job] = "running"
        /\ disk \in Db /\ view \in Db /\ view.runs = disk.runs /\ config \in Configs
        /\ "failed" \in Status
    BY <1>0, <1>10 DEF FailRun, IInv, TypeOK, Process, Transaction, Status, Terminal
  <2>2. BatchDropped \in Db /\ BatchDropped.runs = disk.runs
    BY <2>1 DEF BatchDropped
  <2>3. WithStatus(BatchDropped, job, "failed").runs = [disk.runs EXCEPT ![job] = "failed"]
    BY <2>1, <2>2, WithStatusType
  <2>4. /\ [disk.runs EXCEPT ![job] = "failed"][job] # "running"
        /\ \A r \in Runs : r # job => [disk.runs EXCEPT ![job] = "failed"][r] = disk.runs[r]
    BY <2>1 DEF Db
  <2>5. PICK marked \in BOOLEAN :
          /\ view' = IF marked THEN WithStatus(BatchDropped, job, "failed") ELSE BatchDropped
          /\ current' = IF marked THEN None ELSE current
    BY <1>10 DEF FailRun
  <2>6. /\ sqlTx' = (sqlTx /\ ~inTx) /\ disk' = IF sqlTx' THEN disk ELSE view'
        /\ inTx' = FALSE /\ pc' = "exiting" /\ UNCHANGED <<job, config, faulted>>
    BY <1>10 DEF FailRun, session
  <2>7. sqlTx' => job \in faulted
    BY <2>6 DEF IInv, TypeOK, Transaction
  <2>8. \A r \in Runs : disk'.runs[r] = "running" => r \in faulted \/ r = current'
    BY <2>1, <2>2, <2>3, <2>4, <2>5, <2>6, <2>7 DEF IInv, Rows
  <2>9. Process' /\ Transaction'
    BY <2>1, <2>2, <2>5, <2>6, <2>7 DEF Process, Transaction, Working
  <2> QED BY <2>6, <2>8, <2>9 DEF Rows
<1>11. CASE CloseChannel
  <2>1. \A r \in Runs : disk.runs[r] = "running" => r \in faulted \/ r = current
    BY DEF IInv, Rows
  <2>2. CASE current = None
    <3>1. UNCHANGED <<disk, faulted>> /\ ProcessGone
      BY <1>11, <2>2 DEF CloseChannel, CleanupAfterChannelClose
    <3> QED BY <2>1, <2>2, <3>1, GoneInv, NoneAssumption
  <2>3. CASE current # None /\ CanWrite
    <3>1. current \in Runs /\ disk \in Db
      BY <2>3 DEF IInv, TypeOK
    <3>2. \A r \in Runs : r # current => WithStatus(disk, current, "failed").runs[r] = disk.runs[r]
      BY <3>1 DEF WithStatus, Db
    <3>3. WithStatus(disk, current, "failed").runs[current] = "failed"
      BY <3>1 DEF WithStatus, Db
    <3>4. /\ ProcessGone
          /\ \/ disk' = WithStatus(disk, current, "failed") /\ faulted' = faulted
             \/ disk' = disk /\ faulted' = faulted \cup {current}
      BY <1>11, <2>3 DEF CloseChannel, CleanupAfterChannelClose
    <3>5. \A r \in Runs : disk'.runs[r] = "running" => r \in faulted'
      BY <2>1, <3>2, <3>3, <3>4
    <3> QED BY <3>4, <3>5, GoneInv
  <2>4. CASE current # None /\ ~CanWrite
    <3>1. current \in faulted
      BY <2>4 DEF CanWrite, IInv, TypeOK, Process, Transaction
    <3>2. disk' = disk /\ faulted \subseteq faulted' /\ ProcessGone
      BY <1>11, <2>4 DEF CloseChannel, CleanupAfterChannelClose
    <3> QED BY <2>1, <3>1, <3>2, GoneInv
  <2> QED BY <2>2, <2>3, <2>4
<1>12. CASE Crash
  <2>1. disk' = disk /\ faulted' = faulted \cup {job} /\ ProcessGone
    BY <1>12 DEF Crash
  <2>2. current = None \/ current = job
    BY DEF IInv, Process
  <2>3. \A r \in Runs : disk'.runs[r] = "running" => r \in faulted'
    BY <2>1, <2>2, NoneAssumption DEF IInv, Rows
  <2> QED BY <2>1, <2>3, GoneInv
<1>13. CASE UNCHANGED vars
  BY <1>13 DEF vars, IInv, Process, Transaction, Rows
<1> QED BY <1>1, <1>2, <1>3, <1>4, <1>5, <1>6, <1>7, <1>8, <1>9, <1>10, <1>11, <1>12, <1>13
        DEF Next, Step
-----------------------------------------------------------------------------
(***************************************************************************)
(* The five things a step may do to the database file.                     *)
(***************************************************************************)
Published == /\ current # None
             /\ disk' \in Db /\ disk'.runs = disk.runs

Opened == /\ pc = "opening" /\ job \in Runs
          /\ disk'.runs = [disk.runs EXCEPT ![job] = "running"]
          /\ disk'.graph = disk.graph

BornFailed == /\ pc = "opening" /\ job \in Runs /\ disk.runs[job] = "absent"
              /\ disk'.runs = [disk.runs EXCEPT ![job] = "failed"]
              /\ disk'.graph = disk.graph

Abandoned(gone) == /\ gone \subseteq Runs /\ \A r \in gone : disk.runs[r] = "running"
                   /\ disk'.runs = [r \in Runs |-> IF r \in gone THEN "failed" ELSE disk.runs[r]]
                   /\ disk'.graph = disk.graph

Committed == /\ pc = "committing" /\ current = job /\ job \in Runs
             /\ disk.runs[job] = "running"
             /\ disk'.runs = [disk.runs EXCEPT ![job] = outcome]
             /\ \/ inTx /\ Consistent(view.graph) /\ disk'.graph = view.graph
                \/ ~inTx /\ disk'.graph = disk.graph

Effect == \/ UNCHANGED disk
          \/ Published \/ Opened \/ BornFailed \/ Committed
          \/ \E gone \in SUBSET Runs : Abandoned(gone)

(* Failing the run's row is the abandoning of that one row. *)
LEMMA FailedAlone ==
  ASSUME NEW r \in Runs, disk \in Db, disk.runs[r] = "running",
         disk' = WithStatus(disk, r, "failed")
  PROVE  Effect
<1>1. Abandoned({r})
  BY DEF Abandoned, WithStatus, Db
<1> QED BY <1>1 DEF Effect

(* There is no sixth. *)
LEMMA StepEffect ==
  ASSUME IInv, [Next]_vars
  PROVE  Effect
<1>0. /\ pc # "idle" => job \in Runs /\ job # None
      /\ disk \in Db /\ view \in Db
      /\ disk' \in Db
  BY InvStep DEF IInv, TypeOK, Process
<1>1. ASSUME pc \in Working, disk'.runs = disk.runs PROVE Effect
  BY <1>0, <1>1, WorkingJob DEF Effect, Published
<1>2. ASSUME NEW g \in Graph, NEW granted, NEW next, pc \in Working,
             InRunWrite(WithGraph(view, g), granted, next)
      PROVE  Effect
  <2>1. WithGraph(view, g).runs = disk.runs
    BY <1>0, <1>2, WithGraphType, WorkingJob
  <2>2. disk' = disk \/ disk' = WithGraph(view, g)
    BY <1>2 DEF InRunWrite, Bump, CloseBatch, WriteFails
  <2> QED BY <1>1, <1>2, <2>1, <2>2
<1>3. ASSUME NEW c \in Children, NEW p \in Parents \cup {None}, InsertEntity(c, p)
      PROVE  Effect
  BY <1>0, <1>2, <1>3, GraphWrites DEF InsertEntity, Db, Working
<1>4. ASSUME NEW c \in Children, NEW p \in Parents, InsertEdge(c, p)
      PROVE  Effect
  BY <1>0, <1>2, <1>4, GraphWrites DEF InsertEdge, Db, Working
<1>5. CASE ReconcileSubsystemGraph
  BY <1>0, <1>2, <1>5, GraphWrites DEF ReconcileSubsystemGraph, Db, Working
<1>6. CASE Phase3Flush \/ EmissionFlush
  <2>1. pc \in Working /\ view.runs = disk.runs
    BY <1>6, WorkingJob DEF Phase3Flush, EmissionFlush, Working
  <2>2. disk' = disk \/ disk' = view
    BY <1>6 DEF Phase3Flush, EmissionFlush, FlushRunBatch, CloseBatch
  <2> QED BY <1>1, <2>1, <2>2
<1>7. ASSUME NEW r \in Runs, Start(r) PROVE Effect
  <2>1. PICK stale \in SUBSET {q \in Runs : disk.runs[q] = "running"} :
          disk' = [disk EXCEPT !.runs =
                     [q \in Runs |-> IF q \in stale THEN "failed" ELSE @[q]]]
    BY <1>7 DEF Start
  <2>2. Abandoned(stale) /\ stale \in SUBSET Runs
    BY <1>0, <2>1 DEF Abandoned, Db
  <2> QED BY <2>2 DEF Effect
<1>8. CASE OpenRun
  <2>1. PICK after \in {disk.runs[job], RepairedStatus(disk.runs[job]), "running"} :
          disk' = WithStatus(disk, job, after)
    BY <1>8 DEF OpenRun
  <2>2. /\ after \in Status /\ job \in Runs /\ pc = "opening"
        /\ \/ after = "failed" /\ disk.runs[job] = "absent"
           \/ after = disk.runs[job]
           \/ after = "running"
    BY <1>0, <1>8, <2>1 DEF OpenRun, RepairedStatus, Db, Status, Terminal
  <2>3. disk'.runs = [disk.runs EXCEPT ![job] = after] /\ disk'.graph = disk.graph
    BY <1>0, <2>1, <2>2, WithStatusType
  <2>4. CASE after = disk.runs[job]
    BY <1>0, <2>1, <2>2, <2>4 DEF Effect, WithStatus, Db
  <2> QED BY <2>2, <2>3, <2>4 DEF Effect, Opened, BornFailed
<1>9. CASE CommitRun
  <2>1. /\ pc = "committing" /\ current = job /\ job \in Runs /\ disk.runs[job] = "running"
        /\ view.runs = disk.runs /\ outcome \in Status /\ view.graph \in Graph
        /\ ~sqlTx => view = disk
    BY <1>0, <1>9 DEF CommitRun, IInv, TypeOK, Process, Transaction, Status, Db
  <2>2. /\ WithStatus(view, job, outcome).runs = [disk.runs EXCEPT ![job] = outcome]
        /\ WithStatus(view, job, outcome).graph = view.graph
    BY <1>0, <2>1, WithStatusType
  <2>3. CASE CommitOverMismatch
    BY <1>0, <2>1, <2>3, FailedAlone DEF CommitOverMismatch, Effect
  <2>4. CASE CommitBatchAndRow
    BY <2>1, <2>2, <2>4, MismatchIsInconsistency DEF CommitBatchAndRow, Effect, Committed
  <2>5. CASE CommitRowAlone
    BY <2>1, <2>2, <2>5 DEF CommitRowAlone, Effect, Committed
  <2>6. CASE CommitFails
    BY <2>6 DEF CommitFails, Effect
  <2> QED BY <1>9, <2>3, <2>4, <2>5, <2>6 DEF CommitRun
<1>10. CASE FailRun
  <2>1. job \in Runs /\ disk.runs[job] = "running" /\ (~sqlTx => view = disk)
    BY <1>0, <1>10 DEF FailRun, IInv, Process, Transaction
  <2>2. disk' = disk \/ disk' = WithStatus(disk, job, "failed")
    BY <1>10, <2>1 DEF FailRun, BatchDropped
  <2> QED BY <1>0, <2>1, <2>2, FailedAlone DEF Effect
<1>11. CASE CloseChannel
  <2>1. current # None => current \in Runs /\ disk.runs[current] = "running"
    BY DEF IInv, TypeOK, Process
  <2>2. disk' = disk \/ (current # None /\ disk' = WithStatus(disk, current, "failed"))
    <3>1. CleanupAfterChannelClose
      BY <1>11 DEF CloseChannel
    <3>2. CASE current = None
      BY <3>1, <3>2 DEF CleanupAfterChannelClose
    <3>3. CASE current # None
      <4>1. \/ disk' = IF CanWrite THEN WithStatus(disk, current, "failed") ELSE disk
            \/ UNCHANGED disk
        BY <3>1, <3>3 DEF CleanupAfterChannelClose
      <4> QED BY <3>3, <4>1
    <3> QED BY <3>2, <3>3
  <2> QED BY <1>0, <2>1, <2>2, FailedAlone DEF Effect
<1>12. CASE UNCHANGED disk
  BY <1>12 DEF Effect
<1> QED BY <1>3, <1>4, <1>5, <1>6, <1>7, <1>8, <1>9, <1>10, <1>11, <1>12
        DEF Next, Step, vars, Phase3Disabled, EmissionDisabled, FinishIndexing, Crash
-----------------------------------------------------------------------------
(***************************************************************************)
(* The theorems.                                                           *)
(***************************************************************************)
(* The invariant holds of every behaviour of the writer. *)
THEOREM Invariance == Spec => []IInv
<1>1. Init => IInv
  <2> SUFFICES ASSUME Init PROVE IInv
    OBVIOUS
  <2>1. /\ disk = [runs |-> [r \in Runs |-> "absent"], graph |-> EmptyGraph]
        /\ disk \in Db /\ view = disk
    BY EmptyGraphType DEF Init, Db, Status
  <2>2. sent \in 0 .. MaxWrites /\ sessions \in 0 .. MaxSessions /\ writes \in 0 .. BatchSize - 1
    BY EmptyBatch, WriterAssumption DEF Init
  <2>3. TypeOK
    BY <2>1, <2>2, EmptyGraphType DEF Init, TypeOK, Terminal, Stages
  <2>4. \A r \in Runs : disk.runs[r] # "running"
    BY <2>1
  <2> QED BY <2>3, <2>4 DEF Init, IInv, Process, Transaction, Rows, Working
<1>2. IInv /\ [Next]_vars => IInv'
  BY InvStep
<1> QED BY <1>1, <1>2, PTL DEF Spec

(* The variables keep their types: in particular the batch counter never
   reaches batch_size between two commands. *)
THEOREM TypeCorrect == Spec => []TypeOK
<1>1. IInv => TypeOK
  BY DEF IInv
<1> QED BY <1>1, Invariance, PTL

(* While a process works, the actor and SQLite agree on the open transaction,
   and the row of its run is open. *)
THEOREM WorkingHoldsTxHolds == Spec => []WorkingHoldsTx
<1>1. IInv => WorkingHoldsTx
  BY WorkingJob DEF WorkingHoldsTx
<1> QED BY <1>1, Invariance, PTL

(* Only a fault leaves a row running behind. *)
THEOREM StrandedOnlyByFaultHolds == Spec => []StrandedOnlyByFault
<1>1. IInv => StrandedOnlyByFault
  BY NoneAssumption DEF IInv, Process, Rows, StrandedOnlyByFault
<1> QED BY <1>1, Invariance, PTL

(* Settled rows change only when their run is resumed. *)
THEOREM TerminalRowsAreFinalHolds == Spec => TerminalRowsAreFinal
<1>1. ASSUME IInv, [Next]_vars,
             NEW r \in Runs, disk.runs[r] \in Terminal, disk'.runs[r] # disk.runs[r]
      PROVE  r = job /\ pc = "opening" /\ disk'.runs[r] = "running"
  <2>1. Effect /\ disk \in Db
    BY <1>1, StepEffect DEF IInv, TypeOK
  <2>2. disk.runs[r] # "running" /\ disk.runs[r] # "absent"
    BY <1>1 DEF Terminal
  <2>3. ~UNCHANGED disk /\ ~Published
    BY <1>1 DEF Published
  <2>4. \A gone \in SUBSET Runs : ~Abandoned(gone)
    BY <1>1, <2>2 DEF Abandoned
  <2>5. ~Committed /\ ~BornFailed
    BY <1>1, <2>1, <2>2 DEF Committed, BornFailed, Db
  <2>6. Opened
    BY <2>1, <2>3, <2>4, <2>5 DEF Effect
  <2> QED BY <1>1, <2>1, <2>6 DEF Opened, Db
<1>2. IInv /\ [Next]_vars =>
        [\A r \in Runs : disk.runs[r] \in Terminal /\ disk'.runs[r] # disk.runs[r]
           => r = job /\ pc = "opening" /\ disk'.runs[r] = "running"]_vars
  BY <1>1
<1> QED BY <1>2, Invariance, PTL DEF Spec, TerminalRowsAreFinal
-----------------------------------------------------------------------------
(***************************************************************************)
(* What a completed run promises.  The flush before the Filigree emission  *)
(* may give the batch up and let the run complete all the same; it is the  *)
(* parent check of phase 3 that then has passed over the graph already.    *)
(* So one kind of process is excepted, and no other: see the README.       *)
(***************************************************************************)
EmitsUnclustered == config.emission /\ ~config.clustering

(* Once phase 3 has flushed, both the file and the open batch pass the check,
   so a row that closes without its batch still closes over a sound graph. *)
SoundAfterPhase3 ==
  /\ pc \in {"reconciling", "emitting"} /\ config.clustering /\ outcome = "completed"
       => Consistent(disk.graph) /\ Consistent(view.graph)
  /\ pc = "committing" /\ outcome = "completed" /\ ~inTx /\ ~EmitsUnclustered
       => Consistent(disk.graph)

LEMMA SoundStep ==
  ASSUME IInv, SoundAfterPhase3, [Next]_vars
  PROVE  SoundAfterPhase3'
<1>0. disk \in Db /\ view \in Db /\ disk.graph \in Graph /\ view.graph \in Graph
  BY DEF IInv, TypeOK, Db
<1>1. ASSUME pc' \notin {"reconciling", "emitting", "committing"} PROVE SoundAfterPhase3'
  BY <1>1 DEF SoundAfterPhase3
<1>2. ASSUME NEW new, NEW granted, InRunWrite(new, granted, "indexing")
      PROVE  SoundAfterPhase3'
  BY <1>1, <1>2 DEF InRunWrite, Bump, WriteFails
<1>3. CASE ReconcileSubsystemGraph
  <2> DEFINE new == WithGraph(view, SubsystemsOf(view.graph, job))
  <2>1. job \in Runs /\ pc = "reconciling" /\ UNCHANGED <<config, outcome>>
    BY <1>3, WorkingJob DEF ReconcileSubsystemGraph, InRunWrite, session, Working
  <2>2. Consistent(view.graph) => Consistent(new.graph)
    <3>1. SubsystemsOf(view.graph, job) \in Graph
      BY <1>0, <2>1, GraphWrites
    <3>2. new.graph = SubsystemsOf(view.graph, job)
      BY <1>0, <3>1, WithGraphType
    <3> HIDE DEF new
    <3> QED BY <1>0, <2>1, <3>2, SubsystemsKeepConsistency
  <2> HIDE DEF new
  <2>3. \/ pc' = "failing"
        \/ /\ pc' = "emitting" /\ view' = new
           /\ disk' = disk \/ disk' = new
    BY <1>3 DEF ReconcileSubsystemGraph, InRunWrite, Bump, CloseBatch, ClosedCleanly,
                WriteFails, new
  <2> QED BY <1>1, <2>1, <2>2, <2>3 DEF SoundAfterPhase3
<1>4. CASE Phase3Flush
  <2>1. \/ pc' = "failing"
        \/ pc' = "reconciling" /\ disk' = view /\ view' = view /\ ~ParentContainsMismatch(view.graph)
    BY <1>4 DEF Phase3Flush, FlushRunBatch, CloseBatch, ClosedCleanly
  <2> QED BY <1>0, <1>1, <2>1, MismatchIsInconsistency DEF SoundAfterPhase3
<1>5. CASE EmissionFlush
  <2>1. config.emission /\ pc = "emitting" /\ UNCHANGED <<config, outcome>>
    BY <1>5 DEF EmissionFlush, FlushRunBatch, session
  <2>2. pc' = "committing" /\ (disk' = disk \/ disk' = view)
    BY <1>5 DEF EmissionFlush, FlushRunBatch, CloseBatch
  <2> QED BY <2>1, <2>2 DEF SoundAfterPhase3, EmitsUnclustered
<1>6. CASE Phase3Disabled
  BY <1>6 DEF Phase3Disabled, SoundAfterPhase3, session
<1>7. CASE EmissionDisabled
  BY <1>7, WorkingJob DEF EmissionDisabled, SoundAfterPhase3, Working, actor
<1>8. CASE FinishIndexing
  <2>1. inTx /\ UNCHANGED inTx
    BY <1>8, WorkingJob DEF FinishIndexing, Working, actor
  <2>2. pc' \in {"reconciling", "emitting"} => outcome' = "failed"
    BY <1>8 DEF FinishIndexing
  <2> QED BY <2>1, <2>2 DEF SoundAfterPhase3
<1>9. CASE CommitRun
  BY <1>1, <1>9 DEF CommitRun, CommitOverMismatch, CommitBatchAndRow, CommitRowAlone, CommitFails
<1>10. CASE UNCHANGED vars
  BY <1>10 DEF vars, SoundAfterPhase3, EmitsUnclustered
<1> QED BY <1>1, <1>2, <1>3, <1>4, <1>5, <1>6, <1>7, <1>8, <1>9, <1>10
        DEF Next, Step, InsertEntity, InsertEdge, OpenRun, FailRun, CloseChannel, Crash,
            ProcessGone, Start

(* Only CommitRun turns a row completed, and only its own. *)
LEMMA OnlyCommitCompletes ==
  ASSUME IInv, [Next]_vars,
         NEW r \in Runs, disk.runs[r] # "completed", disk'.runs[r] = "completed"
  PROVE  Committed /\ r = job /\ outcome = "completed"
<1>1. Effect /\ disk \in Db
  BY StepEffect DEF IInv, TypeOK
<1>2. ~UNCHANGED disk /\ ~Published /\ ~Opened /\ ~BornFailed
  BY <1>1 DEF Published, Opened, BornFailed, Db
<1>3. \A gone \in SUBSET Runs : ~Abandoned(gone)
  BY DEF Abandoned
<1>4. Committed
  BY <1>1, <1>2, <1>3 DEF Effect
<1>5. r = job /\ outcome = "completed"
  BY <1>1, <1>4 DEF Committed, Db
<1> QED BY <1>4, <1>5

(* A row that turns completed closes over a sound graph. *)
LEMMA CompletingIsSound ==
  ASSUME IInv, SoundAfterPhase3, [Next]_vars, ~EmitsUnclustered,
         NEW r \in Runs, disk.runs[r] # "completed", disk'.runs[r] = "completed"
  PROVE  Consistent(disk'.graph)
  BY OnlyCommitCompletes DEF Committed, SoundAfterPhase3

LEMMA SoundHolds == Spec => []SoundAfterPhase3
<1>1. Init => SoundAfterPhase3
  BY DEF Init, SoundAfterPhase3
<1>2. IInv /\ SoundAfterPhase3 /\ [Next]_vars => SoundAfterPhase3'
  BY SoundStep
<1> QED BY <1>1, <1>2, Invariance, PTL DEF Spec

(* Whatever the configurations, a run completes over a graph whose two encodings
   disagree only in a process that emits to Filigree and does not cluster: the
   one whose swallowed flush is the only parent check before CommitRun. *)
OnlyUncheckedIsUnsound ==
  [][\A r \in Runs : disk.runs[r] # "completed" /\ disk'.runs[r] = "completed"
        => Consistent(disk'.graph) \/ EmitsUnclustered]_vars

THEOREM OnlyUncheckedIsUnsoundHolds == Spec => OnlyUncheckedIsUnsound
<1>1. IInv /\ SoundAfterPhase3 /\ [Next]_vars =>
        [\A r \in Runs : disk.runs[r] # "completed" /\ disk'.runs[r] = "completed"
           => Consistent(disk'.graph) \/ EmitsUnclustered]_vars
  BY CompletingIsSound
<1> QED BY <1>1, SoundHolds, Invariance, PTL DEF Spec, OnlyUncheckedIsUnsound

(* So without such a configuration there is no such run. *)
EmissionClusters == \A cfg \in Configs : cfg.emission => cfg.clustering

LEMMA NoneEmitsUnclustered ==
  ASSUME EmissionClusters, IInv, pc # "idle"
  PROVE  ~EmitsUnclustered
  BY DEF EmissionClusters, EmitsUnclustered, IInv, Process

THEOREM CompletedIsConsistentHolds ==
  ASSUME EmissionClusters
  PROVE  Spec => CompletedIsConsistent
<1>1. IInv /\ SoundAfterPhase3 /\ [Next]_vars =>
        [\A r \in Runs : disk.runs[r] # "completed" /\ disk'.runs[r] = "completed"
           => Consistent(disk'.graph)]_vars
  <2> SUFFICES ASSUME IInv, SoundAfterPhase3, [Next]_vars, NEW r \in Runs,
                      disk.runs[r] # "completed", disk'.runs[r] = "completed"
               PROVE  Consistent(disk'.graph)
    OBVIOUS
  <2>1. pc # "idle"
    BY OnlyCommitCompletes DEF Committed
  <2> QED BY <2>1, NoneEmitsUnclustered, CompletingIsSound
<1> QED BY <1>1, SoundHolds, Invariance, PTL DEF Spec, CompletedIsConsistent

(* While a process works, the open batch is exactly what was acknowledged; it
   still is when the row is about to close, unless an emission came between. *)
BatchIsAcked ==
  pc \in Working \/ (pc = "committing" /\ ~config.emission)
    => inTx /\ view.graph = acked

LEMMA AckedWrite ==
  ASSUME IInv, BatchIsAcked, pc \in Working, NEW new, NEW next, InRunWrite(new, new.graph, next)
  PROVE  BatchIsAcked'
<1>1. CASE ~BatchFull /\ Bump(new, new.graph, next)
  BY <1>1 DEF Bump, BatchIsAcked
<1>2. CASE BatchFull /\ Bump(new, new.graph, next)
  <2>1. PICK end \in BatchEnds :
          /\ CloseBatch(new, end)
          /\ acked' = IF ClosedCleanly(end) THEN new.graph ELSE acked
          /\ pc' = IF ClosedCleanly(end) THEN next ELSE "failing"
    BY <1>2 DEF Bump
  <2> QED BY <2>1 DEF CloseBatch, ClosedCleanly, BatchIsAcked, Working
<1>3. CASE WriteFails(new)
  BY <1>3 DEF WriteFails, BatchIsAcked, Working
<1> QED BY <1>1, <1>2, <1>3 DEF InRunWrite

LEMMA AckedStep ==
  ASSUME IInv, BatchIsAcked, [Next]_vars
  PROVE  BatchIsAcked'
<1>1. ASSUME pc' \notin Working \cup {"committing"} PROVE BatchIsAcked'
  BY <1>1 DEF BatchIsAcked
<1>2. ASSUME NEW g \in Graph, NEW granted, NEW next, pc \in Working, g = granted,
             InRunWrite(WithGraph(view, g), granted, next)
      PROVE  BatchIsAcked'
  <2>1. WithGraph(view, g).graph = granted
    BY <1>2, WithGraphType DEF IInv, TypeOK
  <2> QED BY <1>2, <2>1, AckedWrite
<1>3. CASE Phase3Flush
  <2>1. \/ pc' = "failing"
        \/ pc' = "reconciling" /\ view' = view /\ inTx' = TRUE /\ acked' = acked
    BY <1>3 DEF Phase3Flush, FlushRunBatch, CloseBatch, ClosedCleanly
  <2> QED BY <1>3, <2>1 DEF Phase3Flush, BatchIsAcked, Working
<1>4. CASE Phase3Disabled \/ EmissionDisabled
  BY <1>4 DEF Phase3Disabled, EmissionDisabled, BatchIsAcked, Working, actor
<1>5. CASE FinishIndexing
  BY <1>5 DEF FinishIndexing, BatchIsAcked, Working, actor
<1>6. CASE OpenRun
  <2>1. pc' = "exiting" \/ (inTx' = TRUE /\ view' = disk' /\ acked' = disk.graph)
    BY <1>6 DEF OpenRun
  <2>2. disk'.graph = disk.graph
    BY <1>6 DEF OpenRun, WithStatus, IInv, TypeOK, Db
  <2> QED BY <1>6, <2>1, <2>2 DEF OpenRun, BatchIsAcked, Working
<1>7. CASE CommitRun
  BY <1>1, <1>7 DEF CommitRun, CommitOverMismatch, CommitBatchAndRow, CommitRowAlone,
                    CommitFails, Working
<1>8. CASE EmissionFlush
  BY <1>8 DEF EmissionFlush, FlushRunBatch, CloseBatch, session, BatchIsAcked, Working
<1>9. CASE UNCHANGED vars
  BY <1>9 DEF vars, BatchIsAcked
<1>10. CASE (\E r \in Runs : Start(r)) \/ FailRun \/ CloseChannel \/ Crash
  BY <1>1, <1>10 DEF Start, FailRun, CloseChannel, Crash, ProcessGone, Working
<1>11. ASSUME pc \in Working PROVE view.graph \in Graph /\ acked = view.graph /\ job \in Runs
  BY <1>11, WorkingJob DEF IInv, TypeOK, Db, BatchIsAcked
<1>12. ASSUME NEW c \in Children, NEW p \in Parents \cup {None}, InsertEntity(c, p)
       PROVE  BatchIsAcked'
  <2>1. pc \in Working
    BY <1>12 DEF InsertEntity, Working
  <2>2. EntityRow(view.graph, c, p) \in Graph /\ EntityRow(acked, c, p) = EntityRow(view.graph, c, p)
    BY <1>11, <2>1, GraphWrites
  <2> QED BY <1>2, <1>12, <2>1, <2>2 DEF InsertEntity
<1>13. ASSUME NEW c \in Children, NEW p \in Parents, InsertEdge(c, p)
       PROVE  BatchIsAcked'
  <2>1. pc \in Working
    BY <1>13 DEF InsertEdge, Working
  <2>2. ContainsEdge(view.graph, c, p) \in Graph /\ ContainsEdge(acked, c, p) = ContainsEdge(view.graph, c, p)
    BY <1>11, <2>1, GraphWrites
  <2> QED BY <1>2, <1>13, <2>1, <2>2 DEF InsertEdge
<1>14. CASE ReconcileSubsystemGraph
  <2>1. pc \in Working
    BY <1>14 DEF ReconcileSubsystemGraph, Working
  <2>2. SubsystemsOf(view.graph, job) \in Graph /\ SubsystemsOf(acked, job) = SubsystemsOf(view.graph, job)
    BY <1>11, <2>1, GraphWrites
  <2> QED BY <1>2, <1>14, <2>1, <2>2 DEF ReconcileSubsystemGraph
<1> QED BY <1>3, <1>4, <1>5, <1>6, <1>7, <1>8, <1>9, <1>10, <1>11, <1>12, <1>13, <1>14 DEF Next, Step

(* A process that does not emit completes its run with every acknowledged write. *)
THEOREM CompletedKeepsAckedWritesHolds == Spec => CompletedKeepsAckedWrites
<1>1. Init => BatchIsAcked
  BY DEF Init, BatchIsAcked, Working
<1>2. IInv /\ BatchIsAcked /\ [Next]_vars => BatchIsAcked'
  BY AckedStep
<1>3. IInv /\ BatchIsAcked /\ [Next]_vars =>
        [\A r \in Runs :
           /\ disk.runs[r] # "completed" /\ disk'.runs[r] = "completed"
           /\ ~config.emission
           => disk'.graph = acked]_vars
  BY OnlyCommitCompletes DEF Committed, BatchIsAcked
<1> QED BY <1>1, <1>2, <1>3, Invariance, PTL DEF Spec, CompletedKeepsAckedWrites
-----------------------------------------------------------------------------
(***************************************************************************)
(* Refinement: through the database file the actor implements RunLedger.   *)
(***************************************************************************)
(* The ledger's graphs are the writer's. *)
LEMMA LedgerGraph ==
  /\ Ledger!Graph = Graph /\ Ledger!EmptyGraph = EmptyGraph
  /\ \A g : Ledger!Consistent(g) <=> Consistent(g)
  BY DEF Ledger!Graph, Graph, Ledger!EmptyGraph, EmptyGraph,
         Ledger!Consistent, Consistent, Ledger!ContainersOf, ContainersOf

LEMMA LedgerStep ==
  ASSUME EmissionClusters, IInv, SoundAfterPhase3, [Next]_vars
  PROVE  [Ledger!Next]_(Ledger!vars)
<1>0. Effect /\ disk \in Db /\ disk' \in Db
  BY StepEffect, InvStep DEF IInv, TypeOK
<1>1. CASE UNCHANGED disk
  BY <1>1 DEF Ledger!vars
<1>2. CASE Published
  <2>1. disk.runs[current] = "running" /\ current \in Runs
    BY <1>2 DEF Published, IInv, TypeOK, Process
  <2> QED BY <1>0, <1>2, <2>1, LedgerGraph DEF Published, Ledger!Next, Ledger!Publish, Db
<1>3. CASE Opened
  <2>1. CASE disk.runs[job] = "running"
    BY <1>0, <1>3, <2>1 DEF Opened, Db, Ledger!vars
  <2>2. CASE disk.runs[job] # "running"
    BY <1>3, <2>2 DEF Opened, Ledger!Next, Ledger!Open
  <2> QED BY <2>1, <2>2
<1>4. CASE BornFailed
  BY <1>4 DEF BornFailed, Ledger!Next, Ledger!Stillborn
<1>5. ASSUME NEW gone \in SUBSET Runs, Abandoned(gone)
      PROVE  Ledger!Next
  BY <1>5 DEF Abandoned, Ledger!Next, Ledger!Sweep
<1>6. CASE Committed
  <2>1. /\ disk'.graph \in Graph /\ outcome \in Terminal
        /\ disk'.graph = disk.graph \/ Consistent(disk'.graph)
        /\ outcome = "completed" => Consistent(disk'.graph)
    <3>1. ~EmitsUnclustered
      BY <1>6, NoneEmitsUnclustered DEF Committed
    <3> QED BY <1>0, <1>6, <3>1 DEF Committed, SoundAfterPhase3, IInv, TypeOK, Db
  <2>2. Ledger!Settle(job, outcome)
    BY <1>6, <2>1, LedgerGraph DEF Committed, Ledger!Settle
  <2> QED BY <1>6, <2>1, <2>2 DEF Committed, Ledger!Next, Ledger!Terminal, Terminal
<1> QED BY <1>0, <1>1, <1>2, <1>3, <1>4, <1>5, <1>6 DEF Effect

(* Without a configuration that emits but does not cluster, every reader of the
   file sees the life cycle RunLedger promises. *)
THEOREM RefinesLedgerHolds ==
  ASSUME EmissionClusters
  PROVE  Spec => RefinesLedger
<1>1. Init => Ledger!Init
  BY LedgerGraph DEF Init, Ledger!Init
<1>2. IInv /\ SoundAfterPhase3 /\ [Next]_vars => [Ledger!Next]_(Ledger!vars)
  BY LedgerStep
<1> QED BY <1>1, <1>2, SoundHolds, Invariance, PTL DEF Spec, RefinesLedger, Ledger!Spec
-----------------------------------------------------------------------------
(***************************************************************************)
(* What EveryRunSettles rests on, but for the fairness: the next command   *)
(* of a living process is always accepted by the actor's own guards, and   *)
(* there are only so many of them.                                         *)
(***************************************************************************)
(* The actor refuses a second BeginRun, and every other command without a
   current run: the process never sends one that is refused for that, not even
   after a batch boundary, a rollback or a CommitRun that failed. *)
NoCommandOutOfTurn ==
  /\ pc = "opening" => current = None /\ ~inTx /\ ~sqlTx
  /\ pc \in Stages \ {"idle", "opening", "post", "exiting"} => current = job /\ job \in Runs
  /\ pc # "idle" => config \in Configs

THEOREM NoCommandOutOfTurnHolds == Spec => []NoCommandOutOfTurn
<1>1. IInv => NoCommandOutOfTurn
  <2> SUFFICES ASSUME IInv PROVE NoCommandOutOfTurn
    OBVIOUS
  <2>1. ASSUME pc \in Stages \ {"idle", "opening", "post", "exiting"} PROVE current = job
    BY <2>1 DEF IInv, Process, Working, Stages
  <2>2. pc # "idle" => job \in Runs
    BY DEF IInv, TypeOK, Process
  <2> QED BY <2>1, <2>2 DEF NoCommandOutOfTurn, IInv, Process
<1> QED BY <1>1, Invariance, PTL

(* The commands a process may still send, at most. *)
StagesLeft ==
  [idle |-> 0, post |-> 1, exiting |-> 1, failing |-> 2, committing |-> 3, emitting |-> 4,
   reconciling |-> 5, clustering |-> 6, indexing |-> 7, opening |-> 8]

WritesLeft == IF pc \in {"opening", "indexing"} THEN MaxWrites - sent ELSE 0

CommandsLeft == StagesLeft[pc] + WritesLeft

(* Whatever a command is answered, and wherever the process is killed, it is
   one command nearer its end: no failure sends it back to a stage behind it. *)
SessionsWindDown == [][pc # "idle" => CommandsLeft' < CommandsLeft]_vars

(* A process that has not opened its run has written nothing. *)
NothingSent == pc \in {"idle", "opening"} => sent = 0

LEMMA SentStep ==
  ASSUME NothingSent, [Next]_vars
  PROVE  NothingSent'
<1>1. ASSUME pc' \notin {"idle", "opening"} PROVE NothingSent'
  BY <1>1 DEF NothingSent
<1>2. CASE UNCHANGED vars
  BY <1>2 DEF vars, NothingSent
<1>3. ASSUME NEW r \in Runs, Start(r) PROVE NothingSent'
  BY <1>3 DEF Start, NothingSent
<1>4. CASE CloseChannel \/ Crash
  BY <1>4 DEF CloseChannel, Crash, ProcessGone, NothingSent
<1>5. ASSUME Step, ~CloseChannel PROVE pc' \notin {"idle", "opening"}
  BY <1>5 DEF Step, InsertEntity, InsertEdge, OpenRun, FinishIndexing, Phase3Flush, Phase3Disabled,
              ReconcileSubsystemGraph, EmissionFlush, EmissionDisabled, CommitRun, FailRun,
              InRunWrite, Bump, WriteFails, FlushRunBatch, CommitOverMismatch, CommitBatchAndRow,
              CommitRowAlone, CommitFails
<1> QED BY <1>1, <1>2, <1>3, <1>4, <1>5 DEF Next

(* The stage a command leads to, for each stage it is sent from. *)
LEMMA StageStep ==
  ASSUME Next, pc # "idle"
  PROVE  \/ pc' = "idle"
         \/ pc = "opening" /\ pc' = "indexing" /\ sent' = 0
         \/ pc = "opening" /\ pc' = "exiting"
         \/ pc = "indexing" /\ pc' = "indexing" /\ sent' = sent + 1
         \/ pc = "indexing" /\ pc' \in {"clustering", "emitting", "committing", "failing", "exiting"}
         \/ pc = "clustering" /\ pc' \in {"reconciling", "failing"}
         \/ pc = "reconciling" /\ pc' \in {"emitting", "failing"}
         \/ pc = "emitting" /\ pc' = "committing"
         \/ pc = "committing" /\ pc' \in {"failing", "exiting", "post"}
         \/ pc = "failing" /\ pc' = "exiting"
<1>1. ASSUME NEW new, NEW granted, NEW next, InRunWrite(new, granted, next)
      PROVE  pc' \in {next, "failing"}
  BY <1>1 DEF InRunWrite, Bump, WriteFails
<1>2. ASSUME NEW onOk, NEW onError, FlushRunBatch(onOk, onError)
      PROVE  pc' \in {onOk, onError}
  BY <1>2 DEF FlushRunBatch
<1>3. CASE \E c \in Children, p \in Parents \cup {None} : InsertEntity(c, p)
  BY <1>1, <1>3 DEF InsertEntity
<1>4. CASE \E c \in Children, p \in Parents : InsertEdge(c, p)
  BY <1>1, <1>4 DEF InsertEdge
<1>5. CASE ReconcileSubsystemGraph
  BY <1>1, <1>5 DEF ReconcileSubsystemGraph
<1>6. CASE Phase3Flush \/ EmissionFlush
  BY <1>2, <1>6 DEF Phase3Flush, EmissionFlush
<1>7. CASE Phase3Disabled \/ EmissionDisabled
  BY <1>7 DEF Phase3Disabled, EmissionDisabled
<1>8. CASE OpenRun
  BY <1>8 DEF OpenRun
<1>9. CASE FinishIndexing
  BY <1>9 DEF FinishIndexing
<1>10. CASE CommitRun
  BY <1>10 DEF CommitRun, CommitOverMismatch, CommitBatchAndRow, CommitRowAlone, CommitFails
<1>11. CASE FailRun
  BY <1>11 DEF FailRun
<1>12. CASE CloseChannel \/ Crash
  BY <1>12 DEF CloseChannel, Crash, ProcessGone
<1>13. CASE \E r \in Runs : Start(r)
  BY <1>13 DEF Start
<1> QED BY <1>3, <1>4, <1>5, <1>6, <1>7, <1>8, <1>9, <1>10, <1>11, <1>12, <1>13 DEF Next, Step

(* A session of the writer is bounded, whatever fails in it. *)
THEOREM SessionsWindDownHold == Spec => SessionsWindDown
<1>1. Init => NothingSent
  BY DEF Init, NothingSent
<1>2. NothingSent /\ [Next]_vars => NothingSent'
  BY SentStep
<1>3. IInv /\ NothingSent /\ [Next]_vars => [pc # "idle" => CommandsLeft' < CommandsLeft]_vars
  <2> SUFFICES ASSUME IInv, NothingSent, Next, pc # "idle", TypeOK' PROVE CommandsLeft' < CommandsLeft
    BY InvStep DEF vars, IInv
  <2>1. sent \in 0 .. MaxWrites /\ sent' \in 0 .. MaxWrites /\ MaxWrites \in Nat
    BY WriterAssumption DEF IInv, TypeOK
  <2>2. pc = "opening" => sent = 0
    BY DEF NothingSent
  <2>3. /\ WritesLeft = IF pc \in {"opening", "indexing"} THEN MaxWrites - sent ELSE 0
        /\ WritesLeft' = IF pc' \in {"opening", "indexing"} THEN MaxWrites - sent' ELSE 0
    BY DEF WritesLeft
  <2>4. /\ StagesLeft["idle"] = 0 /\ StagesLeft["post"] = 1 /\ StagesLeft["exiting"] = 1
        /\ StagesLeft["failing"] = 2 /\ StagesLeft["committing"] = 3
        /\ StagesLeft["emitting"] = 4 /\ StagesLeft["reconciling"] = 5
        /\ StagesLeft["clustering"] = 6 /\ StagesLeft["indexing"] = 7 /\ StagesLeft["opening"] = 8
    BY DEF StagesLeft
  <2>5. pc \in Stages /\ pc' \in Stages
    BY DEF IInv, TypeOK
  <2>6. CASE pc' = "idle"
    BY <2>1, <2>3, <2>4, <2>5, <2>6 DEF CommandsLeft, Stages
  <2>7. CASE pc' # "idle"
    BY <2>1, <2>2, <2>3, <2>4, <2>7, StageStep DEF CommandsLeft
  <2> QED BY <2>6, <2>7
<1> QED BY <1>1, <1>2, <1>3, Invariance, PTL DEF Spec, SessionsWindDown
=============================================================================
