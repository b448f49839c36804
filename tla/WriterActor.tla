---------------------------- MODULE WriterActor ----------------------------
(***************************************************************************)
(* The writer actor of loomweave-storage and the analyze process that      *)
(* drives it.  One connection owns all writes of a run; it keeps a batch   *)
(* transaction open across commands, commits it every BatchSize writes and *)
(* folds the row of `runs` into the last one.  The analyze process sends   *)
(* one command at a time and waits for its reply, so a command is one step *)
(* here: what a crash between two of its statements leaves on disk is also *)
(* what a crash before or after some command leaves.                       *)
(*                                                                         *)
(* `disk` is what another connection reads, `view` what the writer's own   *)
(* connection reads.  `sqlTx` is SQLite's transaction, `inTx` the actor's  *)
(* belief about it: a failed statement can part the two.                   *)
(***************************************************************************)
EXTENDS DualEncoding, Naturals

CONSTANTS BatchSize,    \* ActorState.batch_size
          MaxWrites,    \* bound: entity and edge writes sent in one run
          MaxSessions,  \* bound: analyze processes started
          Configs       \* the configurations a process may be started with

ASSUME WriterAssumption ==
  /\ BatchSize \in Nat \ {0}
  /\ MaxWrites \in Nat
  /\ MaxSessions \in Nat
  /\ Configs \subseteq [clustering : BOOLEAN,   \* analysis.clustering.enabled
                         emission   : BOOLEAN]   \* filigree.enabled and emit_findings
  /\ Configs # {}

VARIABLES
  disk, view,   \* [runs, graph]: durable, and as the connection sees it
  sqlTx,        \* a SQLite transaction is open on the connection
  inTx,         \* ActorState.in_tx
  writes,       \* ActorState.writes_in_batch
  current,      \* ActorState.current_run
  pc,           \* where the analyze process is
  job,          \* the run id the process works for
  outcome,      \* the status it means to give the row
  sent,         \* entity and edge writes sent for this run
  config,       \* the configuration it read
  sessions,     \* processes started
  acked,        \* history: the graph the acknowledged writes amount to
  faulted       \* history: runs whose process or whose row update was lost

actor   == <<inTx, writes, current>>
session == <<job, outcome, config, sessions>>
vars    == <<disk, view, sqlTx, inTx, writes, current, pc, job, outcome, sent,
             config, sessions, acked, faulted>>

Terminal == {"completed", "failed", "skipped"}
Status   == {"absent", "running"} \cup Terminal
Db       == [runs : [Runs -> Status], graph : Graph]
Stages   == {"idle", "opening", "indexing", "clustering", "reconciling",
             "emitting", "committing", "failing", "post", "exiting"}

WithStatus(db, r, status) == [db EXCEPT !.runs[r] = status]
WithGraph(db, g)          == [db EXCEPT !.graph = g]

TypeOK ==
  /\ disk \in Db /\ view \in Db
  /\ sqlTx \in BOOLEAN /\ inTx \in BOOLEAN
  /\ writes \in 0 .. BatchSize - 1
  /\ current \in Runs \cup {None}
  /\ pc \in Stages
  /\ job \in Runs \cup {None}
  /\ outcome \in Terminal
  /\ sent \in 0 .. MaxWrites
  /\ config \in Configs \cup {None}
  /\ sessions \in 0 .. MaxSessions
  /\ acked \in Graph
  /\ faulted \in SUBSET Runs

Init ==
  /\ disk = [runs |-> [r \in Runs |-> "absent"], graph |-> EmptyGraph]
  /\ view = disk
  /\ sqlTx = FALSE /\ inTx = FALSE /\ writes = 0 /\ current = None
  /\ pc = "idle" /\ job = None /\ outcome = "completed"
  /\ sent = 0 /\ sessions = 0 /\ config = None
  /\ acked = EmptyGraph /\ faulted = {}
-----------------------------------------------------------------------------
MismatchRowsOnly(g) ==               \* mutant: the edge-to-row query is gone
  \E c \in Children :
    /\ g.parent[c] # None
    /\ ContainersOf(g, c) = {} \/ \E p \in ContainersOf(g, c) : p # g.parent[c]

(* The two queries of the parent check: an entity with a parent has its edge and
   no edge from elsewhere; a contains edge ends in an entity that names it. *)
ParentContainsMismatch(g) ==
  \/ \E c \in Children :
       /\ g.parent[c] # None
       /\ ContainersOf(g, c) = {} \/ \E p \in ContainersOf(g, c) : p # g.parent[c]
  \/ \E c \in Children : \E p \in ContainersOf(g, c) : g.parent[c] # p

(***************************************************************************)
(* Closing a batch: heartbeat, COMMIT, BEGIN IMMEDIATE.  The actor clears  *)
(* in_tx first, so every ending but the last leaves it FALSE.              *)
(***************************************************************************)
BatchEnds == {"heartbeatFailed",  \* the UPDATE failed, its transaction stays open
              "rolledBack",       \* SQLite rolled the transaction back
              "lockLost",         \* committed, then BEGIN IMMEDIATE ran out of retries
              "reopened"}

BeginErrorIgnored(end) == end \in {"reopened", "lockLost"}   \* mutant

ClosedCleanly(end) == end = "reopened"

CloseBatch(new, end) ==
  /\ disk' = IF end \in {"lockLost", "reopened"} THEN new ELSE disk
  /\ view' = IF end = "rolledBack" THEN disk ELSE new
  /\ sqlTx' = (end \in {"heartbeatFailed", "reopened"})
  /\ inTx' = (end = "reopened")
  /\ writes' = 0
  /\ faulted' = IF end = "heartbeatFailed" THEN faulted \cup {job} ELSE faulted

(* A handler may write when its transaction is open or when BEGIN IMMEDIATE can
   open one; inside a transaction the actor forgot, BEGIN is an error. *)
CanWrite == inTx \/ ~sqlTx

BatchFullLate == writes + 1 > BatchSize                      \* mutant

BatchFull == writes + 1 >= BatchSize

(* A write command whose statements succeeded: bump_writes_and_maybe_commit.
   The caller hears Ok only if the batch, when it was due, closed cleanly; what
   it has been granted then is `granted`. *)
Bump(new, granted, next) ==
  \/ /\ ~BatchFull
     /\ view' = new /\ sqlTx' = TRUE /\ inTx' = TRUE
     /\ writes' = writes + 1
     /\ acked' = granted
     /\ pc' = next
     /\ UNCHANGED <<disk, faulted>>
  \/ /\ BatchFull
     /\ \E end \in BatchEnds :
          /\ CloseBatch(new, end)
          /\ acked' = IF ClosedCleanly(end) THEN granted ELSE acked
          /\ pc' = IF ClosedCleanly(end) THEN next ELSE "failing"

(* A write command that failed.  A refused record or an unavailable lock leaves
   everything alone; a failed statement keeps what the command wrote before it;
   on a full disk or an I/O error SQLite gives up the whole transaction. *)
WriteFails(new) ==
  /\ \/ UNCHANGED <<view, sqlTx, inTx>>
     \/ CanWrite /\ view' = new /\ sqlTx' = TRUE /\ inTx' = TRUE
     \/ CanWrite /\ view' = disk /\ sqlTx' = FALSE /\ inTx' = TRUE
  /\ pc' = "failing"
  /\ UNCHANGED <<disk, writes, acked, faulted>>

(* Every in-run write handler: lazily open the transaction, write, count. *)
InRunWrite(new, granted, next) ==
  /\ current # None
  /\ (CanWrite /\ Bump(new, granted, next)) \/ WriteFails(new)
  /\ UNCHANGED <<current, session>>

InsertEntity(c, p) ==
  /\ pc = "indexing" /\ sent < MaxWrites
  /\ sent' = sent + 1
  /\ InRunWrite(WithGraph(view, EntityRow(view.graph, c, p)),
                EntityRow(acked, c, p), "indexing")

InsertEdge(c, p) ==
  /\ pc = "indexing" /\ sent < MaxWrites
  /\ sent' = sent + 1
  /\ InRunWrite(WithGraph(view, ContainsEdge(view.graph, c, p)),
                ContainsEdge(acked, c, p), "indexing")

ReconcileSubsystemGraph ==
  /\ pc = "reconciling"
  /\ InRunWrite(WithGraph(view, SubsystemsOf(view.graph, job)),
                SubsystemsOf(acked, job), "emitting")
  /\ UNCHANGED sent
-----------------------------------------------------------------------------
(***************************************************************************)
(* FlushRunBatch: the parent check, then the batch boundary out of turn.   *)
(* `onError` is where the caller goes with an Err: phase 3 fails the run,  *)
(* the Filigree emission only skips itself.                                *)
(***************************************************************************)
FlushRunBatch(onOk, onError) ==
  /\ current # None
  /\ \/ /\ inTx /\ ParentContainsMismatch(view.graph)      \* ROLLBACK
        /\ view' = disk /\ sqlTx' = FALSE /\ inTx' = FALSE /\ writes' = 0
        /\ pc' = onError
        /\ UNCHANGED <<disk, faulted>>
     \/ /\ CanWrite /\ ~ParentContainsMismatch(view.graph)
        /\ \E end \in IF inTx THEN BatchEnds ELSE {"reopened"} :
             /\ CloseBatch(view, end)
             /\ pc' = IF ClosedCleanly(end) THEN onOk ELSE onError
     \/ /\ pc' = onError                                  \* the check itself failed
        /\ UNCHANGED <<disk, view, sqlTx, inTx, writes, faulted>>
  /\ UNCHANGED <<current, session, sent, acked>>

Phase3FlushIgnored ==                              \* mutant: the Err is dropped
  /\ pc = "clustering" /\ config.clustering
  /\ FlushRunBatch("reconciling", "reconciling")

(* run_phase3_clustering up to its first write. *)
Phase3Flush ==
  /\ pc = "clustering" /\ config.clustering
  /\ FlushRunBatch("reconciling", "failing")

Phase3Disabled ==
  /\ pc = "clustering" /\ ~config.clustering
  /\ pc' = "reconciling"
  /\ UNCHANGED <<disk, view, sqlTx, actor, session, sent, acked, faulted>>

(* emit_findings_to_filigree: an Err of the flush is logged and forgotten. *)
EmissionFlush ==
  /\ pc = "emitting" /\ config.emission
  /\ FlushRunBatch("committing", "committing")

EmissionDisabled ==
  /\ pc = "emitting" /\ ~config.emission
  /\ pc' = "committing"
  /\ UNCHANGED <<disk, view, sqlTx, actor, session, sent, acked, faulted>>
-----------------------------------------------------------------------------
(***************************************************************************)
(* The life of a run.  An analyze process holds the analyze lock from its  *)
(* first step here to its last, so at most one of them is ever alive.      *)
(***************************************************************************)
(* run_with_options before the run row: sweep rows whose heartbeat is old,
   spawn the actor.  Between two processes a day may or may not pass. *)
Start(r) ==
  /\ pc = "idle" /\ sessions < MaxSessions
  /\ \E stale \in SUBSET {q \in Runs : disk.runs[q] = "running"} :
       /\ disk' = [disk EXCEPT !.runs =
                     [q \in Runs |-> IF q \in stale THEN "failed" ELSE @[q]]]
       /\ faulted' = faulted \ stale
  /\ view' = disk'
  /\ pc' = "opening" /\ job' = r /\ config' \in Configs
  /\ sessions' = sessions + 1
  /\ UNCHANGED <<sqlTx, actor, outcome, sent, acked>>

RepairedAsFailed(before) == "failed"                         \* mutant

(* What a row is put back to when its transaction cannot be opened: BeginRun
   fails the row it has just inserted, ResumeRun restores what it found. *)
RepairedStatus(before) == IF before = "absent" THEN "failed" ELSE before

(* BeginRun for a new id, ResumeRun for a known one.  The row is published in
   a transaction of its own before the batch transaction is asked for; when
   that fails the row is repaired or restored, and that too may fail. *)
OpenRun ==
  /\ pc = "opening" /\ current = None
  /\ \E end \in {"refused", "repaired", "stranded", "opened"} :
       /\ LET before == disk.runs[job]
              after  == CASE end = "refused"  -> before
                          [] end = "repaired" -> RepairedStatus(before)
                          [] OTHER            -> "running"
          IN  disk' = WithStatus(disk, job, after)
       /\ inTx' = (end = "opened") /\ sqlTx' = (end = "opened")
       /\ current' = IF end = "opened" THEN job ELSE None
       /\ pc' = IF end = "opened" THEN "indexing" ELSE "exiting"
       /\ faulted' = CASE end = "stranded" -> faulted \cup {job}
                       [] end = "opened"   -> faulted \ {job}
                       [] OTHER            -> faulted
  /\ view' = disk' /\ writes' = 0 /\ sent' = 0
  /\ acked' = disk.graph
  /\ UNCHANGED <<session>>

(* The plugin loop ends: cleanly, with a crashed plugin (SoftFailed), on a host
   error (HardFailed) or by an early return that only drops the writer.  With
   nothing to analyse the process settles the row right after opening it. *)
FinishIndexing ==
  /\ pc = "indexing"
  /\ \E way \in {<<"completed", "clustering">>, <<"failed", "emitting">>,
                 <<"failed", "failing">>, <<"failed", "exiting">>} \cup
                IF sent = 0 THEN {<<"skipped", "committing">>, <<"completed", "committing">>}
                            ELSE {} :
       outcome' = way[1] /\ pc' = way[2]
  /\ UNCHANGED <<disk, view, sqlTx, actor, job, config, sent, sessions, acked, faulted>>

(* CommitRun with a batch open whose two encodings disagree: give the batch up
   and mark the row; the caller sees the row failed and stops, or sends FailRun. *)
CommitOverMismatch ==
  /\ inTx /\ ParentContainsMismatch(view.graph)
  /\ \E marked \in BOOLEAN :
       /\ disk' = IF marked THEN WithStatus(disk, job, "failed") ELSE disk
       /\ current' = IF marked THEN None ELSE current
       /\ pc' = IF marked THEN "exiting" ELSE "failing"
  /\ view' = disk' /\ sqlTx' = FALSE /\ inTx' = FALSE /\ writes' = 0

(* CommitRun with a sound batch open: the row and the batch in one COMMIT. *)
CommitBatchAndRow ==
  /\ inTx /\ ~ParentContainsMismatch(view.graph)
  /\ disk' = WithStatus(view, job, outcome)
  /\ view' = disk' /\ sqlTx' = FALSE /\ inTx' = FALSE /\ writes' = 0
  /\ current' = None
  /\ pc' = IF outcome = "completed" THEN "post" ELSE "exiting"

(* CommitRun with no batch open: the row alone, and no parent check.  Inside a
   transaction the actor forgot, the update is acknowledged but not durable. *)
CommitRowAlone ==
  /\ ~inTx
  /\ view' = WithStatus(view, job, outcome)
  /\ disk' = IF sqlTx THEN disk ELSE view'
  /\ current' = None /\ writes' = 0
  /\ pc' = IF outcome = "completed" THEN "post" ELSE "exiting"
  /\ UNCHANGED <<sqlTx, inTx>>

(* CommitRun refused by SQLite: in the row update, or in COMMIT, which rolls
   the batch back. *)
CommitFails ==
  /\ \/ UNCHANGED <<view, sqlTx, inTx>>
     \/ inTx /\ view' = disk /\ sqlTx' = FALSE /\ inTx' = FALSE
  /\ pc' = "failing"
  /\ UNCHANGED <<disk, current, writes>>

(* commit_run and, around it, commit_run_or_terminalize. *)
CommitRun ==
  /\ pc = "committing" /\ current = job
  /\ CommitOverMismatch \/ CommitBatchAndRow \/ CommitRowAlone \/ CommitFails
  /\ UNCHANGED <<session, sent, acked, faulted>>

BatchKept == view                                  \* mutant: no ROLLBACK

BatchDropped == IF inTx THEN disk ELSE view        \* ROLLBACK, when in_tx says so

(* fail_run: drop the open batch, then mark the row in a statement of its own. *)
FailRun ==
  /\ pc = "failing" /\ current = job
  /\ \E marked \in BOOLEAN :
       /\ view' = IF marked THEN WithStatus(BatchDropped, job, "failed") ELSE BatchDropped
       /\ current' = IF marked THEN None ELSE current
       /\ writes' = IF marked THEN 0 ELSE writes
  /\ sqlTx' = (sqlTx /\ ~inTx)                      \* a forgotten one stays open
  /\ disk' = IF sqlTx' THEN disk ELSE view'
  /\ inTx' = FALSE
  /\ pc' = "exiting"
  /\ UNCHANGED <<session, sent, acked, faulted>>

(* What lived in the process is gone with it. *)
ProcessGone ==
  /\ view' = disk'
  /\ sqlTx' = FALSE /\ inTx' = FALSE /\ writes' = 0 /\ current' = None
  /\ pc' = "idle" /\ job' = None /\ outcome' = "completed" /\ config' = None
  /\ sent' = 0 /\ acked' = EmptyGraph
  /\ UNCHANGED sessions

CleanupRollsBackOnly == UNCHANGED <<disk, faulted>>          \* mutant

(* A run still active when the last sender is gone is marked failed, unless that
   statement fails too or lands in a transaction the actor forgot. *)
CleanupAfterChannelClose ==
  IF current = None
  THEN UNCHANGED <<disk, faulted>>
  ELSE \/ /\ disk' = IF CanWrite THEN WithStatus(disk, current, "failed") ELSE disk
          /\ UNCHANGED faulted
       \/ faulted' = faulted \cup {current} /\ UNCHANGED disk

(* The writer is dropped: cleanup_after_channel_close, then the connection
   closes and SQLite discards what is still open. *)
CloseChannel ==
  /\ pc \in {"exiting", "post"}
  /\ CleanupAfterChannelClose
  /\ ProcessGone

(* The process is killed: everything not committed is gone. *)
Crash ==
  /\ pc # "idle"
  /\ faulted' = faulted \cup {job}
  /\ UNCHANGED disk
  /\ ProcessGone

(* What a living process does of itself. *)
Step ==
  \/ \E c \in Children, p \in Parents \cup {None} : InsertEntity(c, p)
  \/ \E c \in Children, p \in Parents : InsertEdge(c, p)
  \/ OpenRun \/ FinishIndexing
  \/ Phase3Flush \/ Phase3Disabled \/ ReconcileSubsystemGraph
  \/ EmissionFlush \/ EmissionDisabled
  \/ CommitRun \/ FailRun \/ CloseChannel

Next == Step \/ Crash \/ \E r \in Runs : Start(r)

Spec == Init /\ [][Next]_vars

(* The actor answers every command and the process waits for nothing else, so a
   living process keeps going; nobody has to start another one. *)
FairSpec == Spec /\ WF_vars(Step)
-----------------------------------------------------------------------------
Working == {"indexing", "clustering", "reconciling", "emitting"}

(* While the process still means to write, the actor and SQLite agree that a
   transaction is open, and it belongs to the run the process works for, whose
   row every other process sees as running: the early clearing of in_tx around
   a batch boundary never leaks into the next command. *)
WorkingHoldsTx ==
  pc \in Working =>
    inTx /\ sqlTx /\ current = job /\ disk.runs[job] = "running"

(* A row reads `running` with no process behind it only if the process was
   killed, or the statement that should have settled the row failed.  Every
   orderly ending, the early returns that merely drop the writer included,
   settles the row. *)
StrandedOnlyByFault ==
  pc = "idle" => \A r \in Runs : disk.runs[r] = "running" => r \in faulted

(* A process that is started ends, and its row is then settled, or known lost to
   a fault: no command leaves the process without a next one. *)
EveryRunSettles ==
  \A r \in Runs : (pc # "idle" /\ job = r)
                   ~> (pc = "idle" /\ (disk.runs[r] = "running" => r \in faulted))

(* At the step that makes a run `completed`, the durable graph passes the
   parent check, whatever batches went to disk before: a reader that trusts
   completed runs never meets a child whose parent column and contains edge
   disagree. *)
CompletedIsConsistent ==
  [][\A r \in Runs : disk.runs[r] # "completed" /\ disk'.runs[r] = "completed"
        => Consistent(disk'.graph)]_vars

(* A `completed` run of a process that does not emit to Filigree holds every
   write the writer acknowledged to it: no batch boundary, flush or rollback
   loses one silently.  The flush of the emission is such a one: it swallows a
   COMMIT that failed. *)
CompletedKeepsAckedWrites ==
  [][\A r \in Runs :
       /\ disk.runs[r] # "completed" /\ disk'.runs[r] = "completed"
       /\ ~config.emission
       => disk'.graph = acked]_vars

(* History is not rewritten: a settled row changes only when the process that
   resumes it opens it, and then to running (a failed resume restores it). *)
TerminalRowsAreFinal ==
  [][\A r \in Runs : disk.runs[r] \in Terminal /\ disk'.runs[r] # disk.runs[r]
        => r = job /\ pc = "opening" /\ disk'.runs[r] = "running"]_vars

(* Seen through the database file alone, the actor implements the ledger. *)
Ledger == INSTANCE RunLedger WITH runs <- disk.runs, graph <- disk.graph
RefinesLedger == Ledger!Spec
=============================================================================
