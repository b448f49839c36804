--------------------------- MODULE SupervisedRuns ---------------------------
(***************************************************************************)
(* Analyze runs started, watched and cancelled over MCP.  A server keeps a *)
(* registry of the children it started, behind a mutex; every tool call is *)
(* a task of its own and gives the mutex up before it reads or writes the  *)
(* row of the run.  A child takes the analyze lock, opens its row, settles *)
(* it, goes on under the lock, and may then drain a queued refresh under a *)
(* run id nobody was told.  Children outlive their server.                 *)
(***************************************************************************)
EXTENDS Naturals, FiniteSets

CONSTANTS Runs,           \* run ids; each is used once
          Asked,          \* bound: those for starts; the others are for follow-ups
          MaxCalls,       \* bound: tool calls in flight at a time
          MaxFollowUps,   \* MAX_PENDING_FOLLOW_UPS
          MaxFaults,      \* bound: kills from outside, failed writes, restarts
          None

ASSUME SupervisedAssumption ==
  /\ None \notin Runs /\ Asked \subseteq Runs
  /\ MaxCalls \in Nat /\ MaxFollowUps \in Nat /\ MaxFaults \in Nat

VARIABLES
  proc,      \* the child started for each run id
  lock,      \* who holds the analyze lock
  marker,    \* a refresh is queued
  row,       \* the rows of the table runs
  registry,  \* run ids with a handle
  flagged,   \* RunHandle.cancelled
  calls,     \* the tool calls in flight; two alike do alike
  faults,    \* bound
  answers,   \* history: what has been said of each run when it was over
  excused,   \* history: runs whose answers may change
  stray      \* history: rows that lost their process to a kill or an error

child   == <<proc, lock, marker, row>>
handles == <<registry, flagged>>
history == <<answers, excused, stray>>
vars    == <<child, handles, calls, faults, history>>

Settled  == {"completed", "failed", "cancelled"}   \* skipped_no_plugins counts as completed
Row      == Settled \cup {"absent", "running"}
Stages   == {"none", "spawned", "locked", "working", "passes", "draining", "gone"}
Proc     == [stage : Stages, works : Runs \cup {None}, drained : 0 .. MaxFollowUps]
Call     == [op : {"exited", "absent", "marking"}, run : Runs, flag : BOOLEAN]
NoProc   == [stage |-> "none", works |-> None, drained |-> 0]
Gone(p)  == [stage |-> "gone", works |-> p, drained |-> 0]

TypeOK ==
  /\ proc \in [Runs -> Proc]
  /\ lock \in Runs \cup {None} /\ marker \in BOOLEAN
  /\ row \in [Runs -> Row]
  /\ registry \subseteq Runs /\ flagged \subseteq registry
  /\ calls \subseteq Call
  /\ faults \in 0 .. MaxFaults
  /\ answers \in [Runs -> SUBSET Settled]
  /\ excused \subseteq Runs /\ stray \subseteq Runs

Init ==
  /\ proc = [r \in Runs |-> NoProc] /\ lock = None /\ marker = FALSE
  /\ row = [r \in Runs |-> "absent"]
  /\ registry = {} /\ flagged = {}
  /\ calls = {}
  /\ faults = 0
  /\ answers = [r \in Runs |-> {}]
  /\ excused = {} /\ stray = {}

Lives(r) == proc[r].stage \notin {"none", "gone"}
Used(r)  == proc[r].stage # "none" \/ \E p \in Runs : proc[p].works = r
Told(r)  == proc[r].stage # "none"         \* the server has given the id out
Fresh    == {r \in Runs : ~Used(r) /\ row[r] = "absent"}

(* Uuid::new_v4; which one it is makes no difference. *)
NewId      == CHOOSE r \in Fresh \cap Asked : TRUE
FollowUpId == CHOOSE r \in Fresh \ Asked : TRUE
-----------------------------------------------------------------------------
(***************************************************************************)
(* The child of run p.                                                     *)
(***************************************************************************)
At(p, stage) == proc[p].stage = stage
Goto(p, stage) == proc' = [proc EXCEPT ![p].stage = stage]
End(p) == proc' = [proc EXCEPT ![p] = Gone(p)]
SetRow(r, status) == row' = [row EXCEPT ![r] = status]
Released(p) == IF lock = p THEN None ELSE lock

Lock(p) ==                           \* or bail out without a row
  /\ At(p, "spawned")
  /\ IF lock = None THEN lock' = p /\ marker' = FALSE /\ Goto(p, "locked")
                    ELSE End(p) /\ UNCHANGED <<lock, marker>>
  /\ UNCHANGED <<row, handles, calls, faults, history>>

BeginRun(p) ==
  /\ At(p, "locked")
  /\ SetRow(proc[p].works, "running") /\ Goto(p, "working")
  /\ UNCHANGED <<lock, marker, handles, calls, faults, history>>

Settle(p) ==
  /\ At(p, "working")
  /\ \E status \in {"completed", "failed"} : SetRow(proc[p].works, status)
  /\ Goto(p, "passes")
  /\ UNCHANGED <<lock, marker, handles, calls, faults, history>>

(* The end of run_with_options, where a failed run ends the process too. *)
Unlock(p) ==
  /\ At(p, "passes")
  /\ lock' = None
  /\ IF row[proc[p].works] = "failed" THEN End(p) ELSE Goto(p, "draining")
  /\ UNCHANGED <<marker, row, handles, calls, faults, history>>

WhileQueued(p) == At(p, "draining") /\ marker                         \* mutant

DrainsOn(p) == At(p, "draining") /\ marker /\ proc[p].drained < MaxFollowUps

Drain(p) ==
  /\ DrainsOn(p) /\ Fresh \ Asked # {}
  /\ proc' = [proc EXCEPT ![p] = [stage |-> "spawned", works |-> FollowUpId,
                                  drained |-> @.drained + 1]]
  /\ UNCHANGED <<lock, marker, row, handles, calls, faults, history>>

Exit(p) ==
  /\ At(p, "draining") /\ ~DrainsOn(p)
  /\ End(p)
  /\ UNCHANGED <<lock, marker, row, handles, calls, faults, history>>

(* An error before BeginRun, or a kill that is not a cancel. *)
Die(p) ==
  /\ Lives(p) /\ faults < MaxFaults
  /\ End(p) /\ lock' = Released(p)
  /\ stray' = IF row[proc[p].works] = "running" THEN stray \cup {proc[p].works} ELSE stray
  /\ faults' = faults + 1
  /\ UNCHANGED <<marker, row, handles, calls, answers, excused>>

(* A hook that finds the lock held. *)
RequestRefresh ==
  /\ lock # None /\ ~marker
  /\ marker' = TRUE
  /\ UNCHANGED <<proc, lock, row, handles, calls, faults, history>>

Child(p) == Lock(p) \/ BeginRun(p) \/ Settle(p) \/ Unlock(p) \/ Drain(p) \/ Exit(p)
-----------------------------------------------------------------------------
(***************************************************************************)
(* The tool calls.                                                         *)
(***************************************************************************)
Room == Cardinality(calls) < MaxCalls

(* reap_terminal_runs: the handles that stay. *)
Kept == {r \in registry : Lives(r)}

AlreadyActive == \E r \in registry : r \notin flagged /\ Lives(r)

FlagsKept == flagged                                                 \* mutant

Flags == flagged \cap Kept

Marking(r) == \E c \in calls : c.op = "marking" /\ c.run = r

AnalyzeStart ==
  /\ excused' = excused \cup {r \in registry \ Kept : Marking(r)}
  /\ flagged' = Flags
  /\ \/ /\ ~AlreadyActive /\ Fresh \cap Asked # {}
        /\ proc' = [proc EXCEPT ![NewId] = [stage |-> "spawned", works |-> NewId, drained |-> 0]]
        /\ registry' = Kept \cup {NewId}
     \/ registry' = Kept /\ UNCHANGED proc       \* refused, or the spawn failed
  /\ UNCHANGED <<lock, marker, row, calls, faults, answers, stray>>

Begin(op, r) == Room /\ calls' = calls \cup {[op |-> op, run |-> r, flag |-> r \in flagged']}

(* A living child is reported as running, or queued, at once.  A cancel that
   finds the child gone, or no handle, is a status call. *)
AnalyzeStatus(r) ==
  /\ Told(r) /\ ~(r \in registry /\ Lives(r))
  /\ UNCHANGED flagged
  /\ Begin(IF r \in registry THEN "exited" ELSE "absent", r)
  /\ UNCHANGED <<child, registry, faults, history>>

(* kill_run: the process group is killed and the child waited for. *)
CancelKills(r) ==
  /\ r \in registry /\ Lives(r)
  /\ End(r) /\ lock' = Released(r)
  /\ flagged' = flagged \cup {r} /\ Begin("marking", r)
  /\ excused' = IF row[r] \in Settled THEN excused \cup {r} ELSE excused
  /\ stray' = IF proc[r].works # r /\ row[proc[r].works] = "running"
              THEN stray \cup {proc[r].works} ELSE stray
  /\ UNCHANGED <<marker, row, registry, faults, answers>>

MarkedAnyway(status) == "cancelled"                                  \* mutant

MarkedIfQueued(status) == IF status = "queued" THEN "cancelled" ELSE status   \* mutant

Marked(status) == IF status = "running" THEN "cancelled" ELSE status

Answer(c, r, said) ==
  /\ answers' = [answers EXCEPT ![r] = @ \cup said]
  /\ calls' = calls \ {c}

MarkRunCancelled(c) ==
  /\ c.op = "marking"
  /\ LET r == c.run
     IN  /\ \/ SetRow(r, Marked(row[r])) /\ UNCHANGED <<faults, excused, stray>>
            \/ /\ faults < MaxFaults /\ faults' = faults + 1
               /\ excused' = excused \cup {r} /\ UNCHANGED row
               /\ stray' = IF row[r] = "running" THEN stray \cup {r} ELSE stray
         /\ Answer(c, r, {"cancelled"})
  /\ UNCHANGED <<proc, lock, marker, handles>>

MapRunStatus(status) == IF status \in {"absent", "running"} THEN "failed" ELSE status

FlagIgnored(status, flag) == MapRunStatus(status)                    \* mutant

TerminalStatus(status, flag) == IF flag THEN "cancelled" ELSE MapRunStatus(status)

(* The row is read after the mutex has been given up; without handle and row
   the answer is that there is no such run. *)
ReadRunRow(c) ==
  /\ c.op \in {"exited", "absent"}
  /\ LET r == c.run
     IN  Answer(c, r, IF row[r] = "absent" /\ c.op = "absent"
                      THEN {} ELSE {TerminalStatus(row[r], c.flag)})
  /\ UNCHANGED <<child, handles, faults, excused, stray>>

(* The server goes and another comes: the registry and the calls are lost, the
   children are not. *)
RestartServe ==
  /\ faults < MaxFaults /\ faults' = faults + 1
  /\ excused' = excused \cup registry
  /\ stray' = stray \cup {r \in Runs : Marking(r) /\ row[r] = "running"}
  /\ registry' = {} /\ flagged' = {}
  /\ calls' = {}
  /\ UNCHANGED <<child, answers>>

Tool ==
  \/ AnalyzeStart
  \/ \E r \in Runs : AnalyzeStatus(r) \/ CancelKills(r)
  \/ \E c \in calls : MarkRunCancelled(c) \/ ReadRunRow(c)

Next ==
  \/ \E p \in Runs : Child(p) \/ Die(p)
  \/ Tool \/ RequestRefresh \/ RestartServe

Spec == Init /\ [][Next]_vars

(* Children that run go on. *)
FairSpec == Spec /\ \A p \in Runs : WF_vars(Child(p))
-----------------------------------------------------------------------------
(***************************************************************************)
(* Properties.                                                             *)
(***************************************************************************)

(* What has once been said of a run a client was given is not unsaid when it is
   over, unless its cancel came after it had settled, was cut off before the
   row was marked, or its handle was evicted or lost before. *)
AnswersStand ==
  \A r \in Runs : Cardinality(answers[r]) > 1 => r \in excused

(* A row that has settled is never reopened or settled again, by a cancel that
   comes late or by a child that is late. *)
SettledRowsStand ==
  [][\A r \in Runs : row[r] \in Settled => row'[r] = row[r]]_vars

(* A row reads running with nobody to settle it only because its process was
   killed from outside, its cancel lost the write, or a cancel of the run that
   was asked for met the follow-up. *)
StrandedOnlyByKill ==
  \A r \in Runs : row[r] = "running" =>
    \/ r \in stray \/ Marking(r)
    \/ \E p \in Runs : At(p, "working") /\ proc[p].works = r

(* Each child comes to its end, so a server whose child it is can start the
   next one; a steady stream of refresh requests does not keep it alive. *)
ChildrenEnd == \A p \in Runs : Lives(p) ~> ~Lives(p)
==============================================================================
