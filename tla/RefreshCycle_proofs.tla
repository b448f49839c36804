------------------------ MODULE RefreshCycle_proofs ------------------------
(***************************************************************************)
(* What RefreshCycle promises for every number of processes, hooks, edits  *)
(* and faults.                                                             *)
(***************************************************************************)
EXTENDS RefreshCycle, TLAPS

(* The lock has one holder, and it is in a stage that holds the lock. *)
LockHeld ==
  /\ \A p \in Procs : proc[p].pc \in Locked <=> holder = p
  /\ \A h \in Hooks : hook[h].pc = "probed" <=> holder = h

(* Nothing is wanted, owed or read before it is written. *)
NotAhead ==
  /\ \A p \in Procs : proc[p].wanted <= tree
  /\ \A h \in Hooks : hook[h].wanted <= tree
  /\ owed <= tree

(* No run has read content older than `wanted`. *)
ReadSince(wanted) == \A q \in Procs : proc[q].pc \in HasRead => proc[q].read >= wanted

(* Between a probe that found the lock free and the child's attempt, whoever
   took the lock reads the tree after the probe. *)
ProbeStands ==
  /\ \A h \in Hooks : hook[h].pc \in {"probed", "spawning"} => ReadSince(hook[h].wanted)
  /\ \A p \in Procs : proc[p].pc = "trying" =>
       ReadSince(proc[p].wanted) \/ (proc[p].round > 0 /\ marker)

IInv == TypeOK /\ LockHeld /\ NotAhead /\ ProbeStands /\ RequestNotForgotten
-----------------------------------------------------------------------------
ProcRecord == [pc : {"none", "trying", "ended"} \cup Locked, round : 0 .. MaxFollowUps,
               wanted : Content, head : Content, read : Content]
HookRecord == [pc : {"none", "stale", "probed", "spawning", "held"}, wanted : Content]

(* The records the actions build are records. *)
LEMMA EmptyRecords ==
  /\ 0 \in Content /\ NoProc \in ProcRecord /\ NoHook \in HookRecord
  /\ \A pc \in {"trying", "ended"}, round \in 0 .. MaxFollowUps, wanted \in Content :
       Proc(pc, round, wanted) \in ProcRecord
  BY RefreshAssumption DEF NoProc, NoHook, Proc, ProcRecord, HookRecord, Content

(* A process or a hook that changes its stage stays a record. *)
LEMMA StageWrites ==
  ASSUME TypeOK
  PROVE  /\ \A p \in Procs, pc \in {"none", "trying", "ended"} \cup Locked :
              [proc EXCEPT ![p].pc = pc] \in [Procs -> ProcRecord]
         /\ \A h \in Hooks, pc \in {"none", "stale", "probed", "spawning", "held"} :
              [hook EXCEPT ![h].pc = pc] \in [Hooks -> HookRecord]
<1>1. proc \in [Procs -> ProcRecord] /\ hook \in [Hooks -> HookRecord]
  BY DEF TypeOK, ProcRecord, HookRecord
<1>2. ASSUME NEW p \in Procs, NEW pc \in {"none", "trying", "ended"} \cup Locked
      PROVE  [proc EXCEPT ![p].pc = pc] \in [Procs -> ProcRecord]
  BY <1>1 DEF ProcRecord
<1>3. ASSUME NEW h \in Hooks, NEW pc \in {"none", "stale", "probed", "spawning", "held"}
      PROVE  [hook EXCEPT ![h].pc = pc] \in [Hooks -> HookRecord]
  BY <1>1 DEF HookRecord
<1> QED BY <1>2, <1>3

(* Every step keeps the types. *)
LEMMA TypeStep == TypeOK /\ [Next]_vars => TypeOK'
<1> SUFFICES ASSUME TypeOK, [Next]_vars PROVE TypeOK'
  OBVIOUS
<1>0. /\ proc \in [Procs -> ProcRecord] /\ hook \in [Hooks -> HookRecord]
      /\ MaxEdits \in Nat /\ MaxFollowUps \in Nat
  BY RefreshAssumption DEF TypeOK, ProcRecord, HookRecord
<1> DEFINE Rest == /\ tree' \in Content /\ head' \in Content
                   /\ index' \in [content : Content, at : Content, head : Content]
                   /\ holder' \in Procs \cup Hooks \cup {Nobody} /\ marker' \in BOOLEAN
                   /\ faults' \in 0 .. MaxFaults /\ overlaps' \in 0 .. MaxOverlaps
                   /\ owed' \in Content /\ served' \in Content
<1>a. ASSUME proc' \in [Procs -> ProcRecord], hook' \in [Hooks -> HookRecord], Rest
      PROVE  TypeOK'
  BY <1>a DEF TypeOK, ProcRecord, HookRecord
<1> USE DEF TypeOK, history
<1>1. CASE Edit \/ Commit
  BY <1>0, <1>1 DEF Edit, Commit, Content
<1>2. ASSUME NEW p \in Procs, StartByHand(p) PROVE TypeOK'
  BY <1>0, <1>2, <1>a, EmptyRecords DEF StartByHand, Spawn
<1>3. ASSUME NEW p \in Procs, Lock(p) PROVE TypeOK'
  BY <1>0, <1>3, <1>a, StageWrites DEF Lock, Goes, Locked
<1>4. ASSUME NEW p \in Procs, Bail(p) PROVE TypeOK'
  BY <1>0, <1>4, <1>a, EmptyRecords DEF Bail
<1>5. ASSUME NEW p \in Procs, TakePending(p) \/ MarkerStays(p) PROVE TypeOK'
  <2>1. proc' = [proc EXCEPT ![p].pc = "taken"]
    BY <1>5 DEF TakePending, MarkerStays, Goes
  <2>2. proc' \in [Procs -> ProcRecord]
    BY <2>1, StageWrites DEF Locked, Reading
  <2>3. faults' = faults \/ (faults < MaxFaults /\ faults' = faults + 1)
    BY <1>5 DEF TakePending, MarkerStays
  <2>4. faults' \in 0 .. MaxFaults
    BY <2>3, RefreshAssumption
  <2>5. /\ marker' \in BOOLEAN
        /\ UNCHANGED <<tree, head, index, holder, hook, overlaps, owed, served>>
    BY <1>5 DEF TakePending, MarkerStays
  <2> QED BY <1>0, <1>a, <2>2, <2>4, <2>5
<1>6. ASSUME NEW p \in Procs, ReadHead(p) \/ ReadTree(p) PROVE TypeOK'
  <2> DEFINE r1 == [proc[p] EXCEPT !.pc = "headRead", !.head = head]
             r2 == [proc[p] EXCEPT !.pc = "read", !.read = tree]
  <2>1. r1 \in ProcRecord /\ r2 \in ProcRecord
    BY <1>0 DEF ProcRecord, Locked, Reading, HasRead
  <2>2. proc' = [proc EXCEPT ![p] = r1] \/ proc' = [proc EXCEPT ![p] = r2]
    BY <1>6 DEF ReadHead, ReadTree
  <2> HIDE DEF r1, r2
  <2> QED BY <1>0, <1>6, <1>a, <2>1, <2>2 DEF ReadHead, ReadTree
<1>7. ASSUME NEW p \in Procs, Complete(p) PROVE TypeOK'
  <2>1. proc' \in [Procs -> ProcRecord]
    BY <1>0, <1>7, StageWrites DEF Complete, Goes, Locked, HasRead
  <2>2. proc[p].read \in Content /\ proc[p].head \in Content
    BY <1>0 DEF ProcRecord
  <2> QED BY <1>0, <1>7, <1>a, <2>1, <2>2 DEF Complete
<1>8. ASSUME NEW p \in Procs, Unlock(p) PROVE TypeOK'
  <2>1. Proc("ended", proc[p].round, 0) \in ProcRecord
    BY <1>0, EmptyRecords DEF ProcRecord
  <2> QED BY <1>0, <1>8, <1>a, <2>1 DEF Unlock
<1>9. ASSUME NEW p \in Procs, Die(p) PROVE TypeOK'
  <2>1. owed' \in Content /\ faults' \in 0 .. MaxFaults
    BY <1>9, EmptyRecords, RefreshAssumption DEF Die
  <2> QED BY <1>0, <1>9, <1>a, <2>1, EmptyRecords DEF Die
<1>10. ASSUME NEW p \in Procs, Drain(p) PROVE TypeOK'
  <2>1. proc[p].round < MaxFollowUps => FollowUp(p) \in ProcRecord
    BY <1>0, EmptyRecords DEF FollowUp, ProcRecord
  <2> QED BY <1>0, <1>10, <1>a, <2>1, EmptyRecords DEF Drain
<1>11. ASSUME NEW h \in Hooks, Fire(h) PROVE TypeOK'
  BY <1>0, <1>11, RefreshAssumption DEF Fire, HookRecord, Content
<1>12. ASSUME NEW h \in Hooks, Probe(h) \/ DropGuard(h) PROVE TypeOK'
  <2>1. PICK pc \in {"probed", "held", "spawning"} : hook' = [hook EXCEPT ![h].pc = pc]
    BY <1>12 DEF Probe, DropGuard, HookGoes
  <2>2. holder' \in Procs \cup Hooks \cup {Nobody}
    BY <1>12 DEF Probe, DropGuard
  <2>3. hook' \in [Hooks -> HookRecord]
    BY <2>1, StageWrites
  <2> QED BY <1>0, <1>12, <1>a, <2>2, <2>3 DEF Probe, DropGuard
<1>13. ASSUME NEW h \in Hooks, Request(h) PROVE TypeOK'
  <2>1. hook[h].wanted \in Content
    BY <1>0 DEF HookRecord
  <2> QED BY <1>0, <1>13, <1>a, <2>1, EmptyRecords DEF Request
<1>14. ASSUME NEW h \in Hooks, NEW p \in Procs, SpawnDetached(h, p) PROVE TypeOK'
  <2>1. Proc("trying", 0, hook[h].wanted) \in ProcRecord
    BY <1>0, EmptyRecords DEF HookRecord
  <2> QED BY <1>0, <1>14, <1>a, <2>1, EmptyRecords DEF SpawnDetached, Spawn
<1>15. CASE UNCHANGED vars
  BY <1>15 DEF vars
<1>16. ASSUME NEW h \in Hooks, HookFails(h) PROVE TypeOK'
  <2>1. PICK after \in HookRecord : Swallowed(h, after)
    BY <1>16, EmptyRecords DEF HookFails, SpawnAnyway, RequestFails, SpawnFails, HookRecord
  <2> QED BY <1>0, <1>a, <2>1, RefreshAssumption DEF Swallowed
<1> QED BY <1>1, <1>2, <1>3, <1>4, <1>5, <1>6, <1>7, <1>8, <1>9, <1>10, <1>11, <1>12,
           <1>13, <1>14, <1>15, <1>16 DEF Next, Process, HookStep
-----------------------------------------------------------------------------
(* What a step leaves in the slot it works on; the other slots stay. *)
ProcAfter(p, pc, round, wanted, read) ==
  /\ proc'[p].pc = pc /\ proc'[p].round = round
  /\ proc'[p].wanted = wanted /\ proc'[p].read = read
  /\ \A q \in Procs : q # p => proc'[q] = proc[q]

HookAfter(h, pc, wanted) ==
  /\ hook'[h].pc = pc /\ hook'[h].wanted = wanted
  /\ \A g \in Hooks : g # h => hook'[g] = hook[g]

(* A change of stage leaves the rest of the record. *)
LEMMA ProcMoves ==
  ASSUME TypeOK, NEW p \in Procs, NEW pc, Goes(p, pc)
  PROVE  ProcAfter(p, pc, proc[p].round, proc[p].wanted, proc[p].read)
<1>1. proc \in [Procs -> ProcRecord]
  BY DEF TypeOK, ProcRecord
<1> QED BY <1>1 DEF Goes, ProcAfter, ProcRecord

LEMMA HookMoves ==
  ASSUME TypeOK, NEW h \in Hooks, NEW pc, HookGoes(h, pc)
  PROVE  HookAfter(h, pc, hook[h].wanted)
<1>1. hook \in [Hooks -> HookRecord]
  BY DEF TypeOK, HookRecord
<1> QED BY <1>1 DEF HookGoes, HookAfter, HookRecord

(* A slot that is handed a new process. *)
LEMMA ProcReplaced ==
  ASSUME TypeOK, NEW p \in Procs, NEW pc, NEW round, NEW wanted,
         proc' = [proc EXCEPT ![p] = Proc(pc, round, wanted)]
  PROVE  ProcAfter(p, pc, round, wanted, 0)
<1>1. proc \in [Procs -> ProcRecord]
  BY DEF TypeOK, ProcRecord
<1> QED BY <1>1 DEF Proc, ProcAfter

LEMMA HookReplaced ==
  ASSUME TypeOK, NEW h \in Hooks, NEW pc, NEW wanted,
         hook' = [hook EXCEPT ![h] = [pc |-> pc, wanted |-> wanted]]
  PROVE  HookAfter(h, pc, wanted)
<1>1. hook \in [Hooks -> HookRecord]
  BY DEF TypeOK, HookRecord
<1> QED BY <1>1 DEF HookAfter

(* The two reads of a run. *)
LEMMA ProcReads ==
  ASSUME TypeOK, NEW p \in Procs
  PROVE  /\ ReadHead(p) => ProcAfter(p, "headRead", proc[p].round, proc[p].wanted, proc[p].read)
         /\ ReadTree(p) => ProcAfter(p, "read", proc[p].round, proc[p].wanted, tree)
<1>1. proc \in [Procs -> ProcRecord]
  BY DEF TypeOK, ProcRecord
<1>2. CASE ReadHead(p)
  BY <1>1, <1>2 DEF ReadHead, ReadTree, ProcAfter, ProcRecord
<1>3. CASE ReadTree(p)
  BY <1>1, <1>3 DEF ReadHead, ReadTree, ProcAfter, ProcRecord
<1> QED BY <1>2, <1>3

(* What each action does to the slots, in these terms. *)
LEMMA ProcSteps ==
  ASSUME TypeOK, NEW p \in Procs
  PROVE  /\ StartByHand(p) => ProcAfter(p, "trying", 0, 0, 0)
         /\ Lock(p) => ProcAfter(p, "locked", proc[p].round, proc[p].wanted, proc[p].read)
         /\ Bail(p) => ProcAfter(p, "none", 0, 0, 0)
         /\ TakePending(p) \/ MarkerStays(p) =>
              ProcAfter(p, "taken", proc[p].round, proc[p].wanted, proc[p].read)
         /\ Complete(p) => ProcAfter(p, "completed", proc[p].round, proc[p].wanted, proc[p].read)
         /\ Unlock(p) => ProcAfter(p, "ended", proc[p].round, 0, 0)
         /\ Die(p) => ProcAfter(p, "none", 0, 0, 0)
         /\ Drain(p) => \/ ProcAfter(p, "none", 0, 0, 0)
                        \/ marker /\ ProcAfter(p, "trying", proc[p].round + 1, owed, 0)
         /\ \A h \in Hooks : SpawnDetached(h, p) => ProcAfter(p, "trying", 0, hook[h].wanted, 0)
<1>1. /\ StartByHand(p) => ProcAfter(p, "trying", 0, 0, 0)
      /\ \A h \in Hooks : SpawnDetached(h, p) => ProcAfter(p, "trying", 0, hook[h].wanted, 0)
  BY ProcReplaced DEF StartByHand, SpawnDetached, Spawn
<1>2. /\ Bail(p) => ProcAfter(p, "none", 0, 0, 0)
      /\ Die(p) => ProcAfter(p, "none", 0, 0, 0)
  BY ProcReplaced DEF Bail, Die, NoProc
<1>3. Unlock(p) => ProcAfter(p, "ended", proc[p].round, 0, 0)
  <2>1. Unlock(p) => proc' = [proc EXCEPT ![p] = Proc("ended", proc[p].round, 0)]
    BY DEF Unlock
  <2> QED BY <2>1, ProcReplaced
<1>4. /\ Lock(p) => ProcAfter(p, "locked", proc[p].round, proc[p].wanted, proc[p].read)
      /\ TakePending(p) \/ MarkerStays(p) =>
           ProcAfter(p, "taken", proc[p].round, proc[p].wanted, proc[p].read)
      /\ Complete(p) => ProcAfter(p, "completed", proc[p].round, proc[p].wanted, proc[p].read)
  BY ProcMoves DEF Lock, TakePending, MarkerStays, Complete
<1>5. Drain(p) => \/ ProcAfter(p, "none", 0, 0, 0)
                  \/ marker /\ ProcAfter(p, "trying", proc[p].round + 1, owed, 0)
  <2> SUFFICES ASSUME Drain(p)
               PROVE  \/ ProcAfter(p, "none", 0, 0, 0)
                      \/ marker /\ ProcAfter(p, "trying", proc[p].round + 1, owed, 0)
    OBVIOUS
  <2>1. CASE marker /\ proc[p].round < MaxFollowUps
    <3>1. proc' = [proc EXCEPT ![p] = Proc("trying", proc[p].round + 1, owed)]
      BY <2>1 DEF Drain, FollowUp
    <3> QED BY <2>1, <3>1, ProcReplaced
  <2>2. CASE ~(marker /\ proc[p].round < MaxFollowUps)
    <3>1. proc' = [proc EXCEPT ![p] = Proc("none", 0, 0)]
      BY <2>2 DEF Drain, NoProc
    <3> QED BY <3>1, ProcReplaced
  <2> QED BY <2>1, <2>2
<1> QED BY <1>1, <1>2, <1>3, <1>4, <1>5

LEMMA HookSteps ==
  ASSUME TypeOK, NEW h \in Hooks
  PROVE  /\ Fire(h) => HookAfter(h, "stale", tree)
         /\ Probe(h) => \/ holder = Nobody /\ holder' = h /\ HookAfter(h, "probed", hook[h].wanted)
                        \/ holder' = holder /\ HookAfter(h, "held", hook[h].wanted)
         /\ Request(h) => HookAfter(h, "none", 0)
         /\ DropGuard(h) => HookAfter(h, "spawning", hook[h].wanted)
         /\ \A p \in Procs : SpawnDetached(h, p) => HookAfter(h, "none", 0)
         /\ HookFails(h) => \/ HookAfter(h, "none", 0) /\ hook[h].pc # "probed"
                            \/ HookAfter(h, "spawning", 0) /\ hook[h].pc # "probed"
<1>1. Fire(h) => HookAfter(h, "stale", tree)
  BY HookReplaced DEF Fire
<1>2. Probe(h) => \/ holder = Nobody /\ holder' = h /\ HookAfter(h, "probed", hook[h].wanted)
                  \/ holder' = holder /\ HookAfter(h, "held", hook[h].wanted)
  BY HookMoves DEF Probe
<1>3. /\ Request(h) => HookAfter(h, "none", 0)
      /\ \A p \in Procs : SpawnDetached(h, p) => HookAfter(h, "none", 0)
  BY HookReplaced DEF Request, SpawnDetached, NoHook
<1>4. DropGuard(h) => HookAfter(h, "spawning", hook[h].wanted)
  BY HookMoves DEF DropGuard
<1>5. HookFails(h) => \/ HookAfter(h, "none", 0) /\ hook[h].pc # "probed"
                      \/ HookAfter(h, "spawning", 0) /\ hook[h].pc # "probed"
  BY HookReplaced DEF HookFails, SpawnAnyway, RequestFails, SpawnFails, Swallowed, NoHook
<1> QED BY <1>1, <1>2, <1>3, <1>4, <1>5
-----------------------------------------------------------------------------
LEMMA InvInit == Init => IInv
<1> SUFFICES ASSUME Init PROVE IInv
  OBVIOUS
<1>0. /\ \A p \in Procs : proc[p] = NoProc
      /\ \A h \in Hooks : hook[h] = NoHook
      /\ NoProc.pc = "none" /\ NoProc.wanted = 0 /\ NoHook.pc = "none" /\ NoHook.wanted = 0
  BY DEF Init, NoProc, NoHook, Proc
<1>1. TypeOK
  <2>1. proc \in [Procs -> ProcRecord] /\ hook \in [Hooks -> HookRecord]
    BY EmptyRecords DEF Init
  <2>2. /\ index \in [content : Content, at : Content, head : Content]
        /\ tree \in Content /\ head \in Content /\ owed \in Content /\ served \in Content
        /\ holder = Nobody /\ marker = FALSE
        /\ faults \in 0 .. MaxFaults /\ overlaps \in 0 .. MaxOverlaps
    BY EmptyRecords, RefreshAssumption DEF Init
  <2> QED BY <2>1, <2>2 DEF TypeOK, ProcRecord, HookRecord
<1>2. LockHeld
  BY <1>0, RefreshAssumption DEF Init, LockHeld, Locked, Reading, HasRead
<1>3. NotAhead
  BY <1>0 DEF Init, NotAhead
<1>4. ProbeStands /\ RequestNotForgotten
  BY <1>0 DEF Init, ProbeStands, RequestNotForgotten
<1> QED BY <1>1, <1>2, <1>3, <1>4 DEF IInv

(* Every step keeps the rest of the invariant: one step per action, and under
   it one per conjunct. *)
LEMMA InvStep == IInv /\ [Next]_vars => IInv'
<1> SUFFICES ASSUME IInv, [Next]_vars PROVE IInv'
  OBVIOUS
<1>t. TypeOK'
  BY TypeStep DEF IInv
<1>a. /\ tree \in Nat /\ owed \in Nat /\ served \in Nat
      /\ \A p \in Procs : proc[p].wanted \in Nat /\ proc[p].read \in Nat /\ proc[p].round \in Nat
      /\ \A h \in Hooks : hook[h].wanted \in Nat
      /\ \A p \in Procs : p # Nobody
      /\ \A h \in Hooks : h # Nobody
      /\ \A p \in Procs, h \in Hooks : p # h
  BY RefreshAssumption DEF IInv, TypeOK, Content
<1>b. TypeOK /\ LockHeld /\ NotAhead /\ ProbeStands /\ RequestNotForgotten
  BY DEF IInv
<1> DEFINE Kept == LockHeld' /\ NotAhead' /\ ProbeStands' /\ RequestNotForgotten'
<1>k. Kept => IInv'
  BY <1>t DEF IInv
<1> HIDE DEF Kept
<1>1. CASE Edit \/ Commit
  <2>2. LockHeld'
    BY <1>a, <1>b, <1>1
       DEF Edit, Commit, ProcAfter, HookAfter, history, LockHeld, Locked, Reading, HasRead
  <2>3. NotAhead'
    BY <1>a, <1>b, <1>1 DEF Edit, Commit, ProcAfter, HookAfter, history, NotAhead
  <2>4. ProbeStands'
    BY <1>a, <1>b, <1>1
       DEF Edit, Commit, ProcAfter, HookAfter, history, ProbeStands, ReadSince, LockHeld,
           Locked, Reading, HasRead, NotAhead
  <2>5. RequestNotForgotten'
    BY <1>a, <1>b, <1>1
       DEF Edit, Commit, ProcAfter, HookAfter, history, RequestNotForgotten, LockHeld, Locked,
           Reading, HasRead, NotAhead
  <2> QED BY <1>k, <2>2, <2>3, <2>4, <2>5 DEF Kept
<1>2. CASE UNCHANGED vars
  <2>2. LockHeld'
    BY <1>a, <1>b, <1>2
       DEF vars, ProcAfter, HookAfter, history, LockHeld, Locked, Reading, HasRead
  <2>3. NotAhead'
    BY <1>a, <1>b, <1>2 DEF vars, ProcAfter, HookAfter, history, NotAhead
  <2>4. ProbeStands'
    BY <1>a, <1>b, <1>2
       DEF vars, ProcAfter, HookAfter, history, ProbeStands, ReadSince, LockHeld, Locked,
           Reading, HasRead, NotAhead
  <2>5. RequestNotForgotten'
    BY <1>a, <1>b, <1>2
       DEF vars, ProcAfter, HookAfter, history, RequestNotForgotten, LockHeld, Locked, Reading,
           HasRead, NotAhead
  <2> QED BY <1>k, <2>2, <2>3, <2>4, <2>5 DEF Kept
<1>3. ASSUME NEW p \in Procs, StartByHand(p) PROVE Kept
  <2>1. ProcAfter(p, "trying", 0, 0, 0)
    BY <1>b, <1>3, ProcSteps
  <2>2. LockHeld'
    BY <1>a, <1>b, <1>3, <2>1
       DEF StartByHand, Spawn, ProcAfter, HookAfter, history, LockHeld, Locked, Reading,
           HasRead
  <2>3. NotAhead'
    BY <1>a, <1>b, <1>3, <2>1
       DEF StartByHand, Spawn, ProcAfter, HookAfter, history, NotAhead
  <2>4. ProbeStands'
    BY <1>a, <1>b, <1>3, <2>1
       DEF StartByHand, Spawn, ProcAfter, HookAfter, history, ProbeStands, ReadSince, LockHeld,
           Locked, Reading, HasRead, NotAhead
  <2>5. RequestNotForgotten'
    BY <1>a, <1>b, <1>3, <2>1
       DEF StartByHand, Spawn, ProcAfter, HookAfter, history, RequestNotForgotten, LockHeld,
           Locked, Reading, HasRead, NotAhead
  <2> QED BY <2>2, <2>3, <2>4, <2>5 DEF Kept
<1>4. ASSUME NEW p \in Procs, Lock(p) PROVE Kept
  <2>1. ProcAfter(p, "locked", proc[p].round, proc[p].wanted, proc[p].read)
    BY <1>b, <1>4, ProcSteps
  <2>2. LockHeld'
    BY <1>a, <1>b, <1>4, <2>1
       DEF Lock, ProcAfter, HookAfter, history, LockHeld, Locked, Reading, HasRead
  <2>3. NotAhead'
    BY <1>a, <1>b, <1>4, <2>1 DEF Lock, ProcAfter, HookAfter, history, NotAhead
  <2>4. ProbeStands'
    BY <1>a, <1>b, <1>4, <2>1
       DEF Lock, ProcAfter, HookAfter, history, ProbeStands, ReadSince, LockHeld, Locked,
           Reading, HasRead, NotAhead
  <2>5. RequestNotForgotten'
    BY <1>a, <1>b, <1>4, <2>1
       DEF Lock, ProcAfter, HookAfter, history, RequestNotForgotten, LockHeld, Locked, Reading,
           HasRead, NotAhead
  <2> QED BY <2>2, <2>3, <2>4, <2>5 DEF Kept
<1>5. ASSUME NEW p \in Procs, Bail(p) PROVE Kept
  <2>1. ProcAfter(p, "none", 0, 0, 0)
    BY <1>b, <1>5, ProcSteps
  <2>2. LockHeld'
    BY <1>a, <1>b, <1>5, <2>1
       DEF Bail, ProcAfter, HookAfter, history, LockHeld, Locked, Reading, HasRead
  <2>3. NotAhead'
    BY <1>a, <1>b, <1>5, <2>1 DEF Bail, ProcAfter, HookAfter, history, NotAhead
  <2>4. ProbeStands'
    BY <1>a, <1>b, <1>5, <2>1
       DEF Bail, ProcAfter, HookAfter, history, ProbeStands, ReadSince, LockHeld, Locked,
           Reading, HasRead, NotAhead
  <2>5. RequestNotForgotten'
    BY <1>a, <1>b, <1>5, <2>1
       DEF Bail, ProcAfter, HookAfter, history, RequestNotForgotten, LockHeld, Locked, Reading,
           HasRead, NotAhead
  <2> QED BY <2>2, <2>3, <2>4, <2>5 DEF Kept
<1>6. ASSUME NEW p \in Procs, TakePending(p) \/ MarkerStays(p) PROVE Kept
  <2>1. ProcAfter(p, "taken", proc[p].round, proc[p].wanted, proc[p].read)
    BY <1>b, <1>6, ProcSteps
  <2>2. LockHeld'
    BY <1>a, <1>b, <1>6, <2>1
       DEF TakePending, MarkerStays, ProcAfter, HookAfter, history, LockHeld, Locked, Reading, HasRead
  <2>3. NotAhead'
    BY <1>a, <1>b, <1>6, <2>1 DEF TakePending, MarkerStays, ProcAfter, HookAfter, history, NotAhead
  <2>4. ProbeStands'
    BY <1>a, <1>b, <1>6, <2>1
       DEF TakePending, MarkerStays, ProcAfter, HookAfter, history, ProbeStands, ReadSince, LockHeld,
           Locked, Reading, HasRead, NotAhead
  <2>5. RequestNotForgotten'
    BY <1>a, <1>b, <1>6, <2>1
       DEF TakePending, MarkerStays, ProcAfter, HookAfter, history, RequestNotForgotten, LockHeld, Locked,
           Reading, HasRead, NotAhead
  <2> QED BY <2>2, <2>3, <2>4, <2>5 DEF Kept
<1>7. ASSUME NEW p \in Procs, ReadHead(p) PROVE Kept
  <2>1. ProcAfter(p, "headRead", proc[p].round, proc[p].wanted, proc[p].read)
    BY <1>b, <1>7, ProcReads
  <2>f. /\ proc[p].pc = "taken" /\ holder' = holder /\ hook' = hook /\ tree' = tree /\ owed' = owed
        /\ marker' = marker /\ served' = served
    BY <1>7 DEF ReadHead, history
  <2>2. LockHeld'
    BY <1>a, <1>b, <2>1, <2>f
       DEF ProcAfter, HookAfter, history, LockHeld, Locked, Reading, HasRead
  <2>3. NotAhead'
    BY <1>a, <1>b, <2>1, <2>f DEF ProcAfter, HookAfter, history, NotAhead
  <2>4. ProbeStands'
    BY <1>a, <1>b, <2>1, <2>f
       DEF ProcAfter, HookAfter, history, ProbeStands, ReadSince, LockHeld, Locked, Reading,
           HasRead, NotAhead
  <2>5. RequestNotForgotten'
    BY <1>a, <1>b, <2>1, <2>f
       DEF ProcAfter, HookAfter, history, RequestNotForgotten, LockHeld, Locked, Reading,
           HasRead, NotAhead
  <2> QED BY <2>2, <2>3, <2>4, <2>5 DEF Kept
<1>8. ASSUME NEW p \in Procs, ReadTree(p) PROVE Kept
  <2>1. ProcAfter(p, "read", proc[p].round, proc[p].wanted, tree)
    BY <1>b, <1>8, ProcReads
  <2>f. /\ proc[p].pc = "headRead" /\ holder' = holder /\ hook' = hook /\ tree' = tree /\ owed' = owed
        /\ marker' = marker /\ served' = tree
    BY <1>8 DEF ReadTree, history
  <2>2. LockHeld'
    BY <1>a, <1>b, <2>1, <2>f
       DEF ProcAfter, HookAfter, history, LockHeld, Locked, Reading, HasRead
  <2>3. NotAhead'
    BY <1>a, <1>b, <2>1, <2>f DEF ProcAfter, HookAfter, history, NotAhead
  <2>4. ProbeStands'
    BY <1>a, <1>b, <2>1, <2>f
       DEF ProcAfter, HookAfter, history, ProbeStands, ReadSince, LockHeld, Locked, Reading,
           HasRead, NotAhead
  <2>5. RequestNotForgotten'
    BY <1>a, <1>b, <2>1, <2>f
       DEF ProcAfter, HookAfter, history, RequestNotForgotten, LockHeld, Locked, Reading,
           HasRead, NotAhead
  <2> QED BY <2>2, <2>3, <2>4, <2>5 DEF Kept
<1>9. ASSUME NEW p \in Procs, Complete(p) PROVE Kept
  <2>1. ProcAfter(p, "completed", proc[p].round, proc[p].wanted, proc[p].read)
    BY <1>b, <1>9, ProcSteps
  <2>2. LockHeld'
    BY <1>a, <1>b, <1>9, <2>1
       DEF Complete, ProcAfter, HookAfter, history, LockHeld, Locked, Reading, HasRead
  <2>3. NotAhead'
    BY <1>a, <1>b, <1>9, <2>1 DEF Complete, ProcAfter, HookAfter, history, NotAhead
  <2>4. ProbeStands'
    BY <1>a, <1>b, <1>9, <2>1
       DEF Complete, ProcAfter, HookAfter, history, ProbeStands, ReadSince, LockHeld, Locked,
           Reading, HasRead, NotAhead
  <2>5. RequestNotForgotten'
    BY <1>a, <1>b, <1>9, <2>1
       DEF Complete, ProcAfter, HookAfter, history, RequestNotForgotten, LockHeld, Locked,
           Reading, HasRead, NotAhead
  <2> QED BY <2>2, <2>3, <2>4, <2>5 DEF Kept
<1>10. ASSUME NEW p \in Procs, Unlock(p) PROVE Kept
  <2>1. ProcAfter(p, "ended", proc[p].round, 0, 0)
    BY <1>b, <1>10, ProcSteps
  <2>2. LockHeld'
    BY <1>a, <1>b, <1>10, <2>1
       DEF Unlock, ProcAfter, HookAfter, history, LockHeld, Locked, Reading, HasRead
  <2>3. NotAhead'
    BY <1>a, <1>b, <1>10, <2>1 DEF Unlock, ProcAfter, HookAfter, history, NotAhead
  <2>4. ProbeStands'
    BY <1>a, <1>b, <1>10, <2>1
       DEF Unlock, ProcAfter, HookAfter, history, ProbeStands, ReadSince, LockHeld, Locked,
           Reading, HasRead, NotAhead
  <2>5. RequestNotForgotten'
    BY <1>a, <1>b, <1>10, <2>1
       DEF Unlock, ProcAfter, HookAfter, history, RequestNotForgotten, LockHeld, Locked,
           Reading, HasRead, NotAhead
  <2> QED BY <2>2, <2>3, <2>4, <2>5 DEF Kept
<1>11. ASSUME NEW p \in Procs, Drain(p) PROVE Kept
  <2>1. \/ ProcAfter(p, "none", 0, 0, 0)
        \/ marker /\ ProcAfter(p, "trying", proc[p].round + 1, owed, 0)
    BY <1>b, <1>11, ProcSteps
  <2>2. LockHeld'
    BY <1>a, <1>b, <1>11, <2>1
       DEF Drain, ProcAfter, HookAfter, history, LockHeld, Locked, Reading, HasRead
  <2>3. NotAhead'
    BY <1>a, <1>b, <1>11, <2>1 DEF Drain, ProcAfter, HookAfter, history, NotAhead
  <2>4. ProbeStands'
    BY <1>a, <1>b, <1>11, <2>1
       DEF Drain, ProcAfter, HookAfter, history, ProbeStands, ReadSince, LockHeld, Locked,
           Reading, HasRead, NotAhead
  <2>5. RequestNotForgotten'
    BY <1>a, <1>b, <1>11, <2>1
       DEF Drain, ProcAfter, HookAfter, history, RequestNotForgotten, LockHeld, Locked,
           Reading, HasRead, NotAhead
  <2> QED BY <2>2, <2>3, <2>4, <2>5 DEF Kept
<1>12. ASSUME NEW p \in Procs, Die(p) PROVE Kept
  <2>1. ProcAfter(p, "none", 0, 0, 0)
    BY <1>b, <1>12, ProcSteps
  <2>2. LockHeld'
    BY <1>a, <1>b, <1>12, <2>1
       DEF Die, ProcAfter, HookAfter, history, LockHeld, Locked, Reading, HasRead
  <2>3. NotAhead'
    BY <1>a, <1>b, <1>12, <2>1 DEF Die, ProcAfter, HookAfter, history, NotAhead
  <2>4. ProbeStands'
    BY <1>a, <1>b, <1>12, <2>1
       DEF Die, ProcAfter, HookAfter, history, ProbeStands, ReadSince, LockHeld, Locked,
           Reading, HasRead, NotAhead
  <2>5. RequestNotForgotten'
    BY <1>a, <1>b, <1>12, <2>1
       DEF Die, ProcAfter, HookAfter, history, RequestNotForgotten, LockHeld, Locked, Reading,
           HasRead, NotAhead
  <2> QED BY <2>2, <2>3, <2>4, <2>5 DEF Kept
<1>13. ASSUME NEW h \in Hooks, Fire(h) PROVE Kept
  <2>1. HookAfter(h, "stale", tree)
    BY <1>b, <1>13, HookSteps
  <2>2. LockHeld'
    BY <1>a, <1>b, <1>13, <2>1
       DEF Fire, ProcAfter, HookAfter, history, LockHeld, Locked, Reading, HasRead
  <2>3. NotAhead'
    BY <1>a, <1>b, <1>13, <2>1 DEF Fire, ProcAfter, HookAfter, history, NotAhead
  <2>4. ProbeStands'
    BY <1>a, <1>b, <1>13, <2>1
       DEF Fire, ProcAfter, HookAfter, history, ProbeStands, ReadSince, LockHeld, Locked,
           Reading, HasRead, NotAhead
  <2>5. RequestNotForgotten'
    BY <1>a, <1>b, <1>13, <2>1
       DEF Fire, ProcAfter, HookAfter, history, RequestNotForgotten, LockHeld, Locked, Reading,
           HasRead, NotAhead
  <2> QED BY <2>2, <2>3, <2>4, <2>5 DEF Kept
<1>14. ASSUME NEW h \in Hooks, Probe(h) PROVE Kept
  <2>1. \/ holder = Nobody /\ holder' = h /\ HookAfter(h, "probed", hook[h].wanted)
        \/ holder' = holder /\ HookAfter(h, "held", hook[h].wanted)
    BY <1>b, <1>14, HookSteps
  <2>2. LockHeld'
    BY <1>a, <1>b, <1>14, <2>1
       DEF Probe, ProcAfter, HookAfter, history, LockHeld, Locked, Reading, HasRead
  <2>3. NotAhead'
    BY <1>a, <1>b, <1>14, <2>1 DEF Probe, ProcAfter, HookAfter, history, NotAhead
  <2>4. ProbeStands'
    BY <1>a, <1>b, <1>14, <2>1
       DEF Probe, ProcAfter, HookAfter, history, ProbeStands, ReadSince, LockHeld, Locked,
           Reading, HasRead, NotAhead
  <2>5. RequestNotForgotten'
    BY <1>a, <1>b, <1>14, <2>1
       DEF Probe, ProcAfter, HookAfter, history, RequestNotForgotten, LockHeld, Locked,
           Reading, HasRead, NotAhead
  <2> QED BY <2>2, <2>3, <2>4, <2>5 DEF Kept
<1>15. ASSUME NEW h \in Hooks, Request(h) PROVE Kept
  <2>1. HookAfter(h, "none", 0)
    BY <1>b, <1>15, HookSteps
  <2>2. LockHeld'
    BY <1>a, <1>b, <1>15, <2>1
       DEF Request, ProcAfter, HookAfter, history, LockHeld, Locked, Reading, HasRead
  <2>3. NotAhead'
    BY <1>a, <1>b, <1>15, <2>1 DEF Request, ProcAfter, HookAfter, history, NotAhead
  <2>4. ProbeStands'
    BY <1>a, <1>b, <1>15, <2>1
       DEF Request, ProcAfter, HookAfter, history, ProbeStands, ReadSince, LockHeld, Locked,
           Reading, HasRead, NotAhead
  <2>5. RequestNotForgotten'
    BY <1>a, <1>b, <1>15, <2>1
       DEF Request, ProcAfter, HookAfter, history, RequestNotForgotten, LockHeld, Locked,
           Reading, HasRead, NotAhead
  <2> QED BY <2>2, <2>3, <2>4, <2>5 DEF Kept
<1>16. ASSUME NEW h \in Hooks, DropGuard(h) PROVE Kept
  <2>1. HookAfter(h, "spawning", hook[h].wanted)
    BY <1>b, <1>16, HookSteps
  <2>2. LockHeld'
    BY <1>a, <1>b, <1>16, <2>1
       DEF DropGuard, ProcAfter, HookAfter, history, LockHeld, Locked, Reading, HasRead
  <2>3. NotAhead'
    BY <1>a, <1>b, <1>16, <2>1 DEF DropGuard, ProcAfter, HookAfter, history, NotAhead
  <2>4. ProbeStands'
    BY <1>a, <1>b, <1>16, <2>1
       DEF DropGuard, ProcAfter, HookAfter, history, ProbeStands, ReadSince, LockHeld, Locked,
           Reading, HasRead, NotAhead
  <2>5. RequestNotForgotten'
    BY <1>a, <1>b, <1>16, <2>1
       DEF DropGuard, ProcAfter, HookAfter, history, RequestNotForgotten, LockHeld, Locked,
           Reading, HasRead, NotAhead
  <2> QED BY <2>2, <2>3, <2>4, <2>5 DEF Kept
<1>17. ASSUME NEW h \in Hooks, NEW p \in Procs, SpawnDetached(h, p) PROVE Kept
  <2>1. ProcAfter(p, "trying", 0, hook[h].wanted, 0) /\ HookAfter(h, "none", 0)
    BY <1>b, <1>17, ProcSteps, HookSteps
  <2>2. LockHeld'
    BY <1>a, <1>b, <1>17, <2>1
       DEF SpawnDetached, Spawn, ProcAfter, HookAfter, history, LockHeld, Locked, Reading,
           HasRead
  <2>3. NotAhead'
    BY <1>a, <1>b, <1>17, <2>1
       DEF SpawnDetached, Spawn, ProcAfter, HookAfter, history, NotAhead
  <2>4. ProbeStands'
    BY <1>a, <1>b, <1>17, <2>1
       DEF SpawnDetached, Spawn, ProcAfter, HookAfter, history, ProbeStands, ReadSince,
           LockHeld, Locked, Reading, HasRead, NotAhead
  <2>5. RequestNotForgotten'
    BY <1>a, <1>b, <1>17, <2>1
       DEF SpawnDetached, Spawn, ProcAfter, HookAfter, history, RequestNotForgotten, LockHeld,
           Locked, Reading, HasRead, NotAhead
  <2> QED BY <2>2, <2>3, <2>4, <2>5 DEF Kept
<1>18. ASSUME NEW h \in Hooks, HookFails(h) PROVE Kept
  <2>1. \/ HookAfter(h, "none", 0) /\ hook[h].pc # "probed"
        \/ HookAfter(h, "spawning", 0) /\ hook[h].pc # "probed"
    BY <1>b, <1>18, HookSteps
  <2>f. UNCHANGED <<proc, tree, marker, holder, owed, served>>
    BY <1>18 DEF HookFails, SpawnAnyway, RequestFails, SpawnFails, Swallowed, history
  <2>2. LockHeld'
    BY <1>a, <1>b, <2>f, <2>1
       DEF ProcAfter, HookAfter, history, LockHeld, Locked, Reading, HasRead
  <2>3. NotAhead'
    BY <1>a, <1>b, <2>f, <2>1 DEF ProcAfter, HookAfter, history, NotAhead
  <2>4. ProbeStands'
    BY <1>a, <1>b, <2>f, <2>1
       DEF ProcAfter, HookAfter, history, ProbeStands, ReadSince, LockHeld, Locked,
           Reading, HasRead, NotAhead
  <2>5. RequestNotForgotten'
    BY <1>a, <1>b, <2>f, <2>1
       DEF ProcAfter, HookAfter, history, RequestNotForgotten, LockHeld, Locked,
           Reading, HasRead, NotAhead
  <2> QED BY <2>2, <2>3, <2>4, <2>5 DEF Kept
<1> QED BY <1>k, <1>1, <1>2, <1>3, <1>4, <1>5, <1>6, <1>7, <1>8, <1>9,
           <1>10, <1>11, <1>12, <1>13, <1>14, <1>15, <1>16, <1>17, <1>18
        DEF Next, Process, HookStep
-----------------------------------------------------------------------------
LEMMA Invariant == Spec => []IInv
<1> QED BY InvInit, InvStep, PTL DEF Spec

(* The lock, the marker, the stages of runs and hooks and the index keep their
   types, and no process drains more than MAX_PENDING_FOLLOW_UPS rounds. *)
THEOREM TypeCorrect == Spec => []TypeOK
<1>1. IInv => TypeOK
  BY DEF IInv
<1> QED BY <1>1, Invariant, PTL

(* A request a hook queues behind a running analyze is served by a run that
   reads the tree afterwards, or is still queued, or is taken by a run that has
   still to read: no interleaving of analyzes, probes and kills loses it. *)
THEOREM RequestNotForgottenHolds == Spec => []RequestNotForgotten
<1>1. IInv => RequestNotForgotten
  BY DEF IInv
<1> QED BY <1>1, Invariant, PTL

(* A background analyze that finds the lock taken loses nothing: whoever has it
   is a probe, or reads no content older than the loser was started for, or is
   left the marker.  Nothing is said of one started by hand or blindly. *)
THEOREM HarmlessRaceHolds == Spec => HarmlessRace
<1> DEFINE Harmless(p) ==
      \/ \E h \in Hooks : holder = h
      \/ \E q \in Procs : /\ holder = q
                          /\ proc[q].pc \in HasRead => proc[q].read >= proc[p].wanted
      \/ proc[p].round > 0 /\ marker
<1>1. ASSUME IInv, NEW p \in Procs, Bail(p) PROVE Harmless(p)
  <2>1. /\ holder \in Procs \cup Hooks
        /\ proc[p].pc = "trying"
    BY <1>1 DEF IInv, TypeOK, Bail
  <2>2. ReadSince(proc[p].wanted) \/ (proc[p].round > 0 /\ marker)
    BY <1>1, <2>1 DEF IInv, ProbeStands
  <2>3. CASE ReadSince(proc[p].wanted)
    BY <2>1, <2>3 DEF ReadSince
  <2> QED BY <2>2, <2>3
<1>2. IInv => [\A p \in Procs : Bail(p) => Harmless(p)]_vars
  BY <1>1
<1> QED BY <1>2, Invariant, PTL DEF HarmlessRace
-----------------------------------------------------------------------------
(* A run that has read the tree and holds the lock has read what was last read. *)
LastRead == \A p \in Procs : proc[p].pc \in HasRead => proc[p].read = served

(* Nothing is read before it is written, nothing published before it is read. *)
Published == index.content <= served /\ served <= tree

(* The index never goes back to older content. *)
IndexMovesForward == [][index'.content >= index.content]_vars

(* What a process still has to go through: its rounds, and the stages of one. *)
StagesLeft ==
  [stage \in {"none", "trying", "ended"} \cup Locked |->
     CASE stage = "trying"   -> 7 [] stage = "locked"    -> 6 [] stage = "taken" -> 5
       [] stage = "headRead" -> 4 [] stage = "read"      -> 3 [] stage = "completed" -> 2
       [] stage = "ended"    -> 1 [] OTHER -> 0]

WayToGo(p) == 7 * (MaxFollowUps - proc[p].round) + StagesLeft[proc[p].pc]

NoProcessLoops ==
  [][\A p \in Procs :
       \/ proc'[p] = proc[p]
       \/ proc'[p] = NoProc
       \/ proc[p].pc = "none" /\ \E wanted \in Content : proc'[p] = Proc("trying", 0, wanted)
       \/ proc[p].pc # "none" /\ WayToGo(p)' \in Nat /\ WayToGo(p)' < WayToGo(p)]_vars

(* What an action that leaves tree, marker, requests and index alone does to one
   process: it enters or leaves a stage in which it has read, or not. *)
LEMMA ReadSteps ==
  IInv /\ LastRead /\ Published /\ [Next]_vars => LastRead' /\ Published'
<1> SUFFICES ASSUME IInv, LastRead, Published, [Next]_vars PROVE LastRead' /\ Published'
  OBVIOUS
<1>0. /\ TypeOK /\ LockHeld
      /\ tree \in Nat /\ served \in Nat /\ index.content \in Nat
      /\ \A p \in Procs : proc[p].read \in Nat
  BY DEF IInv, TypeOK, Content
<1> USE DEF LastRead, Published, Locked, Reading, HasRead, history, ProcAfter
<1>1. CASE Edit \/ Commit
  BY <1>0, <1>1 DEF Edit, Commit
<1>2. ASSUME NEW p \in Procs, StartByHand(p) \/ Lock(p) \/ Bail(p) \/ TakePending(p) \/ MarkerStays(p)
      PROVE  LastRead' /\ Published'
  BY <1>0, <1>2, ProcSteps DEF StartByHand, Lock, Bail, TakePending, MarkerStays
<1>3. ASSUME NEW p \in Procs, ReadHead(p) PROVE LastRead' /\ Published'
  BY <1>0, <1>3, ProcReads DEF ReadHead
<1>4. ASSUME NEW p \in Procs, ReadTree(p) PROVE LastRead' /\ Published'
  <2>1. \A q \in Procs : q # p => proc[q].pc \notin HasRead
    BY <1>0, <1>4 DEF ReadTree, LockHeld
  <2>2. served' = tree /\ UNCHANGED <<tree, index>>
    BY <1>4 DEF ReadTree
  <2>3. proc'[p].read = tree /\ \A q \in Procs : q # p => proc'[q] = proc[q]
    BY <1>0, <1>4, ProcReads
  <2>4. LastRead'
    BY <2>1, <2>2, <2>3
  <2> QED BY <1>0, <2>2, <2>4
<1>5. ASSUME NEW p \in Procs, Complete(p) PROVE LastRead' /\ Published'
  <2>1. proc[p].read = served
    BY <1>5 DEF Complete
  <2> QED BY <1>0, <1>5, <2>1, ProcSteps DEF Complete
<1>6. ASSUME NEW p \in Procs, Unlock(p) \/ Die(p) PROVE LastRead' /\ Published'
  BY <1>0, <1>6, ProcSteps DEF Unlock, Die
<1>7. ASSUME NEW p \in Procs, Drain(p) PROVE LastRead' /\ Published'
  BY <1>0, <1>7, ProcSteps DEF Drain
<1>8. ASSUME NEW h \in Hooks, Fire(h) \/ Probe(h) \/ Request(h) \/ DropGuard(h) \/ HookFails(h)
      PROVE  LastRead' /\ Published'
  BY <1>0, <1>8
  DEF Fire, Probe, Request, DropGuard, HookFails, SpawnAnyway, RequestFails, SpawnFails, Swallowed
<1>9. ASSUME NEW h \in Hooks, NEW p \in Procs, SpawnDetached(h, p)
      PROVE  LastRead' /\ Published'
  BY <1>0, <1>9, ProcSteps DEF SpawnDetached
<1>10. CASE UNCHANGED vars
  BY <1>10 DEF vars
<1> QED BY <1>1, <1>2, <1>3, <1>4, <1>5, <1>6, <1>7, <1>8, <1>9, <1>10
        DEF Next, Process, HookStep

LEMMA ReadInvariance == Spec => [](LastRead /\ Published)
<1>1. Init => LastRead /\ Published
  BY DEF Init, LastRead, Published, NoProc, Proc, HasRead
<1> QED BY <1>1, ReadSteps, Invariant, PTL DEF Spec

(* Whatever becomes of runs and kills, the index is never replaced by one of
   older content: the lock orders the reads as it orders the commits. *)
THEOREM IndexGoesForward == Spec => IndexMovesForward
<1>1. IInv /\ LastRead /\ Published /\ [Next]_vars => [index'.content >= index.content]_vars
  <2> SUFFICES ASSUME IInv, LastRead, Published, Next PROVE index'.content >= index.content
    OBVIOUS
  <2>0. index.content \in Nat /\ served \in Nat
    BY DEF IInv, TypeOK, Content
  <2>1. CASE UNCHANGED index
    BY <2>0, <2>1
  <2>2. ASSUME NEW p \in Procs, Complete(p) PROVE index'.content >= index.content
    BY <2>0, <2>2 DEF Complete, LastRead, Published, HasRead
  <2>3. UNCHANGED index \/ \E p \in Procs : Complete(p)
    BY DEF Next, Edit, Commit, Process, StartByHand, Lock, Bail, TakePending, ReadHead, ReadTree,
           Unlock, Drain, Die, HookStep, Fire, Probe, Request, DropGuard, SpawnDetached, MarkerStays,
           HookFails, SpawnAnyway, RequestFails, SpawnFails, Swallowed
  <2> QED BY <2>1, <2>2, <2>3
<1> QED BY <1>1, Invariant, ReadInvariance, PTL DEF Spec, IndexMovesForward
-----------------------------------------------------------------------------
(***************************************************************************)
(* Refinement: for who asks, the whole is RequestSlot.                     *)
(***************************************************************************)
SomeReader == \E p \in Procs : proc[p].pc \in Reading

(* A step that nobody who asks can see. *)
Unseen == /\ UNCHANGED <<tree, marker, owed, served>>
          /\ index'.content = index.content
          /\ SomeReader' <=> SomeReader

(* An unseen step is a stutter of the slot. *)
LEMMA UnseenStutters == Unseen => UNCHANGED Slot!vars
<1> SUFFICES ASSUME Unseen PROVE UNCHANGED Slot!vars
  OBVIOUS
<1>1. SomeReader' = SomeReader
  BY DEF Unseen, SomeReader
<1> QED BY <1>1 DEF Unseen, Slot!vars, SomeReader

(* There is one reader at most, and it holds the lock. *)
LEMMA OneReader ==
  ASSUME IInv, NEW p \in Procs, proc[p].pc \in Locked
  PROVE  \A q \in Procs : proc[q].pc \in Locked => q = p
  BY DEF IInv, LockHeld

(* Every step is one of the slot's. *)
LEMMA SlotStep ==
  ASSUME IInv, LastRead, Published, [Next]_vars
  PROVE  [Slot!Next]_(Slot!vars)
<1>0. /\ TypeOK /\ tree \in Nat /\ owed \in Nat /\ served \in Nat /\ owed <= tree
      /\ \A h \in Hooks : hook[h].wanted \in Nat /\ hook[h].wanted <= tree
      /\ marker \in BOOLEAN
  BY DEF IInv, TypeOK, Content, NotAhead
<1> USE DEF Locked, Reading, HasRead, history, ProcAfter
<1>1. CASE Edit
  BY <1>1 DEF Edit, Slot!Next, Slot!Save
<1>2. CASE Commit
  BY <1>2, UnseenStutters DEF Commit, Unseen, SomeReader
<1>3. ASSUME NEW p \in Procs, StartByHand(p) \/ Lock(p) \/ Bail(p) \/ Unlock(p) \/ Drain(p)
      PROVE  Unseen
  <2>1. /\ proc[p].pc \notin Reading /\ proc'[p].pc \notin Reading
        /\ \A q \in Procs : q # p => proc'[q] = proc[q]
    BY <1>0, <1>3, ProcSteps DEF StartByHand, Spawn, Lock, Bail, Unlock, Drain
  <2>2. UNCHANGED <<tree, marker, owed, served, index>>
    BY <1>3 DEF StartByHand, Lock, Bail, Unlock, Drain
  <2> QED BY <2>1, <2>2 DEF Unseen, SomeReader
<1>4. ASSUME NEW p \in Procs, TakePending(p) \/ MarkerStays(p) PROVE Slot!Take
  <2>1. ~SomeReader
    BY <1>4, OneReader DEF TakePending, MarkerStays, SomeReader
  <2>2. SomeReader'
    BY <1>0, <1>4, ProcSteps DEF SomeReader
  <2>3. marker' \in {FALSE, marker} /\ UNCHANGED <<tree, owed, served, index>>
    BY <1>4 DEF TakePending, MarkerStays
  <2> QED BY <2>1, <2>2, <2>3 DEF Slot!Take, SomeReader
<1>5. ASSUME NEW p \in Procs, ReadHead(p) PROVE Unseen
  <2>1. SomeReader /\ SomeReader'
    BY <1>0, <1>5, ProcReads DEF ReadHead, SomeReader
  <2> QED BY <1>5, <2>1 DEF ReadHead, Unseen
<1>6. ASSUME NEW p \in Procs, ReadTree(p) PROVE Slot!Read
  <2>1. SomeReader
    BY <1>6 DEF ReadTree, SomeReader
  <2>2. ~SomeReader'
    BY <1>0, <1>6, OneReader, ProcReads DEF ReadTree, SomeReader
  <2>3. served' = tree /\ UNCHANGED <<tree, index, marker, owed>>
    BY <1>6 DEF ReadTree
  <2>4. (IF owed > served THEN owed ELSE 0)' = 0
    BY <1>0, <2>3
  <2> QED BY <2>1, <2>2, <2>3, <2>4 DEF Slot!Read, SomeReader
<1>7. ASSUME NEW p \in Procs, Complete(p) PROVE Slot!Publish
  <2>1. ~SomeReader /\ ~SomeReader'
    BY <1>0, <1>7, OneReader, ProcSteps DEF Complete, SomeReader
  <2>2. index'.content = served
    BY <1>7 DEF Complete, LastRead
  <2> QED BY <1>7, <2>1, <2>2 DEF Complete, Slot!Publish, SomeReader
<1>8. ASSUME NEW p \in Procs, Die(p) PROVE Slot!Forfeit \/ Unseen
  <2>1. proc'[p].pc \notin Reading /\ \A q \in Procs : q # p => proc'[q] = proc[q]
    BY <1>0, <1>8, ProcSteps
  <2>2. CASE proc[p].pc \in Reading
    <3>1. SomeReader /\ owed' = 0
      BY <1>8, <2>2 DEF Die, SomeReader
    <3>2. ~SomeReader'
      BY <2>1, <2>2, OneReader DEF SomeReader
    <3> QED BY <1>0, <1>8, <3>1, <3>2 DEF Die, Slot!Forfeit, SomeReader
  <2>3. CASE proc[p].pc \notin Reading
    <3>1. SomeReader' <=> SomeReader
      BY <2>1, <2>3 DEF SomeReader
    <3> QED BY <1>8, <2>3, <3>1 DEF Die, Unseen
  <2> QED BY <2>2, <2>3
<1>9. ASSUME NEW h \in Hooks, Request(h) PROVE Slot!Ask
  <2>1. SomeReader' = SomeReader
    BY <1>9 DEF Request, SomeReader
  <2>2. hook[h].wanted \in 0 .. tree
    BY <1>0
  <2> DEFINE debt == IF owed > served THEN owed ELSE 0
  <2>3. debt' = IF hook[h].wanted > served /\ hook[h].wanted > debt THEN hook[h].wanted ELSE debt
    BY <1>0, <1>9 DEF Request
  <2> QED BY <1>9, <2>1, <2>2, <2>3 DEF Request, Slot!Ask, SomeReader
<1>10. ASSUME NEW h \in Hooks, Fire(h) \/ Probe(h) \/ DropGuard(h) \/ HookFails(h) PROVE Unseen
  BY <1>10
  DEF Fire, Probe, DropGuard, HookFails, SpawnAnyway, RequestFails, SpawnFails, Swallowed, Unseen,
      SomeReader
<1>11. ASSUME NEW h \in Hooks, NEW p \in Procs, SpawnDetached(h, p) PROVE Unseen
  <2>1. /\ proc[p].pc \notin Reading /\ proc'[p].pc \notin Reading
        /\ \A q \in Procs : q # p => proc'[q] = proc[q]
    BY <1>0, <1>11, ProcSteps DEF SpawnDetached, Spawn
  <2> QED BY <1>11, <2>1 DEF SpawnDetached, Unseen, SomeReader
<1>12. CASE UNCHANGED vars
  BY <1>12, UnseenStutters DEF vars, Unseen, SomeReader
<1> QED BY <1>1, <1>2, <1>3, <1>4, <1>5, <1>6, <1>7, <1>8, <1>9, <1>10, <1>11, <1>12, UnseenStutters
        DEF Next, Process, HookStep, Slot!Next

(* For who asks for a refresh, all that processes, hooks and kills do is what
   one slot with one reader does: a request is dropped only by a reader that
   fails, and what is published is what was read last. *)
THEOREM RefinesSlotHolds == Spec => RefinesSlot
<1>1. Init => Slot!Init
  <2> SUFFICES ASSUME Init PROVE Slot!Init
    OBVIOUS
  <2>1. (\E p \in Procs : proc[p].pc \in Reading) = FALSE
    BY DEF Init, NoProc, Proc, Reading
  <2> QED BY <2>1 DEF Init, Slot!Init
<1>2. IInv /\ LastRead /\ Published /\ [Next]_vars => [Slot!Next]_(Slot!vars)
  BY SlotStep
<1> QED BY <1>1, <1>2, Invariant, ReadInvariance, PTL DEF Spec, RefinesSlot, Slot!Spec
-----------------------------------------------------------------------------
(* The stages in numbers. *)
LEMMA StageValues ==
  /\ StagesLeft["none"] = 0 /\ StagesLeft["trying"] = 7 /\ StagesLeft["locked"] = 6
  /\ StagesLeft["taken"] = 5 /\ StagesLeft["headRead"] = 4 /\ StagesLeft["read"] = 3
  /\ StagesLeft["completed"] = 2 /\ StagesLeft["ended"] = 1
  BY DEF StagesLeft, Locked, Reading, HasRead

(* Once started, a process comes nearer to its end with each of its steps, the
   follow-up rounds included; nothing else puts it back. *)
THEOREM DrainingEnds == Spec => NoProcessLoops
<1>1. IInv /\ [Next]_vars =>
        [\A p \in Procs :
           \/ proc'[p] = proc[p]
           \/ proc'[p] = NoProc
           \/ proc[p].pc = "none" /\ \E wanted \in Content : proc'[p] = Proc("trying", 0, wanted)
           \/ proc[p].pc # "none" /\ WayToGo(p)' \in Nat /\ WayToGo(p)' < WayToGo(p)]_vars
  <2> DEFINE Fine(p) ==
         \/ proc'[p] = proc[p]
         \/ proc'[p] = NoProc
         \/ proc[p].pc = "none" /\ \E wanted \in Content : proc'[p] = Proc("trying", 0, wanted)
         \/ proc[p].pc # "none" /\ WayToGo(p)' \in Nat /\ WayToGo(p)' < WayToGo(p)
  <2> SUFFICES ASSUME TypeOK, NEW p \in Procs, Next PROVE Fine(p)
    BY DEF IInv
  <2>0. /\ proc \in [Procs -> ProcRecord] /\ MaxFollowUps \in Nat
        /\ proc[p].round \in 0 .. MaxFollowUps /\ 0 \in Content
        /\ \A h \in Hooks : hook[h].wanted \in Content
    BY RefreshAssumption, EmptyRecords DEF TypeOK, ProcRecord
  <2>a. ASSUME NEW from, NEW to, proc[p].pc = from, proc'[p].pc = to,
               proc'[p].round = proc[p].round, from # "none",
               StagesLeft[from] \in 0 .. 7, StagesLeft[to] \in 0 .. 7,
               StagesLeft[to] < StagesLeft[from]
        PROVE  Fine(p)
    BY <2>0, <2>a DEF WayToGo
  <2>b. ASSUME NEW q \in Procs, q # p, \A r \in Procs : r # q => proc'[r] = proc[r] PROVE Fine(p)
    BY <2>b
  <2> USE DEF ProcAfter
  <2>1. CASE UNCHANGED proc
    BY <2>1
  <2>2. ASSUME NEW q \in Procs, StartByHand(q) \/ \E h \in Hooks : SpawnDetached(h, q)
        PROVE  Fine(p)
    BY <2>0, <2>2 DEF StartByHand, SpawnDetached, Spawn
  <2>3. ASSUME NEW q \in Procs, Bail(q) \/ Die(q) PROVE Fine(p)
    BY <2>0, <2>3 DEF Bail, Die
  <2>4. ASSUME NEW q \in Procs,
               Lock(q) \/ TakePending(q) \/ MarkerStays(q) \/ ReadHead(q) \/ ReadTree(q) \/ Complete(q) \/ Unlock(q)
        PROVE  Fine(p)
    <3>1. CASE q # p
      BY <2>b, <2>4, <3>1, ProcSteps, ProcReads
    <3>2. CASE q = p
      <4>1. CASE Lock(p)
        BY <2>a, <4>1, StageValues, ProcSteps DEF Lock
      <4>2. CASE TakePending(p) \/ MarkerStays(p)
        <5>1. proc[p].pc = "locked" /\ proc'[p].pc = "taken" /\ proc'[p].round = proc[p].round
          BY <4>2, ProcSteps DEF TakePending, MarkerStays
        <5> QED BY <2>a, <5>1, StageValues
      <4>3. CASE ReadHead(p)
        <5>1. proc[p].pc = "taken" /\ proc'[p].pc = "headRead" /\ proc'[p].round = proc[p].round
          BY <4>3, ProcReads DEF ReadHead
        <5> QED BY <2>a, <5>1, StageValues
      <4>4. CASE ReadTree(p)
        <5>1. proc[p].pc = "headRead" /\ proc'[p].pc = "read" /\ proc'[p].round = proc[p].round
          BY <4>4, ProcReads DEF ReadTree
        <5> QED BY <2>a, <5>1, StageValues
      <4>5. CASE Complete(p)
        BY <2>a, <4>5, StageValues, ProcSteps DEF Complete
      <4>6. CASE Unlock(p)
        <5>1. proc[p].pc = "completed" /\ proc'[p].pc = "ended" /\ proc'[p].round = proc[p].round
          BY <4>6, ProcSteps DEF Unlock
        <5> QED BY <2>a, <5>1, StageValues
      <4> QED BY <2>4, <3>2, <4>1, <4>2, <4>3, <4>4, <4>5, <4>6
    <3> QED BY <3>1, <3>2
  <2>5. ASSUME NEW q \in Procs, Drain(q) PROVE Fine(p)
    <3>1. CASE q # p
      BY <2>0, <2>5, <3>1 DEF Drain
    <3>2. CASE q = p /\ marker /\ proc[p].round < MaxFollowUps
      <4>1. proc'[p] = Proc("trying", proc[p].round + 1, owed) /\ proc[p].pc = "ended"
        BY <2>0, <2>5, <3>2 DEF Drain, FollowUp
      <4>2. proc'[p].pc = "trying" /\ proc'[p].round = proc[p].round + 1
        BY <4>1 DEF Proc
      <4>3. WayToGo(p) = 7 * (MaxFollowUps - proc[p].round) + 1
        BY <4>1, StageValues DEF WayToGo
      <4>4. WayToGo(p)' = 7 * (MaxFollowUps - (proc[p].round + 1)) + 7
        BY <4>2, StageValues DEF WayToGo
      <4> QED BY <2>0, <3>2, <4>1, <4>3, <4>4
    <3>3. CASE q = p /\ ~(marker /\ proc[p].round < MaxFollowUps)
      BY <2>0, <2>5, <3>3 DEF Drain
    <3> QED BY <3>1, <3>2, <3>3
  <2>6. ASSUME NEW h \in Hooks, Fire(h) \/ Probe(h) \/ Request(h) \/ DropGuard(h) \/ HookFails(h)
        PROVE  UNCHANGED proc
    BY <2>6
    DEF Fire, Probe, Request, DropGuard, HookFails, SpawnAnyway, RequestFails, SpawnFails, Swallowed
  <2>7. Edit \/ Commit => UNCHANGED proc
    BY DEF Edit, Commit
  <2> QED BY <2>1, <2>2, <2>3, <2>4, <2>5, <2>6, <2>7 DEF Next, Process, HookStep
<1> QED BY <1>1, Invariant, PTL DEF Spec, NoProcessLoops
=============================================================================
