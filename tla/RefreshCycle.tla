---------------------------- MODULE RefreshCycle ----------------------------
(***************************************************************************)
(* How an index is kept up to date.  Hooks (session start, git) ask the    *)
(* freshness oracle and, when it says stale, either start an analyze or,   *)
(* finding the analyze lock taken, leave a marker file for the holder.  An *)
(* analyze takes the marker under the lock, reads the tree, records a      *)
(* completed run and, on its way out, follows up on a marker left since.   *)
(*                                                                         *)
(* The tree is one source file: `tree` numbers its contents in the order   *)
(* they were written and is at the same time the clock every mtime and     *)
(* `completed_at` is read from.  `index` is the latest completed run.      *)
(* Steps of different processes interleave at every file-system call.      *)
(***************************************************************************)
EXTENDS Naturals

CONSTANTS Procs,             \* slots for analyze processes
          Hooks,             \* slots for hook processes
          Nobody,            \* no holder
          MaxFollowUps,      \* MAX_PENDING_FOLLOW_UPS
          MaxEdits,          \* bound: times the file is written
          MaxFaults,         \* bound: analyzes that err or are killed, file-system calls that fail
          MaxOverlaps        \* bound: hooks fired while another one is under way

ASSUME RefreshAssumption ==
  /\ Nobody \notin Procs \cup Hooks /\ Procs \cap Hooks = {}
  /\ MaxFollowUps \in Nat /\ MaxEdits \in Nat
  /\ MaxFaults \in Nat /\ MaxOverlaps \in Nat

VARIABLES
  tree,      \* the file's content, and the time it was written
  head,      \* the content HEAD records
  index,     \* latest completed run: content read, completed_at, analyzed_at_commit
  holder,    \* who holds the advisory lock on loomweave.lock
  marker,    \* loomweave.pending exists
  proc,      \* the analyze processes
  hook,      \* the hook processes
  faults, overlaps,
  owed,      \* history: the newest content a queued request was made for
  served     \* history: the newest content a run has read

history == <<owed, served>>
vars    == <<tree, head, index, holder, marker, proc, hook, faults, overlaps, history>>

Content == 0 .. MaxEdits
Reading == {"taken", "headRead"}                  \* the marker is gone, the walk to come
HasRead == {"read", "completed"}
Locked  == {"locked"} \cup Reading \cup HasRead   \* the run holds the lock

(* An analyze process that has read nothing yet: its stage, its round of the
   drain, and the content a hook or a queued request wants it to read. *)
Proc(pc, round, wanted) ==
  [pc |-> pc, round |-> round, wanted |-> wanted, head |-> 0, read |-> 0]

NoProc == Proc("none", 0, 0)
NoHook == [pc |-> "none", wanted |-> 0]

TypeOK ==
  /\ tree \in Content /\ head \in Content
  /\ index \in [content : Content, at : Content, head : Content]
  /\ holder \in Procs \cup Hooks \cup {Nobody}
  /\ marker \in BOOLEAN
  /\ proc \in [Procs -> [pc : {"none", "trying", "ended"} \cup Locked, round : 0 .. MaxFollowUps,
                         wanted : Content, head : Content, read : Content]]
  /\ hook \in [Hooks -> [pc : {"none", "stale", "probed", "spawning", "held"},
                         wanted : Content]]
  /\ faults \in 0 .. MaxFaults /\ overlaps \in 0 .. MaxOverlaps
  /\ owed \in Content /\ served \in Content

(* A project that has been installed and analyzed once. *)
Init ==
  /\ tree = 0 /\ head = 0
  /\ index = [content |-> 0, at |-> 0, head |-> 0]
  /\ holder = Nobody /\ marker = FALSE
  /\ proc = [p \in Procs |-> NoProc]
  /\ hook = [h \in Hooks |-> NoHook]
  /\ faults = 0 /\ overlaps = 0 /\ owed = 0 /\ served = 0
-----------------------------------------------------------------------------
(* The world: somebody saves the file, somebody commits it. *)
Edit ==
  /\ tree < MaxEdits
  /\ tree' = tree + 1
  /\ UNCHANGED <<head, index, holder, marker, proc, hook, faults, overlaps, history>>

Commit ==
  /\ head # tree
  /\ head' = tree
  /\ UNCHANGED <<tree, index, holder, marker, proc, hook, faults, overlaps, history>>

(* compute_freshness: HEAD moved since the run, or the file's mtime is later
   than the time the run completed. *)
Stale == head # index.head \/ tree > index.at
-----------------------------------------------------------------------------
(***************************************************************************)
(* The analyze process.                                                    *)
(***************************************************************************)
Goes(p, pc) == proc' = [proc EXCEPT ![p].pc = pc]

Spawn(p, wanted) ==
  /\ proc[p].pc = "none"
  /\ proc' = [proc EXCEPT ![p] = Proc("trying", 0, wanted)]

StartByHand(p) ==
  /\ Spawn(p, 0)
  /\ UNCHANGED <<tree, head, index, holder, marker, hook, faults, overlaps, history>>

(* acquire_analyze_lock_for_context: take the lock, or bail. *)
Lock(p) ==
  /\ proc[p].pc = "trying" /\ holder = Nobody
  /\ holder' = p
  /\ Goes(p, "locked")
  /\ UNCHANGED <<tree, head, index, marker, hook, faults, overlaps, history>>

Bail(p) ==
  /\ proc[p].pc = "trying" /\ holder # Nobody
  /\ proc' = [proc EXCEPT ![p] = NoProc]
  /\ UNCHANGED <<tree, head, index, holder, marker, hook, faults, overlaps, history>>

(* take_pending_analyze: this run is the refresh the request waited for. *)
TakePending(p) ==
  /\ proc[p].pc = "locked"
  /\ marker' = FALSE
  /\ Goes(p, "taken")
  /\ UNCHANGED <<tree, head, index, holder, hook, faults, overlaps, history>>

(* It is fail-soft: a marker that cannot be removed stays for another run. *)
MarkerStays(p) ==
  /\ proc[p].pc = "locked" /\ faults < MaxFaults
  /\ faults' = faults + 1
  /\ Goes(p, "taken")
  /\ UNCHANGED <<tree, head, index, holder, marker, hook, overlaps, history>>

ReadHead(p) ==
  /\ proc[p].pc = "taken"
  /\ proc' = [proc EXCEPT ![p].pc = "headRead", ![p].head = head]
  /\ UNCHANGED <<tree, head, index, holder, marker, hook, faults, overlaps, history>>

ReadTree(p) ==
  /\ proc[p].pc = "headRead"
  /\ proc' = [proc EXCEPT ![p].pc = "read", ![p].read = tree]
  /\ served' = tree
  /\ UNCHANGED <<tree, head, index, holder, marker, hook, faults, overlaps, owed>>

TakesPendingLate(p) ==                        \* mutant: the marker goes when the run commits
  /\ proc[p].pc = "read"
  /\ index' = [content |-> proc[p].read, at |-> tree, head |-> proc[p].head]
  /\ marker' = FALSE
  /\ Goes(p, "completed")
  /\ UNCHANGED <<tree, head, holder, hook, faults, overlaps, history>>

(* completed_at is taken when the analysis is over, then the run commits. *)
Complete(p) ==
  /\ proc[p].pc = "read"
  /\ index' = [content |-> proc[p].read, at |-> tree, head |-> proc[p].head]
  /\ Goes(p, "completed")
  /\ UNCHANGED <<tree, head, holder, marker, hook, faults, overlaps, history>>

(* The guard is dropped when run_with_options returns. *)
Unlock(p) ==
  /\ proc[p].pc = "completed"
  /\ holder' = Nobody
  /\ proc' = [proc EXCEPT ![p] = Proc("ended", @.round, 0)]
  /\ UNCHANGED <<tree, head, index, marker, hook, faults, overlaps, history>>

FollowUp(p) == Proc("trying", proc[p].round + 1, owed)

DrainOnceMore(p) ==                           \* mutant: the range of rounds is inclusive
  /\ proc[p].pc = "ended"
  /\ proc' = [proc EXCEPT ![p] =
                IF marker /\ proc[p].round <= MaxFollowUps THEN FollowUp(p) ELSE NoProc]
  /\ UNCHANGED <<tree, head, index, holder, marker, hook, faults, overlaps, history>>

(* run_with_options_draining_pending: one more round, or the process exits. *)
Drain(p) ==
  /\ proc[p].pc = "ended"
  /\ proc' = [proc EXCEPT ![p] =
                IF marker /\ proc[p].round < MaxFollowUps THEN FollowUp(p) ELSE NoProc]
  /\ UNCHANGED <<tree, head, index, holder, marker, hook, faults, overlaps, history>>

(* An error return or a kill at any point, from before the lock is asked for to
   the drain: the lock goes with the process, no draining.  A request it had
   taken and not yet read for is lost with it. *)
Die(p) ==
  /\ proc[p].pc # "none" /\ faults < MaxFaults
  /\ faults' = faults + 1
  /\ holder' = IF holder = p THEN Nobody ELSE holder
  /\ proc' = [proc EXCEPT ![p] = NoProc]
  /\ owed' = IF proc[p].pc \in Reading THEN 0 ELSE owed
  /\ UNCHANGED <<tree, head, index, marker, hook, overlaps, served>>
-----------------------------------------------------------------------------
(***************************************************************************)
(* The hook: probe_then_spawn_background_analyze.                          *)
(***************************************************************************)
HookGoes(h, pc) == hook' = [hook EXCEPT ![h].pc = pc]
Alone(h)        == \A other \in Hooks \ {h} : hook[other].pc = "none"

Fire(h) ==
  /\ hook[h].pc = "none" /\ Stale
  /\ hook' = [hook EXCEPT ![h] = [pc |-> "stale", wanted |-> tree]]
  /\ IF Alone(h) THEN UNCHANGED overlaps
     ELSE overlaps < MaxOverlaps /\ overlaps' = overlaps + 1
  /\ UNCHANGED <<tree, head, index, holder, marker, proc, faults, history>>

SpawnAndSee(h) ==                             \* mutant: a held lock is not looked at
  /\ hook[h].pc = "stale"
  /\ IF holder = Nobody
     THEN holder' = h /\ HookGoes(h, "probed")
     ELSE UNCHANGED holder /\ HookGoes(h, "spawning")
  /\ UNCHANGED <<tree, head, index, marker, proc, faults, overlaps, history>>

(* try_acquire_analyze_lock_for_context: the probe itself holds the lock. *)
Probe(h) ==
  /\ hook[h].pc = "stale"
  /\ IF holder = Nobody
     THEN holder' = h /\ HookGoes(h, "probed")
     ELSE UNCHANGED holder /\ HookGoes(h, "held")
  /\ UNCHANGED <<tree, head, index, marker, proc, faults, overlaps, history>>

(* request_pending_analyze, some time after the lock was seen held. *)
Request(h) ==
  /\ hook[h].pc = "held"
  /\ marker' = TRUE
  /\ owed' = IF hook[h].wanted > owed THEN hook[h].wanted ELSE owed
  /\ hook' = [hook EXCEPT ![h] = NoHook]
  /\ UNCHANGED <<tree, head, index, holder, proc, faults, overlaps, served>>

GuardKept(h) ==                               \* mutant: the probe's guard leaks
  /\ hook[h].pc = "probed"
  /\ HookGoes(h, "spawning")
  /\ UNCHANGED <<tree, head, index, holder, marker, proc, faults, overlaps, history>>

(* The probe's guard is dropped before the child is started. *)
DropGuard(h) ==
  /\ hook[h].pc = "probed"
  /\ holder' = Nobody
  /\ HookGoes(h, "spawning")
  /\ UNCHANGED <<tree, head, index, marker, proc, faults, overlaps, history>>

SpawnDetached(h, p) ==
  /\ hook[h].pc = "spawning"
  /\ Spawn(p, hook[h].wanted)
  /\ hook' = [hook EXCEPT ![h] = NoHook]
  /\ UNCHANGED <<tree, head, index, holder, marker, faults, overlaps, history>>

(* Every error is logged and swallowed: a hook never blocks git. *)
Swallowed(h, after) ==
  /\ faults < MaxFaults /\ faults' = faults + 1
  /\ hook' = [hook EXCEPT ![h] = after]
  /\ UNCHANGED <<tree, head, index, holder, marker, proc, overlaps, history>>

(* The lock cannot be opened or its path not resolved: the hook does not know
   who holds it, and starts a child blindly.  That child is held to nothing. *)
SpawnAnyway(h)   == hook[h].pc = "stale" /\ Swallowed(h, [pc |-> "spawning", wanted |-> 0])

RequestFails(h)  == hook[h].pc = "held" /\ Swallowed(h, NoHook)
SpawnFails(h)    == hook[h].pc = "spawning" /\ Swallowed(h, NoHook)
HookFails(h)     == SpawnAnyway(h) \/ RequestFails(h) \/ SpawnFails(h)
-----------------------------------------------------------------------------
Process(p) == \/ Lock(p) \/ Bail(p) \/ TakePending(p) \/ ReadHead(p) \/ ReadTree(p)
              \/ Complete(p) \/ Unlock(p) \/ Drain(p)

HookStep(h) == \/ Fire(h) \/ Probe(h) \/ Request(h) \/ DropGuard(h)
               \/ \E p \in Procs : SpawnDetached(h, p)

Next == \/ Edit \/ Commit
        \/ \E p \in Procs : Process(p) \/ MarkerStays(p) \/ Die(p) \/ StartByHand(p)
        \/ \E h \in Hooks : HookStep(h) \/ HookFails(h)

Spec == Init /\ [][Next]_vars

(* Processes and hooks keep going, and hooks keep being fired at a stale index.
   Taking the lock is strongly fair: it is contended for by probes that hold it
   for the time of two system calls. *)
Fairness ==
  /\ \A p \in Procs : WF_vars(Process(p)) /\ SF_vars(Lock(p))
  /\ \A h \in Hooks : WF_vars(HookStep(h))

FairSpec == Spec /\ Fairness
-----------------------------------------------------------------------------
(* A request queued with the marker is never eaten by a run that had read the
   tree before it was made: until a run reads content as new as the request,
   the marker stands or a run that has still to read holds the lock (the code
   takes the marker under the lock and before the walk for this reason). *)
RequestNotForgotten ==
  owed > served => marker \/ \E p \in Procs : holder = p /\ proc[p].pc \in Reading

(* The gap between a hook's probe and its child's attempt is harmless: a child
   that loses the lock loses it to a hook about to start another one, or to a
   run that has read, or has still to read, content as new as the hook saw.  A
   follow-up that loses it may instead leave the marker to the winner.  A child
   started by hand, or blindly by a hook whose probe failed, wants nothing, so
   nothing is said of it: it can lose the lock to a run that read older content
   and leave no marker, and only the next hook makes up for that (Converges). *)
HarmlessRace ==
  [][\A p \in Procs : Bail(p) =>
       \/ \E h \in Hooks : holder = h
       \/ \E q \in Procs : /\ holder = q
                           /\ proc[q].pc \in HasRead => proc[q].read >= proc[p].wanted
       \/ proc[p].round > 0 /\ marker]_vars

(* However probes, losers, errors and kills interleave, once the file is left
   alone the oracle ends up calling the index fresh. *)
Converges == <>[](~Stale)

(* For who asks for a refresh, locks, markers, probes and drain rounds are one
   slot with one reader that never publishes what is older than it has read. *)
Slot == INSTANCE RequestSlot WITH
          now       <- tree,
          slot      <- marker,
          reading   <- \E p \in Procs : proc[p].pc \in Reading,
          debt      <- IF owed > served THEN owed ELSE 0,
          got       <- served,
          published <- index.content

RefinesSlot == Slot!Spec

(* A verdict of fresh with no refresh under way or asked for is true. *)
FreshIsTrue ==
  (~Stale /\ ~marker /\ holder = Nobody /\ \A p \in Procs : proc[p].pc = "none")
     => index.content = tree
=============================================================================
