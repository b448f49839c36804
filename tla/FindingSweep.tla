---------------------------- MODULE FindingSweep ----------------------------
(***************************************************************************)
(* How findings come and go.  A finding is keyed by its content, so a run  *)
(* that reports it again only moves it to its own run id, and a completed  *)
(* run deletes those left behind under an older one.  Being left behind    *)
(* means "looked, fixed" only where the run did look: it may have skipped  *)
(* the file as unchanged, failed to read it, given it up to the watchdog,  *)
(* had no plugin for it, or not have met it: a file that is deleted,       *)
(* renamed, ignored or replaced by a link leaves the walk without a word.  *)
(*                                                                         *)
(* A finding is a file and the family of its rule: the plugin's syntax     *)
(* rule, the rules of the secret scan, everything else.  A row's run id is *)
(* abstracted to whether it is that of the latest run.                     *)
(***************************************************************************)
EXTENDS Naturals

CONSTANTS Sources,      \* source files, each claimed by a plugin of its own
          Sidecars,     \* .env files, which only the secret scan reads
          Keys,         \* findings that can occur: <<file, family>>
          MaxChanges,   \* bound: edits, decisions, files and plugins that come and go
          MaxFaults     \* bound: unread files, timeouts, failures and kills

Families == {"syntax", "secret", "other"}

ASSUME SweepAssumption ==
  /\ Keys \subseteq (Sources \X Families) \cup (Sidecars \X {"secret"})
  /\ Sources \cap Sidecars = {}
  /\ MaxChanges \in Nat /\ MaxFaults \in Nat

VARIABLES
  holds,      \* what a look at the bytes of each file would report
  absent,     \* files the walk does not meet
  plugin,     \* of each source file: "ok", "broken" (its manifest), "gone"
  fresh,      \* files whose prior-index entry is that of their bytes
  raced,      \* history: those of them whose entry is of an edit not looked at
  row,        \* the findings: "none", or by run id "prior" or "current"
  owned,      \* rows acknowledged, suppressed or linked to Filigree
  stage,      \* of the latest run
  opts,       \* its options, and whether it discovered every plugin
  unread,     \* files its walks failed to read
  scanned,    \* files the secret scan examined
  skipped,    \* unchanged files left alone
  todo,       \* files still to be dispatched
  reading,    \* the file its plugin has answered for, to be hashed by the host
  looked,     \* files whose batch was persisted
  hashed,     \* those of them not edited since
  late,       \* history: files edited between the plugin's read and the hash
  classified, \* syntax_classified_source_files
  found,      \* what the run reports
  changes, faults

tree   == <<holds, absent, plugin, changes>>
index  == <<fresh, raced>>
store  == <<row, owned>>
scope  == <<opts, unread, scanned, skipped>>
work   == <<todo, reading, looked, hashed, late, classified, found>>
vars   == <<tree, index, store, stage, scope, work, faults>>

Files    == Sources \cup Sidecars
Options  == [resume : BOOLEAN, full : BOOLEAN, no_sei : BOOLEAN, discovered : BOOLEAN]
Defaults == [resume |-> FALSE, full |-> FALSE, no_sei |-> FALSE, discovered |-> TRUE]
Stages   == {"idle", "run", "reported", "completed", "swept", "secrets"}

TypeOK ==
  /\ holds \subseteq Keys /\ absent \subseteq Files
  /\ plugin \in [Sources -> {"ok", "broken", "gone"}]
  /\ fresh \subseteq Sources /\ raced \subseteq fresh
  /\ row \in [Keys -> {"none", "prior", "current"}] /\ owned \subseteq Keys
  /\ stage \in Stages /\ opts \in Options
  /\ unread \subseteq Files /\ scanned \subseteq Files /\ skipped \subseteq Sources
  /\ todo \subseteq Sources /\ reading \subseteq Sources
  /\ looked \subseteq Sources /\ hashed \subseteq Sources /\ late \subseteq Sources
  /\ classified \subseteq looked /\ found \subseteq Keys
  /\ changes \in 0 .. MaxChanges /\ faults \in 0 .. MaxFaults

Init ==
  /\ holds = Keys /\ absent = {} /\ plugin = [f \in Sources |-> "ok"]
  /\ fresh = {} /\ raced = {}
  /\ row = [k \in Keys |-> "none"] /\ owned = {}
  /\ stage = "idle" /\ opts = Defaults
  /\ unread = {} /\ scanned = {} /\ skipped = {}
  /\ todo = {} /\ reading = {} /\ looked = {} /\ hashed = {} /\ late = {}
  /\ classified = {} /\ found = {}
  /\ changes = 0 /\ faults = 0

Over ==
  /\ stage' = "idle" /\ opts' = Defaults
  /\ unread' = {} /\ scanned' = {} /\ skipped' = {}
  /\ todo' = {} /\ reading' = {} /\ looked' = {} /\ hashed' = {} /\ late' = {}
  /\ classified' = {} /\ found' = {}

Fault == faults < MaxFaults /\ faults' = faults + 1

Of(files, families) == {k \in Keys : k[1] \in files /\ k[2] \in families}
-----------------------------------------------------------------------------
(* The world: an editor, files that leave the walk or come back as they were,
   plugins that are removed, break or come back, and whoever acknowledges,
   suppresses or promotes a finding. *)
Change == changes < MaxChanges /\ changes' = changes + 1

Edit(f) ==
  /\ Change
  /\ \E now \in SUBSET Of({f}, Families) : holds' = (holds \ Of({f}, Families)) \cup now
  /\ fresh' = fresh \ {f} /\ raced' = raced \ {f}
  /\ hashed' = hashed \ {f} /\ late' = late \cup (reading \cap {f})
  /\ UNCHANGED <<absent, plugin, store, stage, scope, todo, reading, looked, classified, found, faults>>

(* Deleted, renamed, ignored or made a link; the walk counts none of it. *)
Leave(f) ==
  /\ Change /\ f \notin absent /\ absent' = absent \cup {f}
  /\ UNCHANGED <<holds, plugin, index, store, stage, scope, work, faults>>

Return(f) ==
  /\ Change /\ f \in absent /\ absent' = absent \ {f}
  /\ UNCHANGED <<holds, plugin, index, store, stage, scope, work, faults>>

Install(f) ==
  /\ Change
  /\ \E p \in {"ok", "broken", "gone"} \ {plugin[f]} : plugin' = [plugin EXCEPT ![f] = p]
  /\ UNCHANGED <<holds, absent, index, store, stage, scope, work, faults>>

Own(k) ==
  /\ Change /\ row[k] # "none" /\ k \notin owned
  /\ owned' = owned \cup {k}
  /\ UNCHANGED <<holds, absent, plugin, index, row, stage, scope, work, faults>>
-----------------------------------------------------------------------------
(* The walk, the secret scan and the partition; the run's row is opened after
   the scan.  A resumed run keeps its id, and with it its rows. *)
Claimed == {f \in Sources : plugin[f] = "ok"}

Met == (Claimed \cup Sidecars) \ absent

Begin(resume, full, no_sei, holes) ==
  /\ stage = "idle" /\ stage' = "run"
  /\ opts' = [resume |-> resume, full |-> full, no_sei |-> no_sei,
             discovered |-> \A f \in Sources : plugin[f] # "broken"]
  /\ unread' = holes
  /\ scanned' = Met \ holes
  /\ skipped' = IF full THEN {} ELSE scanned' \cap fresh
  /\ todo' = (scanned' \cap Sources) \ skipped'
  /\ row' = [k \in Keys |-> IF row[k] = "current" /\ ~resume THEN "prior" ELSE row[k]]
  /\ found' = holds \cap Of(scanned', {"secret"})
  /\ reading' = {} /\ looked' = {} /\ hashed' = {} /\ late' = {} /\ classified' = {}
  /\ UNCHANGED <<tree, index, owned>>

Start == \E resume, full, no_sei \in BOOLEAN : Begin(resume, full, no_sei, {}) /\ UNCHANGED faults

StartBlind ==
  /\ Fault
  /\ \E resume, full, no_sei \in BOOLEAN, f \in Files :
       f \in Met /\ Begin(resume, full, no_sei, {f})

(* Files are dispatched one after the other. *)
Dispatched(f) ==
  /\ stage = "run" /\ reading = {} /\ f \in todo
  /\ todo' = todo \ {f}

(* The plugin has read the file and answers. *)
Look(f) ==
  /\ Dispatched(f) /\ reading' = {f}
  /\ found' = found \cup (holds \cap Of({f}, {"syntax", "other"}))
  /\ UNCHANGED <<tree, index, store, stage, scope, looked, hashed, late, classified, faults>>

(* The host hashes what the file holds by then and persists the batch. *)
Persist(f) ==
  /\ f \in reading /\ reading' = reading \ {f}
  /\ looked' = looked \cup {f} /\ hashed' = hashed \cup {f}
  /\ classified' = classified \cup {f}
  /\ UNCHANGED <<tree, index, store, stage, scope, todo, late, found, faults>>

(* Mutant: A file that was given up counts as classified. *)
CountsPassedOver(f) ==
  /\ Dispatched(f) /\ Fault
  /\ classified' = classified \cup {f}
  /\ UNCHANGED <<tree, index, store, stage, scope, reading, looked, hashed, late, found>>

(* The watchdog gives a file up and the run goes on. *)
PassOver(f) ==
  /\ Dispatched(f) /\ Fault
  /\ UNCHANGED <<tree, index, store, stage, scope, reading, looked, hashed, late, classified, found>>

(* A plugin reports a syntax error without a file, or the host rejects some of
   its evidence: none of its files counts as classified. *)
Withhold(f) ==
  /\ stage = "run" /\ todo = {} /\ reading = {} /\ f \in classified /\ Fault
  /\ classified' = classified \ {f}
  /\ UNCHANGED <<tree, index, store, stage, scope, todo, reading, looked, hashed, late, found>>

(* The upsert moves a row to this run and keeps its status and its link. *)
Upserted(ks) == row' = [k \in Keys |-> IF k \in ks THEN "current" ELSE row[k]]

Report ==
  /\ stage = "run" /\ todo = {} /\ reading = {} /\ stage' = "reported"
  /\ Upserted(found)
  /\ UNCHANGED <<tree, index, owned, scope, work, faults>>

(* The run fails or is killed.  What its batches had committed stays; a plugin
   that crashed leaves files undispatched, and its run reports all the same. *)
Fail ==
  /\ stage \in {"run", "reported"} /\ Over /\ Fault
  /\ \E ks \in SUBSET (found \ Of(reading, {"syntax", "other"})) : Upserted(ks)
  /\ UNCHANGED <<tree, index, owned>>

(* CommitRun, and the flush of the prior index, whose failure is swallowed. *)
Commit ==
  /\ stage = "reported" /\ stage' = "completed"
  /\ \/ /\ fresh' = (fresh \cap skipped) \cup hashed
        /\ raced' = (raced \cap skipped) \cup (late \cap hashed)
        /\ UNCHANGED faults
     \/ UNCHANGED index /\ Fault
  /\ UNCHANGED <<tree, store, scope, work>>
-----------------------------------------------------------------------------
(***************************************************************************)
(* The three sweeps of a completed run.                                    *)
(***************************************************************************)
(* Mutant: Sweeps keep to the files the run has read. *)
RetireScanned(ks) ==
  row' = [k \in Keys |-> IF k \in ks \ owned /\ row[k] = "prior" /\ k[1] \in scanned
                         THEN "none" ELSE row[k]]

Retire(ks) ==
  row' = [k \in Keys |-> IF k \in ks \ owned /\ row[k] = "prior" THEN "none" ELSE row[k]]

(* Mutant: Files skipped as unchanged do not close the gate. *)
SkipsAreClean ==
  ~opts.resume /\ unread = {} /\ opts.discovered /\ ~opts.no_sei

CleanFullPass ==
  ~opts.resume /\ skipped = {} /\ unread = {} /\ opts.discovered /\ ~opts.no_sei

SweepAll ==
  /\ stage = "completed" /\ stage' = "swept"
  /\ IF CleanFullPass THEN Retire(Keys) ELSE UNCHANGED row
  /\ UNCHANGED <<tree, index, owned, scope, work, faults>>

SweepSecrets ==
  /\ stage = "swept" /\ stage' = "secrets"
  /\ IF ~opts.resume /\ unread \cap Sources = {}
     THEN Retire(Of(scanned, {"secret"})) ELSE UNCHANGED row
  /\ UNCHANGED <<tree, index, owned, scope, work, faults>>

SweepSyntax ==
  /\ stage = "secrets" /\ Over
  /\ IF ~opts.resume THEN Retire(Of(classified, {"syntax"})) ELSE UNCHANGED row
  /\ UNCHANGED <<tree, index, owned, faults>>

(* A sweep that fails is logged and passed over; or the process is killed. *)
SweepFails ==
  /\ Fault
  /\ \/ stage = "completed" /\ stage' = "swept" /\ UNCHANGED <<scope, work>>
     \/ stage = "swept" /\ stage' = "secrets" /\ UNCHANGED <<scope, work>>
     \/ stage \in {"completed", "swept", "secrets"} /\ Over
  /\ UNCHANGED <<tree, index, store>>
-----------------------------------------------------------------------------
World ==
  \/ \E f \in Sources : Install(f)
  \/ \E f \in Files : Edit(f) \/ Leave(f) \/ Return(f)
  \/ \E k \in Keys : Own(k)

Run ==
  (\E f \in Sources : Look(f) \/ Persist(f)) \/ Report \/ Commit \/ SweepAll \/ SweepSecrets \/ SweepSyntax

Failure == StartBlind \/ (\E f \in Sources : PassOver(f) \/ Withhold(f)) \/ Fail \/ SweepFails

Next == World \/ Start \/ Run \/ Failure

Spec == Init /\ [][Next]_vars

(* A run left alone ends, and now and then somebody runs analyze with
   --no-incremental. *)
FairSpec ==
  Spec /\ WF_vars(Run) /\ SF_vars(Begin(FALSE, TRUE, FALSE, {}) /\ UNCHANGED faults)
-----------------------------------------------------------------------------
(***************************************************************************)
(* Properties.                                                             *)
(***************************************************************************)
Looked(k) == IF k[2] = "secret" THEN k[1] \in scanned ELSE k[1] \in looked

(* The files a clean full pass never looks at although none of its gates
   knows: those the walk did not meet, those no installed plugin claims, and
   those the watchdog gave up. *)
Overlooked(f) ==
  \/ f \notin scanned \cup unread
  \/ f \in Sources \cap scanned /\ f \notin looked \cup skipped

(* A row is deleted only when nobody decided anything about it and the run
   that deletes it looked for it and did not find it, or when its file left
   the tree, was given up or is nobody's any more.  Whatever run wrote it, and
   whichever runs failed, skipped or could not read its file in between. *)
RetiredOnlyIfLooked ==
  [][\A k \in Keys :
       row[k] # "none" /\ row'[k] = "none" =>
         /\ k \notin owned
         /\ \/ Looked(k) /\ k \notin found
            \/ Overlooked(k[1])]_vars

(* A finding that no longer holds, or whose file has left the tree, and that
   nobody decided about is gone in the end, unless a plugin stays broken: a
   full pass finds what incremental runs, crashes between the flush and the
   sweeps, and resumed runs left. *)
GhostsGo ==
  \A k \in Keys :
    <>[](/\ k \notin holds \/ k[1] \in absent
         /\ k \notin owned /\ \A f \in Sources : plugin[f] # "broken")
      => <>[](row[k] = "none")
=============================================================================
