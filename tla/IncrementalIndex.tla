-------------------------- MODULE IncrementalIndex --------------------------
(***************************************************************************)
(* One plugin's share of an analyze run, file by file.  A run compares     *)
(* every source file with the prior-index snapshot and sends to the plugin *)
(* those whose bytes changed, those whose last call resolution was         *)
(* degraded, or all of them when the plugin's contract moved.  What comes  *)
(* back is written to the store in several commands per file, committed a  *)
(* batch at a time, and only a completed run replaces the snapshot that    *)
(* the next run will compare with.                                         *)
(*                                                                         *)
(* A file's rows, call edges and import edges are abstracted to the        *)
(* content they were derived from; a coverage claim to who broke the       *)
(* resolver, if anybody did.                                               *)
(***************************************************************************)
EXTENDS Naturals

CONSTANTS Files,         \* the source files
          Place,         \* their places in the tree walk
          Contents,      \* what a file can hold
          None,          \* no content: no row, no edges, no hash
          Trouble,       \* <<file, content>> pairs that kill the resolver
          MaxAttempts,   \* MAX_REDISPATCH_ATTEMPTS
          MaxEdits,      \* bound: times a file is written
          MaxFaults,     \* bound: kills, crashes, timeouts and failed flushes
          MaxManual      \* bound: --no-incremental runs, upgrades, doctor --fix

ASSUME IndexAssumption ==
  /\ Place \in [Files -> Nat] /\ \A f, g \in Files : Place[f] = Place[g] => f = g
  /\ None \notin Contents
  /\ Trouble \subseteq Files \X Contents
  /\ MaxAttempts \in Nat /\ MaxEdits \in Nat
  /\ MaxFaults \in Nat /\ MaxManual \in Nat

VARIABLES
  disk,      \* the working tree
  version,   \* the contract of the installed plugin
  marker,    \* the contract recorded with the snapshot
  snapshot,  \* the whole-file hash of every file in the prior index
  db,        \* the store as committed
  tx,        \* the store as the writer's connection sees it, open batch included
  run,       \* stage of the run
  todo,      \* files still to be dispatched
  last,      \* those of them that broke the resolver themselves
  skipped,   \* files this run leaves alone
  changed,   \* content_changed_files
  reads,     \* what the plugin read of each file handled so far
  hashes,    \* what the host hashed of each file handled so far
  answer,    \* the coverage the plugin reported for the file in hand
  resolver,  \* whether the plugin's call resolver is alive
  edits, faults, manual,
  unvouched, \* history: files written since a snapshot last recorded them
  raced      \* history: files edited between the plugin's read and the host's hash

outside == <<disk, version, edits, manual>>
store   == <<db, tx>>
index   == <<marker, snapshot>>
plan    == <<todo, last, skipped, changed>>
work    == <<reads, hashes, answer, resolver>>
history == <<unvouched, raced>>
vars    == <<outside, store, index, run, plan, work, faults, history>>

Transient == {"self", "collateral"}
Claims    == {"none", "complete"} \cup Transient   \* "complete": nothing a re-run could add
MidFile   == {"read", "rows", "wiped", "claimed"}
Running   == {"file", "walked"} \cup MidFile

Nothing == [f \in Files |-> None]
Maybe   == Contents \cup {None}
Store   == [rows : [Files -> Maybe], calls : [Files -> Maybe], imports : [Files -> Maybe],
            by : [Files -> Nat], claim : [Files -> Claims], attempts : [Files -> Nat]]

TypeOK ==
  /\ disk \in [Files -> Contents]
  /\ version \in Nat /\ marker \in Nat \cup {None}
  /\ snapshot \in [Files -> Maybe]
  /\ db \in Store /\ tx \in Store
  /\ run \in {"idle", "completed"} \cup Running
  /\ todo \subseteq Files /\ last \subseteq Files /\ skipped \subseteq Files /\ changed \subseteq Files
  /\ reads \in [Files -> Maybe] /\ hashes \in [Files -> Maybe]
  /\ answer \in Claims /\ resolver \in {"up", "down"}
  /\ edits \in 0 .. MaxEdits /\ faults \in 0 .. MaxFaults /\ manual \in 0 .. MaxManual
  /\ unvouched \subseteq Files /\ raced \subseteq Files

(* A fresh store, or one that a binary without coverage rows left behind,
   with the call edges of some of its files missing. *)
Empty == [rows |-> Nothing, calls |-> Nothing, imports |-> Nothing,
          by |-> [f \in Files |-> 0], claim |-> [f \in Files |-> "none"],
          attempts |-> [f \in Files |-> 0]]

Inherited(holes) ==
  [Empty EXCEPT !.rows = disk, !.imports = disk,
                !.calls = [f \in Files |-> IF f \in holes THEN None ELSE disk[f]]]

Init ==
  /\ disk \in [Files -> Contents] /\ version = 0
  /\ \/ db = Empty /\ snapshot = Nothing /\ marker = None
     \/ \E holes \in SUBSET Files :
          db = Inherited(holes) /\ snapshot = disk /\ marker = 0
  /\ tx = db
  /\ run = "idle" /\ todo = {} /\ last = {} /\ skipped = {} /\ changed = {}
  /\ reads = Nothing /\ hashes = Nothing /\ answer = "none" /\ resolver = "up"
  /\ edits = 0 /\ faults = 0 /\ manual = 0
  /\ unvouched = {} /\ raced = {}
-----------------------------------------------------------------------------
(* The world: an editor, a plugin upgrade, doctor --fix. *)
Edit(f) ==
  /\ edits < MaxEdits
  /\ \E c \in Contents \ {disk[f]} : disk' = [disk EXCEPT ![f] = c]
  /\ edits' = edits + 1
  /\ UNCHANGED <<version, manual, store, index, run, plan, work, faults, history>>

Upgrade ==
  /\ run = "idle" /\ manual < MaxManual
  /\ version' = version + 1 /\ manual' = manual + 1
  /\ UNCHANGED <<disk, edits, store, index, run, plan, work, faults, history>>

(* reset_exhausted_redispatch_budget, on a connection of its own. *)
Rearm ==
  /\ tx = db /\ manual < MaxManual
  /\ db' = [db EXCEPT !.attempts =
              [f \in Files |-> IF db.claim[f] \in Transient /\ @[f] >= MaxAttempts
                               THEN 0 ELSE @[f]]]
  /\ tx' = db' /\ manual' = manual + 1
  /\ UNCHANGED <<disk, version, edits, index, run, plan, work, faults, history>>
-----------------------------------------------------------------------------
(***************************************************************************)
(* Deciding what to dispatch.                                              *)
(***************************************************************************)

(* files_needing_resolution_redispatch: degraded and under budget, or never
   covered and without call edges. *)
Forced ==
  {f \in Files : \/ db.claim[f] \in Transient /\ db.attempts[f] < MaxAttempts
                 \/ db.claim[f] = "none" /\ db.rows[f] # None /\ db.calls[f] = None}

SelfInflicted == {f \in Forced : db.claim[f] = "self"}

ContentChanged == {f \in Files : disk[f] # snapshot[f]}

(* What an incremental run leaves alone. *)
WouldSkip ==
  IF marker # version THEN {} ELSE Files \ (ContentChanged \cup Forced)

(* Mutant: The order of the walk, whoever broke the resolver last time. *)
WalkOrder(f, g) == Place[f] < Place[g]

(* The next file: in the order of the walk, except that the files which broke
   the resolver themselves come last (order_self_inflicted_last). *)
Before(f, g) ==
  IF f \in last <=> g \in last THEN Place[f] < Place[g] ELSE g \in last

InHand(f) == f \in todo /\ \A g \in todo \ {f} : Before(f, g)

Begins(kept, self) ==
  /\ run = "idle" /\ run' = "file"
  /\ todo' = Files \ kept /\ skipped' = kept /\ last' = self
  /\ UNCHANGED <<disk, version, edits, store, index, work, faults, history>>

StartRun ==
  /\ Begins(WouldSkip, SelfInflicted)
  /\ changed' = ContentChanged
  /\ UNCHANGED manual

(* --no-incremental: no prior hashes, so every file counts as changed. *)
StartFullRun ==
  /\ manual < MaxManual /\ manual' = manual + 1
  /\ Begins({}, {})
  /\ changed' = Files
-----------------------------------------------------------------------------
(***************************************************************************)
(* One file: the plugin reads it, the host hashes it, the writer gets its  *)
(* rows, the removal of its old edges, its coverage claim, its call edges. *)
(***************************************************************************)
(* A resolver that died may be restarted, or stay dead for the run. *)
Analyze(f) ==
  /\ run = "file" /\ InHand(f) /\ run' = "read"
  /\ reads' = [reads EXCEPT ![f] = disk[f]]
  /\ \/ /\ resolver = "down" /\ answer' = "collateral"
        /\ UNCHANGED resolver
     \/ /\ resolver = "up" /\ <<f, disk[f]>> \in Trouble /\ answer' = "self"
        /\ resolver' \in {"up", "down"}
     \/ /\ resolver = "up" /\ <<f, disk[f]>> \notin Trouble /\ answer' = "complete"
        /\ UNCHANGED resolver
  /\ UNCHANGED <<outside, store, index, plan, hashes, faults, history>>

(* core_file_entity_record hashes the file again, then InsertEntity. *)
Rows(f) ==
  /\ run = "read" /\ InHand(f) /\ run' = "rows"
  /\ hashes' = [hashes EXCEPT ![f] = disk[f]]
  /\ tx' = [tx EXCEPT !.rows[f] = reads[f], !.by[f] = version]
  /\ unvouched' = unvouched \cup {f}
  /\ raced' = IF reads[f] = disk[f] THEN raced \ {f} ELSE raced \cup {f}
  /\ UNCHANGED <<outside, db, index, plan, reads, answer, resolver, faults>>

(* Mutant: The coverage row is nulled together with the evidence. *)
NullsClaim(f) ==
  /\ run = "rows" /\ InHand(f) /\ run' = "wiped"
  /\ tx' = [tx EXCEPT !.calls[f] = None, !.imports[f] = None, !.claim[f] = None]
  /\ UNCHANGED <<outside, db, index, plan, work, faults, history>>

Wipe(f) ==
  /\ run = "rows" /\ InHand(f) /\ run' = "wiped"
  /\ tx' = [tx EXCEPT !.calls[f] = None, !.imports[f] = None]
  /\ UNCHANGED <<outside, db, index, plan, work, faults, history>>

(* upsert_source_file_resolution_coverage: a collateral claim on unchanged
   bytes does not clear a file that broke the resolver itself. *)
Upsert(f) ==
  /\ run = "wiped" /\ InHand(f) /\ run' = "claimed"
  /\ tx' = [tx EXCEPT
       !.attempts[f] = IF {answer, tx.claim[f]} \subseteq Transient THEN @ + 1 ELSE 0,
       !.claim[f] = IF answer = "collateral" /\ @ = "self" /\ f \notin changed
                    THEN "self" ELSE answer]
  /\ UNCHANGED <<outside, db, index, plan, work, faults, history>>

Calls(f) ==
  /\ run = "claimed" /\ InHand(f) /\ run' = "file"
  /\ tx' = IF answer = "complete" THEN [tx EXCEPT !.calls[f] = reads[f]] ELSE tx
  /\ todo' = todo \ {f}
  /\ UNCHANGED <<outside, db, index, last, skipped, changed, work, faults, history>>

(* The watchdog kills the plugin over one file: the file is passed over and a
   fresh plugin goes on. *)
PassOver(f) ==
  /\ run = "file" /\ InHand(f) /\ faults < MaxFaults
  /\ todo' = todo \ {f} /\ resolver' = "up" /\ faults' = faults + 1
  /\ UNCHANGED <<outside, store, index, run, last, skipped, changed, reads, hashes, answer, history>>
-----------------------------------------------------------------------------
(***************************************************************************)
(* The end of the run.                                                     *)
(***************************************************************************)
Handled == {f \in Files : hashes[f] # None}

(* DeferredImportEdges, the plugin's last message. *)
Deferred ==
  /\ run = "file" /\ todo = {} /\ run' = "walked"
  /\ tx' = [tx EXCEPT !.imports = [f \in Files |-> IF f \in Handled THEN reads[f] ELSE @[f]]]
  /\ UNCHANGED <<outside, db, index, plan, work, faults, history>>

(* The writer commits a full batch and opens the next. *)
Boundary ==
  /\ run \in Running /\ db # tx
  /\ db' = tx
  /\ UNCHANGED <<outside, tx, index, run, plan, work, faults, history>>

Complete ==
  /\ run = "walked" /\ run' = "completed"
  /\ db' = tx
  /\ UNCHANGED <<outside, tx, index, plan, work, faults, history>>

Over ==
  /\ run' = "idle" /\ todo' = {} /\ last' = {} /\ skipped' = {} /\ changed' = {}
  /\ reads' = Nothing /\ hashes' = Nothing /\ answer' = "none" /\ resolver' = "up"

(* Mutant: A file the run passed over keeps its old snapshot entry. *)
KeepsPassedOver ==
  /\ run = "completed" /\ Over
  /\ snapshot' = [f \in Files |-> IF f \in Handled THEN hashes[f] ELSE snapshot[f]]
  /\ marker' = version
  /\ unvouched' = unvouched \ Handled
  /\ UNCHANGED <<outside, store, faults, raced>>

(* Mutant: The snapshot is rebuilt without the files the run left alone. *)
BlanksSkipped ==
  /\ run = "completed" /\ Over
  /\ snapshot' = hashes
  /\ marker' = version
  /\ unvouched' = unvouched \ Handled
  /\ UNCHANGED <<outside, store, faults, raced>>

(* replace_prior_index_and_markers: one transaction, after the run committed. *)
Flush ==
  /\ run = "completed" /\ Over
  /\ snapshot' = [f \in Files |-> IF f \in skipped THEN snapshot[f] ELSE hashes[f]]
  /\ marker' = version
  /\ unvouched' = unvouched \ Handled
  /\ UNCHANGED <<outside, store, faults, raced>>

Fault == faults < MaxFaults /\ faults' = faults + 1

(* The flush fails and is swallowed, or the process dies before it. *)
FlushFails ==
  /\ run = "completed" /\ Over /\ Fault
  /\ UNCHANGED <<outside, store, index, history>>

(* The plugin dies over a file: SoftFailed commits what was written. *)
SoftFail ==
  /\ run = "file" /\ todo # {} /\ Over /\ Fault
  /\ db' = tx
  /\ UNCHANGED <<outside, tx, index, history>>

(* The process is killed, or the writer refuses a command: HardFailed. *)
Abort ==
  /\ run \in Running /\ Over /\ Fault
  /\ tx' = db
  /\ UNCHANGED <<outside, db, index, history>>
-----------------------------------------------------------------------------
FileStep == \E f \in Files :
  Analyze(f) \/ Rows(f) \/ Wipe(f) \/ Upsert(f) \/ Calls(f)

Outcome == Deferred \/ Complete \/ Flush

World == (\E f \in Files : Edit(f)) \/ Upgrade \/ Rearm

Failure == (\E f \in Files : PassOver(f)) \/ FlushFails \/ SoftFail \/ Abort

Next == World \/ StartRun \/ StartFullRun \/ FileStep \/ Boundary \/ Outcome \/ Failure

Spec == Init /\ [][Next]_vars

(* Somebody goes on starting runs, and a run left alone comes to its end. *)
FairSpec == Spec /\ WF_vars(StartRun) /\ WF_vars(FileStep) /\ WF_vars(Outcome)
-----------------------------------------------------------------------------
(***************************************************************************)
(* Properties.                                                             *)
(***************************************************************************)

(* The snapshot tells the truth.  For a file it records, unless a run has
   written the file since without reaching its flush, or the file was edited
   between the plugin's read and the host's hash, the committed rows and
   imports are those of the recorded bytes under the recorded contract, and
   a claim of complete coverage has its call edges.  It is what makes
   skipping a byte-identical file sound. *)
SnapshotVouches ==
  \A f \in Files \ (unvouched \cup raced) :
    snapshot[f] # None =>
      /\ db.rows[f] = snapshot[f] /\ db.imports[f] = snapshot[f]
      /\ db.by[f] = marker
      /\ db.claim[f] = "complete" => db.calls[f] = snapshot[f]

(* Once edits, faults and interventions stop, runs stop dispatching: a file
   that breaks the resolver every time, a file analyzed under an older
   contract, a file a kill left half written are all settled in finitely
   many runs. *)
FixedPoint == <>[](todo = {})

(* As long as nothing fails, a file that is itself harmless gets its call
   edges in the end, whatever sits before it in the walk, is edited, upgraded
   or forced in between: the order and the budget see to it.  A file edited
   between the plugin's read and the host's hash has to wait for an edit. *)
Heals ==
  [](faults = 0) =>
    \A f \in Files : (\A c \in Contents : <<f, c>> \notin Trouble) =>
      <>[](db.calls[f] = disk[f] \/ f \in raced)

(* What the code says of the skip and of the claim: the skip does not take the
   snapshot for the stored graph after a failed run, and the claim lands with
   the evidence it qualifies.  So a file the next run would skip is stored as
   it is on disk (races of an edit with the hash aside), and one that claims
   complete coverage has its call edges. *)
SkipsOnlyWhatIsStored ==
  run = "idle" =>
    \A f \in WouldSkip \ raced :
      /\ db.rows[f] = disk[f]
      /\ db.claim[f] = "complete" => db.calls[f] # None
=============================================================================
