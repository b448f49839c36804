# Formal models of Loomweave

Loomweave indexes a source tree into one SQLite file per project: entities, edges,
findings, stable identities. `loomweave analyze` fills the file, `loomweave serve`
answers from it over MCP and HTTP, and small hooks keep it fresh. This directory
holds TLA+ models of the parts whose correctness depends on the order in which
things happen, the TLC configurations that check them, and proofs that TLAPS checks.

| module | models | proofs |
|---|---|---|
| `WriterActor`, with `DualEncoding` and `RunLedger` | the writer of a run, its batches, the row of `runs` | `WriterActor_proofs` |
| `RefreshCycle`, with `RequestSlot` | hooks, the analyze lock, the queued-refresh marker, the freshness oracle | `RefreshCycle_proofs` |
| `IncrementalIndex` | what a run dispatches, what it writes per file, the prior-index snapshot | `IncrementalIndex_proofs` |
| `StableIdentity` | the pass that carries, mints and orphans identities after a run | `StableIdentity_proofs` |
| `PluginSupervision` | the plugin loop, its child processes and their watchdogs | `PluginSupervision_proofs` |
| `SupervisedRuns` | runs started, watched and cancelled over MCP | `SupervisedRuns_proofs` |
| `InferredDispatch` | requests that need a language model: cache, coalescing, token ledger | `InferredDispatch_proofs` |
| `FindingSweep` | how findings are reported, kept and retired over runs | `FindingSweep_proofs` |

`MC*.tla` give the constants their values for TLC. `PROJECT.json` maps every
definition to the lines it models and lists runs, mutants, findings, hazards and
theorems. A definition marked `mutant` in its comment is a plausible bug, kept next
to the definition it would replace; every property a passing run checks is violated by
one of them.

To repeat the checks: `tlc -config WriterActor_ledger.cfg MCWriterActor` and so on
for each `.cfg`; `tlapm WriterActor_proofs.tla` and so on for each `*_proofs.tla`.

## 1. Inventory of the system

Paths are below `src/crates/`.

**Writer actor and run ledger** (`loomweave-storage/src/writer.rs`, `runs.rs`,
`commands.rs`; `loomweave-cli/src/run_lifecycle.rs`). *State*: one connection, the
open batch transaction (`in_tx`, `writes_in_batch`), `current_run`, the `runs` table.
*Operations*: BeginRun, ResumeRun, the insert and replace commands, FlushRunBatch,
CommitRun, FailRun, the cleanup when the channel closes, the start-up sweep of old
`running` rows. *Used by* the analyze process through a channel, one command at a
time. *Hard*: every command can fail between two statements; `in_tx` is cleared
before the COMMIT it announces; a batch is durable in mid-run; the process can die
anywhere. *Correct when*: actor and SQLite agree about the transaction, a `completed`
row stands for a consistent graph that holds every acknowledged write, every row is
settled once, and only a fault leaves one running.

**Refresh cycle** (`loomweave-cli/src/analyze_lock.rs`, `hook.rs`, the drain in
`analyze.rs`; `loomweave-mcp/src/index_diff.rs`). *State*: an advisory file lock, a
marker file, the latest completed run, the mtimes of the tree. *Operations*: probe,
spawn, request, acquire or bail, take the marker, drain. *Hard*: unrelated processes
race over two files, the probe holds the lock itself, errors skip the drain, freshness
is inferred from clocks. *Correct when*: no request is lost, a lost race is harmless,
the index converges, and `fresh` means fresh.

**Incremental index and resolution coverage** (`analyze.rs` partition, plugin loop
and flush; `loomweave-storage/src/prior_index.rs`, `resolution_coverage.rs`). *State*:
per-file hashes of the last completed run, plugin contract markers, coverage claims
with a re-dispatch budget. *Hard*: what is skipped is decided from the snapshot while
rows are written batch by batch; runs die half way; files break the resolver for the
files behind them; files change under the run. *Correct when*: the snapshot
describes what is stored, runs reach a fixed point, harmless files heal.

**Stable identity** (`loomweave-storage/src/sei.rs`, `sei_git.rs`, the pass in
`analyze.rs`). *State*: `sei_bindings`, `sei_lineage`. *Operations*: match, mint,
orphan, append lineage. *Hard*: decisions first, then many autocommitted writes under
a unique index; the pass may die, be skipped, or follow one that died; files may be
skipped or passed over; a run id may be used twice. *Correct when*: identities are
carried only on proof, present entities keep theirs, the lineage log agrees.

**Supervised runs over MCP** (`loomweave-mcp/src/analyze_runs.rs`,
`tools/analyze.rs`). *State*: a registry of child processes in memory. *Operations*:
start, status, cancel, all of which may overlap, since each tool call is a task of
its own. *Hard*: cancel kills in one step and updates the row in another; the child
may have settled its row, or be draining a follow-up under an id nobody was told;
children outlive a restart of `serve`. *Correct when*: at most one live child per
server, the answer that a run is over is final and true, no row is left running.

**Finding life cycle** (`loomweave-storage/src/findings.rs`, the emission in
`analyze.rs`, `loomweave-federation/src/scan_results.rs`). *State*: findings keyed by
content with a run id. *Hard*: the sweep retires by run id and must stay away after
any run that did not look at everything; emission is one-way and best effort.
*Correct when*: nothing that still holds is retired and what vanished is, in the end.

**Plugin host** (`loomweave-core/src/plugin/host.rs`, `breaker.rs`, `limits.rs`,
`process_tree.rs`, `transport.rs`, and the per-file loop of `analyze.rs`). *State*: a
subprocess, a watchdog thread with a deadline and a latch, a rolling window of crashes,
respawn counts. *Operations*: spawn, handshake, one exchange per file, kill, respawn,
shutdown, reap, classify. *Hard*: the watchdog races the answer it guards, and acts in
three steps under two locks; a kill that was ours must not read as a crash. *Correct
when*: a slow file costs itself only, no child is left, and the run ends.

**Summary and inferred-edge cache** (`loomweave-storage/src/cache.rs`,
`loomweave-mcp/src/tools/summary.rs`, `loomweave-llm`). *State*: cache rows by content
hash, in-flight dispatches, a ledger of tokens, the writer's queue. *Operations*: hit,
lead, follow, reserve, ask, book, store; a request may be dropped at any await.
*Hard*: coalescing of concurrent misses, reservations of requests that are cancelled, a
source that changes between reading, prompting and storing. *Correct when*: one payer
per content, a ledger that adds up, a cache that is about its key, no follower left
waiting.

**Worktree stores** (`loomweave-cli/src/worktree/`, `loomweave-mcp/src/worktree_bootstrap.rs`).
*State*: an isolated store per linked worktree. *Hard*: creation, rebuild and removal
against a concurrent analyze and a waiting `serve`.

**The rest** is listed in `PROJECT.json` with the reason it is not modelled: the read
tools of MCP and HTTP (queries on committed snapshots), Wardline facts (one upsert
transaction), plugin discovery and the language plugins (parsing), the secret
scanner (pattern matching), guidance sheets, installation and configuration, doctor,
federation clients, schema, classifier coverage and reports.

**How the parts meet.** Everything durable goes through SQLite, and every writer of
a run through the writer actor, under the analyze lock. So `RefreshCycle` treats a
run as *read, then complete*; `IncrementalIndex` opens that box per file and keeps of
the writer only that a batch may become durable at any moment and that a failed run
loses what is not; `WriterActor` is about just that boundary; `StableIdentity` is the
stage between CommitRun and the flush of the snapshot that `IncrementalIndex` takes
in one step. `PluginSupervision` is what happens to the files that `IncrementalIndex`
dispatches and explains its inputs *passed over* and *soft failure*; `FindingSweep` follows
findings over many such runs; `SupervisedRuns` starts and kills whole runs and takes the
lock and the marker of `RefreshCycle`; `InferredDispatch` lives in `serve`, on a writer that
has no run open, and meets runs only through the rows and call edges they replace.

## 2. Plan

In this order, the most important behaviour first.

1. `WriterActor`, over `DualEncoding`, refining the abstract `RunLedger`. Done.
2. `RefreshCycle`. Done.
3. `IncrementalIndex`. Done.
4. `StableIdentity`. Done.
5. `PluginSupervision`: watchdog against answer, respawn budget, crash-loop breaker. Done.
6. `SupervisedRuns`: the registry, overlapping calls, the stages of a child, restarts. Done.
7. `InferredDispatch`: the caches, the coalescing and the budget of `serve`. Done.
8. `FindingSweep`: upsert by content, the three sweeps and their gates. Done.
9. Next, in this order: emission to Filigree with `mark_unseen` and the prune (an
   extension of `FindingSweep`); worktree stores against analyze and serve; the no-indexed-
   changes fast path in `IncrementalIndex` and staged edits in `RefreshCycle`; the writer's
   anchored-edge replacement and its query-time reopen.
10. Theorems about the safety core of the liveness properties (nobody is stuck, every
   measure falls), and `RefreshCycle` as an implementation of an abstract request slot.
   Done: section 6.
11. Further theorems: `StableIdentity` as an implementation of a registry of identities that
   knows no pass, `PluginSupervision` as one of a loop without clocks, `SupervisedRuns` as one
   of `RunLedger`, and the number of times a file is dispatched again while its bytes stand.

## 3. The models and the code

### WriterActor

The analyze process sends one command and waits for its reply, so one command is one
step, and `pc` is where the process is. `disk` is what another connection reads, `view`
what the writer's own connection reads, `sqlTx` SQLite's transaction and `inTx` the
actor's belief in one. The graph is a child with candidate parents stored twice, as
`parent_id` and as a `contains` edge (`DualEncoding`): the smallest data on which the
parent check can fail. Subsystem rows stand for all writes the check does not cover.

`InsertEntity`, `InsertEdge` and `ReconcileSubsystemGraph` are write handlers with
their batch boundary (`Bump`, `CloseBatch`) and every way to fail (`WriteFails`).
`CloseBatch` follows the code's order, belief first, then heartbeat, COMMIT and BEGIN
IMMEDIATE, and names its four endings. `FlushRunBatch` serves two callers that treat
its error differently: phase 3 fails the run, the emission ignores it. `CommitRun` has
the code's three branches and its failures; the branch without a batch
(`CommitRowAlone`) is reached only when the emission's flush failed. `FailRun`,
`CloseChannel` and `Crash` end a process; `Start` begins one, with the sweep of rows
older than a day as a nondeterministic subset of those that read `running`.

`faulted` and `acked` are history: runs whose process or row update was lost, and the
graph the acknowledged writes amount to.

`RunLedger` is what other processes may rely on, stated over the database file alone:
rows open, settle and are swept; the graph changes while a run is open or as it
closes; `completed` is reached only over a consistent graph.

### RefreshCycle

The tree is one file whose contents are numbered in the order they were written; the
number is also the clock behind mtimes and `completed_at`. `holder` is the advisory
lock, `marker` the pending file. A process goes through lock or bail, take the marker,
read HEAD, read the tree, complete, unlock, drain; a hook through the freshness
verdict, the probe (which holds the lock), dropping it, and spawning, or requesting
some time after it saw the lock held. Each file-system call is one step. `Die` is an
error return or a kill, at any stage: both release the lock and skip the drain. Errors the
code swallows are faults of their own: a hook whose probe or whose resolution of the worktree
fails spawns blindly, over a held lock and without a marker (`SpawnAnyway`), as it did before
there were probes; a request, a spawn, or the hook itself may fail (`RequestFails`,
`SpawnFails`, `HookFails`); and a run that cannot remove the marker goes on (`MarkerStays`).
`HarmlessRace` is about children started behind a probe: of one started blindly, or by hand,
nothing is promised when it loses the race, except that the index converges all the same. `owed` and `served`
are history: the newest content a queued request was made for and the newest read.

Left out: staged changes as a freshness signal (a staged edit is drift that no analyze
clears), the fast path for a commit that changes no indexed file (with one file there
is no such commit), and files no index knows.

`RequestSlot` is what whoever asks for a refresh may rely on, without processes, locks or
hooks: one slot that all requests share and one reader at a time, who empties it before
it reads and so reads something at least as new as it was asked for, or fails and
forfeits the request. The refinement maps the marker to the slot and the owner of the lock, from
taking the marker to reading the tree, to the reader.

### IncrementalIndex

One plugin's files. `Forced`, `ContentChanged` and `WouldSkip` are the partition,
`Before` the walk order with the files that broke the resolver themselves last.
`Analyze`, `Rows`, `Wipe`, `Upsert`, `Calls` are the commands for one file, `Deferred`
the import edges that come after the last one. `Boundary` commits the batch at any
point, which covers every batch size; `Complete` and `Flush` are CommitRun and
`replace_prior_index_and_markers`. Failures: a file passed over by the watchdog, a
plugin crash that commits what it has, a kill or refused command that does not, a
flush that fails. `Edit` may fall between any two steps. The host queues commands
ahead of the writer; as the plugin only reads the tree and the writer only the queue,
the two commute and are one step here.

History: `unvouched`, files written since the snapshot last recorded them; `raced`,
files edited between the plugin's read and the host's hash of them, where the code
records a hash of bytes it did not analyze.

Left out: a plugin upgrade during a run, call edges that wait for a later file, several
plugins, pruning of vanished files, unreadable files, files degraded for good.

### StableIdentity

One entity per file, so a locator stands for both. A run commits (`CommitRun`: what is
skipped, analyzed, passed over), decides everything (`BeginPass`), then writes one
command at a time: `Orphan` or `Upsert`, each followed by `AppendLineage`, and at last
`Flush`. Which lineage event an upsert will append is decided with the rest: `silent` are the
carries that had none to append when they were decided. Renames reported by git or legis are
hints: the model chooses any, or none, which covers lost evidence. Edits fall between runs; a
run reads the tree once, so an edit during it is one after it. `ResumeRun` reuses an id and
may mint a token that has a row already.

History: `loose`, locators whose entity has no identity because a pass failed, was
skipped or died; `torn`, SEIs whose lineage event went down with a pass; `reused`,
tokens minted twice, which takes a `--resume` over a changed tree, against its
documentation (`cli.rs`: the corpus is assumed unchanged).

Left out: subsystem descriptors, locator collisions, the findings about deletions,
resolution over HTTP, and `entities.signature`, which the matcher never reads.

### PluginSupervision

One plugin after another has its turn; `pc` is where its host thread is, `proc` holds every
child spawned in this turn together with that child's watchdog. The host arms the watchdog,
blocks on the pipe and disarms (`Dispatch`, `Answer`, `FileError`). The watchdog's `Expire`,
`Record` and `Strike` are three steps because the code holds the deadline's mutex in
the first and the latch's in the second only, and kills under neither: so an answer can
be taken from a child that dies a moment later. `Judge` is the match on the error of
`analyze_file`; `Replace` waits for the killed child after the fresh one has shaken hands.
`CloseGood`, `CloseBad`, `Verdict` and `Reap` are the end of `run_plugin_blocking`;
`PluginDone`, `PluginCrashed` and `WriterRefused` the arms of the caller, with the breaker's
window as a choice of how many earlier crashes it still counts. `Panic` is the task unwinding
at any stage: the join reports a crash, its findings are lost, and its child and watchdog go
on with nobody to stop, kill or wait for them. The model follows such a child to the end of
the turn and no further (`panicked`).

A child answers, refuses, breaches a limit or dies when it likes. Time is left out: a
deadline may go off at any moment while it is armed, which covers every length. Left
out: what is in an answer (validation makes it an accepted batch or an error), the
findings about single entities, stderr, and memory limits set in the child.

### SupervisedRuns

`proc[r]` is the child that was started for run `r`, and `works` the row it is at, which
differs from `r` once it drains a follow-up. A child goes through lock or bail, row,
settle, passes, unlock, drain; each step may be its last. A tool call is two steps: what
it does under the registry's mutex (`AnalyzeStart`, `AnalyzeStatus`, `CancelKills`) and what
it does to the row after giving it up (`ReadRunRow`, `MarkRunCancelled`); between them
anything may happen. `Flags` and `Kept` are `reap_terminal_runs`: a start forgets every
handle whose child is gone, and with it the mark that it was cancelled.

Follow-ups have run ids of their own (`Runs \ Asked`), so that it is the limit on follow-ups,
not a lack of ids, that ends a child. History: `answers`, what clients were told of each run
that was over; `excused`, the runs whose answers may change, with one reason per disjunct
that adds to it; `stray`, rows that lost their process. Left out: the progress file, answers that only report a database
error, and runs skipped for want of plugins, which count as completed.

### InferredDispatch

Concurrent requests about one entity. Model, prompt version and guidance are fixed, so
the key of a cache is a content; what an answer says is abstracted to the content the
model was shown, and a true answer is one filed under that content. `disk` is the source,
`stored` what the entity's row was analyzed from. A request reads its inputs (`Hit`,
`Miss`), leads or follows (`Lead`, `Follow`), reads the source again and compares its hash
(`Drifted`, `Reserve`), asks (`Answers`, `ProviderFails`, `Overspends`), and sends a command to
the writer (`Write`, `WriteFails`, one of whose failures leaves a part of the insert).
`Cancel` drops the request at any await: the guards it held give the reservation back and
leave a task behind that takes the entry out of the registry (`abandoned`, `CleanUp`).

`Unchecked` are the excerpts for which the code has no hash to compare: of a file that is no
longer text the prompt shows nothing, of one that no longer reaches to the entity's lines the
whole file. A file that is gone is an error. `CacheTellsTruth` allows for them, see section 5.

Left out: guidance and staleness flags, the cost report, embeddings, and the choice among
several callers of one target.

### FindingSweep

A finding is a file and the family of its rule; its row's run id is abstracted to whether
it is that of the latest run, which is all the sweeps compare. `Begin` is the part of a
run up to the opened row: walk, secret scan, partition. A file may leave the walk and come
back (`Leave`, `Return`): deleted, renamed, ignored or replaced by a link, none of which the
walk counts. `Look` is the plugin's read of a file and its answer, `Persist` the host's hash of
it and the batch; an edit in between is `late`, and the snapshot's entry of the file then
`raced`, for it vouches for bytes nobody looked at; `SkipForgetsNothing` leaves such entries
out. `PassOver` gives a file up, `Withhold` takes it out of the scope of the syntax sweep.
`Report` upserts what was found, `Commit` completes the run and flushes the prior index,
and `SweepAll`, `SweepSecrets` and `SweepSyntax` follow with the gates of the code. A run may
fail, be killed, or have a sweep fail, after any of these.

Outside a run files are edited, plugins removed, broken and put back, and rows owned:
acknowledged, suppressed or linked to an issue. Left out: emission to Filigree and
`mark_unseen`, the findings that the passes after the commit add, findings anchored on
the project, the merge of lifecycles, forced re-dispatch, and files several plugins claim.

## 4. The runs

| run | configuration | question | states |
|---|---|---|---|
| `writer_ledger` | 2 runs, 1 child, 2 parents, batch of 2, 3 writes, 2 processes, no emission or clustering too | does the writer keep the ledger's promises through every failure, and does every process settle its row? | 271k |
| `writer_swallowed_flush` | emission without clustering | finding | |
| `refresh_converges` | 2 processes, 2 hooks, 2 follow-ups, 1 edit, 1 fault, 1 overlap of hooks | are requests kept, races harmless, and does the index converge? | 322k |
| `refresh_fresh` | the same | finding | |
| `index_safe` | 2 files, one of which breaks the resolver, 2 contents, budget of 3, 1 edit, 1 fault, 1 intervention | does the snapshot tell the truth, do runs come to rest, does the harmless file heal? | 455k |
| `index_skips` | the same with 2 edits | finding | |
| `sei_pass` | 3 locators, 2 bodies of which 1 is signed, 2 run ids, 2 edits, 1 hint, 1 fault | are identities carried only on proof, kept, and logged, over passes that die? | 385k |
| `sei_passed` | the same, no edits | finding | |
| `plugin_loop` | 3 plugins of 3 files, 2 respawns, a breaker that trips at the second crash | are children buried, files accounted for, kills told from crashes, and does the loop end? | 145k |
| `supervised_runs` | 2 run ids for starts, 2 for follow-ups, 2 calls at a time, 1 follow-up each, 2 faults | do answers and rows stand, and do children end? | 313k |
| `inferred_dispatch` | 3 requests, 1 for a summary, 2 contents, 2 unchecked excerpts, usage of 1 or 3 under a ceiling of 4, 1 edit, 1 fault | one payer, a sound ledger, a true cache, no follower forgotten? | 127k |
| `finding_sweep` | 1 source file, 1 `.env` file, 3 findings, 2 changes, 2 faults | is nothing retired blindly, and what is gone retired in the end? | 673k |

Some systems come to rest, and their runs switch the deadlock check off: nobody has to
start another process (`writer_ledger`, `writer_swallowed_flush`), use up another run id
(`supervised_runs`) or send another request (`inferred_dispatch`), and a loop that is done
stays so (`plugin_loop`). The other systems never stop.

**Why these bounds are enough.** *Writer*: two parents are needed for two encodings to
disagree, three writes with a batch of two to have a durable batch and an open one;
the second process sees what the first one's crash left, and two run ids tell
resuming from starting. *Refresh*: a lost race takes two processes, and a
third party (the second hook) that takes the lock in the gap; the one edit can fall
anywhere. *Index*: one file in trouble and one behind it; a content that changes and
changes back needs two contents; a budget of three lets a file be blamed, tried again
and given up, and is more than the one troublemaker. *Identity*: a move takes two
locators, an ambiguity or a theft a third; two
indistinguishable bodies and one unsigned are the matcher's cases; two edits make a
rename together with a change; one fault leaves one pass half done for the next.
*Plugins*: a plugin survives two kills and meets a third; with the second crash the
breaker trips, so the third plugin may be left out or not. *Supervised runs*: two starts,
whose children overlap when the server is restarted, and two ids for follow-ups: a child that
has drained the one it may still finds a refresh queued and an id to go on with; two calls
overlap; two faults restart the server and lose a child or a write. *Dispatch*: a leader, a follower and a summary
that competes for the ledger; the ceiling holds two reservations, or one dear call; one
edit separates reading, prompting and storing. *Findings*: each family and each kind of
file occurs; rows meet one another only through the gates, which the `.env` file and the
source file can each hold open or closed; two changes are an edit that races a read and the
removal of the file, two faults a lost flush and a failed or passed-over run after it; `Begin` is chosen
among eight combinations of options every time.

**Fairness.** `WriterActor`: weak fairness of the living process's own steps: it waits
for nothing but the actor's reply, and the actor always replies. No fairness for
crashes or for starting. `RefreshCycle`: weak fairness of each process and each hook,
so hooks keep being fired at a stale index (they run at every session start and after
git operations), and strong fairness of taking the lock, which is contended only by
probes that hold it for two system calls. `IncrementalIndex`: weak fairness of starting
incremental runs that walk the tree and of finishing them; a run answered by the
no-indexed-changes fast path does not walk and is not counted. `StableIdentity` has no
liveness property: nothing promises that a later run repairs a failed pass.
`PluginSupervision`: weak fairness of the host thread where it waits for nobody or for a
child that is dead (the pipe breaks), and of each watchdog; none for plugins, which may
be silent for ever. `SupervisedRuns`: weak fairness of children that run; none for
clients or hooks. `InferredDispatch`: weak fairness of the request's own steps, of the
provider and writer, which answer or fail, and of spawned tasks; none for giving up.
`FindingSweep`: weak fairness of a run's steps, and strong fairness of starting one with
`--no-incremental`: that somebody does so now and then is the premise the code states
("findings linger until the next clean full analyze").

**What the runs show.** A process can crash at any command, any statement can fail and
runs can be resumed, and still: actor and SQLite agree whenever the process writes
(`WorkingHoldsTx`), rows are stranded only by faults (`StrandedOnlyByFault`), settled rows
stay settled (`TerminalRowsAreFinal`), a completed run is consistent
(`CompletedIsConsistent`) and whole (`CompletedKeepsAckedWrites`), and the writer
implements the ledger (`RefinesLedger`). A started process ends settled
(`EveryRunSettles`). `CompletedKeepsAckedWrites` is about runs without emission: with
it, a run can complete after its last batch was rolled back by a failed flush.

A queued request stands until content as new as it is read (`RequestNotForgotten`); a
child started behind a probe loses the lock only to somebody who makes it superfluous
(`HarmlessRace`); in the
end the oracle says fresh (`Converges`), which is about the verdict, not about the
content: see `refresh_fresh`.

The snapshot tells the truth about every file no unfinished run or racing edit has
touched (`SnapshotVouches`); dispatching stops (`FixedPoint`); a harmless file behind
troublemakers gets its call edges as long as they are fewer than the budget, nothing fails,
and no edit fell between its read and its hash (`Heals`).

No write of any pass meets the unique index on alive locators
(`UpsertNeverCollides`); what the snapshot can skip is bound (`RetainedIsBound`); the
lineage log agrees but for tokens minted twice (`LineageAgrees`); an identity moves only to the same body from a
free locator (`CarriedOnlyOnProof`), and entities of files the run saw keep theirs
(`SeenKeepsIdentity`).

Every child is waited for, the replaced one and the one that never shook hands included,
unless the task that runs it panics (`NoChildLeft`); in the work of a plugin that counts, no file is lost or taken twice, not even
when the kill lands after the answer (`FilesAccounted`); a shutdown that is cut short changes
no verdict (`ShutdownIsEtiquette`); and the loop ends although no plugin ever has to answer
(`LoopEnds`), which holds only because each exchange is armed.

Through overlapping calls and restarts a run that is over is spoken of in one way
(`AnswersStand`), with the exceptions in `excused`; rows settle once (`SettledRowsStand`) and are
stranded only as `stray` says (`StrandedOnlyByKill`); and refresh requests without end keep no
child alive (`ChildrenEnd`), which is what the limit on follow-ups is for.

The ledger of `serve` adds up after every cancellation, refusal and failure (`LedgerAddsUp`);
no two requests pay for the edges of one content at once, and who waits for them waits for the
one that pays (`SoleDispatcher`); no answer is filed under another content than it is about,
though edits and analyses fall between any two steps, unless the prompt had no hash to be
checked by (`CacheTellsTruth`); and the followers of a leader that is dropped are told
(`WaitersAreHeard`).

A finding is deleted by a run that looked for it, or one that overlooked its file in one of
three ways no gate knows, of which the first is that the file has left the tree
(`RetiredOnlyIfLooked`, `Overlooked`); one that no longer holds, or whose file has left, is
gone in the end (`GhostsGo`), whatever failed, was skipped or resumed in between.

## 5. Where the code and its words part

Each is a run that TLC must find violated; `PROJECT.json` quotes the lines.

- `writer_swallowed_flush`: with clustering off and emission on, a parent mismatch found
  by the emission's flush rolls the batch back, is logged, and the run completes over
  the batches committed before.
- `refresh_fresh`: `completed_at` is taken after the tree is read, so a save in between
  is never seen as drift: the oracle says fresh of an index that is not.
- `index_skips`: a failed run leaves rows of new bytes under an old snapshot; when the
  bytes come back the file is skipped, though the store holds the other content. And a
  coverage claim can be committed in an earlier batch than the call edges it vouches for:
  after a kill in between the file claims completeness, has no edges and is skipped.
- `sei_passed`: a file the watchdog passed over is in neither the analyzed nor the
  retained locators, so its entities count as vanished: they are orphaned, or their
  identity goes to a new entity with the same body.

The following were met while modelling. They have no run of their own; where a model
covers them, a history variable or a disjunct of a property sets them apart.

- *Plugins.* After a failed loop the host kills the child itself and then classifies the
  signal as a kill by the kernel (`analyze.rs:6896`, `6953`): the model's `"oom"` is told of
  children the host killed. The cap on reported items is called run-wide (`limits.rs:125`,
  `host.rs:20`) and starts anew with each host that is spawned. A plugin that survived a
  timeout and crashes later has its crash finding suppressed (`analyze.rs:1742`), as if the
  timeout had been the cause. "No kill-after-disarm" (`analyze.rs:6303`) is true of the
  deadline only: a watchdog that has cleared it kills after the host has disarmed. "Regardless
  of success or failure the child process is always reaped" (`analyze.rs:6541`) is not true of
  a panic of the blocking task, which is recorded as a crash (`analyze.rs:1654`): the child is
  neither killed nor waited for, its watchdog polls on, and timeout findings are lost (`Panic`).
- *Refresh.* A hook whose probe fails spawns all the same (`hook.rs:88`), and its child may lose
  the lock to a run that read the tree before the change, with no marker left to say so:
  what the marker was introduced against. The next hook finds the index stale (`Converges`).
- *Identities.* After a `--resume` over a changed tree a pass can mint at its old place a token
  that has since moved on (appending a birth there) and then carry it to where it had been
  decided to be, without an event, as the decision was that it had not moved. The log then
  ends at one place and the binding at the other: `LineageAgrees` is not true of such tokens
  (`reused`), whatever the documentation of tokens says of their being collision-free
  (`sei.rs:43`).
- *Supervised runs.* A cancel that meets a child whose row has settled answers `cancelled`
  and leaves the row as it is, so a later status may say `completed`; one that meets a
  follow-up leaves that row running and its request unserved (`excused`, `stray`).
- *Dispatch.* A request that read its inputs before the leader finished, and joins after,
  leads again and pays a second time: coalescing (ADR-028) is of dispatches that overlap.
  Where there is nothing to hash, nothing is compared (`lib.rs:6190`), and the answer is cached
  under the entity's key although it is about an empty prompt or, where the file has become too
  short for the entity's lines, about the whole of it (`unwrap_or`, `lib.rs:6205`; `Unchecked`). Tokens of a call that is cancelled or whose usage does not fit
  are never booked. A late answer re-inserts inferred edges under the hash of content
  that has been analyzed away since. The waiter for a cancellation looks at the flag
  before it registers (`lib.rs:1828`), so a cancel in between is heard late or not at all.
- *Findings.* A clean full pass retires findings of files it did not look at: those that have left
  the tree, as it should (`findings.rs:8`), but also those newly ignored or replaced by a link,
  those the watchdog gave up in it and those whose plugin has been uninstalled
  (`Overlooked`), although `findings.rs:24` and `analyze.rs:2351` speak of files the run walked. The `mark_unseen` sent to Filigree
  (`analyze.rs:2005`) has neither the gate for walk errors nor the one for sidecars.
  A crash between the flush of the snapshot and the sweeps leaves a fixed file's syntax
  finding until a full pass, as later runs skip the file (`GhostsGo` has its premise for this).
  And a clean full pass that overlooks a file, and whose flush fails (`analyze.rs:2192`, logged and
  swallowed) before it sweeps all the same, deletes findings of a file that the old snapshot
  still lets later runs skip: they stay away until the file is edited or a full pass reads it.
  The comment at `analyze.rs:2184` has only an absent snapshot in mind. `SkipForgetsNothing` proves
  that only such a sweep does it, or an edit between the plugin's read and the host's hash
  (`analyze.rs:7284`), which gives a file an entry that vouches for findings nobody looked for.

## 6. The proofs

Everything below holds for any number of runs, processes, files and entities and any
bounds. The assumptions are the named ones in each module: the constants are sets and
numbers of the right kind and the null values are not among the others. TLC evaluates
them on every run. Two theorems need a set to be finite and say so (`RunsEnd` of
`IncrementalIndex_proofs` and of `FindingSweep_proofs`: finitely many files or sources).

Each module has one inductive invariant `IInv` for the safety properties of its runs. Most
have a second part, about what the liveness properties rest on. Fairness and ENABLED are
beyond the prover, so `A ~> B` itself is left to TLC; what is proved is everything in the
argument but the fairness:

- *never stuck*: an invariant that says, by the guards written out, that some step is possible as
  long as work is left (`NeverHangs`, `RunNeverStuck`, `NextWriteIsThere`,
  `NoCommandOutOfTurn`, `NobodyIsForgotten`);
- *a measure falls*: an action property by which every step of the part in question lowers
  a natural number, and the steps of others do not raise it (`SessionsWindDown`,
  `NoProcessLoops`, `RunsAreBounded` twice, `PassesEnd`, `NothingRepeats`,
  `ChildrenAreBounded`, `ServerWindsDown`);
- *what is there at the end* is what was wanted (`FlushSettles`, `FullPassCleans`).

These are stated in the proof modules, next to their proofs; TLC has checked each on the
instance of the module's passing run.

**WriterActor_proofs.** `IInv` is `TypeOK` with `Process` (who owns a transaction at which
stage; the current run's row reads running), `Transaction` (without a transaction
`view` is `disk`; a transaction the actor forgot belongs to a faulted run) and `Rows`
(a running row has its process or is known lost). `WorkingHoldsTx` and
`StrandedOnlyByFault` do not mention the transaction's view or the rows of other runs
and are not inductive without these. From `IInv`: both, `TypeOK`, and
`TerminalRowsAreFinal`. One more invariant, `SoundAfterPhase3` (after phase 3 has flushed, file
and batch are sound), gives `OnlyUncheckedIsUnsound`, without any premise: a run completes
over an unsound graph only in a process that emits and does not cluster. So
`CompletedIsConsistent` and `RefinesLedger` are proved *if no configuration emits without
clustering*; without that premise they are false, which is
`writer_swallowed_flush`. `CompletedKeepsAckedWrites` needs a third (while a process that does
not emit works, the open batch is what was acknowledged). `MismatchIsInconsistency` shows that the
two queries of the parent check detect exactly the graphs whose encodings disagree.
`SessionsWindDown` counts the stages ahead and the writes a run may still send: no failure
sends a process back to a stage behind it, and `NoCommandOutOfTurn` says that the actor's
own guards never refuse the next command.

**RefreshCycle_proofs.** `IInv` adds `LockHeld` (the stage says who holds the lock), `NotAhead`
(nothing is wanted before it is written) and `ProbeStands` (between a probe and the
child's attempt, whoever took the lock reads after the probe). From it:
`RequestNotForgotten` and `HarmlessRace`. Further: `RefinesSlot`, step by step (every action
is one of the slot's or changes nothing it sees); `IndexMovesForward`, which rests on the
lock (who completes has read after whoever completed before); and `NoProcessLoops`.

**IncrementalIndex_proofs.** `SnapshotVouches` speaks of the committed store; what makes it
inductive is `Trusted` (the open batch agrees as well), `Doubted` (a file being written
is under doubt) and what a run in progress knows of the files it has handled
(`Recorded`, `Covered`, `Answered`, `Imported`), of those it leaves alone (`LeftAlone`) and of
the store at its end (`Committed`). From it: `SnapshotVouches`. A second invariant, `JInv`, is
about what a flush leaves: `Aligned` and `Reported` (what the run has settled is stored under the
bytes it saw), `NoHoleSkipped` (no file with a hole in a fresh claim is left alone), `Claimed`
and `Charged` (each answer's claim and its price). From it: `FlushSettles`, that is, the next run
dispatches only what was edited or passed over and what is degraded with budget left, and
`BudgetIsSpent`. `BlameInv` gives `BlameIsFair` and `KnownOffendersWait`, the point of putting
the self-inflicted last. `RunNeverStuck` finds the file in hand as the least in a
well-founded order.

**StableIdentity_proofs.** `IInv` adds `Unique` (the index on alive locators), `Quiet` (only a
pass has anything pending), `Planned` (a decision still to be written has its locator to
itself), `Carried` (the proof a carry rests on still stands), `Stays` (a carry decided to be silent is to
where the identity is), `Doomed` (what is to be
orphaned is alive, elsewhere and wanted by nobody) and `Written` (what the pass dealt
with has an identity). The argument is that decisions taken at the start stay true
while the pass writes orphans first. From it: all five properties of `sei_pass`, and that a
pass ends (`NextWriteIsThere`, `PassesEnd`; what it has pending is finite, since bindings at
distinct locators inject into them). Four of the properties, `LineageAgrees` among them, except
`reused`, the tokens a pass mints although they have a row. `NothingIsMintedTwice` shows that these come from `--resume`
alone: under `NeverResumed`, the specification without that step, `reused` stays empty, by the
invariant `Fresh` (tokens carry the id of a run that began, and each mint still to be written
is of a token without a row).

**PluginSupervision_proofs.** `NoChildLeft` and `FilesAccounted` speak of the end of a turn; the
invariant says what holds on the way: `Attended` (a child not yet waited for is the live
one or the one to replace it, and a task that panicked ends its turn badly), `FilesKept` (up to the file at hand, everything is accounted
for once), `CutOnlyWhenGood` (only the watchdog of the plugin being closed can have, or come
to have, a shutdown to cut), `OnAFile` and `CrashesCounted` (counters stay in range). The
watchdog's steps keep all of it because a record changes *tamely*: it stays a child's, and
gains no shutdown. From it: all four safety properties of `plugin_loop`. `NeverHangs` says that
where the host waits for a child, that child is dead or has a watchdog with a step to take; `NothingRepeats` that each step ends a turn, shortens it, or leaves one child with
less to do.

**SupervisedRuns_proofs.** `WorksAlone` (no two children at one row, and a follow-up's row is one
nobody was told of), `RowsFollow` (a row is as far as its child, and a cancel about to mark
has killed first), `StrandedOnlyByKill` itself, and `OneAnswer`: every run whose answers must
stand is still open, ended by itself, or was cancelled, and what the calls in flight will
say agrees. `AnswersStand` alone is not inductive, since an answer is decided in two steps.
From it: all four safety properties of `supervised_runs`. With `LockHeld` (the lock is held by
exactly the child whose stage says so) it also gives `RowsHaveOneWriter`: a row is opened and settled
by the holder of the lock that works on it, and marked by a cancel only when no living child works
on it. `ChildrenAreBounded` is the measure.

**InferredDispatch_proofs.** `Registered` (who dispatches is the one registered, who left an
entry behind is gone), `ShownIsKey` and `QueueIsTrue` (the prompt under way and the commands
on their way are about their key), with `CacheTellsTruth` and `LedgerAddsUp`. The ledger
counts requests, so its steps rest on lemmas about the cardinality of a set that gains or
loses one. From it: all four safety properties of `inferred_dispatch`. A second invariant,
`Orderly`, follows the requests that wait (`Enrolled`, `Heard`, `Sorted`, `Awaited`). From it:
`NobodyIsForgotten` and `NoDeadEntry`, which together say that cancelling a leader, a refusal, or
an edit in the middle leaves neither a waiter without a leader nor an entry without an owner;
and `CeilingIsFinal`.

**FindingSweep_proofs.** `FoundIsStored`: from the report on, what the run found carries its run
id. A row is deleted by a sweep; with the invariant, what it deletes was not found; the gates
say that its file was looked at, or overlooked in one of the three ways. From it:
`RetiredOnlyIfLooked`. A second invariant, `JInv`, relates the rows to the snapshot
(`OwnedIsStored`, `LookedFound`, `EditedIsStale`, `Apart`, `CurrentIsFound`). From it:
`OwnedIsStored`, `FullPassCleans` and `SkipForgetsNothing`.

**Model-checked only.** The liveness properties `EveryRunSettles`, `Converges`, `FixedPoint`,
`Heals`, `LoopEnds`, `ChildrenEnd`, `WaitersAreHeard` and `GhostsGo` (the prover has no rule for
fairness and ENABLED), except for the cores named above. Every safety property of every
passing run is proved.

## 7. Limits

A crash keeps exactly what SQLite had committed; torn pages and lost fsyncs are not
modelled. Clocks are monotone: an mtime set back by hand, or two events within one
clock tick, are outside `RefreshCycle`. Query-time writes, which make the writer commit a
run's batch out of turn, are outside `WriterActor`; in `InferredDispatch` they go to a writer
without a run, as `serve` has it. Each module abstracts the others as section 1 says, and
no model composes them: the interfaces are the committed store and the stage at which a
run may stop, and both sides of each allow every stopping point.

**Not modelled.** The models cover the state machines of the program: who writes what, in
which order, and what a failure leaves. Most of the repository's lines are elsewhere:
the read tools of MCP and HTTP and the queries behind them, which change no state and
read one committed snapshot; language analysis, secret patterns, entity identifiers,
graph and clustering algorithms, which are functions of their input; command-line
plumbing, installation, formatting, diagnosis by hand, and tests. They are listed in
`PROJECT.json` with the reason for each. Two parts with state of their own are left:
worktree stores, and the emission of findings to Filigree (plan, item 9). What a modelled
part leaves out is said in section 3.
