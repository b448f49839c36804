-------------------------- MODULE PluginSupervision --------------------------
(***************************************************************************)
(* The plugin loop of an analyze run and the supervision of one plugin in  *)
(* it.  The host thread speaks to a child process over pipes and blocks on *)
(* every answer; a watchdog thread per child holds the only clock.  The    *)
(* host arms it before an exchange and disarms it after; the watchdog      *)
(* clears a deadline that has passed, records its phase and kills the      *)
(* child, in three steps under two locks, so the host may run between      *)
(* them.  A child that is killed over one file is replaced, a few times.   *)
(***************************************************************************)
EXTENDS Naturals

CONSTANTS NumPlugins,   \* plugins discovered
          NumFiles,     \* files each of them is given
          MaxRespawns,  \* MAX_FILE_TIMEOUT_RESPAWNS
          Threshold,    \* CrashLoopBreaker.threshold
          None

ASSUME SupervisionAssumption ==
  /\ NumPlugins \in Nat \ {0}
  /\ NumFiles \in Nat
  /\ MaxRespawns \in Nat
  /\ Threshold \in Nat
  /\ None \notin {"handshake", "file", "shutdown"}

VARIABLES
  turn,     \* the plugin the loop is at
  pc,       \* where its host thread is
  file,     \* the next file
  proc,     \* the children of this plugin, each with its watchdog
  live,     \* the one the file loop talks to
  newest,   \* file_timeout_respawns: the last one spawned
  work,     \* work_result
  told,     \* findings this plugin leaves behind
  stored, passed, jailed,   \* files sent on, given up, refused by the jail
  refused,  \* insert_err: the writer turned a batch down
  results,  \* what became of each plugin
  recent,   \* crashes the breaker still has in its window
  panicked  \* the blocking task of this turn has panicked

plugin == <<file, live, newest, work, told, stored, passed, jailed, refused>>
run    == <<turn, results, recent, panicked>>
vars   == <<pc, proc, plugin, run>>

Phases   == {"handshake", "file", "shutdown"}
Files    == 1 .. NumFiles
Children == 0 .. MaxRespawns
Stages   == {"next", "handshake", "rehandshake", "unshaken", "ready", "asked",
             "expelling", "judging", "replacing", "ended", "closing", "joining",
             "settled", "done"}
Findings == {"timeout", "shutdown", "oom"}

(* child: "crashed" by a signal that looks like the kernel's, "left" in any
   other way of its own, "killed" by the host or its watchdog. *)
Proc == [child    : {"none", "alive", "crashed", "left", "killed"},
         deadline : Phases \cup {None},   \* PluginWatchdog.deadline
         expired  : Phases \cup {None},   \* cleared by the watchdog, not yet recorded
         latched  : Phases \cup {None},   \* PluginWatchdog.timed_out
         striking : BOOLEAN]              \* recorded, the kill still to come

NoProc == [child |-> "none", deadline |-> None, expired |-> None,
           latched |-> None, striking |-> FALSE]

TypeOK ==
  /\ turn \in 1 .. NumPlugins /\ pc \in Stages
  /\ file \in 1 .. NumFiles + 1
  /\ proc \in [Children -> Proc]
  /\ live \in Children /\ newest \in Children
  /\ work \in {"none", "ok", "err"}
  /\ told \subseteq Findings
  /\ stored \subseteq Files /\ passed \subseteq Files /\ jailed \subseteq Files
  /\ refused \in BOOLEAN
  /\ results \in [1 .. NumPlugins -> {"unused", "ok", "crashed", "refused"}]
  /\ recent \in 0 .. NumPlugins
  /\ panicked \in BOOLEAN

Init ==
  /\ turn = 1 /\ pc = "next"
  /\ proc = [i \in Children |-> NoProc]
  /\ file = 1 /\ live = 0 /\ newest = 0 /\ work = "none" /\ told = {}
  /\ stored = {} /\ passed = {} /\ jailed = {} /\ refused = FALSE
  /\ results = [p \in 1 .. NumPlugins |-> "unused"] /\ recent = 0 /\ panicked = FALSE
-----------------------------------------------------------------------------
(***************************************************************************)
(* The watchdog of child i, and what a child does of itself.               *)
(***************************************************************************)
Alive(i) == proc[i].child = "alive"

Disarmed(i)  == [proc EXCEPT ![i].deadline = None]
Armed(i, ph) == [proc EXCEPT ![i].deadline = ph]
KilledIfAlive(p) == IF p.child = "alive" THEN [p EXCEPT !.child = "killed"] ELSE p

Expire(i) ==                     \* the first half of expire_if_due
  /\ proc[i].deadline # None /\ proc[i].expired = None /\ ~proc[i].striking
  /\ proc' = [proc EXCEPT ![i] = [@ EXCEPT !.deadline = None, !.expired = proc[i].deadline]]
  /\ UNCHANGED <<pc, plugin, run>>

FirstWins(p) == IF p.latched = None THEN p.expired ELSE p.latched

Record(i) ==                     \* the second half
  /\ proc[i].expired # None
  /\ proc' = [proc EXCEPT ![i] = [@ EXCEPT !.expired = None, !.striking = TRUE,
                                           !.latched = FirstWins(proc[i])]]
  /\ UNCHANGED <<pc, plugin, run>>

Strike(i) ==                     \* kill_process_tree
  /\ proc[i].striking
  /\ proc' = [proc EXCEPT ![i] = [KilledIfAlive(@) EXCEPT !.striking = FALSE]]
  /\ UNCHANGED <<pc, plugin, run>>

Watchdog(i) == Expire(i) \/ Record(i) \/ Strike(i)

(* request_stop and join: the watchdog finishes what it has begun. *)
Joined(i) == proc[i].expired = None /\ ~proc[i].striking

Die(i) ==
  /\ Alive(i)
  /\ \E end \in {"crashed", "left"} : proc' = [proc EXCEPT ![i].child = end]
  /\ UNCHANGED <<pc, plugin, run>>
-----------------------------------------------------------------------------
(***************************************************************************)
(* spawn_live_plugin: for the plugin, or in place of a killed child.       *)
(***************************************************************************)
Spawned(i) ==
  proc' = [proc EXCEPT ![i] = [NoProc EXCEPT !.child = "alive", !.deadline = "handshake"]]

StartPlugin ==
  /\ pc = "next"
  /\ \/ pc' = "handshake" /\ Spawned(0) /\ UNCHANGED work
     \/ pc' = "settled" /\ work' = "err" /\ UNCHANGED proc     \* no such executable
  /\ UNCHANGED <<run, file, live, newest, told, stored, passed, jailed, refused>>

Shaking == pc \in {"handshake", "rehandshake"}

HandshakeDone ==
  /\ Shaking /\ Alive(newest)
  /\ proc' = Disarmed(newest)
  /\ pc' = IF pc = "handshake" THEN "ready" ELSE "replacing"
  /\ UNCHANGED <<plugin, run>>

HandshakeFails ==
  /\ Shaking
  /\ proc' = Disarmed(newest)
  /\ pc' = "unshaken"
  /\ UNCHANGED <<plugin, run>>

(* Nothing is said of the end of a child that was alive: the kill is ours. *)
BuryUnshaken ==
  /\ pc = "unshaken" /\ Joined(newest)
  /\ LET p == proc[newest]
     IN  told' = told \cup CASE p.latched = "handshake" -> {"timeout"}
                             [] p.child = "crashed"     -> {"oom"}
                             [] OTHER                   -> {}
  /\ proc' = [proc EXCEPT ![newest] = NoProc]
  /\ work' = "err"
  /\ pc' = IF newest = live THEN "settled" ELSE "ended"
  /\ UNCHANGED <<run, file, live, newest, stored, passed, jailed, refused>>
-----------------------------------------------------------------------------
(***************************************************************************)
(* The file loop of run_plugin_blocking.                                   *)
(***************************************************************************)
JailRefuses ==
  /\ pc = "ready" /\ file <= NumFiles
  /\ jailed' = jailed \cup {file} /\ file' = file + 1
  /\ UNCHANGED <<pc, proc, run, live, newest, work, told, stored, passed, refused>>

Dispatch ==
  /\ pc = "ready" /\ file <= NumFiles
  /\ proc' = Armed(live, "file")
  /\ pc' = "asked"
  /\ UNCHANGED <<plugin, run>>

(* analyze_file returns Ok and the batch goes down the channel, where the
   writer may turn it down; or the file can no longer be read. *)
Answer ==
  /\ pc = "asked" /\ Alive(live)
  /\ proc' = Disarmed(live)
  /\ \/ /\ pc' = "ready" /\ stored' = stored \cup {file} /\ file' = file + 1
        /\ refused' \in {refused, TRUE}
        /\ UNCHANGED work
     \/ /\ pc' = "ended" /\ work' = "err"
        /\ UNCHANGED <<stored, file, refused>>
  /\ UNCHANGED <<run, live, newest, told, passed, jailed>>

(* Too many items or path escapes: the host asks the plugin to shut down
   before analyze_file returns its error, still under the file's deadline. *)
Breach ==
  /\ pc = "asked" /\ Alive(live)
  /\ pc' = "expelling"
  /\ UNCHANGED <<proc, plugin, run>>

FileError ==
  /\ pc \in {"asked", "expelling"}
  /\ proc' = Disarmed(live)
  /\ pc' = "judging"
  /\ UNCHANGED <<plugin, run>>

OneTooMany(p) == p.latched = "file" /\ newest <= MaxRespawns      \* mutant

Survivable(p) == p.latched = "file" /\ newest < MaxRespawns

(* A file the watchdog killed the plugin over is passed over, and a fresh
   plugin is asked for; any other error ends the loop. *)
Judge ==
  /\ pc = "judging"
  /\ IF Survivable(proc[live])
     THEN /\ passed' = passed \cup {file} /\ told' = told \cup {"timeout"}
          /\ \/ /\ newest' = newest + 1 /\ Spawned(newest + 1)
                /\ pc' = "rehandshake"
                /\ UNCHANGED work
             \/ pc' = "ended" /\ work' = "err" /\ UNCHANGED <<newest, proc>>
     ELSE pc' = "ended" /\ work' = "err" /\ UNCHANGED <<passed, told, newest, proc>>
  /\ UNCHANGED <<run, file, live, stored, jailed, refused>>

ReplaceUnburied ==            \* mutant: the killed child is just dropped
  /\ pc = "replacing" /\ Joined(live)
  /\ live' = newest /\ file' = file + 1
  /\ pc' = "ready"
  /\ UNCHANGED <<proc, run, newest, work, told, stored, passed, jailed, refused>>

ReplaceAndRetry ==            \* mutant: the file is asked for again
  /\ pc = "replacing" /\ Joined(live)
  /\ proc' = [proc EXCEPT ![live] = NoProc]
  /\ live' = newest
  /\ pc' = "ready"
  /\ UNCHANGED <<run, file, newest, work, told, stored, passed, jailed, refused>>

(* teardown_after_kill: join, reap, classify nothing. *)
Replace ==
  /\ pc = "replacing" /\ Joined(live)
  /\ proc' = [proc EXCEPT ![live] = NoProc]
  /\ live' = newest /\ file' = file + 1
  /\ pc' = "ready"
  /\ UNCHANGED <<run, newest, work, told, stored, passed, jailed, refused>>

EndLoop ==
  /\ pc = "ready" /\ file > NumFiles
  /\ pc' = "ended" /\ work' = "ok"
  /\ UNCHANGED <<proc, run, file, live, newest, told, stored, passed, jailed, refused>>
-----------------------------------------------------------------------------
(***************************************************************************)
(* After the loop: a file deadline that has gone off is a failure whatever *)
(* the loop says; a good plugin is asked to shut down, a bad one killed.   *)
(***************************************************************************)
CloseUnarmed ==               \* mutant: shutdown outside the watchdog
  /\ pc = "ended" /\ work = "ok" /\ proc[live].latched # "file"
  /\ pc' = "closing"
  /\ UNCHANGED <<proc, plugin, run>>

CloseGood ==
  /\ pc = "ended" /\ work = "ok" /\ proc[live].latched # "file"
  /\ proc' = Armed(live, "shutdown")
  /\ pc' = "closing"
  /\ UNCHANGED <<plugin, run>>

CloseBad ==
  /\ pc = "ended" /\ (work = "err" \/ proc[live].latched = "file")
  /\ work' = "err"
  /\ told' = IF proc[live].latched = "file" THEN told \cup {"timeout"} ELSE told
  /\ proc' = [proc EXCEPT ![live] = KilledIfAlive(@)]
  /\ pc' = "joining"
  /\ UNCHANGED <<run, file, live, newest, stored, passed, jailed, refused>>

ShutdownAnswered ==
  /\ pc = "closing" /\ Alive(live)
  /\ proc' = Disarmed(live)
  /\ pc' = "joining"
  /\ UNCHANGED <<plugin, run>>

ShutdownFails ==
  /\ pc = "closing"
  /\ proc' = [proc EXCEPT ![live] = [KilledIfAlive(@) EXCEPT !.deadline = None]]
  /\ pc' = "joining"
  /\ UNCHANGED <<plugin, run>>

LateVerdict(p) == IF p.latched = None THEN work ELSE "err"         \* mutant

Verdict(p) == work            \* a deadline that goes off from here on is etiquette

(* reap_and_classify_exit; a child still there after five seconds is killed
   and not classified. *)
Reap ==
  /\ pc = "joining" /\ Joined(live)
  /\ LET p == proc[live]
     IN  /\ told' = told
              \cup (IF p.latched = "shutdown" THEN {"shutdown"} ELSE {})
              \cup (IF p.latched = None /\ p.child \in {"crashed", "killed"}
                    THEN {"oom"} ELSE {})
         /\ work' = Verdict(p)
  /\ proc' = [proc EXCEPT ![live] = NoProc]
  /\ pc' = "settled"
  /\ UNCHANGED <<run, file, live, newest, stored, passed, jailed, refused>>

(* The task may panic anywhere; the join reports it as a crash.  Its findings go
   with it, its child and its watchdog do not: nobody stops, kills or waits. *)
Panic ==
  /\ pc \notin {"next", "settled", "done"}
  /\ panicked' = TRUE
  /\ pc' = "settled" /\ work' = "err" /\ told' = {}
  /\ UNCHANGED <<proc, turn, results, recent, file, live, newest, stored, passed, jailed, refused>>

(* What a host step waits for: an exchange that breaks off because the child is
   gone, as against one in which a living child answers with an error. *)
Broken ==
  \/ Shaking /\ ~Alive(newest) /\ HandshakeFails
  \/ ~Alive(live) /\ (FileError \/ ShutdownFails)

Refusal ==
  \/ Shaking /\ Alive(newest) /\ HandshakeFails
  \/ Alive(live) /\ (FileError \/ ShutdownFails)
-----------------------------------------------------------------------------
(***************************************************************************)
(* The plugin loop of run_with_options.                                    *)
(***************************************************************************)
Trips(n) == n > Threshold

(* The children of a task that has panicked are not followed any further. *)
NextPlugin(stop) ==
  /\ IF stop \/ turn = NumPlugins
     THEN pc' = "done" /\ UNCHANGED turn
     ELSE pc' = "next" /\ turn' = turn + 1
  /\ file' = 1 /\ live' = 0 /\ newest' = 0 /\ work' = "none" /\ told' = {}
  /\ stored' = {} /\ passed' = {} /\ jailed' = {} /\ refused' = FALSE
  /\ panicked' = FALSE
  /\ proc' = IF panicked THEN [i \in Children |-> NoProc] ELSE proc

PluginDone ==
  /\ pc = "settled" /\ ~refused /\ work = "ok"
  /\ results' = [results EXCEPT ![turn] = "ok"]
  /\ NextPlugin(FALSE)
  /\ UNCHANGED recent

(* The breaker keeps the crashes of its window, a suffix of those so far. *)
PluginCrashed ==
  /\ pc = "settled" /\ ~refused /\ work = "err"
  /\ results' = [results EXCEPT ![turn] = "crashed"]
  /\ \E kept \in 0 .. recent :
       recent' = kept + 1 /\ NextPlugin(Trips(kept + 1))

WriterRefused ==              \* HardFailed
  /\ pc = "settled" /\ refused
  /\ results' = [results EXCEPT ![turn] = "refused"]
  /\ NextPlugin(TRUE)
  /\ UNCHANGED recent

Host ==
  \/ StartPlugin \/ BuryUnshaken \/ JailRefuses \/ Dispatch \/ Judge \/ Replace
  \/ EndLoop \/ CloseGood \/ CloseBad \/ Reap
  \/ PluginDone \/ PluginCrashed \/ WriterRefused

Plugin == HandshakeDone \/ Answer \/ Breach \/ ShutdownAnswered \/ Refusal

Next == Host \/ Broken \/ Plugin \/ Panic \/ \E i \in Children : Watchdog(i) \/ Die(i)

Spec == Init /\ [][Next]_vars

(* The host and the watchdogs keep running; no plugin ever has to answer. *)
FairSpec == Spec /\ WF_vars(Host \/ Broken)
                 /\ \A i \in Children : WF_vars(Watchdog(i))
-----------------------------------------------------------------------------
(***************************************************************************)
(* Properties.                                                             *)
(***************************************************************************)

(* Whatever way a plugin's turn ends, every child it was given has been waited
   for: the one that was replaced, the one that never shook hands, the last.
   Not so if the task panicked: its child may live on, or die and stay a zombie. *)
NoChildLeft ==
  pc \in {"next", "settled", "done"} /\ ~panicked => \A i \in Children : proc[i] = NoProc

(* A plugin whose work counts has every file accounted for exactly once: sent
   on, refused by the jail, or passed over with a timeout finding to say so;
   not even a kill that lands after the answer makes a file disappear. *)
FilesAccounted ==
  pc = "settled" /\ work = "ok" =>
    /\ stored \cup passed \cup jailed = Files
    /\ stored \cap passed = {} /\ jailed \cap (stored \cup passed) = {}
    /\ passed # {} => "timeout" \in told

(* A shutdown that had to be cut short is reported and changes nothing: the
   plugin is not one that crashed, and the cut is not taken for an OOM kill. *)
ShutdownIsEtiquette ==
  pc = "settled" /\ "shutdown" \in told => work = "ok" /\ "oom" \notin told

(* The loop comes to its end although a plugin may fall silent in any exchange. *)
LoopEnds == <>(pc = "done")
==============================================================================
