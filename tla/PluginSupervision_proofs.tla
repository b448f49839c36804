---------------------- MODULE PluginSupervision_proofs ----------------------
(***************************************************************************)
(* What PluginSupervision promises for every number of plugins, files and  *)
(* respawns and every threshold of the breaker.                            *)
(***************************************************************************)
EXTENDS PluginSupervision, TLAPS

(* The host works on a file only while there is one. *)
OnAFile ==
  pc \in {"asked", "expelling", "judging", "rehandshake", "replacing"} => file <= NumFiles

(* The breaker has not counted a crash of the plugin at hand. *)
CrashesCounted == recent <= turn /\ (pc # "done" => recent < turn)

(* A child not waited for is the live one, or the one that is to replace it;
   between plugins there is none.  A task that panicked ends its turn badly. *)
Attended ==
  /\ pc \in {"next", "handshake"} => live = 0 /\ newest = 0
  /\ panicked => pc = "settled" /\ work = "err"
  /\ ~panicked => \A i \in Children : proc[i] # NoProc =>
       /\ pc \notin {"next", "settled", "done"}
       /\ i = live \/ (i = newest /\ pc \in {"rehandshake", "unshaken", "replacing"})

(* The files up to n, and no others, are accounted for, each once. *)
AccountedTo(n) ==
  /\ stored \cup passed \cup jailed = 1 .. n
  /\ stored \cap passed = {} /\ jailed \cap (stored \cup passed) = {}

FilesKept ==
  /\ passed # {} /\ ~panicked => "timeout" \in told
  /\ pc \in {"next", "handshake", "ready", "asked", "expelling", "judging"} => AccountedTo(file - 1)
  /\ pc \in {"rehandshake", "replacing"} => AccountedTo(file)
  /\ pc \in {"ended", "closing", "joining", "settled"} /\ work = "ok" => AccountedTo(NumFiles)

(* A watchdog that has, had or will have a shutdown to cut short. *)
Cuts(p) == p.deadline = "shutdown" \/ p.expired = "shutdown" \/ p.latched = "shutdown"

(* Only the good plugin that is being closed can have its shutdown cut; a
   finding that speaks of a kill from outside is about one that was not good. *)
CutOnlyWhenGood ==
  /\ \A i \in Children : Cuts(proc[i]) =>
       panicked \/ (pc \in {"closing", "joining"} /\ work = "ok" /\ i = live)
  /\ "shutdown" \in told => pc = "settled" /\ work = "ok" /\ "oom" \notin told
  /\ "oom" \in told => /\ pc \in {"ended", "closing", "joining", "settled"}
                       /\ pc # "settled" => work = "err"

IInv == TypeOK /\ OnAFile /\ CrashesCounted /\ Attended /\ FilesKept /\ CutOnlyWhenGood
-----------------------------------------------------------------------------
(* How most steps change a child's record: it stays one and gets no shutdown to
   cut that it had not. *)
Tamely(old, new) == new \in Proc /\ (Cuts(new) => Cuts(old))

(* The changes host, watchdog and child make to a record are tame. *)
LEMMA TameChanges ==
  ASSUME NEW p \in Proc
  PROVE  /\ Tamely(p, [p EXCEPT !.deadline = None])
         /\ Tamely(p, KilledIfAlive(p))
         /\ Tamely(p, [KilledIfAlive(p) EXCEPT !.deadline = None])
         /\ Tamely(p, NoProc)
         /\ [NoProc EXCEPT !.child = "alive", !.deadline = "handshake"] \in Proc
         /\ ~Cuts([NoProc EXCEPT !.child = "alive", !.deadline = "handshake"])
         /\ \A ph \in Phases : [p EXCEPT !.deadline = ph] \in Proc
<1> USE SupervisionAssumption DEF Proc, Phases
<1>1. NoProc \in Proc /\ KilledIfAlive(p) \in Proc
  BY DEF NoProc, KilledIfAlive
<1>2. ASSUME NEW q \in Proc, NEW ph \in Phases \cup {None}
      PROVE  [q EXCEPT !.deadline = ph] \in Proc
  OBVIOUS
<1>3. Tamely(p, [p EXCEPT !.deadline = None]) /\ Tamely(p, KilledIfAlive(p))
  BY <1>1, <1>2 DEF Tamely, Cuts, NoProc, KilledIfAlive
<1>4. Tamely(p, [KilledIfAlive(p) EXCEPT !.deadline = None])
  BY <1>1, <1>2 DEF Tamely, Cuts, NoProc, KilledIfAlive
<1>5. Tamely(p, NoProc)
  BY <1>1 DEF Tamely, Cuts, NoProc
<1>6. /\ [NoProc EXCEPT !.child = "alive", !.deadline = "handshake"] \in Proc
      /\ ~Cuts([NoProc EXCEPT !.child = "alive", !.deadline = "handshake"])
  BY DEF NoProc, Cuts
<1> QED BY <1>2, <1>3, <1>4, <1>5, <1>6

(* A step that turns the record of child i into `new`. *)
Becomes(i, new) ==
  proc' \in [Children -> Proc] /\ proc'[i] = new /\ \A j \in Children \ {i} : proc'[j] = proc[j]

(* A step that touches the record of child i tamely. *)
Touches(i) == \E new \in Proc : Tamely(proc[i], new) /\ Becomes(i, new)

(* What an update of one record leaves behind. *)
LEMMA Updating ==
  ASSUME TypeOK, NEW i \in Children, NEW new \in Proc, proc' = [proc EXCEPT ![i] = new]
  PROVE  Becomes(i, new)
  BY DEF TypeOK, Becomes

(* So are those of the watchdog and of the child itself. *)
LEMMA TameByItself ==
  ASSUME TypeOK, NEW i \in Children, Watchdog(i) \/ Die(i)
  PROVE  proc[i] # NoProc /\ Touches(i)
<1> USE DEF Touches
<1> DEFINE p == proc[i]
<1>1. p \in Proc /\ proc \in [Children -> Proc]
  BY DEF TypeOK
<1>2. CASE Expire(i)
  <2> DEFINE new == [p EXCEPT !.deadline = None, !.expired = p.deadline]
  <2>1. new \in Proc /\ Tamely(p, new)
    BY <1>1, <1>2, SupervisionAssumption DEF Expire, Proc, Phases, Tamely, Cuts
  <2>2. proc' = [proc EXCEPT ![i] = new] /\ p # NoProc
    BY <1>1, <1>2, SupervisionAssumption DEF Expire, NoProc
  <2> QED BY <2>1, <2>2, Updating
<1>3. CASE Record(i)
  <2> DEFINE new == [p EXCEPT !.expired = None, !.striking = TRUE, !.latched = FirstWins(p)]
  <2>1. new \in Proc /\ Tamely(p, new)
    BY <1>1, <1>3, SupervisionAssumption DEF Record, Proc, Phases, Tamely, Cuts, FirstWins
  <2>2. proc' = [proc EXCEPT ![i] = new] /\ p # NoProc
    BY <1>1, <1>3, SupervisionAssumption DEF Record, NoProc
  <2> QED BY <2>1, <2>2, Updating
<1>4. CASE Strike(i)
  <2> DEFINE new == [KilledIfAlive(p) EXCEPT !.striking = FALSE]
  <2>1. new \in Proc /\ Tamely(p, new)
    BY <1>1, <1>4, SupervisionAssumption DEF Strike, Proc, Phases, Tamely, Cuts, KilledIfAlive
  <2>2. proc' = [proc EXCEPT ![i] = new] /\ p # NoProc
    BY <1>1, <1>4, SupervisionAssumption DEF Strike, NoProc
  <2> QED BY <2>1, <2>2, Updating
<1>5. CASE Die(i)
  <2>1. PICK end \in {"crashed", "left"} : proc' = [proc EXCEPT ![i].child = end]
    BY <1>5 DEF Die
  <2> DEFINE new == [p EXCEPT !.child = end]
  <2>2. new \in Proc /\ Tamely(p, new)
    BY <1>1, <1>5 DEF Die, Alive, Proc, Tamely, Cuts
  <2>3. proc' = [proc EXCEPT ![i] = new]
    BY <1>1, <2>1
  <2>4. p # NoProc
    BY <1>5 DEF Die, Alive, NoProc
  <2> QED BY <2>2, <2>3, <2>4, Updating
<1> QED BY <1>2, <1>3, <1>4, <1>5 DEF Watchdog

(* What the host does to the children. *)
LEMMA TameByHost ==
  ASSUME TypeOK
  PROVE  /\ HandshakeDone \/ HandshakeFails => Touches(newest)
         /\ Answer \/ FileError \/ CloseBad \/ ShutdownAnswered \/ ShutdownFails => Touches(live)
         /\ Dispatch => \E new \in Proc : Becomes(live, new) /\ (Cuts(new) => Cuts(proc[live]))
         /\ CloseGood => \E new \in Proc : Becomes(live, new)
         /\ BuryUnshaken => Becomes(newest, NoProc)
         /\ Replace \/ Reap => Becomes(live, NoProc)
         /\ \A i \in Children : Spawned(i) => \E new \in Proc : Becomes(i, new) /\ ~Cuts(new)
<1> USE DEF Touches
<1>0. /\ proc \in [Children -> Proc] /\ live \in Children /\ newest \in Children
      /\ proc[live] \in Proc /\ proc[newest] \in Proc
  BY DEF TypeOK
<1>1. HandshakeDone \/ HandshakeFails => Touches(newest)
  <2> DEFINE new == [proc[newest] EXCEPT !.deadline = None]
  <2>1. Tamely(proc[newest], new)
    BY <1>0, TameChanges
  <2>2. HandshakeDone \/ HandshakeFails => proc' = [proc EXCEPT ![newest] = new]
    BY <1>0 DEF HandshakeDone, HandshakeFails, Disarmed
  <2> QED BY <1>0, <2>1, <2>2, Updating DEF Tamely
<1>2. Answer \/ FileError \/ ShutdownAnswered => Touches(live)
  <2> DEFINE new == [proc[live] EXCEPT !.deadline = None]
  <2>1. Tamely(proc[live], new)
    BY <1>0, TameChanges
  <2>2. Answer \/ FileError \/ ShutdownAnswered => proc' = [proc EXCEPT ![live] = new]
    BY <1>0 DEF Answer, FileError, ShutdownAnswered, Disarmed
  <2> QED BY <1>0, <2>1, <2>2, Updating DEF Tamely
<1>3. CloseBad => Touches(live)
  BY <1>0, TameChanges, Updating DEF CloseBad, Tamely
<1>4. ShutdownFails => Touches(live)
  BY <1>0, TameChanges, Updating DEF ShutdownFails, Tamely
<1>5. ASSUME NEW ph \in {"file", "shutdown"}, proc' = Armed(live, ph)
      PROVE  \E new \in Proc : Becomes(live, new) /\ (ph = "file" /\ Cuts(new) => Cuts(proc[live]))
  <2> DEFINE new == [proc[live] EXCEPT !.deadline = ph]
  <2>1. new \in Proc
    BY <1>0, TameChanges DEF Phases
  <2>2. ph = "file" /\ Cuts(new) => Cuts(proc[live])
    BY <1>0 DEF Cuts, Proc
  <2>3. proc' = [proc EXCEPT ![live] = new]
    BY <1>0, <1>5 DEF Armed
  <2> QED BY <1>0, <2>1, <2>2, <2>3, Updating
<1>6. NoProc \in Proc
  BY <1>0, TameChanges DEF Tamely
<1>7. /\ BuryUnshaken => Becomes(newest, NoProc)
      /\ Replace \/ Reap => Becomes(live, NoProc)
  BY <1>0, <1>6, Updating DEF BuryUnshaken, Replace, Reap
<1>8. \A i \in Children : Spawned(i) => \E new \in Proc : Becomes(i, new) /\ ~Cuts(new)
  BY <1>0, TameChanges, Updating DEF Spawned
<1> QED BY <1>1, <1>2, <1>3, <1>4, <1>5, <1>7, <1>8 DEF Dispatch, CloseGood

(* The record of a child that is not there is one. *)
LEMMA NoneStillIsOne == NoProc \in Proc
  BY SupervisionAssumption DEF NoProc, Proc, Phases

(* The variables other than proc keep their types. *)
RestOK ==
  /\ turn \in 1 .. NumPlugins /\ pc \in Stages
  /\ file \in 1 .. NumFiles + 1
  /\ live \in Children /\ newest \in Children
  /\ work \in {"none", "ok", "err"}
  /\ told \subseteq Findings
  /\ stored \subseteq Files /\ passed \subseteq Files /\ jailed \subseteq Files
  /\ refused \in BOOLEAN
  /\ results \in [1 .. NumPlugins -> {"unused", "ok", "crashed", "refused"}]
  /\ recent \in 0 .. NumPlugins
  /\ panicked \in BOOLEAN

(* Every step keeps the types. *)
LEMMA TypeStep == TypeOK /\ OnAFile /\ CrashesCounted /\ [Next]_vars => TypeOK'
<1> SUFFICES ASSUME TypeOK, OnAFile, CrashesCounted, [Next]_vars PROVE TypeOK'
  OBVIOUS
<1>0. /\ proc \in [Children -> Proc] /\ RestOK
      /\ NumPlugins \in Nat \ {0} /\ NumFiles \in Nat /\ MaxRespawns \in Nat
      /\ 0 \in Children
  BY SupervisionAssumption DEF TypeOK, RestOK, Children
<1>a. ASSUME proc' \in [Children -> Proc], RestOK' PROVE TypeOK'
  BY <1>a DEF TypeOK, RestOK
<1>b. /\ \A i \in Children : Touches(i) => proc' \in [Children -> Proc]
      /\ \A i \in Children, new \in Proc : Becomes(i, new) => proc' \in [Children -> Proc]
      /\ \A i \in Children : Becomes(i, NoProc) => proc' \in [Children -> Proc]
  BY DEF Touches, Becomes
<1>d. 1 \in 1 .. NumFiles + 1 /\ (file <= NumFiles => file \in Files /\ file + 1 \in 1 .. NumFiles + 1)
  BY <1>0 DEF RestOK, Files
<1> USE DEF RestOK, plugin, run, Stages, Findings
<1>c. ASSUME NEW stop, NEW result \in {"ok", "crashed", "refused"}, NextPlugin(stop),
             results' = [results EXCEPT ![turn] = result], recent' \in 0 .. NumPlugins
      PROVE  TypeOK'
  <2>1. turn' \in 1 .. NumPlugins /\ pc' \in Stages
    BY <1>0, <1>c DEF NextPlugin
  <2>2. results' \in [1 .. NumPlugins -> {"unused", "ok", "crashed", "refused"}]
    BY <1>0, <1>c
  <2>3. /\ file' \in 1 .. NumFiles + 1 /\ live' \in Children /\ newest' \in Children
        /\ stored' = {} /\ passed' = {} /\ jailed' = {} /\ told' = {} /\ refused' \in BOOLEAN
        /\ work' = "none" /\ panicked' = FALSE
    BY <1>0, <1>c, <1>d DEF NextPlugin
  <2>4. proc' \in [Children -> Proc]
    BY <1>0, <1>c, NoneStillIsOne DEF NextPlugin
  <2> QED BY <1>0, <1>a, <1>c, <2>1, <2>2, <2>3, <2>4
<1>1. CASE StartPlugin
  BY <1>0, <1>1, <1>a, <1>b, TameByHost DEF StartPlugin
<1>2. CASE HandshakeDone \/ HandshakeFails
  BY <1>0, <1>2, <1>a, <1>b, TameByHost DEF HandshakeDone, HandshakeFails
<1>3. CASE BuryUnshaken
  BY <1>0, <1>3, <1>a, <1>b, TameByHost DEF BuryUnshaken
<1>4. CASE JailRefuses
  BY <1>0, <1>4, <1>a, <1>d DEF JailRefuses
<1>5. CASE Dispatch \/ CloseGood
  BY <1>0, <1>5, <1>a, <1>b, TameByHost DEF Dispatch, CloseGood
<1>6. CASE Answer
  <2>1. file <= NumFiles
    BY <1>6 DEF Answer, OnAFile
  <2>2. proc' \in [Children -> Proc] /\ pc' \in Stages /\ work' \in {"none", "ok", "err"}
    BY <1>0, <1>6, <1>b, TameByHost DEF Answer
  <2>3. stored' \subseteq Files /\ file' \in 1 .. NumFiles + 1
    BY <1>0, <1>6, <1>d, <2>1 DEF Answer
  <2>4. refused' \in BOOLEAN
    BY <1>0, <1>6 DEF Answer
  <2> QED BY <1>0, <1>6, <1>a, <2>2, <2>3, <2>4 DEF Answer
<1>7. CASE Breach
  BY <1>0, <1>7, <1>a DEF Breach
<1>8. CASE FileError \/ ShutdownAnswered \/ ShutdownFails
  BY <1>0, <1>8, <1>a, <1>b, TameByHost DEF FileError, ShutdownAnswered, ShutdownFails
<1>9. CASE Judge
  <2>1. file <= NumFiles
    BY <1>9 DEF Judge, OnAFile
  <2>2. CASE ~Survivable(proc[live])
    BY <1>0, <1>9, <1>a, <2>2 DEF Judge
  <2>3. CASE Survivable(proc[live])
    <3>1. newest + 1 \in Children
      BY <1>0, <2>3 DEF Survivable, Children
    <3>2. proc' \in [Children -> Proc]
      BY <1>0, <1>9, <1>b, <2>3, <3>1, TameByHost DEF Judge
    <3>3. passed' \subseteq Files /\ told' \subseteq Findings
      BY <1>0, <1>9, <1>d, <2>1, <2>3 DEF Judge
    <3>4. newest' \in Children /\ pc' \in Stages /\ work' \in {"none", "ok", "err"}
      BY <1>0, <1>9, <2>3, <3>1 DEF Judge
    <3> QED BY <1>0, <1>9, <1>a, <3>2, <3>3, <3>4 DEF Judge
  <2> QED BY <2>2, <2>3
<1>10. CASE Replace
  <2>1. file <= NumFiles
    BY <1>10 DEF Replace, OnAFile
  <2> QED BY <1>0, <1>10, <1>a, <1>b, <1>d, <2>1, TameByHost DEF Replace
<1>11. CASE EndLoop
  BY <1>0, <1>11, <1>a DEF EndLoop
<1>12. CASE CloseBad
  BY <1>0, <1>12, <1>a, <1>b, TameByHost DEF CloseBad
<1>13. CASE Reap
  BY <1>0, <1>13, <1>a, <1>b, TameByHost DEF Reap, Verdict
<1>14. CASE PluginDone
  BY <1>0, <1>14, <1>c DEF PluginDone
<1>15. CASE PluginCrashed
  <2>1. PICK kept \in 0 .. recent : recent' = kept + 1 /\ NextPlugin(Trips(kept + 1))
    BY <1>15 DEF PluginCrashed
  <2>2. recent' \in 0 .. NumPlugins
    BY <1>0, <1>15, <2>1 DEF PluginCrashed, CrashesCounted
  <2> QED BY <1>15, <1>c, <2>1, <2>2 DEF PluginCrashed
<1>16. CASE WriterRefused
  BY <1>0, <1>16, <1>c DEF WriterRefused
<1>17. ASSUME NEW i \in Children, Watchdog(i) \/ Die(i) PROVE TypeOK'
  <2>1. UNCHANGED <<pc, plugin, run>>
    BY <1>17 DEF Watchdog, Expire, Record, Strike, Die
  <2>2. RestOK'
    BY <1>0, <2>1
  <2> QED BY <1>17, <1>a, <1>b, <2>2, TameByItself
<1>18. CASE Panic
  BY <1>0, <1>18, <1>a DEF Panic
<1>19. CASE UNCHANGED vars
  BY <1>0, <1>19, <1>a DEF vars
<1> QED BY <1>1, <1>2, <1>3, <1>4, <1>5, <1>6, <1>7, <1>8, <1>9, <1>10, <1>11, <1>12, <1>13,
           <1>14, <1>15, <1>16, <1>17, <1>18, <1>19 DEF Next, Host, Broken, Plugin, Refusal
-----------------------------------------------------------------------------
(* Every step keeps the host on a file there is, and the breaker's count. *)
LEMMA CountStep == TypeOK /\ OnAFile /\ CrashesCounted /\ [Next]_vars => OnAFile' /\ CrashesCounted'
<1> SUFFICES ASSUME TypeOK, OnAFile, CrashesCounted, [Next]_vars
             PROVE  OnAFile' /\ CrashesCounted'
  OBVIOUS
<1>0. turn \in Nat /\ recent \in Nat /\ NumPlugins \in Nat /\ file \in Nat /\ NumFiles \in Nat
  BY SupervisionAssumption DEF TypeOK
<1> USE DEF OnAFile, CrashesCounted, plugin, run
<1>1. CASE StartPlugin \/ BuryUnshaken \/ JailRefuses \/ Dispatch \/ Judge \/ Replace
  BY <1>0, <1>1 DEF StartPlugin, BuryUnshaken, JailRefuses, Dispatch, Judge, Replace
<1>2. CASE EndLoop \/ CloseGood \/ CloseBad \/ Reap
  BY <1>0, <1>2 DEF EndLoop, CloseGood, CloseBad, Reap
<1>3. CASE PluginDone
  BY <1>0, <1>3 DEF PluginDone, NextPlugin
<1>4. CASE PluginCrashed
  BY <1>0, <1>4 DEF PluginCrashed, NextPlugin
<1>5. CASE WriterRefused
  BY <1>0, <1>5 DEF WriterRefused, NextPlugin
<1>6. CASE HandshakeDone \/ HandshakeFails \/ Answer \/ Breach
  BY <1>0, <1>6 DEF HandshakeDone, HandshakeFails, Answer, Breach, Shaking
<1>7. CASE ShutdownAnswered \/ FileError \/ ShutdownFails
  BY <1>0, <1>7 DEF ShutdownAnswered, FileError, ShutdownFails
<1>10. CASE Panic
  BY <1>0, <1>10 DEF Panic
<1>8. ASSUME NEW i \in Children, Watchdog(i) \/ Die(i) PROVE OnAFile' /\ CrashesCounted'
  BY <1>0, <1>8 DEF Watchdog, Expire, Record, Strike, Die
<1>9. CASE UNCHANGED vars
  BY <1>9 DEF vars
<1> QED BY <1>1, <1>2, <1>3, <1>4, <1>5, <1>6, <1>7, <1>8, <1>9, <1>10
        DEF Next, Host, Broken, Plugin, Refusal

(* Every step keeps each child attended. *)
LEMMA AttendedStep == TypeOK /\ Attended /\ [Next]_vars => Attended'
<1> SUFFICES ASSUME TypeOK, Attended, [Next]_vars PROVE Attended'
  OBVIOUS
<1>0. /\ proc \in [Children -> Proc] /\ live \in Children /\ newest \in Children
      /\ 0 \in Children
  BY SupervisionAssumption DEF TypeOK, Children
<1>a. \A i \in Children : Touches(i) => \A j \in Children \ {i} : proc'[j] = proc[j]
  BY DEF Touches, Becomes
<1> USE DEF Attended, plugin, run
<1>1. CASE StartPlugin
  <2>1. Spawned(0) => \A j \in Children \ {0} : proc'[j] = proc[j]
    BY <1>0, TameByHost DEF Becomes
  <2> QED BY <1>0, <1>1, <2>1 DEF StartPlugin
<1>2. CASE HandshakeDone \/ HandshakeFails
  BY <1>0, <1>2, <1>a, TameByHost DEF HandshakeDone, HandshakeFails, Shaking
<1>3. CASE BuryUnshaken
  BY <1>0, <1>3, TameByHost DEF BuryUnshaken, Becomes
<1>4. CASE JailRefuses \/ Breach \/ EndLoop
  BY <1>0, <1>4 DEF JailRefuses, Breach, EndLoop
<1>5. CASE Dispatch \/ CloseGood
  BY <1>0, <1>5, TameByHost DEF Dispatch, CloseGood, Becomes
<1>6. CASE Answer
  BY <1>0, <1>6, <1>a, TameByHost DEF Answer
<1>7. CASE FileError
  BY <1>0, <1>7, <1>a, TameByHost DEF FileError
<1>8. CASE ShutdownAnswered \/ ShutdownFails
  BY <1>0, <1>8, <1>a, TameByHost DEF ShutdownAnswered, ShutdownFails
<1>9. CASE Judge
  <2>1. CASE UNCHANGED <<newest, proc>>
    BY <1>0, <1>9, <2>1 DEF Judge
  <2>2. CASE newest' = newest + 1 /\ Spawned(newest + 1) /\ Survivable(proc[live])
    <3>1. newest + 1 \in Children
      BY <1>0, <2>2, SupervisionAssumption DEF Survivable, Children
    <3>2. \A j \in Children \ {newest + 1} : proc'[j] = proc[j]
      BY <2>2, <3>1, TameByHost DEF Becomes
    <3>3. /\ pc = "judging" /\ pc' \in {"rehandshake", "ended"}
          /\ UNCHANGED <<live, panicked>>
      BY <1>9 DEF Judge
    <3>4. pc' = "rehandshake"
      BY <1>0, <1>9, <2>2, <3>1 DEF Judge, Children
    <3> QED BY <1>0, <2>2, <3>2, <3>3, <3>4
  <2> QED BY <1>9, <2>1, <2>2 DEF Judge
<1>10. CASE Replace
  BY <1>0, <1>10, TameByHost DEF Replace, Becomes
<1>11. CASE CloseBad
  BY <1>0, <1>11, <1>a, TameByHost DEF CloseBad
<1>12. CASE Reap
  BY <1>0, <1>12, TameByHost DEF Reap, Becomes
<1>13. CASE PluginDone \/ PluginCrashed \/ WriterRefused
  BY <1>0, <1>13 DEF PluginDone, PluginCrashed, WriterRefused, NextPlugin
<1>14. ASSUME NEW i \in Children, Watchdog(i) \/ Die(i) PROVE Attended'
  <2>1. UNCHANGED <<pc, live, newest, work, panicked>>
    BY <1>14 DEF Watchdog, Expire, Record, Strike, Die
  <2> QED BY <1>14, <1>a, <2>1, TameByItself
<1>15. CASE Panic
  BY <1>15 DEF Panic
<1>16. CASE UNCHANGED vars
  BY <1>16 DEF vars
<1> QED BY <1>1, <1>2, <1>3, <1>4, <1>5, <1>6, <1>7, <1>8, <1>9, <1>10, <1>11, <1>12, <1>13,
           <1>14, <1>15, <1>16 DEF Next, Host, Broken, Plugin, Refusal

(* The accounts depend on the three sets alone, and grow by the next file. *)
LEMMA Accounting ==
  ASSUME TypeOK
  PROVE  /\ \A n \in Nat : AccountedTo(n) /\ UNCHANGED <<stored, passed, jailed>> => AccountedTo(n)'
         /\ /\ AccountedTo(file - 1)
            /\ \/ stored' = stored \cup {file} /\ UNCHANGED <<passed, jailed>>
               \/ passed' = passed \cup {file} /\ UNCHANGED <<stored, jailed>>
               \/ jailed' = jailed \cup {file} /\ UNCHANGED <<stored, passed>>
            => stored' \cup passed' \cup jailed' = 1 .. file
               /\ stored' \cap passed' = {} /\ jailed' \cap (stored' \cup passed') = {}
<1>0. file \in Nat \ {0}
  BY SupervisionAssumption DEF TypeOK
<1>1. (1 .. (file - 1)) \cup {file} = 1 .. file /\ file \notin 1 .. (file - 1)
  BY <1>0
<1>2. ASSUME NEW F \in SUBSET (1 .. (file - 1)), NEW G \in SUBSET (1 .. (file - 1)),
             NEW H \in SUBSET (1 .. (file - 1)), F \cup G \cup H = 1 .. (file - 1)
      PROVE  (F \cup {file}) \cup G \cup H = 1 .. file
             /\ file \notin F /\ file \notin G /\ file \notin H
  BY <1>1, <1>2
<1>3. AccountedTo(file - 1) =>
        /\ stored \subseteq 1 .. (file - 1) /\ passed \subseteq 1 .. (file - 1)
        /\ jailed \subseteq 1 .. (file - 1)
  BY DEF AccountedTo
<1> QED BY <1>1, <1>2, <1>3 DEF AccountedTo

(* Every step keeps the accounts. *)
LEMMA FilesStep == TypeOK /\ Attended /\ FilesKept /\ [Next]_vars => FilesKept'
<1> SUFFICES ASSUME TypeOK, Attended, FilesKept, [Next]_vars PROVE FilesKept'
  OBVIOUS
<1>0. file \in Nat \ {0} /\ NumFiles \in Nat /\ file - 1 \in Nat
  BY SupervisionAssumption DEF TypeOK
<1>a. ASSUME UNCHANGED <<stored, passed, jailed>>
      PROVE  \A n \in Nat : AccountedTo(n) => AccountedTo(n)'
  BY <1>a, Accounting
<1>s. panicked => pc = "settled"
  BY DEF Attended
<1> USE DEF FilesKept, plugin, run
<1>1. CASE StartPlugin \/ HandshakeDone \/ HandshakeFails \/ Dispatch \/ Breach
  BY <1>0, <1>1, <1>a DEF StartPlugin, HandshakeDone, HandshakeFails, Dispatch, Breach, Shaking
<1>2. CASE BuryUnshaken
  BY <1>2 DEF BuryUnshaken
<1>b. ASSUME \/ stored' = stored \cup {file} /\ UNCHANGED <<passed, jailed>>
             \/ passed' = passed \cup {file} /\ UNCHANGED <<stored, jailed>>
             \/ jailed' = jailed \cup {file} /\ UNCHANGED <<stored, passed>>
      PROVE  /\ AccountedTo(file - 1) /\ file' = file + 1 => AccountedTo(file - 1)'
             /\ AccountedTo(file - 1) /\ file' = file => AccountedTo(file)'
  BY <1>0, <1>b, Accounting DEF AccountedTo
<1>3. CASE JailRefuses
  BY <1>3, <1>b DEF JailRefuses
<1>4. CASE Answer
  BY <1>0, <1>4, <1>a, <1>b DEF Answer
<1>5. CASE FileError
  BY <1>0, <1>5, <1>a DEF FileError
<1>6. CASE Judge
  <2>1. CASE Survivable(proc[live])
    BY <1>6, <1>b, <2>1 DEF Judge
  <2>2. CASE ~Survivable(proc[live])
    BY <1>6, <1>a, <2>2 DEF Judge
  <2> QED BY <2>1, <2>2
<1>7. CASE Replace
  <2>1. AccountedTo(file) => AccountedTo(file - 1)'
    BY <1>0, <1>7 DEF Replace, AccountedTo
  <2> QED BY <1>7, <2>1 DEF Replace
<1>8. CASE EndLoop
  <2>1. file - 1 = NumFiles
    BY <1>0, <1>8, SupervisionAssumption DEF EndLoop, TypeOK
  <2> QED BY <1>0, <1>8, <1>a, <2>1 DEF EndLoop
<1>9. CASE CloseGood \/ CloseBad \/ ShutdownAnswered \/ ShutdownFails
  BY <1>0, <1>9, <1>a DEF CloseGood, CloseBad, ShutdownAnswered, ShutdownFails
<1>10. CASE Reap
  BY <1>0, <1>10, <1>a DEF Reap, Verdict
<1>11. CASE PluginDone \/ PluginCrashed \/ WriterRefused
  <2>1. file' = 1 /\ stored' = {} /\ passed' = {} /\ jailed' = {} /\ pc' \in {"next", "done"}
    BY <1>11 DEF PluginDone, PluginCrashed, WriterRefused, NextPlugin
  <2>2. AccountedTo(file - 1)'
    BY <2>1 DEF AccountedTo
  <2> QED BY <2>1, <2>2
<1>12. ASSUME NEW i \in Children, Watchdog(i) \/ Die(i) PROVE FilesKept'
  <2>1. UNCHANGED <<pc, file, work, told, stored, passed, jailed, panicked>>
    BY <1>12 DEF Watchdog, Expire, Record, Strike, Die
  <2> QED BY <1>0, <1>a, <2>1
<1>13. CASE Panic
  BY <1>13 DEF Panic
<1>14. CASE UNCHANGED vars
  BY <1>0, <1>14, <1>a DEF vars
<1> QED BY <1>1, <1>2, <1>3, <1>4, <1>5, <1>6, <1>7, <1>8, <1>9, <1>10, <1>11, <1>12, <1>13, <1>14
        DEF Next, Host, Broken, Plugin, Refusal

(* Every step keeps a cut shutdown the affair of a good plugin. *)
LEMMA CutStep == TypeOK /\ Attended /\ CutOnlyWhenGood /\ [Next]_vars => CutOnlyWhenGood'
<1> SUFFICES ASSUME TypeOK, Attended, CutOnlyWhenGood, [Next]_vars PROVE CutOnlyWhenGood'
  OBVIOUS
<1>0. /\ proc \in [Children -> Proc] /\ live \in Children /\ newest \in Children
      /\ 0 \in Children /\ ~Cuts(NoProc)
  BY SupervisionAssumption DEF TypeOK, Children, NoProc, Cuts
<1>a. ASSUME NEW i \in Children, Touches(i)
      PROVE  \A j \in Children : Cuts(proc'[j]) => Cuts(proc[j])
  BY <1>a DEF Touches, Becomes, Tamely
<1>b. ASSUME NEW i \in Children, Becomes(i, NoProc)
      PROVE  \A j \in Children : Cuts(proc'[j]) => Cuts(proc[j]) /\ j # i
  BY <1>0, <1>b DEF Becomes
<1>c. ASSUME NEW i \in Children, Spawned(i)
      PROVE  \A j \in Children : Cuts(proc'[j]) => Cuts(proc[j])
  BY <1>0, <1>c, TameByHost DEF Becomes
<1>s. panicked => pc = "settled"
  BY DEF Attended
<1> USE DEF CutOnlyWhenGood, plugin, run
<1>1. CASE StartPlugin
  BY <1>0, <1>1, <1>c DEF StartPlugin
<1>2. CASE HandshakeDone \/ HandshakeFails
  BY <1>0, <1>2, <1>a, TameByHost DEF HandshakeDone, HandshakeFails, Shaking
<1>3. CASE BuryUnshaken
  BY <1>0, <1>3, <1>b, TameByHost DEF BuryUnshaken
<1>4. CASE JailRefuses \/ Breach
  BY <1>4 DEF JailRefuses, Breach
<1>5. CASE Dispatch
  BY <1>0, <1>5, TameByHost DEF Dispatch, Becomes
<1>6. CASE CloseGood
  BY <1>0, <1>6, TameByHost DEF CloseGood, Becomes
<1>7. CASE Answer \/ FileError
  <2>1. ~panicked /\ \A j \in Children : ~Cuts(proc[j])
    BY <1>7, <1>s DEF Answer, FileError
  <2>2. \A j \in Children : ~Cuts(proc'[j])
    BY <1>0, <1>7, <1>a, <2>1, TameByHost
  <2> QED BY <1>7, <2>2 DEF Answer, FileError
<1>8. CASE Judge
  <2>1. CASE UNCHANGED proc
    BY <1>8, <2>1 DEF Judge
  <2>2. CASE Spawned(newest + 1) /\ Survivable(proc[live])
    <3>1. newest + 1 \in Children
      BY <1>0, <2>2, SupervisionAssumption DEF Survivable, Children
    <3> QED BY <1>0, <1>8, <1>c, <2>2, <3>1 DEF Judge
  <2> QED BY <1>8, <2>1, <2>2 DEF Judge
<1>9. CASE Replace
  BY <1>0, <1>9, <1>b, TameByHost DEF Replace
<1>10. CASE EndLoop
  BY <1>10 DEF EndLoop
<1>11. CASE CloseBad
  BY <1>0, <1>11, <1>a, TameByHost DEF CloseBad
<1>12. CASE ShutdownAnswered \/ ShutdownFails
  BY <1>0, <1>12, <1>a, TameByHost DEF ShutdownAnswered, ShutdownFails
<1>13. CASE Reap
  <2>0. ~panicked /\ pc = "joining"
    BY <1>13, <1>s DEF Reap
  <2>1. \A j \in Children : ~Cuts(proc'[j])
    BY <1>0, <1>13, <1>b, <2>0, TameByHost
  <2>2. proc[live].latched = "shutdown" => work = "ok" /\ "oom" \notin told
    BY <1>0, <2>0 DEF Cuts
  <2>3. "shutdown" \in told' => proc[live].latched = "shutdown"
    BY <1>13 DEF Reap
  <2>4. "oom" \in told' => "oom" \in told \/ proc[live].latched = None
    BY <1>13 DEF Reap
  <2> QED BY <1>13, <2>1, <2>2, <2>3, <2>4, SupervisionAssumption DEF Reap, Verdict
<1>14. CASE PluginDone \/ PluginCrashed \/ WriterRefused
  <2>1. pc = "settled" /\ told' = {} /\ proc' = IF panicked THEN [i \in Children |-> NoProc] ELSE proc
    BY <1>14 DEF PluginDone, PluginCrashed, WriterRefused, NextPlugin
  <2>2. \A j \in Children : ~Cuts(proc'[j])
    BY <1>0, <2>1
  <2> QED BY <2>1, <2>2
<1>15. ASSUME NEW i \in Children, Watchdog(i) \/ Die(i) PROVE CutOnlyWhenGood'
  <2>1. UNCHANGED <<pc, live, work, told, panicked>>
    BY <1>15 DEF Watchdog, Expire, Record, Strike, Die
  <2> QED BY <1>15, <1>a, <2>1, TameByItself
<1>16. CASE Panic
  BY <1>16 DEF Panic
<1>17. CASE UNCHANGED vars
  BY <1>17 DEF vars
<1> QED BY <1>1, <1>2, <1>3, <1>4, <1>5, <1>6, <1>7, <1>8, <1>9, <1>10, <1>11, <1>12, <1>13,
           <1>14, <1>15, <1>16, <1>17 DEF Next, Host, Broken, Plugin, Refusal
-----------------------------------------------------------------------------
(* The loop starts with no child, no crash and every file before it. *)
LEMMA InitIInv == Init => IInv
<1> SUFFICES ASSUME Init PROVE IInv
  OBVIOUS
<1>1. 0 \in Children /\ NoProc \in Proc
  BY SupervisionAssumption DEF Children, NoProc, Proc
<1>2. TypeOK
  <2>1. turn \in 1 .. NumPlugins /\ file \in 1 .. NumFiles + 1 /\ recent \in 0 .. NumPlugins
    BY SupervisionAssumption DEF Init
  <2>2. /\ proc \in [Children -> Proc]
        /\ results \in [1 .. NumPlugins -> {"unused", "ok", "crashed", "refused"}]
    BY <1>1 DEF Init
  <2> QED BY <1>1, <2>1, <2>2 DEF Init, TypeOK, Stages
<1>3. OnAFile /\ CrashesCounted /\ Attended
  BY <1>1 DEF Init, OnAFile, CrashesCounted, Attended
<1>4. AccountedTo(file - 1)
  BY DEF Init, AccountedTo
<1>5. FilesKept
  BY <1>4 DEF Init, FilesKept
<1>6. CutOnlyWhenGood
  BY SupervisionAssumption DEF Init, CutOnlyWhenGood, Cuts, NoProc
<1> QED BY <1>2, <1>3, <1>5, <1>6 DEF IInv

(* The inductive invariant holds throughout a plugin loop. *)
LEMMA SpecIInv == Spec => []IInv
<1>1. IInv /\ [Next]_vars => IInv'
  BY TypeStep, CountStep, AttendedStep, FilesStep, CutStep DEF IInv
<1> QED BY InitIInv, <1>1, PTL DEF Spec

(* The loop's variables keep their types, whatever host, watchdogs and plugins do. *)
THEOREM TypeSafety == Spec => []TypeOK
<1>1. IInv => TypeOK
  BY DEF IInv
<1> QED BY <1>1, SpecIInv, PTL

(* However a plugin's turn ends, short of a panic of the task that runs it, each
   child spawned for it has been waited for. *)
THEOREM ChildrenWaitedFor == Spec => []NoChildLeft
<1>1. IInv => NoChildLeft
  BY DEF IInv, Attended, NoChildLeft
<1> QED BY <1>1, SpecIInv, PTL

(* A plugin that counts as good has each file stored, refused or passed over, once. *)
THEOREM NoFileDisappears == Spec => []FilesAccounted
<1>1. IInv => FilesAccounted
  BY DEF IInv, Attended, FilesKept, AccountedTo, FilesAccounted, Files
<1> QED BY <1>1, SpecIInv, PTL

(* A shutdown cut short neither fails its plugin nor is taken for an OOM kill. *)
THEOREM ShutdownCostsNothing == Spec => []ShutdownIsEtiquette
<1>1. IInv => ShutdownIsEtiquette
  BY DEF IInv, CutOnlyWhenGood, ShutdownIsEtiquette
<1> QED BY <1>1, SpecIInv, PTL
-----------------------------------------------------------------------------
(***************************************************************************)
(* Why the loop ends: somebody other than the plugin can always go on, and *)
(* nobody can go on for ever.                                              *)
(***************************************************************************)

(* The guards of Host and Broken, and those of Watchdog(i). *)
HostMayGo ==
  \/ pc \in {"next", "ready", "judging", "ended", "settled"}
  \/ pc = "unshaken" /\ Joined(newest)
  \/ pc \in {"replacing", "joining"} /\ Joined(live)
  \/ Shaking /\ ~Alive(newest)
  \/ pc \in {"asked", "expelling", "closing"} /\ ~Alive(live)

WatchdogMayGo(i) == proc[i].deadline # None \/ proc[i].expired # None \/ proc[i].striking

(* A living child that the host waits for has its watchdog after it. *)
Guarded ==
  /\ Shaking /\ Alive(newest) => WatchdogMayGo(newest)
  /\ pc \in {"asked", "expelling", "closing"} /\ Alive(live) => WatchdogMayGo(live)

(* Before the end, the host or a watchdog can take a step. *)
NeverHangs == pc # "done" => HostMayGo \/ \E i \in Children : WatchdogMayGo(i)

(* How far the host is from the end of the turn: the files to come, and the
   longest way there is from here to the next file or to the end. *)
StagesLeft ==
  [stage \in Stages |->
     CASE stage = "next"   -> 14 [] stage = "handshake"   -> 13 [] stage = "ready"     -> 12
       [] stage = "asked"  -> 11 [] stage = "expelling"   -> 10 [] stage = "judging"   -> 9
       [] stage = "rehandshake" -> 8 [] stage = "replacing" -> 7 [] stage = "unshaken" -> 6
       [] stage = "ended"  -> 5  [] stage = "closing"     -> 4  [] stage = "joining"   -> 3
       [] stage = "settled" -> 2 [] OTHER -> 0]

TurnLeft == 10 * (NumFiles + 1 - file) + StagesLeft[pc]

(* How much a child and its watchdog can still do of themselves. *)
Unrest(p) == (IF p.child = "alive" THEN 1 ELSE 0) + (IF p.deadline # None THEN 3 ELSE 0)
             + (IF p.expired # None THEN 2 ELSE 0) + (IF p.striking THEN 1 ELSE 0)

TurnOver ==
  /\ pc = "settled"
  /\ \/ pc' = "next" /\ turn' = turn + 1 /\ turn' <= NumPlugins
     \/ pc' = "done" /\ UNCHANGED turn

TurnGoesOn == UNCHANGED turn /\ TurnLeft' \in Nat /\ TurnLeft' < TurnLeft

ChildCalmsDown ==
  /\ pc # "done"
  /\ UNCHANGED <<turn, pc, file>>
  /\ \E i \in Children : /\ Unrest(proc'[i]) < Unrest(proc[i])
                         /\ \A j \in Children \ {i} : proc'[j] = proc[j]

NothingRepeats == [][TurnOver \/ TurnGoesOn \/ ChildCalmsDown]_vars

(* What the watchdog or a child does by itself leaves that child with less to
   do, and a watchdog at work stays so until its child is dead. *)
LEMMA CalmingByItself ==
  ASSUME TypeOK, NEW i \in Children, Watchdog(i) \/ Die(i)
  PROVE  /\ proc'[i] \in Proc /\ Unrest(proc'[i]) < Unrest(proc[i])
         /\ \A j \in Children \ {i} : proc'[j] = proc[j]
         /\ WatchdogMayGo(i) => WatchdogMayGo(i)' \/ ~Alive(i)'
<1> DEFINE p == proc[i]
<1>0. proc \in [Children -> Proc] /\ p \in Proc
  BY DEF TypeOK
<1>a. ASSUME NEW new \in Proc, proc' = [proc EXCEPT ![i] = new], Unrest(new) < Unrest(p),
             new.deadline # None \/ new.expired # None \/ new.striking \/ new.child # "alive"
               \/ ~WatchdogMayGo(i)
      PROVE  /\ proc'[i] \in Proc /\ Unrest(proc'[i]) < Unrest(proc[i])
             /\ \A j \in Children \ {i} : proc'[j] = proc[j]
             /\ WatchdogMayGo(i) => WatchdogMayGo(i)' \/ ~Alive(i)'
  BY <1>0, <1>a DEF WatchdogMayGo, Alive
<1> HIDE DEF p
<1>1. CASE Expire(i)
  <2> DEFINE new == [p EXCEPT !.deadline = None, !.expired = p.deadline]
  <2>1. p.deadline # None /\ p.expired = None /\ proc' = [proc EXCEPT ![i] = new]
    BY <1>1 DEF Expire, p
  <2>2. new \in Proc /\ new.expired # None /\ new.deadline = None
        /\ new.child = p.child /\ new.striking = p.striking
    BY <1>0, <2>1 DEF Proc
  <2>3. Unrest(new) < Unrest(p)
    BY <2>1, <2>2 DEF Unrest
  <2> QED BY <1>a, <2>1, <2>2, <2>3
<1>2. CASE Record(i)
  <2> DEFINE new == [p EXCEPT !.expired = None, !.striking = TRUE, !.latched = FirstWins(p)]
  <2>1. p.expired # None /\ proc' = [proc EXCEPT ![i] = new]
    BY <1>2 DEF Record, p
  <2>2. new \in Proc /\ new.striking /\ new.expired = None
        /\ new.child = p.child /\ new.deadline = p.deadline
    BY <1>0, <2>1 DEF Proc, FirstWins
  <2>3. Unrest(new) < Unrest(p)
    BY <2>1, <2>2 DEF Unrest
  <2> QED BY <1>a, <2>1, <2>2, <2>3
<1>3. CASE Strike(i)
  <2> DEFINE new == [KilledIfAlive(p) EXCEPT !.striking = FALSE]
  <2>1. p.striking /\ proc' = [proc EXCEPT ![i] = new]
    BY <1>3 DEF Strike, p
  <2>2. new \in Proc /\ new.child # "alive" /\ ~new.striking
        /\ new.expired = p.expired /\ new.deadline = p.deadline
    BY <1>0, <2>1 DEF Proc, KilledIfAlive
  <2>3. Unrest(new) < Unrest(p)
    BY <2>1, <2>2 DEF Unrest
  <2> QED BY <1>a, <2>1, <2>2, <2>3
<1>4. CASE Die(i)
  <2>1. PICK end \in {"crashed", "left"} : proc' = [proc EXCEPT ![i].child = end]
    BY <1>4 DEF Die
  <2> DEFINE new == [p EXCEPT !.child = end]
  <2>2. p.child = "alive" /\ proc' = [proc EXCEPT ![i] = new]
    BY <1>0, <1>4, <2>1 DEF Die, Alive, p
  <2>3. new \in Proc /\ new.child # "alive" /\ Unrest(new) < Unrest(p)
    BY <1>0, <2>2 DEF Proc, Unrest
  <2> QED BY <1>a, <2>2, <2>3
<1> QED BY <1>1, <1>2, <1>3, <1>4 DEF Watchdog

(* The dead stay dead. *)
LEMMA StaysDead ==
  ASSUME TypeOK, NEW i \in Children, Watchdog(i) \/ Die(i)
  PROVE  ~Alive(i) => ~Alive(i)'
<1>0. proc \in [Children -> Proc] /\ proc[i] \in Proc
  BY DEF TypeOK
<1>1. CASE Expire(i)
  BY <1>0, <1>1 DEF Expire, Alive, Proc
<1>2. CASE Record(i)
  BY <1>0, <1>2 DEF Record, Alive, Proc
<1>3. CASE Strike(i)
  <2>1. KilledIfAlive(proc[i]) \in Proc /\ KilledIfAlive(proc[i]).child # "alive"
    BY <1>0 DEF KilledIfAlive, Proc
  <2> QED BY <1>0, <1>3, <2>1 DEF Strike, Alive, Proc
<1>4. CASE Die(i)
  BY <1>4 DEF Die
<1> QED BY <1>1, <1>2, <1>3, <1>4 DEF Watchdog

(* Every step keeps a watchdog after the child the host waits for. *)
LEMMA GuardedStep == TypeOK /\ Attended /\ Guarded /\ [Next]_vars => Guarded'
<1> SUFFICES ASSUME TypeOK, Attended, Guarded, [Next]_vars PROVE Guarded'
  OBVIOUS
<1>0. /\ proc \in [Children -> Proc] /\ live \in Children /\ newest \in Children
      /\ 0 \in Children /\ None \notin Phases
  BY SupervisionAssumption DEF TypeOK, Children, Phases
<1> USE DEF Guarded, plugin, run, Shaking
<1>a. ASSUME NEW i \in Children, Spawned(i) PROVE WatchdogMayGo(i)'
  BY <1>0, <1>a, SupervisionAssumption DEF Spawned, WatchdogMayGo, NoProc
<1>b. ASSUME NEW ph \in {"file", "shutdown"}, proc' = Armed(live, ph), UNCHANGED live
      PROVE  WatchdogMayGo(live)'
  BY <1>0, <1>b DEF Armed, WatchdogMayGo, Proc, Phases
<1>1. CASE StartPlugin
  BY <1>0, <1>1, <1>a DEF StartPlugin, Attended
<1>2. CASE HandshakeDone \/ HandshakeFails
  BY <1>2 DEF HandshakeDone, HandshakeFails
<1>3. CASE BuryUnshaken \/ JailRefuses \/ EndLoop \/ Reap \/ Replace \/ CloseBad
  BY <1>3 DEF BuryUnshaken, JailRefuses, EndLoop, Reap, Replace, CloseBad
<1>4. CASE Dispatch \/ CloseGood
  BY <1>4, <1>b DEF Dispatch, CloseGood
<1>5. CASE Answer \/ FileError \/ ShutdownAnswered \/ ShutdownFails
  BY <1>5 DEF Answer, FileError, ShutdownAnswered, ShutdownFails
<1>6. CASE Breach
  BY <1>6 DEF Breach, WatchdogMayGo, Alive
<1>7. CASE Judge
  <2>1. Survivable(proc[live]) => newest + 1 \in Children
    BY SupervisionAssumption DEF TypeOK, Survivable, Children
  <2> QED BY <1>7, <1>a, <2>1 DEF Judge
<1>8. CASE PluginDone \/ PluginCrashed \/ WriterRefused
  BY <1>8 DEF PluginDone, PluginCrashed, WriterRefused, NextPlugin
<1>9. ASSUME NEW i \in Children, Watchdog(i) \/ Die(i) PROVE Guarded'
  <2>1. UNCHANGED <<pc, live, newest>>
    BY <1>9 DEF Watchdog, Expire, Record, Strike, Die
  <2>2. \A j \in Children : WatchdogMayGo(j) \/ ~Alive(j) => WatchdogMayGo(j)' \/ ~Alive(j)'
    <3> TAKE j \in Children
    <3>1. CASE j = i
      <4>1. ~Alive(i) => ~Alive(i)'
        BY <1>9, StaysDead
      <4> QED BY <1>9, <3>1, <4>1, CalmingByItself
    <3>2. CASE j # i
      BY <1>9, <3>2, CalmingByItself DEF WatchdogMayGo, Alive
    <3> QED BY <3>1, <3>2
  <2> QED BY <1>0, <2>1, <2>2
<1>10. CASE Panic
  BY <1>10 DEF Panic
<1>11. CASE UNCHANGED vars
  BY <1>11 DEF vars, WatchdogMayGo, Alive
<1> QED BY <1>1, <1>2, <1>3, <1>4, <1>5, <1>6, <1>7, <1>8, <1>9, <1>10, <1>11
        DEF Next, Host, Broken, Plugin, Refusal

(* At any time before the end the host can go on, or a watchdog can act for it,
   without a word from the plugin: no answer is waited for without a deadline. *)
THEOREM NobodyHangs == Spec => []NeverHangs
<1>1. Init => Guarded
  BY DEF Init, Guarded, Shaking
<1>2. Spec => []Guarded
  <2>1. IInv /\ Guarded /\ [Next]_vars => Guarded'
    BY GuardedStep DEF IInv
  <2> QED BY <1>1, <2>1, SpecIInv, PTL DEF Spec
<1>3. IInv /\ Guarded => NeverHangs
  <2> SUFFICES ASSUME TypeOK, Guarded, pc # "done"
               PROVE  HostMayGo \/ \E i \in Children : WatchdogMayGo(i)
    BY DEF IInv, NeverHangs
  <2>1. live \in Children /\ newest \in Children /\ pc \in Stages
    BY DEF TypeOK
  <2>2. \A i \in Children : Joined(i) \/ WatchdogMayGo(i)
    BY DEF Joined, WatchdogMayGo
  <2> QED BY <2>1, <2>2 DEF Guarded, HostMayGo, Stages, Shaking
<1> QED BY <1>2, <1>3, SpecIInv, PTL

(* The stages in numbers. *)
LEMMA StageValues ==
  /\ StagesLeft["next"] = 14 /\ StagesLeft["handshake"] = 13 /\ StagesLeft["ready"] = 12
  /\ StagesLeft["asked"] = 11 /\ StagesLeft["expelling"] = 10 /\ StagesLeft["judging"] = 9
  /\ StagesLeft["rehandshake"] = 8 /\ StagesLeft["replacing"] = 7 /\ StagesLeft["unshaken"] = 6
  /\ StagesLeft["ended"] = 5 /\ StagesLeft["closing"] = 4 /\ StagesLeft["joining"] = 3
  /\ StagesLeft["settled"] = 2 /\ StagesLeft["done"] = 0
  BY DEF StagesLeft, Stages

(* What is left of a turn is a number, before a step and after it. *)
LEMMA TurnLeftIsNat == (TypeOK => TurnLeft \in Nat) /\ (TypeOK' => TurnLeft' \in Nat)
<1>1. \A stage \in Stages : StagesLeft[stage] \in 0 .. 14
  BY StageValues DEF Stages
<1>2. TypeOK => file \in 1 .. NumFiles + 1 /\ pc \in Stages
  BY DEF TypeOK
<1>3. TypeOK' => file' \in 1 .. NumFiles + 1 /\ pc' \in Stages
  BY DEF TypeOK
<1> QED BY <1>1, <1>2, <1>3, SupervisionAssumption DEF TurnLeft

(* No step is taken twice in a turn: the host comes nearer to the end of it with
   every step, at most NumPlugins turns are taken, and in between watchdogs and
   children can only use up what they have been given. *)
THEOREM LoopIsBounded == Spec => NothingRepeats
<1>1. IInv /\ IInv' /\ [Next]_vars => [TurnOver \/ TurnGoesOn \/ ChildCalmsDown]_vars
  <2> SUFFICES ASSUME TypeOK, TypeOK', OnAFile, Attended, Next
               PROVE  TurnOver \/ TurnGoesOn \/ ChildCalmsDown
    BY DEF IInv
  <2>0. /\ file \in Nat /\ NumFiles \in Nat /\ file' \in Nat
        /\ TurnLeft \in Nat /\ TurnLeft' \in Nat
    BY SupervisionAssumption, TurnLeftIsNat DEF TypeOK
  <2> USE StageValues DEF TurnGoesOn, TurnLeft, plugin, run
  <2>1. CASE StartPlugin \/ HandshakeDone \/ HandshakeFails \/ BuryUnshaken
    BY <2>0, <2>1 DEF StartPlugin, HandshakeDone, HandshakeFails, BuryUnshaken, Shaking
  <2>2. CASE JailRefuses \/ Dispatch \/ Breach
    BY <2>0, <2>2 DEF JailRefuses, Dispatch, Breach
  <2>7. CASE Answer
    <3>1. pc = "asked" /\ turn' = turn
      BY <2>7 DEF Answer
    <3>2. CASE pc' = "ready" /\ file' = file + 1
      BY <2>0, <3>1, <3>2
    <3>3. CASE pc' = "ended" /\ file' = file
      BY <2>0, <3>1, <3>3
    <3> QED BY <2>7, <3>2, <3>3 DEF Answer
  <2>3. CASE FileError \/ Judge \/ Replace \/ EndLoop
    BY <2>0, <2>3 DEF FileError, Judge, Replace, EndLoop
  <2>4. CASE CloseGood \/ CloseBad \/ ShutdownAnswered \/ ShutdownFails \/ Reap
    BY <2>0, <2>4 DEF CloseGood, CloseBad, ShutdownAnswered, ShutdownFails, Reap
  <2>5. CASE PluginDone \/ PluginCrashed \/ WriterRefused
    <3>1. pc = "settled" /\ \E stop : NextPlugin(stop)
      BY <2>5 DEF PluginDone, PluginCrashed, WriterRefused
    <3> QED BY <3>1, SupervisionAssumption DEF NextPlugin, TurnOver, TypeOK
  <2>8. CASE Panic
    <3>1. pc \in Stages /\ pc \notin {"next", "settled", "done"} /\ pc' = "settled"
          /\ UNCHANGED <<turn, file>>
      BY <2>8 DEF Panic, TypeOK
    <3> QED BY <2>0, <3>1 DEF Stages
  <2>6. ASSUME NEW i \in Children, Watchdog(i) \/ Die(i) PROVE ChildCalmsDown
    <3>1. UNCHANGED <<turn, pc, file>>
      BY <2>6 DEF Watchdog, Expire, Record, Strike, Die
    <3>2. pc # "done"
      BY <2>6, TameByItself DEF Attended
    <3> QED BY <2>6, <3>1, <3>2, CalmingByItself DEF ChildCalmsDown
  <2> QED BY <2>1, <2>2, <2>3, <2>4, <2>5, <2>6, <2>7, <2>8 DEF Next, Host, Broken, Plugin, Refusal
<1> QED BY <1>1, SpecIInv, PTL DEF Spec, NothingRepeats
==============================================================================
