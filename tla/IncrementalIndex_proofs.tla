------------------------ MODULE IncrementalIndex_proofs ------------------------
(***************************************************************************)
(* Type correctness of IncrementalIndex and the soundness of the snapshot, *)
(* for any set of files, contents and troublemakers, any budgets and any   *)
(* number of edits, faults and interventions.                              *)
(***************************************************************************)
EXTENDS IncrementalIndex, FiniteSets, FiniteSetTheorems, WellFoundedInduction, TLAPS

(***************************************************************************)
(* What the writes do to a store.                                          *)
(***************************************************************************)
LEMMA StoreFields ==
  ASSUME NEW s \in Store
  PROVE  /\ s = [rows |-> s.rows, calls |-> s.calls, imports |-> s.imports,
                 by |-> s.by, claim |-> s.claim, attempts |-> s.attempts]
         /\ s.rows \in [Files -> Maybe] /\ s.calls \in [Files -> Maybe]
         /\ s.imports \in [Files -> Maybe] /\ s.by \in [Files -> Nat]
         /\ s.claim \in [Files -> Claims] /\ s.attempts \in [Files -> Nat]
BY DEF Store

LEMMA RowsTyped ==
  ASSUME NEW s \in Store, NEW f \in Files, NEW c \in Maybe, NEW v \in Nat
  PROVE  [s EXCEPT !.rows[f] = c, !.by[f] = v] \in Store
BY DEF Store

LEMMA WipeTyped ==
  ASSUME NEW s \in Store, NEW f \in Files
  PROVE  [s EXCEPT !.calls[f] = None, !.imports[f] = None] \in Store
BY DEF Store, Maybe

LEMMA UpsertTyped ==
  ASSUME NEW s \in Store, NEW f \in Files, NEW n \in Nat, NEW c \in Claims
  PROVE  [s EXCEPT !.attempts[f] = n, !.claim[f] = c] \in Store
BY DEF Store

LEMMA CallsTyped ==
  ASSUME NEW s \in Store, NEW f \in Files, NEW c \in Maybe
  PROVE  [s EXCEPT !.calls[f] = c] \in Store
BY DEF Store

LEMMA ImportsTyped ==
  ASSUME NEW s \in Store, NEW g \in [Files -> Maybe]
  PROVE  [s EXCEPT !.imports = g] \in Store
BY DEF Store

LEMMA AttemptsTyped ==
  ASSUME NEW s \in Store, NEW g \in [Files -> Nat]
  PROVE  [s EXCEPT !.attempts = g] \in Store
BY DEF Store
-----------------------------------------------------------------------------
(***************************************************************************)
(* Type correctness.                                                       *)
(***************************************************************************)
LEMMA TypeInit == Init => TypeOK
<1> SUFFICES ASSUME Init PROVE TypeOK
  OBVIOUS
<1>1. disk \in [Files -> Maybe] /\ Nothing \in [Files -> Maybe]
  BY DEF Init, Maybe, Nothing
<1>2. Empty \in Store
  BY <1>1 DEF Empty, Store, Claims
<1>3. \A holes \in SUBSET Files : Inherited(holes) \in Store
  BY <1>1, <1>2 DEF Inherited, Empty, Store, Claims, Maybe
<1>4. db \in Store /\ tx \in Store /\ snapshot \in [Files -> Maybe] /\ marker \in Nat \cup {None}
  BY <1>1, <1>2, <1>3 DEF Init
<1> QED
  BY <1>1, <1>4, IndexAssumption DEF Init, TypeOK, Claims, Running

LEMMA OverTyped ==
  Over => /\ run' \in {"idle", "completed"} \cup Running
          /\ todo' \subseteq Files /\ last' \subseteq Files
          /\ skipped' \subseteq Files /\ changed' \subseteq Files
          /\ reads' \in [Files -> Maybe] /\ hashes' \in [Files -> Maybe]
          /\ answer' \in Claims /\ resolver' \in {"up", "down"}
BY DEF Over, Nothing, Maybe, Claims

LEMMA TypeStep == TypeOK /\ [Next]_vars => TypeOK'
<1> SUFFICES ASSUME TypeOK, [Next]_vars PROVE TypeOK'
  OBVIOUS
<1> USE IndexAssumption
<1>1. CASE \E f \in Files : Edit(f)
  BY <1>1 DEF Edit, TypeOK, store, index, plan, work, history
<1>2. CASE Upgrade
  BY <1>2 DEF Upgrade, TypeOK, store, index, plan, work, history
<1>3. CASE Rearm
  <2>1. [f \in Files |-> IF db.claim[f] \in Transient /\ db.attempts[f] >= MaxAttempts
                         THEN 0 ELSE db.attempts[f]] \in [Files -> Nat]
    BY StoreFields DEF TypeOK
  <2>2. db' \in Store /\ tx' \in Store
    BY <1>3, <2>1, AttemptsTyped DEF Rearm, TypeOK
  <2> QED
    BY <1>3, <2>2 DEF Rearm, TypeOK, index, plan, work, history
<1>4. CASE StartRun
  BY <1>4 DEF StartRun, Begins, WouldSkip, SelfInflicted, Forced, ContentChanged,
              TypeOK, Running, store, index, work, history
<1>5. CASE StartFullRun
  BY <1>5 DEF StartFullRun, Begins, TypeOK, Running, store, index, work, history
<1>6. ASSUME NEW f \in Files, Analyze(f) PROVE TypeOK'
  BY <1>6 DEF Analyze, TypeOK, Running, MidFile, Maybe, Claims, Transient,
              outside, store, index, plan, history
<1>7. ASSUME NEW f \in Files, Rows(f) PROVE TypeOK'
  <2>1. tx' \in Store
    BY <1>7, RowsTyped DEF Rows, TypeOK
  <2> QED
    BY <1>7, <2>1 DEF Rows, TypeOK, Running, MidFile, Maybe, outside, index, plan
<1>8. ASSUME NEW f \in Files, Wipe(f) PROVE TypeOK'
  <2>1. tx' \in Store
    BY <1>8, WipeTyped DEF Wipe, TypeOK
  <2> QED
    BY <1>8, <2>1 DEF Wipe, TypeOK, Running, MidFile, outside, index, plan, work, history
<1>9. ASSUME NEW f \in Files, Upsert(f) PROVE TypeOK'
  <2>1. tx.attempts[f] \in Nat
    BY StoreFields DEF TypeOK
  <2> DEFINE n == IF {answer, tx.claim[f]} \subseteq Transient THEN tx.attempts[f] + 1 ELSE 0
             c == IF answer = "collateral" /\ tx.claim[f] = "self" /\ f \notin changed
                  THEN "self" ELSE answer
  <2>2. n \in Nat /\ c \in Claims
    BY <2>1 DEF TypeOK, Claims, Transient
  <2>3. tx' = [tx EXCEPT !.attempts[f] = n, !.claim[f] = c]
    BY <1>9 DEF Upsert
  <2> HIDE DEF n, c
  <2>4. tx' \in Store
    BY <2>2, <2>3, UpsertTyped DEF TypeOK
  <2> QED
    BY <1>9, <2>4 DEF Upsert, TypeOK, Running, MidFile, outside, index, plan, work, history
<1>10. ASSUME NEW f \in Files, Calls(f) PROVE TypeOK'
  <2>1. tx' \in Store
    BY <1>10, CallsTyped DEF Calls, TypeOK
  <2> QED
    BY <1>10, <2>1 DEF Calls, TypeOK, Running, outside, index, work, history
<1>11. ASSUME NEW f \in Files, PassOver(f) PROVE TypeOK'
  BY <1>11 DEF PassOver, TypeOK, outside, store, index, history
<1>12. CASE Deferred
  <2>1. [f \in Files |-> IF f \in Handled THEN reads[f] ELSE tx.imports[f]] \in [Files -> Maybe]
    BY StoreFields DEF TypeOK
  <2>2. tx' \in Store
    BY <1>12, <2>1, ImportsTyped DEF Deferred, TypeOK
  <2> QED
    BY <1>12, <2>2 DEF Deferred, TypeOK, Running, outside, index, plan, work, history
<1>13. CASE Boundary
  BY <1>13 DEF Boundary, TypeOK, outside, index, plan, work, history
<1>14. CASE Complete
  BY <1>14 DEF Complete, TypeOK, outside, index, plan, work, history
<1>15. CASE Flush
  <2>1. snapshot' \in [Files -> Maybe]
    BY <1>15 DEF Flush, TypeOK
  <2> QED
    BY <1>15, <2>1, OverTyped DEF Flush, TypeOK, outside, store
<1>16. CASE FlushFails
  BY <1>16, OverTyped DEF FlushFails, Fault, TypeOK, outside, store, index, history
<1>17. CASE SoftFail
  BY <1>17, OverTyped DEF SoftFail, Fault, TypeOK, outside, index, history
<1>18. CASE Abort
  BY <1>18, OverTyped DEF Abort, Fault, TypeOK, outside, index, history
<1>19. CASE UNCHANGED vars
  BY <1>19 DEF vars, TypeOK, outside, store, index, plan, work, history
<1> QED
  BY <1>1, <1>2, <1>3, <1>4, <1>5, <1>6, <1>7, <1>8, <1>9, <1>10, <1>11, <1>12, <1>13,
     <1>14, <1>15, <1>16, <1>17, <1>18, <1>19
  DEF Next, World, FileStep, Outcome, Failure

(* Every variable keeps its type, in a run with any number of files, edits,
   faults and interventions. *)
THEOREM TypeCorrect == Spec => []TypeOK
BY TypeInit, TypeStep, PTL DEF Spec
-----------------------------------------------------------------------------
(***************************************************************************)
(* The snapshot tells the truth.  SnapshotVouches speaks of the committed  *)
(* store; what makes it inductive is what a run in progress knows of the   *)
(* files it has handled (Recorded, Covered, Imported), of those it leaves  *)
(* alone (LeftAlone) and of the one it is writing (Doubted).               *)
(***************************************************************************)
Vouched(s, f) ==
  /\ s.rows[f] = snapshot[f] /\ s.imports[f] = snapshot[f] /\ s.by[f] = marker
  /\ s.claim[f] = "complete" => s.calls[f] = snapshot[f]

(* Both the committed store and the open batch agree with the snapshot. *)
Trusted ==
  \A f \in Files \ (unvouched \cup raced) :
    snapshot[f] # None => Vouched(db, f) /\ Vouched(tx, f)

(* A file being written is under doubt. *)
Doubted == run \in {"rows", "wiped", "claimed"} => \A f \in Files : InHand(f) => f \in unvouched

Clean == run = "idle" => hashes = Nothing /\ skipped = {}

LeftAlone == \A f \in skipped : hashes[f] = None /\ f \notin todo /\ marker = version

(* What was hashed is what was read and is what the rows were made of. *)
Recorded ==
  \A f \in Files \ raced : hashes[f] # None /\ ~(run = "read" /\ InHand(f)) =>
    hashes[f] = reads[f] /\ tx.rows[f] = reads[f] /\ tx.by[f] = version

Covered ==
  \A f \in Files : hashes[f] # None /\ ~(run \in MidFile /\ InHand(f)) =>
    (tx.claim[f] = "complete" => tx.calls[f] = reads[f])

Answered ==
  run = "claimed" => \A f \in Files : InHand(f) /\ tx.claim[f] = "complete" => answer = "complete"

Imported ==
  run \in {"walked", "completed"} =>
    \A f \in Files : hashes[f] # None => tx.imports[f] = reads[f]

Committed == run = "completed" => tx = db

IInv ==
  /\ TypeOK /\ Trusted /\ Doubted /\ Clean /\ LeftAlone
  /\ Recorded /\ Covered /\ Answered /\ Imported /\ Committed

(* One file is in hand at a time. *)
LEMMA OneInHand ==
  ASSUME TypeOK, NEW f \in Files, NEW g \in Files, InHand(f), InHand(g)
  PROVE  f = g
<1> SUFFICES ASSUME f # g PROVE FALSE
  OBVIOUS
<1>1. Before(f, g) /\ Before(g, f)
  BY DEF InHand
<1>2. Place[f] \in Nat /\ Place[g] \in Nat
  BY IndexAssumption
<1> QED
  BY <1>1, <1>2 DEF Before

LEMMA IInvInit == Init => IInv
<1> SUFFICES ASSUME Init PROVE IInv
  OBVIOUS
<1>1. TypeOK
  BY TypeInit
<1>2. Trusted
  <2> SUFFICES ASSUME NEW f \in Files, snapshot[f] # None
               PROVE  Vouched(db, f) /\ Vouched(tx, f)
    BY DEF Trusted
  <2>1. PICK holes \in SUBSET Files : db = Inherited(holes) /\ snapshot = disk /\ marker = 0
    BY DEF Init, Nothing
  <2>2. db.rows = disk /\ db.imports = disk /\ db.by[f] = 0 /\ db.claim[f] = "none"
    BY <2>1 DEF Inherited, Empty
  <2> QED
    BY <2>1, <2>2 DEF Vouched, Init
<1>3. hashes = Nothing /\ skipped = {} /\ run = "idle"
  BY DEF Init
<1> QED
  BY <1>1, <1>2, <1>3 DEF IInv, Doubted, Clean, LeftAlone, Recorded, Covered, Answered,
                          Imported, Committed, Nothing

(* A step of the run that ends it keeps only what the store and the snapshot
   say. *)
LEMMA OverClean ==
  Over /\ TypeOK' /\ Trusted' => IInv'
BY DEF Over, IInv, Doubted, Clean, LeftAlone, Recorded, Covered, Answered, Imported,
       Committed, Nothing
(* Steps of the world that touch neither the run nor what is stored of it. *)
LEMMA WorldKeeps ==
  ASSUME IInv, World, TypeOK'
  PROVE  IInv'
<1>1. CASE \E f \in Files : Edit(f)
  <2>1. UNCHANGED <<version, store, index, run, plan, work, history>>
    BY <1>1 DEF Edit
  <2> QED
    BY <2>1 DEF IInv, Trusted, Vouched, Doubted, Clean, LeftAlone, Recorded, Covered, Answered,
                Imported, Committed, InHand, Before, store, index, plan, work, history
<1>2. CASE Upgrade
  <2>1. /\ run = "idle" /\ hashes = Nothing /\ skipped = {}
        /\ UNCHANGED <<store, index, run, plan, work, history>>
    BY <1>2 DEF Upgrade, IInv, Clean
  <2> QED
    BY <2>1 DEF IInv, Trusted, Vouched, Doubted, Clean, LeftAlone, Recorded, Covered, Answered,
                Imported, Committed, Nothing, store, index, plan, work, history
<1>3. CASE Rearm
  <2>1. /\ tx = db /\ tx' = db'
        /\ UNCHANGED <<version, index, run, plan, work, history>>
    BY <1>3 DEF Rearm
  <2>2. /\ db'.rows = db.rows /\ db'.calls = db.calls /\ db'.imports = db.imports
        /\ db'.by = db.by /\ db'.claim = db.claim
    BY <1>3, StoreFields DEF Rearm, IInv, TypeOK, Store
  <2>3. /\ tx'.rows = tx.rows /\ tx'.calls = tx.calls /\ tx'.imports = tx.imports
        /\ tx'.by = tx.by /\ tx'.claim = tx.claim
    BY <2>1, <2>2
  <2>4. Trusted' /\ Doubted' /\ Clean' /\ LeftAlone'
    BY <2>1, <2>2, <2>3 DEF IInv, Trusted, Vouched, Doubted, Clean, LeftAlone, InHand, Before,
                            index, plan, work, history
  <2>5. Recorded' /\ Covered' /\ Answered' /\ Imported' /\ Committed'
    BY <2>1, <2>2, <2>3 DEF IInv, Recorded, Covered, Answered, Imported, Committed,
                            InHand, Before, index, plan, work, history
  <2> QED
    BY <2>4, <2>5 DEF IInv
<1> QED
  BY <1>1, <1>2, <1>3 DEF World

LEMMA BeginsKeeps ==
  ASSUME IInv, TypeOK', StartRun \/ StartFullRun
  PROVE  IInv'
<1>1. PICK kept, self : Begins(kept, self) /\ (kept = WouldSkip \/ kept = {})
  BY DEF StartRun, StartFullRun
<1>2. /\ run' = "file" /\ todo' = Files \ kept /\ skipped' = kept /\ hashes = Nothing
      /\ UNCHANGED <<version, store, index, work, history>>
  BY <1>1 DEF Begins, IInv, Clean
<1>3. \A f \in kept : f \in Files /\ marker = version
  BY <1>1 DEF WouldSkip
<1>4. \A f \in kept : hashes[f] = None
  BY <1>2, <1>3 DEF Nothing
<1>5. Trusted' /\ LeftAlone'
  BY <1>2, <1>3, <1>4 DEF IInv, Trusted, Vouched, LeftAlone, store, index, work, history
<1> QED
  BY <1>2, <1>5 DEF IInv, Doubted, Clean, Recorded, Covered, Answered, Imported, Committed,
                    Nothing, work

LEMMA AnalyzeKeeps ==
  ASSUME IInv, TypeOK', NEW f \in Files, Analyze(f)
  PROVE  IInv'
<1>1. /\ run = "file" /\ run' = "read" /\ InHand(f)
      /\ \A g \in Files \ {f} : reads'[g] = reads[g]
      /\ UNCHANGED <<version, store, index, plan, hashes, history>>
  BY DEF Analyze, IInv, TypeOK, outside
<1>2. \A g \in Files : InHand(g)' <=> InHand(g)
  BY <1>1 DEF InHand, Before, plan
<1>3. \A g \in Files \ {f} : ~InHand(g)
  BY <1>1, OneInHand DEF IInv
<1>4. Trusted' /\ Doubted' /\ Clean' /\ LeftAlone'
  BY <1>1 DEF IInv, Trusted, Vouched, Doubted, Clean, LeftAlone, store, index, plan, history
<1>5. Recorded'
  BY <1>1, <1>2 DEF IInv, Recorded, store, history
<1>6. Covered'
  BY <1>1, <1>2 DEF IInv, Covered, MidFile, store
<1> QED
  BY <1>1, <1>4, <1>5, <1>6 DEF IInv, Answered, Imported, Committed

LEMMA RowsKeeps ==
  ASSUME IInv, TypeOK', NEW f \in Files, Rows(f)
  PROVE  IInv'
<1>1. /\ run = "read" /\ run' = "rows" /\ InHand(f) /\ hashes'[f] = disk[f]
      /\ \A g \in Files \ {f} : hashes'[g] = hashes[g] /\ (g \in raced' <=> g \in raced)
      /\ unvouched' = unvouched \cup {f}
      /\ f \notin raced' => reads[f] = disk[f]
      /\ UNCHANGED <<version, db, index, plan, reads>>
  BY DEF Rows, IInv, TypeOK, outside
<1>2. /\ tx'.rows[f] = reads[f] /\ tx'.by[f] = version
      /\ \A g \in Files \ {f} : tx'.rows[g] = tx.rows[g] /\ tx'.by[g] = tx.by[g]
      /\ tx'.calls = tx.calls /\ tx'.imports = tx.imports /\ tx'.claim = tx.claim
  BY DEF Rows, IInv, TypeOK, Store
<1>3. \A g \in Files : InHand(g)' <=> InHand(g)
  BY <1>1 DEF InHand, Before, plan
<1>4. \A g \in Files \ {f} : ~InHand(g)
  BY <1>1, OneInHand DEF IInv
<1>5. Trusted'
  BY <1>1, <1>2 DEF IInv, Trusted, Vouched, index
<1>6. Doubted'
  BY <1>1, <1>3, <1>4 DEF IInv, Doubted
<1>7. LeftAlone'
  BY <1>1 DEF IInv, LeftAlone, TypeOK, InHand, index, plan
<1>8. Recorded'
  <2> SUFFICES ASSUME NEW g \in Files, g \notin raced', hashes'[g] # None
               PROVE  hashes'[g] = reads[g] /\ tx'.rows[g] = reads[g] /\ tx'.by[g] = version
    BY <1>1 DEF Recorded
  <2>1. CASE g = f
    BY <2>1, <1>1, <1>2
  <2>2. CASE g # f
    BY <2>2, <1>1, <1>2, <1>4 DEF IInv, Recorded
  <2> QED
    BY <2>1, <2>2
<1>9. Covered'
  BY <1>1, <1>2, <1>3, <1>4 DEF IInv, Covered, MidFile
<1> QED
  BY <1>1, <1>5, <1>6, <1>7, <1>8, <1>9 DEF IInv, Clean, Answered, Imported, Committed
LEMMA WipeKeeps ==
  ASSUME IInv, TypeOK', NEW f \in Files, Wipe(f)
  PROVE  IInv'
<1>1. /\ run = "rows" /\ run' = "wiped" /\ InHand(f)
      /\ UNCHANGED <<version, db, index, plan, work, history>>
  BY DEF Wipe, outside
<1>2. /\ \A g \in Files \ {f} : tx'.calls[g] = tx.calls[g] /\ tx'.imports[g] = tx.imports[g]
      /\ tx'.rows = tx.rows /\ tx'.by = tx.by /\ tx'.claim = tx.claim
  BY DEF Wipe, IInv, TypeOK, Store
<1>3. \A g \in Files : InHand(g)' <=> InHand(g)
  BY <1>1 DEF InHand, Before, plan
<1>4. f \in unvouched
  BY <1>1 DEF IInv, Doubted
<1>5. Trusted'
  BY <1>1, <1>2, <1>4 DEF IInv, Trusted, Vouched, index, history
<1>6. Doubted' /\ LeftAlone' /\ Recorded'
  BY <1>1, <1>2, <1>3 DEF IInv, Doubted, LeftAlone, Recorded, index, plan, work, history
<1>7. Covered'
  BY <1>1, <1>2, <1>3 DEF IInv, Covered, MidFile, work
<1> QED
  BY <1>1, <1>5, <1>6, <1>7 DEF IInv, Clean, Answered, Imported, Committed

LEMMA UpsertKeeps ==
  ASSUME IInv, TypeOK', NEW f \in Files, Upsert(f)
  PROVE  IInv'
<1>1. /\ run = "wiped" /\ run' = "claimed" /\ InHand(f)
      /\ UNCHANGED <<version, db, index, plan, work, history>>
  BY DEF Upsert, outside
<1>2. /\ \A g \in Files \ {f} : tx'.claim[g] = tx.claim[g]
      /\ tx'.claim[f] \in {"self", answer}
      /\ tx'.rows = tx.rows /\ tx'.by = tx.by /\ tx'.calls = tx.calls /\ tx'.imports = tx.imports
  BY DEF Upsert, IInv, TypeOK, Store
<1>3. \A g \in Files : InHand(g)' <=> InHand(g)
  BY <1>1 DEF InHand, Before, plan
<1>4. \A g \in Files \ {f} : ~InHand(g)
  BY <1>1, OneInHand DEF IInv
<1>5. f \in unvouched
  BY <1>1 DEF IInv, Doubted
<1>6. Trusted'
  BY <1>1, <1>2, <1>5 DEF IInv, Trusted, Vouched, index, history
<1>7. Doubted' /\ LeftAlone' /\ Recorded'
  BY <1>1, <1>2, <1>3 DEF IInv, Doubted, LeftAlone, Recorded, index, plan, work, history
<1>8. Covered'
  BY <1>1, <1>2, <1>3 DEF IInv, Covered, MidFile, work
<1>9. Answered'
  BY <1>1, <1>2, <1>3, <1>4 DEF Answered, work
<1> QED
  BY <1>1, <1>6, <1>7, <1>8, <1>9 DEF IInv, Clean, Imported, Committed

LEMMA CallsKeeps ==
  ASSUME IInv, TypeOK', NEW f \in Files, Calls(f)
  PROVE  IInv'
<1>1. /\ run = "claimed" /\ run' = "file" /\ InHand(f) /\ todo' \subseteq todo
      /\ UNCHANGED <<version, db, index, skipped, work, history>>
  BY DEF Calls, outside
<1>2. /\ \A g \in Files \ {f} : tx'.calls[g] = tx.calls[g]
      /\ answer = "complete" => tx'.calls[f] = reads[f]
      /\ tx'.rows = tx.rows /\ tx'.by = tx.by /\ tx'.claim = tx.claim /\ tx'.imports = tx.imports
  BY DEF Calls, IInv, TypeOK, Store
<1>3. \A g \in Files \ {f} : ~InHand(g)
  BY <1>1, OneInHand DEF IInv
<1>4. f \in unvouched
  BY <1>1 DEF IInv, Doubted
<1>5. tx.claim[f] = "complete" => answer = "complete"
  BY <1>1 DEF IInv, Answered
<1>6. Trusted'
  BY <1>1, <1>2, <1>4 DEF IInv, Trusted, Vouched, index, history
<1>7. LeftAlone' /\ Recorded'
  BY <1>1, <1>2 DEF IInv, LeftAlone, Recorded, index, work, history
<1>8. Covered'
  <2> SUFFICES ASSUME NEW g \in Files, hashes[g] # None, tx.claim[g] = "complete"
               PROVE  tx'.calls[g] = reads[g]
    BY <1>1, <1>2 DEF Covered, work
  <2>1. CASE g = f
    BY <2>1, <1>2, <1>5
  <2>2. CASE g # f
    BY <2>2, <1>2, <1>3 DEF IInv, Covered
  <2> QED
    BY <2>1, <2>2
<1> QED
  BY <1>1, <1>6, <1>7, <1>8 DEF IInv, Doubted, Clean, Answered, Imported, Committed

LEMMA PassOverKeeps ==
  ASSUME IInv, TypeOK', NEW f \in Files, PassOver(f)
  PROVE  IInv'
<1>1. /\ run = "file" /\ run' = "file" /\ todo' \subseteq todo
      /\ UNCHANGED <<version, store, index, skipped, reads, hashes, answer, history>>
  BY DEF PassOver, outside
<1> QED
  BY <1>1 DEF IInv, Trusted, Vouched, Doubted, Clean, LeftAlone, Recorded, Covered, Answered,
              Imported, Committed, MidFile, store, index, history

LEMMA OutcomeKeeps ==
  ASSUME IInv, TypeOK', Outcome
  PROVE  IInv'
<1>1. CASE Deferred
  <2>1. /\ run = "file" /\ run' = "walked"
        /\ UNCHANGED <<version, db, index, plan, work, history>>
    BY <1>1 DEF Deferred, outside
  <2>2. /\ \A f \in Files : tx'.imports[f] = IF hashes[f] # None THEN reads[f] ELSE tx.imports[f]
        /\ tx'.rows = tx.rows /\ tx'.by = tx.by /\ tx'.claim = tx.claim /\ tx'.calls = tx.calls
    BY <1>1 DEF Deferred, Handled, IInv, TypeOK, Store
  <2>3. Trusted'
    <3> SUFFICES ASSUME NEW f \in Files \ (unvouched \cup raced), snapshot[f] # None
                 PROVE  Vouched(db, f) /\ Vouched(tx', f)
      BY <2>1 DEF Trusted, Vouched, index, history
    <3>1. Vouched(db, f) /\ Vouched(tx, f)
      BY DEF IInv, Trusted
    <3>2. CASE hashes[f] = None
      BY <3>1, <3>2, <2>2 DEF Vouched
    <3>3. CASE hashes[f] # None
      <4>1. reads[f] = tx.rows[f]
        BY <3>3, <2>1 DEF IInv, Recorded
      <4> QED
        BY <4>1, <3>1, <3>3, <2>2 DEF Vouched
    <3> QED
      BY <3>2, <3>3
  <2>4. Recorded' /\ Covered' /\ LeftAlone' /\ Imported'
    BY <2>1, <2>2 DEF IInv, Recorded, Covered, LeftAlone, Imported, MidFile, index, plan, work, history
  <2> QED
    BY <2>1, <2>3, <2>4 DEF IInv, Doubted, Clean, Answered, Committed
<1>2. CASE Complete
  <2>1. /\ run = "walked" /\ run' = "completed" /\ db' = tx /\ tx' = tx
        /\ UNCHANGED <<version, index, plan, work, history>>
    BY <1>2 DEF Complete, outside
  <2>2. Trusted'
    BY <2>1 DEF IInv, Trusted, Vouched, index, history
  <2>3. Recorded' /\ Covered' /\ LeftAlone' /\ Imported'
    BY <2>1 DEF IInv, Recorded, Covered, LeftAlone, Imported, MidFile, index, plan, work, history
  <2> QED
    BY <2>1, <2>2, <2>3 DEF IInv, Doubted, Clean, Answered, Committed
<1>3. CASE Flush
  <2>1. /\ run = "completed" /\ Over /\ marker' = version
        /\ \A f \in Files : snapshot'[f] = IF f \in skipped THEN snapshot[f] ELSE hashes[f]
        /\ unvouched' = unvouched \ Handled
        /\ UNCHANGED <<store, raced>>
    BY <1>3 DEF Flush
  <2>2. tx = db
    BY <2>1 DEF IInv, Committed
  <2>3. Trusted'
    <3> SUFFICES ASSUME NEW f \in Files, f \notin unvouched', f \notin raced, snapshot'[f] # None
                 PROVE  /\ tx.rows[f] = snapshot'[f] /\ tx.imports[f] = snapshot'[f]
                        /\ tx.by[f] = version
                        /\ tx.claim[f] = "complete" => tx.calls[f] = snapshot'[f]
      BY <2>1, <2>2 DEF Trusted, Vouched, store
    <3>1. CASE f \in skipped
      <4>1. hashes[f] = None /\ marker = version
        BY <3>1 DEF IInv, LeftAlone
      <4>2. f \notin unvouched /\ snapshot'[f] = snapshot[f]
        BY <4>1, <3>1, <2>1 DEF Handled
      <4> QED
        BY <4>1, <4>2 DEF IInv, Trusted, Vouched
    <3>2. CASE f \notin skipped
      <4>1. snapshot'[f] = hashes[f] /\ hashes[f] # None
        BY <3>2, <2>1
      <4>2. hashes[f] = reads[f] /\ tx.rows[f] = reads[f] /\ tx.by[f] = version
        BY <4>1, <2>1 DEF IInv, Recorded
      <4>3. tx.claim[f] = "complete" => tx.calls[f] = reads[f]
        BY <4>1, <2>1 DEF IInv, Covered, MidFile
      <4>4. tx.imports[f] = reads[f]
        BY <4>1, <2>1 DEF IInv, Imported
      <4> QED
        BY <4>1, <4>2, <4>3, <4>4
    <3> QED
      BY <3>1, <3>2
  <2> QED
    BY <2>1, <2>3, OverClean
<1> QED
  BY <1>1, <1>2, <1>3 DEF Outcome

LEMMA BoundaryKeeps ==
  ASSUME IInv, TypeOK', Boundary
  PROVE  IInv'
<1>1. /\ run \in Running /\ db' = tx /\ tx' = tx
      /\ UNCHANGED <<version, index, run, plan, work, history>>
  BY DEF Boundary, outside
<1>2. Trusted'
  BY <1>1 DEF IInv, Trusted, Vouched, index, history
<1>3. \A f \in Files : InHand(f)' <=> InHand(f)
  BY <1>1 DEF InHand, Before, plan
<1>4. Doubted' /\ Clean' /\ LeftAlone' /\ Recorded' /\ Covered' /\ Answered' /\ Imported'
  BY <1>1, <1>3 DEF IInv, Doubted, Clean, LeftAlone, Recorded, Covered, Answered, Imported,
                    index, plan, work, history
<1> QED
  BY <1>1, <1>2, <1>4 DEF IInv, Committed, Running, MidFile

LEMMA FailureKeeps ==
  ASSUME IInv, TypeOK', Failure
  PROVE  IInv'
<1>1. CASE \E f \in Files : PassOver(f)
  BY <1>1, PassOverKeeps
<1>2. CASE FlushFails
  <2>1. Over /\ UNCHANGED <<store, index, history>>
    BY <1>2 DEF FlushFails
  <2>2. Trusted'
    BY <2>1 DEF IInv, Trusted, Vouched, store, index, history
  <2> QED
    BY <2>1, <2>2, OverClean
<1>3. CASE SoftFail
  <2>1. Over /\ db' = tx /\ UNCHANGED <<tx, index, history>>
    BY <1>3 DEF SoftFail
  <2>2. Trusted'
    BY <2>1 DEF IInv, Trusted, Vouched, index, history
  <2> QED
    BY <2>1, <2>2, OverClean
<1>4. CASE Abort
  <2>1. Over /\ tx' = db /\ UNCHANGED <<db, index, history>>
    BY <1>4 DEF Abort
  <2>2. Trusted'
    BY <2>1 DEF IInv, Trusted, Vouched, index, history
  <2> QED
    BY <2>1, <2>2, OverClean
<1> QED
  BY <1>1, <1>2, <1>3, <1>4 DEF Failure

LEMMA IInvStep == IInv /\ [Next]_vars => IInv'
<1> SUFFICES ASSUME IInv, [Next]_vars PROVE IInv'
  OBVIOUS
<1>1. TypeOK'
  BY TypeStep DEF IInv
<1>2. CASE World
  BY <1>1, <1>2, WorldKeeps
<1>3. CASE StartRun \/ StartFullRun
  BY <1>1, <1>3, BeginsKeeps
<1>4. CASE FileStep
  BY <1>1, <1>4, AnalyzeKeeps, RowsKeeps, WipeKeeps, UpsertKeeps, CallsKeeps DEF FileStep
<1>5. CASE Boundary
  BY <1>1, <1>5, BoundaryKeeps
<1>6. CASE Outcome
  BY <1>1, <1>6, OutcomeKeeps
<1>7. CASE Failure
  BY <1>1, <1>7, FailureKeeps
<1>8. CASE UNCHANGED vars
  BY <1>1, <1>8 DEF vars, outside, store, index, plan, work, history, IInv, Trusted, Vouched,
                    Doubted, Clean, LeftAlone, Recorded, Covered, Answered, Imported, Committed,
                    InHand, Before
<1> QED
  BY <1>2, <1>3, <1>4, <1>5, <1>6, <1>7, <1>8 DEF Next

(* Wherever the snapshot is not known to be in doubt, it describes what is
   stored: under any interleaving of runs that complete, pass over files,
   fail softly, are killed at any command or lose their flush. *)
THEOREM SnapshotVouchesHolds == Spec => []SnapshotVouches
<1>1. IInv => SnapshotVouches
  BY DEF IInv, Trusted, Vouched, SnapshotVouches
<1> QED
  BY <1>1, IInvInit, IInvStep, PTL DEF Spec
-----------------------------------------------------------------------------
(***************************************************************************)
(* What FixedPoint rests on.  That runs stop dispatching in the end needs  *)
(* fairness and stays with TLC; what is proved is every step of the        *)
(* argument that is a fact about states: a run can always go on, it goes   *)
(* on only a bounded number of times, a run that flushes leaves nothing to *)
(* do but edits and budgets not yet spent, and nothing refunds a budget.   *)
(***************************************************************************)

(* The guard of FileStep or Outcome. *)
RunMayGo ==
  \/ run \in {"file"} \cup MidFile /\ \E f \in Files : InHand(f)
  \/ run = "file" /\ todo = {}
  \/ run \in {"walked", "completed"}

(* A run in progress can take its next step by itself: there is always one
   file that every other file waits for, in the walk order and in the order
   that puts the self-inflicted last. *)
RunNeverStuck == run # "idle" => RunMayGo

(* The files a run has not settled, and the commands left for the one in
   hand. *)
CommandsLeft ==
  [r \in {"idle", "completed"} \cup Running |->
     CASE r = "file" -> 5 [] r = "read" -> 4 [] r = "rows" -> 3 [] r = "wiped" -> 2
       [] r = "claimed" -> 1 [] r = "walked" -> 4 [] r = "completed" -> 3 [] OTHER -> 0]

WayToGo == 6 * Cardinality(todo) + CommandsLeft[run]

(* A run is bounded: whatever it does, fail included, brings its end nearer;
   commits and the world around it do not send it back. *)
RunsAreBounded ==
  [][run # "idle" => \/ WayToGo' < WayToGo
                     \/ WayToGo' = WayToGo /\ (Boundary \/ World)]_vars

(* A file whose bytes are not those the run recorded of it: edited since, or
   passed over. *)
Moved(f) == disk[f] # (IF f \in skipped THEN snapshot[f] ELSE hashes[f])

Degraded(s, f) == s.claim[f] \in Transient /\ s.attempts[f] < MaxAttempts

(* A run that flushes settles everything: the next run dispatches a file only
   if it was edited or passed over, or if its resolution is degraded and its
   budget not spent.  No upgrade, hole in a fresh claim or half-written file
   of an earlier run survives it. *)
FlushSettles ==
  [][Flush => \A f \in Files \ WouldSkip' : Moved(f) \/ Degraded(db, f)]_vars

(* The budget of a file goes down only when doctor --fix re-arms it, when the
   batch that spent it is rolled back, or when its resolution came out
   complete: nothing else buys a file another forced dispatch. *)
BudgetIsSpent ==
  [][\A f \in Files : tx'.attempts[f] < tx.attempts[f] =>
       Rearm \/ Abort \/ tx'.claim[f] = "complete"]_vars

(***************************************************************************)
(* The guard and the measure.                                              *)
(***************************************************************************)

(* Among files that differ in their place there is a first one. *)
LEMMA FirstOf ==
  ASSUME NEW F \in SUBSET Files, F # {}
  PROVE  \E f \in F : \A g \in F \ {f} : Place[f] < Place[g]
<1> DEFINE R == OpToRel(<, Nat)
           P == {Place[f] : f \in F}
<1>1. IsWellFoundedOn(R, Nat)
  BY NatLessThanWellFounded
<1>2. P \subseteq Nat /\ P # {}
  BY IndexAssumption
<1>3. PICK n \in P : \A m \in P : ~ (<<m, n>> \in R)
  <2> HIDE DEF P, R
  <2> QED
    BY <1>1, <1>2, WFMin
<1>4. PICK f \in F : n = Place[f]
  BY <1>3
<1>5. ASSUME NEW g \in F \ {f} PROVE Place[f] < Place[g]
  <2>1. Place[f] \in Nat /\ Place[g] \in Nat /\ Place[f] # Place[g]
    BY IndexAssumption
  <2>2. ~ (Place[g] < Place[f])
    BY <1>3, <1>4, <2>1 DEF OpToRel
  <2> QED
    BY <2>1, <2>2
<1> QED
  BY <1>5

(* As long as files are left, one of them is in hand. *)
LEMMA SomeInHand ==
  ASSUME TypeOK, todo # {}
  PROVE  \E f \in Files : InHand(f)
<1>1. todo \subseteq Files
  BY DEF TypeOK
<1>2. CASE todo \ last # {}
  <2>1. PICK f \in todo \ last : \A g \in (todo \ last) \ {f} : Place[f] < Place[g]
    BY <1>1, <1>2, FirstOf
  <2>2. ASSUME NEW g \in todo \ {f} PROVE Before(f, g)
    BY <2>1 DEF Before
  <2> QED
    BY <1>1, <2>2 DEF InHand
<1>3. CASE todo \ last = {}
  <2>1. PICK f \in todo : \A g \in todo \ {f} : Place[f] < Place[g]
    BY <1>1, FirstOf
  <2>2. ASSUME NEW g \in todo \ {f} PROVE Before(f, g)
    BY <2>1, <1>3 DEF Before
  <2> QED
    BY <1>1, <2>2 DEF InHand
<1> QED
  BY <1>2, <1>3

(* A run that is writing a file has not settled it. *)
Busy == run \in MidFile => todo # {}

LEMMA BusyStep == Busy /\ [Next]_vars => Busy'
<1> SUFFICES ASSUME Busy, [Next]_vars PROVE Busy'
  OBVIOUS
<1>1. CASE World \/ Boundary
  BY <1>1 DEF World, Edit, Upgrade, Rearm, Boundary, Busy, plan
<1>2. CASE StartRun \/ StartFullRun
  BY <1>2 DEF StartRun, StartFullRun, Begins, Busy, MidFile
<1>3. CASE FileStep
  BY <1>3 DEF FileStep, Analyze, Rows, Wipe, Upsert, Calls, Busy, MidFile, InHand, plan
<1>4. CASE Outcome \/ Failure
  BY <1>4 DEF Outcome, Failure, Deferred, Complete, Flush, PassOver, FlushFails, SoftFail, Abort,
              Over, Busy, MidFile, plan
<1>5. CASE UNCHANGED vars
  BY <1>5 DEF vars, plan, Busy
<1> QED
  BY <1>1, <1>2, <1>3, <1>4, <1>5 DEF Next

(* A run in progress can always take a step of its own. *)
THEOREM RunNeverStuckHolds == Spec => []RunNeverStuck
<1>1. Init => Busy
  BY DEF Init, Busy, MidFile
<1>2. TypeOK /\ Busy => RunNeverStuck
  BY SomeInHand DEF TypeOK, Busy, RunNeverStuck, RunMayGo, Running
<1> QED
  BY <1>1, <1>2, TypeInit, TypeStep, BusyStep, PTL DEF Spec

LEMMA CommandValues ==
  /\ CommandsLeft["idle"] = 0 /\ CommandsLeft["file"] = 5 /\ CommandsLeft["read"] = 4
  /\ CommandsLeft["rows"] = 3 /\ CommandsLeft["wiped"] = 2 /\ CommandsLeft["claimed"] = 1
  /\ CommandsLeft["walked"] = 4 /\ CommandsLeft["completed"] = 3
BY DEF CommandsLeft, Running, MidFile

(* A settled file is one less, and the files left are finitely many. *)
LEMMA OneLess ==
  ASSUME IsFiniteSet(Files), todo \subseteq Files
  PROVE  /\ Cardinality(todo) \in Nat
         /\ \A f \in todo : Cardinality(todo \ {f}) \in Nat
                            /\ Cardinality(todo) = Cardinality(todo \ {f}) + 1
<1>1. IsFiniteSet(todo)
  BY FS_Subset
<1>2. Cardinality(todo) \in Nat
  BY <1>1, FS_CardinalityType
<1>3. ASSUME NEW f \in todo
      PROVE  /\ Cardinality(todo \ {f}) \in Nat
             /\ Cardinality(todo) = Cardinality(todo \ {f}) + 1
  <2>1. Cardinality(todo \ {f}) = Cardinality(todo) - 1 /\ IsFiniteSet(todo \ {f})
    BY <1>1, FS_RemoveElement
  <2>2. Cardinality(todo \ {f}) \in Nat
    BY <2>1, FS_CardinalityType
  <2> QED
    BY <1>2, <2>1, <2>2
<1> QED
  BY <1>2, <1>3

(* The end of a run leaves nothing to do. *)
LEMMA OverIsZero == Over => WayToGo' = 0
<1> SUFFICES ASSUME Over PROVE WayToGo' = 0
  OBVIOUS
<1>1. run' = "idle" /\ todo' = {}
  BY DEF Over
<1>2. Cardinality({}) = 0
  BY FS_EmptySet
<1> QED
  BY <1>1, <1>2, CommandValues DEF WayToGo

(* A run has finitely many steps in it, whatever happens to it. *)
THEOREM RunsEnd ==
  ASSUME IsFiniteSet(Files)
  PROVE  Spec => RunsAreBounded
<1> DEFINE Shorter == run # "idle" => \/ WayToGo' < WayToGo
                                      \/ WayToGo' = WayToGo /\ (Boundary \/ World)
<1>1. ASSUME TypeOK, Next PROVE Shorter
  <2> SUFFICES ASSUME run # "idle"
               PROVE  WayToGo' < WayToGo \/ (WayToGo' = WayToGo /\ (Boundary \/ World))
    OBVIOUS
  <2>1. todo \subseteq Files /\ run \in {"idle", "completed"} \cup Running
    BY <1>1 DEF TypeOK
  <2>2. Cardinality(todo) \in Nat
    BY <2>1, OneLess
  <2>3. CommandsLeft[run] \in 1 .. 5
    BY <2>1, CommandValues DEF Running, MidFile
  <2>4. ASSUME Over PROVE WayToGo' < WayToGo
    BY <2>2, <2>3, <2>4, OverIsZero DEF WayToGo
  <2>5. ASSUME NEW f \in todo, todo' = todo \ {f}, CommandsLeft[run'] \in 1 .. 5
        PROVE  WayToGo' < WayToGo
    <3>1. /\ Cardinality(todo \ {f}) \in Nat
          /\ Cardinality(todo) = Cardinality(todo \ {f}) + 1
      BY <2>1, OneLess
    <3> DEFINE n == Cardinality(todo \ {f})
               c == CommandsLeft[run]
               d == CommandsLeft[run']
    <3>2. WayToGo = 6 * (n + 1) + c /\ WayToGo' = 6 * n + d
      BY <2>5, <3>1 DEF WayToGo
    <3>3. n \in Nat /\ c \in 1 .. 5 /\ d \in 1 .. 5
      BY <2>3, <2>5, <3>1
    <3> HIDE DEF n, c, d
    <3> QED
      BY <3>2, <3>3
  <2>6. ASSUME todo' = todo, CommandsLeft[run'] < CommandsLeft[run], CommandsLeft[run'] \in 0 .. 5
        PROVE  WayToGo' < WayToGo
    BY <2>2, <2>3, <2>6 DEF WayToGo
  <2>7. CASE World
    <3>1. UNCHANGED <<run, todo>>
      BY <2>7 DEF World, Edit, Upgrade, Rearm, plan
    <3> QED
      BY <2>7, <3>1 DEF WayToGo
  <2>8. CASE StartRun \/ StartFullRun
    BY <2>8 DEF StartRun, StartFullRun, Begins
  <2>9. CASE FileStep
    <3>1. PICK f \in Files : Analyze(f) \/ Rows(f) \/ Wipe(f) \/ Upsert(f) \/ Calls(f)
      BY <2>9 DEF FileStep
    <3>2. CASE Calls(f)
      <4>1. f \in todo /\ todo' = todo \ {f} /\ run' = "file"
        BY <3>2 DEF Calls, InHand
      <4> QED
        BY <4>1, <2>5, CommandValues
    <3>3. CASE ~ Calls(f)
      <4>1. /\ todo' = todo
            /\ \/ run = "file" /\ run' = "read"
               \/ run = "read" /\ run' = "rows"
               \/ run = "rows" /\ run' = "wiped"
               \/ run = "wiped" /\ run' = "claimed"
        BY <3>1, <3>3 DEF Analyze, Rows, Wipe, Upsert, plan
      <4> QED
        BY <4>1, <2>6, CommandValues
    <3> QED
      BY <3>2, <3>3
  <2>10. CASE Boundary
    <3>1. UNCHANGED <<run, todo>>
      BY <2>10 DEF Boundary, plan
    <3> QED
      BY <2>10, <3>1 DEF WayToGo
  <2>11. CASE Outcome
    <3>1. CASE Deferred \/ Complete
      <4>1. /\ todo' = todo
            /\ \/ run = "file" /\ run' = "walked"
               \/ run = "walked" /\ run' = "completed"
        BY <3>1 DEF Deferred, Complete, plan
      <4> QED
        BY <4>1, <2>6, CommandValues
    <3>2. CASE Flush
      BY <3>2, <2>4 DEF Flush
    <3> QED
      BY <2>11, <3>1, <3>2 DEF Outcome
  <2>12. CASE Failure
    <3>1. CASE \E f \in Files : PassOver(f)
      <4>1. PICK f \in todo : todo' = todo \ {f} /\ run = "file" /\ run' = run
        BY <3>1 DEF PassOver, InHand
      <4> QED
        BY <4>1, <2>5, CommandValues
    <3>2. CASE FlushFails \/ SoftFail \/ Abort
      BY <3>2, <2>4 DEF FlushFails, SoftFail, Abort
    <3> QED
      BY <2>12, <3>1, <3>2 DEF Failure
  <2> QED
    BY <1>1, <2>7, <2>8, <2>9, <2>10, <2>11, <2>12 DEF Next
<1>2. TypeOK /\ [Next]_vars => [Shorter]_vars
  BY <1>1
<1> QED
  BY <1>2, TypeInit, TypeStep, PTL DEF Spec, RunsAreBounded
-----------------------------------------------------------------------------
(***************************************************************************)
(* What a flush settles and what a budget buys.  Both need to know how a   *)
(* step touches the two views of the store, and what a run in progress     *)
(* guarantees of the claims: none is missing once a file has been handled, *)
(* and only a degraded claim carries attempts.                             *)
(***************************************************************************)

(* Rows that no claim was ever made of, without call edges. *)
Hole(s, f) == s.claim[f] = "none" /\ s.rows[f] # None /\ s.calls[f] = None

Aligned == run = "idle" => tx = db

NoHoleSkipped == \A f \in skipped : ~ Hole(db, f) /\ ~ Hole(tx, f)

Reported == run \in MidFile => answer # "none"

Claimed ==
  \A f \in Files : hashes[f] # None /\ ~ (run \in {"read", "rows", "wiped"} /\ InHand(f)) =>
    tx.claim[f] # "none"

Charged(s) == \A f \in Files : s.attempts[f] > 0 => s.claim[f] \in Transient

JInv == Aligned /\ NoHoleSkipped /\ Reported /\ Claimed /\ Charged(db) /\ Charged(tx)

(* A view of the store that differs from another one at most in the import
   edges, and in what is kept of one file. *)
SameBut(s, r, f) ==
  \A g \in Files \ {f} : /\ s.rows[g] = r.rows[g] /\ s.calls[g] = r.calls[g]
                         /\ s.claim[g] = r.claim[g] /\ s.attempts[g] = r.attempts[g]

SameClaims(s, r) == s.claim = r.claim /\ s.attempts = r.attempts

(* How a step touches the store. *)
Touches ==
  \/ UNCHANGED store
  \/ Rearm
  \/ \E f \in Files : InHand(f) /\ db' = db /\ SameBut(tx', tx, f)
                      /\ (Upsert(f) \/ SameClaims(tx', tx))
  \/ db' = db /\ tx'.rows = tx.rows /\ tx'.calls = tx.calls /\ SameClaims(tx', tx)
  \/ db' = tx /\ tx' = tx
  \/ Abort

LEMMA StoreStep == TypeOK /\ [Next]_vars => Touches
<1> SUFFICES ASSUME TypeOK, [Next]_vars PROVE Touches
  OBVIOUS
<1>1. CASE World
  BY <1>1 DEF World, Edit, Upgrade, Touches
<1>2. CASE StartRun \/ StartFullRun
  BY <1>2 DEF StartRun, StartFullRun, Begins, Touches
<1>3. ASSUME NEW f \in Files, Analyze(f) PROVE Touches
  BY <1>3 DEF Analyze, Touches
<1>4. ASSUME NEW f \in Files, Rows(f) PROVE Touches
  <2>1. /\ InHand(f) /\ db' = db
        /\ \A g \in Files \ {f} : tx'.rows[g] = tx.rows[g]
        /\ tx'.calls = tx.calls /\ tx'.claim = tx.claim /\ tx'.attempts = tx.attempts
    BY <1>4 DEF Rows, TypeOK, Store
  <2> QED
    BY <2>1 DEF Touches, SameBut, SameClaims
<1>5. ASSUME NEW f \in Files, Wipe(f) PROVE Touches
  <2>1. /\ InHand(f) /\ db' = db
        /\ \A g \in Files \ {f} : tx'.calls[g] = tx.calls[g]
        /\ tx'.rows = tx.rows /\ tx'.claim = tx.claim /\ tx'.attempts = tx.attempts
    BY <1>5 DEF Wipe, TypeOK, Store
  <2> QED
    BY <2>1 DEF Touches, SameBut, SameClaims
<1>6. ASSUME NEW f \in Files, Upsert(f) PROVE Touches
  <2>1. /\ InHand(f) /\ db' = db
        /\ \A g \in Files \ {f} : tx'.claim[g] = tx.claim[g] /\ tx'.attempts[g] = tx.attempts[g]
        /\ tx'.rows = tx.rows /\ tx'.calls = tx.calls
    BY <1>6 DEF Upsert, TypeOK, Store
  <2> QED
    BY <1>6, <2>1 DEF Touches, SameBut
<1>7. ASSUME NEW f \in Files, Calls(f) PROVE Touches
  <2>1. /\ InHand(f) /\ db' = db
        /\ \A g \in Files \ {f} : tx'.calls[g] = tx.calls[g]
        /\ tx'.rows = tx.rows /\ tx'.claim = tx.claim /\ tx'.attempts = tx.attempts
    BY <1>7 DEF Calls, TypeOK, Store
  <2> QED
    BY <2>1 DEF Touches, SameBut, SameClaims
<1>8. CASE Boundary
  BY <1>8 DEF Boundary, Touches
<1>9. CASE Outcome
  <2>1. CASE Deferred
    BY <2>1 DEF Deferred, TypeOK, Store, Touches, SameClaims
  <2>2. CASE Complete \/ Flush
    BY <2>2 DEF Complete, Flush, Touches
  <2> QED
    BY <1>9, <2>1, <2>2 DEF Outcome
<1>10. CASE Failure
  BY <1>10 DEF Failure, PassOver, FlushFails, SoftFail, Touches
<1>11. CASE UNCHANGED vars
  BY <1>11 DEF vars, Touches
<1> QED
  BY <1>1, <1>2, <1>3, <1>4, <1>5, <1>6, <1>7, <1>8, <1>9, <1>10, <1>11 DEF Next, FileStep

(* How an attempt is charged: one is added only when the claim was degraded
   and stays so, and every other report resets the count. *)
LEMMA UpsertCharges ==
  ASSUME TypeOK, NEW f \in Files, Upsert(f), answer # "none"
  PROVE  /\ tx'.claim[f] \in {"self", answer} /\ tx'.claim[f] # "none"
         /\ tx'.attempts[f] \in {0, tx.attempts[f] + 1}
         /\ tx'.attempts[f] > 0 => tx'.claim[f] \in Transient
         /\ answer \in Transient => tx'.claim[f] \in Transient
         /\ answer = "complete" => tx'.claim[f] = "complete"
<1>1. /\ tx'.claim[f] = IF answer = "collateral" /\ tx.claim[f] = "self" /\ f \notin changed
                        THEN "self" ELSE answer
      /\ tx'.attempts[f] = IF {answer, tx.claim[f]} \subseteq Transient
                           THEN tx.attempts[f] + 1 ELSE 0
  BY DEF Upsert, TypeOK, Store
<1>2. tx.attempts[f] \in Nat
  BY StoreFields DEF TypeOK
<1> QED
  BY <1>1, <1>2 DEF Transient

LEMMA RearmFields ==
  ASSUME TypeOK, Rearm
  PROVE  /\ tx = db /\ tx' = db' /\ db'.rows = db.rows /\ db'.calls = db.calls
         /\ db'.claim = db.claim /\ \A f \in Files : db'.attempts[f] \in {0, db.attempts[f]}
<1>1. tx = db /\ tx' = db'
  BY DEF Rearm
<1>2. db'.rows = db.rows /\ db'.calls = db.calls /\ db'.claim = db.claim
  BY StoreFields DEF Rearm, TypeOK, Store
<1>3. \A f \in Files : db'.attempts[f] \in {0, db.attempts[f]}
  BY StoreFields DEF Rearm, TypeOK, Store
<1> QED
  BY <1>1, <1>2, <1>3

LEMMA AlignedStep == IInv /\ Aligned /\ [Next]_vars => Aligned'
<1> SUFFICES ASSUME IInv, Aligned, [Next]_vars PROVE Aligned'
  OBVIOUS
<1>1. CASE World
  BY <1>1 DEF World, Edit, Upgrade, Rearm, Aligned, store
<1>2. CASE StartRun \/ StartFullRun \/ FileStep \/ Boundary
  BY <1>2 DEF StartRun, StartFullRun, Begins, FileStep, Analyze, Rows, Wipe, Upsert, Calls,
              Boundary, Running, MidFile, Aligned
<1>3. CASE Outcome
  BY <1>3 DEF Outcome, Deferred, Complete, Flush, IInv, Committed, Aligned, store
<1>4. CASE Failure
  BY <1>4 DEF Failure, PassOver, FlushFails, SoftFail, Abort, IInv, Committed, Aligned, store
<1>5. CASE UNCHANGED vars
  BY <1>5 DEF vars, store, Aligned
<1> QED
  BY <1>1, <1>2, <1>3, <1>4, <1>5 DEF Next

(* The files left alone are settled when a run begins and ends. *)
LEMMA SkippedStep ==
  [Next]_vars => \/ skipped' = skipped \/ skipped' = {}
                 \/ run = "idle" /\ UNCHANGED store /\ skipped' = WouldSkip
<1> SUFFICES ASSUME [Next]_vars
             PROVE  \/ skipped' = skipped \/ skipped' = {}
                    \/ run = "idle" /\ UNCHANGED store /\ skipped' = WouldSkip
  OBVIOUS
<1>1. CASE World \/ Boundary
  BY <1>1 DEF World, Edit, Upgrade, Rearm, Boundary, plan
<1>2. CASE StartRun \/ StartFullRun
  BY <1>2 DEF StartRun, StartFullRun, Begins
<1>3. CASE FileStep
  BY <1>3 DEF FileStep, Analyze, Rows, Wipe, Upsert, Calls, plan
<1>4. CASE Outcome \/ Failure
  BY <1>4 DEF Outcome, Failure, Deferred, Complete, Flush, PassOver, FlushFails, SoftFail, Abort,
              Over, plan
<1>5. CASE UNCHANGED vars
  BY <1>5 DEF vars, plan
<1> QED
  BY <1>1, <1>2, <1>3, <1>4, <1>5 DEF Next

LEMMA NoHoleStep == IInv /\ Aligned /\ NoHoleSkipped /\ [Next]_vars => NoHoleSkipped'
<1> SUFFICES ASSUME IInv, Aligned, NoHoleSkipped, [Next]_vars, NEW g \in skipped'
             PROVE  ~ Hole(db', g) /\ ~ Hole(tx', g)
  BY DEF NoHoleSkipped, Hole
<1>1. CASE run = "idle" /\ UNCHANGED store /\ skipped' = WouldSkip
  <2>1. db' = db /\ tx' = db
    BY <1>1 DEF Aligned, store
  <2>2. g \in Files /\ g \notin Forced
    BY <1>1 DEF WouldSkip
  <2> QED
    BY <2>1, <2>2 DEF Forced, Hole
<1>2. CASE g \in skipped
  <2>1. g \in Files /\ g \notin todo /\ ~ Hole(db, g) /\ ~ Hole(tx, g)
    BY <1>2 DEF IInv, TypeOK, LeftAlone, NoHoleSkipped
  <2>2. Touches
    BY StoreStep DEF IInv
  <2>3. CASE Rearm
    BY <2>1, <2>3, RearmFields DEF IInv, Hole
  <2>4. CASE \E f \in Files : InHand(f) /\ db' = db /\ SameBut(tx', tx, f)
    BY <2>1, <2>4 DEF InHand, SameBut, Hole
  <2>5. CASE db' = db /\ tx'.rows = tx.rows /\ tx'.calls = tx.calls /\ SameClaims(tx', tx)
    BY <2>1, <2>5 DEF SameClaims, Hole
  <2>6. CASE UNCHANGED store \/ (db' = tx /\ tx' = tx) \/ Abort
    BY <2>1, <2>6 DEF store, Abort
  <2> QED
    BY <2>2, <2>3, <2>4, <2>5, <2>6 DEF Touches
<1> QED
  BY <1>1, <1>2, SkippedStep

LEMMA ReportedStep == Reported /\ [Next]_vars => Reported'
<1> SUFFICES ASSUME Reported, [Next]_vars PROVE Reported'
  OBVIOUS
<1>1. CASE World \/ Boundary
  BY <1>1 DEF World, Edit, Upgrade, Rearm, Boundary, Reported, work
<1>2. CASE StartRun \/ StartFullRun
  BY <1>2 DEF StartRun, StartFullRun, Begins, Reported, MidFile
<1>3. CASE FileStep
  BY <1>3 DEF FileStep, Analyze, Rows, Wipe, Upsert, Calls, Reported, MidFile, work
<1>4. CASE Outcome \/ Failure
  BY <1>4 DEF Outcome, Failure, Deferred, Complete, Flush, PassOver, FlushFails, SoftFail, Abort,
              Over, Reported, MidFile, work
<1>5. CASE UNCHANGED vars
  BY <1>5 DEF vars, Reported, work
<1> QED
  BY <1>1, <1>2, <1>3, <1>4, <1>5 DEF Next

LEMMA ClaimedStep == IInv /\ Reported /\ Claimed /\ [Next]_vars => Claimed'
<1> SUFFICES ASSUME IInv, Reported, Claimed, [Next]_vars PROVE Claimed'
  OBVIOUS
<1>1. CASE World
  <2>1. UNCHANGED <<run, plan, hashes>> /\ tx'.claim = tx.claim
    BY <1>1, RearmFields DEF World, Edit, Upgrade, Rearm, store, work, IInv
  <2> QED
    BY <2>1 DEF Claimed, InHand, Before, plan
<1>2. CASE StartRun \/ StartFullRun
  BY <1>2 DEF StartRun, StartFullRun, Begins, IInv, Clean, Claimed, Nothing, work
<1>3. ASSUME NEW f \in Files, Analyze(f) PROVE Claimed'
  <2>1. /\ run = "file" /\ UNCHANGED <<todo, last, hashes, tx>>
    BY <1>3 DEF Analyze, plan, store
  <2> QED
    BY <2>1 DEF Claimed, InHand, Before
<1>4. ASSUME NEW f \in Files, Rows(f) PROVE Claimed'
  <2>1. /\ run = "read" /\ run' = "rows" /\ InHand(f) /\ UNCHANGED <<todo, last>>
        /\ \A g \in Files \ {f} : hashes'[g] = hashes[g]
        /\ tx'.claim = tx.claim
    BY <1>4 DEF Rows, IInv, TypeOK, Store, plan
  <2>2. \A g \in Files \ {f} : ~ InHand(g)
    BY <2>1, OneInHand DEF IInv
  <2>3. InHand(f)'
    BY <2>1 DEF InHand, Before
  <2> QED
    BY <2>1, <2>2, <2>3 DEF Claimed
<1>5. ASSUME NEW f \in Files, Wipe(f) PROVE Claimed'
  <2>1. /\ run = "rows" /\ run' = "wiped" /\ UNCHANGED <<todo, last, hashes>>
        /\ tx'.claim = tx.claim
    BY <1>5 DEF Wipe, IInv, TypeOK, Store, plan, work
  <2> QED
    BY <2>1 DEF Claimed, InHand, Before
<1>6. ASSUME NEW f \in Files, Upsert(f) PROVE Claimed'
  <2>1. /\ run = "wiped" /\ run' = "claimed" /\ InHand(f) /\ UNCHANGED <<todo, last, hashes>>
        /\ \A g \in Files \ {f} : tx'.claim[g] = tx.claim[g]
    BY <1>6 DEF Upsert, IInv, TypeOK, Store, plan, work
  <2>2. \A g \in Files \ {f} : ~ InHand(g)
    BY <2>1, OneInHand DEF IInv
  <2>3. tx'.claim[f] # "none"
    BY <1>6, <2>1, UpsertCharges DEF Reported, MidFile, IInv
  <2> QED
    BY <2>1, <2>2, <2>3 DEF Claimed
<1>7. ASSUME NEW f \in Files, Calls(f) PROVE Claimed'
  <2>1. /\ run = "claimed" /\ run' = "file" /\ UNCHANGED hashes /\ tx'.claim = tx.claim
    BY <1>7 DEF Calls, IInv, TypeOK, Store, work
  <2> QED
    BY <2>1 DEF Claimed
<1>8. CASE Boundary
  BY <1>8 DEF Boundary, Claimed, InHand, Before, plan, work
<1>9. CASE Outcome
  <2>1. CASE Deferred \/ Complete
    <3>1. /\ run \in {"file", "walked"} /\ UNCHANGED hashes /\ tx'.claim = tx.claim
      BY <2>1 DEF Deferred, Complete, IInv, TypeOK, Store, work
    <3> QED
      BY <3>1 DEF Claimed
  <2>2. CASE Flush
    BY <2>2 DEF Flush, Over, Claimed, Nothing
  <2> QED
    BY <1>9, <2>1, <2>2 DEF Outcome
<1>10. CASE Failure
  <2>1. CASE \E f \in Files : PassOver(f)
    BY <2>1 DEF PassOver, store, Claimed
  <2>2. CASE FlushFails \/ SoftFail \/ Abort
    BY <2>2 DEF FlushFails, SoftFail, Abort, Over, Claimed, Nothing
  <2> QED
    BY <1>10, <2>1, <2>2 DEF Failure
<1>11. CASE UNCHANGED vars
  BY <1>11 DEF vars, Claimed, InHand, Before, plan, work, store
<1> QED
  BY <1>1, <1>2, <1>3, <1>4, <1>5, <1>6, <1>7, <1>8, <1>9, <1>10, <1>11 DEF Next, FileStep

LEMMA ChargedStep ==
  TypeOK /\ Reported /\ Charged(db) /\ Charged(tx) /\ [Next]_vars => Charged(db') /\ Charged(tx')
<1> SUFFICES ASSUME TypeOK, Reported, Charged(db), Charged(tx), [Next]_vars
             PROVE  Charged(db') /\ Charged(tx')
  OBVIOUS
<1>1. Touches
  BY StoreStep
<1>2. CASE Rearm
  BY <1>2, RearmFields DEF Charged
<1>3. ASSUME NEW f \in Files, db' = db, SameBut(tx', tx, f), Upsert(f)
      PROVE  Charged(db') /\ Charged(tx')
  <2>1. answer # "none"
    BY <1>3 DEF Upsert, Reported, MidFile
  <2>2. tx'.attempts[f] > 0 => tx'.claim[f] \in Transient
    BY <1>3, <2>1, UpsertCharges
  <2> QED
    BY <1>3, <2>2 DEF Charged, SameBut
<1>4. CASE db' = db /\ SameClaims(tx', tx)
  BY <1>4 DEF Charged, SameClaims
<1>5. CASE UNCHANGED store \/ (db' = tx /\ tx' = tx) \/ Abort
  BY <1>5 DEF Charged, store, Abort
<1> QED
  BY <1>1, <1>2, <1>3, <1>4, <1>5 DEF Touches

LEMMA JInvInit == Init => JInv
<1> SUFFICES ASSUME Init PROVE JInv
  OBVIOUS
<1>1. \A f \in Files : db.attempts[f] = 0
  <2>1. Empty.attempts = [f \in Files |-> 0]
    BY DEF Empty
  <2>2. \A holes \in SUBSET Files : Inherited(holes).attempts = Empty.attempts
    BY DEF Inherited, Empty
  <2>3. db.attempts = Empty.attempts
    BY <2>2 DEF Init
  <2> QED
    BY <2>1, <2>3
<1>2. tx = db /\ skipped = {} /\ run = "idle" /\ hashes = Nothing
  BY DEF Init
<1> QED
  BY <1>1, <1>2 DEF JInv, Aligned, NoHoleSkipped, Reported, Claimed, Charged, MidFile, Nothing

LEMMA JInvStep == IInv /\ JInv /\ [Next]_vars => JInv'
<1> SUFFICES ASSUME IInv, JInv, [Next]_vars PROVE JInv'
  OBVIOUS
<1>1. Aligned' /\ NoHoleSkipped' /\ Reported' /\ Claimed'
  BY AlignedStep, NoHoleStep, ReportedStep, ClaimedStep DEF JInv
<1>2. Charged(db') /\ Charged(tx')
  BY ChargedStep DEF JInv, IInv
<1> QED
  BY <1>1, <1>2 DEF JInv, Charged

(* After a flush the next run dispatches only what was edited or passed over
   since, and what is degraded and still has a budget: with nobody editing and
   nothing failing, every later run is the price of a budget. *)
THEOREM FlushSettlesHolds == Spec => FlushSettles
<1> DEFINE Settles == Flush => \A f \in Files \ WouldSkip' : Moved(f) \/ Degraded(db, f)
<1>1. ASSUME IInv, JInv, Next PROVE Settles
  <2> SUFFICES ASSUME Flush, NEW f \in Files \ WouldSkip', ~ Moved(f)
               PROVE  Degraded(db, f)
    OBVIOUS
  <2>1. /\ run = "completed" /\ marker' = version' /\ disk' = disk /\ db' = db /\ tx = db
        /\ snapshot'[f] = IF f \in skipped THEN snapshot[f] ELSE hashes[f]
    BY <1>1 DEF Flush, IInv, Committed, outside, store
  <2>2. f \notin ContentChanged'
    BY <2>1 DEF Moved, ContentChanged
  <2>3. f \in Forced'
    BY <2>1, <2>2 DEF WouldSkip
  <2>4. ~ Hole(db, f)
    <3>1. CASE f \in skipped
      BY <1>1, <3>1 DEF JInv, NoHoleSkipped
    <3>2. CASE f \notin skipped
      <4>1. hashes[f] # None
        BY <3>2, IndexAssumption, <1>1 DEF Moved, IInv, TypeOK
      <4> QED
        BY <1>1, <2>1, <4>1 DEF JInv, Claimed, Hole
    <3> QED
      BY <3>1, <3>2
  <2> QED
    BY <2>1, <2>3, <2>4 DEF Forced, Hole, Degraded
<1>2. IInv /\ JInv /\ [Next]_vars => [Settles]_vars
  BY <1>1
<1> QED
  BY <1>2, IInvInit, IInvStep, JInvInit, JInvStep, PTL DEF Spec, FlushSettles

(* A budget only ever grows by being spent: a forced dispatch that leaves the
   file degraded is never refunded by anything but doctor --fix. *)
THEOREM BudgetIsSpentHolds == Spec => BudgetIsSpent
<1> DEFINE Spent == \A f \in Files : tx'.attempts[f] < tx.attempts[f] =>
                      Rearm \/ Abort \/ tx'.claim[f] = "complete"
<1>1. ASSUME IInv, JInv, [Next]_vars PROVE Spent
  <2> SUFFICES ASSUME NEW f \in Files, tx'.attempts[f] < tx.attempts[f], ~ Rearm, ~ Abort
               PROVE  tx'.claim[f] = "complete"
    OBVIOUS
  <2>1. tx.attempts[f] \in Nat
    BY <1>1, StoreFields DEF IInv, TypeOK
  <2>2. tx'.attempts[f] # tx.attempts[f]
    BY <2>1
  <2>3. Upsert(f)
    BY <1>1, <2>2, StoreStep DEF Touches, SameBut, SameClaims, store, IInv
  <2>4. answer # "none"
    BY <1>1, <2>3 DEF Upsert, JInv, Reported, MidFile
  <2>5. tx.claim[f] \in Transient /\ tx.claim[f] \in Claims /\ answer \in Claims
    <3>1. tx.attempts[f] > 0
      <4>1. tx'.attempts[f] \in {0, tx.attempts[f] + 1}
        BY <1>1, <2>3, <2>4, UpsertCharges DEF IInv
      <4> QED
        BY <4>1, <2>1
    <3> QED
      BY <1>1, <3>1, StoreFields DEF JInv, Charged, IInv, TypeOK
  <2>6. answer \notin Transient
    <3> SUFFICES ASSUME answer \in Transient PROVE FALSE
      OBVIOUS
    <3>1. tx'.attempts[f] = tx.attempts[f] + 1
      BY <1>1, <2>3, <2>5 DEF Upsert, IInv, TypeOK, Store
    <3> QED
      BY <3>1, <2>1
  <2>7. answer = "complete"
    BY <2>4, <2>5, <2>6 DEF Claims
  <2> QED
    BY <1>1, <2>3, <2>4, <2>7, UpsertCharges DEF IInv
<1>2. IInv /\ JInv /\ [Next]_vars => [Spent]_vars
  BY <1>1
<1> QED
  BY <1>2, IInvInit, IInvStep, JInvInit, JInvStep, PTL DEF Spec, BudgetIsSpent
-----------------------------------------------------------------------------
(***************************************************************************)
(* What Heals rests on: who is blamed for a dead resolver and who pays.    *)
(***************************************************************************)

(* The plugin broke its resolver over what it read of the file. *)
Broke(f) == <<f, reads[f]>> \in Trouble

Breaks(f) == \E c \in Contents : <<f, c>> \in Trouble

(* Only a file that breaks the resolver on some content is ever recorded as
   having done so: the harmless never go to the end of the walk. *)
BlameIsFair == \A f \in Files : db.claim[f] = "self" \/ f \in last => Breaks(f)

(* A file not known to break the resolver is hurt by it only behind a file
   that nobody knew either and that broke it in this very run: the known ones
   wait until everybody else is served. *)
KnownOffendersWait ==
  [][\A f \in Files \ last :
       Analyze(f) /\ answer' = "collateral" =>
         \E g \in Files \ (last \cup todo) : Broke(g)]_vars

Blamed(s) == \A f \in Files : s.claim[f] = "self" => Breaks(f)

Accused ==
  run \in MidFile /\ answer = "self" => \A f \in Files : InHand(f) => Breaks(f)

BlameInv == Blamed(db) /\ Blamed(tx) /\ Accused /\ (\A f \in last : Breaks(f))

(* A dead resolver has its culprit in the run, and a known culprit means that
   only known ones are left. *)
Culprit ==
  resolver = "down" =>
    /\ run # "idle"
    /\ \E g \in Files : /\ Broke(g) /\ (g \in last => todo \subseteq last)
                        /\ g \notin todo \/ (run \in MidFile /\ InHand(g))

LEMMA AccusedStep == TypeOK /\ Accused /\ [Next]_vars => Accused'
<1> SUFFICES ASSUME TypeOK, Accused, [Next]_vars PROVE Accused'
  OBVIOUS
<1>1. CASE World \/ Boundary
  <2>1. UNCHANGED <<run, todo, last, answer>>
    BY <1>1 DEF World, Edit, Upgrade, Rearm, Boundary, plan, work
  <2> QED
    BY <2>1 DEF Accused, InHand, Before
<1>2. ASSUME NEW f \in Files, Analyze(f) PROVE Accused'
  <2>1. InHand(f) /\ UNCHANGED <<todo, last>> /\ (answer' = "self" => <<f, disk[f]>> \in Trouble)
    BY <1>2 DEF Analyze, plan
  <2>2. \A g \in Files : InHand(g)' => g = f
    BY <2>1, OneInHand DEF InHand, Before
  <2>3. answer' = "self" => Breaks(f)
    BY <2>1 DEF TypeOK, Breaks
  <2> QED
    BY <2>2, <2>3 DEF Accused, Breaks
<1>3. ASSUME NEW f \in Files, Rows(f) \/ Wipe(f) \/ Upsert(f) PROVE Accused'
  <2>1. run \in MidFile /\ UNCHANGED <<todo, last, answer>>
    BY <1>3 DEF Rows, Wipe, Upsert, plan, work, MidFile
  <2> QED
    BY <2>1 DEF Accused, InHand, Before
<1>4. CASE StartRun \/ StartFullRun \/ (\E f \in Files : Calls(f) \/ PassOver(f)) \/ Outcome
           \/ FlushFails \/ SoftFail \/ Abort
  <2>1. run' \notin MidFile
    BY <1>4 DEF StartRun, StartFullRun, Begins, Calls, PassOver, Outcome, Deferred, Complete,
                Flush, FlushFails, SoftFail, Abort, Over, MidFile
  <2> QED
    BY <2>1 DEF Accused
<1>5. CASE UNCHANGED vars
  BY <1>5 DEF vars, Accused, InHand, Before, plan, work
<1> QED
  BY <1>1, <1>2, <1>3, <1>4, <1>5 DEF Next, FileStep, Failure

LEMMA BlamedStep ==
  TypeOK /\ Accused /\ Blamed(db) /\ Blamed(tx) /\ [Next]_vars => Blamed(db') /\ Blamed(tx')
<1> SUFFICES ASSUME TypeOK, Accused, Blamed(db), Blamed(tx), [Next]_vars
             PROVE  Blamed(db') /\ Blamed(tx')
  OBVIOUS
<1>1. Touches
  BY StoreStep
<1>2. CASE Rearm
  BY <1>2, RearmFields DEF Blamed
<1>3. ASSUME NEW f \in Files, db' = db, SameBut(tx', tx, f), Upsert(f)
      PROVE  Blamed(db') /\ Blamed(tx')
  <2>1. /\ run \in MidFile /\ InHand(f)
        /\ tx'.claim[f] = "self" => tx.claim[f] = "self" \/ answer = "self"
    BY <1>3 DEF Upsert, TypeOK, Store, MidFile
  <2>2. tx'.claim[f] = "self" => Breaks(f)
    BY <2>1 DEF Accused, Blamed
  <2> QED
    BY <1>3, <2>2 DEF Blamed, SameBut
<1>4. CASE db' = db /\ SameClaims(tx', tx)
  BY <1>4 DEF Blamed, SameClaims
<1>5. CASE UNCHANGED store \/ (db' = tx /\ tx' = tx) \/ Abort
  BY <1>5 DEF Blamed, store, Abort
<1> QED
  BY <1>1, <1>2, <1>3, <1>4, <1>5 DEF Touches

(* Who goes last is decided when a run begins, from the committed claims. *)
LEMMA LastStep == [Next]_vars => last' \subseteq last \/ last' = SelfInflicted \/ last' = {}
<1> SUFFICES ASSUME [Next]_vars PROVE last' \subseteq last \/ last' = SelfInflicted \/ last' = {}
  OBVIOUS
<1>1. CASE World \/ Boundary
  BY <1>1 DEF World, Edit, Upgrade, Rearm, Boundary, plan
<1>2. CASE StartRun \/ StartFullRun
  BY <1>2 DEF StartRun, StartFullRun, Begins
<1>3. CASE FileStep
  BY <1>3 DEF FileStep, Analyze, Rows, Wipe, Upsert, Calls, plan
<1>4. CASE Outcome \/ Failure
  BY <1>4 DEF Outcome, Failure, Deferred, Complete, Flush, PassOver, FlushFails, SoftFail, Abort,
              Over, plan
<1>5. CASE UNCHANGED vars
  BY <1>5 DEF vars, plan
<1> QED
  BY <1>1, <1>2, <1>3, <1>4, <1>5 DEF Next

LEMMA BlameStep == TypeOK /\ BlameInv /\ [Next]_vars => BlameInv'
<1> SUFFICES ASSUME TypeOK, BlameInv, [Next]_vars PROVE BlameInv'
  OBVIOUS
<1>1. Accused' /\ Blamed(db') /\ Blamed(tx')
  BY AccusedStep, BlamedStep DEF BlameInv
<1>2. ASSUME NEW f \in last' PROVE Breaks(f)
  <2>1. f \in SelfInflicted => Breaks(f)
    BY DEF SelfInflicted, Forced, BlameInv, Blamed
  <2> QED
    BY <1>2, <2>1, LastStep DEF BlameInv
<1> QED
  BY <1>1, <1>2 DEF BlameInv, Blamed, Breaks

(* Nobody harmless is blamed, whatever is rolled back, passed over, carried
   over by a collateral claim or inherited from an earlier run. *)
THEOREM BlameIsFairHolds == Spec => []BlameIsFair
<1>1. Init => BlameInv
  <2> SUFFICES ASSUME Init PROVE BlameInv
    OBVIOUS
  <2>1. \A f \in Files : db.claim[f] = "none"
    <3>1. Empty.claim = [f \in Files |-> "none"]
      BY DEF Empty
    <3>2. \A holes \in SUBSET Files : Inherited(holes).claim = Empty.claim
      BY DEF Inherited, Empty
    <3> QED
      BY <3>1, <3>2 DEF Init
  <2> QED
    BY <2>1 DEF Init, BlameInv, Blamed, Accused, MidFile
<1>2. BlameInv => BlameIsFair
  BY DEF BlameInv, Blamed, BlameIsFair
<1> QED
  BY <1>1, <1>2, TypeInit, TypeStep, BlameStep, PTL DEF Spec

(* In the order of dispatch, everybody behind a known offender is one too. *)
LEMMA LastComeLast ==
  ASSUME NEW f \in Files, InHand(f), f \in last
  PROVE  todo \subseteq last
BY DEF InHand, Before

LEMMA CulpritStep == TypeOK /\ Culprit /\ [Next]_vars => Culprit'
<1> SUFFICES ASSUME TypeOK, Culprit, [Next]_vars PROVE Culprit'
  OBVIOUS
<1>1. CASE World \/ Boundary \/ UNCHANGED vars
  <2>1. UNCHANGED <<run, todo, last, reads, resolver>>
    BY <1>1 DEF World, Edit, Upgrade, Rearm, Boundary, vars, plan, work
  <2> QED
    BY <2>1 DEF Culprit, Broke, InHand, Before
<1>2. CASE StartRun \/ StartFullRun
  BY <1>2 DEF StartRun, StartFullRun, Begins, work, Culprit
<1>3. ASSUME NEW f \in Files, Analyze(f), resolver' = "down" PROVE Culprit'
  <2>1. /\ run = "file" /\ run' = "read" /\ InHand(f) /\ UNCHANGED <<todo, last>>
        /\ reads'[f] = disk[f] /\ \A g \in Files \ {f} : reads'[g] = reads[g]
    BY <1>3 DEF Analyze, TypeOK, plan
  <2>2. CASE resolver = "down"
    <3>1. PICK g \in Files : Broke(g) /\ (g \in last => todo \subseteq last) /\ g \notin todo
      BY <2>1, <2>2 DEF Culprit, MidFile
    <3>2. g # f
      BY <2>1, <3>1 DEF InHand
    <3> QED
      BY <2>1, <3>1, <3>2 DEF Culprit, Broke
  <2>3. CASE resolver = "up"
    <3>1. <<f, disk[f]>> \in Trouble
      BY <1>3, <2>3 DEF Analyze
    <3>2. InHand(f)' /\ (f \in last => todo \subseteq last)
      BY <2>1, LastComeLast DEF InHand, Before
    <3> QED
      BY <2>1, <3>1, <3>2 DEF Culprit, Broke, MidFile
  <2> QED
    BY <2>2, <2>3 DEF TypeOK
<1>4. ASSUME NEW f \in Files, Rows(f) \/ Wipe(f) \/ Upsert(f) PROVE Culprit'
  <2>1. run \in MidFile /\ run' \in MidFile /\ UNCHANGED <<todo, last, reads, resolver>>
    BY <1>4 DEF Rows, Wipe, Upsert, plan, work, MidFile
  <2> QED
    BY <2>1 DEF Culprit, Broke, InHand, Before, MidFile
<1>5. ASSUME NEW f \in Files, Calls(f), resolver' = "down" PROVE Culprit'
  <2>1. InHand(f) /\ todo' = todo \ {f} /\ UNCHANGED <<last, reads, resolver>>
    BY <1>5 DEF Calls, work
  <2>2. PICK g \in Files : /\ Broke(g) /\ (g \in last => todo \subseteq last)
                           /\ g \notin todo \/ InHand(g)
    BY <1>5, <2>1 DEF Culprit
  <2>3. g \notin todo'
    BY <2>1, <2>2, OneInHand
  <2> QED
    BY <1>5, <2>1, <2>2, <2>3 DEF Calls, Culprit, Broke
<1>6. CASE Deferred \/ Complete
  <2>1. run \notin MidFile /\ run' # "idle" /\ UNCHANGED <<todo, last, reads, resolver>>
    BY <1>6 DEF Deferred, Complete, MidFile, plan, work
  <2> QED
    BY <2>1 DEF Culprit, Broke
<1>7. CASE Flush \/ Failure
  BY <1>7 DEF Flush, Failure, PassOver, FlushFails, SoftFail, Abort, Over, Culprit
<1>8. ASSUME resolver' # "down" PROVE Culprit'
  BY <1>8 DEF Culprit
<1> QED
  BY <1>1, <1>2, <1>3, <1>4, <1>5, <1>6, <1>7, <1>8 DEF Next, FileStep, Outcome

(* Whoever is not known to break the resolver pays only for a first offence
   of somebody else: the second time the offender waits for everybody. *)
THEOREM KnownOffendersWaitHolds == Spec => KnownOffendersWait
<1> DEFINE Waits == \A f \in Files \ last :
                      Analyze(f) /\ answer' = "collateral" =>
                        \E g \in Files \ (last \cup todo) : Broke(g)
<1>1. ASSUME TypeOK, Culprit PROVE Waits
  <2> SUFFICES ASSUME NEW f \in Files \ last, Analyze(f), answer' = "collateral"
               PROVE  \E g \in Files \ (last \cup todo) : Broke(g)
    OBVIOUS
  <2>1. run = "file" /\ resolver = "down" /\ f \in todo
    BY DEF Analyze, InHand
  <2>2. PICK g \in Files : Broke(g) /\ (g \in last => todo \subseteq last) /\ g \notin todo
    BY <1>1, <2>1 DEF Culprit, MidFile
  <2>3. g \notin last
    BY <2>1, <2>2
  <2> QED
    BY <2>2, <2>3
<1>2. Init => Culprit
  BY DEF Init, Culprit
<1>3. TypeOK /\ Culprit /\ [Next]_vars => [Waits]_vars
  BY <1>1
<1> QED
  BY <1>2, <1>3, TypeInit, TypeStep, CulpritStep, PTL DEF Spec, KnownOffendersWait
=============================================================================
