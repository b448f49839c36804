------------------------ MODULE FindingSweep_proofs ------------------------
(***************************************************************************)
(* What FindingSweep promises for every set of files, keys, and bounds.    *)
(***************************************************************************)
EXTENDS FindingSweep, FiniteSets, FiniteSetTheorems, TLAPS

(* From the report on, what the run found has the run's id. *)
FoundIsStored ==
  stage \in {"reported", "completed", "swept", "secrets"} => \A k \in found : row[k] = "current"

IInv == TypeOK /\ FoundIsStored
-----------------------------------------------------------------------------
Rows == [Keys -> {"none", "prior", "current"}]

(* What the upsert and the sweeps make of the rows. *)
LEMMA RowWrites ==
  ASSUME row \in Rows, NEW ks
  PROVE  /\ Upserted(ks) => /\ row' \in Rows
                            /\ \A k \in Keys : row'[k] = IF k \in ks THEN "current" ELSE row[k]
         /\ Retire(ks) =>
              /\ row' \in Rows
              /\ \A k \in Keys : \/ row'[k] = row[k]
                                 \/ row[k] = "prior" /\ row'[k] = "none" /\ k \in ks \ owned
  BY DEF Rows, Upserted, Retire

(* The beginning of a run sets its scope. *)
LEMMA Beginning ==
  ASSUME TypeOK, NEW resume \in BOOLEAN, NEW full \in BOOLEAN, NEW no_sei \in BOOLEAN,
         NEW holes \in SUBSET Files, Begin(resume, full, no_sei, holes),
         faults' \in 0 .. MaxFaults
  PROVE  TypeOK' /\ FoundIsStored'
<1>1. row' \in Rows
  BY DEF TypeOK, Begin, Rows
<1>2. opts' \in Options
  <2> DEFINE all == \A f \in Sources : plugin[f] # "broken"
  <2>1. all \in BOOLEAN
    OBVIOUS
  <2>2. opts' = [resume |-> resume, full |-> full, no_sei |-> no_sei, discovered |-> all]
    BY DEF Begin
  <2> HIDE DEF all
  <2> QED BY <2>1, <2>2 DEF Options
<1>3. /\ unread' \subseteq Files /\ scanned' \subseteq Files /\ skipped' \subseteq Sources
      /\ todo' \subseteq Sources /\ found' \subseteq Keys
  BY DEF TypeOK, Begin, Files, Claimed, Met
<1>4. TypeOK'
  BY <1>1, <1>2, <1>3 DEF TypeOK, Begin, tree, index, Stages, Rows
<1>5. FoundIsStored'
  BY DEF Begin, FoundIsStored
<1> QED BY <1>4, <1>5

(* The end of a run leaves no scope behind. *)
LEMMA Ending ==
  ASSUME TypeOK, Over, row' \in Rows, UNCHANGED <<tree, index, owned>>, faults' \in 0 .. MaxFaults
  PROVE  TypeOK' /\ FoundIsStored'
<1>1. Defaults \in Options
  BY DEF Defaults, Options
<1> QED BY <1>1 DEF TypeOK, Over, Rows, Stages, tree, index, FoundIsStored

(* Every step keeps the invariant. *)
LEMMA StepIInv == IInv /\ [Next]_vars => IInv'
<1> SUFFICES ASSUME TypeOK, FoundIsStored, [Next]_vars
             PROVE  TypeOK' /\ FoundIsStored'
  BY DEF IInv
<1>0. row \in Rows /\ MaxFaults \in Nat /\ MaxChanges \in Nat /\ faults \in 0 .. MaxFaults
  BY SweepAssumption DEF TypeOK, Rows
<1>a. Fault => faults' \in 0 .. MaxFaults
  BY <1>0 DEF Fault
<1>b. Change => changes' \in 0 .. MaxChanges
  BY <1>0 DEF Change, TypeOK
<1> DEFINE Kept == TypeOK' /\ FoundIsStored'
<1> USE DEF tree, index, store, scope, work
<1>1. ASSUME NEW f \in Files, Edit(f) PROVE Kept
  <2>1. holds' \subseteq Keys
    BY <1>1 DEF Edit, TypeOK, Of
  <2> QED BY <1>1, <1>b, <2>1 DEF Edit, TypeOK, FoundIsStored
<1>2. ASSUME NEW f \in Sources, Install(f) PROVE Kept
  BY <1>2, <1>b DEF Install, TypeOK, FoundIsStored
<1>3. ASSUME NEW k \in Keys, Own(k) PROVE Kept
  BY <1>3, <1>b DEF Own, TypeOK, FoundIsStored
<1>c. ASSUME NEW f \in Files, Leave(f) \/ Return(f) PROVE Kept
  BY <1>c, <1>b DEF Leave, Return, TypeOK, FoundIsStored
<1>4. CASE Start
  BY <1>0, <1>4, Beginning DEF Start
<1>5. CASE StartBlind
  BY <1>5, <1>a, Beginning DEF StartBlind, Met, Claimed, Files
<1>6. ASSUME NEW f \in Sources, Look(f) PROVE Kept
  BY <1>6 DEF Look, Dispatched, TypeOK, FoundIsStored, Of
<1>d. ASSUME NEW f \in Sources, Persist(f) PROVE Kept
  BY <1>d DEF Persist, TypeOK, FoundIsStored
<1>7. ASSUME NEW f \in Sources, PassOver(f) PROVE Kept
  BY <1>7, <1>a DEF PassOver, Dispatched, TypeOK, FoundIsStored
<1>8. ASSUME NEW f \in Sources, Withhold(f) PROVE Kept
  BY <1>8, <1>a DEF Withhold, TypeOK, FoundIsStored
<1>9. CASE Report
  <2>1. row' \in Rows /\ \A k \in found : row'[k] = "current"
    BY <1>0, <1>9, RowWrites DEF Report, TypeOK
  <2> QED BY <1>9, <2>1 DEF Report, TypeOK, FoundIsStored, Rows, Stages
<1>10. CASE Fail
  <2>1. row' \in Rows
    BY <1>0, <1>10, RowWrites DEF Fail
  <2> QED BY <1>10, <1>a, <2>1, Ending DEF Fail
<1>11. CASE Commit
  BY <1>0, <1>11, <1>a DEF Commit, TypeOK, FoundIsStored, Stages
<1>12. CASE SweepAll \/ SweepSecrets
  <2>1. row' \in Rows /\ \A k \in Keys : row[k] = "current" => row'[k] = "current"
    BY <1>0, <1>12, RowWrites DEF SweepAll, SweepSecrets
  <2>2. /\ UNCHANGED <<tree, index, owned, scope, work, faults>>
        /\ stage \in {"completed", "swept"} /\ stage' \in {"swept", "secrets"}
    BY <1>12 DEF SweepAll, SweepSecrets
  <2> QED BY <2>1, <2>2 DEF TypeOK, FoundIsStored, Rows, Stages
<1>13. CASE SweepSyntax
  <2>1. row' \in Rows
    BY <1>0, <1>13, RowWrites DEF SweepSyntax
  <2> QED BY <1>0, <1>13, <2>1, Ending DEF SweepSyntax
<1>14. CASE SweepFails
  <2>1. CASE Over
    BY <1>0, <1>14, <1>a, <2>1, Ending DEF SweepFails
  <2>2. CASE stage \in {"completed", "swept"} /\ stage' \in {"swept", "secrets"}
             /\ UNCHANGED <<scope, work>>
    BY <1>14, <1>a, <2>2 DEF SweepFails, TypeOK, FoundIsStored, Stages
  <2> QED BY <1>14, <2>1, <2>2 DEF SweepFails
<1>15. CASE UNCHANGED vars
  BY <1>15 DEF vars, TypeOK, FoundIsStored
<1> QED BY <1>1, <1>2, <1>3, <1>4, <1>5, <1>6, <1>7, <1>8, <1>9, <1>10, <1>11, <1>12, <1>13,
           <1>14, <1>15, <1>c, <1>d DEF Next, World, Run, Failure

(* The store starts empty and no run is under way. *)
LEMMA InitIInv == Init => IInv
<1> SUFFICES ASSUME Init PROVE IInv
  OBVIOUS
<1>1. Defaults \in Options /\ 0 \in 0 .. MaxChanges /\ 0 \in 0 .. MaxFaults
  BY SweepAssumption DEF Defaults, Options
<1>2. TypeOK
  BY <1>1 DEF Init, TypeOK, Stages
<1> QED BY <1>2 DEF Init, IInv, FoundIsStored

(* So the invariant holds throughout. *)
LEMMA SpecIInv == Spec => []IInv
  BY InitIInv, StepIInv, PTL DEF Spec
-----------------------------------------------------------------------------
(* The variables keep their types, whatever runs fail, skip or cannot read. *)
THEOREM TypeSafety == Spec => []TypeOK
<1>1. IInv => TypeOK
  BY DEF IInv
<1> QED BY <1>1, SpecIInv, PTL

(* Only a sweep deletes, and what it deletes the run did not find. *)
LEMMA OnlySweepsDelete ==
  ASSUME IInv, [Next]_vars, NEW k \in Keys, row[k] # "none", row'[k] = "none"
  PROVE  /\ k \notin owned /\ k \notin found
         /\ \/ CleanFullPass /\ stage = "completed"
            \/ k \in Of(scanned, {"secret"}) \cup Of(classified, {"syntax"})
<1>0. row \in Rows /\ TypeOK
  BY DEF IInv, TypeOK, Rows
<1>a. ASSUME NEW ks, Retire(ks), stage \in {"completed", "swept", "secrets"}
      PROVE  k \in ks \ owned /\ k \notin found
  BY <1>0, <1>a, RowWrites DEF IInv, FoundIsStored
<1>1. CASE SweepAll
  BY <1>1, <1>a DEF SweepAll
<1>2. CASE SweepSecrets
  BY <1>2, <1>a DEF SweepSecrets
<1>3. CASE SweepSyntax
  BY <1>3, <1>a DEF SweepSyntax
<1>4. CASE Report \/ Fail
  BY <1>0, <1>4, RowWrites DEF Report, Fail
<1>5. CASE Start \/ StartBlind
  BY <1>0, <1>5 DEF Start, StartBlind, Begin, Rows
<1>6. CASE /\ ~SweepAll /\ ~SweepSecrets /\ ~SweepSyntax /\ ~Report /\ ~Fail
           /\ ~Start /\ ~StartBlind
  BY <1>6 DEF Next, World, Run, Failure, Edit, Leave, Return, Install, Own, Look, Persist, PassOver,
     Withhold, Commit, SweepFails, vars, store
<1> QED BY <1>1, <1>2, <1>3, <1>4, <1>5, <1>6

(* A finding that is deleted was looked for and not found, or its file is one
   that no gate of a full pass knows to have been overlooked: one that left
   the walk, that no plugin claims, or that was given up. *)
THEOREM NothingRetiredBlindly == Spec => RetiredOnlyIfLooked
<1>1. ASSUME IInv, [Next]_vars, NEW k \in Keys, row[k] # "none", row'[k] = "none"
      PROVE  /\ k \notin owned
             /\ \/ Looked(k) /\ k \notin found
                \/ Overlooked(k[1])
  <2>0. /\ k \notin owned /\ k \notin found
        /\ \/ CleanFullPass /\ stage = "completed"
           \/ k \in Of(scanned, {"secret"}) \cup Of(classified, {"syntax"})
    BY <1>1, OnlySweepsDelete
  <2>1. CASE k \in Of(scanned, {"secret"})
    BY <2>0, <2>1 DEF Of, Looked
  <2>2. CASE k \in Of(classified, {"syntax"})
    BY <1>1, <2>0, <2>2 DEF Of, Looked, IInv, TypeOK
  <2>3. CASE CleanFullPass /\ stage = "completed"
    <3>1. skipped = {} /\ unread = {}
      BY <2>3 DEF CleanFullPass
    <3>2. k[1] \in Sources \/ (k[1] \in Sidecars /\ k[2] = "secret")
      BY SweepAssumption
    <3> QED BY <2>0, <3>1, <3>2 DEF Looked, Overlooked
  <2> QED BY <2>0, <2>1, <2>2, <2>3
<1>2. IInv /\ [Next]_vars =>
        [\A k \in Keys :
           row[k] # "none" /\ row'[k] = "none" =>
             /\ k \notin owned
             /\ \/ Looked(k) /\ k \notin found
                \/ Overlooked(k[1])]_vars
  BY <1>1
<1> QED BY <1>2, SpecIInv, PTL DEF Spec, RetiredOnlyIfLooked
-----------------------------------------------------------------------------
(***************************************************************************)
(* What a skip may rely on, and what a full pass leaves.                   *)
(***************************************************************************)

(* What somebody decided about is there for as long as nobody removes it by
   hand: a sweep spares it, and so does the next upsert. *)
OwnedIsStored == \A k \in owned : row[k] # "none"

(* Findings that an incremental run would not report again, for their file is
   skipped as unchanged, and that are nevertheless not stored. *)
Missing ==
  {k \in Keys : k \in holds /\ k[1] \in fresh \ raced /\ k[2] # "secret" /\ row[k] = "none"}

(* A file whose entry is of the bytes its plugin has read is only ever skipped
   with its findings in the store.  The one way to lose one is a full pass that
   does not meet the file, gives it up, or has no plugin for it, sweeps, and
   does not get its prior index written.  An entry is of other bytes (raced)
   only when the file was edited between the read and the hash in the run that
   wrote it. *)
SkipForgetsNothing ==
  [][/\ \A k \in Missing' \ Missing : SweepAll /\ CleanFullPass /\ Overlooked(k[1])
     /\ raced' \subseteq raced \cup (late \cap hashed)]_vars

(* The sweep of a clean full pass leaves what the pass found and what somebody
   decided about, whatever earlier runs that failed, skipped or were resumed
   have left behind. *)
FullPassCleans ==
  [][SweepAll /\ CleanFullPass => \A k \in Keys : row'[k] # "none" => k \in found \cup owned]_vars

(* How much of a run is left. *)
StagesLeft ==
  [s \in Stages |->
     CASE s = "run" -> 5 [] s = "reported" -> 4 [] s = "completed" -> 3 [] s = "swept" -> 2
       [] s = "secrets" -> 1 [] OTHER -> 0]

WayToGo ==
  3 * Cardinality(todo) + 2 * Cardinality(reading) + Cardinality(classified) + StagesLeft[stage]

(* A run is bounded, and so are its sweeps: each of its steps, a failed one
   included, brings its end nearer, and the world does not send it back. *)
RunsAreBounded ==
  [][stage # "idle" => WayToGo' < WayToGo \/ (WayToGo' = WayToGo /\ World)]_vars

(* A file that was read, and not edited since, has its findings among those of
   the run, and one that was edited since the hash is not fresh. *)
LookedFound ==
  \A k \in holds :
    k[1] \in (reading \cup hashed) \ late /\ k[2] # "secret" => k \in found

EditedIsStale == (looked \ hashed) \cap fresh = {} /\ late \cap fresh \subseteq raced

Apart == hashed \subseteq looked /\ (todo \cup reading \cup looked \cup late) \cap skipped = {}

(* What carries the id of a run that was not resumed was found by it. *)
CurrentIsFound ==
  stage # "idle" /\ ~ opts.resume =>
    \A k \in Keys : row[k] = "current" => stage # "run" /\ k \in found

JInv == OwnedIsStored /\ LookedFound /\ EditedIsStale /\ Apart /\ CurrentIsFound

LEMMA StageValues ==
  /\ StagesLeft["idle"] = 0 /\ StagesLeft["run"] = 5 /\ StagesLeft["reported"] = 4
  /\ StagesLeft["completed"] = 3 /\ StagesLeft["swept"] = 2 /\ StagesLeft["secrets"] = 1
BY DEF StagesLeft, Stages

(* Rows are written when a run begins, reports or fails, and by its sweeps. *)
LEMMA RowSteps ==
  ASSUME TypeOK, [Next]_vars
  PROVE  \/ row' = row
         \/ stage = "idle" /\ stage' = "run" /\ opts' \in Options
            /\ row' = [k \in Keys |-> IF row[k] = "current" /\ ~ opts'.resume
                                      THEN "prior" ELSE row[k]]
         \/ Report \/ Fail \/ SweepAll \/ SweepSecrets \/ SweepSyntax
<1> USE DEF tree, index, store, scope, work
<1>1. ASSUME NEW resume \in BOOLEAN, NEW full \in BOOLEAN, NEW no_sei \in BOOLEAN,
             NEW holes, Begin(resume, full, no_sei, holes)
      PROVE  /\ stage = "idle" /\ stage' = "run" /\ opts' \in Options
             /\ row' = [k \in Keys |-> IF row[k] = "current" /\ ~ opts'.resume
                                       THEN "prior" ELSE row[k]]
  <2> DEFINE all == \A f \in Sources : plugin[f] # "broken"
  <2>1. all \in BOOLEAN
    OBVIOUS
  <2>2. opts' = [resume |-> resume, full |-> full, no_sei |-> no_sei, discovered |-> all]
    BY <1>1 DEF Begin
  <2> HIDE DEF all
  <2>3. opts' \in Options /\ opts'.resume = resume
    BY <2>1, <2>2 DEF Options
  <2> QED
    BY <1>1, <2>3 DEF Begin
<1>2. CASE Start \/ StartBlind
  BY <1>1, <1>2 DEF Start, StartBlind
<1>3. CASE World
  BY <1>3 DEF World, Edit, Leave, Return, Install, Own
<1>4. CASE (\E f \in Sources : Look(f) \/ Persist(f) \/ PassOver(f) \/ Withhold(f)) \/ Commit \/ SweepFails
           \/ UNCHANGED vars
  BY <1>4 DEF Look, Persist, PassOver, Withhold, Commit, SweepFails, vars
<1> QED
  BY <1>2, <1>3, <1>4 DEF Next, Run, Failure

(* No step takes away a row that somebody decided about. *)
LEMMA OwnedStep == IInv /\ OwnedIsStored /\ [Next]_vars => OwnedIsStored'
<1> SUFFICES ASSUME IInv, OwnedIsStored, [Next]_vars PROVE OwnedIsStored'
  OBVIOUS
<1>1. CASE \E k \in Keys : Own(k)
  BY <1>1 DEF Own, OwnedIsStored
<1>2. CASE ~ \E k \in Keys : Own(k)
  <2>1. owned' = owned
    BY <1>2 DEF Next, World, Edit, Leave, Return, Install, Start, StartBlind, Begin, Run, Look, Persist, Report, Commit,
                SweepAll, SweepSecrets, SweepSyntax, Failure, PassOver, Withhold, Fail, SweepFails,
                vars, store
  <2>2. \A k \in Keys : row[k] # "none" /\ k \in owned => row'[k] # "none"
    BY OnlySweepsDelete
  <2> QED
    BY <2>1, <2>2 DEF OwnedIsStored, IInv, TypeOK
<1> QED
  BY <1>1, <1>2

(* How the sets a run draws its conclusions from change together. *)
LEMMA ScopeSteps ==
  ASSUME TypeOK, [Next]_vars
  PROVE  \/ /\ UNCHANGED <<fresh, raced, reading, looked, hashed, late, skipped, found, holds>>
            /\ todo' \subseteq todo
         \/ \E f \in Files : Edit(f)
         \/ \E f \in Sources : Look(f) \/ Persist(f)
         \/ /\ UNCHANGED <<fresh, raced, holds>>
            /\ reading' = {} /\ looked' = {} /\ hashed' = {} /\ late' = {}
            /\ todo' \cap skipped' = {}
         \/ Commit
<1> USE DEF tree, index, store, scope, work
<1>1. CASE \/ \E f \in Sources : Install(f)
           \/ \E f \in Files : Leave(f) \/ Return(f)
           \/ \E k \in Keys : Own(k)
           \/ UNCHANGED vars
  BY <1>1 DEF Install, Leave, Return, Own, vars
<1>2. CASE Start \/ StartBlind
  BY <1>2 DEF Start, StartBlind, Begin
<1>3. CASE (\E f \in Sources : PassOver(f) \/ Withhold(f)) \/ Report \/ SweepAll \/ SweepSecrets
  BY <1>3 DEF PassOver, Dispatched, Withhold, Report, SweepAll, SweepSecrets
<1>4. CASE Fail \/ SweepSyntax
  BY <1>4 DEF Fail, SweepSyntax, Over
<1>5. CASE SweepFails
  BY <1>5 DEF SweepFails, Over
<1> QED
  BY <1>1, <1>2, <1>3, <1>4, <1>5 DEF Next, World, Run, Failure

LEMMA ApartStep == TypeOK /\ Apart /\ [Next]_vars => Apart'
<1> SUFFICES ASSUME TypeOK, Apart, [Next]_vars PROVE Apart'
  OBVIOUS
<1>1. CASE \E f \in Files : Edit(f)
  BY <1>1 DEF Edit, Apart, scope
<1>2. CASE \E f \in Sources : Look(f) \/ Persist(f)
  BY <1>2 DEF Look, Dispatched, Persist, Apart, scope
<1>3. CASE Commit
  BY <1>3 DEF Commit, Apart, scope, work
<1> QED
  BY <1>1, <1>2, <1>3, ScopeSteps DEF Apart

LEMMA StaleStep == TypeOK /\ Apart /\ EditedIsStale /\ [Next]_vars => EditedIsStale'
<1> SUFFICES ASSUME TypeOK, Apart, EditedIsStale, [Next]_vars PROVE EditedIsStale'
  OBVIOUS
<1>1. CASE \E f \in Files : Edit(f)
  BY <1>1 DEF Edit, EditedIsStale
<1>2. CASE \E f \in Sources : Look(f) \/ Persist(f)
  BY <1>2 DEF Look, Persist, index, EditedIsStale
<1>3. CASE Commit
  BY <1>3 DEF Commit, Apart, index, EditedIsStale, work
<1> QED
  BY <1>1, <1>2, <1>3, ScopeSteps DEF EditedIsStale

LEMMA FoundStep == TypeOK /\ LookedFound /\ [Next]_vars => LookedFound'
<1> SUFFICES ASSUME TypeOK, LookedFound, [Next]_vars PROVE LookedFound'
  OBVIOUS
<1>0. holds \subseteq Keys
  BY DEF TypeOK
<1>1. CASE \E f \in Files : Edit(f)
  <2>1. PICK f \in Files : /\ hashed' = hashed \ {f} /\ late' = late \cup (reading \cap {f})
                           /\ UNCHANGED <<reading, found>>
                           /\ \A k \in holds' : k[1] # f => k \in holds
    BY <1>1 DEF Edit, Of
  <2> QED
    BY <2>1 DEF LookedFound
<1>2. CASE \E f \in Sources : Look(f)
  <2>1. PICK f \in Sources : /\ reading' = {f} /\ UNCHANGED <<holds, hashed, late>>
                             /\ found' = found \cup (holds \cap Of({f}, {"syntax", "other"}))
    BY <1>2 DEF Look, tree
  <2>2. \A k \in holds : k[1] = f /\ k[2] # "secret" => k \in Of({f}, {"syntax", "other"})
    BY <1>0, SweepAssumption DEF Of, Families
  <2> QED
    BY <2>1, <2>2 DEF LookedFound
<1>3. CASE \E f \in Sources : Persist(f)
  BY <1>3 DEF Persist, LookedFound, tree
<1>4. CASE Commit
  BY <1>4 DEF Commit, LookedFound, work, tree
<1> QED
  BY <1>1, <1>2, <1>3, <1>4, ScopeSteps DEF LookedFound

LEMMA CurrentStep == TypeOK /\ CurrentIsFound /\ [Next]_vars => CurrentIsFound'
<1> SUFFICES ASSUME TypeOK, CurrentIsFound, [Next]_vars,
                    stage' # "idle", ~ opts'.resume, NEW k \in Keys, row'[k] = "current"
             PROVE  stage' # "run" /\ k \in found'
  BY DEF CurrentIsFound
<1> USE DEF tree, index, store, scope, work
<1>0. row \in Rows
  BY DEF TypeOK, Rows
<1>1. CASE stage = "idle" /\ stage' = "run" /\ opts' \in Options
           /\ row' = [i \in Keys |-> IF row[i] = "current" /\ ~ opts'.resume THEN "prior" ELSE row[i]]
  BY <1>1
<1>2. CASE Report
  BY <1>0, <1>2, RowWrites DEF Report, CurrentIsFound
<1>3. CASE Fail \/ SweepSyntax
  BY <1>3 DEF Fail, SweepSyntax, Over
<1>4. CASE SweepAll \/ SweepSecrets
  <2>1. /\ stage \in {"completed", "swept"} /\ stage' \in {"swept", "secrets"}
        /\ UNCHANGED <<opts, found>> /\ (row'[k] = row[k] \/ row'[k] = "none")
    BY <1>0, <1>4, RowWrites DEF SweepAll, SweepSecrets
  <2> QED
    BY <2>1 DEF CurrentIsFound
<1>5. CASE row' = row
  <2>1. CASE Start \/ StartBlind
    <3>1. PICK resume \in BOOLEAN, full \in BOOLEAN, no_sei \in BOOLEAN, holes \in SUBSET Files :
            Begin(resume, full, no_sei, holes)
      <4>1. CASE Start
        BY <4>1 DEF Start
      <4>2. CASE StartBlind
        BY <4>2 DEF StartBlind
      <4> QED
        BY <2>1, <4>1, <4>2
    <3>2. opts'.resume = resume /\ row'[k] = IF row[k] = "current" /\ ~ resume THEN "prior" ELSE row[k]
      BY <3>1 DEF Begin
    <3> QED
      BY <3>2
  <2>2. CASE World \/ (\E f \in Sources : Look(f) \/ Persist(f) \/ PassOver(f) \/ Withhold(f)) \/ UNCHANGED vars
    <3>1. UNCHANGED <<stage, opts>> /\ found \subseteq found'
      BY <2>2 DEF World, Edit, Leave, Return, Install, Own, Look, Dispatched, Persist, PassOver,
                    Withhold, vars
    <3> QED
      BY <1>5, <3>1 DEF CurrentIsFound
  <2>3. CASE Commit \/ (SweepFails /\ ~ Over)
    <3>1. /\ stage \in {"reported", "completed", "swept"} /\ stage' \in {"completed", "swept", "secrets"}
          /\ UNCHANGED <<opts, found>>
      BY <2>3 DEF Commit, SweepFails
    <3> QED
      BY <1>5, <3>1 DEF CurrentIsFound
  <2>4. CASE Over
    BY <2>4 DEF Over
  <2> QED
    BY <1>2, <1>3, <1>4, <2>1, <2>2, <2>3, <2>4 DEF Next, Run, Failure
<1> QED
  BY <1>1, <1>2, <1>3, <1>4, <1>5, RowSteps

LEMMA SpecJInv == Spec => []JInv
<1>1. Init => JInv
  BY DEF Init, JInv, OwnedIsStored, LookedFound, EditedIsStale, Apart, CurrentIsFound
<1>2. IInv /\ JInv /\ [Next]_vars => JInv'
  BY OwnedStep, FoundStep, StaleStep, ApartStep, CurrentStep DEF IInv, JInv
<1> QED
  BY <1>1, <1>2, SpecIInv, PTL DEF Spec

(* A decision about a finding outlives every run: the row it is about stays. *)
THEOREM OwnedIsStoredHolds == Spec => []OwnedIsStored
<1>1. JInv => OwnedIsStored
  BY DEF JInv
<1> QED
  BY <1>1, SpecJInv, PTL

(* After the sweep of a clean full pass nothing is stored that the pass did
   not find, unless somebody decided about it. *)
THEOREM FullPassCleansHolds == Spec => FullPassCleans
<1> DEFINE Cleans == SweepAll /\ CleanFullPass =>
                       \A k \in Keys : row'[k] # "none" => k \in found \cup owned
<1>1. ASSUME IInv, JInv PROVE Cleans
  <2> SUFFICES ASSUME SweepAll, CleanFullPass, NEW k \in Keys, row'[k] # "none", k \notin owned
               PROVE  k \in found
    OBVIOUS
  <2>1. row' = [i \in Keys |-> IF i \in Keys \ owned /\ row[i] = "prior" THEN "none" ELSE row[i]]
    BY DEF SweepAll, Retire
  <2>2. row[k] = "current"
    BY <1>1, <2>1 DEF IInv, TypeOK
  <2> QED
    BY <1>1, <2>2 DEF SweepAll, CleanFullPass, JInv, CurrentIsFound
<1>2. IInv /\ JInv /\ [Next]_vars => [Cleans]_vars
  BY <1>1
<1> QED
  BY <1>2, SpecIInv, SpecJInv, PTL DEF Spec, FullPassCleans

(* What the tree holds changes with an edit, which makes the file stale; what
   counts as unchanged, and what counts as raced, change when a run commits. *)
LEMMA FreshSteps ==
  ASSUME TypeOK, [Next]_vars
  PROVE  /\ \/ Commit
            \/ /\ fresh' \subseteq fresh /\ raced' \subseteq raced
               /\ fresh' \ raced' \subseteq fresh \ raced
         /\ \A k \in holds' \ holds : k[1] \notin fresh'
<1> USE DEF tree, index, store, scope, work
<1>1. ASSUME NEW f \in Files, Edit(f)
      PROVE  /\ fresh' \subseteq fresh /\ raced' \subseteq raced
             /\ fresh' \ raced' \subseteq fresh \ raced
             /\ \A k \in holds' \ holds : k[1] \notin fresh'
  BY <1>1 DEF Edit, Of
<1>2. CASE \E f \in Sources : Look(f) \/ Persist(f)
  BY <1>2 DEF Look, Persist
<1>3. CASE Commit
  BY <1>3 DEF Commit
<1> QED
  BY <1>1, <1>2, <1>3, ScopeSteps

(* Incremental runs can skip what they skip: no run leaves an unchanged file
   without its findings, but for the overlooked file of a full pass whose
   prior index was not written, and for a file that was edited while it was
   analyzed. *)
THEOREM SkipForgetsNothingHolds == Spec => SkipForgetsNothing
<1> DEFINE Forgets == /\ \A k \in Missing' \ Missing :
                           SweepAll /\ CleanFullPass /\ Overlooked(k[1])
                      /\ raced' \subseteq raced \cup (late \cap hashed)
<1>1. ASSUME IInv, JInv, [Next]_vars, NEW k \in Missing' \ Missing
      PROVE  SweepAll /\ CleanFullPass /\ Overlooked(k[1])
  <2> USE DEF tree, index, store, scope, work
  <2>1. /\ k \in Keys /\ k \in holds' /\ k[1] \in fresh' \ raced' /\ k[2] # "secret"
        /\ row'[k] = "none"
    BY <1>1 DEF Missing
  <2>2. k \in holds
    BY <1>1, <2>1, FreshSteps DEF IInv
  <2>3. k[1] \in hashed \ late => k \in found
    BY <1>1, <2>1, <2>2 DEF JInv, LookedFound
  <2>4. CASE row[k] = "none"
    <3>1. k[1] \notin fresh \ raced
      BY <1>1, <2>1, <2>2, <2>4 DEF Missing
    <3>2. Commit /\ k[1] \in hashed \ late
      BY <1>1, <2>1, <3>1, FreshSteps DEF IInv, Commit
    <3>3. row[k] = "current"
      BY <1>1, <2>3, <3>2 DEF Commit, IInv, FoundIsStored
    <3> QED
      BY <2>4, <3>3
  <2>5. CASE row[k] # "none"
    <3>1. SweepAll \/ SweepSecrets \/ SweepSyntax
      <4>1. row \in Rows
        BY <1>1 DEF IInv, TypeOK, Rows
      <4>2. ~ Report /\ ~ Fail
        BY <2>1, <2>5, <4>1, RowWrites DEF Report, Fail
      <4> QED
        BY <1>1, <2>1, <2>5, <4>2, RowSteps DEF IInv
    <3>2. k[1] \in fresh \ raced
      BY <2>1, <3>1 DEF SweepAll, SweepSecrets, SweepSyntax
    <3>3. /\ k \notin found
          /\ \/ CleanFullPass /\ stage = "completed"
             \/ k \in Of(scanned, {"secret"}) \cup Of(classified, {"syntax"})
      BY <1>1, <2>1, <2>5, OnlySweepsDelete
    <3>4. k[1] \notin looked
      BY <1>1, <2>3, <3>2, <3>3 DEF JInv, EditedIsStale
    <3>5. CleanFullPass /\ stage = "completed"
      BY <1>1, <2>1, <3>3, <3>4 DEF Of, IInv, TypeOK
    <3>6. k[1] \in Sources
      BY <2>1, SweepAssumption
    <3> QED
      BY <3>1, <3>4, <3>5, <3>6 DEF SweepSecrets, SweepSyntax, CleanFullPass, Overlooked
  <2> QED
    BY <2>4, <2>5
<1>2. ASSUME IInv, [Next]_vars PROVE raced' \subseteq raced \cup (late \cap hashed)
  BY <1>2, FreshSteps DEF IInv, Commit, index
<1>3. IInv /\ JInv /\ [Next]_vars => [Forgets]_vars
  BY <1>1, <1>2
<1> QED
  BY <1>3, SpecIInv, SpecJInv, PTL DEF Spec, SkipForgetsNothing

(* The sets a run works through are finite, and end empty. *)
LEMMA Finite ==
  ASSUME IsFiniteSet(Sources), TypeOK
  PROVE  /\ Cardinality(todo) \in Nat /\ Cardinality(classified) \in Nat
         /\ Cardinality(reading) \in Nat
         /\ \A f \in reading : Cardinality(reading \ {f}) = Cardinality(reading) - 1
         /\ StagesLeft[stage] \in 0 .. 5 /\ (stage # "idle" => StagesLeft[stage] > 0)
         /\ \A f \in todo : Cardinality(todo \ {f}) = Cardinality(todo) - 1
         /\ \A f \in classified : Cardinality(classified \ {f}) = Cardinality(classified) - 1
         /\ \A f : Cardinality(classified \cup {f}) \in 0 .. Cardinality(classified) + 1
<1>1. IsFiniteSet(todo) /\ IsFiniteSet(classified) /\ IsFiniteSet(reading)
  BY FS_Subset DEF TypeOK
<1>2. Cardinality(todo) \in Nat /\ Cardinality(classified) \in Nat /\ Cardinality(reading) \in Nat
  BY <1>1, FS_CardinalityType
<1>3. /\ \A f \in reading : Cardinality(reading \ {f}) = Cardinality(reading) - 1
      /\ \A f \in todo : Cardinality(todo \ {f}) = Cardinality(todo) - 1
      /\ \A f \in classified : Cardinality(classified \ {f}) = Cardinality(classified) - 1
  BY <1>1, FS_RemoveElement
<1>4. ASSUME NEW f PROVE Cardinality(classified \cup {f}) \in 0 .. Cardinality(classified) + 1
  <2>1. CASE f \in classified
    <3>1. classified \cup {f} = classified
      BY <2>1
    <3>2. Cardinality(classified \cup {f}) = Cardinality(classified)
      BY <3>1
    <3> DEFINE n == Cardinality(classified)
    <3>3. n \in Nat /\ Cardinality(classified \cup {f}) = n
      BY <1>2, <3>2
    <3> HIDE DEF n
    <3> QED
      BY <3>3 DEF n
  <2>2. CASE f \notin classified
    <3>1. Cardinality(classified \cup {f}) = Cardinality(classified) + 1
      BY <1>1, <2>2, FS_AddElement
    <3> QED
      BY <1>2, <3>1
  <2> QED
    BY <2>1, <2>2
<1>5. StagesLeft[stage] \in 0 .. 5 /\ (stage # "idle" => StagesLeft[stage] > 0)
  BY StageValues DEF TypeOK, Stages
<1> QED
  BY <1>2, <1>3, <1>4, <1>5

(* A run takes finitely many steps, in whatever way it ends. *)
THEOREM RunsEnd ==
  ASSUME IsFiniteSet(Sources)
  PROVE  Spec => RunsAreBounded
<1> DEFINE Shorter == stage # "idle" => WayToGo' < WayToGo \/ (WayToGo' = WayToGo /\ World)
<1>1. ASSUME TypeOK, Next PROVE Shorter
  <2> SUFFICES ASSUME stage # "idle" PROVE WayToGo' < WayToGo \/ (WayToGo' = WayToGo /\ World)
    OBVIOUS
  <2> DEFINE t == Cardinality(todo)
             r == Cardinality(reading)
             c == Cardinality(classified)
             s == StagesLeft[stage]
  <2> USE DEF tree, store, scope, work
  <2>0. t \in Nat /\ r \in Nat /\ c \in Nat /\ s \in 1 .. 5
    BY <1>1, Finite
  <2>a. ASSUME Over PROVE WayToGo' < WayToGo
    <3>1. todo' = {} /\ reading' = {} /\ classified' = {} /\ stage' = "idle"
      BY <2>a DEF Over
    <3>2. WayToGo' = 0
      <4>1. Cardinality({}) = 0
        BY FS_EmptySet
      <4> QED
        BY <3>1, <4>1, StageValues DEF WayToGo
    <3> QED
      BY <2>0, <3>2 DEF WayToGo
  <2>b. ASSUME UNCHANGED <<todo, reading, classified>>, StagesLeft[stage'] \in Nat, StagesLeft[stage'] < s
        PROVE  WayToGo' < WayToGo
    BY <2>0, <2>b DEF WayToGo
  <2>1. CASE World
    <3>1. UNCHANGED <<stage, todo, reading, classified>>
      BY <2>1 DEF World, Edit, Leave, Return, Install, Own
    <3> QED
      BY <2>1, <3>1 DEF WayToGo
  <2>2. CASE Start \/ StartBlind
    BY <2>2 DEF Start, StartBlind, Begin
  <2>3. ASSUME NEW f \in Sources, Look(f) PROVE WayToGo' < WayToGo
    <3>1. /\ stage' = stage /\ f \in todo /\ todo' = todo \ {f} /\ classified' = classified
          /\ reading = {} /\ reading' = {f}
      BY <2>3 DEF Look, Dispatched
    <3>2. Cardinality(todo') = t - 1 /\ r = 0 /\ Cardinality(reading') = 1
      <4>1. Cardinality({}) = 0
        BY FS_EmptySet
      <4>2. Cardinality({f}) = 1
        BY FS_Singleton
      <4> QED
        BY <1>1, <3>1, <4>1, <4>2, Finite
    <3> QED
      BY <2>0, <3>1, <3>2 DEF WayToGo
  <2>8. ASSUME NEW f \in Sources, Persist(f) PROVE WayToGo' < WayToGo
    <3>1. /\ stage' = stage /\ todo' = todo /\ classified' = classified \cup {f}
          /\ f \in reading /\ reading' = reading \ {f}
      BY <2>8 DEF Persist
    <3>2. Cardinality(reading') = r - 1 /\ Cardinality(classified') \in 0 .. c + 1
      BY <1>1, <3>1, Finite
    <3> QED
      BY <2>0, <3>1, <3>2 DEF WayToGo
  <2>4. ASSUME NEW f \in Sources, PassOver(f) PROVE WayToGo' < WayToGo
    <3>1. /\ stage' = stage /\ f \in todo /\ todo' = todo \ {f}
          /\ UNCHANGED <<reading, classified>>
      BY <2>4 DEF PassOver, Dispatched
    <3>2. Cardinality(todo') = t - 1
      BY <1>1, <3>1, Finite
    <3> QED
      BY <2>0, <3>1, <3>2 DEF WayToGo
  <2>5. ASSUME NEW f \in Sources, Withhold(f) PROVE WayToGo' < WayToGo
    <3>1. /\ UNCHANGED <<stage, todo, reading>> /\ f \in classified
          /\ classified' = classified \ {f}
      BY <2>5 DEF Withhold
    <3>2. Cardinality(classified') = c - 1
      BY <1>1, <3>1, Finite
    <3> QED
      BY <2>0, <3>1, <3>2 DEF WayToGo
  <2>6. CASE Report \/ Commit \/ SweepAll \/ SweepSecrets \/ (SweepFails /\ ~ Over)
    <3>1. /\ UNCHANGED <<todo, reading, classified>>
          /\ \/ stage = "run" /\ stage' = "reported"
             \/ stage = "reported" /\ stage' = "completed"
             \/ stage = "completed" /\ stage' = "swept"
             \/ stage = "swept" /\ stage' = "secrets"
      BY <2>6 DEF Report, Commit, SweepAll, SweepSecrets, SweepFails
    <3> QED
      BY <2>b, <3>1, StageValues
  <2>7. CASE Fail \/ SweepSyntax \/ (SweepFails /\ Over)
    BY <2>7, <2>a DEF Fail, SweepSyntax
  <2> QED
    BY <1>1, <2>1, <2>2, <2>3, <2>4, <2>5, <2>6, <2>7, <2>8 DEF Next, Run, Failure
<1>2. TypeOK /\ [Next]_vars => [Shorter]_vars
  BY <1>1
<1>3. IInv => TypeOK
  BY DEF IInv
<1> QED
  BY <1>2, <1>3, SpecIInv, PTL DEF Spec, RunsAreBounded
==============================================================================
