----------------------- MODULE StableIdentity_proofs -----------------------
(***************************************************************************)
(* What the SEI mint pass promises for any number of locators, bodies and  *)
(* runs, and for any hints, edits and faults.                              *)
(***************************************************************************)
EXTENDS StableIdentity, FiniteSetTheorems, WellFoundedInduction, TLAPS

(* ux_sei_alive_locator *)
Unique ==
  \A s, t \in Sei : IsAlive(s) /\ IsAlive(t) /\ binding[s].at = binding[t].at => s = t

(* Only a pass has anything pending. *)
Quiet ==
  /\ phase # "writing" => orphans = {} /\ todo = {} /\ hand = None
  /\ phase # "idle" => id \in Runs
  /\ hand # None => binding[hand] # None
  /\ todo \subseteq analyzed /\ analyzed \subseteq Present

(* A decision still to be written has its locator to itself. *)
Planned == \A l \in todo : planned[l] \in Sei /\ AliveAt(l) \subseteq {planned[l]}

(* The proof a carry rests on: it stays, or its old locator is free and the
   body is the same. *)
Proof(s, l) ==
  IsAlive(s) /\ (binding[s].at = l \/ (binding[s].at \notin Current /\ SameBody(s, l)))

Carried ==
  /\ \A l \in todo \ minted : planned[l] \in reused \/ Proof(planned[l], l)
  /\ \A l, m \in todo \ minted : planned[l] = planned[m] => l = m

(* What is carried in silence stays where it is. *)
Stays ==
  \A l \in todo \cap silent :
    l \notin minted /\ (planned[l] \in reused \/ planned[l] \in AliveAt(l))

Doomed ==
  \A s \in orphans : /\ IsAlive(s) /\ binding[s].at \notin Current
                     /\ \A l \in todo \ minted : planned[l] # s

(* What the pass has dealt with has an identity. *)
Written ==
  reused = {} /\ phase = "writing" =>
    \A l \in analyzed \ todo : AliveAt(l) # {} \/ l \in loose

IInv == /\ TypeOK /\ Unique /\ Quiet /\ Planned /\ Carried /\ Stays /\ Doomed /\ Written
        /\ LineageAgrees /\ RetainedIsBound
-----------------------------------------------------------------------------
(* No SEI is None, and a minted one is an SEI. *)
LEMMA SeiFacts ==
  /\ None \notin Sei
  /\ \A l \in Locators, r \in Runs : mint_sei(l, r) \in Sei
  BY RecordAssumption DEF Sei, mint_sei

(* A row that is there is a record. *)
LEMMA RowFacts ==
  ASSUME TypeOK, NEW s \in Sei, IsAlive(s)
  PROVE  /\ binding[s] \in Binding
         /\ binding[s].at \in Locators /\ binding[s].body \in Bodies
         /\ s \in AliveAt(binding[s].at)
<1>1. binding[s] \in Binding
  BY DEF TypeOK, IsAlive
<1> QED BY <1>1 DEF Binding, AliveAt

(* A file that was not passed over is current if it is there. *)
LEMMA CurrentFacts == \A l \in Locators : l \notin Current => l \notin Present \/ l \in passed
  BY DEF Current, Retained, Present
-----------------------------------------------------------------------------
(* Every step keeps the types. *)
LEMMA TypeStep == TypeOK /\ Quiet /\ Planned /\ Doomed /\ [Next]_vars => TypeOK'
<1> SUFFICES ASSUME TypeOK, Quiet, Planned, Doomed, [Next]_vars PROVE TypeOK'
  OBVIOUS
<1> USE IdentityAssumption DEF TypeOK
<1>1. ASSUME NEW l \in Locators, NEW b \in Maybe, Write(l, b) PROVE TypeOK'
  BY <1>1 DEF Write, Tree, store, walk, plan, pending, history
<1>2. ASSUME NEW l \in Locators, NEW m \in Locators, Rename(l, m) PROVE TypeOK'
  <2>1. code' = [code EXCEPT ![m] = code[l], ![l] = None] /\ edits < MaxEdits /\ edits' = edits + 1
    BY <1>2 DEF Rename, Tree
  <2>2. code' \in [Locators -> Maybe]
    BY <2>1 DEF Maybe
  <2> QED BY <1>2, <2>1, <2>2 DEF Rename, Tree, store, walk, plan, pending, history
<1>3. ASSUME NEW r \in Runs, NEW full \in BOOLEAN, NEW over \in SUBSET Locators,
             CommitRun(r, full, over)
      PROVE  TypeOK'
  <2>1. Cardinality(over) \in Nat
    BY FS_Subset, FS_CardinalityType
  <2> QED BY <1>3, <2>1 DEF CommitRun, tree, store, plan, pending, history
<1>4. ASSUME NEW h \in Hints, BeginPass(h) PROVE TypeOK'
  <2>1. \A l \in Locators : Claim(l, h) \subseteq Sei
    BY DEF Claim, Match, AliveAt, RenamedTo, Moved, Vanished
  <2>2. phase = "committed" /\ id \in Runs
    BY <1>4 DEF BeginPass, Quiet
  <2>3. \A l \in analyzed : mint_sei(l, id) \in Sei
    BY <2>2, SeiFacts
  <2>4. planned' \in [Locators -> Sei \cup {None}]
    BY <1>4, <2>1, <2>3 DEF BeginPass
  <2>5. orphans' \subseteq Sei
    BY <1>4 DEF BeginPass, Vanished
  <2> QED BY <1>4, <2>4, <2>5 DEF BeginPass, tree, store, walk, history
<1>5. CASE SkipPass
  BY <1>5 DEF SkipPass, tree, store, walk, plan, pending
<1>6. ASSUME NEW s \in Sei, Orphan(s) PROVE TypeOK'
  <2>1. binding[s] \in Binding
    BY <1>6, RowFacts DEF Orphan, Doomed
  <2>2. [binding[s] EXCEPT !.status = "orphaned"] \in Binding
    BY <2>1 DEF Binding
  <2>3. binding' \in [Sei -> Binding \cup {None}]
    BY <1>6, <2>2 DEF Orphan
  <2> QED BY <1>6, <2>3 DEF Orphan, Left, tree, walk, plan
<1>7. ASSUME NEW l \in Locators, Upsert(l) PROVE TypeOK'
  <2>1. l \in todo /\ planned[l] \in Sei /\ walked[l] \in Bodies
    BY <1>7 DEF Upsert, First, Planned, Quiet, Present, Maybe
  <2>2. [at |-> l, body |-> walked[l], status |-> "alive"] \in Binding
    BY <2>1 DEF Binding
  <2>3. binding' \in [Sei -> Binding \cup {None}]
    BY <1>7, <2>2 DEF Upsert
  <2>4. /\ todo' \subseteq Locators /\ hand' \in Sei \cup {None}
        /\ loose' \subseteq Locators /\ reused' \subseteq Sei
    BY <1>7, <2>1 DEF Upsert, Left
  <2>5. UNCHANGED <<tree, snapshot, trail, phase, walk, plan, orphans, used, faults, torn>>
    BY <1>7 DEF Upsert
  <2> QED BY <2>3, <2>4, <2>5 DEF tree, walk, plan
<1>8. CASE AppendLineage
  <2>1. hand \in Sei
    BY <1>8 DEF AppendLineage
  <2>2. IsAlive(hand) => binding[hand].at \in Locators
    BY <2>1, RowFacts
  <2> QED BY <1>8, <2>1, <2>2 DEF AppendLineage, tree, walk, plan
<1>9. CASE PassFails
  <2>1. loose' \subseteq Locators
    BY <1>9 DEF PassFails
  <2>2. /\ faults < MaxFaults /\ faults' = faults + 1 /\ torn' = torn \cup ({hand} \ {None})
        /\ orphans' = {} /\ todo' = {} /\ hand' = None
        /\ UNCHANGED <<tree, snapshot, store, phase, walk, plan, used, reused>>
    BY <1>9 DEF PassFails, Lost
  <2> QED BY <2>1, <2>2, SeiFacts DEF tree, store, walk, plan
<1>10. CASE Flush
  BY <1>10 DEF Flush, Idle, Nowhere, Maybe, tree, store
<1>11. CASE Die
  BY <1>11, SeiFacts DEF Die, Idle, Nowhere, Maybe, Lost, tree, store
<1>12. CASE UNCHANGED vars
  BY <1>12 DEF vars, tree, store, walk, plan, pending, history
<1> QED
  BY <1>1, <1>2, <1>3, <1>4, <1>5, <1>6, <1>7, <1>8, <1>9, <1>10, <1>11, <1>12
  DEF Next, StartRun, ResumeRun
-----------------------------------------------------------------------------
(***************************************************************************)
(* The decisions.                                                          *)
(***************************************************************************)

(* A match is alive, and either stays or has left its locator free. *)
LEMMA MatchProves ==
  ASSUME NEW l \in Locators, NEW h, NEW s \in Match(l, h)
  PROVE  s \in Sei /\ Proof(s, l)
  BY DEF Match, AliveAt, RenamedTo, Moved, Vanished, Proof

(* An entity whose locator is bound claims that binding, alone. *)
LEMMA OwnIsClaimed ==
  ASSUME Unique, analyzed \subseteq Locators, NEW h,
         NEW l \in analyzed, NEW s \in AliveAt(l)
  PROVE  Claim(l, h) = {s}
<1>1. s \in Sei /\ IsAlive(s) /\ binding[s].at = l
  BY DEF AliveAt
<1>2. Match(l, h) = {s}
  BY <1>1 DEF Match, Unique, AliveAt
<1>3. ASSUME NEW m \in analyzed, m # l PROVE s \notin Match(m, h)
  <2>1. SUFFICES ASSUME s \in Match(m, h) PROVE FALSE
    OBVIOUS
  <2>2. binding[s].at = m \/ binding[s].at \notin Current
    BY <2>1, MatchProves DEF Proof
  <2> QED BY <1>1, <1>3, <2>2 DEF Current
<1>4. \A m \in analyzed : m < l => m # l
  BY IdentityAssumption
<1> QED BY <1>2, <1>3, <1>4 DEF Claim

(* No two entities claim the same binding. *)
LEMMA ClaimsDiffer ==
  ASSUME analyzed \subseteq Locators, NEW h, NEW l \in analyzed, NEW m \in analyzed,
         NEW s \in Claim(l, h), s \in Claim(m, h)
  PROVE  l = m
<1>1. s \in Match(l, h) /\ s \in Match(m, h) /\ ~(l < m) /\ ~(m < l)
  BY DEF Claim
<1> QED BY <1>1, IdentityAssumption

(* What the pass plans is proved. *)
LEMMA BeginKeeps ==
  ASSUME IInv, NEW h, BeginPass(h), TypeOK'
  PROVE  IInv'
<1> DEFINE carry == {l \in analyzed : Claim(l, h) # {}}
<1>1. /\ phase = "committed" /\ phase' = "writing"
      /\ planned' = [l \in Locators |-> IF l \in carry THEN CHOOSE s \in Claim(l, h) : TRUE
                                         ELSE IF l \in analyzed THEN mint_sei(l, id) ELSE None]
      /\ minted' = analyzed \ carry /\ silent' = {l \in carry : AliveAt(l) # {}}
      /\ orphans' = Vanished \ {planned'[l] : l \in carry}
      /\ todo' = analyzed /\ hand' = None
      /\ UNCHANGED <<tree, snapshot, store, walk, used, faults, history>>
  <2>1. /\ phase = "committed" /\ phase' = "writing" /\ minted' = analyzed \ carry
        /\ silent' = {l \in carry : AliveAt(l) # {}}
        /\ todo' = analyzed /\ hand' = None
        /\ UNCHANGED <<tree, snapshot, store, walk, used, faults, history>>
        /\ planned' = [l \in Locators |-> IF l \in carry THEN CHOOSE s \in Claim(l, h) : TRUE
                                           ELSE IF l \in analyzed THEN mint_sei(l, id) ELSE None]
    BY DEF BeginPass
  <2>2. orphans' = Vanished \ {planned'[l] : l \in carry}
    BY <2>1 DEF BeginPass
  <2> QED BY <2>1, <2>2
<1>2. /\ analyzed \subseteq Locators /\ id \in Runs
      /\ UNCHANGED <<binding, trail, snapshot, analyzed, walked, passed, loose, torn, reused, id>>
  BY <1>1 DEF IInv, TypeOK, Quiet, store, walk, history
<1>3. \A l \in carry : planned'[l] \in Claim(l, h) /\ planned'[l] \in Match(l, h)
  BY <1>1, <1>2 DEF Claim
<1>4. \A l \in analyzed : planned'[l] \in Sei
  BY <1>1, <1>2, <1>3, MatchProves, SeiFacts
<1> HIDE DEF carry
<1>5. \A s, l : (IsAlive(s)' <=> IsAlive(s)) /\ AliveAt(l)' = AliveAt(l) /\ (Proof(s, l)' <=> Proof(s, l))
  BY <1>2 DEF IsAlive, AliveAt, Proof, SameBody, Current, Retained, Present
<1>6. Unique' /\ Quiet' /\ Written' /\ LineageAgrees' /\ RetainedIsBound'
  BY <1>1, <1>2, <1>5, SeiFacts
  DEF IInv, Unique, Quiet, Written, LineageAgrees, RetainedIsBound, Present
<1>7. Planned'
  <2>1. ASSUME NEW l \in analyzed, NEW s \in AliveAt(l) PROVE s = planned'[l]
    <3>1. Claim(l, h) = {s}
      BY <1>2, OwnIsClaimed DEF IInv
    <3>2. l \in carry
      BY <3>1 DEF carry
    <3> QED BY <1>3, <3>1, <3>2
  <2> QED BY <1>1, <1>4, <1>5, <2>1 DEF Planned
<1>8. Carried'
  <2>1. \A l \in analyzed \ minted' : l \in carry
    BY <1>1
  <2>2. \A l \in carry : l \in Locators /\ l \in analyzed
    BY <1>2 DEF carry
  <2>3. \A l \in analyzed \ minted' : Proof(planned'[l], l)
    BY <1>3, <2>1, <2>2, MatchProves
  <2>4. \A l, m \in analyzed \ minted' : planned'[l] = planned'[m] => l = m
    BY <1>2, <1>3, <2>1, <2>2, ClaimsDiffer
  <2> QED BY <1>1, <1>5, <2>3, <2>4 DEF Carried
<1>9. Doomed'
  <2>1. ASSUME NEW s \in orphans'
        PROVE  /\ IsAlive(s) /\ binding[s].at \notin Current
               /\ \A l \in analyzed \ minted' : planned'[l] # s
    BY <1>1, <2>1 DEF Vanished, carry
  <2>2. Current' = Current
    BY <1>2 DEF Current, Retained, Present
  <2> QED BY <1>1, <1>2, <1>5, <2>1, <2>2 DEF Doomed
<1>10. Stays'
  <2>1. ASSUME NEW l \in silent' PROVE l \notin minted' /\ planned'[l] \in AliveAt(l)
    <3>1. l \in carry /\ l \in analyzed /\ AliveAt(l) # {}
      BY <1>1, <2>1 DEF carry
    <3>2. PICK s \in AliveAt(l) : TRUE
      BY <3>1
    <3>3. Claim(l, h) = {s}
      BY <1>2, <3>1, <3>2, OwnIsClaimed DEF IInv
    <3> QED BY <1>1, <1>3, <3>1, <3>3
  <2> QED BY <1>5, <2>1 DEF Stays
<1> QED BY <1>6, <1>7, <1>8, <1>9, <1>10 DEF IInv
-----------------------------------------------------------------------------
(***************************************************************************)
(* The writes.                                                             *)
(***************************************************************************)

(* The first write is an orphaning: what it takes away was doomed. *)
LEMMA OrphanKeeps ==
  ASSUME IInv, NEW s \in Sei, Orphan(s), TypeOK'
  PROVE  IInv'
<1>1. /\ phase = "writing" /\ hand = None /\ s \in orphans
      /\ binding' = [binding EXCEPT ![s].status = "orphaned"]
      /\ orphans' = orphans \ {s} /\ hand' = s /\ loose' = loose \cup Left(s)
      /\ UNCHANGED <<snapshot, trail, phase, id, walked, passed, analyzed, planned, minted, silent,
                     todo, torn, reused>>
  BY DEF Orphan, walk, plan
<1>2. /\ TypeOK /\ IsAlive(s) /\ binding[s] \in Binding /\ binding[s].at \in Locators
      /\ binding[s].at \notin Current
      /\ \A l \in todo \ minted : planned[l] # s
  BY <1>1, RowFacts DEF IInv, Doomed
<1>3. /\ ~IsAlive(s)' /\ binding'[s] # None
      /\ \A t \in Sei \ {s} : binding'[t] = binding[t] /\ (IsAlive(t)' <=> IsAlive(t))
  <2>1. /\ binding'[s] = [binding[s] EXCEPT !.status = "orphaned"]
        /\ \A t \in Sei \ {s} : binding'[t] = binding[t]
    BY <1>1, <1>2 DEF TypeOK
  <2>2. binding'[s] \in Binding /\ binding'[s].status = "orphaned"
    BY <1>2, <2>1 DEF Binding
  <2> QED BY <2>1, <2>2, RecordAssumption DEF IsAlive
<1>4. Current' = Current /\ Present' = Present
  BY <1>1 DEF Current, Retained, Present
<1>5. \A l : AliveAt(l)' = AliveAt(l) \ {s}
  BY <1>3 DEF AliveAt
<1>6. \A l \in Locators : s \in AliveAt(l) => l \in Left(s)
  BY <1>2, CurrentFacts DEF AliveAt, Left
<1>7. Unique' /\ Quiet'
  BY <1>1, <1>3, <1>4 DEF IInv, Unique, Quiet
<1>8. Planned'
  BY <1>1, <1>5 DEF IInv, Planned
<1>13. Stays'
  BY <1>1, <1>2, <1>5 DEF IInv, Stays
<1>9. Carried'
  <2>1. ASSUME NEW l \in todo \ minted, planned[l] \notin reused PROVE Proof(planned[l], l)'
    <3>1. planned[l] \in Sei \ {s} /\ Proof(planned[l], l)
      BY <1>2, <2>1 DEF IInv, Planned, Carried
    <3> QED BY <1>1, <1>3, <1>4, <3>1 DEF Proof, SameBody
  <2> QED BY <1>1, <2>1 DEF IInv, Carried
<1>10. Doomed'
  <2>1. orphans \subseteq Sei
    BY <1>2 DEF TypeOK
  <2> QED BY <1>1, <1>3, <1>4, <2>1 DEF IInv, Doomed
<1>11. Written' /\ RetainedIsBound'
  <2>1. \A l \in Locators : AliveAt(l) # {} \/ l \in loose => AliveAt(l)' # {} \/ l \in loose'
    BY <1>1, <1>5, <1>6
  <2>2. analyzed \subseteq Locators
    BY <1>2 DEF TypeOK
  <2> QED BY <1>1, <2>1, <2>2 DEF IInv, Written, RetainedIsBound
<1>12. LineageAgrees'
  BY <1>1, <1>3, SeiFacts DEF IInv, LineageAgrees
<1> QED BY <1>7, <1>8, <1>9, <1>10, <1>11, <1>12, <1>13 DEF IInv

(* An upsert puts a planned SEI at a locator that is its own to take. *)
LEMMA UpsertKeeps ==
  ASSUME IInv, NEW l \in Locators, Upsert(l), TypeOK'
  PROVE  IInv'
<1>0. PICK s \in Sei : s = planned[l]
  BY DEF Upsert, First, IInv, Planned
<1>1. /\ phase = "writing" /\ hand = None /\ orphans = {} /\ l \in todo /\ AliveAt(l) \subseteq {s}
      /\ binding' = [binding EXCEPT ![s] = [at |-> l, body |-> walked[l], status |-> "alive"]]
      /\ todo' = todo \ {l}
      /\ hand' = IF l \in silent THEN None ELSE s
      /\ loose' = (loose \cup Left(s)) \ {l}
      /\ reused' = IF l \in minted /\ binding[s] # None THEN reused \cup {s} ELSE reused
      /\ UNCHANGED <<snapshot, trail, phase, id, walked, passed, analyzed, planned, minted, silent,
                     orphans, torn>>
  BY <1>0 DEF Upsert, First, Collides, walk, plan
<1>2. TypeOK /\ todo \subseteq analyzed /\ analyzed \subseteq Locators
  BY <1>1 DEF IInv, Planned, Quiet, TypeOK
<1>3. s \notin reused' /\ binding[s] # None => l \notin minted /\ Proof(s, l)
  BY <1>0, <1>1 DEF IInv, Carried
<1>4. /\ binding'[s] = [at |-> l, body |-> walked[l], status |-> "alive"] /\ IsAlive(s)'
      /\ \A t \in Sei \ {s} : binding'[t] = binding[t] /\ (IsAlive(t)' <=> IsAlive(t))
  <2>1. binding'[s] = [at |-> l, body |-> walked[l], status |-> "alive"]
    BY <1>1, <1>2 DEF TypeOK
  <2>2. \A t \in Sei \ {s} : binding'[t] = binding[t]
    BY <1>1, <1>2 DEF TypeOK
  <2>3. binding'[s] # None
    <3>1. walked[l] \in Bodies
      BY <1>1, <1>2 DEF IInv, Quiet, Present, TypeOK, Maybe
    <3>2. binding'[s] \in Binding
      BY <2>1, <3>1 DEF Binding
    <3> QED BY <3>2, RecordAssumption
  <2> QED BY <2>1, <2>2, <2>3 DEF IsAlive
<1>5. AliveAt(l)' = {s}
  <2>1. s \in AliveAt(l)'
    BY <1>2, <1>4 DEF AliveAt
  <2>2. ASSUME NEW t \in AliveAt(l)', t # s PROVE FALSE
    <3>1. t \in Sei \ {s} /\ IsAlive(t)' /\ binding'[t].at = l
      BY <2>2 DEF AliveAt
    <3>2. t \in AliveAt(l)
      BY <1>4, <3>1 DEF AliveAt
    <3> QED BY <1>1, <2>2, <3>2
  <2> QED BY <2>1, <2>2
<1>6. ASSUME NEW m, m # l PROVE AliveAt(m)' = AliveAt(m) \ {s}
  BY <1>4, <1>6 DEF AliveAt
<1>7. Current' = Current /\ Present' = Present
  BY <1>1 DEF Current, Retained, Present
<1>8. Unique'
  <2>1. ASSUME NEW t \in Sei, NEW u \in Sei, IsAlive(t)', IsAlive(u)', binding'[t].at = binding'[u].at,
               t # s, u # s
        PROVE  t = u
    BY <1>4, <2>1 DEF IInv, Unique
  <2>2. ASSUME NEW t \in Sei, IsAlive(t)', binding'[t].at = l PROVE t = s
    BY <1>5, <2>2 DEF AliveAt
  <2> QED BY <1>4, <2>1, <2>2 DEF Unique
<1>9. Quiet'
  <2>1. hand' # None => binding'[hand'] # None
    BY <1>1, <1>4 DEF IsAlive
  <2> QED BY <1>1, <1>2, <1>7, <2>1 DEF IInv, Quiet
<1>10. Planned'
  BY <1>0, <1>1, <1>6 DEF IInv, Planned
<1>11. Carried'
  <2>1. ASSUME NEW m \in todo' \ minted, planned[m] \notin reused' PROVE Proof(planned[m], m)'
    <3>1. planned[m] \in Sei /\ Proof(planned[m], m) /\ m # l
      BY <1>1, <2>1 DEF IInv, Planned, Carried
    <3>2. planned[m] # s
      <4>1. SUFFICES ASSUME planned[m] = s PROVE FALSE
        OBVIOUS
      <4>2. binding[s] # None
        BY <3>1, <4>1 DEF Proof, IsAlive
      <4>3. l \in todo \ minted
        BY <1>1, <1>3, <2>1, <4>1, <4>2
      <4> QED BY <1>0, <1>1, <2>1, <3>1, <4>1, <4>3 DEF IInv, Carried
    <3> QED BY <1>1, <1>4, <1>7, <3>1, <3>2 DEF Proof, SameBody
  <2> QED BY <1>1, <2>1 DEF IInv, Carried
<1>12. Doomed'
  BY <1>1 DEF Doomed
<1>13. reused' = {} => \A m \in Locators : AliveAt(m) # {} \/ m \in loose => AliveAt(m)' # {} \/ m \in loose'
  <2> SUFFICES ASSUME reused' = {}, NEW m \in Locators, AliveAt(m) # {} \/ m \in loose, m # l
               PROVE  AliveAt(m)' # {} \/ m \in loose'
    BY <1>5
  <2>1. CASE m \in loose
    BY <1>1, <2>1
  <2>2. CASE s \notin AliveAt(m)
    BY <1>1, <1>6, <2>2
  <2>3. CASE s \in AliveAt(m)
    <3>1. IsAlive(s) /\ binding[s].at = m
      BY <2>3 DEF AliveAt
    <3>2. m \notin Current
      BY <1>3, <3>1 DEF Proof, IsAlive
    <3> QED BY <1>1, <2>3, <3>2, CurrentFacts DEF Left
  <2> QED BY <2>1, <2>2, <2>3
<1>14. reused' = {} => reused = {}
  BY <1>1
<1>15. Written'
  <2>1. ASSUME reused' = {}, NEW m \in analyzed \ todo' PROVE AliveAt(m)' # {} \/ m \in loose'
    BY <1>1, <1>2, <1>5, <1>13, <1>14, <2>1 DEF IInv, Written
  <2> QED BY <1>1, <2>1 DEF Written
<1>16. RetainedIsBound'
  <2>1. ASSUME reused' = {}, NEW m \in Locators, snapshot[m] # None PROVE AliveAt(m)' # {} \/ m \in loose'
    BY <1>13, <1>14, <2>1 DEF IInv, RetainedIsBound
  <2> QED BY <1>1, <2>1 DEF RetainedIsBound
<1>17. LineageAgrees'
  <2>1. ASSUME NEW t \in Sei \ (torn \cup {hand'} \cup reused'), t # s
        PROVE  trail[t] = IF binding'[t] = None THEN None ELSE IF IsAlive(t)' THEN binding'[t].at ELSE Gone
    BY <1>1, <1>4, <2>1, SeiFacts DEF IInv, LineageAgrees
  <2>2. ASSUME s \notin torn, hand' # s, s \notin reused'
        PROVE  trail[s] = l /\ binding'[s] # None /\ IsAlive(s)' /\ binding'[s].at = l
    <3>0. s \notin reused /\ l \in todo \cap silent
      BY <1>1, <2>2
    <3>1. IsAlive(s) /\ binding[s].at = l
      BY <1>0, <3>0 DEF IInv, Stays, AliveAt
    <3>2. trail[s] = l
      BY <1>1, <1>2, <2>2, <3>0, <3>1, SeiFacts DEF IInv, LineageAgrees, IsAlive
    <3> QED BY <1>4, <3>2 DEF IsAlive
  <2> QED BY <1>1, <2>1, <2>2 DEF LineageAgrees
<1>18. Stays'
  <2>1. ASSUME NEW m \in todo' \cap silent PROVE m \notin minted /\ (planned[m] \in reused' \/ planned[m] \in AliveAt(m)')
    <3>1. m \in todo \ minted /\ m # l /\ (planned[m] \in reused \/ planned[m] \in AliveAt(m))
      BY <1>1, <2>1 DEF IInv, Stays
    <3>2. CASE planned[m] = s /\ s \notin reused'
      <4>1. binding[s] # None
        BY <1>1, <3>1, <3>2 DEF AliveAt, IsAlive
      <4>2. l \in todo \ minted
        BY <1>1, <1>3, <3>2, <4>1
      <4> QED BY <1>0, <3>1, <3>2, <4>2 DEF IInv, Carried
    <3>3. CASE planned[m] # s \/ s \in reused'
      BY <1>1, <1>6, <3>1, <3>3
    <3> QED BY <3>2, <3>3
  <2> QED BY <1>1, <2>1 DEF Stays
<1> QED BY <1>8, <1>9, <1>10, <1>11, <1>12, <1>15, <1>16, <1>17, <1>18 DEF IInv

(* The event brings the log up to where the binding is. *)
LEMMA LineageKeeps ==
  ASSUME IInv, AppendLineage, TypeOK'
  PROVE  IInv'
<1>1. /\ hand # None /\ hand \in Sei /\ hand' = None /\ torn' = torn \ {hand}
      /\ trail' = [trail EXCEPT ![hand] = IF IsAlive(hand) THEN binding[hand].at ELSE Gone]
      /\ UNCHANGED <<binding, snapshot, phase, id, walked, passed, analyzed, planned, minted, silent,
                     orphans, todo, loose, reused>>
  BY DEF AppendLineage, walk, plan, IInv, TypeOK
<1>2. \A s, l : (IsAlive(s)' <=> IsAlive(s)) /\ AliveAt(l)' = AliveAt(l) /\ (Proof(s, l)' <=> Proof(s, l))
  BY <1>1 DEF IsAlive, AliveAt, Proof, SameBody, Current, Retained, Present
<1>3. Current' = Current /\ Present' = Present
  BY <1>1 DEF Current, Retained, Present
<1>4. Unique' /\ Quiet' /\ Planned'
  BY <1>1, <1>2, <1>3 DEF IInv, Unique, Quiet, Planned
<1>5. Carried' /\ Stays' /\ Doomed'
  BY <1>1, <1>2, <1>3 DEF IInv, Carried, Stays, Doomed
<1>6. Written' /\ RetainedIsBound'
  BY <1>1, <1>2, <1>3 DEF IInv, Written, RetainedIsBound
<1>7. LineageAgrees'
  <2>1. ASSUME NEW s \in Sei, s \notin torn', s \notin reused, s # hand
        PROVE  trail'[s] = IF binding[s] = None THEN None ELSE IF IsAlive(s) THEN binding[s].at ELSE Gone
    BY <1>1, <2>1 DEF IInv, TypeOK, LineageAgrees
  <2>2. trail'[hand] = IF IsAlive(hand) THEN binding[hand].at ELSE Gone
    BY <1>1 DEF IInv, TypeOK
  <2>3. binding[hand] # None
    BY <1>1 DEF IInv, Quiet
  <2> QED BY <1>1, <1>2, <2>1, <2>2, <2>3 DEF LineageAgrees
<1> QED BY <1>4, <1>5, <1>6, <1>7 DEF IInv
-----------------------------------------------------------------------------
(***************************************************************************)
(* The end of a pass, of a run, and what lies between runs.                *)
(***************************************************************************)

(* Steps that touch neither the store nor what is pending. *)
LEMMA BetweenKeeps ==
  ASSUME IInv, TypeOK',
         \/ \E l \in Locators, b \in Maybe : Write(l, b)
         \/ \E l, m \in Locators : Rename(l, m)
         \/ UNCHANGED vars
  PROVE  IInv'
<1>1. /\ UNCHANGED <<binding, trail, snapshot, phase, id, walked, passed, analyzed, planned, minted, silent,
                     orphans, todo, hand, loose, torn, reused>>
  BY DEF Write, Rename, Tree, vars, tree, store, walk, plan, pending, history
<1>2. \A s, m : (IsAlive(s)' <=> IsAlive(s)) /\ AliveAt(m)' = AliveAt(m) /\ (Proof(s, m)' <=> Proof(s, m))
  BY <1>1 DEF IsAlive, AliveAt, Proof, SameBody, Current, Retained, Present
<1>3. Current' = Current /\ Present' = Present
  BY <1>1 DEF Current, Retained, Present
<1>4. Unique' /\ Quiet' /\ Planned'
  BY <1>1, <1>2, <1>3 DEF IInv, Unique, Quiet, Planned
<1>5. Carried' /\ Stays' /\ Doomed'
  BY <1>1, <1>2, <1>3 DEF IInv, Carried, Stays, Doomed
<1>6. Written' /\ LineageAgrees' /\ RetainedIsBound'
  BY <1>1, <1>2, <1>3 DEF IInv, Written, LineageAgrees, RetainedIsBound
<1> QED BY <1>4, <1>5, <1>6 DEF IInv

(* A run commits with nothing pending. *)
LEMMA CommitKeeps ==
  ASSUME IInv, TypeOK', NEW r \in Runs, NEW full \in BOOLEAN, NEW over \in SUBSET Locators,
         CommitRun(r, full, over)
  PROVE  IInv'
<1>1. /\ phase' = "committed" /\ id' = r /\ orphans = {} /\ todo = {} /\ hand = None
      /\ walked' = code /\ analyzed' \subseteq {l \in Locators : code[l] # None}
      /\ UNCHANGED <<binding, trail, snapshot, planned, minted, silent, orphans, todo, hand,
                     loose, torn, reused>>
  BY DEF CommitRun, store, plan, pending, history, IInv, Quiet
<1>2. \A s, m : (IsAlive(s)' <=> IsAlive(s)) /\ AliveAt(m)' = AliveAt(m)
  BY <1>1 DEF IsAlive, AliveAt
<1> QED
  BY <1>1, <1>2
  DEF IInv, Unique, Quiet, Present, Planned, Carried, Stays, Doomed, Written, LineageAgrees, RetainedIsBound

(* A pass that is skipped or fails leaves its unwritten locators loose. *)
LEMMA PassKeeps ==
  ASSUME IInv, TypeOK', SkipPass \/ PassFails
  PROVE  IInv'
<1>1. /\ phase' = "writing" /\ orphans' = {} /\ todo' = {} /\ hand' = None
      /\ UNCHANGED <<binding, trail, snapshot, id, walked, passed, analyzed, planned, minted, silent, reused>>
      /\ id \in Runs
  BY DEF SkipPass, PassFails, store, walk, plan, pending, IInv, Quiet
<1>2. torn' = torn \cup Lost
  BY SeiFacts DEF SkipPass, PassFails, Lost, IInv, Quiet
<1>3. \A s, m : (IsAlive(s)' <=> IsAlive(s)) /\ AliveAt(m)' = AliveAt(m)
  BY <1>1 DEF IsAlive, AliveAt
<1>4. loose \subseteq loose'
  BY DEF SkipPass, PassFails
<1>5. ASSUME reused = {}, NEW l \in analyzed PROVE AliveAt(l) # {} \/ l \in loose'
  <2>1. CASE SkipPass
    BY <1>5, <2>1 DEF SkipPass
  <2>2. CASE PassFails
    <3>1. phase = "writing" /\ (l \in todo /\ AliveAt(l) = {} => l \in loose')
      BY <2>2 DEF PassFails
    <3> QED BY <1>4, <1>5, <3>1 DEF IInv, Written
  <2> QED BY <2>1, <2>2
<1>6. Unique' /\ Quiet' /\ Planned' /\ Carried' /\ Stays' /\ Doomed'
  BY <1>1, <1>3 DEF IInv, Unique, Quiet, Present, Planned, Carried, Stays, Doomed
<1>7. Written' /\ RetainedIsBound'
  BY <1>1, <1>3, <1>4, <1>5 DEF IInv, Written, RetainedIsBound
<1>8. LineageAgrees'
  BY <1>1, <1>2, <1>3 DEF Lost, IInv, LineageAgrees
<1> QED BY <1>6, <1>7, <1>8 DEF IInv

(* A run ends, with its snapshot or without. *)
LEMMA EndKeeps ==
  ASSUME IInv, TypeOK', Flush \/ Die
  PROVE  IInv'
<1>1. /\ phase' = "idle" /\ orphans' = {} /\ todo' = {} /\ hand' = None /\ analyzed' = {}
      /\ UNCHANGED <<binding, trail, reused>>
  BY DEF Flush, Die, Idle, store
<1>2. torn' = torn \cup Lost
  BY DEF Flush, Die, Lost
<1>3. \A s, m : (IsAlive(s)' <=> IsAlive(s)) /\ AliveAt(m)' = AliveAt(m)
  BY <1>1 DEF IsAlive, AliveAt
<1>4. Unique' /\ Quiet' /\ Planned' /\ Carried' /\ Stays' /\ Doomed' /\ Written'
  BY <1>1, <1>3 DEF IInv, Unique, Quiet, Planned, Carried, Stays, Doomed, Written
<1>5. LineageAgrees'
  BY <1>1, <1>2, <1>3 DEF Lost, IInv, LineageAgrees
<1>6. ASSUME reused = {}, NEW l \in Locators, snapshot'[l] # None, l \notin loose' PROVE AliveAt(l) # {}
  <2>1. CASE Die
    BY <1>6, <2>1 DEF Die, IInv, RetainedIsBound
  <2>2. CASE Flush
    <3>1. /\ phase = "writing" /\ todo = {} /\ l \notin loose
          /\ snapshot'[l] = IF l \in analyzed THEN walked[l]
                            ELSE IF l \in Retained THEN snapshot[l] ELSE None
      BY <1>6, <2>2 DEF Flush
    <3>2. CASE l \in analyzed
      BY <1>6, <3>1, <3>2 DEF IInv, Written
    <3>3. CASE l \notin analyzed
      BY <1>6, <3>1, <3>3 DEF IInv, RetainedIsBound
    <3> QED BY <3>2, <3>3
  <2> QED BY <2>1, <2>2
<1>7. RetainedIsBound'
  BY <1>1, <1>3, <1>6 DEF RetainedIsBound
<1> QED BY <1>4, <1>5, <1>7 DEF IInv
-----------------------------------------------------------------------------
(* A store with one complete index behind it. *)
LEMMA InitHolds == Init => IInv
<1> SUFFICES ASSUME Init PROVE IInv
  OBVIOUS
<1>1. PICK old \in Trees, r \in Runs : Indexed(old, r)
  BY DEF Init
<1>2. /\ binding = [s \in Sei |-> IF s.by = r /\ old[s.locator] # None
                                 THEN [at |-> s.locator, body |-> old[s.locator], status |-> "alive"]
                                 ELSE None]
      /\ trail = [s \in Sei |-> IF binding[s] # None THEN s.locator ELSE None]
      /\ code = old /\ snapshot = old /\ used = {r} /\ old \in [Locators -> Maybe]
  BY <1>1, IdentityAssumption DEF Indexed, Maybe
<1>3. ASSUME NEW s \in Sei
      PROVE  \/ binding[s] = None /\ trail[s] = None
             \/ /\ binding[s] = [at |-> s.locator, body |-> old[s.locator], status |-> "alive"]
                /\ s.by = r /\ binding[s] \in Binding /\ IsAlive(s) /\ trail[s] = binding[s].at
  <2>1. s.locator \in Locators /\ s.by \in Runs
    BY DEF Sei
  <2>2. CASE s.by = r /\ old[s.locator] # None
    <3>1. /\ binding[s] = [at |-> s.locator, body |-> old[s.locator], status |-> "alive"]
          /\ old[s.locator] \in Bodies
      BY <1>2, <2>1, <2>2 DEF Maybe
    <3>2. binding[s] \in Binding
      BY <2>1, <3>1 DEF Binding
    <3> QED BY <1>2, <2>2, <3>1, <3>2, RecordAssumption DEF IsAlive
  <2>3. CASE ~(s.by = r /\ old[s.locator] # None)
    BY <1>2, <2>3
  <2> QED BY <2>2, <2>3
<1>4. TypeOK
  <2>1. binding \in [Sei -> Binding \cup {None}]
    BY <1>2, <1>3
  <2>2. trail \in [Sei -> Locators \cup {None, Gone}]
    BY <1>2, <1>3 DEF Sei
  <2>3. code \in [Locators -> Maybe] /\ snapshot \in [Locators -> Maybe] /\ used \subseteq Runs
    BY <1>2
  <2>4. /\ phase = "idle" /\ id = None
        /\ walked \in [Locators -> Maybe] /\ planned \in [Locators -> Sei \cup {None}]
    BY DEF Init, Nowhere, Maybe
  <2>5. /\ edits \in 0 .. MaxEdits /\ faults \in 0 .. MaxFaults
        /\ passed = {} /\ analyzed = {} /\ minted = {} /\ silent = {} /\ orphans = {} /\ todo = {} /\ hand = None
        /\ loose = {} /\ torn = {} /\ reused = {}
    BY IdentityAssumption DEF Init
  <2> QED BY <2>1, <2>2, <2>3, <2>4, <2>5 DEF TypeOK
<1>5. Unique
  <2>1. ASSUME NEW s \in Sei, IsAlive(s)
        PROVE  s = [locator |-> binding[s].at, by |-> r]
    <3>1. s.by = r /\ binding[s].at = s.locator
      <4>1. binding[s] # None
        BY <2>1 DEF IsAlive
      <4>2. /\ binding[s] = [at |-> s.locator, body |-> old[s.locator], status |-> "alive"]
            /\ s.by = r
        BY <1>3, <4>1
      <4> QED BY <4>2
    <3>2. s = [locator |-> s.locator, by |-> s.by]
      BY DEF Sei
    <3> QED BY <3>1, <3>2
  <2> QED BY <2>1 DEF Unique
<1>6. RetainedIsBound
  <2>1. ASSUME NEW l \in Locators, snapshot[l] # None PROVE mint_sei(l, r) \in AliveAt(l)
    <3>1. mint_sei(l, r) \in Sei /\ mint_sei(l, r).by = r /\ mint_sei(l, r).locator = l
      BY SeiFacts DEF mint_sei
    <3>2. binding[mint_sei(l, r)] = [at |-> l, body |-> old[l], status |-> "alive"]
      BY <1>2, <2>1, <3>1
    <3>3. binding[mint_sei(l, r)] \in Binding
      <4>1. old[l] \in Bodies
        <5>1. old[l] \in Maybe /\ old[l] # None
          BY <1>2, <2>1
        <5> QED BY <5>1 DEF Maybe
      <4> QED BY <3>2, <4>1 DEF Binding
    <3>4. IsAlive(mint_sei(l, r))
      BY <3>2, <3>3, RecordAssumption DEF IsAlive
    <3> QED BY <3>1, <3>2, <3>4 DEF AliveAt
  <2> QED BY <2>1 DEF RetainedIsBound
<1>7. LineageAgrees
  <2>1. ASSUME NEW s \in Sei
        PROVE  trail[s] = IF binding[s] = None THEN None ELSE IF IsAlive(s) THEN binding[s].at ELSE Gone
    <3>1. CASE binding[s] = None
      BY <1>3, <3>1, RecordAssumption
    <3>2. CASE binding[s] # None
      BY <1>3, <3>2
    <3> QED BY <3>1, <3>2
  <2> QED BY <2>1 DEF LineageAgrees
<1> QED BY <1>4, <1>5, <1>6, <1>7 DEF Init, IInv, Quiet, Planned, Carried, Stays, Doomed, Written

(* Every step of the tree, the run and the pass. *)
LEMMA StepKeeps == IInv /\ [Next]_vars => IInv'
<1> SUFFICES ASSUME IInv, [Next]_vars PROVE IInv'
  OBVIOUS
<1>1. TypeOK'
  BY TypeStep DEF IInv
<1>2. ASSUME NEW l \in Locators, NEW b \in Maybe, Write(l, b) PROVE IInv'
  BY <1>1, <1>2, BetweenKeeps
<1>3. ASSUME NEW l \in Locators, NEW m \in Locators, Rename(l, m) PROVE IInv'
  BY <1>1, <1>3, BetweenKeeps
<1>4. CASE StartRun \/ ResumeRun
  <2>1. \A r \in used : r \in Runs
    BY DEF IInv, TypeOK
  <2> QED BY <1>1, <1>4, <2>1, CommitKeeps DEF StartRun, ResumeRun
<1>5. ASSUME NEW h \in Hints, BeginPass(h) PROVE IInv'
  BY <1>1, <1>5, BeginKeeps
<1>6. ASSUME NEW s \in Sei, Orphan(s) PROVE IInv'
  BY <1>1, <1>6, OrphanKeeps
<1>7. ASSUME NEW l \in Locators, Upsert(l) PROVE IInv'
  BY <1>1, <1>7, UpsertKeeps
<1>8. CASE AppendLineage
  BY <1>1, <1>8, LineageKeeps
<1>9. CASE SkipPass \/ PassFails
  BY <1>1, <1>9, PassKeeps
<1>10. CASE Flush \/ Die
  BY <1>1, <1>10, EndKeeps
<1>11. CASE UNCHANGED vars
  BY <1>1, <1>11, BetweenKeeps
<1> QED BY <1>2, <1>3, <1>4, <1>5, <1>6, <1>7, <1>8, <1>9, <1>10, <1>11 DEF Next

(* The invariant all the promises below rest on. *)
THEOREM Invariance == Spec => []IInv
  BY InitHolds, StepKeeps, PTL DEF Spec
-----------------------------------------------------------------------------
(* The mint pass keeps the types: a row is only ever updated where there is
   one, so a command of the plan never meets a missing binding. *)
THEOREM TypeCorrect == Spec => []TypeOK
<1>1. IInv => TypeOK
  BY DEF IInv
<1> QED BY <1>1, Invariance, PTL

(* No upsert of any pass meets the unique index on alive locators, whatever an
   earlier pass that died half way has left behind. *)
THEOREM UpsertNeverCollidesHolds == Spec => []UpsertNeverCollides
<1>1. IInv => UpsertNeverCollides
  BY DEF IInv, Planned, UpsertNeverCollides, Collides
<1> QED BY <1>1, Invariance, PTL

(* An entity the snapshot would have skipped is bound, unless an unfinished
   pass has left its locator loose. *)
THEOREM RetainedIsBoundHolds == Spec => []RetainedIsBound
<1>1. IInv => RetainedIsBound
  BY DEF IInv
<1> QED BY <1>1, Invariance, PTL

(* The lineage log ends where the binding is, for every token that no two mints
   under one run id have made. *)
THEOREM LineageAgreesHolds == Spec => []LineageAgrees
<1>1. IInv => LineageAgrees
  BY DEF IInv
<1> QED BY <1>1, Invariance, PTL

(* What a step does to a row: an orphaning only of a doomed one, an upsert only
   of a fresh token, a second mint of one, or a proved carry. *)
LEMMA RowStep ==
  ASSUME IInv, [Next]_vars, NEW s \in Sei, s \notin reused',
         binding[s] # None, binding'[s] # binding[s]
  PROVE  /\ phase = "writing"
         /\ \/ IsAlive(s) /\ binding[s].at \notin Current /\ ~IsAlive(s)'
            \/ \E l \in todo : /\ Proof(s, l)
                             /\ IsAlive(s)' /\ binding'[s].at = l /\ binding'[s].body = walked[l]
<1>1. (\E t \in Sei : Orphan(t)) \/ (\E l \in Locators : Upsert(l))
  <2>1. UNCHANGED vars => binding' = binding
    BY DEF vars, store
  <2>2. (\E l \in Locators, b \in Maybe : Write(l, b)) => binding' = binding
    BY DEF Write, Tree, store
  <2>3. (\E l, m \in Locators : Rename(l, m)) => binding' = binding
    BY DEF Rename, Tree, store
  <2>4. (StartRun \/ ResumeRun) => binding' = binding
    BY DEF StartRun, ResumeRun, CommitRun, store
  <2>5. ((\E h \in Hints : BeginPass(h)) \/ SkipPass) => binding' = binding
    BY DEF BeginPass, SkipPass, store
  <2>6. (AppendLineage \/ PassFails \/ Flush \/ Die) => binding' = binding
    BY DEF AppendLineage, PassFails, Flush, Die, store
  <2> QED BY <2>1, <2>2, <2>3, <2>4, <2>5, <2>6 DEF Next
<1>2. binding \in [Sei -> Binding \cup {None}]
  BY DEF IInv, TypeOK
<1>3. ASSUME NEW t \in Sei, Orphan(t)
      PROVE  phase = "writing" /\ IsAlive(s) /\ binding[s].at \notin Current /\ ~IsAlive(s)'
  <2>1. /\ phase = "writing" /\ t \in orphans
        /\ binding' = [binding EXCEPT ![t].status = "orphaned"]
    BY <1>3 DEF Orphan
  <2>2. t = s
    BY <1>2, <2>1
  <2>3. IsAlive(s) /\ binding[s].at \notin Current
    BY <2>1, <2>2 DEF IInv, Doomed
  <2>4. binding'[s] = [binding[s] EXCEPT !.status = "orphaned"] /\ binding[s] \in Binding
    BY <1>2, <2>1, <2>2
  <2>5. binding'[s].status = "orphaned"
    BY <2>4 DEF Binding
  <2> QED BY <2>1, <2>3, <2>5 DEF IsAlive
<1>4. ASSUME NEW l \in Locators, Upsert(l) PROVE \E m \in todo : /\ Proof(s, m)
             /\ IsAlive(s)' /\ binding'[s].at = m /\ binding'[s].body = walked[m]
  <2>1. /\ l \in todo /\ planned[l] \in Sei
        /\ binding' = [binding EXCEPT ![planned[l]] = [at |-> l, body |-> walked[l], status |-> "alive"]]
        /\ reused' = IF l \in minted /\ binding[planned[l]] # None
                      THEN reused \cup {planned[l]} ELSE reused
    BY <1>4 DEF Upsert, First, IInv, Planned
  <2>2. planned[l] = s
    BY <1>2, <2>1
  <2>3. binding'[s] = [at |-> l, body |-> walked[l], status |-> "alive"]
    BY <1>2, <2>1, <2>2
  <2>4. l \notin minted /\ s \notin reused
    BY <2>1, <2>2
  <2>5. Proof(s, l)
    BY <2>1, <2>2, <2>4 DEF IInv, Carried
  <2>6. walked[l] \in Bodies
    BY <2>1 DEF IInv, Quiet, Present, TypeOK, Maybe
  <2>7. binding'[s] # None
    <3>1. binding'[s] \in Binding
      BY <2>3, <2>6 DEF Binding
    <3> QED BY <3>1, RecordAssumption
  <2> QED BY <2>1, <2>3, <2>5, <2>7 DEF IsAlive
<1> QED BY <1>1, <1>3, <1>4 DEF Upsert

(* An identity moves only to an entity with the same body whose old locator the
   run found free, and an orphan stays one. *)
THEOREM CarriedOnlyOnProofHolds == Spec => CarriedOnlyOnProof
<1>1. IInv /\ [Next]_vars =>
        [\A s \in Sei \ reused' :
           binding[s] # None /\ binding'[s] # binding[s] =>
             /\ IsAlive(s)
             /\ IsAlive(s)' /\ binding'[s].at # binding[s].at =>
                   binding'[s].body = binding[s].body /\ binding[s].at \notin Current]_vars
  <2> SUFFICES ASSUME IInv, [Next]_vars, NEW s \in Sei, s \notin reused',
                      binding[s] # None, binding'[s] # binding[s]
               PROVE  /\ IsAlive(s)
                      /\ IsAlive(s)' /\ binding'[s].at # binding[s].at =>
                            binding'[s].body = binding[s].body /\ binding[s].at \notin Current
    OBVIOUS
  <2> QED BY RowStep DEF Proof, SameBody
<1> QED BY <1>1, Invariance, PTL DEF Spec, CarriedOnlyOnProof

(* An entity the run analyzed or skipped keeps its SEI. *)
THEOREM SeenKeepsIdentityHolds == Spec => SeenKeepsIdentity
<1>1. IInv /\ [Next]_vars =>
        [\A s \in Sei \ reused' :
           IsAlive(s) /\ phase = "writing" /\ walked[binding[s].at] # None /\ binding[s].at \notin passed =>
             IsAlive(s)' /\ binding'[s].at = binding[s].at]_vars
  <2> SUFFICES ASSUME IInv, [Next]_vars, NEW s \in Sei, s \notin reused', IsAlive(s),
                      walked[binding[s].at] # None, binding[s].at \notin passed
               PROVE  IsAlive(s)' /\ binding'[s].at = binding[s].at
    OBVIOUS
  <2>1. binding[s].at \in Current
    BY RowFacts, CurrentFacts DEF IInv, Present
  <2>2. CASE binding'[s] = binding[s]
    BY <2>2 DEF IsAlive
  <2>3. CASE binding'[s] # binding[s]
    BY <2>1, <2>3, RowStep DEF IsAlive, Proof
  <2> QED BY <2>2, <2>3
<1> QED BY <1>1, Invariance, PTL DEF Spec, SeenKeepsIdentity
-----------------------------------------------------------------------------
(***************************************************************************)
(* A pass goes on until it is done.                                        *)
(***************************************************************************)
(* While descriptors are left and nothing comes before them, there is a first
   one, and no other binding stands in its way: the loop over the plan always
   has a command that the store will take. *)
NextWriteIsThere ==
  phase = "writing" /\ hand = None /\ orphans = {} /\ todo # {} =>
    \E l \in Locators : First(l) /\ ~Collides(l)

(* A set of locators has a first one. *)
LEMMA FirstLocator ==
  ASSUME NEW L \in SUBSET Locators, L # {}
  PROVE  \E l \in L : \A m \in L : l <= m
<1> DEFINE R == OpToRel(<, Nat)
<1>1. IsWellFoundedOn(R, Nat)
  BY NatLessThanWellFounded
<1>2. L \subseteq Nat
  BY IdentityAssumption
<1>3. PICK l \in L : \A m \in L : ~(<<m, l>> \in R)
  <2> HIDE DEF R
  <2> QED BY <1>1, <1>2, WFMin
<1>4. \A m \in L : ~(m < l)
  BY <1>2, <1>3 DEF OpToRel
<1> QED BY <1>2, <1>4

(* The writes of a pass never lack a next one. *)
THEOREM NextWriteIsThereHolds == Spec => []NextWriteIsThere
<1>1. IInv => NextWriteIsThere
  <2> SUFFICES ASSUME IInv, todo # {}
               PROVE  \E l \in Locators : First(l) /\ ~Collides(l)
    BY DEF NextWriteIsThere
  <2>1. todo \subseteq Locators
    BY DEF IInv, TypeOK
  <2>2. PICK l \in todo : \A m \in todo : l <= m
    BY <2>1, FirstLocator
  <2>3. ~Collides(l)
    BY DEF IInv, Planned, Collides
  <2> QED BY <2>1, <2>2, <2>3 DEF First
<1> QED BY <1>1, Invariance, PTL

(* Each command still to be sent, with the lineage event that may follow it. *)
Backlog == 2 * (Cardinality(orphans) + Cardinality(todo)) + (IF hand = None THEN 0 ELSE 1)

(* Every step of a run makes its pass begin, ends the run, shortens what the
   pass has left, or is one of the faults. *)
PassesEnd ==
  [][phase # "idle" =>
       \/ phase' = "idle"
       \/ phase = "committed" /\ phase' = "writing"
       \/ Backlog' < Backlog
       \/ faults' = faults + 1]_vars

(* Doomed bindings are alive, each at a locator of its own. *)
LEMMA PendingIsFinite ==
  ASSUME IInv
  PROVE  /\ IsFiniteSet(orphans) /\ IsFiniteSet(todo)
         /\ Cardinality(orphans) \in Nat /\ Cardinality(todo) \in Nat
<1> DEFINE f == [s \in orphans |-> binding[s].at]
<1>1. \A s \in orphans : s \in Sei /\ IsAlive(s)
  BY DEF IInv, TypeOK, Doomed
<1>2. f \in [orphans -> Locators]
  BY <1>1, RowFacts DEF IInv
<1>3. \A s, t \in orphans : f[s] = f[t] => s = t
  BY <1>1 DEF IInv, Unique
<1>4. f \in Injection(orphans, Locators)
  BY <1>2, <1>3 DEF Injection, IsInjective
<1>5. IsFiniteSet(Locators)
  BY IdentityAssumption
<1>6. IsFiniteSet(orphans)
  BY <1>4, <1>5, FS_Injection
<1>7. IsFiniteSet(todo)
  BY <1>5, FS_Subset DEF IInv, TypeOK
<1> QED BY <1>6, <1>7, FS_CardinalityType

(* A pass over any number of entities is bounded by what it decided. *)
THEOREM PassesEndHold == Spec => PassesEnd
<1> DEFINE Body == phase # "idle" =>
                     \/ phase' = "idle"
                     \/ phase = "committed" /\ phase' = "writing"
                     \/ Backlog' < Backlog
                     \/ faults' = faults + 1
           o == Cardinality(orphans)
           t == Cardinality(todo)
<1>1. IInv /\ [Next]_vars => [Body]_vars
  <2> SUFFICES ASSUME IInv, Next, phase # "idle" PROVE Body
    BY DEF vars
  <2>1. CASE (\E l \in Locators, b \in Maybe : Write(l, b)) \/ (\E l, m \in Locators : Rename(l, m))
             \/ StartRun \/ ResumeRun
    BY <2>1 DEF Write, Rename, Tree, StartRun, ResumeRun, CommitRun
  <2>2. CASE (\E h \in Hints : BeginPass(h)) \/ SkipPass
    BY <2>2 DEF BeginPass, SkipPass
  <2>3. CASE PassFails \/ Flush \/ Die
    BY <2>3 DEF PassFails, Flush, Die, Idle
  <2>4. ASSUME NEW s \in Sei, Orphan(s) PROVE Backlog' < Backlog
    <3>1. /\ hand = None /\ s \in orphans /\ orphans' = orphans \ {s} /\ hand' = s /\ todo' = todo
      BY <2>4 DEF Orphan
    <3>2. /\ Cardinality(orphans') = o - 1 /\ Cardinality(todo') = t /\ o \in Nat /\ t \in Nat
      BY <3>1, PendingIsFinite, FS_RemoveElement
    <3> HIDE DEF o, t
    <3>3. Backlog = 2 * (o + t)
      BY <3>1, <3>2 DEF Backlog, o, t
    <3>4. Backlog' = 2 * ((o - 1) + t) + 1
      <4>1. hand' # None
        BY <3>1, SeiFacts
      <4> QED BY <3>2, <4>1 DEF Backlog
    <3> QED BY <3>2, <3>3, <3>4
  <2>5. ASSUME NEW l \in Locators, Upsert(l) PROVE Backlog' < Backlog
    <3>1. /\ hand = None /\ l \in todo /\ orphans' = orphans /\ todo' = todo \ {l}
      BY <2>5 DEF Upsert, First
    <3>2. /\ Cardinality(orphans') = o /\ Cardinality(todo') = t - 1 /\ o \in Nat /\ t \in Nat
      BY <3>1, PendingIsFinite, FS_RemoveElement
    <3> HIDE DEF o, t
    <3>3. Backlog = 2 * (o + t)
      BY <3>1, <3>2 DEF Backlog, o, t
    <3>4. Backlog' = 2 * (o + (t - 1)) + (IF hand' = None THEN 0 ELSE 1)
      BY <3>2 DEF Backlog
    <3> QED BY <3>2, <3>3, <3>4
  <2>6. ASSUME AppendLineage PROVE Backlog' < Backlog
    <3>1. hand # None /\ hand' = None /\ orphans' = orphans /\ todo' = todo
      BY <2>6 DEF AppendLineage
    <3>2. o \in Nat /\ t \in Nat
      BY PendingIsFinite
    <3>3. Backlog = 2 * (o + t) + 1 /\ Backlog' = 2 * (o + t)
      BY <3>1, <3>2 DEF Backlog
    <3> HIDE DEF o, t
    <3> QED BY <3>2, <3>3
  <2> QED BY <2>1, <2>2, <2>3, <2>4, <2>5, <2>6 DEF Next
<1> QED BY <1>1, Invariance, PTL DEF Spec, PassesEnd
-----------------------------------------------------------------------------
(***************************************************************************)
(* Tokens minted twice.  Five of the promises above except `reused`: the   *)
(* tokens that a pass mints although they have a row.  They all come from  *)
(* --resume: while every run takes an id of its own, there are none, so    *)
(* the promises hold without exception.                                    *)
(***************************************************************************)
NeverResumed == Init /\ [][Next /\ ~ResumeRun]_vars

NothingIsMintedTwice == reused = {}

(* Every token has the id of a run that began; none has that of a run whose
   pass did not, and each mint still to be written is of a token without a row. *)
Fresh ==
  /\ reused = {}
  /\ \A s \in Sei : binding[s] # None => s.by \in used
  /\ phase # "idle" => id \in used
  /\ phase = "committed" => \A s \in Sei : s.by = id => binding[s] = None
  /\ \A l \in todo \cap minted : planned[l] = mint_sei(l, id) /\ binding[planned[l]] = None

LEMMA FreshStep ==
  ASSUME IInv, Fresh, Next, ~ResumeRun
  PROVE  Fresh'
<1>1. CASE (\E l \in Locators, b \in Maybe : Write(l, b)) \/ (\E l, m \in Locators : Rename(l, m))
  BY <1>1 DEF Write, Rename, Tree, store, walk, plan, pending, history, Fresh
<1>2. CASE StartRun
  <2>1. PICK r \in Runs \ used : /\ phase' = "committed" /\ id' = r /\ used' = used \cup {r}
                                 /\ UNCHANGED <<binding, planned, minted, todo, reused>> /\ todo = {}
    BY <1>2 DEF StartRun, CommitRun, store, plan, pending, history, IInv, Quiet
  <2> QED BY <2>1 DEF Fresh
<1>3. ASSUME NEW h \in Hints, BeginPass(h) PROVE Fresh'
  <2>1. /\ phase = "committed" /\ phase' = "writing" /\ todo' = analyzed
        /\ \A l \in minted' : l \in Locators /\ planned'[l] = mint_sei(l, id)
        /\ UNCHANGED <<binding, id, used, reused>>
    BY <1>3 DEF BeginPass, store, walk, history, IInv, TypeOK
  <2>2. ASSUME NEW l \in minted' PROVE binding[mint_sei(l, id)] = None
    <3>1. mint_sei(l, id) \in Sei /\ mint_sei(l, id).by = id
      BY <2>1, SeiFacts DEF mint_sei, IInv, Quiet
    <3> QED BY <2>1, <3>1 DEF Fresh
  <2> QED BY <2>1, <2>2 DEF Fresh
<1>4. CASE SkipPass \/ PassFails
  <2>1. /\ phase' = "writing" /\ todo' = {} /\ phase # "idle"
        /\ UNCHANGED <<binding, id, used, reused>>
    BY <1>4 DEF SkipPass, PassFails, store, walk, pending, IInv, Quiet
  <2> QED BY <2>1 DEF Fresh
<1>5. ASSUME NEW s \in Sei, Orphan(s) PROVE Fresh'
  <2>1. /\ phase = "writing" /\ binding[s] # None /\ s \in orphans
        /\ binding' = [binding EXCEPT ![s].status = "orphaned"]
        /\ UNCHANGED <<phase, id, used, reused, planned, minted, todo>>
    BY <1>5 DEF Orphan, walk, plan, IInv, Doomed, IsAlive
  <2>2. \A t \in Sei \ {s} : binding'[t] = binding[t]
    BY <2>1 DEF IInv, TypeOK
  <2>3. \A l \in todo \cap minted : planned[l] \in Sei \ {s}
    BY <2>1 DEF Fresh, IInv, Planned
  <2> QED BY <2>1, <2>2, <2>3 DEF Fresh
<1>6. ASSUME NEW l \in Locators, Upsert(l) PROVE Fresh'
  <2> DEFINE s == planned[l]
  <2>1. /\ phase = "writing" /\ l \in todo /\ todo' = todo \ {l} /\ s \in Sei
        /\ binding' = [binding EXCEPT ![s] = [at |-> l, body |-> walked[l], status |-> "alive"]]
        /\ reused' = IF l \in minted /\ binding[s] # None THEN reused \cup {s} ELSE reused
        /\ UNCHANGED <<phase, id, used, planned, minted>>
    BY <1>6 DEF Upsert, First, walk, plan, IInv, Planned
  <2>2. l \notin minted => binding[s] # None
    BY <2>1 DEF IInv, Carried, Fresh, Proof, IsAlive
  <2>3. l \in minted => s = mint_sei(l, id) /\ binding[s] = None
    BY <2>1 DEF Fresh
  <2>4. s.by \in used
    BY <2>1, <2>2, <2>3 DEF Fresh, mint_sei
  <2>5. \A t \in Sei \ {s} : binding'[t] = binding[t]
    BY <2>1 DEF IInv, TypeOK
  <2>6. ASSUME NEW m \in todo' \cap minted PROVE planned[m] \in Sei \ {s}
    <3>1. m \in todo \cap minted /\ m # l /\ planned[m] \in Sei
      BY <2>1, <2>6 DEF IInv, Planned
    <3>2. planned[m] = mint_sei(m, id) /\ binding[planned[m]] = None
      BY <3>1 DEF Fresh
    <3> QED BY <2>2, <2>3, <3>1, <3>2 DEF mint_sei
  <2> HIDE DEF s
  <2>7. reused' = {}
    BY <2>1, <2>3 DEF Fresh
  <2>8. \A t \in Sei : binding'[t] # None => t.by \in used'
    BY <2>1, <2>4, <2>5 DEF Fresh
  <2> QED BY <2>1, <2>5, <2>6, <2>7, <2>8 DEF Fresh
<1>7. CASE AppendLineage
  BY <1>7 DEF AppendLineage, walk, plan, Fresh
<1>8. CASE Flush \/ Die
  BY <1>8 DEF Flush, Die, Idle, store, Fresh
<1> QED BY <1>1, <1>2, <1>3, <1>4, <1>5, <1>6, <1>7, <1>8 DEF Next

(* As long as no run takes the id of an earlier one, mint_sei, a hash of the
   locator and the run id, never yields a token that has a row: a pass that
   died half way, or a second entity at the same locator, does not. *)
THEOREM NothingIsMintedTwiceHolds == NeverResumed => []NothingIsMintedTwice
<1>1. NeverResumed => Spec
  BY PTL DEF NeverResumed, Spec
<1>2. Init => Fresh
  <2> SUFFICES ASSUME Init PROVE Fresh
    OBVIOUS
  <2>1. PICK old \in Trees, r \in Runs : Indexed(old, r)
    BY DEF Init
  <2>2. \A s \in Sei : binding[s] # None => s.by \in used
    BY <2>1 DEF Indexed
  <2> QED BY <2>2 DEF Init, Fresh
<1>3. IInv /\ Fresh /\ [Next /\ ~ResumeRun]_vars => Fresh'
  <2> SUFFICES ASSUME IInv, Fresh, UNCHANGED vars PROVE Fresh'
    BY FreshStep
  <2> QED BY DEF vars, store, walk, plan, pending, history, Fresh
<1>4. Fresh => NothingIsMintedTwice
  BY DEF Fresh, NothingIsMintedTwice
<1> QED BY <1>1, <1>2, <1>3, <1>4, Invariance, PTL DEF NeverResumed
=============================================================================
