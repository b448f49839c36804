--------------------------- MODULE StableIdentity ---------------------------
(***************************************************************************)
(* The SEI mint pass.  Every entity has a locator, which a rename changes, *)
(* and a stable entity identity (SEI), which should survive the rename.    *)
(* After the run has committed, the pass compares the entities the run     *)
(* extracted with the bindings alive in sei_bindings, decides for each     *)
(* whether an identity is carried or minted and which bindings are         *)
(* orphaned, and then writes the outcome one autocommitted command at a    *)
(* time; only after it is the prior-index snapshot flushed, by which the   *)
(* next run decides what to skip.                                          *)
(*                                                                         *)
(* There is one entity per file, so a locator stands for its file too. An  *)
(* entity is its body: the hash, and a signature the body determines.      *)
(***************************************************************************)
EXTENDS Naturals, FiniteSets

CONSTANTS Locators,   \* numbers, in the order of the locator strings
          Bodies,     \* what an entity's source can be
          Signed,     \* the bodies whose entity has a signature
          Runs,       \* run ids
          None, Gone, \* no such thing; orphaned
          Trees,      \* bound: source trees that the first index was made of
          MaxHints,   \* bound: renames git reports in one run
          MaxEdits,   \* bound: edits of the source tree
          MaxFaults   \* bound: kills, failed passes and files passed over

ASSUME IdentityAssumption ==
  /\ Locators \subseteq Nat /\ IsFiniteSet(Locators)
  /\ Signed \subseteq Bodies
  /\ None \notin Locators /\ None \notin Bodies /\ Gone \notin Locators /\ Gone # None
  /\ Trees \subseteq [Locators -> Bodies \cup {None}]
  /\ MaxHints \in Nat /\ MaxEdits \in Nat /\ MaxFaults \in Nat

(* mint_sei: the token is a hash of the locator and the run that mints it. *)
Sei == [locator : Locators, by : Runs]
mint_sei(l, r) == [locator |-> l, by |-> r]

(* A row of sei_bindings. *)
Binding == [at : Locators, body : Bodies, status : {"alive", "orphaned"}]

ASSUME RecordAssumption == None \notin Sei /\ None \notin Binding

VARIABLES
  code,     \* the source tree: body of the entity at each locator
  snapshot, \* the prior index: body recorded for each locator
  binding,  \* sei_bindings: row of each SEI
  trail,    \* sei_lineage: where the last event of each SEI says it is
  phase,    \* stage of the run
  id,       \* its run id
  walked,   \* the tree as this run saw it
  passed,   \* files it sent to the plugin and got nothing back for
  analyzed, \* locators it extracted (descriptors)
  planned,  \* the SEI decided for each of them
  minted,   \* those of them whose decision was a mint
  silent,   \* those whose decision leaves no lineage event
  orphans,  \* bindings still to be orphaned
  todo,     \* descriptors still to be written
  hand,     \* the SEI whose lineage event is still to be appended
  used,     \* run ids with a row in runs
  edits, faults,
  loose,    \* history: locators whose binding left since they were last recorded
  torn,     \* history: SEIs whose lineage event was lost with the pass
  reused    \* history: SEIs minted although they had a row

tree    == <<code, edits>>
store   == <<binding, trail>>
walk    == <<id, walked, passed, analyzed>>
plan    == <<planned, minted, silent>>
pending == <<orphans, todo, hand>>
history == <<loose, torn, reused>>
vars    == <<tree, snapshot, store, phase, walk, plan, pending, used, faults, history>>

Maybe   == Bodies \cup {None}
Nowhere == [l \in Locators |-> None]

TypeOK ==
  /\ code \in [Locators -> Maybe] /\ snapshot \in [Locators -> Maybe]
  /\ binding \in [Sei -> Binding \cup {None}]
  /\ trail \in [Sei -> Locators \cup {None, Gone}]
  /\ phase \in {"idle", "committed", "writing"}
  /\ id \in Runs \cup {None}
  /\ walked \in [Locators -> Maybe]
  /\ passed \subseteq Locators /\ analyzed \subseteq Locators
  /\ planned \in [Locators -> Sei \cup {None}] /\ minted \subseteq Locators
  /\ silent \subseteq Locators
  /\ orphans \subseteq Sei /\ todo \subseteq Locators /\ hand \in Sei \cup {None}
  /\ used \subseteq Runs
  /\ edits \in 0 .. MaxEdits /\ faults \in 0 .. MaxFaults
  /\ loose \subseteq Locators /\ torn \subseteq Sei /\ reused \subseteq Sei

(* A store that one earlier run indexed completely. *)
Indexed(old, r) ==
  /\ code = old /\ snapshot = old /\ used = {r}
  /\ binding = [s \in Sei |-> IF s.by = r /\ old[s.locator] # None
                               THEN [at |-> s.locator, body |-> old[s.locator], status |-> "alive"]
                               ELSE None]
  /\ trail = [s \in Sei |-> IF binding[s] # None THEN s.locator ELSE None]

Init ==
  /\ \E old \in Trees, r \in Runs : Indexed(old, r)
  /\ phase = "idle" /\ id = None
  /\ walked = Nowhere /\ passed = {} /\ analyzed = {}
  /\ planned = Nowhere /\ minted = {} /\ silent = {}
  /\ orphans = {} /\ todo = {} /\ hand = None
  /\ edits = 0 /\ faults = 0
  /\ loose = {} /\ torn = {} /\ reused = {}
-----------------------------------------------------------------------------
(* The source tree changes between runs: a run reads it once. *)
Tree(c) ==
  /\ phase = "idle" /\ edits < MaxEdits
  /\ code' = c /\ edits' = edits + 1
  /\ UNCHANGED <<snapshot, store, phase, walk, plan, pending, used, faults, history>>

Write(l, b)  == code[l] # b /\ Tree([code EXCEPT ![l] = b])
Rename(l, m) == code[l] # None /\ l # m /\ Tree([code EXCEPT ![m] = code[l], ![l] = None])
-----------------------------------------------------------------------------
(***************************************************************************)
(* The run up to CommitRun.  A file whose bytes are those of the snapshot  *)
(* is skipped and its locators retained; a file the plugin hangs on, or    *)
(* that cannot be opened, is passed over and the run goes on.  A run may   *)
(* take the id of an earlier one (--resume).  Runs that fail before they   *)
(* commit leave nothing here behind but their id.                          *)
(***************************************************************************)
Present  == {l \in Locators : walked[l] # None}
Retained == Present \ (analyzed \cup passed)

CommitRun(r, full, over) ==
  LET present == {l \in Locators : code[l] # None}
      sent    == {l \in present : full \/ code[l] # snapshot[l]}
  IN /\ phase = "idle"
     /\ over \subseteq sent /\ faults + Cardinality(over) <= MaxFaults
     /\ phase' = "committed" /\ id' = r /\ used' = used \cup {r}
     /\ walked' = code /\ passed' = over /\ analyzed' = sent \ over
     /\ faults' = faults + Cardinality(over)
     /\ UNCHANGED <<tree, snapshot, store, plan, pending, history>>

StartRun  == \E r \in Runs \ used, full \in BOOLEAN, over \in SUBSET Locators : CommitRun(r, full, over)
ResumeRun == \E r \in used, full \in BOOLEAN, over \in SUBSET Locators : CommitRun(r, full, over)
-----------------------------------------------------------------------------
(***************************************************************************)
(* The decisions, all taken before the first write.                        *)
(***************************************************************************)
IsAlive(s)   == binding[s] # None /\ binding[s].status = "alive"
AliveAt(l)   == {s \in Sei : IsAlive(s) /\ binding[s].at = l}

(* Mutant: The locators of skipped files are left out. *)
AnalyzedOnly == analyzed

(* current_locators; a binding whose locator is not among them vanished. *)
Current  == analyzed \cup Retained
Vanished == {s \in Sei : IsAlive(s) /\ binding[s].at \notin Current}

SameBody(s, l)  == binding[s].body = walked[l]
Moved(l)        == {s \in Vanished : SameBody(s, l) /\ walked[l] \in Signed}

(* Mutant: git's word is enough. *)
TrustsGit(l, h) == {s \in Vanished : binding[s].at = h[l]}

RenamedTo(l, h) == {s \in Vanished : binding[s].at = h[l] /\ SameBody(s, l)}

(* Mutant: An entity keeps its own identity only while its body is the same. *)
OwnIfSame(l, h) ==
  IF \E s \in AliveAt(l) : SameBody(s, l) THEN AliveAt(l)
  ELSE IF RenamedTo(l, h) # {} THEN RenamedTo(l, h)
  ELSE {s \in Moved(l) : Moved(l) = {s}}

(* rebind_or_mint: the SEIs that l may carry: its own, else the one git
   renamed to it, else the only one that moved. *)
Match(l, h) ==
  IF AliveAt(l) # {} THEN AliveAt(l)
  ELSE IF RenamedTo(l, h) # {} THEN RenamedTo(l, h)
  ELSE {s \in Moved(l) : Moved(l) = {s}}

(* Of the entities that claim one SEI the first keeps it. *)
Claim(l, h) ==
  {s \in Match(l, h) : \A m \in analyzed : m < l => s \notin Match(m, h)}

(* What git reports, through legis or a shell, is a hint: any renames or none. *)
Hints == {h \in [Locators -> Locators \cup {None}] :
            /\ \A l \in Locators : h[l] # l
            /\ Cardinality({l \in Locators : h[l] # None}) <= MaxHints}

(* An entity that keeps its locator is carried with no lineage event, and that
   is settled here, whatever is written before its turn comes. *)
BeginPass(h) ==
  LET carry   == {l \in analyzed : Claim(l, h) # {}}
      decide  == [l \in Locators |-> IF l \in carry THEN CHOOSE s \in Claim(l, h) : TRUE
                                     ELSE IF l \in analyzed THEN mint_sei(l, id) ELSE None]
      carried == {decide[l] : l \in carry}
  IN /\ phase = "committed"
     /\ phase' = "writing"
     /\ planned' = decide /\ minted' = analyzed \ carry
     /\ silent' = {l \in carry : AliveAt(l) # {}}
     /\ orphans' = Vanished \ carried
     /\ todo' = analyzed /\ hand' = None
     /\ UNCHANGED <<tree, snapshot, store, walk, used, faults, history>>

(* --no-sei *)
SkipPass ==
  /\ phase = "committed" /\ phase' = "writing"
  /\ loose' = loose \cup {l \in analyzed : AliveAt(l) = {}}
  /\ UNCHANGED <<tree, snapshot, store, walk, plan, pending, used, faults, torn, reused>>
-----------------------------------------------------------------------------
(***************************************************************************)
(* The writes: vanished bindings first, then the descriptors in order,     *)
(* each command in a transaction of its own.                               *)
(***************************************************************************)
(* Where an alive binding leaves a file that is gone or was passed over. *)
Left(s) == {l \in Locators : s \in AliveAt(l) /\ (l \notin Present \/ l \in passed)}

(* Mutant: The locator is cleared with the status. *)
ClearsLocator(s) ==
  /\ phase = "writing" /\ hand = None /\ s \in orphans
  /\ binding' = [binding EXCEPT ![s].status = "orphaned", ![s].at = None]
  /\ orphans' = orphans \ {s} /\ hand' = s
  /\ loose' = loose \cup Left(s)
  /\ UNCHANGED <<tree, snapshot, trail, phase, walk, plan, todo, used, faults, torn, reused>>

Orphan(s) ==
  /\ phase = "writing" /\ hand = None /\ s \in orphans
  /\ binding' = [binding EXCEPT ![s].status = "orphaned"]
  /\ orphans' = orphans \ {s} /\ hand' = s
  /\ loose' = loose \cup Left(s)
  /\ UNCHANGED <<tree, snapshot, trail, phase, walk, plan, todo, used, faults, torn, reused>>

(* ux_sei_alive_locator: at most one alive binding per locator. *)
Collides(l) == AliveAt(l) \ {planned[l]} # {}

First(l) == l \in todo /\ \A m \in todo : l <= m

(* Mutant: Only a mint leaves a lineage event. *)
ForgetsMoves(l) ==
  LET s == planned[l]
  IN /\ phase = "writing" /\ hand = None /\ orphans = {} /\ First(l) /\ ~Collides(l)
     /\ binding' = [binding EXCEPT ![s] = [at |-> l, body |-> walked[l], status |-> "alive"]]
     /\ todo' = todo \ {l}
     /\ hand' = IF l \in minted THEN s ELSE None
     /\ loose' = (loose \cup Left(s)) \ {l}
     /\ reused' = IF l \in minted /\ binding[s] # None THEN reused \cup {s} ELSE reused
     /\ UNCHANGED <<tree, snapshot, trail, phase, walk, plan, orphans, used, faults, torn>>

(* The row, and the lineage event if the decision has one. *)
Upsert(l) ==
  LET s == planned[l]
  IN /\ phase = "writing" /\ hand = None /\ orphans = {} /\ First(l) /\ ~Collides(l)
     /\ binding' = [binding EXCEPT ![s] = [at |-> l, body |-> walked[l], status |-> "alive"]]
     /\ todo' = todo \ {l}
     /\ hand' = IF l \in silent THEN None ELSE s
     /\ loose' = (loose \cup Left(s)) \ {l}
     /\ reused' = IF l \in minted /\ binding[s] # None THEN reused \cup {s} ELSE reused
     /\ UNCHANGED <<tree, snapshot, trail, phase, walk, plan, orphans, used, faults, torn>>

AppendLineage ==
  /\ phase = "writing" /\ hand # None
  /\ trail' = [trail EXCEPT ![hand] = IF IsAlive(hand) THEN binding[hand].at ELSE Gone]
  /\ torn' = torn \ {hand} /\ hand' = None
  /\ UNCHANGED <<tree, snapshot, binding, phase, walk, plan, orphans, todo, used, faults, loose, reused>>

Lost == {hand} \ {None}

(* A command fails: the error is logged and swallowed and the run goes on. *)
PassFails ==
  /\ phase = "writing" /\ faults < MaxFaults
  /\ faults' = faults + 1
  /\ loose' = loose \cup {l \in todo : AliveAt(l) = {}}
  /\ torn' = torn \cup Lost
  /\ orphans' = {} /\ todo' = {} /\ hand' = None
  /\ UNCHANGED <<tree, snapshot, store, phase, walk, plan, used, reused>>

(* The run is over. *)
Idle ==
  /\ phase' = "idle" /\ id' = None
  /\ walked' = Nowhere /\ passed' = {} /\ analyzed' = {}
  /\ planned' = Nowhere /\ minted' = {} /\ silent' = {}
  /\ orphans' = {} /\ todo' = {} /\ hand' = None

(* Mutant: Every file that was sent to the plugin is recorded. *)
RecordsPassed ==
  /\ phase = "writing" /\ orphans = {} /\ todo = {} /\ hand = None
  /\ Idle
  /\ snapshot' = [l \in Locators |-> IF l \in analyzed \cup passed THEN walked[l]
                                     ELSE IF l \in Retained THEN snapshot[l] ELSE None]
  /\ loose' = {l \in loose : snapshot'[l] # None}
  /\ UNCHANGED <<tree, store, used, faults, torn, reused>>

(* replace_prior_index: what was analyzed, and what was retained. *)
Flush ==
  /\ phase = "writing" /\ orphans = {} /\ todo = {} /\ hand = None
  /\ Idle
  /\ snapshot' = [l \in Locators |-> IF l \in analyzed THEN walked[l]
                                     ELSE IF l \in Retained THEN snapshot[l] ELSE None]
  /\ loose' = {l \in loose : snapshot'[l] # None}
  /\ UNCHANGED <<tree, store, used, faults, torn, reused>>

(* The process dies after CommitRun, or the flush fails. *)
Die ==
  /\ phase # "idle" /\ faults < MaxFaults
  /\ Idle /\ faults' = faults + 1
  /\ torn' = torn \cup Lost
  /\ UNCHANGED <<tree, snapshot, store, used, loose, reused>>
-----------------------------------------------------------------------------
Next ==
  \/ \E l \in Locators, b \in Maybe : Write(l, b)
  \/ \E l, m \in Locators : Rename(l, m)
  \/ StartRun \/ ResumeRun
  \/ \E h \in Hints : BeginPass(h)
  \/ SkipPass
  \/ \E s \in Sei : Orphan(s)
  \/ \E l \in Locators : Upsert(l)
  \/ AppendLineage \/ PassFails \/ Flush \/ Die

Spec == Init /\ [][Next]_vars
-----------------------------------------------------------------------------
(* The orphan-first write order never meets ux_sei_alive_locator: no pass,
   whatever was left by one that died half way, writes an alive binding to a
   locator at which another SEI is alive. *)
UpsertNeverCollides == phase = "writing" => \A l \in todo : ~Collides(l)

(* A file is skipped for what the snapshot says of it, so its entity must have
   its identity already: only the locators an unfinished pass left loose lack
   one.  Except where a token was minted twice under one run id. *)
RetainedIsBound ==
  reused = {} => \A l \in Locators : snapshot[l] # None /\ l \notin loose => AliveAt(l) # {}

(* The lineage log ends where the binding is, for every SEI but the one in
   hand, those whose event went down with a pass, and the tokens minted twice
   under one run id: a resumed pass can mint one at its old locator and then
   carry it, silently, where it had moved to. *)
LineageAgrees ==
  \A s \in Sei \ (torn \cup {hand} \cup reused) :
     trail[s] = IF binding[s] = None THEN None ELSE IF IsAlive(s) THEN binding[s].at ELSE Gone

(* An identity is carried from one locator to another only on proof: the body
   is the same and the run has nothing at the old locator; and an orphan is
   never brought back.  Except for tokens minted twice under one run id. *)
CarriedOnlyOnProof ==
  [][\A s \in Sei \ reused' :
       binding[s] # None /\ binding'[s] # binding[s] =>
         /\ IsAlive(s)
         /\ IsAlive(s)' /\ binding'[s].at # binding[s].at =>
               binding'[s].body = binding[s].body /\ binding[s].at \notin Current]_vars

(* An entity that is still in the source tree keeps its identity: its SEI is
   neither orphaned nor given to another locator. *)
StillPresentKeepsIdentity ==
  [][\A s \in Sei \ reused' :
       IsAlive(s) /\ phase = "writing" /\ walked[binding[s].at] # None =>
         IsAlive(s)' /\ binding'[s].at = binding[s].at]_vars

(* The same for the entities of the files the run got an answer for or skipped. *)
SeenKeepsIdentity ==
  [][\A s \in Sei \ reused' :
       IsAlive(s) /\ phase = "writing" /\ walked[binding[s].at] # None /\ binding[s].at \notin passed =>
         IsAlive(s)' /\ binding'[s].at = binding[s].at]_vars
=============================================================================
