-------------------------- MODULE InferredDispatch --------------------------
(***************************************************************************)
(* What `serve` does when a tool needs a language model: summaries of an   *)
(* entity, and the call edges that static analysis could not resolve.      *)
(* Requests run concurrently over one entity; answers are cached under the *)
(* hash of the content they are about, the second request for the same     *)
(* edges waits for the first, and all of them share one ledger of tokens.  *)
(* A client may cancel a request at any moment, which drops it wherever it *)
(* stands.                                                                 *)
(*                                                                         *)
(* Model, prompt version and guidance are fixed, so a cache key is a       *)
(* content.  A cached answer is abstracted to the content the model was    *)
(* shown, the inferred edges in the graph to the key they carry.  How a    *)
(* request ends is left out where nothing else depends on it.              *)
(***************************************************************************)
EXTENDS Naturals, Sequences, FiniteSets

CONSTANTS Requests,      \* tool calls
          Summaries,     \* those that ask for a summary, not for call edges
          Contents,      \* what the entity's source can hold
          WithSites,     \* those of them that leave call sites unresolved
          Unchecked,     \* what a prompt can show where no hash is compared
          None,          \* no content, nobody
          Estimate,      \* tokens reserved for a call
          Usage,         \* tokens a provider may report for one
          Ceiling,       \* session_token_ceiling
          MaxEdits,      \* bound: times the source is edited
          MaxFaults      \* bound: failures of provider, writer or database

ASSUME DispatchAssumption ==
  /\ Contents \cap Unchecked = {} /\ None \notin Contents \cup Requests \cup Unchecked
  /\ Summaries \subseteq Requests /\ WithSites \subseteq Contents
  /\ IsFiniteSet(Requests)
  /\ Estimate \in Nat /\ Usage \subseteq Nat /\ Ceiling \in Nat
  /\ MaxEdits \in Nat /\ MaxFaults \in Nat

VARIABLES
  disk,       \* the entity's source in the working tree; None: no such file
  stored,     \* the content its row was analyzed from
  cache,      \* summary_cache and inferred_edge_cache
  edges,      \* the key of the inferred edges in the graph
  stage,      \* where each request stands
  key,        \* the content its inputs were read at
  shown,      \* the content its prompt was built from
  follows,    \* the request whose answer it waits for
  inflight,   \* the in-flight registry: who dispatches for a key
  abandoned,  \* dropped leaders whose entry is still registered
  spent, reserved, blocked,  \* the ledger
  queue,      \* commands on their way to the writer
  edits, faults

world    == <<disk, stored, edits>>
store    == <<cache, edges>>
ledger   == <<spent, reserved, blocked>>
registry == <<inflight, abandoned>>
vars     == <<world, store, stage, key, shown, follows, registry, ledger, queue, faults>>

Sources  == Contents \cup Unchecked
Maybe    == Sources \cup {None}
Kinds    == {"summary", "inferred"}
Stages   == {"idle", "cold", "waiting", "lead", "asking", "sent", "over", "done"}
Commands == [job : {"touch", "insert"}, kind : Kinds, key : Contents,
             from : Sources, by : Requests]

TypeOK ==
  /\ disk \in Maybe /\ stored \in Contents
  /\ cache \in [Kinds -> [Contents -> Maybe]] /\ edges \in Contents \cup {None}
  /\ stage \in [Requests -> Stages]
  /\ key \in [Requests -> Contents]
  /\ shown \in [Requests -> Maybe] /\ follows \in [Requests -> Requests \cup {None}]
  /\ inflight \in [Contents -> Requests \cup {None}] /\ abandoned \subseteq Requests
  /\ spent \in Nat /\ reserved \in Nat /\ blocked \in BOOLEAN
  /\ queue \in Seq(Commands)
  /\ edits \in 0 .. MaxEdits /\ faults \in 0 .. MaxFaults

Init ==
  /\ disk \in Contents /\ stored = disk
  /\ cache = [k \in Kinds |-> [c \in Contents |-> None]] /\ edges = None
  /\ stage = [r \in Requests |-> "idle"]
  /\ key = [r \in Requests |-> disk]
  /\ shown = [r \in Requests |-> None] /\ follows = [r \in Requests |-> None]
  /\ inflight = [c \in Contents |-> None] /\ abandoned = {}
  /\ spent = 0 /\ reserved = 0 /\ blocked = FALSE
  /\ queue = <<>>
  /\ edits = 0 /\ faults = 0

Fault == faults < MaxFaults /\ faults' = faults + 1

Kind(r) == IF r \in Summaries THEN "summary" ELSE "inferred"

Moves(r, there) == stage' = [stage EXCEPT ![r] = there]

Leads(r) == r \notin Summaries /\ inflight[key[r]] = r

(* A request that has its answer goes through its guard if it leads. *)
Ends(r) == Moves(r, IF Leads(r) THEN "over" ELSE "done")
-----------------------------------------------------------------------------
(* The editor, who may also delete the file, cut it short or make it unreadable,
   and an analyze run of another process.  The run replaces the call edges anchored in the
   file, the inferred ones among them; an entity that is gone is not asked for. *)
Edit ==
  /\ edits < MaxEdits /\ edits' = edits + 1
  /\ disk' \in Maybe \ {disk}
  /\ UNCHANGED <<stored, store, stage, key, shown, follows, registry, ledger, queue, faults>>

Analyze ==
  /\ disk \in Contents /\ stored' = disk /\ edges' = None
  /\ UNCHANGED <<disk, edits, cache, stage, key, shown, follows, registry, ledger, queue, faults>>
-----------------------------------------------------------------------------
(***************************************************************************)
(* Reading: read_summary_inputs and read_inferred_inputs.                  *)
(***************************************************************************)
Idle(r) == stage[r] = "idle" /\ key' = [key EXCEPT ![r] = stored]

(* The caller has no unresolved call site. *)
NothingToInfer(r) ==
  /\ Idle(r) /\ r \notin Summaries /\ stored \notin WithSites
  /\ Moves(r, "done")
  /\ UNCHANGED <<world, store, shown, follows, registry, ledger, queue, faults>>

Wanted(r) == r \in Summaries \/ stored \in WithSites

Command(r, c, job, from) ==
  [job |-> job, kind |-> Kind(r), key |-> c, from |-> from, by |-> r]

(* A hit is touched (summary) or materialized again (edges). *)
Hit(r) ==
  /\ Idle(r) /\ Wanted(r) /\ cache[Kind(r)][stored] # None
  /\ Moves(r, "sent")
  /\ queue' = Append(queue,
       Command(r, stored, IF r \in Summaries THEN "touch" ELSE "insert", cache[Kind(r)][stored]))
  /\ UNCHANGED <<world, store, shown, follows, registry, ledger, faults>>

Miss(r) ==
  /\ Idle(r) /\ Wanted(r) /\ cache[Kind(r)][stored] = None
  /\ Moves(r, IF blocked THEN "done" ELSE IF r \in Summaries THEN "lead" ELSE "cold")
  /\ UNCHANGED <<world, store, shown, follows, registry, ledger, queue, faults>>
-----------------------------------------------------------------------------
(***************************************************************************)
(* coalesced_inferred_dispatch.                                            *)
(***************************************************************************)
(* Mutant: A dispatch that finds the key registered registers over it. *)
LeadAnyway(r) ==
  /\ stage[r] = "cold"
  /\ inflight' = [inflight EXCEPT ![key[r]] = r]
  /\ Moves(r, "lead")
  /\ UNCHANGED <<world, store, key, shown, follows, abandoned, ledger, queue, faults>>

Lead(r) ==
  /\ stage[r] = "cold" /\ inflight[key[r]] = None
  /\ inflight' = [inflight EXCEPT ![key[r]] = r]
  /\ Moves(r, "lead")
  /\ UNCHANGED <<world, store, key, shown, follows, abandoned, ledger, queue, faults>>

Follow(r) ==
  /\ stage[r] = "cold" /\ inflight[key[r]] # None
  /\ follows' = [follows EXCEPT ![r] = inflight[key[r]]]
  /\ Moves(r, "waiting")
  /\ UNCHANGED <<world, store, key, shown, registry, ledger, queue, faults>>

WaitTimesOut(r) ==
  /\ stage[r] = "waiting"
  /\ Moves(r, "done")
  /\ UNCHANGED <<world, store, key, shown, follows, registry, ledger, queue, faults>>

Followers(r) == {s \in Requests : stage[s] = "waiting" /\ follows[s] = r}

(* The entry goes, then everybody who subscribed to it hears of the end. *)
Unregister(r) ==
  /\ inflight' = [inflight EXCEPT ![key[r]] = IF @ = r THEN None ELSE @]
  /\ abandoned' = abandoned \ {r}
  /\ stage' = [s \in Requests |-> IF s \in Followers(r) \cup {r} THEN "done" ELSE stage[s]]
  /\ UNCHANGED <<world, store, key, shown, follows, ledger, queue, faults>>

Finish(r) == stage[r] = "over" /\ Unregister(r)

(* The task spawned by the dropped guard of a cancelled leader; when the last
   sender is gone the followers' receivers are closed. *)
CleanUp(r) == r \in abandoned /\ Unregister(r)
-----------------------------------------------------------------------------
(***************************************************************************)
(* perform_inferred_dispatch and refresh_summary.                          *)
(***************************************************************************)
Prompts(r) == stage[r] = "lead" /\ shown' = [shown EXCEPT ![r] = disk]

(* verified_source_excerpt: the bytes put in the prompt are those whose hash
   is compared with the stored one, and a file that is gone is an error.  But
   nothing is compared where there is nothing to hash: of a file that is not
   text the prompt shows nothing, and of one that no longer reaches to the
   entity's lines, the whole. *)
Verified(r) == disk \in {key[r]} \cup Unchecked

Drifted(r) ==
  /\ stage[r] = "lead" /\ ~Verified(r)
  /\ Ends(r)
  /\ UNCHANGED <<world, store, key, shown, follows, registry, ledger, queue, faults>>

Fits == spent + reserved + Estimate <= Ceiling

(* Mutant: The excerpt is not compared with the stored hash. *)
ReserveUnverified(r) ==
  /\ Prompts(r) /\ disk # None
  /\ ~blocked /\ Fits
  /\ reserved' = reserved + Estimate
  /\ Moves(r, "asking")
  /\ UNCHANGED <<world, store, key, follows, registry, spent, blocked, queue, faults>>

Reserve(r) ==
  /\ Prompts(r) /\ Verified(r)
  /\ ~blocked /\ Fits
  /\ reserved' = reserved + Estimate
  /\ Moves(r, "asking")
  /\ UNCHANGED <<world, store, key, follows, registry, spent, blocked, queue, faults>>

Refuse(r) ==
  /\ Prompts(r) /\ Verified(r)
  /\ blocked \/ ~Fits
  /\ blocked' = TRUE
  /\ Ends(r)
  /\ UNCHANGED <<world, store, key, follows, registry, spent, reserved, queue, faults>>

Released == IF reserved < Estimate THEN 0 ELSE reserved - Estimate

ProviderFails(r) ==
  /\ stage[r] = "asking" /\ Fault
  /\ reserved' = Released
  /\ Ends(r)
  /\ UNCHANGED <<world, store, key, shown, follows, registry, spent, blocked, queue>>

(* The usage does not fit: the answer is dropped and the session is over. *)
Overspends(r) ==
  /\ stage[r] = "asking"
  /\ \E u \in Usage : spent + u > Ceiling
  /\ reserved' = Released /\ blocked' = TRUE
  /\ Ends(r)
  /\ UNCHANGED <<world, store, key, shown, follows, registry, spent, queue, faults>>

(* Mutant: The estimate is refunded from what was spent. *)
Refunds(u) ==
  spent + u <= Ceiling /\ spent' = spent + u - Estimate /\ reserved' = Released

Books(u) == spent + u <= Ceiling /\ spent' = spent + u /\ reserved' = Released

(* What is not JSON is an error for edges; for a summary a structural one is
   made from the same excerpt. *)
AnswersNonsense(r) ==
  /\ stage[r] = "asking" /\ r \notin Summaries /\ Fault
  /\ \E u \in Usage : Books(u)
  /\ Ends(r)
  /\ UNCHANGED <<world, store, key, shown, follows, registry, blocked, queue>>

Answers(r) ==
  /\ stage[r] = "asking"
  /\ \E u \in Usage : Books(u)
  /\ Moves(r, "sent")
  /\ queue' = Append(queue, Command(r, key[r], "insert", shown[r]))
  /\ UNCHANGED <<world, store, key, shown, follows, registry, blocked, faults>>
-----------------------------------------------------------------------------
(***************************************************************************)
(* The writer actor, outside any run: each statement commits by itself.    *)
(***************************************************************************)
Head1 == queue[1]

(* The sender may be gone: cancelled, or tired of waiting for the reply. *)
Replies ==
  /\ queue # <<>> /\ queue' = Tail(queue)
  /\ IF stage[Head1.by] = "sent" THEN Ends(Head1.by) ELSE UNCHANGED stage
  /\ UNCHANGED <<world, key, shown, follows, registry, ledger>>

Row(c) == cache' = [cache EXCEPT ![c.kind][c.key] = c.from]

Write ==
  /\ Replies /\ UNCHANGED faults
  /\ IF Head1.job = "touch" THEN UNCHANGED store
     ELSE /\ Row(Head1)
          /\ edges' = IF Head1.kind = "inferred" THEN Head1.key ELSE edges

(* The first statement fails, or, of the several of insert_inferred_edges,
   a later one: the cache row stands, edges under another key may be deleted
   and some of the new ones inserted. *)
WriteFails ==
  /\ Replies /\ Fault
  /\ \/ UNCHANGED store
     \/ /\ Head1.kind = "inferred" /\ Row(Head1)
        /\ edges' \in {edges, IF edges = Head1.key THEN edges ELSE None, Head1.key}

ReplyTimesOut(r) ==
  /\ stage[r] = "sent"
  /\ Ends(r)
  /\ UNCHANGED <<world, store, key, shown, follows, registry, ledger, queue, faults>>
-----------------------------------------------------------------------------
(***************************************************************************)
(* notifications/cancelled: the request's future is dropped.  The guards   *)
(* in it give back the reservation and have the registry cleaned.          *)
(***************************************************************************)
(* Mutant: A dropped leader leaves its entry in the registry. *)
DropsUncleaned(r) ==
  /\ stage[r] \notin {"idle", "done"}
  /\ Moves(r, "done")
  /\ reserved' = IF stage[r] = "asking" THEN Released ELSE reserved
  /\ UNCHANGED <<world, store, key, shown, follows, registry, spent, blocked, queue, faults>>

(* Mutant: A dropped reservation stays reserved. *)
DropsReserved(r) ==
  /\ stage[r] \notin {"idle", "done"}
  /\ Moves(r, "done")
  /\ abandoned' = IF Leads(r) THEN abandoned \cup {r} ELSE abandoned
  /\ UNCHANGED <<world, store, key, shown, follows, inflight, ledger, queue, faults>>

Cancel(r) ==
  /\ stage[r] \notin {"idle", "done"}
  /\ Moves(r, "done")
  /\ reserved' = IF stage[r] = "asking" THEN Released ELSE reserved
  /\ abandoned' = IF Leads(r) THEN abandoned \cup {r} ELSE abandoned
  /\ UNCHANGED <<world, store, key, shown, follows, inflight, spent, blocked, queue, faults>>
-----------------------------------------------------------------------------
Read(r) == NothingToInfer(r) \/ Hit(r) \/ Miss(r)

Join(r) == Lead(r) \/ Follow(r)

Dispatch(r) == Drifted(r) \/ Reserve(r) \/ Refuse(r)

Provider(r) == ProviderFails(r) \/ Overspends(r) \/ AnswersNonsense(r) \/ Answers(r)

GivesUp(r) == WaitTimesOut(r) \/ ReplyTimesOut(r) \/ Cancel(r)

Next ==
  \/ Edit \/ Analyze \/ Write \/ WriteFails
  \/ \E r \in Requests :
       Read(r) \/ Join(r) \/ Dispatch(r) \/ Provider(r) \/ Finish(r) \/ CleanUp(r) \/ GivesUp(r)

Spec == Init /\ [][Next]_vars

(* A dispatch goes on by itself: providers and the writer answer, spawned
   tasks run.  Nobody has to send, cancel or give up. *)
FairSpec ==
  /\ Spec /\ WF_vars(Write)
  /\ \A r \in Requests :
       WF_vars(Dispatch(r)) /\ WF_vars(Provider(r)) /\ WF_vars(Finish(r)) /\ WF_vars(CleanUp(r))
-----------------------------------------------------------------------------
(***************************************************************************)
(* Properties.                                                             *)
(***************************************************************************)
Asking == {r \in Requests : stage[r] = "asking"}

(* The ledger adds up, whoever is cancelled, refused or failed in between:
   what is reserved is what calls under way may still cost, and what is
   booked never exceeds the ceiling. *)
LedgerAddsUp == reserved = Estimate * Cardinality(Asking) /\ spent <= Ceiling

Dispatching(r) == r \notin Summaries /\ stage[r] \in {"lead", "asking"}

(* Two requests never pay for the edges of one content at the same time, and
   whoever waits for those edges meanwhile waits for the one that pays. *)
SoleDispatcher ==
  \A r, s \in Requests : Dispatching(r) /\ key[r] = key[s] =>
    /\ Dispatching(s) => s = r
    /\ stage[s] = "waiting" => follows[s] = r

(* A cached answer is never about another text of the entity than the one it
   is filed under, though the source may be edited and analyzed between
   reading, prompting and storing.  It may be about no text of the entity at
   all: an answer to a prompt whose source could not be hashed is filed like
   any other.  And edges in the graph always have the cache row they came
   from. *)
CacheTellsTruth ==
  /\ \A k \in Kinds, c \in Contents : cache[k][c] \in {c, None} \cup Unchecked
  /\ edges # None => cache["inferred"][edges] # None

(* Who waits for another request's answer is told how it ended, even when it
   is cancelled: nobody has to run into the timeout. *)
WaitersAreHeard == \A r \in Requests : stage[r] = "waiting" ~> stage[r] = "done"
=============================================================================
