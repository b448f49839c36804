---------------------- MODULE InferredDispatch_proofs ----------------------
(***************************************************************************)
(* What InferredDispatch promises for every finite set of requests, every  *)
(* set of contents, every estimate and ceiling, and every bound on edits   *)
(* and faults.                                                             *)
(***************************************************************************)
EXTENDS InferredDispatch, FiniteSetTheorems, TLAPS

(* Who dispatches for a content is the one registered for it, and who left a
   registration behind has gone for good. *)
Registered ==
  /\ \A r \in Requests : Dispatching(r) => inflight[key[r]] = r
  /\ \A r \in abandoned : stage[r] = "done"

(* A model that is asked was shown the content the answer will be filed under,
   or a text that no hash could be compared of. *)
ShownIsKey == \A r \in Requests : stage[r] = "asking" => shown[r] \in {key[r]} \cup Unchecked

(* So is every answer on its way to the cache. *)
True(c) == c.from \in {c.key} \cup Unchecked

QueueIsTrue == \A i \in 1 .. Len(queue) : True(queue[i])

IInv == TypeOK /\ Registered /\ ShownIsKey /\ QueueIsTrue /\ CacheTellsTruth /\ LedgerAddsUp
-----------------------------------------------------------------------------
(* A step that moves one request. *)
Moved(r, there) ==
  /\ stage' \in [Requests -> Stages]
  /\ stage'[r] = there /\ \A s \in Requests \ {r} : stage'[s] = stage[s]

(* How requests are moved. *)
LEMMA Moving ==
  ASSUME TypeOK, NEW r \in Requests
  PROVE  /\ \A there \in Stages : Moves(r, there) => Moved(r, there)
         /\ Ends(r) => Moved(r, "over") \/ Moved(r, "done")
<1>1. stage \in [Requests -> Stages] /\ {"over", "done"} \subseteq Stages
  BY DEF TypeOK, Stages
<1>2. ASSUME NEW there \in Stages, Moves(r, there) PROVE Moved(r, there)
  BY <1>1, <1>2 DEF Moves, Moved
<1> QED BY <1>1, <1>2 DEF Ends

(* What a request puts on the queue is a command. *)
LEMMA Sending ==
  ASSUME TypeOK, NEW r \in Requests, NEW c \in Contents, NEW job \in {"touch", "insert"},
         NEW from \in Sources
  PROVE  /\ Command(r, c, job, from) \in Commands
         /\ Command(r, c, job, from).key = c /\ Command(r, c, job, from).from = from
  BY DEF Command, Commands, Kind, Kinds

(* What a reply takes from the queue is one. *)
LEMMA Replying ==
  ASSUME TypeOK, Replies
  PROVE  /\ Head1 \in Commands /\ Len(queue) \in Nat \ {0} /\ queue' \in Seq(Commands)
         /\ Len(queue') = Len(queue) - 1
         /\ \A i \in 1 .. Len(queue') : queue'[i] = queue[i + 1]
         /\ \/ stage' = stage
            \/ \E r \in Requests : /\ stage[r] = "sent"
                                   /\ Moved(r, "over") \/ Moved(r, "done")
<1>1. queue \in Seq(Commands) /\ queue # <<>> /\ queue' = Tail(queue)
  BY DEF TypeOK, Replies
<1>2. Head1 \in Commands /\ Len(queue) \in Nat \ {0}
  BY <1>1 DEF Head1
<1>3. /\ queue' \in Seq(Commands) /\ Len(queue') = Len(queue) - 1
      /\ \A i \in 1 .. Len(queue') : queue'[i] = queue[i + 1]
  BY <1>1
<1>4. Head1.by \in Requests
  BY <1>2 DEF Commands
<1> QED BY <1>2, <1>3, <1>4, Moving DEF Replies

(* The ledger keeps its types whatever is booked or released. *)
LEMMA Numbers ==
  ASSUME TypeOK
  PROVE  /\ Estimate \in Nat /\ Ceiling \in Nat /\ spent \in Nat /\ reserved \in Nat
         /\ Released \in Nat
         /\ \A u \in Usage : Books(u) => /\ spent' \in Nat /\ reserved' = Released
                                         /\ spent' <= Ceiling
  BY DispatchAssumption DEF TypeOK, Released, Books

(* The variables of the world and of the store keep their types. *)
RestOK ==
  /\ disk \in Maybe /\ stored \in Contents
  /\ cache \in [Kinds -> [Contents -> Maybe]] /\ edges \in Contents \cup {None}
  /\ key \in [Requests -> Contents]
  /\ shown \in [Requests -> Maybe] /\ follows \in [Requests -> Requests \cup {None}]
  /\ inflight \in [Contents -> Requests \cup {None}] /\ abandoned \subseteq Requests
  /\ spent \in Nat /\ reserved \in Nat /\ blocked \in BOOLEAN
  /\ queue \in Seq(Commands)
  /\ edits \in 0 .. MaxEdits /\ faults \in 0 .. MaxFaults

(* Every step keeps the types. *)
LEMMA TypeStep == TypeOK /\ ShownIsKey /\ [Next]_vars => TypeOK'
<1> SUFFICES ASSUME TypeOK, ShownIsKey, [Next]_vars PROVE TypeOK'
  OBVIOUS
<1>0. /\ stage \in [Requests -> Stages] /\ RestOK
      /\ MaxEdits \in Nat /\ MaxFaults \in Nat
  BY DispatchAssumption DEF TypeOK, RestOK
<1>a. ASSUME stage' \in [Requests -> Stages], RestOK' PROVE TypeOK'
  BY <1>a DEF TypeOK, RestOK
<1>b. /\ Fault => faults' \in 0 .. MaxFaults
      /\ \A r \in Requests : Idle(r) => key' \in [Requests -> Contents]
      /\ \A r \in Requests : Prompts(r) => shown' \in [Requests -> Maybe]
  <2>1. Fault => faults' \in 0 .. MaxFaults
    BY <1>0 DEF Fault, RestOK
  <2>2. \A r \in Requests : Idle(r) => key' \in [Requests -> Contents]
    BY <1>0 DEF Idle, RestOK
  <2>3. \A r \in Requests : Prompts(r) => shown' \in [Requests -> Maybe]
    BY <1>0 DEF Prompts, RestOK
  <2> QED BY <2>1, <2>2, <2>3
<1>c. ASSUME NEW r \in Requests,
             (\E there \in Stages : Moves(r, there)) \/ Ends(r)
      PROVE  stage' \in [Requests -> Stages]
  BY <1>c, Moving DEF Moved
<1>d. ASSUME Replies PROVE stage' \in [Requests -> Stages] /\ queue' \in Seq(Commands)
  BY <1>0, <1>d, Replying DEF Moved
<1> USE DEF RestOK, world, store, ledger, registry
<1>1. CASE Edit
  BY <1>0, <1>1, <1>a DEF Edit
<1>2. CASE Analyze
  BY <1>0, <1>2, <1>a DEF Analyze
<1>3. CASE Write
  <2>1. Head1 \in Commands
    BY <1>3, Replying DEF Write
  <2>2. Row(Head1) => cache' \in [Kinds -> [Contents -> Maybe]]
    BY <1>0, <2>1 DEF Row, Commands, Maybe
  <2>3. cache' \in [Kinds -> [Contents -> Maybe]] /\ edges' \in Contents \cup {None}
    BY <1>0, <1>3, <2>1, <2>2 DEF Write, Commands
  <2> QED BY <1>0, <1>3, <1>a, <1>d, <2>3 DEF Write, Replies
<1>4. CASE WriteFails
  <2>1. Head1 \in Commands
    BY <1>4, Replying DEF WriteFails
  <2>2. Row(Head1) => cache' \in [Kinds -> [Contents -> Maybe]]
    BY <1>0, <2>1 DEF Row, Commands, Maybe
  <2>3. cache' \in [Kinds -> [Contents -> Maybe]] /\ edges' \in Contents \cup {None}
    BY <1>0, <1>4, <2>1, <2>2 DEF WriteFails, Commands
  <2> QED BY <1>0, <1>4, <1>a, <1>b, <1>d, <2>3 DEF WriteFails, Replies
<1>5. ASSUME NEW r \in Requests, NothingToInfer(r) \/ Miss(r) PROVE TypeOK'
  <2>1. stage' \in [Requests -> Stages]
    BY <1>5, <1>c DEF NothingToInfer, Miss, Stages
  <2> QED BY <1>0, <1>5, <1>a, <1>b, <2>1 DEF NothingToInfer, Miss
<1>6. ASSUME NEW r \in Requests, Hit(r) PROVE TypeOK'
  <2>1. stage' \in [Requests -> Stages]
    BY <1>6, <1>c DEF Hit, Stages
  <2>2. cache[Kind(r)][stored] \in Sources
    BY <1>0, <1>6 DEF Hit, Kind, Kinds, Maybe
  <2>3. queue' \in Seq(Commands)
    BY <1>0, <1>6, <2>2, Sending DEF Hit
  <2> QED BY <1>0, <1>6, <1>a, <1>b, <2>1, <2>3 DEF Hit
<1>7. ASSUME NEW r \in Requests, Lead(r) PROVE TypeOK'
  <2>1. stage' \in [Requests -> Stages] /\ inflight' \in [Contents -> Requests \cup {None}]
    BY <1>0, <1>7, <1>c DEF Lead, Stages
  <2> QED BY <1>0, <1>7, <1>a, <2>1 DEF Lead
<1>8. ASSUME NEW r \in Requests, Follow(r) PROVE TypeOK'
  <2>1. stage' \in [Requests -> Stages] /\ follows' \in [Requests -> Requests \cup {None}]
    BY <1>0, <1>8, <1>c DEF Follow, Stages
  <2> QED BY <1>0, <1>8, <1>a, <2>1 DEF Follow
<1>9. ASSUME NEW r \in Requests, WaitTimesOut(r) \/ ReplyTimesOut(r) \/ Drifted(r) PROVE TypeOK'
  <2>1. stage' \in [Requests -> Stages]
    BY <1>9, <1>c DEF WaitTimesOut, ReplyTimesOut, Drifted, Stages
  <2> QED BY <1>0, <1>9, <1>a, <2>1 DEF WaitTimesOut, ReplyTimesOut, Drifted
<1>10. ASSUME NEW r \in Requests, Reserve(r) \/ Refuse(r) PROVE TypeOK'
  <2>1. stage' \in [Requests -> Stages] /\ shown' \in [Requests -> Maybe]
    BY <1>10, <1>b, <1>c DEF Reserve, Refuse, Stages
  <2>2. CASE Reserve(r)
    <3>1. reserved' \in Nat
      BY <2>2, Numbers DEF Reserve
    <3> QED BY <1>0, <1>a, <2>1, <2>2, <3>1 DEF Reserve
  <2>3. CASE Refuse(r)
    BY <1>0, <1>a, <2>1, <2>3 DEF Refuse
  <2> QED BY <1>10, <2>2, <2>3
<1>11. ASSUME NEW r \in Requests, ProviderFails(r) \/ Overspends(r) PROVE TypeOK'
  <2>1. stage' \in [Requests -> Stages]
    BY <1>11, <1>c DEF ProviderFails, Overspends
  <2> QED BY <1>0, <1>11, <1>a, <1>b, <2>1, Numbers DEF ProviderFails, Overspends
<1>12. ASSUME NEW r \in Requests, AnswersNonsense(r) PROVE TypeOK'
  <2>1. stage' \in [Requests -> Stages]
    BY <1>12, <1>c DEF AnswersNonsense
  <2>2. spent' \in Nat /\ reserved' \in Nat
    BY <1>12, Numbers DEF AnswersNonsense
  <2> QED BY <1>0, <1>12, <1>a, <1>b, <2>1, <2>2 DEF AnswersNonsense
<1>13. ASSUME NEW r \in Requests, Answers(r) PROVE TypeOK'
  <2>1. stage' \in [Requests -> Stages]
    BY <1>13, <1>c DEF Answers, Stages
  <2>2. spent' \in Nat /\ reserved' \in Nat
    BY <1>13, Numbers DEF Answers
  <2>3. shown[r] \in Sources
    BY <1>0, <1>13 DEF Answers, ShownIsKey, Sources
  <2>4. queue' \in Seq(Commands)
    BY <1>0, <1>13, <2>3, Sending DEF Answers
  <2> QED BY <1>0, <1>13, <1>a, <2>1, <2>2, <2>4 DEF Answers
<1>14. ASSUME NEW r \in Requests, Finish(r) \/ CleanUp(r) PROVE TypeOK'
  <2>1. stage' \in [Requests -> Stages]
    BY <1>0, <1>14 DEF Finish, CleanUp, Unregister, Stages
  <2>2. inflight' \in [Contents -> Requests \cup {None}] /\ abandoned' \subseteq Requests
    BY <1>0, <1>14 DEF Finish, CleanUp, Unregister
  <2> QED BY <1>0, <1>14, <1>a, <2>1, <2>2 DEF Finish, CleanUp, Unregister
<1>15. ASSUME NEW r \in Requests, Cancel(r) PROVE TypeOK'
  <2>1. stage' \in [Requests -> Stages]
    BY <1>15, <1>c DEF Cancel, Stages
  <2>2. abandoned' \subseteq Requests /\ reserved' \in Nat
    BY <1>0, <1>15, Numbers DEF Cancel
  <2> QED BY <1>0, <1>15, <1>a, <2>1, <2>2 DEF Cancel
<1>16. CASE UNCHANGED vars
  BY <1>0, <1>16, <1>a DEF vars
<1> QED BY <1>1, <1>2, <1>3, <1>4, <1>5, <1>6, <1>7, <1>8, <1>9, <1>10, <1>11, <1>12, <1>13,
           <1>14, <1>15, <1>16 DEF Next, Read, Join, Dispatch, Provider, GivesUp
-----------------------------------------------------------------------------
(* A step in which nobody begins to dispatch keeps the registry in order, and
   keeps the prompts true, as far as the requests that dispatch are concerned. *)
Settling ==
  /\ key' = key /\ shown' = shown /\ inflight' = inflight /\ abandoned' = abandoned
  /\ \A s \in Requests : \/ stage'[s] = stage[s]
                         \/ stage[s] # "done" /\ stage'[s] \notin {"lead", "asking"}

LEMMA SettlingKeeps ==
  ASSUME TypeOK, Registered, ShownIsKey, Settling
  PROVE  Registered' /\ ShownIsKey'
  BY DEF TypeOK, Registered, ShownIsKey, Settling, Dispatching

(* Every step keeps the registry in order and the prompts true. *)
LEMMA RegistryStep ==
  TypeOK /\ Registered /\ ShownIsKey /\ [Next]_vars => Registered' /\ ShownIsKey'
<1> SUFFICES ASSUME TypeOK, Registered, ShownIsKey, [Next]_vars PROVE Registered' /\ ShownIsKey'
  OBVIOUS
<1>0. /\ stage \in [Requests -> Stages] /\ key \in [Requests -> Contents]
      /\ shown \in [Requests -> Maybe] /\ inflight \in [Contents -> Requests \cup {None}]
      /\ abandoned \subseteq Requests /\ None \notin Requests
  BY DispatchAssumption DEF TypeOK
<1>a. ASSUME NEW r \in Requests, Moved(r, "over") \/ Moved(r, "done") \/ Moved(r, "sent")
                                 \/ Moved(r, "waiting") \/ Moved(r, "cold"),
             stage[r] # "done",
             key' = key, shown' = shown, inflight' = inflight, abandoned' = abandoned
      PROVE  Registered' /\ ShownIsKey'
  BY <1>a, SettlingKeeps DEF Settling, Moved
<1>b. ASSUME stage' = stage, key' = key, shown' = shown, inflight' = inflight,
             abandoned' = abandoned
      PROVE  Registered' /\ ShownIsKey'
  BY <1>b, SettlingKeeps DEF Settling
<1> USE DEF world, store, ledger, registry
<1>1. CASE Edit \/ Analyze \/ UNCHANGED vars
  BY <1>1, <1>b DEF Edit, Analyze, vars
<1>2. CASE Write \/ WriteFails
  <2>1. Replies
    BY <1>2 DEF Write, WriteFails
  <2>2. key' = key /\ shown' = shown /\ inflight' = inflight /\ abandoned' = abandoned
    BY <2>1 DEF Replies
  <2> QED BY <1>a, <1>b, <2>1, <2>2, Replying
<1>3. ASSUME NEW r \in Requests, NothingToInfer(r) \/ Hit(r) \/ Miss(r)
      PROVE  Registered' /\ ShownIsKey'
  <2>1. /\ stage[r] = "idle" /\ key'[r] \in Contents
        /\ \A s \in Requests \ {r} : key'[s] = key[s]
        /\ shown' = shown /\ inflight' = inflight /\ abandoned' = abandoned
    BY <1>0, <1>3 DEF NothingToInfer, Hit, Miss, Idle, TypeOK
  <2>2. PICK there \in {"done", "sent", "cold", "lead"} :
           Moved(r, there) /\ (there = "lead" => r \in Summaries)
    BY <1>3, Moving DEF NothingToInfer, Hit, Miss, Stages
  <2> QED BY <1>0, <2>1, <2>2 DEF Moved, Registered, ShownIsKey, Dispatching
<1>4. ASSUME NEW r \in Requests, Lead(r) PROVE Registered' /\ ShownIsKey'
  <2>1. Moved(r, "lead") /\ stage[r] = "cold" /\ inflight[key[r]] = None
    BY <1>4, Moving DEF Lead, Stages
  <2>2. /\ inflight'[key[r]] = r
        /\ \A c \in Contents \ {key[r]} : inflight'[c] = inflight[c]
    BY <1>0, <1>4 DEF Lead
  <2> QED BY <1>0, <1>4, <2>1, <2>2 DEF Lead, Moved, Registered, ShownIsKey, Dispatching
<1>5. ASSUME NEW r \in Requests, Follow(r) PROVE Registered' /\ ShownIsKey'
  BY <1>5, <1>a, Moving DEF Follow, Stages
<1>6. ASSUME NEW r \in Requests, WaitTimesOut(r) \/ ReplyTimesOut(r) \/ Drifted(r)
      PROVE  Registered' /\ ShownIsKey'
  BY <1>6, <1>a, Moving DEF WaitTimesOut, ReplyTimesOut, Drifted, Stages
<1>7. ASSUME NEW r \in Requests, Reserve(r) PROVE Registered' /\ ShownIsKey'
  <2>1. Moved(r, "asking") /\ stage[r] = "lead" /\ disk \in {key[r]} \cup Unchecked
    BY <1>7, Moving DEF Reserve, Prompts, Verified, Stages
  <2>2. shown'[r] = disk /\ \A s \in Requests \ {r} : shown'[s] = shown[s]
    BY <1>0, <1>7 DEF Reserve, Prompts
  <2> QED BY <1>0, <1>7, <2>1, <2>2 DEF Reserve, Moved, Registered, ShownIsKey, Dispatching
<1>8. ASSUME NEW r \in Requests, Refuse(r) PROVE Registered' /\ ShownIsKey'
  <2>1. (Moved(r, "over") \/ Moved(r, "done")) /\ stage[r] = "lead"
    BY <1>8, Moving DEF Refuse, Prompts
  <2>2. \A s \in Requests \ {r} : shown'[s] = shown[s]
    BY <1>0, <1>8 DEF Refuse, Prompts
  <2> QED BY <1>0, <1>8, <2>1, <2>2 DEF Refuse, Moved, Registered, ShownIsKey, Dispatching
<1>9. ASSUME NEW r \in Requests, Provider(r) PROVE Registered' /\ ShownIsKey'
  BY <1>9, <1>a, Moving
     DEF Provider, ProviderFails, Overspends, AnswersNonsense, Answers, Stages
<1>10. ASSUME NEW r \in Requests, Finish(r) \/ CleanUp(r) PROVE Registered' /\ ShownIsKey'
  <2>1. stage[r] \in {"over", "done"} /\ Unregister(r)
    BY <1>10 DEF Finish, CleanUp, Registered
  <2>2. /\ \A s \in Requests : stage'[s] = stage[s] \/ stage'[s] = "done"
        /\ \A c \in Contents : inflight'[c] = inflight[c] \/ inflight[c] = r
        /\ abandoned' \subseteq abandoned /\ key' = key /\ shown' = shown
    BY <1>0, <2>1 DEF Unregister
  <2> QED BY <1>0, <2>1, <2>2 DEF Registered, ShownIsKey, Dispatching
<1>11. ASSUME NEW r \in Requests, Cancel(r) PROVE Registered' /\ ShownIsKey'
  <2>1. Moved(r, "done") /\ abandoned' \subseteq abandoned \cup {r}
    BY <1>11, Moving DEF Cancel, Stages
  <2> QED BY <1>0, <1>11, <2>1 DEF Cancel, Moved, Registered, ShownIsKey, Dispatching
<1> QED BY <1>1, <1>2, <1>3, <1>4, <1>5, <1>6, <1>7, <1>8, <1>9, <1>10, <1>11
        DEF Next, Read, Join, Dispatch, GivesUp
-----------------------------------------------------------------------------
(* A true command that is sent joins true ones, and those that are left are. *)
LEMMA QueueKeeps ==
  ASSUME TypeOK, QueueIsTrue
  PROVE  /\ queue' = queue => QueueIsTrue'
         /\ Replies => True(Head1) /\ QueueIsTrue'
         /\ \A c \in Commands : True(c) /\ queue' = Append(queue, c) => QueueIsTrue'
<1>0. queue \in Seq(Commands)
  BY DEF TypeOK
<1>1. queue' = queue => QueueIsTrue'
  BY DEF QueueIsTrue
<1>2. Replies => True(Head1) /\ QueueIsTrue'
  BY <1>0, Replying DEF QueueIsTrue, Head1
<1>3. ASSUME NEW c \in Commands, True(c), queue' = Append(queue, c) PROVE QueueIsTrue'
  BY <1>0, <1>3 DEF QueueIsTrue
<1> QED BY <1>1, <1>2, <1>3

(* Writing a true row keeps the cache true, and the edges within it. *)
LEMMA RowIsTrue ==
  ASSUME TypeOK, CacheTellsTruth, NEW c \in Commands, True(c), Row(c),
         edges' \in {edges, None} \/ (edges' = c.key /\ c.kind = "inferred")
  PROVE  CacheTellsTruth'
<1>0. /\ cache \in [Kinds -> [Contents -> Maybe]] /\ edges \in Contents \cup {None}
      /\ c.kind \in Kinds /\ c.key \in Contents /\ c.from \in {c.key} \cup Unchecked
      /\ None \notin Contents \cup Unchecked /\ "inferred" \in Kinds
  BY DispatchAssumption DEF TypeOK, Commands, True, Kinds
<1>1. \A k \in Kinds, d \in Contents :
        cache'[k][d] = IF k = c.kind /\ d = c.key THEN c.from ELSE cache[k][d]
  BY <1>0 DEF Row
<1>2. \A k \in Kinds, d \in Contents : cache'[k][d] \in {d, None} \cup Unchecked
  BY <1>0, <1>1 DEF CacheTellsTruth
<1>3. edges' # None => edges' \in Contents /\ cache'["inferred"][edges'] # None
  BY <1>0, <1>1 DEF CacheTellsTruth
<1> QED BY <1>2, <1>3 DEF CacheTellsTruth

(* Every step keeps what is sent and what is cached true. *)
LEMMA TruthStep ==
  TypeOK /\ ShownIsKey /\ QueueIsTrue /\ CacheTellsTruth /\ [Next]_vars
    => QueueIsTrue' /\ CacheTellsTruth'
<1> SUFFICES ASSUME TypeOK, ShownIsKey, QueueIsTrue, CacheTellsTruth, [Next]_vars
             PROVE  QueueIsTrue' /\ CacheTellsTruth'
  OBVIOUS
<1>0. /\ stored \in Contents /\ key \in [Requests -> Contents]
      /\ cache \in [Kinds -> [Contents -> Maybe]] /\ "inferred" \in Kinds
  BY DEF TypeOK, Kinds
<1>a. ASSUME cache' = cache, edges' \in {edges, None} PROVE CacheTellsTruth'
  BY <1>0, <1>a DEF CacheTellsTruth
<1> USE DEF world, store, ledger, registry
<1>1. CASE Edit \/ Analyze \/ UNCHANGED vars
  BY <1>1, <1>a, QueueKeeps DEF Edit, Analyze, vars
<1>2. CASE Write
  <2>1. Replies /\ Head1 \in Commands /\ True(Head1) /\ QueueIsTrue'
    BY <1>2, QueueKeeps, Replying DEF Write
  <2>2. CASE Head1.job = "touch"
    BY <1>2, <1>a, <2>1, <2>2 DEF Write
  <2>3. CASE Head1.job # "touch"
    BY <1>2, <2>1, <2>3, RowIsTrue DEF Write
  <2> QED BY <2>2, <2>3
<1>3. CASE WriteFails
  <2>1. Replies /\ Head1 \in Commands /\ True(Head1) /\ QueueIsTrue'
    BY <1>3, QueueKeeps, Replying DEF WriteFails
  <2>2. CASE UNCHANGED store
    BY <1>a, <2>1, <2>2
  <2>3. CASE Head1.kind = "inferred" /\ Row(Head1) /\ edges' \in {edges, None, Head1.key}
    BY <2>1, <2>3, RowIsTrue
  <2> QED BY <1>3, <2>2, <2>3 DEF WriteFails
<1>4. ASSUME NEW r \in Requests, Hit(r) PROVE QueueIsTrue' /\ CacheTellsTruth'
  <2> DEFINE from == cache[Kind(r)][stored]
             job == IF r \in Summaries THEN "touch" ELSE "insert"
  <2>1. from \in {stored} \cup Unchecked /\ from \in Sources /\ job \in {"touch", "insert"}
    BY <1>0, <1>4 DEF Hit, CacheTellsTruth, Kind, Kinds, Sources
  <2>2. queue' = Append(queue, Command(r, stored, job, from)) /\ UNCHANGED store
    BY <1>4 DEF Hit
  <2> HIDE DEF from, job
  <2>3. Command(r, stored, job, from) \in Commands /\ True(Command(r, stored, job, from))
    BY <1>0, <2>1, Sending DEF True
  <2> QED BY <1>a, <2>2, <2>3, QueueKeeps
<1>5. ASSUME NEW r \in Requests, Answers(r) PROVE QueueIsTrue' /\ CacheTellsTruth'
  <2>1. shown[r] \in {key[r]} \cup Unchecked /\ key[r] \in Contents /\ shown[r] \in Sources
    BY <1>0, <1>5 DEF Answers, ShownIsKey, Sources
  <2> DEFINE c == Command(r, key[r], "insert", shown[r])
  <2>2. c \in Commands /\ True(c)
    BY <2>1, Sending DEF True
  <2>3. queue' = Append(queue, c) /\ UNCHANGED store
    BY <1>5 DEF Answers
  <2> HIDE DEF c
  <2> QED BY <1>a, <2>2, <2>3, QueueKeeps
<1>6. ASSUME NEW r \in Requests, NothingToInfer(r) \/ Miss(r) \/ Join(r)
      PROVE  QueueIsTrue' /\ CacheTellsTruth'
  BY <1>6, <1>a, QueueKeeps DEF NothingToInfer, Miss, Join, Lead, Follow
<1>7. ASSUME NEW r \in Requests, Dispatch(r) \/ GivesUp(r) PROVE QueueIsTrue' /\ CacheTellsTruth'
  BY <1>7, <1>a, QueueKeeps
     DEF Dispatch, Drifted, Reserve, Refuse, GivesUp, WaitTimesOut, ReplyTimesOut, Cancel
<1>8. ASSUME NEW r \in Requests, ProviderFails(r) \/ Overspends(r) \/ AnswersNonsense(r)
      PROVE  QueueIsTrue' /\ CacheTellsTruth'
  BY <1>8, <1>a, QueueKeeps DEF ProviderFails, Overspends, AnswersNonsense
<1>9. ASSUME NEW r \in Requests, Finish(r) \/ CleanUp(r) PROVE QueueIsTrue' /\ CacheTellsTruth'
  BY <1>9, <1>a, QueueKeeps DEF Finish, CleanUp, Unregister
<1> QED BY <1>1, <1>2, <1>3, <1>4, <1>5, <1>6, <1>7, <1>8, <1>9 DEF Next, Read, Provider
-----------------------------------------------------------------------------
(* The calls under way are finitely many. *)
LEMMA AskingFinite == IsFiniteSet(Asking) /\ Cardinality(Asking) \in Nat
  BY DispatchAssumption, FS_Subset, FS_CardinalityType DEF Asking

(* A step that lets no call begin or end and leaves the amounts alone. *)
LEMMA LedgerFrame ==
  ASSUME LedgerAddsUp, spent' = spent, reserved' = reserved,
         \A s \in Requests : stage[s] = "asking" <=> stage'[s] = "asking"
  PROVE  LedgerAddsUp'
<1>1. Asking' = Asking
  BY DEF Asking
<1> QED BY <1>1 DEF LedgerAddsUp

(* A call that ends gives its estimate back. *)
LEMMA LedgerRelease ==
  ASSUME TypeOK, LedgerAddsUp, NEW r \in Requests, stage[r] = "asking",
         NEW there, there # "asking", Moved(r, there),
         reserved' = Released, spent' <= Ceiling
  PROVE  LedgerAddsUp'
<1>1. Asking' = Asking \ {r} /\ r \in Asking
  BY DEF Asking, Moved
<1>2. Cardinality(Asking') = Cardinality(Asking) - 1 /\ Cardinality(Asking') \in Nat
  BY <1>1, AskingFinite, FS_RemoveElement, FS_CardinalityType, FS_Subset
<1> DEFINE n == Cardinality(Asking')
<1>3. Estimate * (n + 1) = Estimate * n + Estimate /\ Estimate * n \in Nat
  BY <1>2, Numbers
<1>4. reserved = Estimate * n + Estimate
  BY <1>2, <1>3, AskingFinite DEF LedgerAddsUp
<1> HIDE DEF n
<1>5. reserved' = Estimate * n
  BY <1>3, <1>4, Numbers DEF Released
<1> QED BY <1>5 DEF LedgerAddsUp, n

(* Every step keeps the ledger adding up. *)
LEMMA LedgerStep == TypeOK /\ Registered /\ LedgerAddsUp /\ [Next]_vars => LedgerAddsUp'
<1> SUFFICES ASSUME TypeOK, Registered, LedgerAddsUp, [Next]_vars PROVE LedgerAddsUp'
  OBVIOUS
<1>0. stage \in [Requests -> Stages] /\ spent <= Ceiling
  BY DEF TypeOK, LedgerAddsUp
<1>a. ASSUME NEW r \in Requests, NEW there, Moved(r, there), there # "asking",
             stage[r] # "asking", spent' = spent, reserved' = reserved
      PROVE  LedgerAddsUp'
  BY <1>a, LedgerFrame DEF Moved
<1> USE DEF world, store, ledger, registry
<1>1. CASE Edit \/ Analyze \/ UNCHANGED vars
  BY <1>1, LedgerFrame DEF Edit, Analyze, vars
<1>2. CASE Write \/ WriteFails
  <2>1. Replies /\ spent' = spent /\ reserved' = reserved
    BY <1>2 DEF Write, WriteFails, Replies
  <2> QED BY <1>a, <2>1, Replying, LedgerFrame
<1>3. ASSUME NEW r \in Requests, NothingToInfer(r) \/ Hit(r) \/ Miss(r) PROVE LedgerAddsUp'
  BY <1>3, <1>a, Moving DEF NothingToInfer, Hit, Miss, Idle, Stages
<1>4. ASSUME NEW r \in Requests, Lead(r) \/ Follow(r) PROVE LedgerAddsUp'
  BY <1>4, <1>a, Moving DEF Lead, Follow, Stages
<1>5. ASSUME NEW r \in Requests, WaitTimesOut(r) \/ ReplyTimesOut(r) PROVE LedgerAddsUp'
  BY <1>5, <1>a, Moving DEF WaitTimesOut, ReplyTimesOut, Stages
<1>6. ASSUME NEW r \in Requests, Drifted(r) \/ Refuse(r) PROVE LedgerAddsUp'
  BY <1>6, <1>a, Moving DEF Drifted, Refuse, Prompts
<1>7. ASSUME NEW r \in Requests, Reserve(r) PROVE LedgerAddsUp'
  <2>1. Moved(r, "asking") /\ stage[r] = "lead" /\ reserved' = reserved + Estimate /\ spent' = spent
    BY <1>7, Moving DEF Reserve, Prompts, Stages
  <2>2. Asking' = Asking \cup {r} /\ r \notin Asking
    BY <2>1 DEF Asking, Moved
  <2>3. Cardinality(Asking') = Cardinality(Asking) + 1
    BY <2>2, AskingFinite, FS_AddElement
  <2>4. Estimate * (Cardinality(Asking) + 1) = Estimate * Cardinality(Asking) + Estimate
    BY AskingFinite, Numbers
  <2> QED BY <2>1, <2>3, <2>4 DEF LedgerAddsUp
<1>8. ASSUME NEW r \in Requests, ProviderFails(r) \/ Overspends(r) PROVE LedgerAddsUp'
  BY <1>0, <1>8, Moving, LedgerRelease DEF ProviderFails, Overspends
<1>9. ASSUME NEW r \in Requests, AnswersNonsense(r) \/ Answers(r) PROVE LedgerAddsUp'
  BY <1>9, Moving, LedgerRelease, Numbers DEF AnswersNonsense, Answers, Stages
<1>10. ASSUME NEW r \in Requests, Finish(r) \/ CleanUp(r) PROVE LedgerAddsUp'
  <2>1. stage[r] \in {"over", "done"} /\ Unregister(r)
    BY <1>10 DEF Finish, CleanUp, Registered
  <2>2. /\ \A s \in Requests : stage'[s] = stage[s] \/ (stage[s] # "asking" /\ stage'[s] = "done")
        /\ spent' = spent /\ reserved' = reserved
    BY <1>0, <2>1 DEF Unregister, Followers
  <2> QED BY <2>2, LedgerFrame
<1>11. ASSUME NEW r \in Requests, Cancel(r) PROVE LedgerAddsUp'
  BY <1>0, <1>11, <1>a, Moving, LedgerRelease DEF Cancel, Stages
<1> QED BY <1>1, <1>2, <1>3, <1>4, <1>5, <1>6, <1>7, <1>8, <1>9, <1>10, <1>11
        DEF Next, Read, Join, Dispatch, Provider, GivesUp
-----------------------------------------------------------------------------
(* A server starts with no request, an empty cache and an empty ledger. *)
LEMMA InitIInv == Init => IInv
<1> SUFFICES ASSUME Init PROVE IInv
  OBVIOUS
<1>1. TypeOK
  <2>1. /\ cache \in [Kinds -> [Contents -> Maybe]] /\ stage \in [Requests -> Stages]
        /\ key \in [Requests -> Contents] /\ shown \in [Requests -> Maybe]
        /\ follows \in [Requests -> Requests \cup {None}]
        /\ inflight \in [Contents -> Requests \cup {None}]
    BY DEF Init, Maybe, Stages
  <2>2. queue \in Seq(Commands) /\ edits \in 0 .. MaxEdits /\ faults \in 0 .. MaxFaults
    BY DispatchAssumption DEF Init
  <2> QED BY <2>1, <2>2 DEF Init, TypeOK, Maybe, Sources
<1>2. Registered /\ ShownIsKey
  BY DEF Init, Registered, ShownIsKey, Dispatching
<1>3. QueueIsTrue
  BY DEF Init, QueueIsTrue
<1>4. CacheTellsTruth
  BY DEF Init, CacheTellsTruth
<1>5. LedgerAddsUp
  <2>1. Asking = {}
    BY DEF Init, Asking
  <2> QED BY <2>1, FS_EmptySet, DispatchAssumption DEF Init, LedgerAddsUp
<1> QED BY <1>1, <1>2, <1>3, <1>4, <1>5 DEF IInv

(* The inductive invariant holds throughout. *)
LEMMA SpecIInv == Spec => []IInv
<1>1. IInv /\ [Next]_vars => IInv'
  BY TypeStep, RegistryStep, TruthStep, LedgerStep DEF IInv
<1> QED BY InitIInv, <1>1, PTL DEF Spec

(* The variables keep their types, whoever is cancelled, refused or failed. *)
THEOREM TypeSafety == Spec => []TypeOK
<1>1. IInv => TypeOK
  BY DEF IInv
<1> QED BY <1>1, SpecIInv, PTL

(* What is reserved is the estimates of the calls under way, and what is booked
   stays under the ceiling, for any number of requests. *)
THEOREM LedgerIsSound == Spec => []LedgerAddsUp
<1>1. IInv => LedgerAddsUp
  BY DEF IInv
<1> QED BY <1>1, SpecIInv, PTL

(* The cache never holds an answer about one text of the entity under another;
   an answer to a prompt whose source could not be hashed is all it may hold
   besides.  The inferred edges of the graph have the row they came from. *)
THEOREM CacheIsTrue == Spec => []CacheTellsTruth
<1>1. IInv => CacheTellsTruth
  BY DEF IInv
<1> QED BY <1>1, SpecIInv, PTL
-----------------------------------------------------------------------------
(***************************************************************************)
(* What WaitersAreHeard rests on.  That somebody who waits is told needs   *)
(* the fairness of providers, the writer and spawned tasks, and stays with *)
(* TLC.  What is proved is that there is always somebody left to tell him, *)
(* and that there are only so many steps in between.                       *)
(***************************************************************************)
InFlight == {"lead", "asking", "sent", "over"}

(* Whoever is sent a reply has his command on the queue. *)
Queued(r) == \E i \in 1 .. Len(queue) : queue[i].by = r

(* The registered dispatcher is at work, or was dropped and its clean-up is
   due: the guard of one of Dispatch, Provider, Write, Finish, CleanUp. *)
AtWork(r) ==
  \/ stage[r] \in {"lead", "asking", "over"}
  \/ stage[r] = "sent" /\ Queued(r)
  \/ r \in abandoned

(* Nobody waits for a request that will not speak: the one he follows is still
   the one registered for his key, and has work left that ends with telling
   everybody, though it was cancelled, refused, or edited away in between. *)
NobodyIsForgotten ==
  \A r \in Requests : stage[r] = "waiting" =>
    /\ follows[r] \in Requests /\ inflight[key[r]] = follows[r]
    /\ key[follows[r]] = key[r] /\ AtWork(follows[r])

(* The registry never keeps an entry that nobody will remove, which would hold
   up every later request for the key. *)
NoDeadEntry ==
  \A c \in Contents : inflight[c] # None => key[inflight[c]] = c /\ AtWork(inflight[c])

(* How far a request is from being gone, its clean-up included. *)
StagesLeft ==
  [s \in Stages |->
     CASE s = "idle" -> 6 [] s = "cold" -> 5 [] s = "lead" -> 4 [] s = "asking" -> 3
       [] s = "sent" -> 2 [] s = "over" -> 1 [] s = "waiting" -> 1 [] OTHER -> 0]

WayToGo(r) == 2 * StagesLeft[stage[r]] + (IF r \in abandoned THEN 1 ELSE 0)

(* A step of the server brings some request nearer to its end and sends none
   back, or takes a command off the queue: dispatching, cancelling, timing
   out and cleaning up come to an end by themselves. *)
ServerWindsDown ==
  [][Edit \/ Analyze
     \/ /\ \A r \in Requests : WayToGo(r)' <= WayToGo(r)
        /\ (\E r \in Requests : WayToGo(r)' < WayToGo(r)) \/ Len(queue') < Len(queue)]_vars

(* What was booked stays booked, and a session that met its ceiling begins no
   further call: neither a cancelled call nor a smaller answer reopens it. *)
CeilingIsFinal ==
  [][spent' >= spent /\ (blocked => blocked' /\ Asking' \subseteq Asking)]_vars

(* The registry names requests at work on the key they are filed under. *)
Enrolled ==
  \A c \in Contents : inflight[c] # None =>
    /\ key[inflight[c]] = c /\ inflight[c] \notin Summaries
    /\ stage[inflight[c]] \in InFlight \/ inflight[c] \in abandoned

(* Who waits, waits for the one in the registry. *)
Heard ==
  \A r \in Requests : stage[r] = "waiting" =>
    follows[r] # None /\ inflight[key[r]] = follows[r]

Awaited == \A r \in Requests : stage[r] = "sent" => Queued(r)

(* Summaries are not coalesced. *)
Sorted == \A r \in Summaries : stage[r] # "cold"

Orderly == Enrolled /\ Heard /\ Sorted /\ Awaited

(* A request that moves on keeps the registry in order, if it goes on working
   for its key or never was registered for one. *)
LEMMA ShiftKeeps ==
  ASSUME TypeOK, Registered, Enrolled, Heard, NEW r \in Requests, NEW there,
         Moved(r, there), there # "waiting",
         UNCHANGED <<inflight, abandoned, follows>>,
         \A s \in Requests \ {r} : key'[s] = key[s],
         key'[r] = key[r] \/ stage[r] = "idle",
         there \in InFlight \/ stage[r] \notin InFlight \/ ~ Leads(r)
  PROVE  Enrolled' /\ Heard'
<1>0. /\ None \notin Requests /\ inflight \in [Contents -> Requests \cup {None}]
      /\ key \in [Requests -> Contents]
  BY DispatchAssumption DEF TypeOK
<1>1. ASSUME NEW c \in Contents, inflight[c] # None
      PROVE  /\ key'[inflight[c]] = c /\ inflight[c] \notin Summaries
             /\ stage'[inflight[c]] \in InFlight \/ inflight[c] \in abandoned
  <2>1. /\ inflight[c] \in Requests /\ key[inflight[c]] = c /\ inflight[c] \notin Summaries
        /\ stage[inflight[c]] \in InFlight \/ inflight[c] \in abandoned
    BY <1>0, <1>1 DEF Enrolled
  <2>2. CASE inflight[c] # r
    BY <2>1, <2>2 DEF Moved
  <2>3. CASE inflight[c] = r
    <3>1. Leads(r) /\ stage[r] # "idle"
      BY <2>1, <2>3 DEF Leads, InFlight, Registered
    <3> QED
      BY <2>1, <2>3, <3>1 DEF Moved
  <2> QED
    BY <2>2, <2>3
<1>2. Enrolled'
  BY <1>1 DEF Enrolled
<1>3. ASSUME NEW s \in Requests, stage'[s] = "waiting"
      PROVE  follows[s] # None /\ inflight[key'[s]] = follows[s]
  BY <1>3 DEF Heard, Moved
<1> QED
  BY <1>2, <1>3 DEF Heard

(* Ending lets a leader go through its guard first. *)
LEMMA EndsKeeps ==
  ASSUME TypeOK, Registered, Enrolled, Heard, NEW r \in Requests, Ends(r),
         UNCHANGED <<inflight, abandoned, follows, key>>
  PROVE  Enrolled' /\ Heard'
<1>1. PICK there \in {"over", "done"} : Moved(r, there) /\ (Leads(r) => there = "over")
  BY Moving DEF Ends, Stages
<1> QED
  BY <1>1, ShiftKeeps DEF InFlight

(* Every step keeps the registry in order. *)
LEMMA EnrolledStep ==
  TypeOK /\ Registered /\ Sorted /\ Enrolled /\ Heard /\ [Next]_vars => Enrolled' /\ Heard'
<1> SUFFICES ASSUME TypeOK, Registered, Sorted, Enrolled, Heard, [Next]_vars PROVE Enrolled' /\ Heard'
  OBVIOUS
<1>0. /\ None \notin Requests /\ inflight \in [Contents -> Requests \cup {None}]
      /\ key \in [Requests -> Contents] /\ stage \in [Requests -> Stages]
      /\ follows \in [Requests -> Requests \cup {None}] /\ abandoned \subseteq Requests
  BY DispatchAssumption DEF TypeOK
<1>a. ASSUME UNCHANGED <<stage, key, inflight, abandoned, follows>> PROVE Enrolled' /\ Heard'
  BY <1>a DEF Enrolled, Heard
<1> USE DEF registry
<1>1. CASE Edit \/ Analyze \/ UNCHANGED vars
  BY <1>1, <1>a DEF Edit, Analyze, vars
<1>2. CASE Write \/ WriteFails
  <2>1. /\ Replies /\ UNCHANGED <<inflight, abandoned, follows, key>>
        /\ stage' = stage \/ Ends(Head1.by)
    BY <1>2 DEF Write, WriteFails, Replies
  <2>2. Head1.by \in Requests
    BY <2>1, Replying DEF Commands
  <2> QED
    BY <1>a, <2>1, <2>2, EndsKeeps
<1>3. ASSUME NEW r \in Requests, Read(r) PROVE Enrolled' /\ Heard'
  <2>1. /\ stage[r] = "idle" /\ \A s \in Requests \ {r} : key'[s] = key[s]
        /\ UNCHANGED <<inflight, abandoned, follows>>
    BY <1>0, <1>3 DEF Read, NothingToInfer, Hit, Miss, Idle
  <2>2. \E there \in {"done", "sent", "lead", "cold"} : Moved(r, there)
    BY <1>3, Moving DEF Read, NothingToInfer, Hit, Miss, Stages
  <2> QED
    BY <2>1, <2>2, ShiftKeeps DEF InFlight
<1>4. ASSUME NEW r \in Requests, Lead(r) PROVE Enrolled' /\ Heard'
  <2>1. /\ Moved(r, "lead") /\ stage[r] = "cold" /\ inflight[key[r]] = None
        /\ UNCHANGED <<key, abandoned, follows>>
        /\ inflight'[key[r]] = r /\ \A c \in Contents \ {key[r]} : inflight'[c] = inflight[c]
    BY <1>0, <1>4, Moving DEF Lead, Stages
  <2>2. r \notin Summaries
    BY <2>1 DEF Sorted
  <2> QED
    BY <1>0, <2>1, <2>2 DEF Moved, Enrolled, Heard, InFlight
<1>5. ASSUME NEW r \in Requests, Follow(r) PROVE Enrolled' /\ Heard'
  <2>1. /\ Moved(r, "waiting") /\ stage[r] = "cold" /\ inflight[key[r]] # None
        /\ UNCHANGED <<key, inflight, abandoned>>
        /\ follows'[r] = inflight[key[r]]
        /\ \A s \in Requests \ {r} : follows'[s] = follows[s]
    BY <1>0, <1>5, Moving DEF Follow, Stages
  <2> QED
    BY <1>0, <2>1 DEF Moved, Enrolled, Heard, InFlight, Registered
<1>6. ASSUME NEW r \in Requests, Dispatch(r) PROVE Enrolled' /\ Heard'
  <2>1. UNCHANGED <<inflight, abandoned, follows, key>> /\ (Ends(r) \/ Moves(r, "asking"))
    BY <1>6 DEF Dispatch, Drifted, Reserve, Refuse
  <2> QED
    BY <2>1, EndsKeeps, ShiftKeeps, Moving DEF InFlight, Stages
<1>7. ASSUME NEW r \in Requests, Provider(r) PROVE Enrolled' /\ Heard'
  <2>1. UNCHANGED <<inflight, abandoned, follows, key>> /\ (Ends(r) \/ Moves(r, "sent"))
    BY <1>7 DEF Provider, ProviderFails, Overspends, AnswersNonsense, Answers
  <2> QED
    BY <2>1, EndsKeeps, ShiftKeeps, Moving DEF InFlight, Stages
<1>8. ASSUME NEW r \in Requests, Finish(r) \/ CleanUp(r) PROVE Enrolled' /\ Heard'
  <2>1. Unregister(r) /\ stage[r] \in {"over", "done"}
    BY <1>8 DEF Finish, CleanUp, Registered
  <2>2. /\ UNCHANGED <<key, follows>> /\ abandoned' = abandoned \ {r}
        /\ \A c \in Contents : /\ inflight[c] # r => inflight'[c] = inflight[c]
                               /\ inflight'[c] # None => inflight'[c] = inflight[c]
        /\ inflight'[key[r]] # r
    BY <1>0, <2>1 DEF Unregister
  <2>3. \A s \in Requests : IF s = r \/ (stage[s] = "waiting" /\ follows[s] = r)
                            THEN stage'[s] = "done" ELSE stage'[s] = stage[s]
    BY <1>0, <2>1 DEF Unregister, Followers
  <2>4. ASSUME NEW c \in Contents, inflight'[c] # None
        PROVE  /\ key[inflight'[c]] = c /\ inflight'[c] \notin Summaries
               /\ stage'[inflight'[c]] \in InFlight \/ inflight'[c] \in abandoned'
    <3>1. /\ inflight'[c] = inflight[c] /\ inflight[c] \in Requests /\ key[inflight[c]] = c
          /\ inflight[c] \notin Summaries
          /\ stage[inflight[c]] \in InFlight \/ inflight[c] \in abandoned
      BY <1>0, <2>2, <2>4 DEF Enrolled
    <3>2. inflight[c] # r
      BY <2>2, <3>1
    <3>3. stage'[inflight[c]] = stage[inflight[c]] \/ inflight[c] \in abandoned
      BY <2>3, <3>1, <3>2 DEF InFlight
    <3> QED
      BY <2>2, <3>1, <3>2, <3>3
  <2>5. ASSUME NEW s \in Requests, stage'[s] = "waiting"
        PROVE  follows[s] # None /\ inflight'[key[s]] = follows[s]
    <3>1. stage[s] = "waiting" /\ follows[s] # r
      BY <2>3, <2>5
    <3> QED
      BY <1>0, <2>2, <3>1 DEF Heard
  <2> QED
    BY <2>2, <2>4, <2>5 DEF Enrolled, Heard
<1>9. ASSUME NEW r \in Requests, WaitTimesOut(r) PROVE Enrolled' /\ Heard'
  BY <1>9, ShiftKeeps, Moving DEF WaitTimesOut, InFlight, Stages
<1>10. ASSUME NEW r \in Requests, ReplyTimesOut(r) PROVE Enrolled' /\ Heard'
  BY <1>10, EndsKeeps DEF ReplyTimesOut
<1>11. ASSUME NEW r \in Requests, Cancel(r) PROVE Enrolled' /\ Heard'
  <2>1. Moved(r, "done") /\ UNCHANGED <<inflight, follows, key>>
    BY <1>11, Moving DEF Cancel, Stages
  <2>2. CASE Leads(r)
    <3>1. abandoned' = abandoned \cup {r}
      BY <1>11, <2>2 DEF Cancel
    <3> QED
      BY <1>0, <2>1, <3>1 DEF Moved, Enrolled, Heard
  <2>3. CASE ~ Leads(r)
    <3>1. abandoned' = abandoned
      BY <1>11, <2>3 DEF Cancel
    <3> QED
      BY <2>1, <2>3, <3>1, ShiftKeeps
  <2> QED
    BY <2>2, <2>3
<1> QED
  BY <1>1, <1>2, <1>3, <1>4, <1>5, <1>6, <1>7, <1>8, <1>9, <1>10, <1>11
  DEF Next, Join, GivesUp

(* Only a request that reads for the first time joins the queue for a key, and
   only one that asks for edges. *)
LEMMA SortedStep == TypeOK /\ Registered /\ Sorted /\ [Next]_vars => Sorted'
<1> SUFFICES ASSUME TypeOK, Registered, Sorted, [Next]_vars, NEW s \in Summaries, stage'[s] = "cold"
             PROVE  FALSE
  BY DEF Sorted
<1>0. stage[s] # "cold" /\ s \in Requests /\ stage \in [Requests -> Stages]
  BY DispatchAssumption DEF Sorted, TypeOK
<1>a. ASSUME NEW r \in Requests, NEW there \in Stages, Moved(r, there), there # "cold" PROVE FALSE
  BY <1>0, <1>a DEF Moved
<1>b. ASSUME NEW r \in Requests, Ends(r) PROVE FALSE
  BY <1>a, <1>b, Moving DEF Stages
<1>1. CASE Edit \/ Analyze \/ UNCHANGED vars
  BY <1>0, <1>1 DEF Edit, Analyze, vars
<1>2. CASE Write \/ WriteFails
  <2>1. Replies /\ (stage' = stage \/ Ends(Head1.by))
    BY <1>2 DEF Write, WriteFails, Replies
  <2>2. Head1.by \in Requests
    BY <2>1, Replying DEF Commands
  <2> QED
    BY <1>0, <1>b, <2>1, <2>2
<1>3. ASSUME NEW r \in Requests, Read(r) PROVE FALSE
  <2>1. PICK there \in {"done", "sent", "lead", "cold"} :
          Moved(r, there) /\ (there = "cold" => r \notin Summaries)
    BY <1>3, Moving DEF Read, NothingToInfer, Hit, Miss, Stages
  <2> QED
    BY <1>0, <2>1 DEF Moved
<1>4. ASSUME NEW r \in Requests, Join(r) \/ Dispatch(r) \/ Provider(r) \/ GivesUp(r) PROVE FALSE
  <2>1. Ends(r) \/ \E there \in {"lead", "waiting", "asking", "sent", "done"} : Moves(r, there)
    BY <1>4 DEF Join, Lead, Follow, Dispatch, Drifted, Reserve, Refuse, Provider, ProviderFails,
                Overspends, AnswersNonsense, Answers, GivesUp, WaitTimesOut, ReplyTimesOut, Cancel
  <2> QED
    BY <1>a, <1>b, <2>1, Moving DEF Stages
<1>5. ASSUME NEW r \in Requests, Finish(r) \/ CleanUp(r) PROVE FALSE
  <2>1. stage'[s] = stage[s] \/ stage'[s] = "done"
    BY <1>0, <1>5 DEF Finish, CleanUp, Unregister
  <2> QED
    BY <1>0, <2>1
<1> QED
  BY <1>1, <1>2, <1>3, <1>4, <1>5 DEF Next

(* A command leaves the queue only with the reply to its sender. *)
LEMMA AwaitedStep == TypeOK /\ ShownIsKey /\ Awaited /\ [Next]_vars => Awaited'
<1> SUFFICES ASSUME TypeOK, ShownIsKey, Awaited, [Next]_vars, NEW s \in Requests, stage'[s] = "sent"
             PROVE  Queued(s)'
  BY DEF Awaited
<1>0. queue \in Seq(Commands) /\ stage \in [Requests -> Stages]
  BY DEF TypeOK
<1>a. ASSUME stage[s] = "sent", queue' = queue PROVE Queued(s)'
  BY <1>a DEF Awaited, Queued
<1>b. ASSUME stage[s] = "sent", NEW c \in Commands, queue' = Append(queue, c) PROVE Queued(s)'
  <2>1. PICK i \in 1 .. Len(queue) : queue[i].by = s
    BY <1>b DEF Awaited, Queued
  <2>2. i \in 1 .. Len(queue') /\ queue'[i] = queue[i]
    BY <1>0, <1>b
  <2> QED
    BY <2>1, <2>2 DEF Queued
<1>c. ASSUME NEW c \in Commands, c.by = s, queue' = Append(queue, c) PROVE Queued(s)'
  <2>1. Len(queue) + 1 \in 1 .. Len(queue') /\ queue'[Len(queue) + 1] = c
    BY <1>0, <1>c
  <2> QED
    BY <1>c, <2>1 DEF Queued
<1>d. ASSUME NEW r \in Requests, NEW there \in Stages, Moved(r, there), there # "sent"
      PROVE  stage[s] = "sent"
  BY <1>d DEF Moved
<1>e. ASSUME NEW r \in Requests, Ends(r) PROVE stage[s] = "sent"
  BY <1>d, <1>e, Moving DEF Stages
<1> USE DEF ledger
<1>1. CASE Edit \/ Analyze \/ UNCHANGED vars
  BY <1>1, <1>a DEF Edit, Analyze, vars
<1>2. CASE Write \/ WriteFails
  <2>1. Replies
    BY <1>2 DEF Write, WriteFails
  <2>2. /\ Len(queue) \in Nat \ {0} /\ Len(queue') = Len(queue) - 1
        /\ \A i \in 1 .. Len(queue') : queue'[i] = queue[i + 1]
    BY <2>1, Replying
  <2>3. Head1.by \in Requests
    BY <2>1, Replying DEF Commands
  <2>4. stage[s] = "sent" /\ s # Head1.by
    <3>1. CASE stage[Head1.by] = "sent"
      <4>1. Ends(Head1.by)
        BY <2>1, <3>1 DEF Replies
      <4>2. Moved(Head1.by, "over") \/ Moved(Head1.by, "done")
        BY <2>3, <4>1, Moving
      <4> QED
        BY <4>2 DEF Moved
    <3>2. CASE stage[Head1.by] # "sent"
      BY <2>1, <3>2 DEF Replies
    <3> QED
      BY <3>1, <3>2
  <2>5. PICK i \in 1 .. Len(queue) : queue[i].by = s
    BY <2>4 DEF Awaited, Queued
  <2>6. i # 1
    BY <2>4, <2>5 DEF Head1
  <2>7. i - 1 \in 1 .. Len(queue') /\ queue'[i - 1] = queue[i]
    BY <2>2, <2>5, <2>6
  <2> QED
    BY <2>5, <2>7 DEF Queued
<1>3. ASSUME NEW r \in Requests, NothingToInfer(r) \/ Miss(r) PROVE Queued(s)'
  <2>1. queue' = queue /\ \E there \in {"done", "lead", "cold"} : Moves(r, there)
    BY <1>3 DEF NothingToInfer, Miss
  <2> QED
    BY <1>a, <1>d, <2>1, Moving DEF Stages
<1>4. ASSUME NEW r \in Requests, Hit(r) PROVE Queued(s)'
  <2> DEFINE job == IF r \in Summaries THEN "touch" ELSE "insert"
             c == Command(r, stored, job, cache[Kind(r)][stored])
  <2>1. Moved(r, "sent") /\ queue' = Append(queue, c)
    BY <1>4, Moving DEF Hit, Stages
  <2>2. c \in Commands /\ c.by = r
    <3>1. cache[Kind(r)][stored] \in Sources /\ stored \in Contents /\ job \in {"touch", "insert"}
      BY <1>4 DEF Hit, Kind, Kinds, TypeOK, Maybe
    <3> QED
      BY <3>1, Sending DEF Command
  <2> HIDE DEF c, job
  <2> QED
    BY <1>b, <1>c, <2>1, <2>2 DEF Moved
<1>5. ASSUME NEW r \in Requests, Answers(r) PROVE Queued(s)'
  <2> DEFINE c == Command(r, key[r], "insert", shown[r])
  <2>1. Moved(r, "sent") /\ queue' = Append(queue, c) /\ c.by = r
    BY <1>5, Moving DEF Answers, Stages, Command
  <2> HIDE DEF c
  <2>2. shown[r] \in Sources /\ key[r] \in Contents
    BY <1>5 DEF Answers, ShownIsKey, Sources, TypeOK
  <2>3. c \in Commands
    BY <2>2, Sending DEF c
  <2> QED
    BY <1>b, <1>c, <2>1, <2>3 DEF Moved
<1>6. ASSUME NEW r \in Requests, Join(r) \/ Dispatch(r) \/ GivesUp(r) PROVE Queued(s)'
  <2>1. /\ queue' = queue
        /\ Ends(r) \/ \E there \in {"lead", "waiting", "asking", "done"} : Moves(r, there)
    BY <1>6 DEF Join, Lead, Follow, Dispatch, Drifted, Reserve, Refuse, GivesUp, WaitTimesOut,
                ReplyTimesOut, Cancel
  <2> QED
    BY <1>a, <1>d, <1>e, <2>1, Moving DEF Stages
<1>7. ASSUME NEW r \in Requests, ProviderFails(r) \/ Overspends(r) \/ AnswersNonsense(r)
      PROVE  Queued(s)'
  BY <1>7, <1>a, <1>e DEF ProviderFails, Overspends, AnswersNonsense
<1>8. ASSUME NEW r \in Requests, Finish(r) \/ CleanUp(r) PROVE Queued(s)'
  <2>1. queue' = queue /\ stage[s] = "sent"
    BY <1>8 DEF Finish, CleanUp, Unregister
  <2> QED
    BY <1>a, <2>1
<1> QED
  BY <1>1, <1>2, <1>3, <1>4, <1>5, <1>6, <1>7, <1>8 DEF Next, Read, Provider

LEMMA SpecOrderly == Spec => []Orderly
<1>1. Init => Orderly
  BY DispatchAssumption DEF Init, Orderly, Enrolled, Heard, Sorted, Awaited
<1>2. IInv /\ Orderly /\ [Next]_vars => Orderly'
  BY EnrolledStep, SortedStep, AwaitedStep DEF IInv, Orderly
<1> QED
  BY <1>1, <1>2, SpecIInv, PTL DEF Spec

LEMMA OrderlyMeans ==
  TypeOK /\ Registered /\ Orderly => NobodyIsForgotten /\ NoDeadEntry
<1> SUFFICES ASSUME TypeOK, Registered, Orderly PROVE NobodyIsForgotten /\ NoDeadEntry
  OBVIOUS
<1>1. ASSUME NEW c \in Contents, inflight[c] # None
      PROVE  inflight[c] \in Requests /\ key[inflight[c]] = c /\ AtWork(inflight[c])
  BY <1>1 DEF TypeOK, Orderly, Enrolled, InFlight, Awaited, AtWork
<1>2. ASSUME NEW r \in Requests, stage[r] = "waiting"
      PROVE  /\ follows[r] \in Requests /\ inflight[key[r]] = follows[r]
             /\ key[follows[r]] = key[r] /\ AtWork(follows[r])
  <2>1. key[r] \in Contents /\ follows[r] # None /\ inflight[key[r]] = follows[r]
    BY <1>2 DEF TypeOK, Orderly, Heard
  <2> QED
    BY <1>1, <2>1
<1> QED
  BY <1>1, <1>2 DEF NobodyIsForgotten, NoDeadEntry

(* Every request that waits has somebody at work for it, whoever is cancelled,
   refused, edited away or times out. *)
THEOREM NobodyIsForgottenHolds == Spec => []NobodyIsForgotten
<1>1. IInv /\ Orderly => NobodyIsForgotten
  BY OrderlyMeans DEF IInv
<1> QED
  BY <1>1, SpecIInv, SpecOrderly, PTL

(* Nobody pays twice at the same time for the edges of one content, and whoever
   waits for them meanwhile follows the one that pays. *)
THEOREM OnePayer == Spec => []SoleDispatcher
<1>1. IInv /\ Orderly => SoleDispatcher
  BY OrderlyMeans DEF IInv, Registered, NobodyIsForgotten, SoleDispatcher
<1> QED
  BY <1>1, SpecIInv, SpecOrderly, PTL

(* No entry of the registry outlives what would remove it. *)
THEOREM NoDeadEntryHolds == Spec => []NoDeadEntry
<1>1. IInv /\ Orderly => NoDeadEntry
  BY OrderlyMeans DEF IInv
<1> QED
  BY <1>1, SpecIInv, SpecOrderly, PTL
-----------------------------------------------------------------------------
LEMMA StageValues ==
  /\ StagesLeft["idle"] = 6 /\ StagesLeft["cold"] = 5 /\ StagesLeft["lead"] = 4
  /\ StagesLeft["asking"] = 3 /\ StagesLeft["sent"] = 2 /\ StagesLeft["over"] = 1
  /\ StagesLeft["waiting"] = 1 /\ StagesLeft["done"] = 0
BY DEF StagesLeft, Stages

LEMMA StagesAreNat == \A s \in Stages : StagesLeft[s] \in 0 .. 6
BY StageValues DEF Stages

Winds ==
  /\ \A r \in Requests : WayToGo(r)' <= WayToGo(r)
  /\ (\E r \in Requests : WayToGo(r)' < WayToGo(r)) \/ Len(queue') < Len(queue)

(* A request that moves on is nearer to its end, even if it leaves an entry
   behind to be cleaned up. *)
LEMMA MovingWinds ==
  ASSUME TypeOK, NEW r \in Requests, NEW there \in Stages, Moved(r, there),
         StagesLeft[there] < StagesLeft[stage[r]], abandoned' \subseteq abandoned \cup {r}
  PROVE  Winds
<1>1. /\ stage[r] \in Stages /\ stage'[r] = there
      /\ \A s \in Requests \ {r} : stage'[s] = stage[s] /\ stage[s] \in Stages
  BY DEF Moved, TypeOK
<1>2. WayToGo(r)' < WayToGo(r)
  <2>1. StagesLeft[there] \in Nat /\ StagesLeft[stage[r]] \in Nat
    BY <1>1, StagesAreNat
  <2> QED
    BY <1>1, <2>1 DEF WayToGo
<1>3. ASSUME NEW s \in Requests \ {r} PROVE WayToGo(s)' <= WayToGo(s)
  <2>1. stage'[s] = stage[s] /\ StagesLeft[stage[s]] \in Nat /\ (s \in abandoned' => s \in abandoned)
    BY <1>1, StagesAreNat
  <2> QED
    BY <2>1 DEF WayToGo
<1>4. WayToGo(r) \in Nat /\ WayToGo(r)' \in Nat
  BY <1>1, StagesAreNat DEF WayToGo
<1> QED
  BY <1>2, <1>3, <1>4 DEF Winds

LEMMA EndingWinds ==
  ASSUME TypeOK, NEW r \in Requests, Ends(r), stage[r] \in {"lead", "asking", "sent"},
         UNCHANGED abandoned
  PROVE  Winds
<1>1. PICK there \in {"over", "done"} : Moved(r, there)
  BY Moving DEF Ends
<1> QED
  BY <1>1, MovingWinds, StageValues DEF Stages

(* Nothing the server does is done twice, or for ever. *)
THEOREM ServerWindsDownHolds == Spec => ServerWindsDown
<1>1. ASSUME TypeOK, Registered, Next, ~ Edit, ~ Analyze PROVE Winds
  <2>0. stage \in [Requests -> Stages]
    BY <1>1 DEF TypeOK
  <2> USE DEF registry
  <2>1. CASE Write \/ WriteFails
    <3>1. Replies
      BY <2>1 DEF Write, WriteFails
    <3>2. Head1.by \in Requests /\ Len(queue') < Len(queue)
      BY <1>1, <3>1, Replying DEF Commands
    <3>3. CASE stage[Head1.by] = "sent"
      BY <1>1, <3>1, <3>2, <3>3, EndingWinds DEF Replies
    <3>4. CASE stage[Head1.by] # "sent"
      <4>1. UNCHANGED <<stage, abandoned>>
        BY <3>1, <3>4 DEF Replies
      <4>2. \A r \in Requests : WayToGo(r)' = WayToGo(r) /\ WayToGo(r) \in Nat
        BY <2>0, <4>1, StagesAreNat DEF WayToGo
      <4> QED
        BY <3>2, <4>2 DEF Winds
    <3> QED
      BY <3>3, <3>4
  <2>2. ASSUME NEW r \in Requests, Read(r) PROVE Winds
    <3>1. stage[r] = "idle" /\ UNCHANGED abandoned
      BY <2>2 DEF Read, NothingToInfer, Hit, Miss, Idle
    <3>2. \E there \in {"done", "sent", "lead", "cold"} : Moved(r, there)
      BY <1>1, <2>2, Moving DEF Read, NothingToInfer, Hit, Miss, Stages
    <3> QED
      BY <1>1, <3>1, <3>2, MovingWinds, StageValues DEF Stages
  <2>3. ASSUME NEW r \in Requests, Join(r) PROVE Winds
    <3>1. stage[r] = "cold" /\ UNCHANGED abandoned
      BY <2>3 DEF Join, Lead, Follow
    <3>2. \E there \in {"lead", "waiting"} : Moved(r, there)
      BY <1>1, <2>3, Moving DEF Join, Lead, Follow, Stages
    <3> QED
      BY <1>1, <3>1, <3>2, MovingWinds, StageValues DEF Stages
  <2>4. ASSUME NEW r \in Requests, Dispatch(r) PROVE Winds
    <3>1. stage[r] = "lead" /\ UNCHANGED abandoned /\ (Ends(r) \/ Moves(r, "asking"))
      BY <2>4 DEF Dispatch, Drifted, Reserve, Refuse, Prompts
    <3>2. Moves(r, "asking") => Winds
      BY <1>1, <3>1, Moving, MovingWinds, StageValues DEF Stages
    <3> QED
      BY <1>1, <3>1, <3>2, EndingWinds
  <2>5. ASSUME NEW r \in Requests, Provider(r) PROVE Winds
    <3>1. stage[r] = "asking" /\ UNCHANGED abandoned /\ (Ends(r) \/ Moves(r, "sent"))
      BY <2>5 DEF Provider, ProviderFails, Overspends, AnswersNonsense, Answers
    <3>2. Moves(r, "sent") => Winds
      BY <1>1, <3>1, Moving, MovingWinds, StageValues DEF Stages
    <3> QED
      BY <1>1, <3>1, <3>2, EndingWinds
  <2>6. ASSUME NEW r \in Requests, Finish(r) \/ CleanUp(r) PROVE Winds
    <3>1. /\ Unregister(r)
          /\ stage[r] = "over" \/ (stage[r] = "done" /\ r \in abandoned)
      BY <1>1, <2>6 DEF Finish, CleanUp, Registered
    <3>2. /\ abandoned' = abandoned \ {r} /\ stage'[r] = "done"
          /\ \A s \in Requests : stage'[s] = stage[s] \/ stage'[s] = "done"
      BY <2>0, <3>1 DEF Unregister
    <3>3. ASSUME NEW s \in Requests PROVE WayToGo(s)' <= WayToGo(s)
      <4>1. /\ StagesLeft[stage'[s]] <= StagesLeft[stage[s]] /\ (s \in abandoned' => s \in abandoned)
            /\ StagesLeft[stage'[s]] \in Nat /\ StagesLeft[stage[s]] \in Nat
        BY <2>0, <3>2, StagesAreNat, StageValues
      <4> QED
        BY <4>1 DEF WayToGo
    <3>4. WayToGo(r)' < WayToGo(r)
      BY <3>1, <3>2, StageValues DEF WayToGo
    <3> QED
      BY <3>3, <3>4 DEF Winds
  <2>7. ASSUME NEW r \in Requests, WaitTimesOut(r) PROVE Winds
    <3>1. stage[r] = "waiting" /\ UNCHANGED abandoned /\ Moved(r, "done")
      BY <1>1, <2>7, Moving DEF WaitTimesOut, Stages
    <3> QED
      BY <1>1, <3>1, MovingWinds, StageValues DEF Stages
  <2>8. ASSUME NEW r \in Requests, ReplyTimesOut(r) PROVE Winds
    BY <1>1, <2>8, EndingWinds DEF ReplyTimesOut
  <2>9. ASSUME NEW r \in Requests, Cancel(r) PROVE Winds
    <3>1. stage[r] \in Stages \ {"idle", "done"} /\ Moved(r, "done")
          /\ abandoned' \subseteq abandoned \cup {r}
      BY <1>1, <2>0, <2>9, Moving DEF Cancel, Stages
    <3>2. StagesLeft["done"] < StagesLeft[stage[r]]
      BY <3>1, StageValues DEF Stages
    <3> QED
      BY <1>1, <3>1, <3>2, MovingWinds DEF Stages
  <2> QED
    BY <1>1, <2>1, <2>2, <2>3, <2>4, <2>5, <2>6, <2>7, <2>8, <2>9 DEF Next, GivesUp
<1>2. IInv /\ [Next]_vars => [Edit \/ Analyze \/ Winds]_vars
  BY <1>1 DEF IInv
<1> QED
  BY <1>2, InitIInv, SpecIInv, PTL DEF Spec, ServerWindsDown, Winds

(* The ceiling of a session is met once and for all. *)
THEOREM CeilingIsFinalHolds == Spec => CeilingIsFinal
<1> DEFINE Final == spent' >= spent /\ (blocked => blocked' /\ Asking' \subseteq Asking)
<1>1. ASSUME TypeOK, Next PROVE Final
  <2>0. spent \in Nat /\ blocked \in BOOLEAN /\ stage \in [Requests -> Stages]
    BY <1>1 DEF TypeOK
  <2>a. ASSUME NEW r \in Requests, NEW there \in Stages, Moved(r, there), there # "asking"
        PROVE  Asking' \subseteq Asking
    BY <2>a DEF Asking, Moved
  <2>b. ASSUME NEW r \in Requests, Ends(r) PROVE Asking' \subseteq Asking
    BY <1>1, <2>a, <2>b, Moving DEF Stages
  <2>c. ASSUME UNCHANGED <<spent, blocked>>, Asking' \subseteq Asking PROVE Final
    BY <2>0, <2>c
  <2> USE DEF ledger
  <2>1. CASE Edit \/ Analyze
    BY <2>1, <2>c DEF Edit, Analyze, Asking
  <2>2. CASE Write \/ WriteFails
    <3>1. Replies
      BY <2>2 DEF Write, WriteFails
    <3>2. Asking' \subseteq Asking
      BY <1>1, <2>b, <3>1, Replying DEF Replies, Commands, Asking
    <3> QED
      BY <2>c, <3>1, <3>2 DEF Replies
  <2>3. ASSUME NEW r \in Requests, Read(r) \/ Join(r) \/ GivesUp(r) PROVE Final
    <3>1. /\ UNCHANGED <<spent, blocked>>
          /\ Ends(r) \/ \E there \in {"done", "sent", "lead", "cold", "waiting"} : Moves(r, there)
      BY <2>3 DEF Read, NothingToInfer, Hit, Miss, Join, Lead, Follow, GivesUp, WaitTimesOut,
                  ReplyTimesOut, Cancel
    <3>2. Asking' \subseteq Asking
      BY <1>1, <2>a, <2>b, <3>1, Moving DEF Stages
    <3> QED
      BY <2>c, <3>1, <3>2
  <2>4. ASSUME NEW r \in Requests, Dispatch(r) PROVE Final
    <3>1. CASE Drifted(r)
      BY <2>b, <2>c, <3>1 DEF Drifted
    <3>2. CASE Reserve(r)
      BY <2>0, <3>2 DEF Reserve
    <3>3. CASE Refuse(r)
      BY <2>0, <2>b, <3>3 DEF Refuse
    <3> QED
      BY <2>4, <3>1, <3>2, <3>3 DEF Dispatch
  <2>5. ASSUME NEW r \in Requests, Provider(r) PROVE Final
    <3>1. CASE ProviderFails(r)
      BY <2>b, <2>c, <3>1 DEF ProviderFails
    <3>2. CASE Overspends(r)
      BY <2>0, <2>b, <3>2 DEF Overspends
    <3>3. CASE AnswersNonsense(r) \/ Answers(r)
      <4>1. PICK u \in Usage : spent' = spent + u
        BY <3>3 DEF AnswersNonsense, Answers, Books
      <4>2. u \in Nat /\ UNCHANGED blocked
        BY <3>3, DispatchAssumption DEF AnswersNonsense, Answers
      <4>3. Asking' \subseteq Asking
        <5>1. Ends(r) \/ Moves(r, "sent")
          BY <3>3 DEF AnswersNonsense, Answers
        <5> QED
          BY <1>1, <2>a, <2>b, <5>1, Moving DEF Stages
      <4> QED
        BY <2>0, <4>1, <4>2, <4>3
    <3> QED
      BY <2>5, <3>1, <3>2, <3>3 DEF Provider
  <2>6. ASSUME NEW r \in Requests, Finish(r) \/ CleanUp(r) PROVE Final
    <3>1. Asking' \subseteq Asking /\ UNCHANGED <<spent, blocked>>
      BY <2>0, <2>6 DEF Finish, CleanUp, Unregister, Asking
    <3> QED
      BY <2>c, <3>1
  <2> QED
    BY <1>1, <2>1, <2>2, <2>3, <2>4, <2>5, <2>6 DEF Next
<1>2. TypeOK /\ [Next]_vars => [Final]_vars
  BY <1>1
<1>3. IInv => TypeOK
  BY DEF IInv
<1> QED
  BY <1>2, <1>3, SpecIInv, PTL DEF Spec, CeilingIsFinal
==============================================================================
