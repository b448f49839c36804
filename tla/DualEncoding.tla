---------------------------- MODULE DualEncoding ----------------------------
(***************************************************************************)
(* The part of the entity graph that is stored twice (ADR-026): an entity  *)
(* row carries its parent in `parent_id`, and a `contains` edge row        *)
(* carries the same fact the other way round.  The writer's upserts keep   *)
(* the two apart for as long as a batch is open and the parent check puts  *)
(* them side by side.  `subsystem` stands for the rows that no dual        *)
(* encoding covers: it names the run whose clustering result the           *)
(* subsystem entities and `in_subsystem` edges show.                       *)
(***************************************************************************)
CONSTANTS Children,   \* entities that may declare a parent
          Parents,    \* entities that may be declared as one
          Runs,       \* run ids
          None        \* SQL NULL

ASSUME NoneAssumption == None \notin Parents /\ None \notin Runs

Graph == [parent    : [Children -> Parents \cup {None}],
          contains  : SUBSET (Parents \X Children),
          subsystem : Runs \cup {None}]

EmptyGraph == [parent    |-> [c \in Children |-> None],
               contains  |-> {},
               subsystem |-> None]

ContainersOf(g, c) == {p \in Parents : <<p, c>> \in g.contains}

(* upsert_entity_row: the parent column, and the pruning of every contains
   edge into the child that another node claims.  A root prunes nothing. *)
EntityRow(g, c, p) ==
  [g EXCEPT !.parent[c] = p,
            !.contains = IF p = None THEN @ ELSE {e \in @ : e[2] = c => e[1] = p}]

(* insert_edge for kind `contains`: an upsert on (kind, from_id, to_id). *)
ContainsEdge(g, c, p) == [g EXCEPT !.contains = @ \cup {<<p, c>>}]

(* reconcile_subsystem_graph: the subsystem rows become those of run r. *)
SubsystemsOf(g, r) == [g EXCEPT !.subsystem = r]

(* parent_contains_mismatch, both directions: an entity with a parent has the
   edge from that parent and no other, an entity without one has none. *)
Consistent(g) == \A c \in Children : ContainersOf(g, c) = {g.parent[c]} \ {None}
=============================================================================
