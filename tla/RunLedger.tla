------------------------------ MODULE RunLedger ------------------------------
(***************************************************************************)
(* What the store promises to every reader of the database file, whatever  *)
(* the writer process does in memory: rows of `runs` move through a small  *)
(* life cycle, the graph changes only while a run is open or at the very   *)
(* statement that closes it, and a run that reads `completed` closed over  *)
(* a graph whose two encodings agreed.                                     *)
(***************************************************************************)
EXTENDS DualEncoding

VARIABLES runs, graph
vars == <<runs, graph>>

Terminal == {"completed", "failed", "skipped"}
Status   == {"absent", "running"} \cup Terminal

Init == /\ runs = [r \in Runs |-> "absent"]
        /\ graph = EmptyGraph

Open(r) ==            \* BeginRun publishes a new row; ResumeRun reopens one
  /\ runs[r] # "running"
  /\ runs' = [runs EXCEPT ![r] = "running"]
  /\ UNCHANGED graph

Stillborn(r) ==       \* a new row that could not get its transaction
  /\ runs[r] = "absent"
  /\ runs' = [runs EXCEPT ![r] = "failed"]
  /\ UNCHANGED graph

Publish ==            \* a batch becomes visible in the middle of a run
  /\ \E r \in Runs : runs[r] = "running"
  /\ graph' \in Graph
  /\ UNCHANGED runs

Settle(r, status) ==  \* the row closes, alone or with the last batch
  /\ runs[r] = "running"
  /\ runs' = [runs EXCEPT ![r] = status]
  /\ graph' \in Graph
  /\ graph' = graph \/ Consistent(graph')
  /\ status = "completed" => Consistent(graph')

Sweep(abandoned) ==   \* repair of rows whose process is gone
  /\ \A r \in abandoned : runs[r] = "running"
  /\ runs' = [r \in Runs |-> IF r \in abandoned THEN "failed" ELSE runs[r]]
  /\ UNCHANGED graph

Next == \/ \E r \in Runs : Open(r) \/ Stillborn(r)
        \/ \E r \in Runs, status \in Terminal : Settle(r, status)
        \/ \E abandoned \in SUBSET Runs : Sweep(abandoned)
        \/ Publish

Spec == Init /\ [][Next]_vars
==============================================================================
