----------------------------- MODULE RequestSlot -----------------------------
(***************************************************************************)
(* What the analyze lock and its marker file amount to for whoever asks    *)
(* for a refresh: a mailbox with one slot and one reader.  Any number of   *)
(* requests share the slot; the reader empties it before it looks at the   *)
(* tree, so what it then reads is as new as anything it was asked for.     *)
(* Only a reader that fails in between forfeits what it had taken.         *)
(***************************************************************************)
EXTENDS Naturals

VARIABLES
  now,        \* the newest content of the tree
  slot,       \* a request waits
  reading,    \* somebody has turned to the slot and not yet read
  debt,       \* the newest content that was asked for and has not been read, or 0
  got,        \* the newest content read
  published   \* the content of the index

vars == <<now, slot, reading, debt, got, published>>

Init == /\ now = 0 /\ debt = 0 /\ got = 0 /\ published = 0
        /\ slot = FALSE /\ reading = FALSE

Save ==
  /\ now' = now + 1
  /\ UNCHANGED <<slot, reading, debt, got, published>>

Ask == \E wanted \in 0 .. now :
  /\ slot' = TRUE
  /\ debt' = IF wanted > got /\ wanted > debt THEN wanted ELSE debt
  /\ UNCHANGED <<now, reading, got, published>>

(* The slot is emptied, or cannot be. *)
Take ==
  /\ ~reading /\ reading' = TRUE
  /\ slot' \in {FALSE, slot}
  /\ UNCHANGED <<now, debt, got, published>>

Read ==
  /\ reading /\ reading' = FALSE
  /\ got' = now /\ debt' = 0
  /\ UNCHANGED <<now, slot, published>>

Forfeit ==
  /\ reading /\ reading' = FALSE
  /\ debt' = 0
  /\ UNCHANGED <<now, slot, got, published>>

Publish ==
  /\ ~reading
  /\ published' = got
  /\ UNCHANGED <<now, slot, reading, debt, got>>

Next == Save \/ Ask \/ Take \/ Read \/ Forfeit \/ Publish

Spec == Init /\ [][Next]_vars
==============================================================================
