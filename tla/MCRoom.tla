------------------------------- MODULE MCRoom -------------------------------
(* Small instances of Room. *)
EXTENDS Room, TLC

CONSTANTS a1, a2, c1, c2, t1, t2

TwoEditors == (c1 :> a1) @@ (c2 :> a2)
OneTab == c1 :> a1

AllEdit == (a1 :> "editor") @@ (a2 :> "editor")
OwnEdit == a1 :> "editor"

Ids == {"m1", "m2", "m3"}

First == [id |-> "m1", kind |-> "update", ops |-> {<<a1, 1>>}]
\* An edit that overtook the ones before it.
Ahead == [id |-> "m2", kind |-> "update", ops |-> {<<a1, 3>>}]
\* The id of First with other bytes.
Reused == [id |-> "m1", kind |-> "update", ops |-> {<<a1, 4>>}]
\* A recovery snapshot of a2 that repeats a1's edit.
Recovery == [id |-> "m3", kind |-> "snapshot", ops |-> {<<a1, 1>>, <<a2, 1>>}]
\* An edit of a2.
Peer == [id |-> "m2", kind |-> "update", ops |-> {<<a2, 1>>}]

\* First's edit, sent again under a new id after the client lost its receipt.
Again == [id |-> "m2", kind |-> "update", ops |-> {<<a1, 1>>}]

OneEdit == {First}
Resent == {First, Again}
Apart == {First, Peer}
SharedRetries == {First, Reused, Ahead, Recovery}

TaskSymmetry == Permutations(Task)
=============================================================================
