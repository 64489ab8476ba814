--------------------------- MODULE DurableDocument ---------------------------
(***************************************************************************)
(* What the server promises about one document, whatever rooms come and    *)
(* go: the stored operations only grow, and clients are only ever shown    *)
(* what is stored.                                                         *)
(***************************************************************************)
VARIABLES
  stored,     \* operations a restart would recover
  published   \* operations some client has seen acknowledged, relayed or synced

Init == stored = {} /\ published = {}

\* A batch becomes durable before anyone hears of it.
Store ==
  /\ stored \subseteq stored'
  /\ published' = published

\* Receipts, relays and joins show stored operations.
Publish ==
  /\ stored' = stored
  /\ published \subseteq published'
  /\ published' \subseteq stored

Next == Store \/ Publish

Spec == Init /\ [][Next]_<<stored, published>>
=============================================================================
