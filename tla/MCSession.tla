------------------------------ MODULE MCSession ------------------------------
(*****************************************************************************)
(* How a page gets to a document and stays in it: the connection of an open  *)
(* session, the opening of a document, the identity of the browser, the      *)
(* catalog, share links and presence, all extended. The modules share no     *)
(* state: each behaviour moves one of them and leaves the others as they     *)
(* start, so a run explores the sum of their states.                         *)
(*****************************************************************************)
EXTENDS Connection, Opening, Identity, Catalog, Sharing, Presence

CONSTANTS
  Parts   \* the components a run moves, one in each behaviour

VARIABLES
  part    \* the component whose steps this behaviour takes

\* Two pages of one browser, which have one site, and one of another.
ThreeTabs == {"pa", "pb", "po"}
ThreeSites == [pa |-> 1, pb |-> 1, po |-> 2]

AllInit ==
  /\ part \in Parts
  /\ Init
  /\ IdentityInit
  /\ part # "identity" => phone.account = 0
  /\ OpeningInit
  /\ CatalogInit
  /\ SharingInit
  /\ PresenceInit

AllNext ==
  \/ /\ part = "connection" /\ Next
     /\ UNCHANGED <<part, identityVars, openingVars, catalogVars, sharingVars,
                  presenceVars>>
  \/ /\ part = "identity" /\ IdentityNext
     /\ UNCHANGED <<part, vars, openingVars, catalogVars, sharingVars,
                  presenceVars>>
  \/ /\ part = "opening" /\ OpeningNext
     /\ UNCHANGED <<part, vars, identityVars, catalogVars, sharingVars,
                  presenceVars>>
  \/ /\ part = "catalog" /\ CatalogNext
     /\ UNCHANGED <<part, vars, identityVars, openingVars, sharingVars,
                  presenceVars>>
  \/ /\ part = "sharing" /\ SharingNext
     /\ UNCHANGED <<part, vars, identityVars, openingVars, catalogVars,
                  presenceVars>>
  \/ /\ part = "presence" /\ PresenceNext
     /\ UNCHANGED <<part, vars, identityVars, openingVars, catalogVars,
                  sharingVars>>

AllVars == <<part, vars, identityVars, openingVars, catalogVars, sharingVars,
             presenceVars>>

AllSpec == AllInit /\ [][AllNext]_AllVars
=============================================================================
