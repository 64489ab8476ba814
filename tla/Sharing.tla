------------------------------ MODULE Sharing ------------------------------
(***************************************************************************)
(* Sharing a service document: the owner's dialog                          *)
(* (client/src/components/identity/ShareDialog.tsx), the sharing routes of *)
(* the server (crates/marks-server/src/routes/documents.rs) and the page   *)
(* of a guest who follows a bearer link (the share effects of App.tsx).    *)
(*                                                                         *)
(* The three meet only in the database: the dialog shows what it was told  *)
(* when it opened and what it did since; the guest redeems whatever token  *)
(* its page remembers at whatever document its page is showing.            *)
(***************************************************************************)
EXTENDS Integers, Sequences, FiniteSets

CONSTANTS LinkDocs,  \* document ids
          Shared,    \* the document whose owner opens the dialog
          Accounts,  \* the accounts that are not its owner
          Guest,     \* the account that follows the link
          Roles,     \* what a share may grant
          MaxLinks,  \* links ever minted
          MaxAsks,   \* times the dialog is opened, and operations it starts
          MaxMoves   \* moves of the guest's page

ASSUME SharingAssumption ==
    /\ Shared \in LinkDocs /\ Guest \in Accounts
    /\ "none" \notin Roles
    /\ MaxLinks \in Nat /\ MaxAsks \in Nat /\ MaxMoves \in Nat

VARIABLES
    acl,    \* document_acl of Shared: the unrevoked role of each account
    links,  \* link_grants of Shared: token t is links[t]
    dlg,    \* the owner's dialog, one component instance at a time
    ops,    \* its requests that have not come back
    guestPage, \* the guest's page
    redeems, \* its redeem requests that have not come back
    asks, moves

sharingVars == <<acl, links, dlg, ops, guestPage, redeems, asks, moves>>
owner == <<dlg, ops, asks>>
guest == <<guestPage, redeems, moves>>

NoShare == [a \in Accounts |-> "none"]

\* ShareDialog's state; `at' tells one mounted instance from the next, and
\* the effect's `active' flag is that comparison; `listed' once the list has
\* come, and `drift' once the dialog cannot know what the database holds.
Mounted(n) == [open |-> TRUE, at |-> n, shares |-> NoShare, link |-> 0, busy |-> FALSE,
               listed |-> FALSE, drift |-> FALSE]

SharingInit ==
    /\ acl = NoShare
    /\ links = <<>>
    /\ dlg = [Mounted(0) EXCEPT !.open = FALSE]
    /\ ops = {}
    /\ guestPage = [route |-> "home", hash |-> 0, grant |-> 0, session |-> FALSE,
               redeeming |-> <<>>, dirty |-> FALSE, keep |-> FALSE, back |-> <<>>]
    /\ redeems = {}
    /\ asks = 0 /\ moves = 0

----------------------------------------------------------------------------
(* The server.  Each route is one transaction.                              *)

\* share_put
SharePut(a, r) == acl' = [acl EXCEPT ![a] = r] /\ UNCHANGED links

\* share_delete
ShareDelete(a) == acl' = [acl EXCEPT ![a] = "none"] /\ UNCHANGED links

Dead(ls) == [t \in DOMAIN ls |-> [ls[t] EXCEPT !.live = FALSE]]

\* link_create: the previous links are revoked in the same transaction
LinkCreate(r) ==
    /\ links' = Append(Dead(links), [role |-> r, live |-> TRUE])
    /\ UNCHANGED acl

\* link_revoke
LinkRevoke == links' = Dead(links) /\ UNCHANGED acl

\* redeem_link_grant: of this document, neither revoked nor expired
RedeemableLink(d, t) == d = Shared /\ links[t].live

\* link_redeem: an account that already has a row keeps it
Redeemed(a, t) == IF acl[a] # "none" THEN acl ELSE [acl EXCEPT ![a] = links[t].role]

\* The clock reaches expires_at
ExpireLink(t) ==
    /\ t \in DOMAIN links /\ links[t].live
    /\ links' = [links EXCEPT ![t].live = FALSE]
    /\ UNCHANGED <<acl, owner, guest>>

----------------------------------------------------------------------------
(* The dialog                                                               *)

\* The dialog mounts and asks for the list
OpenShare ==
    /\ ~dlg.open /\ asks < MaxAsks
    /\ dlg' = Mounted(asks)
    /\ ops' = ops \cup {[kind |-> "list", at |-> asks, who |-> Guest, role |-> "none",
                         st |-> "sent", got |-> NoShare, tok |-> 0]}
    /\ asks' = asks + 1
    /\ UNCHANGED <<acl, links, guest>>

CloseShare ==
    /\ dlg.open
    /\ dlg' = [dlg EXCEPT !.open = FALSE]
    /\ UNCHANGED <<acl, links, ops, asks, guest>>

\* grant, revoke, mintLink, revokeLink: each button is disabled while busy,
\* Remove needs a listed account and Revoke link a link this instance minted
Offered(kind, a) ==
    /\ dlg.open /\ ~dlg.busy
    /\ kind = "remove" => dlg.shares[a] # "none"
    /\ kind = "unlink" => dlg.link # 0
    /\ kind = "mint" => Len(links) < MaxLinks
    /\ kind \in {"mint", "unlink"} => a = Guest

Ask(kind, a, r) ==
    /\ Offered(kind, a) /\ asks < MaxAsks
    /\ dlg' = [dlg EXCEPT !.busy = TRUE, !.drift = @ \/ ~dlg.listed]
    /\ ops' = ops \cup {[kind |-> kind, at |-> dlg.at, who |-> a, role |-> r,
                         st |-> "sent", got |-> NoShare, tok |-> 0]}
    /\ asks' = asks + 1
    /\ UNCHANGED <<acl, links, guest>>

\* The list the dialog shows was read before this moment.
ListServed == ~ \E l \in ops : l.kind = "list" /\ l.at = dlg.at /\ l.st = "sent"

\* The server answers one request of the dialog, or of one closed since
Serve(o) ==
    /\ o \in ops /\ o.st = "sent"
    /\ \/ o.kind = "list" /\ UNCHANGED <<acl, links>>
       \/ o.kind = "grant" /\ SharePut(o.who, o.role)
       \/ o.kind = "remove" /\ ShareDelete(o.who)
       \/ o.kind = "mint" /\ Len(links) < MaxLinks /\ LinkCreate(o.role)
       \/ o.kind = "unlink" /\ LinkRevoke
    /\ ops' = (ops \ {o}) \cup {[o EXCEPT !.st = "ok", !.got = acl, !.tok = Len(links')]}
    /\ dlg' = [dlg EXCEPT !.drift = @ \/ (o.kind # "list" /\ o.at # dlg.at /\ ListServed)]
    /\ UNCHANGED <<asks, guest>>

\* ... or the request, or its answer, is lost: notifyError
Lose(o) ==
    /\ o \in ops
    /\ ops' = ops \ {o}
    /\ dlg' = IF o.at # dlg.at THEN dlg
              ELSE [dlg EXCEPT !.drift = TRUE, !.busy = @ /\ o.kind = "list"]
    /\ UNCHANGED <<acl, links, asks, guest>>

\* What an answer does to the instance that asked
AnswerApplied(d, o) ==
    CASE o.kind = "list"   -> [d EXCEPT !.shares = o.got, !.listed = TRUE]
      [] o.kind = "grant"  -> [d EXCEPT !.shares[o.who] = o.role, !.busy = FALSE]
      [] o.kind = "remove" -> [d EXCEPT !.shares[o.who] = "none", !.busy = FALSE]
      [] o.kind = "mint"   -> [d EXCEPT !.link = o.tok, !.busy = FALSE]
      [] o.kind = "unlink" -> [d EXCEPT !.link = 0, !.busy = FALSE]

ShareAnswer(o) ==
    /\ o \in ops /\ o.st = "ok"
    /\ ops' = ops \ {o}
    /\ dlg' = IF dlg.open /\ o.at = dlg.at THEN AnswerApplied(dlg, o) ELSE dlg
    /\ UNCHANGED <<acl, links, asks, guest>>

----------------------------------------------------------------------------
(* The guest's page                                                         *)

\* The link is followed: the page loads, or, when it shows the document
\* already, the hash changes; readDocumentShareHash gives the token
FollowLink(t) ==
    /\ t \in DOMAIN links /\ moves < MaxMoves
    /\ moves' = moves + 1
    /\ guestPage.route = Shared => guestPage.hash # t
    /\ guestPage' = [guestPage EXCEPT !.route = Shared, !.hash = t, !.grant = t, !.dirty = TRUE,
                            !.redeeming = IF guestPage.route = Shared THEN @ ELSE <<>>,
                            !.keep = IF guestPage.route = Shared THEN @ ELSE FALSE,
                            !.back = IF guestPage.route = Shared THEN @ ELSE <<>>]
    /\ redeems' = IF guestPage.route = Shared THEN redeems
                  ELSE {[q EXCEPT !.here = FALSE] : q \in redeems}
    /\ UNCHANGED <<acl, links, owner>>

\* navigate: pushState writes a path without a fragment and fires no hashchange
GuestNavigates(d) ==
    /\ guestPage.route \in LinkDocs /\ guestPage.route # d /\ moves < MaxMoves
    /\ moves' = moves + 1
    /\ guestPage' = [guestPage EXCEPT !.route = d, !.hash = 0, !.dirty = TRUE,
                            !.back = <<guestPage.route, guestPage.hash>>]
    /\ UNCHANGED <<acl, links, redeems, owner>>

\* The Back button: the earlier address, fragment and all, and a hashchange
\* when the fragments differ
Back ==
    /\ guestPage.back # <<>> /\ moves < MaxMoves
    /\ moves' = moves + 1
    /\ guestPage' = [guestPage EXCEPT !.route = guestPage.back[1], !.hash = guestPage.back[2], !.dirty = TRUE,
                            !.grant = IF guestPage.back[2] # guestPage.hash THEN guestPage.back[2] ELSE @,
                            !.back = <<>>]
    /\ UNCHANGED <<acl, links, redeems, owner>>

\* The login dialog settles, or the session ends
Login ==
    /\ ~guestPage.session /\ moves < MaxMoves
    /\ moves' = moves + 1
    /\ guestPage' = [guestPage EXCEPT !.session = TRUE, !.keep = FALSE, !.dirty = TRUE]
    /\ UNCHANGED <<acl, links, redeems, owner>>

GuestLogout ==
    /\ guestPage.session /\ moves < MaxMoves
    /\ moves' = moves + 1
    /\ guestPage' = [guestPage EXCEPT !.session = FALSE, !.dirty = TRUE]
    /\ UNCHANGED <<acl, links, redeems, owner>>

\* The address loses its fragment and the page forgets the token
Stripped(p) == [p EXCEPT !.hash = 0, !.grant = 0, !.dirty = TRUE]

\* The effect that runs after a render whose route, caller or token changed
ShareEffect ==
    LET key == <<guestPage.route, guestPage.grant>> IN
    /\ guestPage.dirty
    /\ \/ /\ guestPage.grant = 0
          /\ guestPage' = [guestPage EXCEPT !.dirty = FALSE]
          /\ UNCHANGED redeems
       \/ /\ guestPage.grant # 0 /\ ~guestPage.session
          /\ guestPage' = [guestPage EXCEPT !.dirty = FALSE, !.keep = TRUE]
          /\ UNCHANGED redeems
       \/ /\ guestPage.grant # 0 /\ guestPage.session /\ guestPage.redeeming = key
          /\ guestPage' = [guestPage EXCEPT !.dirty = FALSE]
          /\ UNCHANGED redeems
       \/ /\ guestPage.grant # 0 /\ guestPage.session /\ guestPage.redeeming # key
          /\ guestPage' = [guestPage EXCEPT !.dirty = FALSE, !.redeeming = key]
          /\ redeems' = redeems \cup {[doc |-> guestPage.route, tok |-> guestPage.grant,
                                       st |-> "sent", here |-> TRUE]}
    /\ UNCHANGED <<acl, links, moves, owner>>

\* link_redeem at the server, for the cookie's account
ServeRedeem(q) ==
    /\ q \in redeems /\ q.st = "sent"
    /\ acl' = IF guestPage.session /\ RedeemableLink(q.doc, q.tok) THEN Redeemed(Guest, q.tok) ELSE acl
    /\ dlg' = [dlg EXCEPT !.drift = @ \/ (acl' # acl /\ ListServed)]
    /\ redeems' = (redeems \ {q}) \cup {[q EXCEPT !.st = "done"]}
    /\ UNCHANGED <<links, guestPage, moves, ops, asks>>

\* Mutant: the mark of the redemption in flight is left behind
MarkKept(p) == Stripped(p)

\* Whatever the answer, granted, refused or lost: the address is stripped, the
\* token forgotten, and the in-flight mark cleared
Settled(p) == [Stripped(p) EXCEPT !.redeeming = <<>>]

AnswerRedeem(q) ==
    /\ q \in redeems
    /\ redeems' = redeems \ {q}
    /\ guestPage' = IF q.here THEN Settled(guestPage) ELSE guestPage
    /\ UNCHANGED <<acl, links, moves, owner>>

----------------------------------------------------------------------------
SharingNext ==
    \/ \E t \in 1..MaxLinks : ExpireLink(t)
    \/ OpenShare
    \/ CloseShare
    \/ \E a \in Accounts : \E r \in Roles : Ask("grant", a, r)
    \/ \E a \in Accounts : Ask("remove", a, "none")
    \/ \E r \in Roles : Ask("mint", Guest, r)
    \/ Ask("unlink", Guest, "none")
    \/ \E o \in ops : Serve(o)
    \/ \E o \in ops : Lose(o)
    \/ \E o \in ops : ShareAnswer(o)
    \/ \E t \in 1..MaxLinks : FollowLink(t)
    \/ \E d \in LinkDocs : GuestNavigates(d)
    \/ Back
    \/ Login
    \/ GuestLogout
    \/ ShareEffect
    \/ \E q \in redeems : ServeRedeem(q)
    \/ \E q \in redeems : AnswerRedeem(q)

SharingSpec == SharingInit /\ [][SharingNext]_sharingVars

----------------------------------------------------------------------------
(* Properties                                                               *)

\* A token the page of a logged-in guest remembers is on its way.
TokenPursued ==
    guestPage.grant # 0 /\ guestPage.session /\ ~guestPage.dirty =>
        \E q \in redeems : q.here /\ q.doc = guestPage.route /\ q.tok = guestPage.grant

\* A dialog at rest lists the database's rows, and offers the newest link.
DialogCurrent ==
    dlg.open /\ dlg.listed /\ ~dlg.busy /\ ~dlg.drift =>
        dlg.shares = acl /\ dlg.link \in {0, Len(links)}

\* Whatever redemptions of other links and documents are in flight, answered, lost
\* or left behind by a reload, and however the guest logs in and out and goes back
\* and forth between them: a token its page remembers is redeemed or being
\* redeemed, never held back by the mark of an earlier one (the redeem effect of
\* App.tsx). And the owner's dialog shows what its operations left in the
\* database, across closing and reopening with requests in flight (ShareDialog).
\* The condition, `drift': the dialog never asks again, so it does not see a guest
\* who joined by the link, an operation of the dialog before it that arrives after
\* its list was read, or its own request whose answer was lost; and a grant
\* made before the list has come is overwritten by it.
SharingInStep == TokenPursued /\ DialogCurrent
=============================================================================
