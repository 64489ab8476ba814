------------------------------ MODULE Identity ------------------------------
(***************************************************************************)
(* Who a browser is to the service: the tabs of one browser with the       *)
(* cookie, the device key and the hints they share, the probe that         *)
(* resolves a tab's caller, the login dialog with its pairing, the phone   *)
(* that confirms it, and the server's scratch, device, session and pairing *)
(* rows.  Identifiers are numbers, 0 stands for none.  A key and the       *)
(* device id it was made for are one number; signatures are the fields     *)
(* they cover, compared with the rows.                                     *)
(***************************************************************************)
EXTENDS Integers, FiniteSets

CONSTANTS
  Tabs,
  MaxScratch,    \* anonymous workspaces created
  MaxPairs,      \* pairings minted
  MaxSessions,   \* sessions issued
  MaxPrincipals, \* accounts created
  MaxKeys,       \* device keys generated by the browser
  MaxLosses,     \* requests or answers lost
  MaxReloads     \* reloads of a tab and logouts

ASSUME IdentityAssumption ==
  {MaxScratch, MaxPairs, MaxSessions, MaxPrincipals, MaxKeys, MaxLosses, MaxReloads} \subseteq Nat

VARIABLES
  tab,     \* per tab: caller, scratch credential, cached session, login dialog, its pairing
  probe,   \* per tab: the stages of two resolveFromNetwork calls
  answer,  \* per tab: the finalize request in flight
  jar,     \* the browser: cookie, session-seen hint, active device and its enrolled flag
  scr,     \* scratch rows with their pending device
  dev,     \* device rows
  sess,    \* session rows
  pair,    \* pairing rows
  phone,   \* the controller phone: its account, the request it shows
  used,    \* rows created and bounds spent
  said     \* history: what tabs were last told, refused binds

identityVars == <<tab, probe, answer, jar, scr, dev, sess, pair, phone, used, said>>
server == <<scr, dev, sess, pair>>

Slots == 1..2
NoTab == [caller |-> "none", scratch |-> 0, csrf |-> 0, flow |-> "idle", pairing |-> 0]
NoScratch == [by |-> 0, window |-> TRUE, pending |-> 0]

IdentityInit ==
  /\ tab = [t \in Tabs |-> NoTab]
  /\ probe = [t \in Tabs |-> [i \in Slots |-> IF i = 1 THEN "session" ELSE "idle"]]
  /\ answer = [t \in Tabs |-> "none"]
  /\ jar = [cookie |-> 0, seen |-> FALSE, key |-> 0, enrolled |-> FALSE]
  /\ scr = [s \in 1..MaxScratch |-> NoScratch]
  /\ dev = [k \in 1..MaxKeys |-> [by |-> 0, revoked |-> FALSE, controller |-> FALSE]]
  /\ sess = [n \in 1..MaxSessions |-> [by |-> 0, key |-> 0, live |-> FALSE]]
  /\ pair = [p \in 1..MaxPairs |-> [scratch |-> 0, key |-> 0, by |-> 0, expired |-> FALSE]]
  /\ \E a \in 0..1 :
       /\ phone = [account |-> a, shows |-> 0]
       /\ used = [scratch |-> 0, pairs |-> 0, sess |-> 0, accounts |-> a, keys |-> 0, faults |-> 0, reloads |-> 0]
  /\ said = [out |-> {}, refused |-> FALSE]

------------------------------------------------------------------------------
(* Server rows. *)

\* cookie_session: the row is live and so is its device.
SessionLive(n) == n # 0 /\ sess[n].live /\ ~dev[sess[n].key].revoked

\* validate_scratch_capability: a claimed workspace has no authority any more.
ScratchLive(s) == s # 0 /\ scr[s].by = 0

Enrolled(k) == k # 0 /\ dev[k].by # 0

\* insert_session, login_response.
Issue(by, k) ==
  /\ used.sess < MaxSessions
  /\ sess' = [sess EXCEPT ![used.sess + 1] = [by |-> by, key |-> k, live |-> TRUE]]

\* persist_scratch_claim, insert_device: both rows must be unowned.
CanClaim(s) == /\ scr[s].pending # 0
               /\ scr[s].by = 0
               /\ ~Enrolled(scr[s].pending)

Claim(s, by, controller) ==
  /\ scr' = [scr EXCEPT ![s].by = by]
  /\ dev' = [dev EXCEPT ![scr[s].pending] = [by |-> by, revoked |-> FALSE, controller |-> controller]]

------------------------------------------------------------------------------
(* Resolving the caller. *)

\* setActiveCaller.
Caller(t, i, record) ==
  /\ tab' = [tab EXCEPT ![t] = record]
  /\ probe' = [probe EXCEPT ![t][i] = "idle"]

\* ensureServiceCaller: the cached caller or the probe in flight is enough, unless forced.
Forced(t) ==
  \E i \in Slots : /\ probe[t][i] = "idle"
                   /\ probe' = [probe EXCEPT ![t][i] = "session"]

Ensure(t) ==
  /\ tab[t].caller = "none" /\ \A i \in Slots : probe[t][i] = "idle"
  /\ probe' = [probe EXCEPT ![t][1] = "session"]
  /\ UNCHANGED <<tab, answer, jar, server, phone, used, said>>

\* GET /v1/auth/session.
ProbeSession(t, i) ==
  /\ probe[t][i] = "session"
  /\ IF SessionLive(jar.cookie)
     THEN /\ Caller(t, i, [tab[t] EXCEPT !.caller = "session", !.scratch = 0, !.csrf = jar.cookie])
          /\ jar' = [jar EXCEPT !.seen = TRUE]
     ELSE /\ probe' = [probe EXCEPT ![t][i] = "redeem"]
          /\ UNCHANGED <<tab, jar>>
  /\ UNCHANGED <<answer, server, phone, used, said>>

\* The first request fails: what the tab holds decides.
ProbeOffline(t, i) ==
  /\ probe[t][i] = "session" /\ used.faults < MaxLosses
  /\ Caller(t, i, CASE tab[t].scratch # 0 -> [tab[t] EXCEPT !.caller = "scratch"]
                    [] tab[t].scratch = 0 /\ jar.seen -> [tab[t] EXCEPT !.caller = "session"]
                    [] OTHER -> tab[t])
  /\ used' = [used EXCEPT !.faults = @ + 1]
  /\ UNCHANGED <<answer, jar, server, phone, said>>

\* redeemEnrolledDevice: the local flag first, then challenge and proof.
Redeemable == jar.enrolled /\ Enrolled(jar.key) /\ ~dev[jar.key].revoked

ProbeRedeem(t, i) ==
  /\ probe[t][i] = "redeem"
  /\ IF Redeemable
     THEN /\ Issue(dev[jar.key].by, jar.key)
          /\ used' = [used EXCEPT !.sess = @ + 1]
          /\ jar' = [jar EXCEPT !.cookie = used.sess + 1, !.seen = TRUE]
          /\ Caller(t, i, [tab[t] EXCEPT !.caller = "session", !.scratch = 0, !.csrf = used.sess + 1])
     ELSE /\ probe' = [probe EXCEPT ![t][i] = "scratch"]
          /\ UNCHANGED <<tab, sess, jar, used>>
  /\ UNCHANGED <<answer, scr, dev, pair, phone, said>>

\* The tab's own workspace, or a new one.
ProbeScratch(t, i) ==
  /\ probe[t][i] = "scratch"
  /\ \/ /\ tab[t].scratch # 0
        /\ Caller(t, i, [tab[t] EXCEPT !.caller = "scratch"])
        /\ UNCHANGED used
     \/ /\ tab[t].scratch = 0 /\ used.scratch < MaxScratch
        /\ Caller(t, i, [tab[t] EXCEPT !.caller = "scratch", !.scratch = used.scratch + 1])
        /\ used' = [used EXCEPT !.scratch = @ + 1]
  /\ UNCHANGED <<answer, jar, server, phone, said>>

\* authenticatedResponse: a 401 to a scratch header forces a probe.
Refused(t) ==
  /\ tab[t].caller = "scratch" /\ ~ScratchLive(tab[t].scratch)
  /\ Forced(t)
  /\ UNCHANGED <<tab, answer, jar, server, phone, used, said>>

\* csrfRequest: a session caller without its token probes for one.
NeedsCsrf(t) ==
  /\ tab[t].caller = "session" /\ tab[t].csrf = 0
  /\ Forced(t)
  /\ UNCHANGED <<tab, answer, jar, server, phone, used, said>>

------------------------------------------------------------------------------
(* Logging in. *)

\* getOrCreatePendingDevice.
Pending == IF jar.key # 0 THEN jar.key ELSE used.keys + 1

\* pending_devices.id is a primary key, the upsert only covers scratch_id.
BindAccepted(s) ==
  ScratchLive(s) /\ \A o \in DOMAIN scr : o # s => scr[o].pending # Pending

Bound(t) ==
  /\ jar' = [jar EXCEPT !.key = Pending]
  /\ used' = [used EXCEPT !.keys = IF jar.key = 0 THEN @ + 1 ELSE @]
  /\ jar.key = 0 => used.keys < MaxKeys
  /\ scr' = [scr EXCEPT ![tab[t].scratch].pending = IF BindAccepted(tab[t].scratch) THEN Pending ELSE @]
  /\ said' = [said EXCEPT !.refused = @ \/ (ScratchLive(tab[t].scratch) /\ ~BindAccepted(tab[t].scratch))]

\* bindPendingDevice at first paint.
BindOnPaint(t) ==
  /\ tab[t].caller = "scratch" /\ tab[t].flow = "idle"
  /\ scr[tab[t].scratch].pending = 0
  /\ Bound(t)
  /\ UNCHANGED <<tab, probe, answer, dev, sess, pair, phone>>

OpenLogin(t) ==
  /\ tab[t].flow = "idle" /\ tab[t].caller = "scratch"
  /\ tab' = [tab EXCEPT ![t].flow = "bind"]
  /\ UNCHANGED <<probe, answer, jar, server, phone, used, said>>

Bind(t) ==
  /\ tab[t].flow = "bind"
  /\ IF tab[t].caller = "scratch"
     THEN /\ Bound(t)
          /\ tab' = [tab EXCEPT ![t].flow = IF BindAccepted(tab[t].scratch) THEN "mint" ELSE "failed"]
     ELSE /\ tab' = [tab EXCEPT ![t].flow = "failed"]
          /\ UNCHANGED <<jar, used, scr, said>>
  /\ UNCHANGED <<probe, answer, dev, sess, pair, phone>>

\* mintPairing, pairing_create.
Mint(t) ==
  /\ tab[t].flow = "mint"
  /\ \/ /\ tab[t].caller = "scratch" /\ ScratchLive(tab[t].scratch) /\ used.pairs < MaxPairs
        /\ pair' = [pair EXCEPT ![used.pairs + 1] =
              [scratch |-> tab[t].scratch, key |-> scr[tab[t].scratch].pending, by |-> 0, expired |-> FALSE]]
        /\ tab' = [tab EXCEPT ![t].flow = "wait", ![t].pairing = used.pairs + 1]
        /\ used' = [used EXCEPT !.pairs = @ + 1]
     \/ /\ tab[t].caller # "scratch" \/ ~ScratchLive(tab[t].scratch)
        /\ tab' = [tab EXCEPT ![t].flow = "failed"]
        /\ UNCHANGED <<pair, used>>
  /\ UNCHANGED <<probe, answer, jar, scr, dev, sess, phone, said>>

\* pollPairingUntilSettled: one finalize request at a time, until the expiry.
Poll(t) ==
  /\ tab[t].flow = "wait" /\ answer[t] = "none"
  /\ IF tab[t].caller = "scratch" /\ ~pair[tab[t].pairing].expired
     THEN answer' = [answer EXCEPT ![t] = "sent"] /\ UNCHANGED tab
     ELSE tab' = [tab EXCEPT ![t].flow = "failed"] /\ UNCHANGED answer
  /\ UNCHANGED <<probe, jar, server, phone, used, said>>

\* markActiveDeviceEnrolled: the IndexedDB write may fail and is only logged.
Stored == {b \in BOOLEAN : b \/ used.faults < MaxLosses}

\* validate_claimed_scratch_capability, authorize_pairing_finalize.
CanFinalize(s, p) ==
  /\ scr[s].by # 0 /\ scr[s].window
  /\ scr[s].pending = pair[p].key
  /\ pair[p].by = scr[s].by /\ pair[p].scratch = s
  /\ dev[pair[p].key].by = scr[s].by /\ ~dev[pair[p].key].revoked

\* finalizePairing and its answer; a lost one leaves the session on the server.
Finalize(t) ==
  /\ answer[t] = "sent"
  /\ LET s == tab[t].scratch
         p == tab[t].pairing
         n == used.sess + 1
     IN IF s # 0 /\ CanFinalize(s, p)
        THEN /\ Issue(scr[s].by, pair[p].key)
             /\ \/ /\ tab' = [tab EXCEPT ![t].caller = "session", ![t].csrf = n, ![t].flow = "kept"]
                   /\ \E stored \in Stored :
                        /\ jar' = [jar EXCEPT !.cookie = n, !.seen = TRUE,
                                              !.enrolled = IF stored THEN jar.key = pair[p].key ELSE @]
                        /\ used' = [used EXCEPT !.sess = n, !.faults = IF stored THEN @ ELSE @ + 1]
                \/ /\ used.faults < MaxLosses
                   /\ used' = [used EXCEPT !.sess = n, !.faults = @ + 1]
                   /\ UNCHANGED <<tab, jar>>
        ELSE UNCHANGED <<sess, tab, jar, used>>
  /\ answer' = [answer EXCEPT ![t] = "none"]
  /\ UNCHANGED <<probe, scr, dev, pair, phone, said>>

\* selfBootstrap: bind, then the pending key becomes the first controller.
KeepHere(t) ==
  /\ tab[t].flow \in {"bind", "mint", "wait", "failed"} /\ tab[t].caller = "scratch"
  /\ LET s == tab[t].scratch
         n == used.sess + 1
         a == used.accounts + 1
     IN /\ scr[s].pending # 0 /\ CanClaim(s) /\ used.accounts < MaxPrincipals
        /\ Claim(s, a, TRUE)
        /\ Issue(a, scr[s].pending)
        /\ \/ /\ tab' = [tab EXCEPT ![t].caller = "session", ![t].csrf = n, ![t].scratch = 0, ![t].flow = "kept"]
              /\ \E stored \in Stored :
                   /\ jar' = [jar EXCEPT !.cookie = n, !.seen = TRUE, !.enrolled = stored \/ @]
                   /\ used' = [used EXCEPT !.sess = n, !.accounts = a, !.faults = IF stored THEN @ ELSE @ + 1]
              /\ answer' = [answer EXCEPT ![t] = "none"]
           \/ /\ used.faults < MaxLosses
              /\ used' = [used EXCEPT !.sess = n, !.accounts = a, !.faults = @ + 1]
              /\ UNCHANGED <<tab, jar, answer>>
  /\ UNCHANGED <<probe, pair, phone, said>>

\* The dialog is closed: its requests are aborted.
CloseLogin(t) ==
  /\ tab[t].flow # "idle"
  /\ tab' = [tab EXCEPT ![t].flow = "idle", ![t].pairing = 0]
  /\ answer' = [answer EXCEPT ![t] = "none"]
  /\ UNCHANGED <<probe, jar, server, phone, used, said>>

------------------------------------------------------------------------------
(* The phone. *)

\* inspectPairing, lookupPairingWords.
Inspect(p) ==
  /\ p <= used.pairs /\ ~pair[p].expired /\ pair[p].by = 0
  /\ phone' = [phone EXCEPT !.shows = p]
  /\ UNCHANGED <<tab, probe, answer, jar, server, used, said>>

\* unlock_pairing, pairing_matches_pending.
Unlocked(p) == p # 0 /\ ~pair[p].expired /\ pair[p].by = 0 /\ scr[pair[p].scratch].pending = pair[p].key

\* bootstrapPairing: a new account, whatever the phone was before.
Bootstrap ==
  /\ Unlocked(phone.shows) /\ CanClaim(pair[phone.shows].scratch) /\ used.accounts < MaxPrincipals
  /\ Claim(pair[phone.shows].scratch, used.accounts + 1, FALSE)
  /\ pair' = [pair EXCEPT ![phone.shows].by = used.accounts + 1]
  /\ phone' = [phone EXCEPT !.account = used.accounts + 1]
  /\ used' = [used EXCEPT !.accounts = @ + 1]
  /\ UNCHANGED <<tab, probe, answer, jar, sess, said>>

\* approvePairing: the account the phone controls.
Approve ==
  /\ phone.account # 0 /\ Unlocked(phone.shows) /\ CanClaim(pair[phone.shows].scratch)
  /\ Claim(pair[phone.shows].scratch, phone.account, FALSE)
  /\ pair' = [pair EXCEPT ![phone.shows].by = phone.account]
  /\ UNCHANGED <<tab, probe, answer, jar, sess, phone, used, said>>

\* Mutant: the device's sessions survive its revocation.
RevokedSessionsKept(k) == sess

RevokedSessions(k) == [n \in DOMAIN sess |-> IF sess[n].key = k THEN [sess[n] EXCEPT !.live = FALSE] ELSE sess[n]]

\* device_revoke, by a controller of the same account.
PhoneRevokes(k) ==
  /\ phone.account # 0 /\ dev[k].by = phone.account /\ ~dev[k].revoked
  /\ dev' = [dev EXCEPT ![k].revoked = TRUE]
  /\ sess' = RevokedSessions(k)
  /\ UNCHANGED <<tab, probe, answer, jar, scr, pair, phone, used, said>>

------------------------------------------------------------------------------
(* Logging out, reloading, time. *)

\* logout, then the application probes anew.
Logout(t) ==
  /\ tab[t].caller = "session" /\ tab[t].csrf # 0 /\ tab[t].csrf = jar.cookie
  /\ used.reloads < MaxReloads
  /\ used' = [used EXCEPT !.reloads = @ + 1]
  /\ sess' = [sess EXCEPT ![jar.cookie].live = FALSE]
  /\ jar' = [jar EXCEPT !.cookie = 0, !.seen = FALSE]
  /\ tab' = [tab EXCEPT ![t].caller = "none", ![t].csrf = 0, ![t].flow = "idle"]
  /\ Forced(t)
  /\ said' = [said EXCEPT !.out = @ \union {t}]
  /\ UNCHANGED <<answer, scr, dev, pair, phone>>

\* revokeDevice on this browser: only a controller may; the cookie stays.
RemoveThisDevice(t) ==
  /\ tab[t].caller = "session" /\ tab[t].csrf # 0 /\ tab[t].csrf = jar.cookie
  /\ SessionLive(jar.cookie) /\ dev[sess[jar.cookie].key].controller
  /\ dev' = [dev EXCEPT ![sess[jar.cookie].key].revoked = TRUE]
  /\ sess' = RevokedSessions(sess[jar.cookie].key)
  /\ Forced(t)
  /\ UNCHANGED <<tab, answer, jar, scr, pair, phone, used, said>>

\* Memory is gone; sessionStorage, the cookie and IndexedDB stay.
Reload(t) ==
  /\ used.reloads < MaxReloads
  /\ used' = [used EXCEPT !.reloads = @ + 1]
  /\ tab' = [tab EXCEPT ![t] = [NoTab EXCEPT !.scratch = tab[t].scratch]]
  /\ probe' = [probe EXCEPT ![t] = [i \in Slots |-> IF i = 1 THEN "session" ELSE "idle"]]
  /\ answer' = [answer EXCEPT ![t] = "none"]
  /\ UNCHANGED <<jar, server, phone, said>>

\* The two-minute pairing and the five-minute finalize window run out.
Expire(p) ==
  /\ p <= used.pairs /\ ~pair[p].expired
  /\ pair' = [pair EXCEPT ![p].expired = TRUE]
  /\ scr' = [scr EXCEPT ![pair[p].scratch].window = IF pair[p].by # 0 THEN FALSE ELSE @]
  /\ UNCHANGED <<tab, probe, answer, jar, dev, sess, phone, used, said>>

TabStep(t) ==
  \/ Ensure(t) \/ Refused(t) \/ NeedsCsrf(t)
  \/ \E i \in Slots : ProbeSession(t, i) \/ ProbeOffline(t, i) \/ ProbeRedeem(t, i) \/ ProbeScratch(t, i)
  \/ BindOnPaint(t) \/ OpenLogin(t) \/ Bind(t) \/ Mint(t) \/ Poll(t) \/ Finalize(t)
  \/ KeepHere(t) \/ CloseLogin(t) \/ Logout(t) \/ RemoveThisDevice(t) \/ Reload(t)

IdentityNext ==
  \/ \E t \in Tabs : TabStep(t)
  \/ \E p \in 1..MaxPairs : Inspect(p) \/ Expire(p)
  \/ Bootstrap \/ Approve
  \/ \E k \in 1..MaxKeys : PhoneRevokes(k)

IdentitySpec == IdentityInit /\ [][IdentityNext]_identityVars

------------------------------------------------------------------------------
(* Properties. *)

\* A revoked device has no live session: not one of before, nor one that a
\* pending finalize or the silent recovery brings.
RevokedLocked == \A n \in DOMAIN sess : sess[n].live => ~dev[sess[n].key].revoked
==============================================================================
