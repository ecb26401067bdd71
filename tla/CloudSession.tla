---------------------------- MODULE CloudSession ----------------------------
(***************************************************************************)
(* The signed-in session of one installation: AuthService, the database    *)
(* rows of CloudSessionRepository, against the token service of the cloud.  *)
(*                                                                         *)
(* A session lives on one chain of refresh tokens; every refresh consumes  *)
(* the token it presents, and presenting a consumed token again makes the  *)
(* service revoke the session.  The device commits a guard before it sends *)
(* a token, lets concurrent requests share one refresh, and on leaving a   *)
(* session keeps its token in a queue of revocation proofs.  Sign-ins,     *)
(* sign-outs and authorised requests overlap, answers are lost, the app is *)
(* killed between any two transactions, and tokens expire at any moment.   *)
(***************************************************************************)
EXTENDS Naturals, FiniteSets

CONSTANTS
  Calls,         \* identities of authorised requests
  MaxLogins,     \* bound: sign-ins; the i-th one creates session i
  MaxRotations,  \* bound: refreshes of each session
  Budgets        \* what can happen in one behaviour, see Budget

(***************************************************************************)
(* One behaviour has at most so many requests under way together, sign-ins, *)
(* sign-outs, faults (lost answers, rejections and killed apps) and        *)
(* expiries; the clock of a skewed device is unrelated to the service's.   *)
(***************************************************************************)
Budget == [calls : Nat, logins : 0..MaxLogins, logouts : Nat, faults : Nat,
           ages : Nat, skewed : BOOLEAN]

ASSUME SessionAssumption ==
  /\ MaxLogins \in Nat
  /\ MaxRotations \in Nat
  /\ Budgets \subseteq Budget

VARIABLES
  session,     \* service: the sessions and their newest token
  wire,        \* refresh requests sent and not yet processed
  replayed,    \* service: a live session was presented a consumed token
  row,         \* database: the active session, or none
  queue,       \* database: revocation proofs
  gen,         \* AuthService._generation
  begun,       \* number of sign-ins started
  login,       \* verifyEmail calls
  logout,      \* a logout call that waits for its transaction
  logouts,     \* bound: sign-outs so far
  refresh,     \* AuthService._refreshes: one task for each session
  call,        \* _authorized calls
  post,        \* revocation requests under way
  drain,       \* AuthService._revocationDrain
  floor,       \* newest sign-in that a committed sign-out leaves behind
  fate,        \* what became of a session that left the device
  budget,      \* bound: the budget of this behaviour
  faults,      \* bound: faults so far
  ages         \* bound: expiries so far

service == <<session, wire, replayed>>
database == <<row, queue>>
signing == <<gen, begun, login, logout, logouts>>
bounds == <<budget, faults, ages>>
vars == <<service, database, signing, refresh, call, post, drain, floor,
          fate, bounds>>

Sessions == 1..MaxLogins

NoSession == [s |-> 0, k |-> 0, unc |-> FALSE]

NoRefresh == [pc |-> "none", k |-> 0, ans |-> "none"]

NoCall == [pc |-> "idle", s |-> 0, k |-> 0, tries |-> "first"]

NoDrain == [on |-> FALSE, todo |-> {}]

(* A session that can still be refreshed with its newest token.             *)
Live(s) == session[s].st = "live" /\ session[s].lapsed < session[s].k

(* What the device makes of an expiry: its clock need not be right.         *)
LooksExpired(expired) == IF budget.skewed THEN BOOLEAN ELSE {expired}

Fault ==
  /\ faults < budget.faults
  /\ faults' = faults + 1
  /\ UNCHANGED <<budget, ages>>

Age ==
  /\ ages < budget.ages
  /\ ages' = ages + 1
  /\ UNCHANGED <<budget, faults>>

Revoked(s) == [session EXCEPT ![s].st = "revoked"]

(* Local writes run one after the other; only the sign-in that stores its   *)
(* session takes more than one step.  The queue of writes is served in      *)
(* order, here in any order.                                                *)
WriterFree == \A i \in Sessions : login[i].pc # "save"

Init ==
  /\ session = [s \in Sessions |->
                  [st |-> "none", k |-> 1, dead |-> 0, lapsed |-> 0]]
  /\ wire = {}
  /\ replayed = FALSE
  /\ row = NoSession
  /\ queue = {}
  /\ gen = 0
  /\ begun = 0
  /\ login = [i \in Sessions |-> [pc |-> "none", gen |-> 0]]
  /\ logout = [pc |-> "idle", upto |-> 0]
  /\ logouts = 0
  /\ refresh = [s \in Sessions |-> NoRefresh]
  /\ call = [c \in Calls |-> NoCall]
  /\ post = {}
  /\ drain = NoDrain
  /\ floor = 0
  /\ fate = [s \in Sessions |-> "unknown"]
  /\ budget \in Budgets
  /\ faults = 0
  /\ ages = 0

-----------------------------------------------------------------------------
(***************************************************************************)
(* Signing in and out.                                                     *)
(***************************************************************************)

(* Mutated form of Park: the active session stays while its proof is queued. *)
ParkAndStay ==
  /\ row' = row
  /\ queue' = IF row = NoSession THEN queue
              ELSE queue \cup {[s |-> row.s, k |-> row.k]}

(* Leaving the active session moves its token into the queue of proofs, in  *)
(* one transaction; a session has at most one proof.                        *)
Park ==
  /\ row' = NoSession
  /\ queue' = IF row = NoSession THEN queue
              ELSE {p \in queue : p.s # row.s} \cup {[s |-> row.s, k |-> row.k]}

LeaveBehind(upto) == floor' = IF upto > floor THEN upto ELSE floor

VerifyBegins ==
  /\ begun < budget.logins
  /\ begun' = begun + 1
  /\ gen' = gen + 1
  /\ login' = [login EXCEPT ![begun + 1] = [pc |-> "park", gen |-> gen + 1]]
  /\ UNCHANGED <<service, database, logout, logouts, refresh, call, post,
                 drain, floor, fate, bounds>>

VerifyParks(i) ==
  /\ login[i].pc = "park"
  /\ WriterFree
  /\ Park
  /\ LeaveBehind(i - 1)
  /\ login' = [login EXCEPT ![i].pc = "post"]
  /\ UNCHANGED <<service, gen, begun, logout, logouts, refresh, call, post,
                 drain, fate, bounds>>

ServeLogin(i) ==
  /\ login[i].pc = "post"
  /\ session' = [session EXCEPT ![i].st = "live"]
  /\ login' = [login EXCEPT ![i].pc = "got"]
  /\ UNCHANGED <<wire, replayed, database, gen, begun, logout, logouts,
                 refresh, call, post, drain, floor, fate, bounds>>

(* The sign-in fails, or its answer is lost and nobody owns the session.    *)
LoseLogin(i) ==
  /\ login[i].pc = "post"
  /\ Fault
  /\ session' \in {session, [session EXCEPT ![i].st = "live"]}
  /\ login' = [login EXCEPT ![i].pc = "over"]
  /\ UNCHANGED <<wire, replayed, database, gen, begun, logout, logouts,
                 refresh, call, post, drain, floor, fate>>

(* Mutated form of StillWanted: a late sign-in is stored all the same.      *)
StillWantedAlways(i) == TRUE

StillWanted(i) == gen = login[i].gen

VerifyChecks(i) ==
  /\ login[i].pc = "got"
  /\ WriterFree
  /\ login' = [login EXCEPT ![i].pc =
                 IF StillWanted(i) THEN "save" ELSE "discard"]
  /\ UNCHANGED <<service, database, gen, begun, logout, logouts, refresh,
                 call, post, drain, floor, fate, bounds>>

VerifySaves(i) ==
  /\ login[i].pc = "save"
  /\ row' = [s |-> i, k |-> 1, unc |-> FALSE]
  /\ fate' = [fate EXCEPT ![i] = "kept"]
  /\ login' = [login EXCEPT ![i].pc = "over"]
  /\ UNCHANGED <<service, queue, gen, begun, logout, logouts, refresh, call,
                 post, drain, floor, bounds>>

(* The session nobody wants is revoked once; a failure is left to expiry.   *)
VerifyDiscards(i) ==
  /\ login[i].pc = "discard"
  /\ \/ session' = Revoked(i) /\ UNCHANGED bounds
     \/ UNCHANGED session /\ Fault
  /\ login' = [login EXCEPT ![i].pc = "over"]
  /\ UNCHANGED <<wire, replayed, database, gen, begun, logout, logouts,
                 refresh, call, post, drain, floor, fate>>

LogoutBegins ==
  /\ logouts < budget.logouts
  /\ logout.pc = "idle"
  /\ logouts' = logouts + 1
  /\ gen' = gen + 1
  /\ logout' = [pc |-> "called", upto |-> begun]
  /\ UNCHANGED <<service, database, begun, login, refresh, call, post,
                 drain, floor, fate, bounds>>

LogoutParks ==
  /\ logout.pc = "called"
  /\ WriterFree
  /\ Park
  /\ LeaveBehind(logout.upto)
  /\ post' = IF row = NoSession THEN post
             ELSE post \cup {[s |-> row.s, k |-> row.k, by |-> "logout",
                              ans |-> "none"]}
  /\ logout' = [logout EXCEPT !.pc = "idle"]
  /\ UNCHANGED <<service, gen, begun, login, logouts, refresh, call,
                 drain, fate, bounds>>

-----------------------------------------------------------------------------
(***************************************************************************)
(* Revoking a session that was left: POST /v1/auth/logout with its proof,  *)
(* which is accepted until its own expiry, consumed or not.                *)
(***************************************************************************)
ServeRevoke(p) ==
  /\ p.ans = "none"
  /\ LET accepted == p.k > session[p.s].lapsed IN
     /\ session' = IF accepted THEN Revoked(p.s) ELSE session
     /\ post' = (post \ {p}) \cup
          {[p EXCEPT !.ans = IF accepted THEN "revoked" ELSE "denied"]}
  /\ UNCHANGED <<wire, replayed, database, signing, refresh, call, drain,
                 floor, fate, bounds>>

(* Lost on either way, refused for the moment, or not understood.           *)
LoseRevoke(p) ==
  /\ p.ans \in {"none", "revoked", "denied"}
  /\ Fault
  /\ post' = (post \ {p}) \cup {[p EXCEPT !.ans = "lost"]}
  /\ UNCHANGED <<service, database, signing, refresh, call, drain, floor,
                 fate>>

(* Only the service's word on this proof removes it.                        *)
Settled(p) == p.ans \in {"revoked", "denied"}

RevokeEnds(p) ==
  /\ p.ans # "none"
  /\ WriterFree
  /\ queue' = IF Settled(p) THEN queue \ {[s |-> p.s, k |-> p.k]} ELSE queue
  /\ fate' = IF p.ans = "denied"
             THEN [fate EXCEPT ![p.s] = "unconfirmed"] ELSE fate
  /\ post' = post \ {p}
  /\ UNCHANGED <<service, row, signing, refresh, call, drain, floor,
                 bounds>>

(***************************************************************************)
(* retryPendingRevocations: one drain at a time works off the proofs it    *)
(* has read, one after the other, while the queue moves on.                *)
(***************************************************************************)
DrainLists ==
  /\ ~drain.on
  /\ queue # {}
  /\ drain' = [on |-> TRUE, todo |-> queue]
  /\ UNCHANGED <<service, database, signing, refresh, call, post, floor, fate,
                 bounds>>

DrainWaits == \E p \in post : p.by = "drain"

DrainPosts ==
  /\ ~DrainWaits
  /\ \E p \in drain.todo :
       /\ post' = post \cup {[s |-> p.s, k |-> p.k, by |-> "drain",
                              ans |-> "none"]}
       /\ drain' = [drain EXCEPT !.todo = @ \ {p}]
  /\ UNCHANGED <<service, database, signing, refresh, call, floor, fate,
                 bounds>>

DrainEnds ==
  /\ drain.on
  /\ ~DrainWaits
  /\ drain.todo = {}
  /\ drain' = NoDrain
  /\ UNCHANGED <<service, database, signing, refresh, call, post, floor, fate,
                 bounds>>

-----------------------------------------------------------------------------
(***************************************************************************)
(* Refreshing: one task for each session, which concurrent calls join.     *)
(***************************************************************************)

(* Mutated form of TaskEnds: callers are forgotten.                         *)
TaskEndsAlone(s, k) ==
  refresh' = [refresh EXCEPT ![s] = NoRefresh] /\ UNCHANGED call

(* The task ends with token k, or with an error when k is 0; whoever joined *)
(* it goes on with the token or fails.                                      *)
TaskEnds(s, k) ==
  /\ refresh' = [refresh EXCEPT ![s] = NoRefresh]
  /\ call' = [c \in Calls |->
       IF call[c].pc = "join" /\ call[c].s = s
       THEN IF k = 0 THEN NoCall
            ELSE [call[c] EXCEPT !.pc = "send", !.k = k]
       ELSE call[c]]

(* Mutated form of Cleared: a late answer clears whatever is active.        *)
ClearedWhoever(s) == NoSession

(* Clearing a session leaves any other one alone.                           *)
Cleared(s) == IF row.s = s THEN NoSession ELSE row

Stored(s, k) == row.s = s /\ row.k = k

(* Another task may have rotated the token while this caller used it.       *)
RefreshReads(s) ==
  LET t == refresh[s] IN
  /\ t.pc = "read"
  /\ IF row.s # s \/ row.unc
     THEN TaskEnds(s, 0)
     ELSE IF row.k # t.k
     THEN TaskEnds(s, row.k)
     ELSE /\ \E expired \in LooksExpired(row.k <= session[s].lapsed) :
               refresh' = [refresh EXCEPT ![s].pc =
                             IF expired THEN "drop" ELSE "claim"]
          /\ UNCHANGED call
  /\ UNCHANGED <<service, database, signing, post, drain, floor, fate,
                 bounds>>

(* Mutated form of Claimed: the token is sent without a guard on disk.      *)
ClaimedInMemory(s, k) == row

Claimed(s, k) == [row EXCEPT !.unc = TRUE]

(* The guard is on disk before the token is on the wire.                    *)
RefreshClaims(s) ==
  LET t == refresh[s] IN
  /\ t.pc = "claim"
  /\ IF Stored(s, t.k) /\ ~row.unc
     THEN /\ row' = Claimed(s, t.k)
          /\ wire' = wire \cup {[s |-> s, k |-> t.k]}
          /\ refresh' = [refresh EXCEPT ![s].pc = "post"]
          /\ UNCHANGED call
     ELSE /\ TaskEnds(s, IF row.s = s /\ ~row.unc THEN row.k ELSE 0)
          /\ UNCHANGED <<row, wire>>
  /\ UNCHANGED <<session, replayed, queue, signing, post, drain, floor,
                 fate, bounds>>

Waits(t) == refresh[t.s].pc = "post" /\ refresh[t.s].ans = "none"

Answered(t, ans) ==
  refresh' = IF Waits(t) THEN [refresh EXCEPT ![t.s].ans = ans] ELSE refresh

(* The service consumes the newest token of a session that has not expired; *)
(* a consumed one revokes the session.                                      *)
ServeRefresh(t) ==
  LET s == t.s IN
  /\ wire' = wire \ {t}
  /\ IF ~Live(s)
     THEN /\ Answered(t, "refused")
          /\ UNCHANGED <<session, replayed>>
     ELSE IF t.k < session[s].k
     THEN /\ session' = Revoked(s)
          /\ replayed' = TRUE
          /\ Answered(t, "refused")
     ELSE /\ session' = [session EXCEPT ![s].k = @ + 1]
          /\ UNCHANGED replayed
          /\ Answered(t, "rotated")
  /\ UNCHANGED <<database, signing, call, post, drain, floor, fate, bounds>>

(* Malformed or too frequent: the token is not consumed.                    *)
RejectRefresh(t) ==
  /\ Fault
  /\ wire' = wire \ {t}
  /\ Answered(t, "rejected")
  /\ UNCHANGED <<session, replayed, database, signing, call, post, drain,
                 floor, fate>>

(* Mutated form of Kept: the rotated token is stored under the old guard.   *)
KeptGuarded(s, k) == [s |-> s, k |-> k, unc |-> row.unc]

Kept(s, k) == [s |-> s, k |-> k, unc |-> FALSE]

RefreshKeeps(s) ==
  LET t == refresh[s] IN
  /\ t.pc = "post" /\ t.ans = "rotated"
  /\ WriterFree
  /\ IF Stored(s, t.k)
     THEN row' = Kept(s, t.k + 1) /\ TaskEnds(s, t.k + 1)
     ELSE UNCHANGED row /\ TaskEnds(s, 0)
  /\ UNCHANGED <<service, queue, signing, post, drain, floor, fate, bounds>>

(* Known not to have rotated: a later attempt may use the token again.      *)
RefreshUnguards(s) ==
  LET t == refresh[s] IN
  /\ t.pc = "post" /\ t.ans = "rejected"
  /\ WriterFree
  /\ row' = IF Stored(s, t.k) THEN Kept(s, t.k) ELSE row
  /\ TaskEnds(s, 0)
  /\ UNCHANGED <<service, queue, signing, post, drain, floor, fate, bounds>>

(* The service refused the token, or the device's clock says it is over,    *)
(* rightly or not.                                                          *)
RefreshDrops(s) ==
  LET t == refresh[s]
      misjudged == /\ t.pc = "drop"
                   /\ row.s = s
                   /\ row.k > session[s].lapsed
  IN
  /\ t.pc = "drop" \/ t.ans = "refused"
  /\ WriterFree
  /\ row' = Cleared(s)
  /\ fate' = [fate EXCEPT ![s] = IF misjudged THEN "misjudged" ELSE @]
  /\ TaskEnds(s, 0)
  /\ UNCHANGED <<service, queue, signing, post, drain, floor, bounds>>

(* An unknown outcome keeps the guard.                                      *)
LostGuard(s) == row

(* The request or its answer is lost, or the answer cannot be used; what is *)
(* on the wire may still arrive.                                            *)
LoseRefresh(s) ==
  /\ refresh[s].pc = "post"
  /\ Fault
  /\ wire' \in {wire, wire \ {[s |-> s, k |-> refresh[s].k]}}
  /\ row' = LostGuard(s)
  /\ fate' = [fate EXCEPT ![s] = IF @ = "kept" THEN "guarded" ELSE @]
  /\ TaskEnds(s, 0)
  /\ UNCHANGED <<session, replayed, queue, signing, post, drain, floor>>

-----------------------------------------------------------------------------
(***************************************************************************)
(* An authorised request: at most two sends and one refresh.               *)
(***************************************************************************)

Joins(s) == refresh[s].pc # "none"

AskRefresh(c, s, k, tries) ==
  /\ Joins(s) \/ k <= MaxRotations
  /\ call' = [call EXCEPT ![c] = [pc |-> "join", s |-> s, k |-> k,
                                  tries |-> tries]]
  /\ refresh' = IF Joins(s) THEN refresh
                ELSE [refresh EXCEPT ![s] = [pc |-> "read", k |-> k,
                                             ans |-> "none"]]

(* A guarded session is usable only through the refresh that guards it.     *)
CallStarts(c) ==
  /\ call[c].pc = "idle"
  /\ Cardinality({d \in Calls : call[d].pc # "idle"}) < budget.calls
  /\ row # NoSession
  /\ IF row.unc
     THEN Joins(row.s) /\ AskRefresh(c, row.s, row.k, "renewed")
     ELSE \E expired \in LooksExpired(row.k <= session[row.s].dead) :
            IF expired
            THEN AskRefresh(c, row.s, row.k, "renewed")
            ELSE /\ call' = [call EXCEPT ![c] = [pc |-> "send", s |-> row.s,
                                                 k |-> row.k,
                                                 tries |-> "first"]]
                 /\ UNCHANGED refresh
  /\ UNCHANGED <<service, database, signing, post, drain, floor, fate,
                 bounds>>

(* The service answers the request, or deletes the account it asks to.      *)
ServeCall(c) ==
  LET s == call[c].s IN
  /\ call[c].pc = "send"
  /\ \/ /\ session[s].st = "revoked"
        /\ call' = [call EXCEPT ![c].pc = "clear"]
        /\ UNCHANGED session
     \/ /\ session[s].st = "live" /\ call[c].k <= session[s].dead
        /\ call' = [call EXCEPT ![c].pc =
                      IF call[c].tries = "first" THEN "stale" ELSE "quit"]
        /\ UNCHANGED session
     \/ /\ session[s].st = "live" /\ call[c].k > session[s].dead
        /\ \/ call' = [call EXCEPT ![c] = NoCall] /\ UNCHANGED session
           \/ /\ call' = [call EXCEPT ![c].pc = "clear"]
              /\ session' = Revoked(s)
  /\ UNCHANGED <<wire, replayed, database, signing, refresh, post, drain,
                 floor, fate, bounds>>

(* Not answered; an unrecognised 401 after a renewal counts as a refusal.   *)
LoseCall(c) ==
  /\ call[c].pc \in {"send", "stale", "quit", "clear"}
  /\ Fault
  /\ \/ call' = [call EXCEPT ![c] = NoCall]
     \/ call[c].tries = "second" /\ call' = [call EXCEPT ![c].pc = "quit"]
  /\ UNCHANGED <<service, database, signing, refresh, post, drain, floor,
                 fate>>

CallRenews(c) ==
  /\ call[c].pc = "stale"
  /\ AskRefresh(c, call[c].s, call[c].k, "second")
  /\ UNCHANGED <<service, database, signing, post, drain, floor, fate,
                 bounds>>

(* The answer says the session is over, or the renewed access is refused.   *)
CallClears(c) ==
  LET s == call[c].s IN
  /\ call[c].pc \in {"clear", "quit"}
  /\ WriterFree
  /\ row' = Cleared(s)
  /\ fate' = IF call[c].pc = "quit" /\ row.s = s
             THEN [fate EXCEPT ![s] = "quit"] ELSE fate
  /\ call' = [call EXCEPT ![c] = NoCall]
  /\ UNCHANGED <<service, queue, signing, refresh, post, drain, floor,
                 bounds>>

-----------------------------------------------------------------------------
(***************************************************************************)
(* Time, other devices and the end of the process.                         *)
(***************************************************************************)
AccessDies(s) ==
  /\ Age
  /\ session[s].st # "none"
  /\ session[s].dead < session[s].k
  /\ session' = [session EXCEPT ![s].dead = @ + 1]
  /\ UNCHANGED <<wire, replayed, database, signing, refresh, call, post,
                 drain, floor, fate>>

TokenLapses(s) ==
  /\ Age
  /\ session[s].st # "none"
  /\ session[s].lapsed < session[s].k
  /\ session' = [session EXCEPT ![s].lapsed = @ + 1]
  /\ UNCHANGED <<wire, replayed, database, signing, refresh, call, post,
                 drain, floor, fate>>

RevokedElsewhere(s) ==
  /\ Age
  /\ session[s].st = "live"
  /\ session' = Revoked(s)
  /\ UNCHANGED <<wire, replayed, database, signing, refresh, call, post,
                 drain, floor, fate>>

(* The app is killed: the database stays, and what is on the wire may still *)
(* arrive.                                                                  *)
Crash ==
  /\ Fault
  /\ gen' = 0
  /\ login' = [i \in Sessions |->
                 IF login[i].pc = "none" THEN login[i]
                 ELSE [pc |-> "over", gen |-> 0]]
  /\ logout' = [pc |-> "idle", upto |-> 0]
  /\ refresh' = [s \in Sessions |-> NoRefresh]
  /\ call' = [c \in Calls |-> NoCall]
  /\ post' = {}
  /\ drain' = NoDrain
  /\ fate' = [s \in Sessions |->
                IF row.s = s /\ row.unc THEN "guarded" ELSE fate[s]]
  /\ UNCHANGED <<service, database, begun, logouts, floor>>

SignNext ==
  \/ VerifyBegins \/ LogoutBegins \/ LogoutParks
  \/ \E i \in Sessions : \/ VerifyParks(i) \/ ServeLogin(i) \/ LoseLogin(i)
                         \/ VerifyChecks(i) \/ VerifySaves(i)
                         \/ VerifyDiscards(i)

RevokeNext ==
  \/ \E p \in post : ServeRevoke(p) \/ LoseRevoke(p) \/ RevokeEnds(p)
  \/ DrainLists \/ DrainPosts \/ DrainEnds

RefreshNext ==
  \/ \E s \in Sessions : \/ RefreshReads(s) \/ RefreshClaims(s)
                         \/ RefreshKeeps(s) \/ RefreshUnguards(s)
                         \/ RefreshDrops(s) \/ LoseRefresh(s)
  \/ \E t \in wire : ServeRefresh(t) \/ RejectRefresh(t)

CallNext ==
  \E c \in Calls : \/ CallStarts(c) \/ ServeCall(c) \/ LoseCall(c)
                   \/ CallRenews(c) \/ CallClears(c)

ServiceNext ==
  \E s \in Sessions : AccessDies(s) \/ TokenLapses(s) \/ RevokedElsewhere(s)

Next == \/ SignNext \/ RevokeNext \/ RefreshNext \/ CallNext \/ ServiceNext
        \/ Crash

Spec == Init /\ [][Next]_vars

-----------------------------------------------------------------------------
(***************************************************************************)
(* Properties.                                                             *)
(***************************************************************************)

(* No refresh token is ever presented twice to a session that is still      *)
(* alive: not by two concurrent callers, not after a lost answer, not after *)
(* a restart between the request and the commit of its answer.  The         *)
(* service would revoke the session (claimRefresh, _refresh).               *)
NoReplay == ~replayed

(* The outcome of a refresh reaches everything that depends on it.  The     *)
(* guard tells it: a stored token without it is the newest one of its       *)
(* session, so the next refresh will be accepted, and a session is guarded  *)
(* only while its refresh is under way or because the outcome of one was    *)
(* really lost; no path of _doRefresh that knows the outcome leaves the     *)
(* user having to sign in again (replaceTokens).  And every request that    *)
(* joined a refresh waits for one that is still under way: however it ends, *)
(* whoever waits is released with the result (_refresh).                    *)
OutcomeIsKnown ==
  /\ row # NoSession =>
       IF row.unc THEN refresh[row.s].pc = "post" \/ fate[row.s] = "guarded"
       ELSE row.k = session[row.s].k
  /\ \A c \in Calls : call[c].pc = "join" => refresh[call[c].s] # NoRefresh

(* A session that was left stays left: no sign-in whose tokens arrive late  *)
(* and no late refresh brings one back after a committed sign-out, and      *)
(* nothing that revokes sessions, queued, listed or travelling, ever holds  *)
(* the session in use (verifyEmail, logout, logoutLocally,                  *)
(* retryPendingRevocations).                                                *)
LeftStaysLeft ==
  row # NoSession =>
    /\ row.s > floor
    /\ \A p \in queue \cup drain.todo \cup post : p.s # row.s

(* A session the device once stored and the service still honours is the    *)
(* active one, or its proof is queued, or the service has refused that      *)
(* proof, or a renewed request was refused all the same, or the device took *)
(* its token for expired.  In particular no late answer for one session     *)
(* drops another (clear, completeRevocation).                               *)
LeftSessionIsAccountedFor ==
  \A s \in Sessions :
    /\ Live(s)
    /\ fate[s] \in {"kept", "guarded"}
    => \/ row.s = s
       \/ \E p \in queue : p.s = s
=============================================================================
