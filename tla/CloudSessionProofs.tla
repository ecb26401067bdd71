------------------------- MODULE CloudSessionProofs -------------------------
(***************************************************************************)
(* The theorems of CloudSession, for any number of requests, sign-ins and  *)
(* rotations and any budget of faults: no token is presented twice, the    *)
(* outcome of a refresh reaches whoever depends on it, a session that was  *)
(* left stays left, and none is lost without account.                      *)
(***************************************************************************)
EXTENDS CloudSession, TLAPS

-----------------------------------------------------------------------------
(***************************************************************************)
(* Types.                                                                  *)
(***************************************************************************)
LoginStep == {"none", "park", "post", "got", "save", "discard", "over"}

Login == [pc : LoginStep, gen : Nat]

SessionState == [st : {"none", "live", "revoked"}, k : Nat \ {0},
                 dead : Nat, lapsed : Nat]

Task == [pc : {"none", "read", "claim", "drop", "post"}, k : Nat,
         ans : {"none", "rotated", "rejected", "refused"}]

Caller == {NoCall} \cup
          [pc : {"join", "send", "stale", "quit", "clear"}, s : Sessions,
           k : Nat, tries : {"first", "renewed", "second"}]

Token == [s : Sessions, k : Nat \ {0}]

Posting == [s : Sessions, k : Nat \ {0}, by : {"logout", "drain"},
            ans : {"none", "revoked", "denied", "lost"}]

Row == {NoSession} \cup [s : Sessions, k : Nat \ {0}, unc : BOOLEAN]

Fates == {"unknown", "kept", "guarded", "unconfirmed", "misjudged", "quit"}

(* The shape of every variable.                                             *)
Typed ==
  /\ session \in [Sessions -> SessionState]
  /\ wire \subseteq Token
  /\ row \in Row
  /\ queue \subseteq Token
  /\ gen \in Nat /\ begun \in Nat
  /\ login \in [Sessions -> Login]
  /\ logout \in [pc : {"idle", "called"}, upto : Nat]
  /\ refresh \in [Sessions -> Task]
  /\ call \in [Calls -> Caller]
  /\ post \subseteq Posting
  /\ drain \in [on : BOOLEAN, todo : SUBSET Token]
  /\ floor \in Nat
  /\ fate \in [Sessions -> Fates]
  /\ budget \in Budget

(* Sessions are numbered from one; number zero is no session.               *)
LEMMA Numbers ==
  /\ 0 \notin Sessions /\ Sessions \subseteq Nat
  /\ NoSession.s = 0 /\ NoSession \in Row
  /\ NoCall.s = 0 /\ NoCall.pc = "idle" /\ NoCall \in Caller
  /\ NoRefresh \in Task /\ NoRefresh.pc = "none" /\ NoRefresh.ans = "none"
BY SessionAssumption DEF Sessions, NoSession, Row, NoCall, Caller, NoRefresh, Task

(* A caller at work has a session.                                          *)
LEMMA CallerFacts ==
  ASSUME Typed, NEW c \in Calls
  PROVE  /\ call[c] \in Caller
         /\ call[c].pc # "idle" => call[c].s \in Sessions /\ call[c] # NoCall
BY Numbers DEF Typed, Caller

(* The active session has a number and a token.                             *)
LEMMA RowFacts ==
  ASSUME Typed, row # NoSession
  PROVE  /\ row.s \in Sessions /\ row.k \in Nat \ {0} /\ row.unc \in BOOLEAN
         /\ [s |-> row.s, k |-> row.k] \in Token
BY DEF Typed, Row, Token

-----------------------------------------------------------------------------
(***************************************************************************)
(* What the assignments of the actions do to one entry of a function.      *)
(***************************************************************************)

(* A sign-in moves to its next step.                                        *)
LEMMA LoginMoved ==
  ASSUME Typed, NEW i \in Sessions, NEW x \in LoginStep,
         login' = [login EXCEPT ![i].pc = x]
  PROVE  /\ login' \in [Sessions -> Login]
         /\ login'[i].pc = x /\ login'[i].gen = login[i].gen
         /\ \A j \in Sessions \ {i} : login'[j] = login[j]
BY DEF Typed, Login

(* A session changes its state at the service.                              *)
LEMMA SessionMoved ==
  ASSUME Typed, NEW s \in Sessions, NEW x \in {"live", "revoked"},
         session' = [session EXCEPT ![s].st = x]
  PROVE  /\ session' \in [Sessions -> SessionState]
         /\ session'[s].st = x /\ session'[s].k = session[s].k
         /\ session'[s].lapsed = session[s].lapsed
         /\ \A j \in Sessions \ {s} : session'[j] = session[j]
<1>1. session \in [Sessions -> SessionState]
  BY DEF Typed
<1> QED
  BY <1>1 DEF SessionState

(* The service consumes the newest token of a session.                      *)
LEMMA SessionRotated ==
  ASSUME Typed, NEW s \in Sessions,
         session' = [session EXCEPT ![s].k = @ + 1]
  PROVE  /\ session' \in [Sessions -> SessionState]
         /\ session'[s].st = session[s].st /\ session'[s].k = session[s].k + 1
         /\ session'[s].lapsed = session[s].lapsed
         /\ \A j \in Sessions \ {s} : session'[j] = session[j]
<1>1. session \in [Sessions -> SessionState]
  BY DEF Typed
<1> QED
  BY <1>1 DEF SessionState

(* A session grows older, or is revoked, and keeps its newest token.        *)
Aged(s) ==
  /\ session' \in [Sessions -> SessionState]
  /\ session'[s].k = session[s].k
  /\ session'[s].lapsed >= session[s].lapsed
  /\ session'[s].st \in {session[s].st, "revoked"}
  /\ \A j \in Sessions \ {s} : session'[j] = session[j]

(* Revoking, expiring and doing nothing are growing older.                  *)
LEMMA SessionAged ==
  ASSUME Typed, NEW s \in Sessions,
         \/ session' = session
         \/ session' = Revoked(s)
         \/ session' = [session EXCEPT ![s].dead = @ + 1]
         \/ session' = [session EXCEPT ![s].lapsed = @ + 1]
  PROVE  Aged(s)
<1>1. session \in [Sessions -> SessionState]
  BY DEF Typed
<1>2. CASE session' = session
  BY <1>1, <1>2 DEF Aged, SessionState
<1>3. CASE session' = Revoked(s)
  BY <1>1, <1>3 DEF Aged, SessionState, Revoked
<1>4. CASE session' = [session EXCEPT ![s].dead = @ + 1]
  BY <1>1, <1>4 DEF Aged, SessionState
<1>5. CASE session' = [session EXCEPT ![s].lapsed = @ + 1]
  BY <1>1, <1>5 DEF Aged, SessionState
<1> QED
  BY <1>2, <1>3, <1>4, <1>5

(* A refresh task moves to its next step.                                   *)
LEMMA TaskMoved ==
  ASSUME Typed, NEW s \in Sessions, NEW x \in {"claim", "drop", "post"},
         refresh' = [refresh EXCEPT ![s].pc = x]
  PROVE  /\ refresh' \in [Sessions -> Task]
         /\ refresh'[s].pc = x /\ refresh'[s].k = refresh[s].k
         /\ refresh'[s].ans = refresh[s].ans
         /\ \A j \in Sessions \ {s} : refresh'[j] = refresh[j]
<1>1. refresh \in [Sessions -> Task]
  BY DEF Typed
<1> QED
  BY <1>1 DEF Task

(* A refresh task that still waits gets its answer.                         *)
LEMMA TaskAnswered ==
  ASSUME Typed, NEW t \in wire, NEW x \in {"rotated", "rejected", "refused"},
         Answered(t, x)
  PROVE  /\ refresh' \in [Sessions -> Task]
         /\ refresh'[t.s].pc = refresh[t.s].pc /\ refresh'[t.s].k = refresh[t.s].k
         /\ refresh'[t.s].ans = IF Waits(t) THEN x ELSE refresh[t.s].ans
         /\ \A j \in Sessions \ {t.s} : refresh'[j] = refresh[j]
<1>1. refresh \in [Sessions -> Task] /\ t.s \in Sessions
  BY DEF Typed, Token
<1>2. CASE ~Waits(t)
  BY <1>1, <1>2 DEF Answered
<1>3. CASE Waits(t)
  <2>1. refresh' = [refresh EXCEPT ![t.s].ans = x]
    BY <1>3 DEF Answered
  <2> DEFINE s == t.s
  <2>2. refresh' = [refresh EXCEPT ![s].ans = x] /\ s \in Sessions
    BY <1>1, <2>1
  <2> HIDE DEF s
  <2>3. /\ refresh' \in [Sessions -> Task]
        /\ refresh'[s].pc = refresh[s].pc /\ refresh'[s].k = refresh[s].k
        /\ refresh'[s].ans = x
        /\ \A j \in Sessions \ {s} : refresh'[j] = refresh[j]
    BY <1>1, <2>2 DEF Task
  <2> QED
    BY <1>3, <2>3 DEF s
<1> QED
  BY <1>2, <1>3

(* A refresh task ends: whoever joined it fails or goes on to send.         *)
Done(s) ==
  /\ refresh' \in [Sessions -> Task]
  /\ refresh'[s] = NoRefresh
  /\ \A j \in Sessions \ {s} : refresh'[j] = refresh[j]
  /\ call' \in [Calls -> Caller]
  /\ \A c \in Calls :
       \/ call'[c] = call[c] /\ ~(call[c].pc = "join" /\ call[c].s = s)
       \/ call'[c] = NoCall
       \/ call'[c].pc = "send" /\ call'[c].s = s /\ call[c].s = s

(* The end of a task is such a step.                                        *)
LEMMA TaskEnded ==
  ASSUME Typed, NEW s \in Sessions, NEW k \in Nat, TaskEnds(s, k)
  PROVE  Done(s)
<1>1. refresh \in [Sessions -> Task] /\ call \in [Calls -> Caller]
  BY DEF Typed
<1>2. refresh' = [refresh EXCEPT ![s] = NoRefresh]
  BY DEF TaskEnds
<1>3. /\ refresh' \in [Sessions -> Task] /\ refresh'[s] = NoRefresh
      /\ \A j \in Sessions \ {s} : refresh'[j] = refresh[j]
  BY <1>1, <1>2, Numbers
<1>4. ASSUME NEW c \in Calls, call[c].pc = "join", call[c].s = s
      PROVE /\ [call[c] EXCEPT !.pc = "send", !.k = k] \in Caller
            /\ [call[c] EXCEPT !.pc = "send", !.k = k].pc = "send"
            /\ [call[c] EXCEPT !.pc = "send", !.k = k].s = s
  <2>1. call[c] \in [pc : {"join", "send", "stale", "quit", "clear"}, s : Sessions,
                     k : Nat, tries : {"first", "renewed", "second"}]
    BY <1>1, <1>4, Numbers DEF Caller
  <2> QED
    BY <1>4, <2>1 DEF Caller
<1>5. call' = [c \in Calls |->
       IF call[c].pc = "join" /\ call[c].s = s
       THEN IF k = 0 THEN NoCall ELSE [call[c] EXCEPT !.pc = "send", !.k = k]
       ELSE call[c]]
  BY DEF TaskEnds
<1>6. ASSUME NEW c \in Calls
      PROVE  /\ call'[c] \in Caller
             /\ \/ call'[c] = call[c] /\ ~(call[c].pc = "join" /\ call[c].s = s)
                \/ call'[c] = NoCall
                \/ call'[c].pc = "send" /\ call'[c].s = s /\ call[c].s = s
  BY <1>1, <1>4, <1>5, Numbers
<1>7. call' \in [Calls -> Caller]
  BY <1>5, <1>6
<1> QED
  BY <1>3, <1>6, <1>7 DEF Done

(* A request asks for a refresh: it joins the session's task, or starts it. *)
Asked(c, s) ==
  /\ call' \in [Calls -> Caller]
  /\ call'[c].pc = "join" /\ call'[c].s = s
  /\ \A d \in Calls \ {c} : call'[d] = call[d]
  /\ refresh' \in [Sessions -> Task]
  /\ \/ refresh[s].pc # "none" /\ refresh'[s] = refresh[s]
     \/ /\ refresh[s].pc = "none"
        /\ refresh'[s].pc = "read" /\ refresh'[s].ans = "none"
  /\ \A j \in Sessions \ {s} : refresh'[j] = refresh[j]

(* Asking for a refresh is such a step.                                     *)
LEMMA RefreshAsked ==
  ASSUME Typed, NEW c \in Calls, NEW s \in Sessions, NEW k \in Nat,
         NEW x \in {"renewed", "second"}, AskRefresh(c, s, k, x)
  PROVE  Asked(c, s)
<1>1. refresh \in [Sessions -> Task] /\ call \in [Calls -> Caller]
  BY DEF Typed
<1>2. [pc |-> "join", s |-> s, k |-> k, tries |-> x] \in Caller
  BY DEF Caller
<1>3. [pc |-> "read", k |-> k, ans |-> "none"] \in Task
  BY DEF Task
<1> QED
  BY <1>1, <1>2, <1>3 DEF AskRefresh, Joins, Asked

(* A request changes, and nothing else does.                                *)
Moved(c) ==
  /\ call' \in [Calls -> Caller]
  /\ \/ call'[c] = NoCall
     \/ call'[c].pc # "join" /\ call'[c].s = call[c].s
  /\ \A d \in Calls \ {c} : call'[d] = call[d]

(* A request that was sent moves on.                                        *)
LEMMA CallMoved ==
  ASSUME Typed, NEW c \in Calls, call[c].pc # "idle",
         NEW x \in {"stale", "quit", "clear"},
         call' = [call EXCEPT ![c].pc = x]
  PROVE  Moved(c) /\ call'[c].pc = x /\ call'[c].s = call[c].s
<1>1. call \in [Calls -> Caller]
  BY DEF Typed
<1>2. call[c] \in [pc : {"join", "send", "stale", "quit", "clear"}, s : Sessions,
                   k : Nat, tries : {"first", "renewed", "second"}]
  BY <1>1, Numbers DEF Caller
<1>3. [call[c] EXCEPT !.pc = x] \in Caller
  BY <1>2 DEF Caller
<1> QED
  BY <1>1, <1>2, <1>3 DEF Moved

(* A request that is over leaves.                                           *)
LEMMA CallOver ==
  ASSUME Typed, NEW c \in Calls, call' = [call EXCEPT ![c] = NoCall]
  PROVE  Moved(c) /\ call'[c] = NoCall
BY Numbers DEF Typed, Moved

(* A proof under way, and the token it carries.                             *)
LEMMA PostFacts ==
  ASSUME Typed, NEW p \in post
  PROVE  /\ p \in Posting /\ p.s \in Sessions
         /\ [s |-> p.s, k |-> p.k] \in Token
         /\ \A x \in {"revoked", "denied", "lost"} :
              /\ [p EXCEPT !.ans = x] \in Posting
              /\ [p EXCEPT !.ans = x].s = p.s /\ [p EXCEPT !.ans = x].ans = x
BY DEF Typed, Posting, Token

(* A token on the wire belongs to a session.                                *)
LEMMA WireFacts ==
  ASSUME Typed, NEW t \in wire
  PROVE  t.s \in Sessions /\ t.k \in Nat \ {0}
BY DEF Typed, Token

(* The session that is left is the one that was active.                     *)
LEMMA Parked ==
  ASSUME Typed, Park
  PROVE  /\ row' = NoSession
         /\ queue' \subseteq Token
         /\ \A p \in queue' : p \in queue \/ (row # NoSession /\ p.s = row.s)
         /\ row # NoSession => \E p \in queue' : p.s = row.s
         /\ \A p \in queue : \E q \in queue' : q.s = p.s
<1>1. CASE row = NoSession
  BY <1>1 DEF Park, Typed
<1>2. CASE row # NoSession
  BY <1>2, RowFacts DEF Park, Typed
<1> QED
  BY <1>1, <1>2

-----------------------------------------------------------------------------
(***************************************************************************)
(* Every step keeps the types.                                             *)
(***************************************************************************)

(* A sign-in begins with the next number.                                   *)
LEMMA LoginBegun ==
  ASSUME Typed, VerifyBegins
  PROVE  /\ begun' = begun + 1 /\ begun' \in Sessions
         /\ login' \in [Sessions -> Login]
         /\ login'[begun'] = [pc |-> "park", gen |-> gen']
         /\ \A j \in Sessions \ {begun'} : login'[j] = login[j]
<1>1. begun + 1 \in Sessions
  BY SessionAssumption DEF Typed, VerifyBegins, Sessions, Budget
<1>2. [pc |-> "park", gen |-> gen + 1] \in Login
  BY DEF Typed, Login, LoginStep
<1> QED
  BY <1>1, <1>2 DEF Typed, VerifyBegins

(* Signing in and out.                                                      *)
LEMMA SignTyped ==
  ASSUME Typed, SignNext
  PROVE  Typed'
<1> USE DEF service, database, signing, bounds
<1>1. CASE VerifyBegins
  BY <1>1, LoginBegun DEF VerifyBegins, Typed
<1>2. CASE LogoutBegins
  BY <1>2 DEF LogoutBegins, Typed
<1>3. CASE LogoutParks
  <2>1. row # NoSession =>
          [s |-> row.s, k |-> row.k, by |-> "logout", ans |-> "none"] \in Posting
    BY RowFacts DEF Posting
  <2> QED
    BY <1>3, <2>1, Parked, Numbers DEF LogoutParks, LeaveBehind, Typed
<1>4. ASSUME NEW i \in Sessions, VerifyParks(i)
      PROVE  Typed'
  <2>1. login' \in [Sessions -> Login]
    BY <1>4, LoginMoved DEF VerifyParks, LoginStep
  <2>2. i \in Nat /\ i - 1 \in Nat
    BY SessionAssumption DEF Sessions
  <2> QED
    BY <1>4, <2>1, <2>2, Parked, Numbers DEF VerifyParks, LeaveBehind, Typed
<1>5. ASSUME NEW i \in Sessions, ServeLogin(i)
      PROVE  Typed'
  <2>1. login' \in [Sessions -> Login] /\ session' \in [Sessions -> SessionState]
    BY <1>5, LoginMoved, SessionMoved DEF ServeLogin, LoginStep
  <2> QED
    BY <1>5, <2>1 DEF ServeLogin, Typed
<1>6. ASSUME NEW i \in Sessions, LoseLogin(i)
      PROVE  Typed'
  <2>1. login' \in [Sessions -> Login] /\ session' \in [Sessions -> SessionState]
    BY <1>6, LoginMoved, SessionMoved DEF LoseLogin, LoginStep, Typed
  <2> QED
    BY <1>6, <2>1 DEF LoseLogin, Fault, Typed
<1>7. ASSUME NEW i \in Sessions, VerifyChecks(i)
      PROVE  Typed'
  <2>1. login' \in [Sessions -> Login]
    BY <1>7, LoginMoved DEF VerifyChecks, LoginStep
  <2> QED
    BY <1>7, <2>1 DEF VerifyChecks, Typed
<1>8. ASSUME NEW i \in Sessions, VerifySaves(i)
      PROVE  Typed'
  <2>1. login' \in [Sessions -> Login]
    BY <1>8, LoginMoved DEF VerifySaves, LoginStep
  <2>2. row' \in Row
    BY <1>8 DEF VerifySaves, Row
  <2>3. fate' \in [Sessions -> Fates]
    BY <1>8 DEF VerifySaves, Typed, Fates
  <2> QED
    BY <1>8, <2>1, <2>2, <2>3 DEF VerifySaves, Typed
<1>9. ASSUME NEW i \in Sessions, VerifyDiscards(i)
      PROVE  Typed'
  <2>1. login' \in [Sessions -> Login]
    BY <1>9, LoginMoved DEF VerifyDiscards, LoginStep
  <2>2. session' \in [Sessions -> SessionState]
    BY <1>9, SessionAged DEF VerifyDiscards, Aged
  <2> QED
    BY <1>9, <2>1, <2>2 DEF VerifyDiscards, Fault, Typed
<1> QED
  BY <1>1, <1>2, <1>3, <1>4, <1>5, <1>6, <1>7, <1>8, <1>9 DEF SignNext

(* The service's word on a proof; only "revoked" ends the session.          *)
LEMMA RevokeServed ==
  ASSUME Typed, NEW p \in post, ServeRevoke(p)
  PROVE  \E x \in {"revoked", "denied"} :
           /\ post' = (post \ {p}) \cup {[p EXCEPT !.ans = x]}
           /\ x = "revoked" => session' = Revoked(p.s)
           /\ x = "denied" => session' = session
<1>1. CASE p.k > session[p.s].lapsed
  BY <1>1 DEF ServeRevoke
<1>2. CASE ~(p.k > session[p.s].lapsed)
  BY <1>2 DEF ServeRevoke
<1> QED
  BY <1>1, <1>2

(* Revoking a session that was left.                                        *)
LEMMA RevokeTyped ==
  ASSUME Typed, RevokeNext
  PROVE  Typed'
<1> USE DEF service, database, signing, bounds
<1>1. ASSUME NEW p \in post, ServeRevoke(p)
      PROVE  Typed'
  <2>1. session' \in [Sessions -> SessionState]
    BY <1>1, PostFacts, SessionAged, RevokeServed DEF Aged
  <2>2. post' \subseteq Posting
    <3>1. PICK x \in {"revoked", "denied"} :
            post' = (post \ {p}) \cup {[p EXCEPT !.ans = x]}
      BY <1>1, RevokeServed
    <3>2. [p EXCEPT !.ans = x] \in Posting
      BY PostFacts
    <3> QED
      BY <3>1, <3>2 DEF Typed
  <2> QED
    BY <1>1, <2>1, <2>2 DEF ServeRevoke, Typed
<1>2. ASSUME NEW p \in post, LoseRevoke(p)
      PROVE  Typed'
  <2>1. [p EXCEPT !.ans = "lost"] \in Posting
    BY PostFacts
  <2>2. post' \subseteq Posting
    BY <1>2, <2>1 DEF LoseRevoke, Typed
  <2> QED
    BY <1>2, <2>2 DEF LoseRevoke, Fault, Typed
<1>3. ASSUME NEW p \in post, RevokeEnds(p)
      PROVE  Typed'
  <2>1. fate' \in [Sessions -> Fates]
    BY <1>3 DEF RevokeEnds, Typed, Fates
  <2> QED
    BY <1>3, <2>1 DEF RevokeEnds, Typed
<1>4. CASE DrainLists
  BY <1>4 DEF DrainLists, Typed
<1>5. CASE DrainPosts
  <2>1. \A p \in drain.todo :
          [s |-> p.s, k |-> p.k, by |-> "drain", ans |-> "none"] \in Posting
    BY DEF Typed, Token, Posting
  <2>2. drain' \in [on : BOOLEAN, todo : SUBSET Token]
    BY <1>5 DEF DrainPosts, Typed
  <2> QED
    BY <1>5, <2>1, <2>2 DEF DrainPosts, Typed
<1>6. CASE DrainEnds
  BY <1>6 DEF DrainEnds, NoDrain, Typed
<1> QED
  BY <1>1, <1>2, <1>3, <1>4, <1>5, <1>6 DEF RevokeNext

(* What a refresh task finds when it compares its token with the row.       *)
LEMMA TaskFacts ==
  ASSUME Typed, NEW s \in Sessions
  PROVE  /\ refresh[s] \in Task /\ refresh[s].k \in Nat
         /\ session[s] \in SessionState /\ session[s].k \in Nat \ {0}
         /\ session[s].lapsed \in Nat
         /\ row.s = s => row # NoSession
BY Numbers DEF Typed, Task, SessionState

(* A row for a session, and what it says.                                   *)
LEMMA NewRow ==
  ASSUME NEW s \in Sessions, NEW k \in Nat \ {0}, NEW u \in BOOLEAN
  PROVE  /\ [s |-> s, k |-> k, unc |-> u] \in Row
         /\ [s |-> s, k |-> k, unc |-> u] # NoSession
         /\ [s |-> s, k |-> k] \in Token
BY Numbers DEF Row, NoSession, Token

(* The stored token is one.                                                 *)
LEMMA StoredToken ==
  ASSUME Typed, NEW s \in Sessions, NEW k, Stored(s, k)
  PROVE  k \in Nat \ {0} /\ k + 1 \in Nat \ {0}
BY TaskFacts, RowFacts DEF Stored

(* Reading: the task goes on with the stored token, or ends.                *)
LEMMA ReadDone ==
  ASSUME Typed, NEW s \in Sessions, RefreshReads(s)
  PROVE  \/ Done(s)
         \/ /\ row.s = s /\ ~row.unc /\ row.k = refresh[s].k /\ call' = call
            /\ \E x \in {"claim", "drop"} :
                 refresh' = [refresh EXCEPT ![s].pc = x]
<1>1. CASE row.s # s \/ row.unc
  BY <1>1, TaskEnded DEF RefreshReads
<1>2. CASE row.s = s /\ ~row.unc /\ row.k # refresh[s].k
  <2>1. row.k \in Nat
    BY <1>2, TaskFacts, RowFacts
  <2> QED
    BY <1>2, <2>1, TaskEnded DEF RefreshReads
<1>3. CASE row.s = s /\ ~row.unc /\ row.k = refresh[s].k
  BY <1>3 DEF RefreshReads
<1> QED
  BY <1>1, <1>2, <1>3

(* Claiming: the guard is stored and the token sent, or the task ends.      *)
LEMMA ClaimDone ==
  ASSUME Typed, NEW s \in Sessions, RefreshClaims(s)
  PROVE  \/ Done(s) /\ row' = row /\ wire' = wire
         \/ /\ row.s = s /\ row.k = refresh[s].k /\ ~row.unc
            /\ row' = [s |-> s, k |-> row.k, unc |-> TRUE]
            /\ wire' = wire \cup {[s |-> s, k |-> row.k]}
            /\ refresh' = [refresh EXCEPT ![s].pc = "post"]
            /\ call' = call
<1>1. CASE Stored(s, refresh[s].k) /\ ~row.unc
  <2>1. row \in [s : Sessions, k : Nat \ {0}, unc : BOOLEAN]
    BY <1>1, TaskFacts DEF Stored, Typed, Row
  <2> QED
    BY <1>1, <2>1 DEF RefreshClaims, Stored, Claimed
<1>2. CASE ~(Stored(s, refresh[s].k) /\ ~row.unc)
  <2>1. (IF row.s = s /\ ~row.unc THEN row.k ELSE 0) \in Nat
    BY RowFacts, TaskFacts
  <2>2. row' = row /\ wire' = wire
        /\ TaskEnds(s, IF row.s = s /\ ~row.unc THEN row.k ELSE 0)
    BY <1>2 DEF RefreshClaims
  <2> QED
    BY <2>1, <2>2, TaskEnded
<1> QED
  BY <1>1, <1>2

(* Keeping: the rotated token is stored over the one that was sent.         *)
LEMMA KeepDone ==
  ASSUME Typed, NEW s \in Sessions, RefreshKeeps(s)
  PROVE  /\ Done(s)
         /\ \/ row' = row /\ ~Stored(s, refresh[s].k)
            \/ /\ Stored(s, refresh[s].k)
               /\ row' = [s |-> s, k |-> refresh[s].k + 1, unc |-> FALSE]
BY TaskFacts, TaskEnded DEF RefreshKeeps, Kept

(* Taking the guard away: the token is stored as it was.                    *)
LEMMA UnguardDone ==
  ASSUME Typed, NEW s \in Sessions, RefreshUnguards(s)
  PROVE  /\ Done(s)
         /\ \/ row' = row /\ ~Stored(s, refresh[s].k)
            \/ /\ Stored(s, refresh[s].k)
               /\ row' = [s |-> s, k |-> refresh[s].k, unc |-> FALSE]
BY TaskFacts, TaskEnded DEF RefreshUnguards, Kept

(* Dropping and losing end the task, whatever is stored.                    *)
LEMMA DropDone ==
  ASSUME Typed, NEW s \in Sessions, RefreshDrops(s) \/ LoseRefresh(s)
  PROVE  Done(s)
BY TaskEnded DEF RefreshDrops, LoseRefresh

(* Refreshing.                                                              *)
LEMMA RefreshTyped ==
  ASSUME Typed, RefreshNext
  PROVE  Typed'
<1> USE DEF service, database, signing, bounds
<1>1. ASSUME NEW s \in Sessions, RefreshReads(s)
      PROVE  Typed'
  <2>1. refresh' \in [Sessions -> Task] /\ call' \in [Calls -> Caller]
    BY <1>1, ReadDone, TaskMoved DEF Done, Typed
  <2> QED
    BY <1>1, <2>1 DEF RefreshReads, Typed
<1>2. ASSUME NEW s \in Sessions, RefreshClaims(s)
      PROVE  Typed'
  <2>1. refresh' \in [Sessions -> Task] /\ call' \in [Calls -> Caller]
    BY <1>2, ClaimDone, TaskMoved DEF Done, Typed
  <2>2. row' \in Row /\ wire' \subseteq Token
    <3>1. row.s = s => /\ [s |-> s, k |-> row.k, unc |-> TRUE] \in Row
                       /\ [s |-> s, k |-> row.k] \in Token
      BY TaskFacts, RowFacts, NewRow
    <3> QED
      BY <1>2, <3>1, ClaimDone DEF Typed
  <2> QED
    BY <1>2, <2>1, <2>2 DEF RefreshClaims, Typed
<1>3. ASSUME NEW s \in Sessions, RefreshKeeps(s)
      PROVE  Typed'
  <2>1. refresh' \in [Sessions -> Task] /\ call' \in [Calls -> Caller]
    BY <1>3, KeepDone DEF Done
  <2>2. row' \in Row
    BY <1>3, KeepDone, StoredToken, NewRow DEF Typed
  <2> QED
    BY <1>3, <2>1, <2>2 DEF RefreshKeeps, Typed
<1>4. ASSUME NEW s \in Sessions, RefreshUnguards(s)
      PROVE  Typed'
  <2>1. refresh' \in [Sessions -> Task] /\ call' \in [Calls -> Caller]
    BY <1>4, UnguardDone DEF Done
  <2>2. row' \in Row
    BY <1>4, UnguardDone, StoredToken, NewRow DEF Typed
  <2> QED
    BY <1>4, <2>1, <2>2 DEF RefreshUnguards, Typed
<1>5. ASSUME NEW s \in Sessions, RefreshDrops(s)
      PROVE  Typed'
  <2>1. refresh' \in [Sessions -> Task] /\ call' \in [Calls -> Caller]
    BY <1>5, DropDone DEF Done
  <2>2. fate' \in [Sessions -> Fates]
    BY <1>5 DEF RefreshDrops, Typed, Fates
  <2> QED
    BY <1>5, <2>1, <2>2, Numbers DEF RefreshDrops, Cleared, Typed
<1>6. ASSUME NEW s \in Sessions, LoseRefresh(s)
      PROVE  Typed'
  <2>1. refresh' \in [Sessions -> Task] /\ call' \in [Calls -> Caller]
    BY <1>6, DropDone DEF Done
  <2>2. fate' \in [Sessions -> Fates]
    BY <1>6 DEF LoseRefresh, Typed, Fates
  <2> QED
    BY <1>6, <2>1, <2>2 DEF LoseRefresh, LostGuard, Fault, Typed
<1>7. ASSUME NEW t \in wire, ServeRefresh(t)
      PROVE  Typed'
  <2>1. refresh' \in [Sessions -> Task]
    BY <1>7, TaskAnswered DEF ServeRefresh
  <2>2. session' \in [Sessions -> SessionState]
    BY <1>7, WireFacts, SessionAged, SessionRotated DEF ServeRefresh, Aged
  <2> QED
    BY <1>7, <2>1, <2>2 DEF ServeRefresh, Typed
<1>8. ASSUME NEW t \in wire, RejectRefresh(t)
      PROVE  Typed'
  <2>1. refresh' \in [Sessions -> Task]
    BY <1>8, TaskAnswered DEF RejectRefresh
  <2> QED
    BY <1>8, <2>1 DEF RejectRefresh, Fault, Typed
<1> QED
  BY <1>1, <1>2, <1>3, <1>4, <1>5, <1>6, <1>7, <1>8 DEF RefreshNext

(* A request starts with the stored token, or asks for a newer one.         *)
LEMMA StartDone ==
  ASSUME Typed, NEW c \in Calls, CallStarts(c)
  PROVE  /\ row # NoSession /\ row.s \in Sessions
         /\ \/ Asked(c, row.s)
            \/ /\ refresh' = refresh /\ call' \in [Calls -> Caller]
               /\ call'[c].pc = "send" /\ call'[c].s = row.s
               /\ \A d \in Calls \ {c} : call'[d] = call[d]
<1>1. row # NoSession /\ row.s \in Sessions /\ row.k \in Nat \ {0}
  BY RowFacts DEF CallStarts
<1>2. CASE AskRefresh(c, row.s, row.k, "renewed")
  BY <1>1, <1>2, RefreshAsked
<1>3. CASE /\ call' = [call EXCEPT ![c] = [pc |-> "send", s |-> row.s,
                                           k |-> row.k, tries |-> "first"]]
           /\ UNCHANGED refresh
  <2>1. [pc |-> "send", s |-> row.s, k |-> row.k, tries |-> "first"] \in Caller
    BY <1>1 DEF Caller
  <2> QED
    BY <1>1, <1>3, <2>1 DEF Typed
<1> QED
  BY <1>2, <1>3 DEF CallStarts

(* A request that was sent and refused asks for a newer token.              *)
LEMMA RenewDone ==
  ASSUME Typed, NEW c \in Calls, CallRenews(c)
  PROVE  call[c].s \in Sessions /\ Asked(c, call[c].s)
<1>1. call[c].s \in Sessions /\ call[c].k \in Nat
  BY CallerFacts, Numbers DEF CallRenews, Caller
<1> QED
  BY <1>1, RefreshAsked DEF CallRenews

(* What the service answers; only a revoked session is cleared.             *)
LEMMA CallServed ==
  ASSUME Typed, NEW c \in Calls, ServeCall(c)
  PROVE  /\ call[c].s \in Sessions /\ Moved(c) /\ Aged(call[c].s)
         /\ call'[c].pc = "clear" => session'[call[c].s].st = "revoked"
<1>1. call[c].pc = "send" /\ call[c].pc # "idle" /\ call[c].s \in Sessions
  BY CallerFacts DEF ServeCall
<1>2. CASE session[call[c].s].st = "revoked" /\ UNCHANGED session
           /\ call' = [call EXCEPT ![c].pc = "clear"]
  BY <1>1, <1>2, CallMoved, SessionAged
<1>3. CASE UNCHANGED session
           /\ \E x \in {"stale", "quit"} : call' = [call EXCEPT ![c].pc = x]
  BY <1>1, <1>3, CallMoved, SessionAged
<1>4. CASE call' = [call EXCEPT ![c] = NoCall] /\ UNCHANGED session
  BY <1>1, <1>4, CallOver, Numbers, SessionAged
<1>5. CASE /\ call' = [call EXCEPT ![c].pc = "clear"]
           /\ session' = Revoked(call[c].s)
  BY <1>1, <1>5, CallMoved, SessionAged, SessionMoved DEF Revoked
<1> QED
  BY <1>2, <1>3, <1>4, <1>5 DEF ServeCall

(* A request that is not answered.                                          *)
LEMMA CallLost ==
  ASSUME Typed, NEW c \in Calls, LoseCall(c)
  PROVE  Moved(c) /\ call'[c].pc \in {"idle", "quit"}
<1>1. call[c].pc # "idle"
  BY DEF LoseCall
<1> QED
  BY <1>1, CallMoved, CallOver, Numbers DEF LoseCall

(* Authorised requests.                                                     *)
LEMMA CallTyped ==
  ASSUME Typed, CallNext
  PROVE  Typed'
<1> USE DEF service, database, signing, bounds
<1>1. ASSUME NEW c \in Calls, CallStarts(c)
      PROVE  Typed'
  <2>1. refresh' \in [Sessions -> Task] /\ call' \in [Calls -> Caller]
    BY <1>1, StartDone DEF Asked, Typed
  <2> QED
    BY <1>1, <2>1 DEF CallStarts, Typed
<1>2. ASSUME NEW c \in Calls, ServeCall(c)
      PROVE  Typed'
  BY <1>2, CallServed DEF ServeCall, Moved, Aged, Typed
<1>3. ASSUME NEW c \in Calls, LoseCall(c)
      PROVE  Typed'
  BY <1>3, CallLost DEF LoseCall, Fault, Moved, Typed
<1>4. ASSUME NEW c \in Calls, CallRenews(c)
      PROVE  Typed'
  BY <1>4, RenewDone DEF CallRenews, Asked, Typed
<1>5. ASSUME NEW c \in Calls, CallClears(c)
      PROVE  Typed'
  <2>1. call' \in [Calls -> Caller]
    BY <1>5, CallOver DEF CallClears, Moved
  <2>2. fate' \in [Sessions -> Fates]
    BY <1>5 DEF CallClears, Typed, Fates
  <2> QED
    BY <1>5, <2>1, <2>2, Numbers DEF CallClears, Cleared, Typed
<1> QED
  BY <1>1, <1>2, <1>3, <1>4, <1>5 DEF CallNext

(* Time and other devices make a session older.                             *)
LEMMA ServiceDone ==
  ASSUME Typed, ServiceNext
  PROVE  \E s \in Sessions : Aged(s)
BY SessionAged DEF ServiceNext, AccessDies, TokenLapses, RevokedElsewhere

(* Every step keeps the types.                                              *)
LEMMA TypedNext ==
  ASSUME Typed, [Next]_vars
  PROVE  Typed'
<1> USE DEF service, database, signing, bounds
<1>1. CASE ServiceNext
  <2>1. session' \in [Sessions -> SessionState]
    BY <1>1, ServiceDone DEF Aged
  <2> QED
    BY <1>1, <2>1 DEF ServiceNext, AccessDies, TokenLapses, RevokedElsewhere,
                      Age, Typed
<1>2. CASE Crash
  <2>1. login' \in [Sessions -> Login]
    BY <1>2 DEF Crash, Typed, Login, LoginStep
  <2>2. refresh' \in [Sessions -> Task] /\ call' \in [Calls -> Caller]
    BY <1>2, Numbers DEF Crash
  <2>3. fate' \in [Sessions -> Fates]
    BY <1>2 DEF Crash, Typed, Fates
  <2> QED
    BY <1>2, <2>1, <2>2, <2>3 DEF Crash, Fault, NoDrain, Typed
<1>3. CASE UNCHANGED vars
  BY <1>3 DEF vars, Typed
<1> QED
  BY <1>1, <1>2, <1>3, SignTyped, RevokeTyped, RefreshTyped, CallTyped DEF Next

-----------------------------------------------------------------------------
(***************************************************************************)
(* The invariant.                                                          *)
(***************************************************************************)

(* A sign-in that nothing has overtaken, and one that stores its session.   *)
Current(i) == login[i].pc \in {"park", "post", "got"} /\ login[i].gen = gen

Saving(i) == login[i].pc = "save"

(* A generation is the newest sign-in's, and a sign-in that is still wanted *)
(* is newer than every sign-out, committed or called.                       *)
Ordered ==
  /\ floor <= begun /\ logout.upto <= begun
  /\ \A i \in Sessions :
       /\ login[i].pc = "none" <=> i > begun
       /\ login[i].pc # "none" => login[i].gen <= gen
       /\ Current(i) => i = begun
       /\ Current(i) /\ logout.pc = "called" => logout.upto < i
       /\ Current(i) \/ Saving(i) => floor < i

(* A sign-in that has parked the session before it finds none when it       *)
(* stores its own.                                                          *)
NothingBefore ==
  /\ \A i, j \in Sessions : Saving(i) /\ Saving(j) => i = j
  /\ \A i \in Sessions :
       /\ Saving(i) => row = NoSession
       /\ Current(i) /\ login[i].pc # "park" => row = NoSession /\ WriterFree

(* A proof of the session is queued, listed or travelling.                  *)
Held(s) == \E p \in queue \cup drain.todo \cup post : p.s = s

(* Nothing knows a session before its sign-in has stored it.                *)
Unborn(i) ==
  /\ row.s # i
  /\ fate[i] = "unknown"
  /\ session[i].k = 1
  /\ refresh[i].pc = "none"
  /\ \A t \in wire : t.s # i
  /\ ~Held(i)
  /\ \A c \in Calls : call[c].s # i

Fresh == \A i \in Sessions : login[i].pc # "over" => Unborn(i)

(* What holds while a refresh request is out: the row is guarded, and the   *)
(* answer tells what the service made of the token.                         *)
Posted(s) ==
  /\ session[s].k = refresh[s].k + (IF refresh[s].ans = "rotated" THEN 1 ELSE 0)
  /\ row.s = s => row.unc /\ row.k = refresh[s].k
  /\ refresh[s].ans # "none" => \A t \in wire : t.s # s
  /\ refresh[s].ans = "refused" => ~Live(s)

TaskGuarded(s) ==
  /\ refresh[s].ans # "none" => refresh[s].pc = "post"
  /\ refresh[s].pc = "post" => Posted(s)
  /\ refresh[s].pc = "drop" /\ row.s = s => ~row.unc

(* A token on the wire is the newest of its session, and guarded.           *)
WireGuarded(t) == t.k = session[t.s].k /\ (row.s = t.s => row.unc)

RowGuarded ==
  row # NoSession =>
    /\ fate[row.s] \in {"kept", "guarded"}
    /\ IF row.unc THEN refresh[row.s].pc = "post" \/ fate[row.s] = "guarded"
       ELSE row.k = session[row.s].k

Guards ==
  /\ \A s \in Sessions : TaskGuarded(s)
  /\ \A t \in wire : WireGuarded(t)
  /\ RowGuarded

(* Whoever waits for a refresh waits for one under way, and a request       *)
(* clears only a session the service has revoked.                           *)
Joined ==
  \A c \in Calls :
    /\ call[c].pc = "join" => refresh[call[c].s].pc # "none"
    /\ call[c].pc = "clear" => session[call[c].s].st = "revoked"

(* The answer to a proof tells the truth.                                   *)
RuledOut == \A p \in post : p.ans = "revoked" => session[p.s].st = "revoked"

IInv ==
  /\ Typed /\ Ordered /\ NothingBefore /\ Fresh /\ Guards /\ Joined /\ RuledOut
  /\ NoReplay /\ LeftStaysLeft /\ LeftSessionIsAccountedFor

-----------------------------------------------------------------------------
(***************************************************************************)
(* What the steps leave alone.                                             *)
(***************************************************************************)

(* The steps that are neither a sign-in nor a sign-out nor a crash.         *)
Beyond == RevokeNext \/ RefreshNext \/ CallNext \/ ServiceNext \/ UNCHANGED vars

(* They leave signing in and out alone.                                     *)
LEMMA BeyondSigning ==
  ASSUME Beyond
  PROVE  UNCHANGED <<gen, begun, login, logout, floor>>
<1> USE DEF service, database, signing, bounds
<1>1. CASE RevokeNext
  BY <1>1 DEF RevokeNext, ServeRevoke, LoseRevoke, RevokeEnds, DrainLists,
              DrainPosts, DrainEnds
<1>2. CASE RefreshNext
  BY <1>2 DEF RefreshNext, RefreshReads, RefreshClaims, RefreshKeeps,
              RefreshUnguards, RefreshDrops, LoseRefresh, ServeRefresh,
              RejectRefresh
<1>3. CASE CallNext
  BY <1>3 DEF CallNext, CallStarts, ServeCall, LoseCall, CallRenews, CallClears
<1>4. CASE ServiceNext
  BY <1>4 DEF ServiceNext, AccessDies, TokenLapses, RevokedElsewhere
<1>5. CASE UNCHANGED vars
  BY <1>5 DEF vars
<1> QED
  BY <1>1, <1>2, <1>3, <1>4, <1>5 DEF Beyond

(* They keep the active session or leave none.                              *)
LEMMA BeyondRow ==
  ASSUME Typed, Beyond
  PROVE  \/ row' = NoSession
         \/ row # NoSession /\ row' # NoSession /\ row'.s = row.s
<1> USE DEF service, database, signing, bounds
<1>1. CASE RevokeNext
  BY <1>1 DEF RevokeNext, ServeRevoke, LoseRevoke, RevokeEnds, DrainLists,
              DrainPosts, DrainEnds
<1>2. CASE RefreshNext
  <2>1. ASSUME NEW s \in Sessions, RefreshClaims(s)
        PROVE  row' = row \/ (row.s = s /\ row' # NoSession /\ row'.s = s)
    BY <2>1, ClaimDone, Numbers
  <2>2. ASSUME NEW s \in Sessions, RefreshKeeps(s)
        PROVE  row' = row \/ (row.s = s /\ row' # NoSession /\ row'.s = s)
    BY <2>2, KeepDone, Numbers DEF Stored
  <2>3. ASSUME NEW s \in Sessions, RefreshUnguards(s)
        PROVE  row' = row \/ (row.s = s /\ row' # NoSession /\ row'.s = s)
    BY <2>3, UnguardDone, Numbers DEF Stored
  <2>4. ASSUME NEW s \in Sessions, RefreshDrops(s)
        PROVE  row' = row \/ row' = NoSession
    BY <2>4 DEF RefreshDrops, Cleared
  <2>5. ASSUME NEW s \in Sessions, RefreshReads(s) \/ LoseRefresh(s)
        PROVE  row' = row
    BY <2>5 DEF RefreshReads, LoseRefresh, LostGuard
  <2>6. ASSUME NEW t \in wire, ServeRefresh(t) \/ RejectRefresh(t)
        PROVE  row' = row
    BY <2>6 DEF ServeRefresh, RejectRefresh
  <2> QED
    BY <1>2, <2>1, <2>2, <2>3, <2>4, <2>5, <2>6, Numbers DEF RefreshNext
<1>3. CASE CallNext
  BY <1>3 DEF CallNext, CallStarts, ServeCall, LoseCall, CallRenews, CallClears,
              Cleared
<1>4. CASE ServiceNext
  BY <1>4 DEF ServiceNext, AccessDies, TokenLapses, RevokedElsewhere
<1>5. CASE UNCHANGED vars
  BY <1>5 DEF vars
<1> QED
  BY <1>1, <1>2, <1>3, <1>4, <1>5 DEF Beyond

(* Only leaving the active session makes a proof of a session.              *)
LEMMA HeldLess ==
  ASSUME Typed, [Next]_vars, NEW s \in Sessions, Held(s)'
  PROVE  Held(s) \/ (row # NoSession /\ row.s = s /\ row' = NoSession)
<1> USE DEF service, database, signing, bounds
<1>1. CASE UNCHANGED <<queue, drain, post>>
  BY <1>1 DEF Held
<1>2. ASSUME NEW i \in Sessions, VerifyParks(i)
      PROVE  Held(s) \/ (row # NoSession /\ row.s = s /\ row' = NoSession)
  BY <1>2, Parked DEF VerifyParks, Held
<1>3. CASE LogoutParks
  BY <1>3, Parked DEF LogoutParks, Held
<1>4. ASSUME NEW p \in post, ServeRevoke(p)
      PROVE  Held(s)
  <2>1. PICK x \in {"revoked", "denied"} :
          post' = (post \ {p}) \cup {[p EXCEPT !.ans = x]}
    BY <1>4, RevokeServed
  <2>2. [p EXCEPT !.ans = x].s = p.s
    BY PostFacts
  <2> QED
    BY <1>4, <2>1, <2>2 DEF ServeRevoke, Held
<1>5. ASSUME NEW p \in post, LoseRevoke(p)
      PROVE  Held(s)
  <2>1. [p EXCEPT !.ans = "lost"].s = p.s
    BY PostFacts
  <2> QED
    BY <1>5, <2>1 DEF LoseRevoke, Held
<1>6. ASSUME NEW p \in post, RevokeEnds(p)
      PROVE  Held(s)
  BY <1>6 DEF RevokeEnds, Held
<1>7. CASE DrainLists
  BY <1>7 DEF DrainLists, Held
<1>8. CASE DrainPosts
  <2>1. drain'.todo \subseteq drain.todo
    BY <1>8 DEF DrainPosts, Typed
  <2> QED
    BY <1>8, <2>1 DEF DrainPosts, Held
<1>9. CASE DrainEnds
  BY <1>9 DEF DrainEnds, NoDrain, Held
<1>10. CASE Crash
  BY <1>10 DEF Crash, NoDrain, Held
<1>11. CASE SignNext
  BY <1>1, <1>2, <1>3, <1>11 DEF SignNext, VerifyBegins, LogoutBegins,
     ServeLogin, LoseLogin, VerifyChecks, VerifySaves, VerifyDiscards
<1>12. CASE RevokeNext
  BY <1>4, <1>5, <1>6, <1>7, <1>8, <1>9, <1>12 DEF RevokeNext
<1>13. CASE RefreshNext
  BY <1>1, <1>13 DEF RefreshNext, RefreshReads, RefreshClaims, RefreshKeeps,
     RefreshUnguards, RefreshDrops, LoseRefresh, ServeRefresh, RejectRefresh
<1>14. CASE CallNext
  BY <1>1, <1>14 DEF CallNext, CallStarts, ServeCall, LoseCall, CallRenews,
     CallClears
<1>15. CASE ServiceNext
  BY <1>1, <1>15 DEF ServiceNext, AccessDies, TokenLapses, RevokedElsewhere
<1>16. CASE UNCHANGED vars
  BY <1>1, <1>16 DEF vars
<1> QED
  BY <1>10, <1>11, <1>12, <1>13, <1>14, <1>15, <1>16 DEF Next

-----------------------------------------------------------------------------
(***************************************************************************)
(* Signing in and out: who is newer, and what is stored.                   *)
(***************************************************************************)

(* Sign-ins keep their order.                                               *)
LEMMA OrderedNext ==
  ASSUME IInv, [Next]_vars
  PROVE  Ordered'
<1> USE DEF IInv
<1>0. /\ \A i \in Sessions : i \in Nat /\ login[i] \in Login /\ login[i].gen \in Nat
      /\ gen \in Nat /\ begun \in Nat /\ floor \in Nat /\ logout.upto \in Nat
  BY Numbers DEF Typed, Login
<1>1. CASE Beyond
  BY <1>1, BeyondSigning DEF Ordered, Current, Saving
<1>2. CASE VerifyBegins
  <2>1. gen' = gen + 1 /\ UNCHANGED <<floor, logout>>
    BY <1>2 DEF VerifyBegins
  <2>2. login'[begun'].pc = "park" /\ begun' = begun + 1
        /\ begun' \in Sessions /\ login'[begun'].gen = gen'
        /\ \A j \in Sessions \ {begun'} : login'[j] = login[j]
    BY <1>2, LoginBegun
  <2>3. \A i \in Sessions : login[i].pc # "none" => i # begun' /\ login'[i] = login[i]
    BY <1>0, <2>2 DEF Ordered
  <2>4. \A i \in Sessions : /\ i # begun' => ~Current(i)'
                            /\ Saving(i)' => Saving(i)
    BY <1>0, <2>1, <2>2 DEF Ordered, Current, Saving
  <2>6. \A i \in Sessions : /\ login'[i].pc = "none" <=> i > begun'
                            /\ login'[i].pc # "none" => login'[i].gen <= gen'
    BY <1>0, <2>1, <2>2, <2>3 DEF Ordered
  <2>7. floor < begun' /\ logout.upto < begun' /\ begun' \in Nat
    BY <1>0, <2>2 DEF Ordered
  <2>8. ASSUME NEW i \in Sessions
        PROVE  /\ Current(i)' => i = begun'
               /\ Current(i)' /\ logout'.pc = "called" => logout'.upto < i
               /\ Current(i)' \/ Saving(i)' => floor' < i
    <3>1. CASE Current(i)'
      BY <2>1, <2>4, <2>7, <3>1
    <3>2. CASE ~Current(i)'
      BY <2>1, <2>4, <3>2 DEF Ordered
    <3> QED
      BY <3>1, <3>2
  <2>9. floor' <= begun' /\ logout'.upto <= begun'
    BY <1>0, <2>1, <2>7
  <2> QED
    BY <2>6, <2>8, <2>9 DEF Ordered
<1>3. CASE LogoutBegins
  <2>1. /\ gen' = gen + 1 /\ UNCHANGED <<floor, begun, login>>
        /\ logout'.upto = begun
    BY <1>3 DEF LogoutBegins
  <2>2. \A i \in Sessions : ~Current(i)' /\ (Saving(i)' <=> Saving(i))
    BY <1>0, <2>1 DEF Ordered, Current, Saving
  <2> QED
    BY <1>0, <2>1, <2>2 DEF Ordered
<1>4. CASE LogoutParks
  <2>1. /\ UNCHANGED <<gen, begun, login>> /\ WriterFree
        /\ logout.pc = "called" /\ logout'.pc = "idle" /\ logout'.upto = logout.upto
        /\ floor' = IF logout.upto > floor THEN logout.upto ELSE floor
    BY <1>4 DEF LogoutParks, LeaveBehind, Typed
  <2>2. \A i \in Sessions : ~Saving(i)' /\ (Current(i)' <=> Current(i))
    BY <2>1 DEF WriterFree, Saving, Current
  <2> QED
    BY <1>0, <2>1, <2>2 DEF Ordered
<1>5. ASSUME NEW i \in Sessions, VerifyParks(i)
      PROVE  Ordered'
  <2>1. /\ UNCHANGED <<gen, begun, logout>> /\ WriterFree /\ login[i].pc = "park"
        /\ floor' = IF i - 1 > floor THEN i - 1 ELSE floor
    BY <1>5 DEF VerifyParks, LeaveBehind
  <2>2. login'[i].pc = "post" /\ login'[i].gen = login[i].gen
        /\ \A j \in Sessions \ {i} : login'[j] = login[j]
    BY <1>5, LoginMoved DEF VerifyParks, LoginStep
  <2>3. \A j \in Sessions : ~Saving(j)' /\ (Current(j)' <=> Current(j))
    BY <2>1, <2>2 DEF WriterFree, Saving, Current
  <2>4. \A j \in Sessions : /\ (login'[j].pc = "none") = (login[j].pc = "none")
                            /\ login'[j].gen = login[j].gen
    BY <2>1, <2>2
  <2>5. i <= begun
    BY <1>0, <2>1 DEF Ordered
  <2> QED
    BY <1>0, <2>1, <2>3, <2>4, <2>5 DEF Ordered
<1>6. ASSUME NEW i \in Sessions,
             ServeLogin(i) \/ LoseLogin(i) \/ VerifySaves(i) \/ VerifyDiscards(i)
      PROVE  Ordered'
  <2>1. /\ UNCHANGED <<gen, begun, logout, floor>>
        /\ login[i].pc \in {"post", "save", "discard"}
        /\ login'[i].pc \in {"got", "over"} /\ login'[i].gen = login[i].gen
        /\ login'[i].pc = "got" => login[i].pc = "post"
        /\ \A j \in Sessions \ {i} : login'[j] = login[j]
    BY <1>6, LoginMoved
       DEF ServeLogin, LoseLogin, VerifySaves, VerifyDiscards, LoginStep
  <2>2. \A j \in Sessions : /\ Saving(j)' => Saving(j)
                            /\ Current(j)' => Current(j)
    BY <2>1 DEF Saving, Current
  <2>3. \A j \in Sessions : /\ (login'[j].pc = "none") = (login[j].pc = "none")
                            /\ login'[j].gen = login[j].gen
    BY <2>1
  <2> QED
    BY <1>0, <2>1, <2>2, <2>3 DEF Ordered
<1>7. ASSUME NEW i \in Sessions, VerifyChecks(i)
      PROVE  Ordered'
  <2>1. /\ UNCHANGED <<gen, begun, logout, floor>> /\ login[i].pc = "got"
        /\ login'[i].pc = IF gen = login[i].gen THEN "save" ELSE "discard"
        /\ login'[i].gen = login[i].gen
        /\ \A j \in Sessions \ {i} : login'[j] = login[j]
    BY <1>7, LoginMoved DEF VerifyChecks, StillWanted, LoginStep
  <2>2. \A j \in Sessions : /\ Saving(j)' => Saving(j) \/ Current(j)
                            /\ Current(j)' => Current(j)
    BY <2>1 DEF Saving, Current
  <2>3. \A j \in Sessions : /\ (login'[j].pc = "none") = (login[j].pc = "none")
                            /\ login'[j].gen = login[j].gen
    BY <2>1
  <2> QED
    BY <1>0, <2>1, <2>2, <2>3 DEF Ordered
<1>8. CASE Crash
  <2>1. UNCHANGED <<begun, floor>> /\ logout'.upto = 0
    BY <1>8 DEF Crash
  <2>2. \A i \in Sessions :
          /\ login'[i].pc = IF login[i].pc = "none" THEN "none" ELSE "over"
          /\ login[i].pc # "none" => login'[i].gen = 0
    BY <1>8 DEF Crash
  <2>3. gen' = 0
    BY <1>8 DEF Crash
  <2> QED
    BY <1>0, <2>1, <2>2, <2>3 DEF Ordered, Current, Saving
<1> QED
  BY <1>1, <1>2, <1>3, <1>4, <1>5, <1>6, <1>7, <1>8 DEF Next, SignNext, Beyond

(* A sign-in that was not overtaken finds no session when it stores its own.*)
LEMMA NothingBeforeNext ==
  ASSUME IInv, [Next]_vars
  PROVE  NothingBefore'
<1> USE DEF IInv
<1>0. /\ \A i \in Sessions : i \in Nat /\ login[i] \in Login /\ login[i].gen \in Nat
      /\ gen \in Nat /\ begun \in Nat
  BY Numbers DEF Typed, Login
<1>1. CASE Beyond
  <2>1. UNCHANGED <<gen, login>> /\ (row = NoSession => row' = NoSession)
    BY <1>1, BeyondSigning, BeyondRow
  <2> QED
    BY <2>1 DEF NothingBefore, Saving, Current, WriterFree
<1>2. CASE VerifyBegins
  <2>1. gen' = gen + 1 /\ row' = row
    BY <1>2 DEF VerifyBegins, database
  <2>2. login'[begun'].pc = "park" /\ begun' = begun + 1 /\ begun' \in Sessions
        /\ \A j \in Sessions \ {begun'} : login'[j] = login[j]
    BY <1>2, LoginBegun
  <2>3. \A i \in Sessions : /\ Saving(i)' => Saving(i)
                            /\ Current(i)' => login'[i].pc = "park"
    BY <1>0, <2>1, <2>2 DEF Ordered, Current, Saving
  <2> QED
    BY <2>1, <2>3 DEF NothingBefore
<1>3. CASE LogoutBegins
  <2>1. gen' = gen + 1 /\ row' = row /\ login' = login
    BY <1>3 DEF LogoutBegins, database
  <2>2. \A i \in Sessions : ~Current(i)' /\ (Saving(i)' <=> Saving(i))
    BY <1>0, <2>1 DEF Ordered, Current, Saving
  <2> QED
    BY <2>1, <2>2 DEF NothingBefore
<1>4. CASE LogoutParks
  <2>1. row' = NoSession /\ login' = login /\ WriterFree
    BY <1>4, Parked DEF LogoutParks
  <2> QED
    BY <2>1 DEF NothingBefore, Saving, WriterFree
<1>5. ASSUME NEW i \in Sessions, VerifyParks(i)
      PROVE  NothingBefore'
  <2>1. row' = NoSession /\ WriterFree
    BY <1>5, Parked DEF VerifyParks
  <2>2. login'[i].pc = "post" /\ \A j \in Sessions \ {i} : login'[j] = login[j]
    BY <1>5, LoginMoved DEF VerifyParks, LoginStep
  <2> QED
    BY <2>1, <2>2 DEF NothingBefore, Saving, WriterFree
<1>6. ASSUME NEW i \in Sessions, ServeLogin(i) \/ LoseLogin(i) \/ VerifyDiscards(i)
      PROVE  NothingBefore'
  <2>1. /\ UNCHANGED <<gen, row>>
        /\ login'[i].pc \in {"got", "over"} /\ login'[i].gen = login[i].gen
        /\ login'[i].pc = "got" => login[i].pc = "post"
        /\ \A j \in Sessions \ {i} : login'[j] = login[j]
    BY <1>6, LoginMoved
       DEF ServeLogin, LoseLogin, VerifyDiscards, LoginStep, database
  <2>2. \A j \in Sessions : Saving(j)' => Saving(j)
    BY <2>1 DEF Saving
  <2>3. WriterFree => WriterFree'
    BY <2>1 DEF WriterFree
  <2>4. \A j \in Sessions : Current(j)' /\ login'[j].pc # "park"
                              => Current(j) /\ login[j].pc # "park"
    BY <2>1 DEF Current
  <2> QED
    BY <2>1, <2>2, <2>3, <2>4 DEF NothingBefore
<1>7. ASSUME NEW i \in Sessions, VerifyChecks(i)
      PROVE  NothingBefore'
  <2>1. /\ UNCHANGED <<gen, row>> /\ login[i].pc = "got" /\ WriterFree
        /\ login'[i].pc = IF gen = login[i].gen THEN "save" ELSE "discard"
        /\ \A j \in Sessions \ {i} : login'[j] = login[j]
    BY <1>7, LoginMoved DEF VerifyChecks, StillWanted, LoginStep, database
  <2>2. ~Current(i)' /\ \A j \in Sessions \ {i} : /\ ~Saving(j)'
                                                  /\ Current(j)' <=> Current(j)
    BY <2>1 DEF WriterFree, Saving, Current
  <2>3. CASE Current(i)
    <3>1. row' = NoSession
      BY <2>1, <2>3 DEF NothingBefore
    <3>2. \A j \in Sessions : ~Current(j)'
      BY <2>2, <2>3 DEF Ordered
    <3> QED
      BY <2>2, <3>1, <3>2 DEF NothingBefore
  <2>4. CASE ~Current(i)
    <3>1. login'[i].pc = "discard"
      BY <2>1, <2>4 DEF Current
    <3>2. WriterFree' /\ ~Saving(i)'
      BY <2>1, <3>1 DEF WriterFree, Saving
    <3> QED
      BY <2>1, <2>2, <3>2 DEF NothingBefore
  <2> QED
    BY <2>3, <2>4
<1>8. ASSUME NEW i \in Sessions, VerifySaves(i)
      PROVE  NothingBefore'
  <2>1. gen' = gen /\ login[i].pc = "save" /\ login'[i].pc = "over"
        /\ \A j \in Sessions \ {i} : login'[j] = login[j]
    BY <1>8, LoginMoved DEF VerifySaves, LoginStep
  <2>2. Saving(i) /\ ~WriterFree
    BY <2>1 DEF Saving, WriterFree
  <2>3. \A j \in Sessions : ~Saving(j)'
    BY <2>1, <2>2 DEF NothingBefore, Saving
  <2>4. \A j \in Sessions : ~(Current(j)' /\ login'[j].pc # "park")
    BY <2>1, <2>2 DEF NothingBefore, Current
  <2> QED
    BY <2>3, <2>4 DEF NothingBefore
<1>9. CASE Crash
  <2>1. \A i \in Sessions :
          login'[i].pc = IF login[i].pc = "none" THEN "none" ELSE "over"
    BY <1>9 DEF Crash
  <2> QED
    BY <2>1 DEF NothingBefore, Current, Saving
<1> QED
  BY <1>1, <1>2, <1>3, <1>4, <1>5, <1>6, <1>7, <1>8, <1>9
  DEF Next, SignNext, Beyond

(* The active session is newer than any sign-out, and no proof is its.      *)
LEMMA LeftStaysLeftNext ==
  ASSUME IInv, [Next]_vars
  PROVE  LeftStaysLeft'
<1> USE DEF IInv
<1>1. SUFFICES ASSUME NEW s \in Sessions, row' # NoSession, row'.s = s
               PROVE  s > floor' /\ ~Held(s)'
  <2>1. Typed'
    BY TypedNext
  <2>2. row' # NoSession => row'.s \in Sessions
    BY <2>1, RowFacts DEF Typed, Row
  <2> QED
    BY <2>2 DEF LeftStaysLeft, Held
<1>2. row # NoSession => row.s > floor /\ ~Held(row.s)
  BY DEF LeftStaysLeft, Held
<1>3. CASE row # NoSession /\ row'.s = row.s /\ floor' = floor
  BY <1>1, <1>2, <1>3, HeldLess, RowFacts
<1>4. ASSUME NEW i \in Sessions, VerifySaves(i)
      PROVE  s > floor' /\ ~Held(s)'
  <2>1. s = i /\ floor' = floor /\ Saving(i) /\ login[i].pc # "over"
    BY <1>1, <1>4 DEF VerifySaves, Saving
  <2>2. i > floor
    BY <2>1, Numbers DEF Ordered, Typed
  <2>3. ~Held(i) /\ row.s # i
    BY <2>1 DEF Fresh, Unborn
  <2>4. ~Held(i)'
    BY <2>3, HeldLess
  <2> QED
    BY <2>1, <2>2, <2>4
<1>5. CASE SignNext
  <2>1. ASSUME NEW i \in Sessions, ServeLogin(i) \/ LoseLogin(i)
                                   \/ VerifyChecks(i) \/ VerifyDiscards(i)
        PROVE  row' = row /\ floor' = floor
    BY <2>1 DEF ServeLogin, LoseLogin, VerifyChecks, VerifyDiscards, database
  <2>2. CASE VerifyBegins \/ LogoutBegins
    BY <1>1, <1>3, <2>2 DEF VerifyBegins, LogoutBegins, database
  <2>3. CASE LogoutParks
    BY <1>1, <2>3, Parked DEF LogoutParks
  <2>4. ASSUME NEW i \in Sessions, VerifyParks(i)
        PROVE  FALSE
    BY <1>1, <2>4, Parked DEF VerifyParks
  <2> QED
    BY <1>1, <1>3, <1>4, <1>5, <2>1, <2>2, <2>3, <2>4 DEF SignNext
<1>6. CASE Beyond
  BY <1>1, <1>3, <1>6, BeyondSigning, BeyondRow
<1>7. CASE Crash
  BY <1>1, <1>3, <1>7 DEF Crash, database
<1> QED
  BY <1>5, <1>6, <1>7 DEF Next, Beyond

-----------------------------------------------------------------------------
(***************************************************************************)
(* Nothing knows a session before its sign-in has stored it.               *)
(***************************************************************************)

(* What a step does to what knows session j, proofs apart.                  *)
Ignores(j) ==
  /\ row'.s = row.s \/ row'.s # j
  /\ fate'[j] = fate[j]
  /\ session'[j].k = session[j].k
  /\ refresh'[j].pc = refresh[j].pc
  /\ \A t \in wire' : t \in wire \/ t.s # j
  /\ \A c \in Calls : call'[c].s = call[c].s \/ call'[c].s # j

(* A step that ignores a session leaves it unknown.                         *)
LEMMA StaysUnborn ==
  ASSUME Typed, [Next]_vars, NEW j \in Sessions, Unborn(j), Ignores(j)
  PROVE  Unborn(j)'
<1>1. ~Held(j)'
  BY HeldLess DEF Unborn
<1>2. j # 0
  BY Numbers
<1> QED
  BY <1>1, <1>2 DEF Unborn, Ignores

(* The end of a task ignores every other session.                           *)
LEMMA DoneIgnores ==
  ASSUME Typed, NEW s \in Sessions, Done(s), NEW j \in Sessions, j # s
  PROVE  /\ refresh'[j].pc = refresh[j].pc
         /\ \A c \in Calls : call'[c].s = call[c].s \/ call'[c].s # j
BY Numbers DEF Done

(* The steps that are no sign-in ignore a session that is not stored yet.   *)
LEMMA BeyondIgnores ==
  ASSUME Typed, Guards, Beyond, NEW j \in Sessions, Unborn(j)
  PROVE  Ignores(j)
<1> USE DEF service, database, signing, bounds
<1>0. row'.s = row.s \/ row'.s # j
  BY BeyondRow, Numbers
<1>1. CASE RevokeNext
  <2>1. ASSUME NEW p \in post, ServeRevoke(p)
        PROVE  Ignores(j)
    <3>1. Aged(p.s) /\ p.s \in Sessions
      BY <2>1, PostFacts, RevokeServed, SessionAged
    <3> QED
      BY <2>1, <3>1 DEF ServeRevoke, Aged, Ignores
  <2>2. ASSUME NEW p \in post, LoseRevoke(p)
        PROVE  Ignores(j)
    BY <2>2 DEF LoseRevoke, Ignores
  <2>3. ASSUME NEW p \in post, RevokeEnds(p)
        PROVE  Ignores(j)
    <3>1. p.s # j
      BY DEF Unborn, Held
    <3>2. fate'[j] = fate[j]
      BY <2>3, <3>1 DEF RevokeEnds, Typed
    <3> QED
      BY <2>3, <3>2 DEF RevokeEnds, Ignores
  <2> QED
    BY <1>1, <2>1, <2>2, <2>3
    DEF RevokeNext, DrainLists, DrainPosts, DrainEnds, Ignores
<1>2. CASE RefreshNext
  <2>1. ASSUME NEW s \in Sessions,
               refresh[s].pc # "none" \/ refresh[s].ans # "none"
        PROVE  s # j
    BY <2>1 DEF Unborn, Guards, TaskGuarded
  <2>2. ASSUME NEW s \in Sessions, RefreshReads(s)
        PROVE  Ignores(j)
    <3>1. s # j
      BY <2>1, <2>2 DEF RefreshReads
    <3>2. /\ refresh'[j].pc = refresh[j].pc
          /\ \A c \in Calls : call'[c].s = call[c].s \/ call'[c].s # j
      BY <2>2, <3>1, ReadDone, DoneIgnores, TaskMoved
    <3> QED
      BY <2>2, <3>2, <1>0 DEF RefreshReads, Ignores
  <2>3. ASSUME NEW s \in Sessions, RefreshClaims(s)
        PROVE  Ignores(j)
    <3>1. s # j
      BY <2>1, <2>3 DEF RefreshClaims
    <3>2. /\ refresh'[j].pc = refresh[j].pc
          /\ \A c \in Calls : call'[c].s = call[c].s \/ call'[c].s # j
      BY <2>3, <3>1, ClaimDone, DoneIgnores, TaskMoved
    <3>3. \A t \in wire' : t \in wire \/ t.s # j
      BY <2>3, <3>1, ClaimDone
    <3> QED
      BY <2>3, <3>2, <3>3, <1>0 DEF RefreshClaims, Ignores
  <2>4. ASSUME NEW s \in Sessions, RefreshKeeps(s) \/ RefreshUnguards(s)
        PROVE  Ignores(j)
    <3>1. s # j
      BY <2>1, <2>4 DEF RefreshKeeps, RefreshUnguards
    <3>2. /\ refresh'[j].pc = refresh[j].pc
          /\ \A c \in Calls : call'[c].s = call[c].s \/ call'[c].s # j
      BY <2>4, <3>1, KeepDone, UnguardDone, DoneIgnores
    <3> QED
      BY <2>4, <3>2, <1>0 DEF RefreshKeeps, RefreshUnguards, Ignores
  <2>5. ASSUME NEW s \in Sessions, RefreshDrops(s) \/ LoseRefresh(s)
        PROVE  Ignores(j)
    <3>1. s # j
      BY <2>1, <2>5 DEF RefreshDrops, LoseRefresh
    <3>2. /\ refresh'[j].pc = refresh[j].pc
          /\ \A c \in Calls : call'[c].s = call[c].s \/ call'[c].s # j
      BY <2>5, <3>1, DropDone, DoneIgnores
    <3>3. fate'[j] = fate[j] /\ wire' \subseteq wire
      BY <2>5, <3>1 DEF RefreshDrops, LoseRefresh, Typed
    <3> QED
      BY <2>5, <3>2, <3>3, <1>0 DEF RefreshDrops, LoseRefresh, Ignores
  <2>6. ASSUME NEW t \in wire, ServeRefresh(t) \/ RejectRefresh(t)
        PROVE  Ignores(j)
    <3>1. t.s # j /\ t.s \in Sessions
      BY WireFacts DEF Unborn
    <3>2. refresh'[j].pc = refresh[j].pc
      BY <2>6, <3>1, TaskAnswered DEF ServeRefresh, RejectRefresh
    <3>3. session'[j].k = session[j].k
      BY <2>6, <3>1, SessionAged, SessionRotated
         DEF ServeRefresh, RejectRefresh, Aged
    <3> QED
      BY <2>6, <3>2, <3>3, <1>0 DEF ServeRefresh, RejectRefresh, Ignores
  <2> QED
    BY <1>2, <2>2, <2>3, <2>4, <2>5, <2>6 DEF RefreshNext
<1>3. CASE CallNext
  <2>1. ASSUME NEW c \in Calls, NEW s \in Sessions, Asked(c, s), s # j
        PROVE  /\ refresh'[j].pc = refresh[j].pc
               /\ \A d \in Calls : call'[d].s = call[d].s \/ call'[d].s # j
    BY <2>1 DEF Asked
  <2>2. ASSUME NEW c \in Calls, Moved(c)
        PROVE  \A d \in Calls : call'[d].s = call[d].s \/ call'[d].s # j
    BY <2>2, Numbers DEF Moved
  <2>3. ASSUME NEW c \in Calls, CallStarts(c)
        PROVE  Ignores(j)
    <3>1. row.s # j
      BY DEF Unborn
    <3>2. /\ refresh'[j].pc = refresh[j].pc
          /\ \A d \in Calls : call'[d].s = call[d].s \/ call'[d].s # j
      BY <2>1, <2>3, <3>1, StartDone
    <3> QED
      BY <2>3, <3>2, <1>0 DEF CallStarts, Ignores
  <2>4. ASSUME NEW c \in Calls, ServeCall(c)
        PROVE  Ignores(j)
    <3>1. session'[j].k = session[j].k
      BY <2>4, CallServed DEF Aged
    <3> QED
      BY <2>2, <2>4, <3>1, <1>0, CallServed DEF ServeCall, Ignores
  <2>5. ASSUME NEW c \in Calls, LoseCall(c)
        PROVE  Ignores(j)
    BY <2>2, <2>5, <1>0, CallLost DEF LoseCall, Ignores
  <2>6. ASSUME NEW c \in Calls, CallRenews(c)
        PROVE  Ignores(j)
    <3>1. call[c].s # j
      BY DEF Unborn
    <3>2. /\ refresh'[j].pc = refresh[j].pc
          /\ \A d \in Calls : call'[d].s = call[d].s \/ call'[d].s # j
      BY <2>1, <2>6, <3>1, RenewDone
    <3> QED
      BY <2>6, <3>2, <1>0 DEF CallRenews, Ignores
  <2>7. ASSUME NEW c \in Calls, CallClears(c)
        PROVE  Ignores(j)
    <3>1. call[c].s # j
      BY DEF Unborn
    <3>2. fate'[j] = fate[j]
      BY <2>7, <3>1 DEF CallClears, Typed
    <3>3. Moved(c)
      BY <2>7, CallOver DEF CallClears
    <3> QED
      BY <2>2, <2>7, <3>2, <3>3, <1>0 DEF CallClears, Ignores
  <2> QED
    BY <1>3, <2>3, <2>4, <2>5, <2>6, <2>7 DEF CallNext
<1>4. CASE ServiceNext
  <2>1. session'[j].k = session[j].k
    BY <1>4, ServiceDone DEF Aged
  <2> QED
    BY <1>4, <2>1 DEF ServiceNext, AccessDies, TokenLapses, RevokedElsewhere,
                      Ignores
<1>5. CASE UNCHANGED vars
  BY <1>5 DEF vars, Ignores
<1> QED
  BY <1>1, <1>2, <1>3, <1>4, <1>5 DEF Beyond

(* A session is unknown until its sign-in is over.                          *)
LEMMA FreshNext ==
  ASSUME IInv, [Next]_vars
  PROVE  Fresh'
<1> USE DEF IInv, service, database, signing, bounds
<1>1. SUFFICES ASSUME NEW j \in Sessions, login'[j].pc # "over"
               PROVE  Unborn(j)'
  BY DEF Fresh
<1>2. SUFFICES Unborn(j) /\ Ignores(j)
  BY StaysUnborn
<1>3. CASE Beyond
  BY <1>1, <1>3, BeyondSigning, BeyondIgnores DEF Fresh
<1>4. CASE VerifyBegins
  <2>1. login[j].pc # "over"
    <3>1. \A i \in Sessions \ {begun'} : login'[i] = login[i]
      BY <1>4, LoginBegun
    <3>2. login[begun'].pc = "none"
      BY <1>4, LoginBegun, Numbers DEF Ordered, Typed
    <3> QED
      BY <1>1, <3>1, <3>2
  <2> QED
    BY <1>4, <2>1 DEF VerifyBegins, Fresh, Ignores
<1>5. CASE LogoutBegins
  BY <1>1, <1>5 DEF LogoutBegins, Fresh, Ignores
<1>6. CASE LogoutParks
  BY <1>1, <1>6, Parked, Numbers DEF LogoutParks, Fresh, Ignores
<1>7. ASSUME NEW i \in Sessions, VerifyParks(i)
      PROVE  Unborn(j) /\ Ignores(j)
  <2>1. login[j].pc # "over"
    BY <1>1, <1>7, LoginMoved DEF VerifyParks, LoginStep
  <2> QED
    BY <1>7, <2>1, Parked, Numbers DEF VerifyParks, Fresh, Ignores
<1>8. ASSUME NEW i \in Sessions,
             ServeLogin(i) \/ LoseLogin(i) \/ VerifyChecks(i) \/ VerifyDiscards(i)
      PROVE  Unborn(j) /\ Ignores(j)
  <2>1. login[j].pc # "over"
    BY <1>1, <1>8, LoginMoved
    DEF ServeLogin, LoseLogin, VerifyChecks, VerifyDiscards, LoginStep
  <2>2. session'[j].k = session[j].k
    BY <1>8, SessionMoved, SessionAged
    DEF ServeLogin, LoseLogin, VerifyChecks, VerifyDiscards, Aged
  <2> QED
    BY <1>8, <2>1, <2>2
    DEF ServeLogin, LoseLogin, VerifyChecks, VerifyDiscards, Fresh, Ignores
<1>9. ASSUME NEW i \in Sessions, VerifySaves(i)
      PROVE  Unborn(j) /\ Ignores(j)
  <2>1. i # j /\ login[j].pc # "over"
    BY <1>1, <1>9, LoginMoved DEF VerifySaves, LoginStep
  <2>2. fate'[j] = fate[j] /\ row'.s = i
    BY <1>9, <2>1 DEF VerifySaves, Typed
  <2> QED
    BY <1>9, <2>1, <2>2 DEF VerifySaves, Fresh, Ignores
<1>10. CASE Crash
  <2>1. login[j].pc = "none"
    BY <1>1, <1>10 DEF Crash
  <2>2. Unborn(j)
    BY <2>1 DEF Fresh
  <2>3. fate'[j] = fate[j] /\ refresh'[j].pc = refresh[j].pc
    BY <1>10, <2>2, Numbers DEF Crash, Unborn
  <2>4. \A c \in Calls : call'[c].s # j
    BY <1>10, Numbers DEF Crash
  <2> QED
    BY <1>10, <2>2, <2>3, <2>4 DEF Crash, Ignores
<1> QED
  BY <1>3, <1>4, <1>5, <1>6, <1>7, <1>8, <1>9, <1>10 DEF Next, SignNext, Beyond

-----------------------------------------------------------------------------
(***************************************************************************)
(* The guards.                                                             *)
(***************************************************************************)

(* A session that grows older does not come back to life.                   *)
LEMMA AgedDead ==
  ASSUME Typed, NEW s \in Sessions, Aged(s), NEW j \in Sessions
  PROVE  /\ session'[j].k = session[j].k
         /\ Live(j)' => Live(j)
         /\ session[j].st = "revoked" => session'[j].st = "revoked"
<1>1. /\ session[s].k \in Nat /\ session[s].lapsed \in Nat
      /\ session'[s].k \in Nat /\ session'[s].lapsed \in Nat
  BY DEF Typed, Aged, SessionState
<1> QED
  BY <1>1 DEF Aged, Live

(* The guards hold when tokens keep and rows only go.                       *)
LEMMA GuardsKept ==
  ASSUME Typed, Guards, row' \in {row, NoSession}, wire' \subseteq wire,
         \A s \in Sessions : refresh'[s] = refresh[s],
         \A j \in Sessions : /\ session'[j].k = session[j].k
                             /\ refresh[j].pc = "post" /\ Live(j)' => Live(j),
         row' # NoSession => fate'[row.s] = fate[row.s]
  PROVE  Guards'
<1>1. ASSUME NEW s \in Sessions
      PROVE  TaskGuarded(s)'
  <2>1. TaskGuarded(s) /\ refresh'[s] = refresh[s]
    BY DEF Guards
  <2>2. row'.s = s => row' = row
    BY Numbers
  <2> QED
    BY <2>1, <2>2 DEF TaskGuarded, Posted
<1>2. ASSUME NEW t \in wire'
      PROVE  WireGuarded(t)'
  <2>1. WireGuarded(t) /\ t.s \in Sessions
    BY WireFacts DEF Guards
  <2>2. row'.s = t.s => row' = row
    BY <2>1, Numbers
  <2> QED
    BY <2>1, <2>2 DEF WireGuarded
<1>3. RowGuarded'
  BY RowFacts DEF Guards, RowGuarded
<1> QED
  BY <1>1, <1>2, <1>3 DEF Guards

(* When a task ends, its session's row and tokens are looked at anew.       *)
LEMMA GuardsDone ==
  ASSUME Typed, Guards, NEW s \in Sessions, Done(s), session' = session,
         wire' \subseteq wire, RowGuarded',
         \A t \in wire' : t.s = s => WireGuarded(t)',
         row'.s = s \/ row' = row
  PROVE  Guards'
<1>1. ASSUME NEW j \in Sessions
      PROVE  TaskGuarded(j)'
  <2>1. CASE j = s
    BY <2>1, Numbers DEF Done, TaskGuarded
  <2>2. CASE j # s
    <3>1. refresh'[j] = refresh[j] /\ TaskGuarded(j)
      BY <2>2 DEF Done, Guards
    <3>2. row'.s = j => row' = row
      BY <2>2
    <3> QED
      BY <3>1, <3>2 DEF TaskGuarded, Posted, Live
  <2> QED
    BY <2>1, <2>2
<1>2. ASSUME NEW t \in wire'
      PROVE  WireGuarded(t)'
  <2>1. CASE t.s = s
    BY <2>1
  <2>2. CASE t.s # s
    <3>1. row'.s = t.s => row' = row
      BY <2>2
    <3>2. WireGuarded(t)
      BY DEF Guards
    <3> QED
      BY <3>1, <3>2 DEF WireGuarded
  <2> QED
    BY <2>1, <2>2
<1> QED
  BY <1>1, <1>2 DEF Guards

(* Signing in and out keeps the guards.                                     *)
LEMMA SignGuards ==
  ASSUME IInv, SignNext
  PROVE  Guards'
<1> USE DEF IInv, service, database, signing, bounds
<1>1. CASE VerifyBegins \/ LogoutBegins
  BY <1>1, GuardsKept DEF VerifyBegins, LogoutBegins, Live
<1>2. CASE LogoutParks
  BY <1>2, Parked, GuardsKept DEF LogoutParks, Live
<1>3. ASSUME NEW i \in Sessions, VerifyParks(i)
      PROVE  Guards'
  BY <1>3, Parked, GuardsKept DEF VerifyParks, Live
<1>4. ASSUME NEW i \in Sessions, ServeLogin(i) \/ LoseLogin(i)
      PROVE  Guards'
  <2>1. refresh[i].pc = "none"
    BY <1>4 DEF ServeLogin, LoseLogin, Fresh, Unborn
  <2>2. \A j \in Sessions : /\ session'[j].k = session[j].k
                            /\ refresh[j].pc = "post" => session'[j] = session[j]
    BY <1>4, <2>1, SessionMoved DEF ServeLogin, LoseLogin
  <2>3. UNCHANGED <<row, wire, refresh, fate>>
    BY <1>4 DEF ServeLogin, LoseLogin
  <2> QED
    BY <2>2, <2>3, GuardsKept DEF Live
<1>5. ASSUME NEW i \in Sessions, VerifyChecks(i)
      PROVE  Guards'
  BY <1>5, GuardsKept DEF VerifyChecks, Live
<1>6. ASSUME NEW i \in Sessions, VerifyDiscards(i)
      PROVE  Guards'
  <2>1. Aged(i)
    BY <1>6, SessionAged DEF VerifyDiscards
  <2>2. UNCHANGED <<row, wire, refresh, fate>>
    BY <1>6 DEF VerifyDiscards
  <2> QED
    BY <2>1, <2>2, AgedDead, GuardsKept
<1>7. ASSUME NEW i \in Sessions, VerifySaves(i)
      PROVE  Guards'
  <2>1. /\ row' = [s |-> i, k |-> 1, unc |-> FALSE] /\ Unborn(i)
        /\ UNCHANGED <<session, wire, refresh>> /\ fate'[i] = "kept"
    BY <1>7 DEF VerifySaves, Fresh, Typed
  <2>2. ASSUME NEW s \in Sessions
        PROVE  TaskGuarded(s)'
    BY <2>1 DEF Guards, TaskGuarded, Posted, Unborn, Live
  <2>3. ASSUME NEW t \in wire'
        PROVE  WireGuarded(t)'
    BY <2>1 DEF Guards, WireGuarded, Unborn
  <2>4. RowGuarded'
    BY <2>1 DEF RowGuarded, Unborn
  <2> QED
    BY <2>2, <2>3, <2>4 DEF Guards
<1> QED
  BY <1>1, <1>2, <1>3, <1>4, <1>5, <1>6, <1>7 DEF SignNext

(* Revoking what was left keeps the guards.                                 *)
LEMMA RevokeGuards ==
  ASSUME IInv, RevokeNext
  PROVE  Guards'
<1> USE DEF IInv, service, database, signing, bounds
<1>1. ASSUME NEW p \in post, ServeRevoke(p)
      PROVE  Guards'
  <2>1. Aged(p.s) /\ p.s \in Sessions
    BY <1>1, PostFacts, RevokeServed, SessionAged
  <2>2. UNCHANGED <<row, wire, refresh, fate>>
    BY <1>1 DEF ServeRevoke
  <2> QED
    BY <2>1, <2>2, AgedDead, GuardsKept
<1>2. ASSUME NEW p \in post, RevokeEnds(p)
      PROVE  Guards'
  <2>1. row # NoSession => p.s # row.s /\ row.s \in Sessions
    BY RowFacts DEF LeftStaysLeft
  <2>2. row # NoSession => fate'[row.s] = fate[row.s]
    BY <1>2, <2>1 DEF RevokeEnds, Typed
  <2>3. UNCHANGED <<row, wire, refresh, session>>
    BY <1>2 DEF RevokeEnds
  <2> QED
    BY <2>2, <2>3, GuardsKept DEF Live
<1>3. CASE UNCHANGED <<service, row, refresh, fate>>
  BY <1>3, GuardsKept DEF Live
<1> QED
  BY <1>1, <1>2, <1>3 DEF RevokeNext, LoseRevoke, DrainLists, DrainPosts, DrainEnds

(* Requests, time and other devices keep the guards.                        *)
LEMMA CallGuards ==
  ASSUME IInv, CallNext \/ ServiceNext
  PROVE  Guards'
<1> USE DEF IInv, service, database, signing, bounds
<1>1. ASSUME NEW c \in Calls, NEW s \in Sessions, Asked(c, s),
             UNCHANGED <<service, row, fate>>
      PROVE  Guards'
  <2>1. ASSUME NEW j \in Sessions
        PROVE  /\ refresh'[j] = refresh[j] \/ (/\ refresh[j].pc = "none"
                                               /\ refresh'[j].pc = "read"
                                               /\ refresh'[j].ans = "none")
    BY <1>1 DEF Asked
  <2>2. ASSUME NEW j \in Sessions
        PROVE  TaskGuarded(j)'
    BY <1>1, <2>1 DEF Guards, TaskGuarded, Posted, Live
  <2>3. ASSUME NEW t \in wire'
        PROVE  WireGuarded(t)'
    BY <1>1 DEF Guards, WireGuarded
  <2>4. RowGuarded'
    BY <1>1, <2>1, RowFacts DEF Guards, RowGuarded
  <2> QED
    BY <2>2, <2>3, <2>4 DEF Guards
<1>2. ASSUME NEW c \in Calls, CallStarts(c)
      PROVE  Guards'
  <2>1. UNCHANGED <<service, row, fate>>
    BY <1>2 DEF CallStarts
  <2> QED
    BY <1>1, <1>2, <2>1, StartDone, GuardsKept DEF Live
<1>3. ASSUME NEW c \in Calls, CallRenews(c)
      PROVE  Guards'
  BY <1>1, <1>3, RenewDone DEF CallRenews
<1>4. ASSUME NEW c \in Calls, ServeCall(c)
      PROVE  Guards'
  <2>1. UNCHANGED <<row, wire, refresh, fate>>
    BY <1>4 DEF ServeCall
  <2> QED
    BY <1>4, <2>1, CallServed, AgedDead, GuardsKept
<1>5. ASSUME NEW c \in Calls, LoseCall(c)
      PROVE  Guards'
  BY <1>5, GuardsKept DEF LoseCall, Live
<1>6. ASSUME NEW c \in Calls, CallClears(c)
      PROVE  Guards'
  <2>1. row' \in {row, NoSession} /\ UNCHANGED <<service, refresh>>
    BY <1>6 DEF CallClears, Cleared
  <2>2. row' # NoSession => row.s # call[c].s /\ row.s \in Sessions
    BY <1>6, <2>1, RowFacts DEF CallClears, Cleared
  <2>3. row' # NoSession => fate'[row.s] = fate[row.s]
    BY <1>6, <2>2 DEF CallClears, Typed
  <2> QED
    BY <2>1, <2>3, GuardsKept DEF Live
<1>7. CASE ServiceNext
  <2>1. UNCHANGED <<row, wire, refresh, fate>>
    BY <1>7 DEF ServiceNext, AccessDies, TokenLapses, RevokedElsewhere
  <2> QED
    BY <1>7, <2>1, ServiceDone, AgedDead, GuardsKept
<1> QED
  BY <1>2, <1>3, <1>4, <1>5, <1>6, <1>7 DEF CallNext

(* Refreshing keeps the guards.                                             *)
LEMMA RefreshGuards ==
  ASSUME IInv, RefreshNext
  PROVE  Guards'
<1> USE DEF IInv, service, database, signing, bounds
<1>1. ASSUME NEW s \in Sessions, RefreshReads(s)
      PROVE  Guards'
  <2>1. UNCHANGED <<service, row, fate>> /\ refresh[s].pc = "read"
    BY <1>1 DEF RefreshReads
  <2>2. TaskGuarded(s) /\ refresh[s].ans = "none"
    BY <2>1 DEF Guards, TaskGuarded
  <2>3. CASE Done(s)
    <3>1. RowGuarded'
      BY <2>1, <2>3, RowFacts DEF Guards, RowGuarded, Done
    <3>2. \A t \in wire' : WireGuarded(t)'
      BY <2>1 DEF Guards, WireGuarded
    <3> QED
      BY <2>1, <2>3, <3>1, <3>2, GuardsDone
  <2>4. ASSUME NEW x \in {"claim", "drop"}, ~row.unc,
               refresh' = [refresh EXCEPT ![s].pc = x]
        PROVE  Guards'
    <3>1. /\ refresh'[s].pc = x /\ refresh'[s].ans = "none"
          /\ \A j \in Sessions \ {s} : refresh'[j] = refresh[j]
      BY <2>2, <2>4, TaskMoved
    <3>2. ASSUME NEW j \in Sessions
          PROVE  TaskGuarded(j)'
      BY <2>1, <2>4, <3>1 DEF Guards, TaskGuarded, Posted, Live
    <3>3. ASSUME NEW t \in wire'
          PROVE  WireGuarded(t)'
      BY <2>1 DEF Guards, WireGuarded
    <3>4. RowGuarded'
      BY <2>1, <2>4 DEF Guards, RowGuarded
    <3> QED
      BY <3>2, <3>3, <3>4 DEF Guards
  <2> QED
    BY <1>1, <2>3, <2>4, ReadDone
<1>2. ASSUME NEW s \in Sessions, RefreshClaims(s)
      PROVE  Guards'
  <2>1. UNCHANGED <<session, fate>> /\ refresh[s].pc = "claim"
    BY <1>2 DEF RefreshClaims
  <2>2. TaskGuarded(s) /\ refresh[s].ans = "none"
    BY <2>1 DEF Guards, TaskGuarded
  <2>3. CASE Done(s) /\ row' = row /\ wire' = wire
    <3>1. RowGuarded'
      BY <2>1, <2>3, RowFacts DEF Guards, RowGuarded, Done
    <3>2. \A t \in wire' : WireGuarded(t)'
      BY <2>1, <2>3 DEF Guards, WireGuarded
    <3> QED
      BY <2>1, <2>3, <3>1, <3>2, GuardsDone
  <2>4. CASE /\ row.s = s /\ row.k = refresh[s].k /\ ~row.unc
             /\ row' = [s |-> s, k |-> row.k, unc |-> TRUE]
             /\ wire' = wire \cup {[s |-> s, k |-> row.k]}
             /\ refresh' = [refresh EXCEPT ![s].pc = "post"]
    <3>1. /\ refresh'[s].pc = "post" /\ refresh'[s].ans = "none"
          /\ refresh'[s].k = refresh[s].k
          /\ \A j \in Sessions \ {s} : refresh'[j] = refresh[j]
      BY <2>2, <2>4, TaskMoved
    <3>2. row # NoSession /\ row.k = session[s].k /\ fate[s] \in {"kept", "guarded"}
      BY <2>4, TaskFacts DEF Guards, RowGuarded
    <3>3. TaskGuarded(s)'
      BY <2>1, <2>4, <3>1, <3>2, TaskFacts DEF TaskGuarded, Posted
    <3>4. ASSUME NEW j \in Sessions \ {s}
          PROVE  TaskGuarded(j)'
      <4>1. TaskGuarded(j) /\ refresh'[j] = refresh[j] /\ row'.s # j
        BY <2>4, <3>1 DEF Guards
      <4>2. \A t \in wire' : t \in wire \/ t.s # j
        BY <2>4
      <4> QED
        BY <2>1, <4>1, <4>2 DEF TaskGuarded, Posted, Live
    <3>5. ASSUME NEW t \in wire'
          PROVE  WireGuarded(t)'
      BY <2>1, <2>4, <3>2 DEF Guards, WireGuarded
    <3>6. RowGuarded'
      BY <2>1, <2>4, <3>1, <3>2 DEF RowGuarded
    <3> QED
      BY <3>3, <3>4, <3>5, <3>6 DEF Guards
  <2> QED
    BY <1>2, <2>3, <2>4, ClaimDone
<1>3. ASSUME NEW s \in Sessions, RefreshKeeps(s) \/ RefreshUnguards(s)
      PROVE  Guards'
  <2>1. /\ UNCHANGED <<service, fate>>
        /\ refresh[s].pc = "post" /\ refresh[s].ans \in {"rotated", "rejected"}
    BY <1>3 DEF RefreshKeeps, RefreshUnguards
  <2>2. Posted(s) /\ \A t \in wire : t.s # s
    BY <2>1 DEF Guards, TaskGuarded, Posted
  <2>3. CASE row' = row /\ ~Stored(s, refresh[s].k)
    <3>1. row.s # s
      BY <2>2, <2>3 DEF Posted, Stored
    <3>2. RowGuarded'
      BY <1>3, <2>1, <2>3, <3>1, RowFacts, KeepDone, UnguardDone
      DEF Guards, RowGuarded, Done
    <3> QED
      BY <1>3, <2>1, <2>2, <2>3, <3>2, KeepDone, UnguardDone, GuardsDone
  <2>4. CASE /\ Stored(s, refresh[s].k)
             /\ row' = [s |-> s, k |-> session[s].k, unc |-> FALSE]
    <3>1. fate[s] \in {"kept", "guarded"}
      BY <2>4, TaskFacts DEF Guards, RowGuarded, Stored
    <3>2. RowGuarded'
      BY <2>1, <2>4, <3>1 DEF RowGuarded
    <3>3. row'.s = s
      BY <2>4
    <3> QED
      BY <1>3, <2>1, <2>2, <3>2, <3>3, KeepDone, UnguardDone, GuardsDone
  <2>5. CASE RefreshKeeps(s)
    <3>1. session[s].k = refresh[s].k + 1
      BY <2>2, <2>5, TaskFacts DEF RefreshKeeps, Posted
    <3> QED
      BY <2>3, <2>4, <2>5, <3>1, KeepDone
  <2>6. CASE RefreshUnguards(s)
    <3>1. session[s].k = refresh[s].k
      BY <2>2, <2>6, TaskFacts DEF RefreshUnguards, Posted
    <3> QED
      BY <2>3, <2>4, <2>6, <3>1, UnguardDone
  <2> QED
    BY <1>3, <2>5, <2>6
<1>4. ASSUME NEW s \in Sessions, RefreshDrops(s)
      PROVE  Guards'
  <2>1. /\ Done(s) /\ UNCHANGED service
        /\ row' = NoSession \/ (row' = row /\ row.s # s)
        /\ \A j \in Sessions \ {s} : fate'[j] = fate[j]
    BY <1>4, DropDone DEF RefreshDrops, Cleared, Typed
  <2>2. RowGuarded'
    BY <2>1, RowFacts DEF Guards, RowGuarded, Done
  <2>3. \A t \in wire' : t.s = s => WireGuarded(t)'
    BY <2>1, Numbers, WireFacts DEF Guards, WireGuarded
  <2>4. CASE row' = row
    BY <2>1, <2>2, <2>3, <2>4, GuardsDone
  <2>5. CASE row' = NoSession
    <3>1. ASSUME NEW j \in Sessions
          PROVE  TaskGuarded(j)'
      <4>1. CASE j = s
        BY <2>1, <4>1, Numbers DEF Done, TaskGuarded
      <4>2. CASE j # s
        <5>1. refresh'[j] = refresh[j] /\ TaskGuarded(j)
          BY <2>1, <4>2 DEF Done, Guards
        <5> QED
          BY <2>1, <2>5, <5>1, Numbers DEF TaskGuarded, Posted, Live
      <4> QED
        BY <4>1, <4>2
    <3>2. ASSUME NEW t \in wire'
          PROVE  WireGuarded(t)'
      BY <2>1, <2>5, Numbers, WireFacts DEF Guards, WireGuarded
    <3> QED
      BY <2>2, <3>1, <3>2 DEF Guards
  <2> QED
    BY <2>1, <2>4, <2>5
<1>5. ASSUME NEW s \in Sessions, LoseRefresh(s)
      PROVE  Guards'
  <2>1. /\ Done(s) /\ UNCHANGED <<session, row>> /\ wire' \subseteq wire
        /\ \A j \in Sessions \ {s} : fate'[j] = fate[j]
        /\ fate'[s] = IF fate[s] = "kept" THEN "guarded" ELSE fate[s]
        /\ refresh[s].pc = "post"
    BY <1>5, DropDone DEF LoseRefresh, LostGuard, Typed
  <2>2. row.s = s => row.unc
    BY <2>1 DEF Guards, TaskGuarded, Posted
  <2>3. RowGuarded'
    BY <2>1, <2>2, RowFacts DEF Guards, RowGuarded, Done
  <2>4. \A t \in wire' : WireGuarded(t)'
    BY <2>1 DEF Guards, WireGuarded
  <2> QED
    BY <2>1, <2>3, <2>4, GuardsDone
<1>6. ASSUME NEW t \in wire, ServeRefresh(t) \/ RejectRefresh(t)
      PROVE  Guards'
  <2> DEFINE s == t.s
  <2>1. /\ s \in Sessions /\ t.k = session[s].k /\ (row.s = s => row.unc)
        /\ wire' = wire \ {t} /\ UNCHANGED <<row, fate>>
    BY <1>6, WireFacts DEF ServeRefresh, RejectRefresh, Guards, WireGuarded
  <2>2. \A u \in wire' : u \in wire /\ u.s # s
    BY <2>1 DEF Guards, WireGuarded, Typed, Token
  <2>3. refresh[s].pc = "post" => refresh[s].ans = "none"
    BY <2>1 DEF Guards, TaskGuarded, Posted
  <2>4. \E x \in {"rotated", "rejected", "refused"} :
          /\ Answered(t, x)
          /\ x = "rotated" => session' = [session EXCEPT ![s].k = @ + 1]
          /\ x # "rotated" => session' = session
          /\ x = "refused" => ~Live(s)
    <3>1. CASE RejectRefresh(t)
      BY <3>1 DEF RejectRefresh
    <3>2. CASE ServeRefresh(t)
      <4>1. ~(t.k < session[s].k)
        BY <2>1, TaskFacts
      <4> QED
        BY <3>2, <4>1 DEF ServeRefresh
    <3> QED
      BY <1>6, <3>1, <3>2
  <2>5. PICK x \in {"rotated", "rejected", "refused"} :
          /\ Answered(t, x)
          /\ x = "rotated" => session' = [session EXCEPT ![s].k = @ + 1]
          /\ x # "rotated" => session' = session
          /\ x = "refused" => ~Live(s)
    BY <2>4
  <2>6. /\ session'[s].k = session[s].k + (IF x = "rotated" THEN 1 ELSE 0)
        /\ x # "rotated" => (Live(s)' <=> Live(s))
        /\ \A j \in Sessions \ {s} : session'[j] = session[j]
    BY <2>1, <2>5, SessionRotated, TaskFacts DEF Live
  <2>7. /\ refresh'[s].pc = refresh[s].pc /\ refresh'[s].k = refresh[s].k
        /\ refresh'[s].ans = IF refresh[s].pc = "post" THEN x ELSE refresh[s].ans
        /\ \A j \in Sessions \ {s} : refresh'[j] = refresh[j]
    BY <2>1, <2>3, <2>5, TaskAnswered DEF Waits
  <2> HIDE DEF s
  <2>8. TaskGuarded(s)'
    <3>1. TaskGuarded(s) /\ row' = row
      BY <2>1 DEF Guards
    <3>2. CASE refresh[s].pc # "post"
      BY <2>7, <3>1, <3>2 DEF TaskGuarded
    <3>3. CASE refresh[s].pc = "post"
      <4>1. session[s].k = refresh[s].k
        BY <2>1, <2>3, <3>1, <3>3, TaskFacts DEF TaskGuarded, Posted
      <4>2. row.s = s => row.unc /\ row.k = refresh[s].k
        BY <3>1, <3>3 DEF TaskGuarded, Posted
      <4>3. Posted(s)'
        BY <2>1, <2>2, <2>5, <2>6, <2>7, <3>3, <4>1, <4>2, TaskFacts DEF Posted
      <4> QED
        BY <2>7, <3>3, <4>3 DEF TaskGuarded
    <3> QED
      BY <3>2, <3>3
  <2>9. ASSUME NEW j \in Sessions \ {s}
        PROVE  TaskGuarded(j)'
    <3>1. TaskGuarded(j) /\ refresh'[j] = refresh[j] /\ session'[j] = session[j]
      BY <2>6, <2>7 DEF Guards
    <3> QED
      BY <2>1, <3>1 DEF TaskGuarded, Posted, Live
  <2>10. ASSUME NEW u \in wire'
         PROVE  WireGuarded(u)'
    <3>1. u.s \in Sessions \ {s} /\ WireGuarded(u)
      BY <2>2, WireFacts DEF Guards
    <3> QED
      BY <2>1, <2>6, <3>1 DEF WireGuarded
  <2>11. RowGuarded'
    BY <2>1, <2>6, <2>7, RowFacts DEF Guards, RowGuarded
  <2> QED
    BY <2>8, <2>9, <2>10, <2>11 DEF Guards
<1> QED
  BY <1>1, <1>2, <1>3, <1>4, <1>5, <1>6 DEF RefreshNext

(* Every step keeps the guards.                                             *)
LEMMA GuardsNext ==
  ASSUME IInv, [Next]_vars
  PROVE  Guards'
<1>1. CASE Crash
  <2>1. /\ UNCHANGED <<session, wire, row>>
        /\ \A s \in Sessions :
             /\ refresh'[s] = NoRefresh
             /\ fate'[s] = IF row.s = s /\ row.unc THEN "guarded" ELSE fate[s]
    BY <1>1 DEF Crash, service, database
  <2>2. RowGuarded'
    BY <2>1, RowFacts DEF IInv, Guards, RowGuarded
  <2> QED
    BY <2>1, <2>2, Numbers DEF IInv, Guards, TaskGuarded, WireGuarded
<1>2. CASE UNCHANGED vars
  BY <1>2, GuardsKept DEF IInv, vars, service, database, Live
<1> QED
  BY <1>1, <1>2, SignGuards, RevokeGuards, RefreshGuards, CallGuards DEF Next

-----------------------------------------------------------------------------
(***************************************************************************)
(* Requests, answers and what became of a session.                         *)
(***************************************************************************)

(* A revoked session stays revoked, except that nobody knew it.             *)
LEMMA StaysRevoked ==
  ASSUME IInv, [Next]_vars, NEW s \in Sessions,
         ~Unborn(s)
  PROVE  /\ session[s].st = "revoked" => session'[s].st = "revoked"
         /\ Live(s)' => Live(s)
<1> USE DEF IInv, service, database, signing, bounds
<1>1. CASE session' = session
  BY <1>1 DEF Live
<1>2. CASE \E j \in Sessions : Aged(j)
  BY <1>2, AgedDead
<1>3. ASSUME NEW i \in Sessions, ServeLogin(i) \/ LoseLogin(i)
      PROVE  session'[s] = session[s]
  <2>1. s # i
    BY <1>3 DEF ServeLogin, LoseLogin, Fresh
  <2> QED
    BY <1>3, <2>1, SessionMoved DEF ServeLogin, LoseLogin
<1>4. ASSUME NEW t \in wire, ServeRefresh(t)
      PROVE  /\ session[s].st = "revoked" => session'[s].st = "revoked"
             /\ Live(s)' => Live(s)
  <2>1. t.s \in Sessions
    BY WireFacts
  <2>2. CASE session' = session \/ session' = Revoked(t.s)
    BY <2>1, <2>2, SessionAged, AgedDead
  <2>3. CASE Live(t.s) /\ session' = [session EXCEPT ![t.s].k = @ + 1]
    BY <2>1, <2>3, SessionRotated DEF Live
  <2> QED
    BY <1>4, <2>2, <2>3 DEF ServeRefresh
<1>5. CASE SignNext
  <2>1. ASSUME NEW i \in Sessions, VerifyDiscards(i)
        PROVE  Aged(i)
    BY <2>1, SessionAged DEF VerifyDiscards
  <2> QED
    BY <1>1, <1>2, <1>3, <1>5, <2>1 DEF SignNext, VerifyBegins, LogoutBegins,
       LogoutParks, VerifyParks, VerifyChecks, VerifySaves, Live
<1>6. CASE RevokeNext
  <2>1. ASSUME NEW p \in post, ServeRevoke(p)
        PROVE  \E j \in Sessions : Aged(j)
    BY <2>1, PostFacts, RevokeServed, SessionAged
  <2> QED
    BY <1>1, <1>2, <1>6, <2>1 DEF RevokeNext, LoseRevoke, RevokeEnds, DrainLists,
       DrainPosts, DrainEnds
<1>7. CASE RefreshNext
  BY <1>1, <1>4, <1>7 DEF RefreshNext, RefreshReads, RefreshClaims, RefreshKeeps,
     RefreshUnguards, RefreshDrops, LoseRefresh, RejectRefresh
<1>8. CASE CallNext
  BY <1>1, <1>2, <1>8, CallServed DEF CallNext, CallStarts, LoseCall, CallRenews,
     CallClears
<1>9. CASE ServiceNext
  BY <1>2, <1>9, ServiceDone
<1>10. CASE Crash \/ UNCHANGED vars
  BY <1>1, <1>10 DEF Crash, vars
<1> QED
  BY <1>5, <1>6, <1>7, <1>8, <1>9, <1>10 DEF Next

(* Whoever waits for a refresh is released when it ends.                    *)
LEMMA JoinedNext ==
  ASSUME IInv, [Next]_vars
  PROVE  Joined'
<1> USE DEF service, database, signing, bounds
<1>1. Typed
  BY DEF IInv
<1>2. ASSUME NEW c \in Calls, call'[c].pc = "clear",
             call'[c] = call[c] \/ (call'[c].s = call[c].s /\ call[c].pc = "clear")
      PROVE  session'[call'[c].s].st = "revoked"
  <2>1. call[c].pc = "clear" /\ session[call[c].s].st = "revoked"
        /\ call[c].s \in Sessions
    BY <1>1, <1>2, CallerFacts DEF IInv, Joined
  <2>2. ~Unborn(call[c].s)
    BY DEF Unborn
  <2> QED
    BY <1>2, <2>1, <2>2, StaysRevoked
<1>3. ASSUME call' = call, \A s \in Sessions : refresh[s].pc # "none"
                                                 => refresh'[s].pc # "none"
      PROVE  Joined'
  <2>1. ASSUME NEW c \in Calls, call'[c].pc = "join"
        PROVE  refresh'[call'[c].s].pc # "none"
    <3>1. call[c].s \in Sessions /\ refresh[call[c].s].pc # "none"
      BY <1>1, <1>3, <2>1, CallerFacts DEF IInv, Joined
    <3> QED
      BY <1>3, <3>1
  <2> QED
    BY <1>2, <1>3, <2>1 DEF Joined
<1>4. ASSUME NEW s \in Sessions, Done(s)
      PROVE  Joined'
  <2>1. ASSUME NEW c \in Calls
        PROVE  /\ call'[c].pc = "join" => refresh'[call'[c].s].pc # "none"
               /\ call'[c].pc = "clear" => session'[call'[c].s].st = "revoked"
    <3>1. CASE call'[c] = call[c] /\ ~(call[c].pc = "join" /\ call[c].s = s)
      <4>1. call[c].pc = "join" => call[c].s \in Sessions \ {s}
                                   /\ refresh[call[c].s].pc # "none"
        BY <1>1, <3>1, CallerFacts DEF IInv, Joined
      <4> QED
        BY <1>2, <1>4, <3>1, <4>1 DEF Done
    <3>2. CASE call'[c] = NoCall \/ call'[c].pc = "send"
      BY <3>2, Numbers
    <3> QED
      BY <1>4, <3>1, <3>2 DEF Done
  <2> QED
    BY <2>1 DEF Joined
<1>5. ASSUME NEW c \in Calls, NEW s \in Sessions, Asked(c, s)
      PROVE  Joined'
  <2>1. \A j \in Sessions : refresh[j].pc # "none" => refresh'[j].pc # "none"
    BY <1>5 DEF Asked
  <2>2. ASSUME NEW d \in Calls \ {c}
        PROVE  /\ call'[d].pc = "join" => refresh'[call'[d].s].pc # "none"
               /\ call'[d].pc = "clear" => session'[call'[d].s].st = "revoked"
    <3>1. call'[d] = call[d]
      BY <1>5 DEF Asked
    <3>2. call[d].pc = "join" => call[d].s \in Sessions
                                 /\ refresh[call[d].s].pc # "none"
      BY <1>1, CallerFacts DEF IInv, Joined
    <3> QED
      BY <1>2, <2>1, <3>1, <3>2
  <2>3. /\ call'[c].pc = "join" /\ refresh'[call'[c].s].pc # "none"
    BY <1>5 DEF Asked
  <2> QED
    BY <2>2, <2>3 DEF Joined
<1>6. ASSUME NEW c \in Calls, refresh' = refresh, call'[c].pc # "join",
             call'[c].pc = "clear" => session'[call'[c].s].st = "revoked",
             \A d \in Calls \ {c} : call'[d] = call[d]
      PROVE  Joined'
  <2>1. ASSUME NEW d \in Calls \ {c}
        PROVE  /\ call'[d].pc = "join" => refresh'[call'[d].s].pc # "none"
               /\ call'[d].pc = "clear" => session'[call'[d].s].st = "revoked"
    BY <1>2, <1>6 DEF IInv, Joined
  <2> QED
    BY <1>6, <2>1 DEF Joined
<1>7. CASE RefreshNext
  <2>1. ASSUME NEW s \in Sessions, RefreshReads(s)
        PROVE  Joined'
    BY <1>1, <1>3, <1>4, <2>1, ReadDone, TaskMoved
  <2>2. ASSUME NEW s \in Sessions, RefreshClaims(s)
        PROVE  Joined'
    BY <1>1, <1>3, <1>4, <2>2, ClaimDone, TaskMoved
  <2>3. ASSUME NEW s \in Sessions, \/ RefreshKeeps(s) \/ RefreshUnguards(s)
                                   \/ RefreshDrops(s) \/ LoseRefresh(s)
        PROVE  Joined'
    BY <1>1, <1>4, <2>3, KeepDone, UnguardDone, DropDone
  <2>4. ASSUME NEW t \in wire, ServeRefresh(t) \/ RejectRefresh(t)
        PROVE  Joined'
    <3>1. call' = call
      BY <2>4 DEF ServeRefresh, RejectRefresh
    <3>2. \A s \in Sessions : refresh'[s].pc = refresh[s].pc
      BY <1>1, <2>4, TaskAnswered, WireFacts DEF ServeRefresh, RejectRefresh
    <3> QED
      BY <1>3, <3>1, <3>2
  <2> QED
    BY <1>7, <2>1, <2>2, <2>3, <2>4 DEF RefreshNext
<1>8. CASE CallNext
  <2>1. ASSUME NEW c \in Calls, CallStarts(c)
        PROVE  Joined'
    BY <1>1, <1>5, <1>6, <2>1, StartDone
  <2>2. ASSUME NEW c \in Calls, ServeCall(c)
        PROVE  Joined'
    <3>1. refresh' = refresh
      BY <2>2 DEF ServeCall
    <3>2. call'[c].pc # "join" /\ \A d \in Calls \ {c} : call'[d] = call[d]
      BY <1>1, <2>2, CallServed, Numbers DEF Moved
    <3>3. call'[c].pc = "clear" => session'[call'[c].s].st = "revoked"
      BY <1>1, <2>2, CallServed, Numbers DEF Moved
    <3> QED
      BY <1>6, <3>1, <3>2, <3>3
  <2>3. ASSUME NEW c \in Calls, LoseCall(c)
        PROVE  Joined'
    BY <1>1, <1>6, <2>3, CallLost DEF LoseCall, Moved
  <2>4. ASSUME NEW c \in Calls, CallRenews(c)
        PROVE  Joined'
    BY <1>1, <1>5, <2>4, RenewDone
  <2>5. ASSUME NEW c \in Calls, CallClears(c)
        PROVE  Joined'
    BY <1>1, <1>6, <2>5, CallOver, Numbers DEF CallClears, Moved
  <2> QED
    BY <1>8, <2>1, <2>2, <2>3, <2>4, <2>5 DEF CallNext
<1>9. CASE Crash
  BY <1>9, Numbers DEF Crash, Joined
<1>10. CASE UNCHANGED <<refresh, call>>
  BY <1>3, <1>10
<1>11. CASE SignNext \/ RevokeNext \/ ServiceNext
  BY <1>10, <1>11
  DEF SignNext, VerifyBegins, LogoutBegins, LogoutParks, VerifyParks, ServeLogin,
      LoseLogin, VerifyChecks, VerifySaves, VerifyDiscards, RevokeNext,
      ServeRevoke, LoseRevoke, RevokeEnds, DrainLists, DrainPosts, DrainEnds,
      ServiceNext, AccessDies, TokenLapses, RevokedElsewhere
<1> QED
  BY <1>7, <1>8, <1>9, <1>10, <1>11 DEF Next, vars

(* The answers to proofs stay true.                                         *)
LEMMA RuledOutNext ==
  ASSUME IInv, [Next]_vars
  PROVE  RuledOut'
<1> USE DEF service, database, signing, bounds
<1>1. Typed
  BY DEF IInv
<1>2. ASSUME NEW p \in post, p.ans = "revoked"
      PROVE  session'[p.s].st = "revoked"
  <2>1. session[p.s].st = "revoked" /\ p.s \in Sessions
    BY <1>1, <1>2, PostFacts DEF IInv, RuledOut
  <2>2. ~Unborn(p.s)
    BY DEF Unborn, Held
  <2> QED
    BY <2>1, <2>2, StaysRevoked
<1>3. ASSUME \A p \in post' : p \in post \/ p.ans # "revoked"
      PROVE  RuledOut'
  BY <1>2, <1>3 DEF RuledOut
<1>4. CASE LogoutParks
  BY <1>3, <1>4 DEF LogoutParks
<1>5. CASE RevokeNext
  <2>1. ASSUME NEW p \in post, ServeRevoke(p)
        PROVE  RuledOut'
    <3>1. PICK x \in {"revoked", "denied"} :
            /\ post' = (post \ {p}) \cup {[p EXCEPT !.ans = x]}
            /\ x = "revoked" => session' = Revoked(p.s)
      BY <1>1, <2>1, RevokeServed
    <3>2. [p EXCEPT !.ans = x].ans = x /\ [p EXCEPT !.ans = x].s = p.s
          /\ p.s \in Sessions
      BY <1>1, PostFacts
    <3>3. x = "revoked" => session'[p.s].st = "revoked"
      BY <1>1, <3>1, <3>2, SessionMoved DEF Revoked
    <3> QED
      BY <1>2, <3>1, <3>2, <3>3 DEF RuledOut
  <2>2. ASSUME NEW p \in post, LoseRevoke(p)
        PROVE  RuledOut'
    BY <1>1, <1>3, <2>2, PostFacts DEF LoseRevoke
  <2>3. ASSUME NEW p \in post, RevokeEnds(p)
        PROVE  RuledOut'
    BY <1>3, <2>3 DEF RevokeEnds
  <2> QED
    BY <1>3, <1>5, <2>1, <2>2, <2>3 DEF RevokeNext, DrainLists, DrainPosts,
                                        DrainEnds
<1>6. CASE Crash
  BY <1>3, <1>6 DEF Crash
<1>7. CASE UNCHANGED post
  BY <1>3, <1>7
<1>8. CASE SignNext
  BY <1>4, <1>7, <1>8
  DEF SignNext, VerifyBegins, LogoutBegins, VerifyParks, ServeLogin, LoseLogin,
      VerifyChecks, VerifySaves, VerifyDiscards
<1>9. CASE RefreshNext
  BY <1>7, <1>9
  DEF RefreshNext, RefreshReads, RefreshClaims, RefreshKeeps, RefreshUnguards,
      RefreshDrops, LoseRefresh, ServeRefresh, RejectRefresh
<1>10. CASE CallNext \/ ServiceNext
  BY <1>7, <1>10
  DEF CallNext, CallStarts, ServeCall, LoseCall, CallRenews, CallClears,
      ServiceNext, AccessDies, TokenLapses, RevokedElsewhere
<1> QED
  BY <1>5, <1>6, <1>7, <1>8, <1>9, <1>10 DEF Next, vars

(* No token is presented a second time: what is on the wire is the newest.  *)
LEMMA NoReplayNext ==
  ASSUME IInv, [Next]_vars
  PROVE  NoReplay'
<1> USE DEF IInv, NoReplay, service
<1>1. ASSUME NEW t \in wire, ServeRefresh(t)
      PROVE  ~replayed'
  <2>1. ~(t.k < session[t.s].k)
    BY WireFacts, TaskFacts DEF Guards, WireGuarded
  <2> QED
    BY <1>1, <2>1 DEF ServeRefresh
<1>2. CASE UNCHANGED replayed
  BY <1>2
<1>3. CASE SignNext
  BY <1>2, <1>3
  DEF SignNext, VerifyBegins, LogoutBegins, LogoutParks, VerifyParks, ServeLogin,
      LoseLogin, VerifyChecks, VerifySaves, VerifyDiscards
<1>4. CASE RevokeNext
  BY <1>2, <1>4
  DEF RevokeNext, ServeRevoke, LoseRevoke, RevokeEnds, DrainLists, DrainPosts,
      DrainEnds
<1>5. CASE RefreshNext
  BY <1>1, <1>2, <1>5
  DEF RefreshNext, RefreshReads, RefreshClaims, RefreshKeeps, RefreshUnguards,
      RefreshDrops, LoseRefresh, RejectRefresh
<1>6. CASE CallNext \/ ServiceNext \/ Crash \/ UNCHANGED vars
  BY <1>2, <1>6
  DEF CallNext, CallStarts, ServeCall, LoseCall, CallRenews, CallClears,
      ServiceNext, AccessDies, TokenLapses, RevokedElsewhere, Crash, vars
<1> QED
  BY <1>3, <1>4, <1>5, <1>6 DEF Next

(* The session is accounted for: it is active, or its proof is queued.      *)
Accounted(s) == row.s = s \/ \E p \in queue : p.s = s

(* A stored session that the service honours stays accounted for.           *)
LEMMA AccountedNext ==
  ASSUME IInv, [Next]_vars
  PROVE  LeftSessionIsAccountedFor'
<1> USE DEF IInv, service, database, signing, bounds
<1>1. SUFFICES ASSUME NEW s \in Sessions, Live(s)', fate'[s] \in {"kept", "guarded"},
                      ~VerifySaves(s)
               PROVE  Accounted(s)'
  <2>1. ASSUME NEW s \in Sessions, VerifySaves(s)
        PROVE  Accounted(s)'
    BY <2>1 DEF VerifySaves, Accounted
  <2> QED
    BY <2>1 DEF LeftSessionIsAccountedFor, Accounted
<1>2. ASSUME fate[s] \in {"kept", "guarded"}
      PROVE  Live(s) /\ Accounted(s)
  <2>1. ~Unborn(s)
    BY <1>2 DEF Unborn
  <2> QED
    BY <1>1, <1>2, <2>1, StaysRevoked DEF LeftSessionIsAccountedFor, Accounted
<1>3. CASE row' = row /\ queue' = queue /\ fate'[s] = fate[s]
  BY <1>1, <1>2, <1>3 DEF Accounted
<1>4. ASSUME Park, fate' = fate
      PROVE  Accounted(s)'
  <2>1. Accounted(s)
    BY <1>1, <1>2, <1>4
  <2>2. \A p \in queue : \E q \in queue' : q.s = p.s
    BY <1>4, Parked
  <2>3. row # NoSession => \E p \in queue' : p.s = row.s
    BY <1>4, Parked
  <2> QED
    BY <2>1, <2>2, <2>3, Numbers DEF Accounted
<1>5. CASE SignNext
  <2>1. ASSUME NEW i \in Sessions, VerifySaves(i)
        PROVE  Accounted(s)'
    <3>1. row = NoSession /\ i # s /\ queue' = queue /\ fate'[s] = fate[s]
      BY <1>1, <2>1 DEF VerifySaves, NothingBefore, Saving, Typed
    <3> QED
      BY <1>1, <1>2, <3>1, Numbers DEF Accounted
  <2> QED
    BY <1>3, <1>4, <1>5, <2>1
    DEF SignNext, VerifyBegins, LogoutBegins, LogoutParks, VerifyParks,
        ServeLogin, LoseLogin, VerifyChecks, VerifyDiscards
<1>6. CASE RevokeNext
  <2>1. ASSUME NEW p \in post, RevokeEnds(p)
        PROVE  Accounted(s)'
    <3>1. row' = row /\ \A q \in queue : q \in queue' \/ q.s = p.s
      BY <2>1 DEF RevokeEnds
    <3>2. CASE p.s # s
      <4>1. fate'[s] = fate[s]
        BY <2>1, <3>2 DEF RevokeEnds, Typed
      <4> QED
        BY <1>1, <1>2, <3>1, <3>2, <4>1 DEF Accounted
    <3>3. CASE p.s = s
      <4>1. p.ans # "denied"
        BY <1>1, <2>1, <3>3 DEF RevokeEnds, Typed
      <4>2. fate'[s] = fate[s]
        BY <2>1, <4>1 DEF RevokeEnds
      <4>3. p.ans # "revoked"
        BY <1>1, <1>2, <3>3, <4>2 DEF RuledOut, Live
      <4>4. queue' = queue
        BY <2>1, <4>1, <4>3 DEF RevokeEnds, Settled
      <4> QED
        BY <1>3, <3>1, <4>2, <4>4
    <3> QED
      BY <3>2, <3>3
  <2> QED
    BY <1>3, <1>6, <2>1
    DEF RevokeNext, ServeRevoke, LoseRevoke, DrainLists, DrainPosts, DrainEnds
<1>7. CASE RefreshNext
  <2>1. ASSUME NEW j \in Sessions, row' = row \/ (row.s = j /\ row'.s = j),
               queue' = queue, fate'[s] = fate[s]
        PROVE  Accounted(s)'
    BY <1>1, <1>2, <2>1 DEF Accounted
  <2>2. ASSUME NEW j \in Sessions, RefreshClaims(j)
        PROVE  Accounted(s)'
    <3>1. row' = row \/ (row.s = j /\ row'.s = j)
      BY <2>2, ClaimDone
    <3> QED
      BY <2>1, <2>2, <3>1 DEF RefreshClaims
  <2>3. ASSUME NEW j \in Sessions, RefreshKeeps(j)
        PROVE  Accounted(s)'
    <3>1. row' = row \/ (row.s = j /\ row'.s = j)
      BY <2>3, KeepDone DEF Stored
    <3> QED
      BY <2>1, <2>3, <3>1 DEF RefreshKeeps
  <2>4. ASSUME NEW j \in Sessions, RefreshUnguards(j)
        PROVE  Accounted(s)'
    <3>1. row' = row \/ (row.s = j /\ row'.s = j)
      BY <2>4, UnguardDone DEF Stored
    <3> QED
      BY <2>1, <2>4, <3>1 DEF RefreshUnguards
  <2>5. ASSUME NEW j \in Sessions, RefreshDrops(j)
        PROVE  Accounted(s)'
    <3>1. row' = Cleared(j) /\ queue' = queue /\ session' = session
      BY <2>5 DEF RefreshDrops
    <3>2. CASE j # s
      <4>1. fate'[s] = fate[s]
        BY <2>5, <3>2 DEF RefreshDrops, Typed
      <4> QED
        BY <1>1, <1>2, <3>1, <3>2, <4>1, Numbers DEF Accounted, Cleared
    <3>3. CASE j = s /\ row.s # s
      <4>1. fate'[s] = fate[s]
        BY <2>5, <3>3 DEF RefreshDrops, Typed
      <4> QED
        BY <1>3, <3>1, <3>3, <4>1 DEF Cleared
    <3>4. CASE j = s /\ row.s = s
      <4>1. TaskGuarded(s) /\ Live(s)
        BY <1>1, <3>1 DEF Guards, Live
      <4>2. refresh[s].pc = "drop"
        BY <2>5, <3>4, <4>1 DEF RefreshDrops, TaskGuarded, Posted
      <4>3. row.k = session[s].k
        BY <3>4, <4>1, <4>2, TaskFacts DEF TaskGuarded, Guards, RowGuarded
      <4>4. row.k > session[s].lapsed
        BY <4>1, <4>3, TaskFacts DEF Live
      <4>5. fate'[s] = "misjudged"
        BY <2>5, <3>4, <4>2, <4>4 DEF RefreshDrops, Typed
      <4> QED
        BY <1>1, <4>5
    <3> QED
      BY <3>2, <3>3, <3>4
  <2>6. ASSUME NEW j \in Sessions, LoseRefresh(j)
        PROVE  Accounted(s)'
    <3>1. row' = row /\ queue' = queue
      BY <2>6 DEF LoseRefresh, LostGuard
    <3>2. fate[s] \in {"kept", "guarded"}
      BY <1>1, <2>6 DEF LoseRefresh, Typed
    <3> QED
      BY <1>2, <3>1, <3>2 DEF Accounted
  <2> QED
    BY <1>3, <1>7, <2>2, <2>3, <2>4, <2>5, <2>6
    DEF RefreshNext, RefreshReads, ServeRefresh, RejectRefresh
<1>8. CASE CallNext
  <2>1. ASSUME NEW c \in Calls, CallClears(c)
        PROVE  Accounted(s)'
    <3>1. row' = Cleared(call[c].s) /\ queue' = queue /\ session' = session
      BY <2>1 DEF CallClears
    <3>2. CASE call[c].s = s /\ row.s = s
      <4>1. CASE call[c].pc = "quit"
        BY <1>1, <2>1, <3>2, <4>1 DEF CallClears, Typed
      <4>2. CASE call[c].pc = "clear"
        BY <1>1, <3>1, <3>2, <4>2 DEF Joined, Live
      <4> QED
        BY <2>1, <4>1, <4>2 DEF CallClears
    <3>3. CASE ~(call[c].s = s /\ row.s = s)
      <4>1. fate'[s] = fate[s]
        BY <2>1, <3>3 DEF CallClears, Typed
      <4> QED
        BY <1>1, <1>2, <3>1, <3>3, <4>1 DEF Accounted, Cleared
    <3> QED
      BY <3>2, <3>3
  <2> QED
    BY <1>3, <1>8, <2>1 DEF CallNext, CallStarts, ServeCall, LoseCall, CallRenews
<1>9. CASE ServiceNext \/ UNCHANGED vars
  BY <1>3, <1>9 DEF ServiceNext, AccessDies, TokenLapses, RevokedElsewhere, vars
<1>10. CASE Crash
  <2>1. row' = row /\ queue' = queue
        /\ fate'[s] = IF row.s = s /\ row.unc THEN "guarded" ELSE fate[s]
    BY <1>10 DEF Crash
  <2> QED
    BY <1>1, <1>2, <2>1 DEF Accounted
<1> QED
  BY <1>5, <1>6, <1>7, <1>8, <1>9, <1>10 DEF Next

-----------------------------------------------------------------------------
(***************************************************************************)
(* The theorems.                                                           *)
(***************************************************************************)

(* Nothing has been stored, sent or promised at first.                      *)
LEMMA InitIInv ==
  ASSUME Init
  PROVE  IInv
<1>1. Typed
  <2>1. [st |-> "none", k |-> 1, dead |-> 0, lapsed |-> 0] \in SessionState
    BY DEF SessionState
  <2>2. [pc |-> "none", gen |-> 0] \in Login
    BY DEF Login, LoginStep
  <2>3. budget \in Budget
    BY SessionAssumption DEF Init
  <2> QED
    BY <2>1, <2>2, <2>3, Numbers DEF Init, Typed, NoDrain, Fates
<1>2. Ordered
  BY Numbers DEF Init, Ordered, Current, Saving, Sessions
<1>3. NothingBefore
  BY DEF Init, NothingBefore, Current, Saving
<1>4. Fresh
  BY Numbers DEF Init, Fresh, Unborn, Held, NoDrain
<1>5. Guards /\ Joined /\ RuledOut
  BY Numbers DEF Init, Guards, TaskGuarded, RowGuarded, Joined, RuledOut
<1>6. NoReplay /\ LeftStaysLeft /\ LeftSessionIsAccountedFor
  BY DEF Init, NoReplay, LeftStaysLeft, LeftSessionIsAccountedFor, Live
<1> QED
  BY <1>1, <1>2, <1>3, <1>4, <1>5, <1>6 DEF IInv

(* Every reachable state satisfies the invariant.                           *)
LEMMA SpecIInv == Spec => []IInv
<1>1. Init => IInv
  BY InitIInv
<1>2. IInv /\ [Next]_vars => IInv'
  <2> SUFFICES ASSUME IInv, [Next]_vars
               PROVE  IInv'
    OBVIOUS
  <2>1. Typed'
    BY TypedNext DEF IInv
  <2> QED
    BY <2>1, OrderedNext, NothingBeforeNext, FreshNext, GuardsNext, JoinedNext,
       RuledOutNext, NoReplayNext, LeftStaysLeftNext, AccountedNext DEF IInv
<1> QED
  BY <1>1, <1>2, PTL DEF Spec

(* NoReplay, for every budget of requests, sign-ins and faults: the token   *)
(* on the wire is always the newest of its session, so a session is never   *)
(* revoked because this device presented a token twice (_refresh,           *)
(* claimRefresh).                                                           *)
THEOREM SpecNoReplay == Spec => []NoReplay
<1>1. IInv => NoReplay
  BY DEF IInv
<1> QED
  BY <1>1, SpecIInv, PTL

(* OutcomeIsKnown: an unguarded token is the newest, a guard is a refresh   *)
(* under way or a lost outcome, and whoever joined a refresh waits for one  *)
(* that is under way (_doRefresh, replaceTokens).                           *)
THEOREM SpecOutcomeIsKnown == Spec => []OutcomeIsKnown
<1>1. IInv => OutcomeIsKnown
  BY Numbers DEF IInv, Guards, RowGuarded, Joined, OutcomeIsKnown
<1> QED
  BY <1>1, SpecIInv, PTL

(* LeftStaysLeft: no late sign-in or refresh brings back a session that a   *)
(* sign-out or a newer sign-in left, and the active session's token is      *)
(* never revoked by a proof (verifyEmail, logout, retryPendingRevocations). *)
THEOREM SpecLeftStaysLeft == Spec => []LeftStaysLeft
<1>1. IInv => LeftStaysLeft
  BY DEF IInv
<1> QED
  BY <1>1, SpecIInv, PTL

(* LeftSessionIsAccountedFor: a session the service still honours is never  *)
(* forgotten without the service's word, a refused renewal or the clock     *)
(* (clear, completeRevocation).                                             *)
THEOREM SpecLeftSessionIsAccountedFor == Spec => []LeftSessionIsAccountedFor
<1>1. IInv => LeftSessionIsAccountedFor
  BY DEF IInv
<1> QED
  BY <1>1, SpecIInv, PTL
=============================================================================
