---------------------------- MODULE PublicNetwork ----------------------------
(***************************************************************************)
(* The guard on what cloud configuration may make the core dial: the plan  *)
(* is pinned to public addresses before it starts (preparePublicPlan), and *)
(* a download of a cloud resource resolves and checks every hop.           *)
(*                                                                         *)
(* An address is what the guard asks of it: its family and whether the     *)
(* prefix table calls it public.  The option keys of an outbound are one   *)
(* flag, whether all of them are in the list the guard covers.  DNS        *)
(* answers are a set: their order is the resolver's, any of them may come  *)
(* first.                                                                  *)
(***************************************************************************)
EXTENDS Naturals, Sequences

CONSTANTS
  Tags,          \* tags of outbounds
  Names,         \* host names
  Addresses,     \* [family : {"v4", "v6", "mapped"}, public : BOOLEAN]
  MaxRedirects,  \* redirects a download follows
  None

ASSUME AddressAssumption ==
  /\ Addresses \subseteq [family : {"v4", "v6", "mapped"}, public : BOOLEAN]
  /\ \A a \in Addresses : [a EXCEPT !.family = "v4"] \in Addresses
  /\ Names \cap Addresses = {}
  /\ None \notin Names \cup Addresses

(* What the guard reads of an outbound, and of a plan.                      *)
Outbounds ==
  [type : {"selector", "direct", "urltest", "proxy"},
   members : Seq(Tags), detour : Seq(Tags), covered : BOOLEAN,
   server : Names \cup Addresses, tls : BOOLEAN,
   transport : {"none", "ws", "http", "grpc"},
   serverName : Names \cup Addresses \cup {None},
   hostHeader : Names \cup Addresses \cup {None}]

IsPlan(plan) ==
  /\ DOMAIN plan.outbounds \subseteq Tags
  /\ plan.outbounds \in [DOMAIN plan.outbounds -> Outbounds]
  /\ plan.endpointTags \in Seq(Tags)
  /\ plan.wellFormed \in BOOLEAN

VARIABLES
  walk,   \* preparePublicPlan under way
  get     \* fetch under way

Unmap(a) == IF a.family = "mapped" THEN [a EXCEPT !.family = "v4"] ELSE a

Family(strategy) ==
  CASE strategy \in {"prefer_ipv4", "ipv4_only"} -> "v4"
    [] strategy \in {"prefer_ipv6", "ipv6_only"} -> "v6"
    [] OTHER -> None

-----------------------------------------------------------------------------
(* Resolving a host.                                                        *)

Fitting(answers, strategy) ==
  {a \in answers : Unmap(a).family = Family(strategy)}

(* Mutated form of Resolutions: only the answer taken is looked at.         *)
ResolutionsOfOne(host, answers, strategy) ==
  LET public   == {a \in answers : a.public}
      fitting  == Fitting(public, strategy)
      eligible == IF fitting # {} \/ strategy \in {"ipv4_only", "ipv6_only"}
                  THEN fitting
                  ELSE answers
  IN  IF host \in Addresses
      THEN {Unmap(a) : a \in {b \in {host} : b.public}}
      ELSE {Unmap(a) : a \in eligible}

(* The addresses resolvePublicAddress may return; none of them is an error. *)
Resolutions(host, answers, strategy) ==
  LET fitting  == Fitting(answers, strategy)
      eligible == IF fitting # {} \/ strategy \in {"ipv4_only", "ipv6_only"}
                  THEN fitting
                  ELSE answers
  IN  IF host \in Addresses
      THEN {Unmap(a) : a \in {b \in {host} : b.public}}
      ELSE {Unmap(a) : a \in {b \in eligible : \A c \in answers : c.public}}

-----------------------------------------------------------------------------
(* Pinning a plan.                                                          *)

NoPlan == [outbounds |-> <<>>, endpointTags |-> <<>>, wellFormed |-> FALSE]

Prepare(plan) ==
  [plan |-> plan, outbounds |-> plan.outbounds, todo |-> plan.endpointTags,
   stack |-> <<>>, visiting |-> {}, done |-> {},
   verdict |-> IF plan.wellFormed THEN "none" ELSE "refused"]

Successors(out) == out.members \o out.detour

(* The transports that name the host in a header of their own.              *)
NamesHost(out) == out.transport = "ws" \/ (out.transport = "http" /\ ~out.tls)

(* Mutated form of Pinned: the name the server is asked for follows the     *)
(* address.                                                                 *)
PinnedBare(out, address) == [out EXCEPT !.server = address]

(* The outbound with its address in place of its host: the host stays the   *)
(* name the server is asked for.                                            *)
Pinned(out, address) ==
  [out EXCEPT
     !.server = address,
     !.serverName = IF out.tls /\ @ = None THEN out.server ELSE @,
     !.hostHeader = IF NamesHost(out) /\ @ = None THEN out.server ELSE @]

Refuse == walk' = [walk EXCEPT !.verdict = "refused"]

Entered(tag, outbounds) ==
  walk' = [walk EXCEPT
             !.outbounds = outbounds,
             !.visiting = @ \cup {tag},
             !.stack = <<[tag |-> tag,
                          left |-> Successors(walk.outbounds[tag])]>> \o @]

(* The addresses an outbound may be pinned to.  Without TLS a gRPC server   *)
(* is asked for by the address dialled, which has to be the host itself.    *)
Guarded(out, answers) ==
  {address \in Resolutions(out.server, answers, walk.plan.strategy) :
     out.covered /\ (out.transport = "grpc" /\ ~out.tls => out.server = address)}

(* pinPublicOutbound                                                        *)
PinProxy(tag, out) ==
  \E answers \in SUBSET Addresses :
    \/ Guarded(out, answers) = {} /\ Refuse
    \/ \E address \in Guarded(out, answers) :
         Entered(tag, [walk.outbounds EXCEPT ![tag] = Pinned(out, address)])

(* Mutated form of Pin: an outbound under a visit counts as done.           *)
PinOnce(tag) ==
  LET out == walk.outbounds[tag] IN
  \/ tag \notin DOMAIN walk.outbounds /\ Refuse
  \/ /\ tag \in walk.visiting
     /\ walk' = [walk EXCEPT !.done = @ \cup {tag}]
  \/ /\ tag \in DOMAIN walk.outbounds \ walk.visiting
     /\ \/ out.type = "selector" /\ Entered(tag, walk.outbounds)
        \/ out.type = "direct" /\ out.covered /\ Entered(tag, walk.outbounds)
        \/ out.type = "direct" /\ ~out.covered /\ Refuse
        \/ out.type = "urltest" /\ Refuse
        \/ out.type = "proxy" /\ PinProxy(tag, out)

(* pin(tag) for a tag that is not done, up to its first call of itself.     *)
Pin(tag) ==
  LET out == walk.outbounds[tag] IN
  \/ tag \notin DOMAIN walk.outbounds \ walk.visiting /\ Refuse
  \/ /\ tag \in DOMAIN walk.outbounds \ walk.visiting
     /\ \/ out.type = "selector" /\ Entered(tag, walk.outbounds)
        \/ out.type = "direct" /\ out.covered /\ Entered(tag, walk.outbounds)
        \/ out.type = "direct" /\ ~out.covered /\ Refuse
        \/ out.type = "urltest" /\ Refuse
        \/ out.type = "proxy" /\ PinProxy(tag, out)

NextTag ==
  /\ walk.stack = <<>>
  /\ walk.todo # <<>>
  /\ IF Head(walk.todo) \in walk.done
     THEN walk' = [walk EXCEPT !.todo = Tail(@)]
     ELSE Pin(Head(walk.todo))

Descend ==
  /\ walk.stack # <<>>
  /\ LET top == walk.stack[1] IN
     /\ top.left # <<>>
     /\ IF Head(top.left) \in walk.done
        THEN walk' = [walk EXCEPT !.stack[1].left = Tail(@)]
        ELSE Pin(Head(top.left))

Leave ==
  /\ walk.stack # <<>>
  /\ walk.stack[1].left = <<>>
  /\ walk' = [walk EXCEPT !.visiting = @ \ {walk.stack[1].tag},
                          !.done = @ \cup {walk.stack[1].tag},
                          !.stack = Tail(@)]

Accept ==
  /\ walk.stack = <<>>
  /\ walk.todo = <<>>
  /\ walk' = [walk EXCEPT !.verdict = "accepted"]

PrepareStep ==
  /\ walk.verdict = "none"
  /\ NextTag \/ Descend \/ Leave \/ Accept

-----------------------------------------------------------------------------
(* What a prepared plan promises.                                           *)

(* The outbounds the endpoint tags lead to.                                 *)
Reached(plan) ==
  LET next(t) == IF t \in DOMAIN plan.outbounds
                 THEN {Successors(plan.outbounds[t])[i] :
                         i \in DOMAIN Successors(plan.outbounds[t])}
                 ELSE {}
      seeds   == {plan.endpointTags[i] : i \in DOMAIN plan.endpointTags}
      closed  == {S \in SUBSET Tags :
                    seeds \subseteq S /\ \A t \in S : next(t) \subseteq S}
  IN  {t \in Tags : \A S \in closed : t \in S}

(* No outbound is its own successor's successor: an order exists in which   *)
(* every outbound comes after those it depends on.                          *)
Acyclic(plan, tags) ==
  \A S \in (SUBSET tags) \ {{}} :
    \E t \in S : \A i \in DOMAIN Successors(plan.outbounds[t]) :
                   Successors(plan.outbounds[t])[i] \notin S

(* What the server of an outbound is asked for.                             *)
AskedFor(out) ==
  [tls  |-> IF ~out.tls THEN None
            ELSE IF out.serverName = None THEN out.server ELSE out.serverName,
   host |-> IF NamesHost(out)
            THEN IF out.hostHeader = None THEN out.server ELSE out.hostHeader
            ELSE IF out.transport = "grpc" /\ ~out.tls THEN out.server
            ELSE None]

(* Nothing in the way of covering an outbound, whatever DNS says.           *)
Coverable(out) ==
  \/ out.type = "selector"
  \/ out.type = "direct" /\ out.covered
  \/ /\ out.type = "proxy"
     /\ out.covered
     /\ out.server \in Addresses
     /\ out.server.public
     /\ Unmap(out.server) = out.server

-----------------------------------------------------------------------------
(* A download through an outbound (fetch).                                  *)

NoGet == [pc |-> "idle", public |-> FALSE, host |-> None, hops |-> 0,
          dialled |-> {}, temp |-> "none", dest |-> "old"]

(* checkPublicURL                                                           *)
UrlAllowed(host) == host \in Addresses => host.public

GetEnds == get' = [get EXCEPT !.pc = "failed", !.temp = "none"]

Request(host, public) ==
  get' = [NoGet EXCEPT !.host = host, !.public = public, !.dest = get.dest,
                       !.pc = IF public /\ ~UrlAllowed(host) THEN "failed"
                              ELSE "dial"]

(* publicDialContext                                                        *)
Dial ==
  /\ get.pc = "dial"
  /\ \/ /\ get.public
        /\ \E answers \in SUBSET Addresses :
             \E address \in Resolutions(get.host, answers, "") :
               get' = [get EXCEPT !.pc = "answer", !.dialled = @ \cup {address}]
     \/ ~get.public /\ get' = [get EXCEPT !.pc = "answer"]
     \/ GetEnds

(* Mutated form of Redirect: a public destination is not looked at again.   *)
RedirectBlindly(host) ==
  /\ get.pc = "answer"
  /\ get.hops < MaxRedirects
  /\ get' = [get EXCEPT !.host = host, !.hops = @ + 1, !.pc = "answer",
                        !.dialled = IF host \in Addresses THEN @ \cup {host} ELSE @]

Redirect(host) ==
  /\ get.pc = "answer"
  /\ get' = IF get.hops < MaxRedirects /\ (get.public => UrlAllowed(host))
            THEN [get EXCEPT !.host = host, !.hops = @ + 1, !.pc = "dial"]
            ELSE [get EXCEPT !.pc = "failed"]

(* The body is read beside its destination, up to one byte past the limit.  *)
Body ==
  /\ get.pc = "answer"
  /\ \E temp \in {"part", "whole", "over"} :
       get' = [get EXCEPT !.pc = "write", !.temp = temp]

(* Mutated form of Keep: the size is looked at after the move.              *)
KeepFirst ==
  /\ get.pc = "write"
  /\ get.temp # "part"
  /\ get' = [get EXCEPT !.pc = IF get.temp = "over" THEN "failed" ELSE "done",
                        !.dest = get.temp, !.temp = "none"]

(* A body that broke off or is too large never replaces what was there.     *)
Keep ==
  /\ get.pc = "write"
  /\ \/ /\ get.temp = "whole"
        /\ get' = [get EXCEPT !.pc = "done", !.dest = "whole", !.temp = "none"]
     \/ GetEnds

GetStep == Dial \/ (\E host \in Names \cup Addresses : Redirect(host)) \/ Body \/ Keep

-----------------------------------------------------------------------------
(* A plan is accepted only when the guard covers all that its cloud         *)
(* endpoints make the core dial: every outbound they lead to exists, is no  *)
(* automatic probe, no redirected direct and in no cycle, every proxy among *)
(* them is pinned to a public address and its server is still asked for by  *)
(* its own name; what they do not lead to is left as it was.  It is refused *)
(* only when something is in the way.  (preparePublicPlan)                  *)
VerdictIsRight ==
  walk.verdict # "none" =>
    LET plan    == walk.plan
        reached == Reached(plan)
    IN  IF walk.verdict = "refused"
        THEN \/ ~plan.wellFormed
             \/ ~reached \subseteq DOMAIN plan.outbounds
             \/ \E t \in reached : ~Coverable(plan.outbounds[t])
             \/ ~Acyclic(plan, reached)
        ELSE /\ plan.wellFormed
             /\ reached \subseteq DOMAIN plan.outbounds
             /\ Acyclic(plan, reached)
             /\ \A t \in DOMAIN plan.outbounds :
                  LET was == plan.outbounds[t]
                      is  == walk.outbounds[t]
                  IN  IF t \notin reached
                      THEN is = was
                      ELSE /\ was.type = "selector" \/ was.covered
                           /\ was.type # "urltest"
                           /\ was.type = "proxy" =>
                                /\ is.server \in Addresses
                                /\ is.server.public
                                /\ AskedFor(is) = AskedFor(was)

(* A download of a cloud resource connects to public addresses only,        *)
(* whatever DNS answers and wherever it is redirected, and its destination  *)
(* holds what was there or a whole body.  (fetch)                           *)
DownloadIsGuarded ==
  /\ get.public => \A a \in get.dialled : a.public
  /\ get.dest \in {"old", "whole"}
=============================================================================
