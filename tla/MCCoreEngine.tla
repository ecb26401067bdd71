---------------------------- MODULE MCCoreEngine ----------------------------
EXTENDS CoreEngine, TLC

CONSTANTS c1, c2, m1, m2, a, b, c, n1

(* One address of each family that is public, and one that is not.          *)
MCAddresses ==
  [family : {"v4", "v6", "mapped"}, public : {TRUE}]
    \cup [family : {"v4"}, public : {FALSE}]

Public == [family |-> "v6", public |-> TRUE]
Private == [family |-> "v4", public |-> FALSE]

Outbound == [type |-> "proxy", members |-> <<>>, detour |-> <<>>, covered |-> TRUE,
             server |-> n1, tls |-> FALSE, serverName |-> None,
             transport |-> "none", hostHeader |-> None]

(* The kinds of outbounds, each with every way on that it may have.         *)
Selectors ==
  {[Outbound EXCEPT !.type = "selector", !.members = m, !.detour = d] :
     m \in {<<>>, <<a>>, <<c>>, <<b, c>>, <<c, b>>}, d \in {<<>>, <<b>>}}
Directs ==
  {[Outbound EXCEPT !.type = "direct"],
   [Outbound EXCEPT !.type = "direct", !.covered = FALSE, !.detour = <<a>>]}
Groups == {[Outbound EXCEPT !.type = "urltest", !.members = <<a>>]}
Proxies ==
  {[Outbound EXCEPT !.server = s, !.detour = d] :
     s \in {Public, Private}, d \in {<<>>, <<a>>, <<c>>}}
   \cup {[Outbound EXCEPT !.covered = FALSE]}
   \cup {[Outbound EXCEPT !.tls = t, !.serverName = s, !.transport = r, !.detour = <<c>>] :
     t \in BOOLEAN, s \in {None, n1}, r \in {"none", "ws", "http", "grpc"}}

PlanOf(outbounds, tags, strategy) ==
  [outbounds |-> outbounds, endpointTags |-> tags, strategy |-> strategy,
   wellFormed |-> TRUE, choice |-> m1]

(* Plans around a proxy, a group that leads to it, and a third outbound.    *)
GuardedPlans ==
  {PlanOf([t \in {a, b, c} |-> CASE t = a -> x [] t = b -> y [] OTHER -> z], <<a, b>>, s) :
     x \in Selectors, y \in Proxies, z \in Directs \cup Groups \cup
       {[Outbound EXCEPT !.type = "selector", !.members = <<a>>], Outbound},
     s \in {"prefer_ipv6"}}
  \cup {PlanOf([t \in {b} |-> y], <<b>>, s) : y \in Proxies, s \in {"", "ipv4_only"}}
  \cup {[PlanOf([t \in {b} |-> Outbound], <<>>, "") EXCEPT !.wellFormed = FALSE]}

P1 == PlanOf(<<>>, <<>>, "")
P2 == [P1 EXCEPT !.choice = m2]

Given(plan) == [op \in WithPlan |-> IF op = "reload" THEN {P2} ELSE {plan}]

Nothing ==
  [plans |-> Given(P1), start |-> 0, reload |-> 0, stop |-> 0, close |-> 0,
   urlTest |-> 0, validate |-> 0, setMode |-> 0, select |-> 0, use |-> 0,
   fetch |-> 0, snapshot |-> 0, fault |-> 0, tick |-> 0, date |-> 0,
   traffic |-> 0, log |-> 0, kill |-> 0]

(* A session replaced and probed while snapshots are taken; what a command  *)
(* does to it; a day of traffic; a plan; a download; a log.                 *)
Replacing == [Nothing EXCEPT !.start = 1, !.reload = 1, !.stop = 1, !.urlTest = 1,
                             !.snapshot = 1, !.fault = 1]
Commanding == [Nothing EXCEPT !.start = 1, !.reload = 1, !.setMode = 1, !.select = 1,
                              !.use = 1, !.fault = 1]
Counting == [Nothing EXCEPT !.start = 1, !.reload = 1, !.stop = 1, !.tick = 1,
                            !.date = 1, !.traffic = 2, !.kill = 1, !.fault = 1]
Closing == [Nothing EXCEPT !.start = 2, !.close = 1, !.validate = 1, !.tick = 1,
                           !.fault = 1]
Fetching == [Nothing EXCEPT !.start = 1, !.fetch = 1]
Logging == [Nothing EXCEPT !.log = 7]
Planning == {[Nothing EXCEPT !.plans = Given(p), !.validate = 1] : p \in GuardedPlans}

MCScenarios ==
  {Replacing, Commanding, Counting, Closing, Fetching, Logging} \cup Planning

(* Traffic of one session, sampled twice at once.                           *)
Recounting == {[Nothing EXCEPT !.start = 1, !.snapshot = 1, !.tick = 2, !.traffic = 2]}

Symmetry == Permutations(Callers)
=============================================================================
