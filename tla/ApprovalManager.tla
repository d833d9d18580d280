--------------------------- MODULE ApprovalManager ---------------------------
(***************************************************************************)
(* The approval state machine of one session actor                         *)
(* (crates/sagent-runtime/src/approval.rs): the pending and finished maps, *)
(* the policy rules a decision may leave behind, the one-shot channel of   *)
(* every request and the waiter task at its receiving end.                 *)
(*                                                                         *)
(* Manager operations are called by the actor one at a time; waiters and   *)
(* the clock run on their own.  Time is the set `due` of the requests      *)
(* whose deadline has passed: the manager computes the deadline before the *)
(* waiter starts its own sleep, so a waiter may time out only once its     *)
(* request is due.                                                         *)
(***************************************************************************)
EXTENDS RuntimeIds

VARIABLES
  request,      \* what each approval id was registered with, or NoRequest
  pending,      \* keys of the pending map
  finished,     \* the finished map; "-" where there is no entry
  delivered,    \* content of the one-shot channel; "-" while empty
  rules,        \* per session, the policy keys a Session decision allowed
  alwaysRules,  \* policy keys an Always decision allowed
  waiter,       \* "none", "waiting", or the outcome the waiter returned
  due           \* requests whose deadline has passed

managerVars == <<request, pending, finished, delivered, rules, alwaysRules>>
approvalVars == <<managerVars, waiter, due>>

-----------------------------------------------------------------------------
Decisions == {"once", "session", "always", "deny"}
Granted == {"once", "session", "always"}
Outcomes == Granted \union {"denied", "timed_out", "cancelled"}
Finished == {"AlreadyResolved", "Expired", "Cancelled"}

Requests == [session : Sessions, turn : Turns, key : Keys]
NoRequest == [session |-> NoSession, turn |-> NoTurn, key |-> NoKey]

ApprovalTypeOK ==
  /\ request \in [Approvals -> Requests \union {NoRequest}]
  /\ pending \in SUBSET Approvals
  /\ finished \in [Approvals -> Finished \union {"-"}]
  /\ delivered \in [Approvals -> Outcomes \union {"-"}]
  /\ rules \in [Sessions -> SUBSET Keys]
  /\ alwaysRules \in SUBSET Keys
  /\ waiter \in [Approvals -> {"none", "waiting"} \union Outcomes]
  /\ due \in SUBSET Approvals

ManagerInit ==
  /\ pending = {}
  /\ finished = [a \in Approvals |-> "-"]
  /\ delivered = [a \in Approvals |-> "-"]
  /\ rules = [s \in Sessions |-> {}]
  /\ alwaysRules = {}
  /\ waiter = [a \in Approvals |-> "none"]
  /\ due = {}

ApprovalInit == ManagerInit /\ request = [a \in Approvals |-> NoRequest]

-----------------------------------------------------------------------------
(* manager operations *)

IsAllowed(s, k) == k \in rules[s] \union alwaysRules

Register(a, r) ==
  /\ a \notin pending /\ finished[a] = "-"
  /\ request' = [request EXCEPT ![a] = r]
  /\ pending' = pending \union {a}
  /\ waiter' = [waiter EXCEPT ![a] = "waiting"]
  /\ UNCHANGED <<finished, delivered, rules, alwaysRules, due>>

\* Leave the pending map for good and answer the waiter.
Settle(a, why, outcome) ==
  /\ pending' = pending \ {a}
  /\ finished' = [finished EXCEPT ![a] = why]
  /\ delivered' = [delivered EXCEPT ![a] = outcome]

Resolvable(s, t, a) ==
  a \in pending \ due /\ request[a].session = s /\ request[a].turn = t

\* mutant: every decision but Once leaves the rule, the denial too
RulesUnlessOnce(d, s, k) ==
  IF d = "once" THEN rules ELSE [rules EXCEPT ![s] = @ \union {k}]

RulesAfter(d, s, k) ==
  IF d = "session" THEN [rules EXCEPT ![s] = @ \union {k}] ELSE rules

\* resolve, the decision taken
ResolveAccepted(s, t, a, d) ==
  /\ Resolvable(s, t, a)
  /\ Settle(a, "AlreadyResolved", IF d = "deny" THEN "denied" ELSE d)
  /\ rules' = RulesAfter(d, s, request[a].key)
  /\ alwaysRules' = IF d = "always" THEN alwaysRules \union {request[a].key} ELSE alwaysRules
  /\ UNCHANGED <<request, waiter, due>>

\* resolve, after the deadline: the request ends here, whoever asked
ResolveExpired(a) ==
  /\ a \in pending \intersect due
  /\ Settle(a, "Expired", "timed_out")
  /\ UNCHANGED <<request, rules, alwaysRules, waiter, due>>

\* resolve, refused without effect: unknown, settled before, or not the
\* caller's.  The entry taken out of the map is put back.
ResolveRefused(s, t, a) ==
  /\ ~Resolvable(s, t, a) /\ a \notin pending \intersect due
  /\ UNCHANGED approvalVars

Resolve(s, t, a, d) ==
  ResolveAccepted(s, t, a, d) \/ ResolveExpired(a) \/ ResolveRefused(s, t, a)

\* mutant: the retain filter keeps what it should take
PendingOfOthers(t) == {a \in pending : request[a].turn # t}

PendingOf(t) == {a \in pending : request[a].turn = t}

CancelForTurn(t) ==
  /\ pending' = pending \ PendingOf(t)
  /\ finished' = [a \in Approvals |-> IF a \in PendingOf(t) THEN "Cancelled" ELSE finished[a]]
  /\ delivered' = [a \in Approvals |-> IF a \in PendingOf(t) THEN "cancelled" ELSE delivered[a]]
  /\ UNCHANGED <<request, rules, alwaysRules, waiter, due>>

\* mutant: an expired request is forgotten
ExpireForgets(a) ==
  pending' = pending \ {a} /\ UNCHANGED <<request, finished, delivered, rules, alwaysRules, waiter, due>>

\* expire does nothing to a request that is no longer pending.
Expire(a) ==
  /\ IF a \in pending THEN Settle(a, "Expired", "timed_out")
                      ELSE UNCHANGED <<pending, finished, delivered>>
  /\ UNCHANGED <<request, rules, alwaysRules, waiter, due>>

-----------------------------------------------------------------------------
(* the waiter task and the clock *)

DeadlinePasses(a) ==
  /\ waiter[a] = "waiting" /\ a \notin due
  /\ due' = due \union {a}
  /\ UNCHANGED <<managerVars, waiter>>

\* The branches of select! that are ready, any of which may win: an answer
\* that was delivered in time can lose to the timer or to the cancellation.
Ready(a, cancelled) ==
  ({delivered[a]} \ {"-"})
    \union (IF cancelled THEN {"cancelled"} ELSE {})
    \union (IF a \in due THEN {"timed_out"} ELSE {})

WaiterReturns(a, cancelled, o) ==
  /\ waiter[a] = "waiting"
  /\ o \in Ready(a, cancelled)
  /\ waiter' = [waiter EXCEPT ![a] = o]
  /\ UNCHANGED <<managerVars, due>>

-----------------------------------------------------------------------------
(* any actor: operations in any order, ids of any session and turn *)

ActorRegisters == \E a \in Approvals, r \in Requests : request[a] = NoRequest /\ Register(a, r)
ActorResolves  == \E s \in Sessions, t \in Turns, a \in Approvals, d \in Decisions : Resolve(s, t, a, d)
ActorCancels   == \E t \in Turns : CancelForTurn(t)
\* The actor expires a request after its waiter came back without an answer.
ActorExpires   == \E a \in Approvals : waiter[a] \in {"timed_out", "cancelled"} /\ Expire(a)
TimePasses     == \E a \in Approvals : DeadlinePasses(a)
WaiterWakes    == \E a \in Approvals, cancelled \in BOOLEAN, o \in Outcomes : WaiterReturns(a, cancelled, o)

ApprovalNext ==
  \/ ActorRegisters \/ ActorResolves \/ ActorCancels
  \/ ActorExpires \/ TimePasses \/ WaiterWakes

ApprovalSpec == ApprovalInit /\ [][ApprovalNext]_approvalVars

-----------------------------------------------------------------------------
(* properties *)

\* The two maps partition the ids that were ever registered: nothing is lost
\* while resolve, cancel_for_turn and expire take entries out and put them
\* back, and nothing is in both.
EveryRequestIsAccountedFor ==
  \A a \in Approvals : request[a] # NoRequest => (a \in pending) # (finished[a] # "-")

\* A request is settled once: a second resolve, a cancellation or an expiry
\* that arrives later changes neither the verdict nor the answer sent.
SettledOnce ==
  [][\A a \in Approvals :
       finished[a] # "-" => /\ finished'[a] = finished[a]
                            /\ delivered'[a] = delivered[a]
                            /\ a \notin pending']_approvalVars

\* A rule exists only because a user gave the answer Session, to a request of
\* that session for that key, or Always, to a request for that key; an answer
\* Once, a denial, a timeout or a cancelled turn never leaves one behind.
RulesComeFromTheUser ==
  /\ \A s \in Sessions : \A k \in rules[s] : \E a \in Approvals :
       request[a].session = s /\ request[a].key = k /\ delivered[a] = "session"
  /\ \A k \in alwaysRules : \E a \in Approvals :
       request[a].key = k /\ delivered[a] = "always"

\* A waiter reports a grant only if the manager took that very decision from
\* a user; the converse fails by design of select!, see Ready.
GrantsAreTheUsers ==
  \A a \in Approvals :
    waiter[a] \in Granted => finished[a] = "AlreadyResolved" /\ delivered[a] = waiter[a]

\* Nothing is permitted, now or later, that no user permitted.
OnlyUsersGrant == RulesComeFromTheUser /\ GrantsAreTheUsers
=============================================================================
