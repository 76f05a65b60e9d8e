---------------------------- MODULE AuthorizeCall ----------------------------
(***************************************************************************)
(* The decision engine at work: one rule set and default policy, fixed at  *)
(* startup, and the requests Handler.ServeHTTP has Authorize decide, one   *)
(* after the other.  What the caches and the daemon answer is part of the  *)
(* request here; Proxy.tla models where it comes from.                     *)
(***************************************************************************)
EXTENDS Integers, Authz

CONSTANTS
    RulePool,   \* the rules an operator may configure
    MaxRules,   \* bound on how many of them are configured
    Request     \* [class, body, execTo, inspected], as Authorize takes them

(***************************************************************************)
(* What the classifier's routes guarantee of a classification: exec and    *)
(* its follow-ups have the target "container" and an ID, list and prune    *)
(* have no ID.                                                             *)
(***************************************************************************)
ASSUME RequestAssumption ==
    \A r \in Request :
        /\ r.class = [action |-> r.class.action, target |-> r.class.target,
                      id |-> r.class.id]
        /\ r.class.action \in {"exec"} \cup FollowupAction =>
                r.class.target = "container" /\ r.class.id # Nil
        /\ r.class.action \in {"list", "prune"} => r.class.id = Nil

(***************************************************************************)
(* ruleBuilder.build admits no other decision, from either source.         *)
(***************************************************************************)
ASSUME DecisionAssumption ==
    /\ \A r \in RulePool : r.decision \in Decision
    /\ \A q \in Request :
            q.inspected # Nil /\ q.inspected.labelRules # Nil =>
                \A r \in q.inspected.labelRules : r.decision \in Decision

VARIABLES
    rules,      \* Engine.rules
    policy,     \* Engine.defaultPolicy
    request,    \* the request at hand
    verdict     \* "allow", "ask" or "deny"; "pending" until Authorize returns

vars == <<rules, policy, request, verdict>>

Init ==
    /\ rules \in SUBSET RulePool
    /\ Cardinality(rules) <= MaxRules
    /\ policy \in Decision
    /\ request \in Request
    /\ verdict = "pending"

Decide ==
    /\ verdict = "pending"
    /\ verdict' = Authorize(rules, policy, request.class, request.body,
                            request.execTo, request.inspected)
    /\ UNCHANGED <<rules, policy, request>>

NextRequest ==
    /\ verdict # "pending"
    /\ request' \in Request
    /\ verdict' = "pending"
    /\ UNCHANGED <<rules, policy>>

Next == Decide \/ NextRequest

Spec == Init /\ [][Next]_vars

-----------------------------------------------------------------------------

TypeOK ==
    /\ rules \subseteq RulePool
    /\ policy \in Decision
    /\ request \in Request
    /\ verdict \in Decision \cup {"pending"}

\* How much a verdict grants.
Rank(decision) ==
    IF decision = "deny" THEN 0 ELSE IF decision = "ask" THEN 1 ELSE 2

Verdict(rs) ==
    Authorize(rs, policy, request.class, request.body,
              request.execTo, request.inspected)

Granted == verdict \in {"allow", "ask"}

Class == Resolved(request.class, request.execTo)

IsFollowup == request.class.action \in FollowupAction

Found == FindRules(rules, Class)

(***************************************************************************)
(* No exec gets past the engine, or as far as a prompt, unless the user it *)
(* would run as is known and neither the user nor the group is root:       *)
(* whatever rules are configured, inherited users included.                *)
(***************************************************************************)
NoRootExec ==
    Granted /\ request.class.action = "exec" =>
        LET u == EffectiveUser(request.inspected, request.body)
        IN  u # Nil /\ u.user \notin Root /\ u.group \notin Root

(***************************************************************************)
(* DPP_DEFAULT=allow never lets an exec or a follow-up through: some rule, *)
(* of the configuration or of the container's labels, allows exec.         *)
(***************************************************************************)
ExecNeedsAllowRule ==
    verdict = "allow" /\ Class.action = "exec" =>
        \E r \in rules \cup (IF request.inspected.labelRules = Nil THEN {}
                             ELSE request.inspected.labelRules) :
            /\ r.decision = "allow"
            /\ "exec" \in r.actions

(***************************************************************************)
(* Configuring one more rule never grants more than that rule's own        *)
(* decision, although it may switch the container inspect, the label rules *)
(* and the default policy on or off.                                       *)
(***************************************************************************)
RuleGrantsAtMostItsDecision ==
    verdict # "pending" =>
        \A r \in RulePool :
            LET more == Rank(Verdict(rules \cup {r}))
            IN  more <= Rank(verdict) \/ more <= Rank(r.decision)

(***************************************************************************)
(* Fail closed: no verdict grants more than any rule that matches, static  *)
(* or, once the container is inspected, from its labels.                   *)
(***************************************************************************)
MatchingRuleBounds ==
    LET meta == IF NeedsContainerMeta(Found, Class) THEN request.inspected
                ELSE Nil
        labelRules == IF meta = Nil \/ meta.labelRules = Nil THEN {}
                      ELSE FindRules(meta.labelRules, Class)
    IN  Granted /\ request.class.target # "system" =>
            \A r \in Found \cup labelRules :
                RuleAllows(r, meta, request.body, Class, IsFollowup)
                    => Rank(verdict) <= Rank(r.decision)

(***************************************************************************)
(* Where Authorize saves itself the inspect, no container's metadata could *)
(* have changed what the configured rules decide.                          *)
(***************************************************************************)
SkippedInspectIsHarmless ==
    verdict # "pending" /\ Class.target = "container" /\ Class.id # Nil
        /\ ~NeedsContainerMeta(Found, Class) =>
            \A r \in Request :
                r.inspected # Nil =>
                    ApplyRuleDecisions(Found, r.inspected, request.body,
                                       Class, IsFollowup)
                  = ApplyRuleDecisions(Found, Nil, request.body,
                                       Class, IsFollowup)

(***************************************************************************)
(* A follow-up skips the user check of its exec's create, and yet is never *)
(* granted more than the create was: an exec that needed confirmation is   *)
(* not started without one.                                                *)
(***************************************************************************)
FollowupNeverWidens ==
    Granted /\ request.class.action = "exec" =>
        \A f \in FollowupAction :
            Rank(Authorize(rules, policy,
                           [request.class EXCEPT !.action = f], Nil,
                           request.class.id, request.inspected))
                <= Rank(verdict)

-----------------------------------------------------------------------------
\* What the documentation says

(***************************************************************************)
(* README.md:109: a deny rule blocks a matching request.  Here it matches  *)
(* everything (MATCH=* ) and restricts no user.                            *)
(***************************************************************************)
DenyRuleBlocks ==
    \A r \in Found :
        r.decision = "deny" /\ r.matchAny /\ r.execUser = Nil
            /\ r.execUserAllow = {} => ~Granted

(***************************************************************************)
(* README.md:79: DPP_DEFAULT is the policy for a recognized, non-exec      *)
(* request without a matching rule.                                        *)
(***************************************************************************)
DefaultCoversUnmatched ==
    verdict # "pending" /\ Class.target # "system" /\ Class.id # Nil
        /\ Class.action \notin {"unknown", "exec"}
        /\ request.inspected # Nil
        /\ request.inspected.labelRules = {}
        /\ (\A r \in rules : ~RuleMatches(r, request.inspected, request.body,
                                          Class)) =>
            verdict = policy
=============================================================================
