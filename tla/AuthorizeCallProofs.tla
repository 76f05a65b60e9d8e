------------------------- MODULE AuthorizeCallProofs -------------------------
(***************************************************************************)
(* The safety properties of AuthorizeCall for every rule set, request and  *)
(* container.  Authorize is a function of its inputs, so the inductive     *)
(* invariant only says that the verdict is the one for the request at      *)
(* hand; the work is in the lemmas about the operators of Authz.           *)
(***************************************************************************)
EXTENDS AuthorizeCall, TLAPS

(***************************************************************************)
(* What a set of firing decisions comes to.                                *)
(***************************************************************************)
LEMMA ApplyOutcome ==
    ASSUME NEW rs, NEW m, NEW b, NEW c, NEW fu
    PROVE  LET D == Decisions(rs, m, b, c, fu)
               a == ApplyRuleDecisions(rs, m, b, c, fu)
           IN  /\ a \in Decision \cup {"none"}
               /\ a = "none" <=> D \cap Decision = {}
               /\ a # "none" => a \in D
               /\ \A d \in D \cap Decision : a # "none" /\ Rank(a) <= Rank(d)
<1>1. CASE "deny" \in Decisions(rs, m, b, c, fu)
  BY <1>1 DEF ApplyRuleDecisions, Decision, Rank
<1>2. CASE /\ "deny" \notin Decisions(rs, m, b, c, fu)
           /\ "ask" \in Decisions(rs, m, b, c, fu)
  BY <1>2 DEF ApplyRuleDecisions, Decision, Rank
<1>3. CASE /\ "deny" \notin Decisions(rs, m, b, c, fu)
           /\ "ask" \notin Decisions(rs, m, b, c, fu)
  BY <1>3 DEF ApplyRuleDecisions, Decision, Rank
<1>. QED  BY <1>1, <1>2, <1>3

\* Ranks run from 0 to 2, and only deny has rank 0.
LEMMA RankRange ==
    ASSUME NEW d \in Decision
    PROVE  Rank(d) \in 0..2 /\ (Rank(d) = 0 <=> d = "deny")
BY DEF Decision, Rank

(***************************************************************************)
(* More firing rules never grant more.                                     *)
(***************************************************************************)
LEMMA ApplyAntitone ==
    ASSUME NEW rs1, NEW m1, NEW b1, NEW c1, NEW f1,
           NEW rs2, NEW m2, NEW b2, NEW c2, NEW f2,
           Decisions(rs1, m1, b1, c1, f1) \subseteq Decisions(rs2, m2, b2, c2, f2),
           ApplyRuleDecisions(rs1, m1, b1, c1, f1) # "none"
    PROVE  LET a1 == ApplyRuleDecisions(rs1, m1, b1, c1, f1)
               a2 == ApplyRuleDecisions(rs2, m2, b2, c2, f2)
           IN  a2 # "none" /\ Rank(a2) <= Rank(a1)
<1>. DEFINE a1 == ApplyRuleDecisions(rs1, m1, b1, c1, f1)
            a2 == ApplyRuleDecisions(rs2, m2, b2, c2, f2)
<1>1. a1 \in Decisions(rs1, m1, b1, c1, f1) /\ a1 \in Decision
  BY ApplyOutcome
<1>2. a1 \in Decisions(rs2, m2, b2, c2, f2) \cap Decision
  BY <1>1
<1>. HIDE DEF a1, a2
<1>3. \A d \in Decisions(rs2, m2, b2, c2, f2) \cap Decision :
        a2 # "none" /\ Rank(a2) <= Rank(d)
  BY ApplyOutcome DEF a2
<1>. QED  BY <1>2, <1>3 DEF a1, a2

\* Without rules the outcome is a decision.
LEMMA WithoutRulesType ==
    ASSUME NEW e, NEW p \in Decision, NEW m, NEW b, NEW c, NEW fu
    PROVE  WithoutRules(e, p, m, b, c, fu) \in Decision
BY DEF WithoutRules, Decision

\* With rules or without, the outcome is a decision.
LEMMA ConcludeType ==
    ASSUME NEW rs, NEW e, NEW p \in Decision, NEW m, NEW b, NEW c, NEW fu
    PROVE  Conclude(rs, e, p, m, b, c, fu) \in Decision
BY ApplyOutcome, WithoutRulesType DEF Conclude, Decision

(***************************************************************************)
(* What is evaluated when nothing decides the request beforehand.          *)
(***************************************************************************)
Evaluated(rs, p, c, b, x, m, labels) ==
    Conclude(AllRules(rs, labels, Resolved(c, x)), labels, p, m, b,
             Resolved(c, x), c.action \in FollowupAction)

Undecided(c, x) ==
    /\ c.target # "system" /\ c.action # "unknown"
    /\ c.action \in FollowupAction => x # Nil

\* The paths Authorize takes, and what it returns on each.
LEMMA AuthorizeCases ==
    ASSUME NEW rs, NEW p, NEW c, NEW b, NEW x, NEW m
    PROVE  LET needs == NeedsContainerMeta(FindRules(rs, Resolved(c, x)),
                                           Resolved(c, x))
               v == Authorize(rs, p, c, b, x, m)
           IN  /\ c.target = "system" => v = "allow"
               /\ c.target # "system" /\ ~Undecided(c, x) => v = "deny"
               /\ Undecided(c, x) /\ needs /\ m = Nil => v = "deny"
               /\ Undecided(c, x) /\ needs /\ m # Nil =>
                    v = Evaluated(rs, p, c, b, x, m, m.labelRules)
               /\ Undecided(c, x) /\ ~needs =>
                    v = Evaluated(rs, p, c, b, x, Nil, {})
BY DEF Authorize, Evaluated, Undecided

(***************************************************************************)
(* Authorize always returns a verdict.                                     *)
(***************************************************************************)
LEMMA AuthorizeType ==
    ASSUME NEW rs, NEW p \in Decision, NEW c, NEW b, NEW x, NEW m
    PROVE  Authorize(rs, p, c, b, x, m) \in Decision
<1>1. "allow" \in Decision /\ "deny" \in Decision
  BY DEF Decision
<1>2. \A mm, ll : Evaluated(rs, p, c, b, x, mm, ll) \in Decision
  BY ConcludeType DEF Evaluated
<1>. QED  BY <1>1, <1>2, AuthorizeCases

-----------------------------------------------------------------------------
\* The state

(***************************************************************************)
(* The inductive invariant: the types, and a verdict that is Authorize's   *)
(* for the very request, rules and policy in the state.                    *)
(***************************************************************************)
IInv == TypeOK /\ (verdict # "pending" => verdict = Verdict(rules))

\* The invariant holds initially.
LEMMA InitIInv == Init => IInv
BY DEF Init, IInv, TypeOK

\* Every step keeps the invariant.
LEMMA StepIInv == IInv /\ [Next]_vars => IInv'
<1>. SUFFICES ASSUME IInv, [Next]_vars PROVE IInv'
  OBVIOUS
<1>1. CASE Decide
  <2>1. verdict' = Verdict(rules) /\ UNCHANGED <<rules, policy, request>>
    BY <1>1 DEF Decide, Verdict
  <2>2. Verdict(rules) \in Decision
    BY AuthorizeType DEF Verdict, IInv, TypeOK
  <2>3. Verdict(rules)' = Verdict(rules)
    BY <2>1 DEF Verdict
  <2>. QED  BY <2>1, <2>2, <2>3 DEF IInv, TypeOK
<1>2. CASE NextRequest
  BY <1>2 DEF NextRequest, IInv, TypeOK
<1>3. CASE UNCHANGED vars
  BY <1>3 DEF vars, IInv, TypeOK, Verdict
<1>. QED  BY <1>1, <1>2, <1>3 DEF Next

\* Hence it holds in every reachable state.
LEMMA Invariance == Spec => []IInv
BY InitIInv, StepIInv, PTL DEF Spec

(***************************************************************************)
(* Authorize always comes back with allow, ask or deny.                    *)
(***************************************************************************)
THEOREM TypeInvariant == Spec => []TypeOK
<1>1. IInv => TypeOK
  BY DEF IInv
<1>. QED  BY <1>1, Invariance, PTL

-----------------------------------------------------------------------------
\* Exec

(***************************************************************************)
(* A user that passed DefaultExecUserSafe is known and not root.           *)
(***************************************************************************)
LEMMA SafeUser ==
    ASSUME NEW m, NEW b, DefaultExecUserSafe(m, b)
    PROVE  LET u == EffectiveUser(m, b)
           IN  u # Nil /\ u.user \notin Root /\ u.group \notin Root
BY DEF DefaultExecUserSafe, IsRootUserOrGroup

(***************************************************************************)
(* No verdict but deny on an exec create whose user is not safe.           *)
(***************************************************************************)
LEMMA ConcludeExecSafe ==
    ASSUME NEW rs, NEW e, NEW p, NEW m, NEW b, NEW c,
           c.action = "exec",
           Conclude(rs, e, p, m, b, c, FALSE) # "deny"
    PROVE  DefaultExecUserSafe(m, b)
<1>1. CASE rs = {}
  BY <1>1 DEF Conclude, WithoutRules
<1>2. CASE rs # {}
  <2>1. ApplyRuleDecisions(rs, m, b, c, FALSE) # "none"
    BY <1>2 DEF Conclude
  <2>2. Decisions(rs, m, b, c, FALSE) # {}
    BY <2>1, ApplyOutcome
  <2>3. PICK r \in rs : RuleAllows(r, m, b, c, FALSE)
    BY <2>2 DEF Decisions
  <2>. QED  BY <2>3 DEF RuleAllows, CheckExecUser
<1>. QED  BY <1>1, <1>2

(***************************************************************************)
(* A classification the exec create route yields.                          *)
(***************************************************************************)
IsExecCreate(c) == c.action = "exec" /\ c.target = "container" /\ c.id # Nil

\* A request with action exec is an exec create on a container.
LEMMA ExecCreateRequest ==
    ASSUME TypeOK, request.class.action = "exec"
    PROVE  IsExecCreate(request.class)
BY RequestAssumption DEF TypeOK, IsExecCreate

(***************************************************************************)
(* An exec create is decided on the container's metadata, never without.   *)
(***************************************************************************)
LEMMA ExecInspects ==
    ASSUME NEW rs, NEW p, NEW c, NEW b, NEW x, NEW m,
           IsExecCreate(c),
           Authorize(rs, p, c, b, x, m) # "deny"
    PROVE  /\ m # Nil
           /\ Authorize(rs, p, c, b, x, m)
                = Conclude(AllRules(rs, m.labelRules, c), m.labelRules, p, m,
                           b, c, FALSE)
<1>1. /\ (c.action \in FollowupAction) = FALSE
      /\ Resolved(c, x) = c
      /\ Undecided(c, x)
  BY DEF IsExecCreate, FollowupAction, Resolved, Undecided
<1>2. NeedsContainerMeta(FindRules(rs, c), c)
  BY DEF IsExecCreate, NeedsContainerMeta
<1>3. /\ m # Nil
      /\ Authorize(rs, p, c, b, x, m)
            = Evaluated(rs, p, c, b, x, m, m.labelRules)
  BY <1>1, <1>2, AuthorizeCases
<1>. QED  BY <1>1, <1>3 DEF Evaluated

\* An exec create that is not denied has a safe user.
LEMMA ExecCreateSafe ==
    ASSUME NEW rs, NEW p, NEW c, NEW b, NEW x, NEW m,
           IsExecCreate(c),
           Authorize(rs, p, c, b, x, m) # "deny"
    PROVE  DefaultExecUserSafe(m, b)
<1>1. Conclude(AllRules(rs, m.labelRules, c), m.labelRules, p, m, b, c, FALSE)
        # "deny"
  BY ExecInspects
<1>. QED  BY <1>1, ConcludeExecSafe DEF IsExecCreate

(***************************************************************************)
(* No exec create is granted, or asked about, for root or an unknown user. *)
(***************************************************************************)
THEOREM NoRootExecInvariant == Spec => []NoRootExec
<1>1. IInv => NoRootExec
  <2>. SUFFICES ASSUME IInv, Granted, request.class.action = "exec"
                PROVE  LET u == EffectiveUser(request.inspected, request.body)
                       IN  u # Nil /\ u.user \notin Root /\ u.group \notin Root
    BY DEF NoRootExec
  <2>1. Authorize(rules, policy, request.class, request.body,
                  request.execTo, request.inspected) # "deny"
    BY DEF Granted, IInv, Verdict
  <2>2. IsExecCreate(request.class)
    BY ExecCreateRequest DEF IInv
  <2>3. DefaultExecUserSafe(request.inspected, request.body)
    BY <2>1, <2>2, ExecCreateSafe
  <2>. QED  BY <2>3, SafeUser
<1>. QED  BY <1>1, Invariance, PTL

\* Every firing decision is that of a rule that applies.
LEMMA DecisionOfARule ==
    ASSUME NEW rs, NEW m, NEW b, NEW c, NEW fu,
           NEW d \in Decisions(rs, m, b, c, fu)
    PROVE  \E r \in rs : RuleAllows(r, m, b, c, fu) /\ r.decision = d
BY DEF Decisions

(***************************************************************************)
(* For any exec, Conclude comes to allow only through an allow rule.       *)
(***************************************************************************)
LEMMA ConcludeExecAllow ==
    ASSUME NEW rs, NEW e, NEW p, NEW m, NEW b, NEW c, NEW fu,
           c.action = "exec",
           Conclude(rs, e, p, m, b, c, fu) = "allow"
    PROVE  \E r \in rs : r.decision = "allow"
<1>1. rs # {} /\ ApplyRuleDecisions(rs, m, b, c, fu) = "allow"
  BY DEF Conclude, WithoutRules
<1>2. "allow" \in Decisions(rs, m, b, c, fu)
  BY <1>1, ApplyOutcome
<1>. QED  BY <1>2, DecisionOfARule

(***************************************************************************)
(* DPP_DEFAULT never allows an exec or a follow-up: an allow rule does.    *)
(***************************************************************************)
THEOREM ExecNeedsAllowRuleInvariant == Spec => []ExecNeedsAllowRule
<1>1. IInv => ExecNeedsAllowRule
  <2>. DEFINE m == request.inspected
              L == IF m.labelRules = Nil THEN {} ELSE m.labelRules
  <2>. SUFFICES ASSUME IInv, verdict = "allow", Class.action = "exec"
                PROVE  \E r \in rules \cup L :
                           r.decision = "allow" /\ "exec" \in r.actions
    BY DEF ExecNeedsAllowRule
  <2>1. Verdict(rules) = "allow"
    BY DEF IInv
  <2>2. request.class.action \in {"exec"} \cup FollowupAction
    BY DEF Class, Resolved, FollowupAction
  <2>3. request.class.target = "container"
    BY <2>2, RequestAssumption DEF IInv, TypeOK
  <2>4. PICK mm, labels :
            /\ labels \in {{}, m.labelRules}
            /\ Evaluated(rules, policy, request.class, request.body,
                         request.execTo, mm, labels) = "allow"
    <3>1. Authorize(rules, policy, request.class, request.body,
                    request.execTo, m) = "allow"
      BY <2>1 DEF Verdict
    <3>. HIDE DEF m
    <3>. QED  BY <2>3, <3>1, AuthorizeCases
  <2>5. PICK r \in AllRules(rules, labels, Class) : r.decision = "allow"
    BY <2>4, ConcludeExecAllow DEF Evaluated, Class
  <2>6. Class.action \in r.actions
    BY <2>5 DEF AllRules, FindRules
  <2>7. r \in rules \cup L
    <3>1. CASE r \in rules
      BY <3>1
    <3>2. CASE labels # Nil /\ r \in labels
      BY <2>4, <3>2
    <3>. QED  BY <2>5, <3>1, <3>2 DEF AllRules, FindRules
  <2>. QED  BY <2>5, <2>6, <2>7
<1>. QED  BY <1>1, Invariance, PTL

-----------------------------------------------------------------------------
\* One more rule

\* One more rule leaves the outcome as it is, or bounds it.
LEMMA ApplyOneMore ==
    ASSUME NEW rs, NEW r, r.decision \in Decision,
           NEW m, NEW b, NEW c, NEW fu
    PROVE  LET more == ApplyRuleDecisions(rs \cup {r}, m, b, c, fu)
           IN  \/ more = ApplyRuleDecisions(rs, m, b, c, fu)
               \/ more # "none" /\ Rank(more) <= Rank(r.decision)
<1>1. CASE RuleAllows(r, m, b, c, fu)
  <2>1. r.decision \in Decisions(rs \cup {r}, m, b, c, fu) \cap Decision
    BY <1>1 DEF Decisions
  <2>. QED  BY <2>1, ApplyOutcome
<1>2. CASE ~RuleAllows(r, m, b, c, fu)
  <2>1. Decisions(rs \cup {r}, m, b, c, fu) = Decisions(rs, m, b, c, fu)
    BY <1>2 DEF Decisions
  <2>. QED  BY <2>1 DEF ApplyRuleDecisions
<1>. QED  BY <1>1, <1>2

\* No rules, no outcome.
LEMMA NothingApplies ==
    ASSUME NEW m, NEW b, NEW c, NEW fu
    PROVE  ApplyRuleDecisions({}, m, b, c, fu) = "none"
BY DEF ApplyRuleDecisions, Decisions

\* The same of Conclude, where no outcome means deny or the default.
LEMMA ConcludeOneMore ==
    ASSUME NEW rs, NEW r, r.decision \in Decision, NEW e,
           NEW p \in Decision, NEW m, NEW b, NEW c, NEW fu
    PROVE  LET more == Rank(Conclude(rs \cup {r}, e, p, m, b, c, fu))
           IN  \/ more <= Rank(Conclude(rs, e, p, m, b, c, fu))
               \/ more <= Rank(r.decision)
<1>. DEFINE applied == ApplyRuleDecisions(rs, m, b, c, fu)
            applied2 == ApplyRuleDecisions(rs \cup {r}, m, b, c, fu)
            before == Conclude(rs, e, p, m, b, c, fu)
            after == Conclude(rs \cup {r}, e, p, m, b, c, fu)
<1>1. after = IF applied2 = "none" THEN "deny" ELSE applied2
  BY DEF Conclude
<1>2. Rank(before) \in 0..2 /\ Rank("deny") = 0
  BY ConcludeType, RankRange DEF Rank
<1>3. applied2 = applied \/ (applied2 # "none" /\ Rank(applied2) <= Rank(r.decision))
  BY ApplyOneMore
<1>4. applied # "none" => before = applied
  BY NothingApplies DEF Conclude
<1>5. applied \in Decision \cup {"none"}
  BY ApplyOutcome
<1>6. Rank(after) <= Rank(before) \/ Rank(after) <= Rank(r.decision)
  <2>. HIDE DEF applied, applied2, before, after
  <2>1. CASE applied2 = "none"
    BY <1>1, <1>2, <2>1
  <2>2. CASE applied2 # "none" /\ applied2 = applied
    BY <1>1, <1>2, <1>4, <2>2
  <2>3. CASE applied2 # "none" /\ Rank(applied2) <= Rank(r.decision)
    BY <1>1, <2>3
  <2>. QED  BY <1>3, <2>1, <2>2, <2>3
<1>. QED  BY <1>6

(***************************************************************************)
(* Whichever rules are evaluated, one more of them raises the outcome to   *)
(* its own decision at most.                                               *)
(***************************************************************************)
LEMMA EvaluatedOneMore ==
    ASSUME NEW rs, NEW r, r.decision \in Decision, NEW p \in Decision,
           NEW c, NEW b, NEW x, NEW m, NEW labels
    PROVE  LET more == Rank(Evaluated(rs \cup {r}, p, c, b, x, m, labels))
           IN  \/ more <= Rank(Evaluated(rs, p, c, b, x, m, labels))
               \/ more <= Rank(r.decision)
<1>. DEFINE all == AllRules(rs, labels, Resolved(c, x))
            all2 == AllRules(rs \cup {r}, labels, Resolved(c, x))
            Out(S) == Rank(Conclude(S, labels, p, m, b, Resolved(c, x),
                                    c.action \in FollowupAction))
<1>1. all2 = all \/ all2 = all \cup {r}
  BY DEF AllRules, FindRules
<1>2. Out(all \cup {r}) <= Out(all) \/ Out(all \cup {r}) <= Rank(r.decision)
  BY ConcludeOneMore
<1>3. Out(all) <= Out(all)
  BY ConcludeType, RankRange
<1>4. Out(all2) <= Out(all) \/ Out(all2) <= Rank(r.decision)
  <2>. HIDE DEF all, all2, Out
  <2>. QED  BY <1>1, <1>2, <1>3
<1>. QED  BY <1>4 DEF Evaluated

(***************************************************************************)
(* Where the inspect is skipped although there is a container, every rule  *)
(* found has MATCH=*, and so applies whatever the metadata.                *)
(***************************************************************************)
Inspectable(c) ==
    /\ c.target = "container"
    /\ c.id # Nil
    /\ c.action \notin {"create", "list", "prune"}

\* Where the inspect is skipped, every rule found applies to anything.
LEMMA UninspectedMatchAny ==
    ASSUME NEW rs, NEW c, Inspectable(c), ~NeedsContainerMeta(rs, c)
    PROVE  /\ rs # {}
           /\ \A r \in rs : \A m, b, fu : RuleAllows(r, m, b, c, fu)
BY DEF Inspectable, NeedsContainerMeta, RuleAllows, RuleMatches

\* Only what has an ID of its own is ever inspected.
LEMMA NeedsInspectable ==
    ASSUME NEW rs, NEW c, NeedsContainerMeta(rs, c)
    PROVE  Inspectable(c)
BY DEF Inspectable, NeedsContainerMeta

\* The decision of a rule that applies is among the firing ones.
LEMMA AllowedDecision ==
    ASSUME NEW rs, NEW r \in rs, NEW m, NEW b, NEW c, NEW fu,
           RuleAllows(r, m, b, c, fu)
    PROVE  r.decision \in Decisions(rs, m, b, c, fu)
BY DEF Decisions

(***************************************************************************)
(* A rule that applies bounds what Conclude comes to.                      *)
(***************************************************************************)
LEMMA ConcludeBound ==
    ASSUME NEW rs, NEW r \in rs, r.decision \in Decision,
           NEW e, NEW p, NEW m, NEW b, NEW c, NEW fu,
           RuleAllows(r, m, b, c, fu)
    PROVE  Rank(Conclude(rs, e, p, m, b, c, fu)) <= Rank(r.decision)
<1>1. r.decision \in Decisions(rs, m, b, c, fu) \cap Decision
  BY AllowedDecision
<1>2. /\ ApplyRuleDecisions(rs, m, b, c, fu) # "none"
      /\ Rank(ApplyRuleDecisions(rs, m, b, c, fu)) <= Rank(r.decision)
  BY <1>1, ApplyOutcome
<1>3. Conclude(rs, e, p, m, b, c, fu) = ApplyRuleDecisions(rs, m, b, c, fu)
  BY <1>2 DEF Conclude
<1>. QED  BY <1>2, <1>3

(***************************************************************************)
(* With more rules and metadata, no less applies than to the bare rules of *)
(* a request that was not inspected.                                       *)
(***************************************************************************)
LEMMA InspectOnlyLowers ==
    ASSUME NEW rs, NEW rs2, NEW c, Inspectable(c), ~NeedsContainerMeta(rs, c),
           rs \subseteq rs2, \A r \in rs : r.decision \in Decision,
           NEW e, NEW e2, NEW p, NEW m, NEW b, NEW fu
    PROVE  Rank(Conclude(rs2, e2, p, m, b, c, fu))
             <= Rank(Conclude(rs, e, p, Nil, b, c, fu))
<1>. DEFINE a1 == ApplyRuleDecisions(rs, Nil, b, c, fu)
            a2 == ApplyRuleDecisions(rs2, m, b, c, fu)
<1>1. rs # {} /\ \A r \in rs : /\ RuleAllows(r, m, b, c, fu)
                                /\ RuleAllows(r, Nil, b, c, fu)
  BY UninspectedMatchAny
<1>2. Decisions(rs, Nil, b, c, fu) \subseteq Decisions(rs2, m, b, c, fu)
  BY <1>1 DEF Decisions
<1>3. Decisions(rs, Nil, b, c, fu) \cap Decision # {}
  BY <1>1 DEF Decisions
<1>4. a1 # "none"
  BY <1>3, ApplyOutcome
<1>5. a2 # "none" /\ Rank(a2) <= Rank(a1)
  BY <1>2, <1>4, ApplyAntitone
<1>6. /\ Conclude(rs, e, p, Nil, b, c, fu) = a1
      /\ Conclude(rs2, e2, p, m, b, c, fu) = a2
  BY <1>1, <1>4, <1>5 DEF Conclude
<1>. QED  BY <1>5, <1>6

\* The same of Authorize, whether or not either set needs the inspect.
LEMMA AuthorizeOneMore ==
    ASSUME NEW rs, \A q \in rs : q.decision \in Decision,
           NEW r, r.decision \in Decision, NEW p \in Decision,
           NEW c, NEW b, NEW x, NEW m
    PROVE  LET more == Rank(Authorize(rs \cup {r}, p, c, b, x, m))
           IN  \/ more <= Rank(Authorize(rs, p, c, b, x, m))
               \/ more <= Rank(r.decision)
<1>. DEFINE C == Resolved(c, x)
            F == FindRules(rs, C)
            F2 == FindRules(rs \cup {r}, C)
            fu == c.action \in FollowupAction
            before == Authorize(rs, p, c, b, x, m)
            after == Authorize(rs \cup {r}, p, c, b, x, m)
            Goal == Rank(after) <= Rank(before) \/ Rank(after) <= Rank(r.decision)
<1>1. Rank(before) \in 0..2 /\ Rank(after) \in 0..2
  BY AuthorizeType, RankRange
<1>2. CASE ~Undecided(c, x)
  <2>1. after = before
    BY <1>2, AuthorizeCases DEF Undecided
  <2>. QED  BY <1>1, <2>1
<1>3. CASE Undecided(c, x) /\ after = "deny"
  <2>1. Rank(after) = 0
    BY <1>3 DEF Rank
  <2>. QED  BY <1>1, <2>1
<1>4. CASE /\ Undecided(c, x) /\ after # "deny"
           /\ NeedsContainerMeta(F, C) /\ NeedsContainerMeta(F2, C)
  <2>1. /\ before = Evaluated(rs, p, c, b, x, m, m.labelRules)
        /\ after = Evaluated(rs \cup {r}, p, c, b, x, m, m.labelRules)
    BY <1>4, AuthorizeCases
  <2>. QED  BY <2>1, EvaluatedOneMore
<1>5. CASE /\ Undecided(c, x)
           /\ ~NeedsContainerMeta(F, C) /\ ~NeedsContainerMeta(F2, C)
  <2>1. /\ before = Evaluated(rs, p, c, b, x, Nil, {})
        /\ after = Evaluated(rs \cup {r}, p, c, b, x, Nil, {})
    BY <1>5, AuthorizeCases
  <2>. QED  BY <2>1, EvaluatedOneMore
<1>6. CASE /\ Undecided(c, x)
           /\ NeedsContainerMeta(F, C) /\ ~NeedsContainerMeta(F2, C)
  <2>1. after = Evaluated(rs \cup {r}, p, c, b, x, Nil, {})
    BY <1>6, AuthorizeCases
  <2>2. F2 = F \/ (F2 = F \cup {r} /\ r \in F2)
    BY DEF FindRules
  <2>3. r \in F2
    BY <1>6, <2>2
  <2>4. RuleAllows(r, Nil, b, C, fu)
    BY <1>6, <2>3, NeedsInspectable, UninspectedMatchAny
  <2>5. r \in AllRules(rs \cup {r}, {}, C)
    BY <2>3 DEF AllRules
  <2>6. Rank(Conclude(AllRules(rs \cup {r}, {}, C), {}, p, Nil, b, C, fu))
            <= Rank(r.decision)
    BY <2>4, <2>5, ConcludeBound
  <2>. QED  BY <2>1, <2>6 DEF Evaluated
<1>7. CASE /\ Undecided(c, x) /\ after # "deny"
           /\ ~NeedsContainerMeta(F, C) /\ NeedsContainerMeta(F2, C)
  <2>1. /\ before = Evaluated(rs, p, c, b, x, Nil, {})
        /\ after = Evaluated(rs \cup {r}, p, c, b, x, m, m.labelRules)
    BY <1>7, AuthorizeCases
  <2>2. AllRules(rs, {}, C) = F
    BY DEF AllRules, FindRules
  <2>3. F \subseteq AllRules(rs \cup {r}, m.labelRules, C)
    BY DEF AllRules, FindRules
  <2>4. \A q \in F : q.decision \in Decision
    BY DEF FindRules
  <2>5. Inspectable(C)
    BY <1>7, NeedsInspectable
  <2>6. Rank(Conclude(AllRules(rs \cup {r}, m.labelRules, C), m.labelRules,
                      p, m, b, C, fu))
            <= Rank(Conclude(F, {}, p, Nil, b, C, fu))
    <3>. HIDE DEF C, F, fu
    <3>. QED  BY <1>7, <2>3, <2>4, <2>5, InspectOnlyLowers
  <2>. QED  BY <2>1, <2>2, <2>6 DEF Evaluated
<1>. QED  BY <1>2, <1>3, <1>4, <1>5, <1>6, <1>7

(***************************************************************************)
(* Configuring one more rule grants no more than its own decision.         *)
(***************************************************************************)
THEOREM RuleGrantsAtMostItsDecisionInvariant ==
    Spec => []RuleGrantsAtMostItsDecision
<1>1. IInv => RuleGrantsAtMostItsDecision
  <2>. SUFFICES ASSUME IInv, verdict # "pending", NEW r \in RulePool
                PROVE  LET more == Rank(Verdict(rules \cup {r}))
                       IN  more <= Rank(verdict) \/ more <= Rank(r.decision)
    BY DEF RuleGrantsAtMostItsDecision
  <2>1. /\ r.decision \in Decision /\ policy \in Decision
        /\ \A q \in rules : q.decision \in Decision
    BY DecisionAssumption DEF IInv, TypeOK
  <2>2. verdict = Verdict(rules)
    BY DEF IInv
  <2>. QED  BY <2>1, <2>2, AuthorizeOneMore DEF Verdict
<1>. QED  BY <1>1, Invariance, PTL

(***************************************************************************)
(* Deny wins over ask and ask over allow, across the configured rules and  *)
(* the container's own.                                                    *)
(***************************************************************************)
LEMMA MatchingRuleBound ==
    ASSUME NEW rs, NEW p, NEW c, NEW b, NEW x, NEW m,
           c.target # "system", NEW r, r.decision \in Decision,
           NEW mm, mm = IF NeedsContainerMeta(FindRules(rs, Resolved(c, x)),
                                              Resolved(c, x))
                        THEN m ELSE Nil,
           r \in AllRules(rs, IF mm = Nil THEN {} ELSE mm.labelRules,
                          Resolved(c, x)),
           RuleAllows(r, mm, b, Resolved(c, x), c.action \in FollowupAction)
    PROVE  Rank(Authorize(rs, p, c, b, x, m)) <= Rank(r.decision)
<1>. DEFINE labels == IF mm = Nil THEN {} ELSE mm.labelRules
            v == Authorize(rs, p, c, b, x, m)
<1>1. v = "deny" \/ v = Evaluated(rs, p, c, b, x, mm, labels)
  BY AuthorizeCases
<1>2. Rank(Evaluated(rs, p, c, b, x, mm, labels)) <= Rank(r.decision)
  BY ConcludeBound DEF Evaluated
<1>3. Rank("deny") = 0 /\ Rank(r.decision) \in 0..2
  BY RankRange DEF Rank
<1>. QED  BY <1>1, <1>2, <1>3

(***************************************************************************)
(* No verdict grants more than a rule that matches the request.            *)
(***************************************************************************)
THEOREM MatchingRuleBoundsInvariant == Spec => []MatchingRuleBounds
<1>1. IInv => MatchingRuleBounds
  <2>. DEFINE meta == IF NeedsContainerMeta(Found, Class)
                      THEN request.inspected ELSE Nil
              labelRules == IF meta = Nil \/ meta.labelRules = Nil THEN {}
                            ELSE FindRules(meta.labelRules, Class)
  <2>. SUFFICES ASSUME IInv, Granted, request.class.target # "system",
                       NEW r \in Found \cup labelRules,
                       RuleAllows(r, meta, request.body, Class, IsFollowup)
                PROVE  Rank(verdict) <= Rank(r.decision)
    BY DEF MatchingRuleBounds
  <2>1. verdict = Authorize(rules, policy, request.class, request.body,
                            request.execTo, request.inspected)
    BY DEF IInv, Granted, Verdict
  <2>2. r \in AllRules(rules, IF meta = Nil THEN {} ELSE meta.labelRules, Class)
    BY DEF AllRules, Found
  <2>3. r.decision \in Decision
    <3>1. CASE r \in Found
      BY <3>1, DecisionAssumption DEF Found, FindRules, IInv, TypeOK
    <3>2. CASE r \in labelRules
      BY <3>2, DecisionAssumption DEF FindRules, IInv, TypeOK
    <3>. QED  BY <3>1, <3>2
  <2>4. meta = IF NeedsContainerMeta(FindRules(rules,
                        Resolved(request.class, request.execTo)),
                        Resolved(request.class, request.execTo))
               THEN request.inspected ELSE Nil
    BY DEF Found, Class
  <2>. HIDE DEF meta
  <2>5. Rank(Authorize(rules, policy, request.class, request.body,
                       request.execTo, request.inspected)) <= Rank(r.decision)
    BY <2>2, <2>3, <2>4, MatchingRuleBound DEF Class, IsFollowup
  <2>. QED  BY <2>1, <2>5
<1>. QED  BY <1>1, Invariance, PTL

-----------------------------------------------------------------------------
\* The skipped inspect

(***************************************************************************)
(* A create is matched on its body alone.                                  *)
(***************************************************************************)
LEMMA CreateIgnoresMeta ==
    ASSUME NEW rs, NEW m, NEW b, NEW c, NEW fu, c.action = "create"
    PROVE  ApplyRuleDecisions(rs, m, b, c, fu)
             = ApplyRuleDecisions(rs, Nil, b, c, fu)
<1>1. \A r \in rs : RuleAllows(r, m, b, c, fu) <=> RuleAllows(r, Nil, b, c, fu)
  BY DEF RuleAllows, RuleMatches
<1>2. Decisions(rs, m, b, c, fu) = Decisions(rs, Nil, b, c, fu)
  BY <1>1 DEF Decisions
<1>. QED  BY <1>2 DEF ApplyRuleDecisions

\* Where the inspect is skipped, the outcome is the same with metadata.
LEMMA UninspectedIgnoresMeta ==
    ASSUME NEW rs, NEW m, NEW b, NEW c, NEW fu,
           Inspectable(c), ~NeedsContainerMeta(rs, c)
    PROVE  ApplyRuleDecisions(rs, m, b, c, fu)
             = ApplyRuleDecisions(rs, Nil, b, c, fu)
<1>1. \A r \in rs : RuleAllows(r, m, b, c, fu) /\ RuleAllows(r, Nil, b, c, fu)
  BY UninspectedMatchAny
<1>2. Decisions(rs, m, b, c, fu) = Decisions(rs, Nil, b, c, fu)
  BY <1>1 DEF Decisions
<1>. QED  BY <1>2 DEF ApplyRuleDecisions

(***************************************************************************)
(* The inspect that is saved could not have changed what the configured    *)
(* rules decide.                                                           *)
(***************************************************************************)
THEOREM SkippedInspectIsHarmlessInvariant == Spec => []SkippedInspectIsHarmless
<1>1. IInv => SkippedInspectIsHarmless
  <2>. SUFFICES ASSUME IInv, Class.target = "container", Class.id # Nil,
                       ~NeedsContainerMeta(Found, Class), NEW m
                PROVE  ApplyRuleDecisions(Found, m, request.body, Class,
                                          IsFollowup)
                     = ApplyRuleDecisions(Found, Nil, request.body, Class,
                                          IsFollowup)
    BY DEF SkippedInspectIsHarmless
  <2>1. Class.action \notin {"list", "prune"}
    BY RequestAssumption DEF IInv, TypeOK, Class, Resolved
  <2>2. CASE Class.action = "create"
    BY <2>2, CreateIgnoresMeta
  <2>3. CASE Class.action # "create"
    <3>1. Inspectable(Class)
      BY <2>1, <2>3 DEF Inspectable
    <3>. QED  BY <3>1, UninspectedIgnoresMeta
  <2>. QED  BY <2>2, <2>3
<1>. QED  BY <1>1, Invariance, PTL

-----------------------------------------------------------------------------
\* Follow-ups

(***************************************************************************)
(* Every rule that applies to an exec create applies to its follow-ups.    *)
(***************************************************************************)
LEMMA ConcludeFollowup ==
    ASSUME NEW rs, NEW e, NEW p \in Decision, NEW m, NEW b, NEW c,
           c.action = "exec",
           Conclude(rs, e, p, m, b, c, FALSE) # "deny"
    PROVE  Rank(Conclude(rs, e, p, m, Nil, c, TRUE))
             <= Rank(Conclude(rs, e, p, m, b, c, FALSE))
<1>1. CASE rs = {}
  BY <1>1 DEF Conclude, WithoutRules, Rank
<1>2. CASE rs # {}
  <2>1. /\ ApplyRuleDecisions(rs, m, b, c, FALSE) # "none"
        /\ Conclude(rs, e, p, m, b, c, FALSE)
             = ApplyRuleDecisions(rs, m, b, c, FALSE)
    BY <1>2 DEF Conclude
  <2>2. \A r \in rs : RuleAllows(r, m, b, c, FALSE)
                          => RuleAllows(r, m, Nil, c, TRUE)
    BY DEF RuleAllows, RuleMatches
  <2>3. Decisions(rs, m, b, c, FALSE) \subseteq Decisions(rs, m, Nil, c, TRUE)
    BY <2>2 DEF Decisions
  <2>4. /\ ApplyRuleDecisions(rs, m, Nil, c, TRUE) # "none"
        /\ Rank(ApplyRuleDecisions(rs, m, Nil, c, TRUE))
             <= Rank(ApplyRuleDecisions(rs, m, b, c, FALSE))
    BY <2>1, <2>3, ApplyAntitone
  <2>5. Conclude(rs, e, p, m, Nil, c, TRUE)
          = ApplyRuleDecisions(rs, m, Nil, c, TRUE)
    BY <1>2, <2>4 DEF Conclude
  <2>. QED  BY <2>1, <2>4, <2>5
<1>. QED  BY <1>1, <1>2

(***************************************************************************)
(* d is a follow-up to the exec create c.                                  *)
(***************************************************************************)
IsFollowupTo(d, c) ==
    /\ IsExecCreate(c)
    /\ d.action \in FollowupAction
    /\ d.target = "container"
    /\ Resolved(d, c.id) = c

\* A follow-up is decided by the rules of its container, user unknown.
LEMMA FollowupVerdict ==
    ASSUME NEW rs, NEW p, NEW c, NEW d, NEW m, IsFollowupTo(d, c), m # Nil
    PROVE  Authorize(rs, p, d, Nil, c.id, m)
             = Conclude(AllRules(rs, m.labelRules, c), m.labelRules, p, m, Nil,
                        c, TRUE)
<1>1. (d.action \in FollowupAction) = TRUE
  BY DEF IsFollowupTo
<1>2. Undecided(d, c.id)
  BY DEF Undecided, FollowupAction, IsFollowupTo, IsExecCreate
<1>3. NeedsContainerMeta(FindRules(rs, c), c)
  BY DEF NeedsContainerMeta, IsFollowupTo, IsExecCreate
<1>4. Resolved(d, c.id) = c
  BY DEF IsFollowupTo
<1>5. Authorize(rs, p, d, Nil, c.id, m)
        = Evaluated(rs, p, d, Nil, c.id, m, m.labelRules)
  BY <1>2, <1>3, <1>4, AuthorizeCases
<1>. QED  BY <1>1, <1>4, <1>5 DEF Evaluated

\* A follow-up of an exec that was not denied gets no more than it.
LEMMA FollowupLowers ==
    ASSUME NEW rs, NEW p \in Decision, NEW c, NEW d, NEW b, NEW x, NEW m,
           IsFollowupTo(d, c),
           Authorize(rs, p, c, b, x, m) # "deny"
    PROVE  Rank(Authorize(rs, p, d, Nil, c.id, m))
             <= Rank(Authorize(rs, p, c, b, x, m))
<1>. DEFINE all == AllRules(rs, m.labelRules, c)
<1>1. IsExecCreate(c) /\ c.action = "exec"
  BY DEF IsFollowupTo, IsExecCreate
<1>2. /\ m # Nil
      /\ Authorize(rs, p, c, b, x, m)
           = Conclude(all, m.labelRules, p, m, b, c, FALSE)
  BY <1>1, ExecInspects
<1>3. Authorize(rs, p, d, Nil, c.id, m)
        = Conclude(all, m.labelRules, p, m, Nil, c, TRUE)
  BY <1>2, FollowupVerdict
<1>. HIDE DEF all
<1>4. Rank(Conclude(all, m.labelRules, p, m, Nil, c, TRUE))
        <= Rank(Conclude(all, m.labelRules, p, m, b, c, FALSE))
  BY <1>1, <1>2, ConcludeFollowup
<1>. QED  BY <1>2, <1>3, <1>4

(***************************************************************************)
(* A follow-up is granted no more than the exec it follows up on.          *)
(***************************************************************************)
THEOREM FollowupNeverWidensInvariant == Spec => []FollowupNeverWidens
<1>1. IInv => FollowupNeverWidens
  <2>. SUFFICES ASSUME IInv, Granted, request.class.action = "exec",
                       NEW f \in FollowupAction
                PROVE  Rank(Authorize(rules, policy,
                                      [request.class EXCEPT !.action = f], Nil,
                                      request.class.id, request.inspected))
                         <= Rank(verdict)
    BY DEF FollowupNeverWidens
  <2>1. verdict = Authorize(rules, policy, request.class, request.body,
                            request.execTo, request.inspected)
    BY DEF IInv, Granted, Verdict
  <2>2. verdict # "deny" /\ policy \in Decision
    BY DEF IInv, TypeOK, Granted
  <2>3. IsExecCreate(request.class)
    BY ExecCreateRequest DEF IInv
  <2>4. request.class = [action |-> request.class.action,
                         target |-> request.class.target,
                         id |-> request.class.id]
    BY RequestAssumption DEF IInv, TypeOK
  <2>5. IsFollowupTo([request.class EXCEPT !.action = f], request.class)
    BY <2>3, <2>4 DEF IsFollowupTo, IsExecCreate, Resolved
  <2>. QED  BY <2>1, <2>2, <2>5, FollowupLowers
<1>. QED  BY <1>1, Invariance, PTL
=============================================================================
