-------------------------------- MODULE Authz --------------------------------
(***************************************************************************)
(* internal/authz/authz.go: the decision Engine.Authorize makes, as        *)
(* operators over its inputs.                                              *)
(*                                                                         *)
(* A glob or ID prefix is the set of strings it matches (deepMatch,        *)
(* strings.HasPrefix), and Nil where the rule has none; a malformed glob   *)
(* matches nothing.  Rules come in no order: config.buildRules ranges over *)
(* a map.  A Docker user "u:g" is [user |-> u, group |-> g], an empty      *)
(* group being none (Nil), and an empty user string is Nil.                *)
(***************************************************************************)
EXTENDS FiniteSets

CONSTANT Nil  \* Go's nil, and the empty string where it means "not given"

Decision == {"allow", "ask", "deny"}  \* config.Decision*, and the verdicts

FollowupAction == {"exec.start", "exec.resize", "exec.inspect"}

-----------------------------------------------------------------------------
\* Which user an exec would run as

Root == {"0", "root"}

\* Mutated form: the group is not looked at.
IsRootUser(u) == u.user \in Root

IsRootUserOrGroup(u) == u.user \in Root \/ u.group \in Root

(***************************************************************************)
(* The User of the exec body, or else the container's configured user.     *)
(***************************************************************************)
EffectiveUser(meta, body) ==
    IF body.user # Nil THEN body.user
    ELSE IF meta # Nil THEN meta.defaultUser
    ELSE Nil

DefaultExecUserSafe(meta, body) ==
    /\ body # Nil
    /\ EffectiveUser(meta, body) # Nil
    /\ ~IsRootUserOrGroup(EffectiveUser(meta, body))

CheckExecUser(rule, meta, body) ==
    /\ DefaultExecUserSafe(meta, body)
    /\ IF rule.execUser # Nil
       THEN EffectiveUser(meta, body) = rule.execUser
       ELSE EffectiveUser(meta, body).user \in rule.execUserAllow

-----------------------------------------------------------------------------
\* Which rules match

Selects(selector, value) == selector = Nil \/ value \in selector

LabelsMatch(rule, labels) ==
    \A k \in DOMAIN rule.matchLabels :
        k \in DOMAIN labels /\ labels[k] \in rule.matchLabels[k]

(***************************************************************************)
(* A create is matched against its body's image and labels only.           *)
(***************************************************************************)
MatchCreateBody(rule, body) ==
    /\ body # Nil
    /\ Selects(rule.matchImage, body.image)
    /\ LabelsMatch(rule, body.labels)

RuleMatches(rule, meta, body, class) ==
    \/ rule.matchAny
    \/ class.action = "create" /\ MatchCreateBody(rule, body)
    \/ /\ class.action # "create"
       /\ meta # Nil
       /\ LabelsMatch(rule, meta.labels)
       /\ Selects(rule.matchName, meta.name)
       /\ Selects(rule.matchImage, meta.image)
       /\ Selects(rule.matchID, meta.id)

(***************************************************************************)
(* Follow-ups to an exec skip the user check made when it was created.     *)
(***************************************************************************)
RuleAllows(rule, meta, body, class, followup) ==
    /\ RuleMatches(rule, meta, body, class)
    /\ class.action = "exec" /\ ~followup => CheckExecUser(rule, meta, body)

\* findRules, and matchingContainerLabelRules.
FindRules(rules, class) ==
    {r \in rules : class.action \in r.actions /\ class.target \in r.targets}

-----------------------------------------------------------------------------
\* Combining the decisions of the rules that match

Decisions(rules, meta, body, class, followup) ==
    {r.decision : r \in {s \in rules :
                             RuleAllows(s, meta, body, class, followup)}}

\* Mutated form of ApplyRuleDecisions: ask is looked for before deny.
ApplyAskFirst(rules, meta, body, class, followup) ==
    LET decisions == Decisions(rules, meta, body, class, followup)
    IN  IF "ask" \in decisions THEN "ask"
        ELSE IF "deny" \in decisions THEN "deny"
        ELSE IF "allow" \in decisions THEN "allow"
        ELSE "none"

(***************************************************************************)
(* Deny wins over ask and ask over allow, in whatever order the rules come.*)
(***************************************************************************)
ApplyRuleDecisions(rules, meta, body, class, followup) ==
    LET decisions == Decisions(rules, meta, body, class, followup)
    IN  IF "deny" \in decisions THEN "deny"
        ELSE IF "ask" \in decisions THEN "ask"
        ELSE IF "allow" \in decisions THEN "allow"
        ELSE "none"

\* Mutated form of NeedsContainerMeta: one rule with MATCH=* is enough to
\* skip the inspect.
NeedsMetaUnlessAny(rules, class) ==
    /\ class.target = "container"
    /\ class.id # Nil
    /\ class.action \notin {"create", "list", "prune"}
    /\ \/ rules = {}
       \/ class.action = "exec"
       \/ \A r \in rules : ~r.matchAny

(***************************************************************************)
(* Whether the container is inspected: always for exec and where only a    *)
(* container label could grant anything, else if some rule has selectors.  *)
(***************************************************************************)
NeedsContainerMeta(rules, class) ==
    /\ class.target = "container"
    /\ class.id # Nil
    /\ class.action \notin {"create", "list", "prune"}
    /\ \/ rules = {}
       \/ class.action = "exec"
       \/ \E r \in rules : ~r.matchAny

\* Mutated form of Resolved: the action stays what it was.
ResolvedIdOnly(class, execTo) ==
    IF class.action \in FollowupAction THEN [class EXCEPT !.id = execTo]
    ELSE class

(***************************************************************************)
(* The request as the rules see it: a follow-up counts as an exec on the   *)
(* container reference its exec ID is cached under.                        *)
(***************************************************************************)
Resolved(class, execTo) ==
    IF class.action \in FollowupAction
    THEN [action |-> "exec", target |-> class.target, id |-> execTo]
    ELSE class

(***************************************************************************)
(* No rule exists for the action and target, and labelRules is Nil if the  *)
(* container's do not parse.  Exec is never allowed by DPP_DEFAULT, and    *)
(* asked about only for a safe user.                                       *)
(***************************************************************************)
WithoutRules(labelRules, policy, meta, body, class, followup) ==
    IF labelRules = Nil THEN "deny"
    ELSE IF class.action # "exec" THEN policy
    ELSE IF policy = "ask" /\ (followup \/ DefaultExecUserSafe(meta, body))
    THEN "ask"
    ELSE "deny"

\* Mutated forms of Conclude: rules that all miss leave the request to the
\* default policy, or without a verdict.
ConcludeByPolicy(rules, labelRules, policy, meta, body, class, followup) ==
    LET applied == ApplyRuleDecisions(rules, meta, body, class, followup)
    IN  IF rules = {}
        THEN WithoutRules(labelRules, policy, meta, body, class, followup)
        ELSE IF applied = "none" THEN policy ELSE applied

ConcludeOpen(rules, labelRules, policy, meta, body, class, followup) ==
    IF rules = {}
    THEN WithoutRules(labelRules, policy, meta, body, class, followup)
    ELSE ApplyRuleDecisions(rules, meta, body, class, followup)

(***************************************************************************)
(* The verdict once it is known which rules to evaluate.  Without metadata *)
(* the code runs this in two passes with the same outcome.                 *)
(***************************************************************************)
Conclude(rules, labelRules, policy, meta, body, class, followup) ==
    LET applied == ApplyRuleDecisions(rules, meta, body, class, followup)
    IN  IF rules = {}
        THEN WithoutRules(labelRules, policy, meta, body, class, followup)
        ELSE IF applied = "none" THEN "deny" ELSE applied

(***************************************************************************)
(* The rules to evaluate: the configured ones, and the container's own if  *)
(* it was inspected and they parse.                                        *)
(***************************************************************************)
AllRules(rules, labelRules, class) ==
    FindRules(rules, class)
        \cup (IF labelRules = Nil THEN {} ELSE FindRules(labelRules, class))

(***************************************************************************)
(* Engine.Authorize.  execTo is what the exec cache holds for class.id     *)
(* (Nil on a miss), inspected the container's metadata (Nil if the inspect *)
(* fails); both are looked at only where the code looks them up.           *)
(***************************************************************************)
Authorize(rules, policy, class, body, execTo, inspected) ==
    LET followup == class.action \in FollowupAction
        c        == Resolved(class, execTo)
        With(meta, labelRules) ==
            Conclude(AllRules(rules, labelRules, c), labelRules, policy,
                     meta, body, c, followup)
    IN  IF class.target = "system" THEN "allow"
        ELSE IF class.action = "unknown" THEN "deny"
        ELSE IF followup /\ execTo = Nil THEN "deny"
        ELSE IF ~NeedsContainerMeta(FindRules(rules, c), c)
        THEN With(Nil, {})
        ELSE IF inspected = Nil THEN "deny"
        ELSE With(inspected, inspected.labelRules)
=============================================================================
