CONSTANTS
    Nil = Nil
    RulePool <- MCRulePool
    MaxRules = 2
    Request <- MCRequest
SPECIFICATION Spec
INVARIANTS
    TypeOK
    NoRootExec
    ExecNeedsAllowRule
    RuleGrantsAtMostItsDecision
    MatchingRuleBounds
    SkippedInspectIsHarmless
    FollowupNeverWidens
