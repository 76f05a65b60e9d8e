CONSTANTS
    Nil = Nil
    RulePool <- MCRulePool
    MaxRules = 2
    Request <- MCRequest
SPECIFICATION Spec
INVARIANTS
    DefaultCoversUnmatched
