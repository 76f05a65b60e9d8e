CONSTANTS
    Nil = Nil
    Web = Web
    Api = Api
    Dev = Dev
    Prod = Prod
    E1 = E1
    E2 = E2
    Thread = {t1, t2}
    Ref = {Web}
    Container = {Dev}
    ExecId = {E1}
    Meta <- MCMeta
    Rules <- MCRules
    Policy = "allow"
    Operation <- MCOperation
    MetaTTL = 1
    MetaCapacity = 1
    ExecTTL = 1
    ExecCapacity = 1
    InspectTimeout = 1
SPECIFICATION ProgramFair
PROPERTY DecisionReached
