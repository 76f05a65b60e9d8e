CONSTANTS
    Nil = Nil
    Web = Web
    Api = Api
    Dev = Dev
    Prod = Prod
    E1 = E1
    E2 = E2
    Thread = {t1, t2}
    Ref = {Web, Api}
    Container = {Prod}
    ExecId = {E1, E2}
    Meta <- MCMeta
    Rules <- MCRules
    Policy = "allow"
    Operation <- MCOperation
    MetaTTL = 1
    MetaCapacity = 1
    ExecTTL = 1
    ExecCapacity = 1
    InspectTimeout = 1
SPECIFICATION Spec
INVARIANTS TypeOK FollowupsOnlyForGrantedExecs KnownExecsResolve
PROPERTY DecisionsAreFresh
SYMMETRY Symmetry
