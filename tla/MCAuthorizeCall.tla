--------------------------- MODULE MCAuthorizeCall ---------------------------
(***************************************************************************)
(* Rules of every decision and selector, containers with safe, unsafe and  *)
(* no default user, with label rules that help, hurt or do not parse, and  *)
(* every user an exec body may name.  At most two rules are configured;    *)
(* the properties that add one look at three.                              *)
(***************************************************************************)
EXTENDS AuthorizeCall, TLC

Dev      == [user |-> "1000", group |-> Nil]
DevGroup == [user |-> "1000", group |-> "1000"]
DevInGid0 == [user |-> "1000", group |-> "0"]
RootUser == [user |-> "root", group |-> Nil]

MCBody ==
    {Nil} \cup [user   : {Nil, Dev, DevGroup, DevInGid0, RootUser},
                image  : {"acme"},
                labels : {"team" :> "dev"}]
    \cup [user : {Nil}, image : {"other"}, labels : {[k \in {} |-> k]}]

AnyRule(decision, actions) ==
    [decision |-> decision, actions |-> actions, targets |-> {"container"},
     matchAny |-> TRUE, matchLabels |-> [k \in {} |-> {}],
     matchName |-> Nil, matchImage |-> Nil, matchID |-> Nil,
     execUser |-> Nil, execUserAllow |-> {}]

Scoped(rule) == [rule EXCEPT !.matchAny = FALSE]

MCRulePool == {
    AnyRule("allow", {"restart"}),
    [AnyRule("ask", {"pull"}) EXCEPT !.targets = {"image"}],
    [Scoped(AnyRule("ask", {"restart"})) EXCEPT !.matchLabels = "team" :> {"dev"}],
    [Scoped(AnyRule("deny", {"restart", "create"})) EXCEPT !.matchImage = {"acme"}],
    [Scoped(AnyRule("allow", {"create"})) EXCEPT !.matchLabels = "team" :> {"dev"}],
    AnyRule("deny", {"exec"}),
    [AnyRule("ask", {"exec"}) EXCEPT !.execUser = DevGroup],
    [Scoped(AnyRule("deny", {"exec"})) EXCEPT !.matchName = {"web"},
                                              !.execUserAllow = {"1000"}],
    [Scoped(AnyRule("allow", {"exec", "restart"})) EXCEPT
        !.matchID = {"c1"}, !.execUserAllow = {"1000", "root"}]}

Web == [labels |-> "team" :> "dev", name |-> "web", image |-> "acme",
        id |-> "c1", defaultUser |-> Nil, labelRules |-> {}]

MCContainer == {
    Web,
    [Web EXCEPT !.name = "api", !.defaultUser = Dev,
                !.labelRules = {AnyRule("ask", {"restart"})}],
    [Web EXCEPT !.image = "other", !.defaultUser = RootUser,
                !.labelRules = {[AnyRule("allow", {"exec"}) EXCEPT
                                    !.execUserAllow = {"1000", "root"}]}],
    [Web EXCEPT !.labels = "team" :> "ops", !.id = "c2", !.image = "other",
                !.labelRules = Nil],
    [Web EXCEPT !.labels = "team" :> "ops", !.id = "c2", !.image = "other",
                !.name = "db"]}

MCClass(action, target, id) == [action |-> action, target |-> target, id |-> id]

Requests(actions, target, id, bodies, execTos) ==
    [class : {MCClass(a, target, id) : a \in actions}, body : bodies,
     execTo : execTos, inspected : MCContainer \cup {Nil}]

MCRequest ==
    Requests({"exec"}, "container", "web", MCBody, {Nil})
    \cup Requests({"exec.start", "exec.inspect"}, "container", "e1", {Nil},
                  {Nil, "web"})
    \cup Requests({"restart"}, "container", "web", {Nil}, {Nil})
    \cup Requests({"create"}, "container", Nil, MCBody, {Nil})
    \cup Requests({"list"}, "container", Nil, {Nil}, {Nil})
    \cup Requests({"pull"}, "image", Nil, {Nil}, {Nil})
    \cup Requests({"ping"}, "system", Nil, {Nil}, {Nil})
    \cup Requests({"unknown"}, "unknown", Nil, {Nil}, {Nil})
=============================================================================
