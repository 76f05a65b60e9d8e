------------------------------- MODULE MCProxy -------------------------------
(***************************************************************************)
(* Names of containers: of one whose labels allow exec, and of one that is *)
(* asked about.  The rules do not select by name, so that the references   *)
(* are symmetric.                                                          *)
(***************************************************************************)
EXTENDS Proxy, TLC

CONSTANTS Web, Api, Dev, Prod, E1, E2

Worker == [user |-> "1000", group |-> Nil]

Labelled(env) ==
    [labels |-> "env" :> env, name |-> "web", image |-> "acme", id |-> "c1",
     defaultUser |-> Nil, labelRules |-> {}]

MCMeta == [c \in Container |-> Labelled(IF c = Dev THEN "dev" ELSE "prod")]

ExecRule(decision, env) ==
    [decision |-> decision, actions |-> {"exec"}, targets |-> {"container"},
     matchAny |-> FALSE, matchLabels |-> "env" :> {env},
     matchName |-> Nil, matchImage |-> Nil, matchID |-> Nil,
     execUser |-> Worker, execUserAllow |-> {}]

MCRules == {ExecRule("allow", "dev"), ExecRule("ask", "prod")}

Exec(r) ==
    [class |-> [action |-> "exec", target |-> "container", id |-> r],
     body |-> [user |-> Worker, image |-> Nil, labels |-> Empty]]

Start(e) ==
    [class |-> [action |-> "exec.start", target |-> "container", id |-> e],
     body |-> Nil]

List ==
    [class |-> [action |-> "list", target |-> "container", id |-> Nil],
     body |-> Nil]

MCOperation ==
    {Exec(r) : r \in Ref} \cup {Start(e) : e \in ExecId} \cup {List}

Symmetry ==
    Permutations(Thread) \cup Permutations(ExecId) \cup Permutations(Ref)
=============================================================================
