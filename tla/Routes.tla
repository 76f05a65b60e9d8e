------------------------------- MODULE Routes -------------------------------
(***************************************************************************)
(* internal/classifier/classifier.go: from a method and a path to action,  *)
(* target and ID.                                                          *)
(*                                                                         *)
(* A path is the sequence of its segments: ServeHTTP has cleaned it, so    *)
(* that none is empty and none is left over at the end, and it has no      *)
(* query.  An ID is the sequence of segments that it takes up, <<>> where  *)
(* the code has "".                                                        *)
(***************************************************************************)
EXTENDS Integers, Sequences, Functions, FiniteSetsExt

CONSTANT Version  \* segments of the form v[\d.]+

One  == "<id>"     \* ([^/]+), one segment
Many == "<name>"  \* (.+), one or more

R(method, pattern, action, target) ==
    [method |-> method, pattern |-> pattern, action |-> action, target |-> target]

ContainerRoutes ==
    LET C(method, word, action) == R(method, <<"containers", One, word>>, action, "container")
        E(method, word, action) == R(method, <<"exec", One, word>>, action, "container")
    IN  <<R("GET", <<"containers", "json">>, "list", "container"),
          C("GET", "json", "inspect"), C("GET", "logs", "logs"),
          C("GET", "top", "inspect"), C("GET", "stats", "inspect"),
          C("GET", "changes", "changes"), C("GET", "export", "export"),
          C("GET", "archive", "archive.read"), C("PUT", "archive", "archive.write"),
          C("HEAD", "archive", "archive.stat"),
          C("POST", "resize", "resize"), C("POST", "exec", "exec"),
          E("POST", "start", "exec.start"), E("POST", "resize", "exec.resize"),
          E("GET", "json", "exec.inspect"),
          C("POST", "attach", "attach"),
          R("GET", <<"containers", One, "attach", "ws">>, "attach", "container")>>

LifecycleRoutes ==
    LET C(action) == R("POST", <<"containers", One, action>>, action, "container")
    IN  <<C("start"), C("stop"), C("restart"), C("kill"), C("pause"), C("unpause"),
          C("wait"), C("rename"), C("update"),
          R("DELETE", <<"containers", One>>, "remove", "container"),
          R("POST", <<"containers", "create">>, "create", "container"),
          R("POST", <<"containers", "prune">>, "prune", "container")>>

ImageRoutes ==
    LET I(method, pattern, action) == R(method, pattern, action, "image")
    IN  <<I("GET", <<"images", "json">>, "list"),
          I("GET", <<"images", Many, "json">>, "inspect"),
          I("GET", <<"images", Many, "history">>, "image.history"),
          I("GET", <<"images", "search">>, "image.search"),
          I("GET", <<"images", "get">>, "image.save"),
          I("GET", <<"images", Many, "get">>, "image.save"),
          I("POST", <<"images", "load">>, "image.load"),
          I("POST", <<"images", "create">>, "pull"),
          I("POST", <<"images", Many, "push">>, "push"),
          I("POST", <<"images", Many, "tag">>, "tag"),
          I("DELETE", <<"images", Many>>, "remove"),
          I("POST", <<"images", "prune">>, "prune"),
          I("POST", <<"build">>, "build"), I("POST", <<"commit">>, "commit")>>

NetworkRoutes ==
    LET N(method, pattern, action) == R(method, pattern, action, "network")
    IN  <<N("GET", <<"networks">>, "list"), N("GET", <<"networks", One>>, "inspect"),
          N("POST", <<"networks", "create">>, "network.create"),
          N("DELETE", <<"networks", One>>, "network.remove"),
          N("POST", <<"networks", One, "connect">>, "network.connect"),
          N("POST", <<"networks", One, "disconnect">>, "network.disconnect"),
          N("POST", <<"networks", "prune">>, "prune")>>

VolumeRoutes ==
    LET V(method, pattern, action) == R(method, pattern, action, "volume")
    IN  <<V("GET", <<"volumes">>, "list"), V("GET", <<"volumes", One>>, "inspect"),
          V("POST", <<"volumes", "create">>, "volume.create"),
          V("DELETE", <<"volumes", One>>, "volume.remove"),
          V("POST", <<"volumes", "prune">>, "prune")>>

SystemRoutes ==
    LET S(method, pattern, action) == R(method, pattern, action, "system")
    IN  <<S("GET", <<"_ping">>, "ping"), S("HEAD", <<"_ping">>, "ping"),
          S("GET", <<"version">>, "version"), S("GET", <<"info">>, "info"),
          S("GET", <<"events">>, "events"), S("GET", <<"system", "df">>, "df")>>

SwarmRoutes ==
    LET W(method, word, action) == R(method, <<"swarm", word>>, action, "swarm")
    IN  <<R("GET", <<"swarm">>, "inspect", "swarm"),
          W("POST", "init", "swarm.init"), W("POST", "join", "swarm.join"),
          W("POST", "leave", "swarm.leave"), W("POST", "update", "swarm.update"),
          W("POST", "unlock", "swarm.unlock"), W("GET", "unlockkey", "swarm.unlockkey")>>

ServiceRoutes ==
    LET S(method, pattern, action) == R(method, pattern, action, "service")
    IN  <<S("GET", <<"services">>, "list"), S("GET", <<"services", One>>, "inspect"),
          S("POST", <<"services", "create">>, "service.create"),
          S("POST", <<"services", One, "update">>, "service.update"),
          S("DELETE", <<"services", One>>, "service.remove"),
          S("GET", <<"services", One, "logs">>, "service.logs")>>

TaskNodeRoutes ==
    LET T(pattern, action) == R("GET", pattern, action, "task")
        N(method, pattern, action) == R(method, pattern, action, "node")
    IN  <<T(<<"tasks">>, "list"), T(<<"tasks", One>>, "inspect"),
          T(<<"tasks", One, "logs">>, "task.logs"),
          N("GET", <<"nodes">>, "list"), N("GET", <<"nodes", One>>, "inspect"),
          N("POST", <<"nodes", One, "update">>, "node.update"),
          N("DELETE", <<"nodes", One>>, "node.remove")>>

SecretConfigRoutes ==
    LET S(method, pattern, action) == R(method, pattern, action, "secret")
        F(method, pattern, action) == R(method, pattern, action, "config")
    IN  <<S("GET", <<"secrets">>, "list"), S("GET", <<"secrets", One>>, "inspect"),
          S("POST", <<"secrets", "create">>, "secret.create"),
          S("POST", <<"secrets", One, "update">>, "secret.update"),
          S("DELETE", <<"secrets", One>>, "secret.remove"),
          F("GET", <<"configs">>, "list"), F("GET", <<"configs", One>>, "inspect"),
          F("POST", <<"configs", "create">>, "config.create"),
          F("POST", <<"configs", One, "update">>, "config.update"),
          F("DELETE", <<"configs", One>>, "config.remove")>>

PluginRoutes ==
    LET P(method, pattern, action) == R(method, pattern, action, "plugin")
    IN  <<P("GET", <<"plugins">>, "list"), P("GET", <<"plugins", One, "json">>, "inspect"),
          P("POST", <<"plugins", "pull">>, "plugin.pull"),
          P("POST", <<"plugins", One, "enable">>, "plugin.enable"),
          P("POST", <<"plugins", One, "disable">>, "plugin.disable"),
          P("DELETE", <<"plugins", One>>, "plugin.remove")>>

OtherRoutes ==
    <<R("GET", <<"distribution", Many, "json">>, "distribution.inspect", "distribution"),
      R("POST", <<"session">>, "session", "build")>>

routes ==
    ContainerRoutes \o LifecycleRoutes \o ImageRoutes \o NetworkRoutes \o VolumeRoutes
    \o SystemRoutes \o SwarmRoutes \o ServiceRoutes \o TaskNodeRoutes
    \o SecretConfigRoutes \o PluginRoutes \o OtherRoutes

-----------------------------------------------------------------------------

\* Where the ID is in a pattern, beyond its end if it has none.
Hole(pattern) ==
    IF \E i \in DOMAIN pattern : pattern[i] \in {One, Many}
    THEN CHOOSE i \in DOMAIN pattern : pattern[i] \in {One, Many}
    ELSE Len(pattern) + 1

\* Mutated form: an ID may span segments in every route.
FitsGreedy(pattern, path) ==
    LET h == Hole(pattern)
        extra == Len(path) - Len(pattern)
    IN  /\ extra >= 0 /\ (h > Len(pattern) => extra = 0)
        /\ \A i \in DOMAIN pattern :
            /\ i < h => path[i] = pattern[i]
            /\ i > h => path[i + extra] = pattern[i]

Fits(pattern, path) ==
    LET h == Hole(pattern)
        extra == Len(path) - Len(pattern)
    IN  /\ IF h <= Len(pattern) /\ pattern[h] = Many THEN extra >= 0 ELSE extra = 0
        /\ \A i \in DOMAIN pattern :
            /\ i < h => path[i] = pattern[i]
            /\ i > h => path[i + extra] = pattern[i]

\* The version prefix is optional.
Unversioned(path) ==
    IF path # <<>> /\ Head(path) \in Version THEN Tail(path) ELSE path

\* Mutated form: the ID takes what follows it as well.
ClassOfTail(r, path) ==
    LET h == Hole(r.pattern)
    IN  [action |-> r.action, target |-> r.target,
         id |-> IF h > Len(r.pattern) THEN <<>> ELSE SubSeq(path, h, Len(path))]

\* The class a route that fits gives to the rest of a path.
ClassOf(r, path) ==
    LET h == Hole(r.pattern)
    IN  [action |-> r.action, target |-> r.target,
         id |-> IF h > Len(r.pattern) THEN <<>>
                ELSE SubSeq(path, h, Len(path) - (Len(r.pattern) - h))]

Unknown == [action |-> "unknown", target |-> "unknown", id |-> <<>>]

\* The first route that fits.
Classify(method, path) ==
    LET rest == Unversioned(path)
        hits == {i \in DOMAIN routes :
                    routes[i].method = method /\ Fits(routes[i].pattern, rest)}
    IN  IF hits = {} THEN Unknown ELSE ClassOf(routes[Min(hits)], rest)
=============================================================================
