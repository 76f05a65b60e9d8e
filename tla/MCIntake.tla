------------------------------ MODULE MCIntake ------------------------------
(***************************************************************************)
(* Sources: up to three fields of two rules, out of keys that clash, that  *)
(* are misspelt, and that say nothing about rules.  Requests: every route  *)
(* with IDs that are words of other routes, all short paths over a few     *)
(* words, and execs and creates whose words hold blanks and quotes.        *)
(* Globs: up to three pieces, well-formed and not.  Three proxies: one     *)
(* that serves while the starts of two others overlap.                     *)
(***************************************************************************)
EXTENDS Program

MCClean ==
    [x \in {"", " ", "exec", "Exec ", "allow", "Deny", "deny", "maybe", "image"} |->
        CASE x = " " -> "" [] x = "Exec " -> "exec" [] x = "Deny" -> "deny"
          [] OTHER -> x]

Key(n, f, l, s) == [rule |-> n, field |-> f, label |-> l, spelled |-> s]

MCField ==
    {<<Key("web", "ACTION", Nil, "label"), <<"exec">>>>,
     <<Key("web", "ACTION", Nil, "label"), <<>>>>,
     <<Key("web", "ACTION", Nil, "mixed"), <<" ", "Exec ", "image">>>>,
     <<Key("web", "DECISION", Nil, "env"), "Deny">>,
     <<Key("web", "DECISION", Nil, "mixed"), "maybe">>,
     <<Key("web", "MATCH_NAME", Nil, "label"), "a">>,
     <<Key("web", "MATCH_NAME", Nil, "env"), "b">>,
     <<Key("web", "TARGET", Nil, "mixed"), <<" ">>>>,
     <<Key("web", "MATCH_LABEL", "team", "mixed"), "dev">>,
     <<Key("web", "MATCH_LABEL", "Team", "env"), "ops">>,
     <<Key("db", "ACTION", Nil, "env"), <<"image">>>>,
     <<Key("db", "MATCH", Nil, "label"), "*">>,
     <<Key("db", "MATCH", Nil, "label"), "x">>,
     <<Key("db", "EXEC_USER_ALLOW", Nil, "env"), <<"exec", "image">>>>,
     <<Key("db", "typo", Nil, "env"), "x">>,
     <<Key("db", "none", Nil, "label"), "x">>,
     <<Key("db", "other", Nil, "label"), "x">>}

FieldsOf(S) == [k \in {kv[1] : kv \in S} |-> (CHOOSE kv \in S : kv[1] = k)[2]]

FieldSets ==
    {S \in {{a, b, c} : a, b, c \in MCField} :
        Cardinality({kv[1] : kv \in S}) = Cardinality(S)}

From(from, default, timeout, S) ==
    [from |-> from, default |-> default, timeout |-> timeout, fields |-> FieldsOf(S)]

MCSource ==
    {From(from, "", Nil, S) : from \in {"env", "labels"}, S \in FieldSets} \cup
    {From("env", default, timeout, {}) :
        default \in {"", "allow", "ask", "Deny"}, timeout \in {Nil, Failed, -1, 0, 5}}

-----------------------------------------------------------------------------

MCVersion == {"v1.43"}

RouteWords == UNION {Range(routes[i].pattern) : i \in DOMAIN routes} \ {One, Many}

Req(method, path, length, user, name, image, cmd) ==
    [method |-> method, path |-> path, length |-> length, user |-> user,
     name |-> name, image |-> image, cmd |-> cmd]

NoCmd == [kind |-> "none", words |-> <<>>]

Plain(method, path) == Req(method, path, 0, <<>>, <<>>, <<>>, NoCmd)

MCIds == {<<w>> : w \in RouteWords \cup {"web", " "}} \cup
         {<<v, w>> : v, w \in {"json", "get", "push", "web"}}

\* The paths that fill a route's hole with an ID.
Filled(r, id) ==
    LET h == Hole(r.pattern)
    IN  SubSeq(r.pattern, 1, h - 1) \o
        (IF h <= Len(r.pattern) THEN id ELSE <<>>) \o
        SubSeq(r.pattern, h + 1, Len(r.pattern))

RouteRequests ==
    {Plain(routes[i].method, Filled(routes[i], id)) : i \in DOMAIN routes, id \in MCIds}
    \cup {Plain(routes[i].method, <<"v1.43">> \o Filled(routes[i], <<"web">>)) :
            i \in DOMAIN routes}

ShortPaths ==
    {Plain(method, path) :
        method \in {"GET", "POST", "PUT", "HEAD", "DELETE"},
        path \in BoundedSeq({"v1.43", "containers", "images", "exec", "services",
                             "json", "create", "start", "web"}, 3)}

MCWords == BoundedSeq({"x", "#", Quote, Blank, Escape}, 2)

MCCmds ==
    {NoCmd} \cup {[kind |-> "word", words |-> <<w>>] : w \in MCWords} \cup
    {[kind |-> "list", words |-> l] : l \in BoundedSeq(MCWords, 2)}

CommandRequests ==
    {Req("POST", path, 1, user, <<>>, image, cmd) :
        path \in {<<"containers", "web", "exec">>, <<"containers", "create">>},
        user \in {<<>>, <<"x", Blank>>}, image \in {<<"x">>}, cmd \in MCCmds}
    \cup {Req("POST", <<"containers", "create">>, n, <<>>, name, image, NoCmd) :
            n \in 0..6, name \in MCWords, image \in {<<>>, <<"x", Quote>>}}
    \cup {Req("POST", <<"images", "create">>, 0, <<>>, <<>>, image, NoCmd) :
            image \in MCWords}

MCRequest == RouteRequests \cup ShortPaths \cup CommandRequests

MCSpecial == {Quote, Blank, Escape}

-----------------------------------------------------------------------------

\* In the order of ASCII.
MCCodeOf ==
    LET order == <<"*", "-", "?", "[", Escape, "]", "^", "a", "b">>
    IN  [c \in Range(order) |-> CHOOSE i \in DOMAIN order : order[i] = c]

GlobPieces ==
    {<<"a">>, <<"b">>, <<"*">>, <<"?">>, <<"]">>, <<"[">>, <<"\\">>,
     <<"[", "]">>, <<"[", "^", "a", "]">>, <<"[", "a", "-", "b", "]">>,
     <<"[", "a", "-", "]">>, <<"[", "\\", "]">>, <<"[", "^", "\\", "-", "]">>}

MCPatternValue ==
    {FlattenSeq(ps) : ps \in BoundedSeq(GlobPieces, 3)} \X
    (BoundedSeq({"a", "b"}, 3) \cup BoundedSeq({"]", "-"}, 1))
=============================================================================
