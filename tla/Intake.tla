------------------------------- MODULE Intake -------------------------------
(***************************************************************************)
(* What turns text into something to decide about, each part by itself and *)
(* one after the other: configuration and container labels into rules, a   *)
(* method and path into a class, a request into the command line that the  *)
(* user is shown, a glob and a value into a match.                         *)
(***************************************************************************)
EXTENDS RuleConfig, Routes, Glob, Prompt

CONSTANTS
    Request,        \* requests: method, path, body length, query and body
    PatternValue,   \* pairs of a glob and a value
    MaxBodySize     \* maxInspectedBodySize

(***************************************************************************)
(* Paths, words and globs are made of text, a Cmd has a list of words, one *)
(* or none, lengths are numbers, and nothing is neither a request nor a    *)
(* length.                                                                 *)
(***************************************************************************)
ASSUME IntakeAssumption ==
    /\ Nil \notin Request /\ Nil \notin Nat
    /\ MaxBodySize \in Nat
    /\ \A q \in Request :
        /\ q.length \in Nat
        /\ {q.path, q.user, q.name, q.image} \subseteq Seq(STRING)
        /\ q.cmd.kind \in {"none", "list", "word"} /\ q.cmd.words \in Seq(Seq(STRING))
        /\ q.cmd.kind = "word" => Len(q.cmd.words) = 1
    /\ \A pv \in PatternValue : pv[1] \in Seq(STRING) /\ pv[2] \in Seq(STRING)

VARIABLES
    request,    \* the request being served, or Nil
    class,      \* its classification
    body,       \* how much of its body was read, Failed, or Nil before that
    line,       \* the command line shown to the user, or Nil
    via,        \* the way it is forwarded, or Nil
    match       \* a glob, a value and if they match, or Nil

requestVars == <<request, class, body, line, via>>
vars == <<configVars, requestVars, match>>

Init ==
    /\ ConfigInit
    /\ request = Nil /\ class = Nil /\ body = Nil /\ line = Nil
    /\ via = Nil
    /\ match = Nil

Idle == source = Nil /\ request = Nil /\ match = Nil

-----------------------------------------------------------------------------

NeedsBodyInspection(action) == action \in {"exec", "create"}

ClassifyRequest ==
    /\ Idle
    /\ \E q \in Request :
        /\ request' = q
        /\ class' = Classify(q.method, q.path)
    /\ UNCHANGED <<configVars, body, line, via, match>>

\* Mutated form: reading stops at the limit.
ReadLimitedShort(length) == Min({length, MaxBodySize})

(***************************************************************************)
(* io.ReadAll of a LimitReader, one byte beyond the limit: more than that  *)
(* is too large.                                                           *)
(***************************************************************************)
ReadLimited(length) ==
    LET read == Min({length, MaxBodySize + 1})
    IN  IF read > MaxBodySize THEN Failed ELSE read

\* A body that is too large ends the request with 413, a broken one with 400.
ReadBody ==
    /\ request # Nil /\ body = Nil
    /\ request.method = "POST" /\ NeedsBodyInspection(class.action)
    /\ body' \in {ReadLimited(request.length), Failed}
    /\ UNCHANGED <<configVars, request, class, line, via, match>>

\* ServeHTTP is past the reading of the body.
Inspected ==
    request.method = "POST" /\ NeedsBodyInspection(class.action) =>
        body \notin {Nil, Failed}

(***************************************************************************)
(* A decision to ask has the command shown.  Endpoints that are unknown    *)
(* are denied and those of target system allowed, nobody is asked.         *)
(***************************************************************************)
ShowCommand ==
    /\ request # Nil /\ line = Nil /\ via = Nil
    /\ class.target \notin {"unknown", "system"}
    /\ Inspected
    /\ line' = DescribeCommand(
                [action |-> class.action, target |-> class.target,
                 id |-> IF class.action = "pull" THEN request.image ELSE class.id,
                 user |-> request.user, name |-> request.name,
                 image |-> request.image, cmd |-> request.cmd])
    /\ UNCHANGED <<configVars, request, class, body, via, match>>

IsUpgradeAllowed(action) == action \in {"attach", "exec.start"}

(***************************************************************************)
(* A granted request: an exec create has its response recorded, a stream   *)
(* that asks for an upgrade is tunnelled, the rest goes through the proxy. *)
(***************************************************************************)
Forward ==
    /\ request # Nil /\ via = Nil
    /\ class.target # "unknown"
    /\ Inspected
    /\ \E upgrade \in BOOLEAN :
        via' = IF class.action = "exec" /\ request.method = "POST" THEN "record"
               ELSE IF upgrade /\ IsUpgradeAllowed(class.action) THEN "tunnel"
               ELSE "proxy"
    /\ UNCHANGED <<configVars, request, class, body, line, match>>

EndRequest ==
    /\ request # Nil
    /\ request' = Nil /\ class' = Nil /\ body' = Nil /\ line' = Nil /\ via' = Nil
    /\ UNCHANGED <<configVars, match>>

GlobMatch ==
    /\ Idle
    /\ \E pv \in PatternValue :
        match' = [pattern |-> pv[1], value |-> pv[2],
                  matches |-> DeepMatch(pv[1], pv[2])]
    /\ UNCHANGED <<configVars, requestVars>>

EndMatch ==
    /\ match # Nil
    /\ match' = Nil
    /\ UNCHANGED <<configVars, requestVars>>

ReadConfig == request = Nil /\ match = Nil /\ ConfigNext /\ UNCHANGED <<requestVars, match>>

Next ==
    \/ ReadConfig
    \/ ClassifyRequest \/ ReadBody \/ ShowCommand
    \/ Forward \/ EndRequest
    \/ GlobMatch \/ EndMatch

Spec == Init /\ [][Next]_vars

-----------------------------------------------------------------------------

(***************************************************************************)
(* No two routes compete for a request: every route that fits gives it the *)
(* same action, target and ID, so that the order of the table is no part   *)
(* of its meaning, and an object called "json", "prune" or "create" is     *)
(* still taken for what it is.                                             *)
(***************************************************************************)
RoutesUnambiguous ==
    request # Nil =>
        \A i \in DOMAIN routes :
            routes[i].method = request.method
            /\ Fits(routes[i].pattern, Unversioned(request.path))
            => class = ClassOf(routes[i], Unversioned(request.path))

(***************************************************************************)
(* What the engine and the handler take for granted of a classification    *)
(* (AuthorizeCall!RequestAssumption, Proxy!ProxyAssumption): an exec and   *)
(* its follow-ups name one container or exec; what has container metadata  *)
(* looked up names one, by one segment; a list or prune names nothing; a   *)
(* body is inspected of container requests only.                           *)
(***************************************************************************)
ClassFitsEngine ==
    request # Nil =>
        /\ class.action \in {"exec", "exec.start", "exec.resize", "exec.inspect"} =>
            class.target = "container"
        /\ class.target = "container" =>
            Len(class.id) = IF class.action \in {"list", "create", "prune"} THEN 0 ELSE 1
        /\ class.action \in {"list", "prune"} => class.id = <<>>
        /\ NeedsBodyInspection(class.action) => class.target = "container"

(***************************************************************************)
(* What is decided about is the whole body, as the daemon will get it, or  *)
(* the request is refused: a body is never cut off at the limit; and no    *)
(* exec or create is forwarded, whatever its method and headers, without   *)
(* its body read, no exec without its response recorded (handler.go:102,   *)
(* 148).                                                                   *)
(***************************************************************************)
InspectedAsForwarded ==
    request # Nil =>
        /\ body \in {Nil, Failed, request.length}
        /\ via # Nil /\ NeedsBodyInspection(class.action) => body = request.length
        /\ via # Nil /\ class.action = "exec" => via = "record"

(***************************************************************************)
(* The command line that is confirmed reads, word by word, as what will be *)
(* run or made: blanks and quotes within a word do not make it look like   *)
(* other words.  Of what has only an ID, the ID is the last word; IDs of   *)
(* swarm objects are not quoted (handler.go:243).                          *)
(***************************************************************************)
CommandReadsBack ==
    line # Nil =>
        LET read == ShellRead(line)
        IN  /\ class.action \in {"exec", "create"} =>
                read = Words([action |-> class.action, id |-> class.id,
                              user |-> request.user, name |-> request.name,
                              image |-> request.image, cmd |-> request.cmd])
            /\ /\ class.target \in {"container", "image", "volume", "network"}
               /\ class.action \notin {"exec", "archive.read", "archive.write"}
               /\ class.id # <<>>
               => Last(read) = class.id

(***************************************************************************)
(* A glob matches the strings of its language, whichever way the search    *)
(* for a star's share goes; a malformed one matches none (README.md:167).  *)
(***************************************************************************)
GlobMatchesLanguage ==
    match # Nil => match.matches = InLanguage(match.pattern, match.value)

TypeOK ==
    /\ ConfigTypeOK
    /\ request = Nil => class = Nil /\ body = Nil /\ line = Nil /\ via = Nil
    /\ via \in {Nil, "record", "tunnel", "proxy"}
    /\ Cardinality({v \in {source, request, match} : v # Nil}) <= 1
=============================================================================
