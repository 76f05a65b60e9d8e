----------------------------- MODULE RuleConfig -----------------------------
(***************************************************************************)
(* internal/config/config.go: rules read from environment variables        *)
(* (Parse) or from a container's labels (ParseContainerLabelRules).  Each  *)
(* variable or label sets one field of one rule; they come in the order of *)
(* the environment or of a map, that is in any.                            *)
(*                                                                         *)
(* A key is what it names: a rule, a field of it, for MATCH_LABEL a label, *)
(* and in which of three ways it is spelled: "label" is match-name, "env"  *)
(* is MATCH_NAME, "mixed" is the source's own way in other letters' case.  *)
(* Field "typo" is no field, "none" a key that ends too early, "other" a   *)
(* key that is not about rules.  A comma-separated value is a sequence of  *)
(* items, empty for the empty string.                                      *)
(***************************************************************************)
EXTENDS Integers, Sequences, Functions

CONSTANTS
    Source,     \* what may be read: the inputs of Parse and of
                \* ParseContainerLabelRules
    Clean,      \* [text -> text]: strings.ToLower of strings.TrimSpace
    Nil,
    Failed      \* the error result

Decisions == {"allow", "ask", "deny"}

Hyphenated == {"MATCH_LABEL", "MATCH_NAME", "MATCH_IMAGE", "MATCH_ID",
               "EXEC_USER", "EXEC_USER_ALLOW"}
Listed == {"ACTION", "TARGET", "EXEC_USER_ALLOW"}
Field  == {"ACTION", "DECISION", "TARGET", "MATCH"} \cup Hyphenated

(***************************************************************************)
(* The error result is told from what is read and from nothing; a source   *)
(* is the environment or labels and has keys of the form above, a label's  *)
(* name only where one is matched, and lists where lists are read.         *)
(***************************************************************************)
ASSUME ConfigAssumption ==
    /\ Nil \notin Source /\ Failed # Nil
    /\ \A s \in Source : s.from \in {"env", "labels"}
    /\ \A s \in Source : \A k \in DOMAIN s.fields :
        /\ k.label # Nil => k.field = "MATCH_LABEL"
        /\ k = [rule |-> k.rule, field |-> k.field, label |-> k.label,
                spelled |-> k.spelled]
        /\ k.field \in Listed => Range(s.fields[k]) \subseteq DOMAIN Clean

VARIABLES
    source,     \* what is read, or Nil between two reads
    pending,    \* the keys not yet seen
    builders,   \* rule name -> ruleBuilder
    outcome     \* the Config, Failed, or Nil until it is known

configVars == <<source, pending, builders, outcome>>

ConfigInit ==
    /\ source = Nil
    /\ pending = {}
    /\ builders = [n \in {} |-> Nil]
    /\ outcome = Nil

-----------------------------------------------------------------------------
\* One field

\* A map after m[x] = v.
Assigned(m, x, v) == [y \in DOMAIN m \cup {x} |-> IF y = x THEN v ELSE m[y]]

\* ruleBuilder: what was set, by field and label, and if a field was unknown.
NewBuilder == [set |-> [s \in {} |-> Nil], unknown |-> FALSE]

(***************************************************************************)
(* ruleBuilder.set knows the spelling of the environment only, in any case *)
(* of the letters.  A field set again is overwritten.                      *)
(***************************************************************************)
Set(rb, k, v) ==
    IF /\ k.field \in Field
       /\ k.spelled = "label" => k.field \notin Hyphenated
       /\ k.field = "MATCH" => v = "*"
    THEN [rb EXCEPT !.set = Assigned(@, <<k.field, k.label>>, v)]
    ELSE [rb EXCEPT !.unknown = TRUE]

SetRuleBuilderField(n, k, v) ==
    LET rb == IF n \in DOMAIN builders THEN builders[n] ELSE NewBuilder
    IN  builders' = Assigned(builders, n, Set(rb, k, v))

\* A label field is translated; what is no label field goes on as it is.
ContainerLabelRuleField(k) ==
    IF k.field \in Field /\ k.spelled # "env"
    THEN [k EXCEPT !.spelled = "env"] ELSE k

AddContainerLabelRuleField(k, v) ==
    CASE k.field = "other" -> UNCHANGED builders
      [] k.field = "none" -> SetRuleBuilderField("invalidlabel", k, v)
      [] OTHER -> SetRuleBuilderField(k.rule, ContainerLabelRuleField(k), v)

AddEnvRuleField(k, v) ==
    IF k.field \in {"other", "none"} THEN UNCHANGED builders
    ELSE SetRuleBuilderField(k.rule, k, v)

-----------------------------------------------------------------------------
\* The rules

\* Mutated form: an item is taken as it is written.
ParseCSVSetVerbatim(s) == Range(s) \ {""}

ParseCSVSet(s) == {Clean[x] : x \in Range(s)} \ {""}

(***************************************************************************)
(* The rule called n of which is said what say maps to a value; Nil        *)
(* without an ACTION, whatever else it says; Failed with a bad DECISION.   *)
(***************************************************************************)
RuleFrom(n, say) ==
    LET Said(f) == IF <<f, Nil>> \in DOMAIN say THEN say[<<f, Nil>>]
                   ELSE IF f \in Listed THEN <<>> ELSE ""
        decision == IF Clean[Said("DECISION")] = "" THEN "allow"
                    ELSE Clean[Said("DECISION")]
        targets  == ParseCSVSet(Said("TARGET"))
        labelled == {s \in DOMAIN say : s[1] = "MATCH_LABEL"}
    IN  IF Said("ACTION") = <<>> THEN Nil
        ELSE IF decision \notin Decisions THEN Failed
        ELSE [name          |-> n,
              decision      |-> decision,
              actions       |-> ParseCSVSet(Said("ACTION")),
              targets       |-> IF targets = {} THEN {"container"} ELSE targets,
              matchAny      |-> Said("MATCH") = "*",
              matchLabels   |-> [k \in {s[2] : s \in labelled} |->
                                    say[<<"MATCH_LABEL", k>>]],
              matchName     |-> Said("MATCH_NAME"),
              matchImage    |-> Said("MATCH_IMAGE"),
              matchID       |-> Said("MATCH_ID"),
              execUser      |-> Said("EXEC_USER"),
              execUserAllow |-> ParseCSVSet(Said("EXEC_USER_ALLOW"))]

\* Mutated form: a rule without ACTION is dropped before its fields are looked at.
BuildDropsFirst(n, rb) ==
    IF RuleFrom(n, rb.set) = Nil THEN Nil
    ELSE IF rb.unknown THEN Failed ELSE RuleFrom(n, rb.set)

Build(n, rb) == IF rb.unknown THEN Failed ELSE RuleFrom(n, rb.set)

\* Any rule that cannot be built fails them all.
BuildRules ==
    LET built == {Build(n, builders[n]) : n \in DOMAIN builders}
    IN  IF Failed \in built THEN Failed ELSE built \ {Nil}

-----------------------------------------------------------------------------
\* Reading a source

\* Parse's own settings; labels bring none.
DefaultOf(s) == IF s.default = "" THEN "deny" ELSE s.default
TimeoutOf(s) == IF s.timeout = Nil THEN 30 ELSE s.timeout

\* A timeout that does not parse is Failed.
SettingsValid(s) ==
    /\ DefaultOf(s) \in Decisions
    /\ TimeoutOf(s) # Failed /\ TimeoutOf(s) > 0

Begin ==
    /\ source = Nil
    /\ \E s \in Source :
        /\ source' = s
        /\ IF s.from = "env" /\ ~SettingsValid(s)
           THEN outcome' = Failed /\ UNCHANGED pending
           ELSE pending' = DOMAIN s.fields /\ UNCHANGED outcome
    /\ UNCHANGED builders

AddField ==
    /\ \E k \in pending :
        /\ pending' = pending \ {k}
        /\ IF source.from = "env" THEN AddEnvRuleField(k, source.fields[k])
           ELSE AddContainerLabelRuleField(k, source.fields[k])
    /\ UNCHANGED <<source, outcome>>

Finish ==
    /\ source # Nil /\ outcome = Nil
    /\ pending = {}
    /\ outcome' = IF BuildRules = Failed THEN Failed
                  ELSE IF source.from = "labels" THEN [rules |-> BuildRules]
                  ELSE [rules |-> BuildRules, default |-> DefaultOf(source),
                        timeout |-> TimeoutOf(source)]
    /\ UNCHANGED <<source, pending, builders>>

\* Mutated form: what was read last is still there for the next read.
TakeConfigKeeping ==
    /\ outcome # Nil
    /\ source' = Nil /\ outcome' = Nil
    /\ UNCHANGED <<pending, builders>>

\* The caller takes the result; the next inspect, or start, reads again.
TakeConfig ==
    /\ outcome # Nil
    /\ source' = Nil /\ outcome' = Nil
    /\ builders' = [n \in {} |-> Nil]
    /\ UNCHANGED pending

ConfigNext == Begin \/ AddField \/ Finish \/ TakeConfig

ConfigSpec == ConfigInit /\ [][ConfigNext]_configVars

-----------------------------------------------------------------------------
\* What is read

\* What the documentation knows: README.md:95 for the environment, and for
\* labels (README.md:141) the spellings of both tables.
Meant(from, k, v) ==
    /\ k.field \in Field
    /\ from = "env" /\ k.spelled = "label" => k.field \notin Hyphenated
    /\ k.field = "MATCH" => v = "*"

About(from, k) == k.field # "other" /\ (from = "env" => k.field # "none")

Slot(k) == <<k.rule, k.field, k.label>>

(***************************************************************************)
(* The readings of fields F: of keys that name the same field of the same  *)
(* rule, one counts; anything not understood fails the whole; each rule is *)
(* what is said of it.                                                     *)
(***************************************************************************)
Readings(from, F) ==
    LET keys == {k \in DOMAIN F : About(from, k)}
        slots == {Slot(k) : k \in keys}
        picks == {K \in SUBSET keys : /\ {Slot(k) : k \in K} = slots
                                      /\ \A j, k \in K : Slot(j) = Slot(k) => j = k}
        Rules(K) ==
            LET Of(n) == {k \in K : k.rule = n}
                Say(n) == [s \in {<<k.field, k.label>> : k \in Of(n)} |->
                             F[CHOOSE k \in Of(n) : <<k.field, k.label>> = s]]
            IN  {RuleFrom(n, Say(n)) : n \in {k.rule : k \in K}}
    IN  IF \E k \in keys : ~Meant(from, k, F[k]) THEN {Failed}
        ELSE {IF Failed \in Rules(K) THEN Failed ELSE Rules(K) \ {Nil} : K \in picks}

(***************************************************************************)
(* Whatever the order, what comes out is a reading of the keys; so it is   *)
(* always the same unless two keys name the same field of the same rule    *)
(* (config.go:96).  A typo anywhere, in a rule without ACTION as well,     *)
(* fails closed (README.md:101).                                           *)
(***************************************************************************)
OrderDoesNotMatter ==
    outcome # Nil /\ (source.from = "env" => SettingsValid(source)) =>
        IF outcome = Failed THEN Failed \in Readings(source.from, source.fields)
        ELSE outcome.rules \in Readings(source.from, source.fields)

(***************************************************************************)
(* What comes out is what the engine and the confirmation are built upon:  *)
(* rules with one of three decisions, lower-case actions and targets that  *)
(* the classifier's can equal, no rule without a target, a default policy  *)
(* and a time limit that runs (AuthorizeCall!DecisionAssumption,           *)
(* Confirm!ConfirmAssumption).                                             *)
(***************************************************************************)
ConfigFitsEngine ==
    outcome \notin {Nil, Failed} =>
        /\ \A r \in outcome.rules :
            /\ r.decision \in Decisions
            /\ r.targets # {}
            /\ r.actions \cup r.targets \subseteq
                    (Range(Clean) \cup {"container"}) \ {""}
            /\ \A n \in outcome.rules : n.name = r.name => n = r
        /\ source.from = "env" =>
            outcome.default \in Decisions /\ outcome.timeout > 0

ConfigTypeOK ==
    /\ source # Nil => source.from \in {"env", "labels"}
    /\ source = Nil => builders = [n \in {} |-> Nil] /\ outcome = Nil
    /\ pending \subseteq (IF source = Nil THEN {} ELSE DOMAIN source.fields)
    /\ \A n \in DOMAIN builders :
        /\ builders[n].unknown \in BOOLEAN
        /\ \A s \in DOMAIN builders[n].set :
            s[1] \in Field /\ (s[2] # Nil => s[1] = "MATCH_LABEL")
=============================================================================
