------------------------------- MODULE Prompt -------------------------------
(***************************************************************************)
(* internal/proxy/handler.go, describeCommand and its helpers: the command *)
(* line a confirmation shows for a request.                                *)
(*                                                                         *)
(* Text is a sequence of characters.  Fixed wording is one character of    *)
(* its own, a word of a user's is any sequence of characters.              *)
(***************************************************************************)
EXTENDS Integers, Sequences, SequencesExt

CONSTANT Special  \* what shellWord quotes

Quote  == "'"
Blank  == " "
Escape == "\\"

ASSUME PromptAssumption == {Quote, Blank, Escape} \subseteq Special

\* strings.ReplaceAll(s, "'", "'\\''")
Requoted(s) ==
    FlattenSeq([i \in DOMAIN s |->
        IF s[i] = Quote THEN <<Quote, Escape, Quote, Quote>> ELSE <<s[i]>>])

\* Mutated form: quotes within a word stay as they are.
ShellWordUnescaped(s) ==
    IF s = <<>> THEN <<Quote, Quote>>
    ELSE IF \A i \in DOMAIN s : s[i] \notin Special THEN s
    ELSE <<Quote>> \o s \o <<Quote>>

ShellWord(s) ==
    IF s = <<>> THEN <<Quote, Quote>>
    ELSE IF \A i \in DOMAIN s : s[i] \notin Special THEN s
    ELSE <<Quote>> \o Requoted(s) \o <<Quote>>

\* strings.Join(parts, " ")
Joined(parts) ==
    FlattenSeq([i \in DOMAIN parts |->
        IF i = 1 THEN parts[i] ELSE <<Blank>> \o parts[i]])

\* A part that is left out when it is empty.
Given(part) == IF part = <<>> THEN <<>> ELSE <<part>>

GivenWord(word) == IF word = <<>> THEN <<>> ELSE <<ShellWord(word)>>

(***************************************************************************)
(* The body's Cmd: a list of words, or one; kind "none" if it has neither. *)
(***************************************************************************)
CommandFromBody(cmd) ==
    CASE cmd.kind = "list" -> Joined([i \in DOMAIN cmd.words |-> ShellWord(cmd.words[i])])
      [] cmd.kind = "word" -> ShellWord(cmd.words[1])
      [] OTHER -> <<>>

\* prefix, action and ID; the action is fixed wording, none where it is <<>>.
DescribeObjectCommand(prefix, action, id) ==
    Joined(<<prefix>> \o Given(action) \o GivenWord(id))

(***************************************************************************)
(* What is shown of request q: its class, the query's name, and the body's *)
(* user, image and Cmd.                                                    *)
(***************************************************************************)
DescribeContainerCommand(q) ==
    LET flag(f, word) == IF word = <<>> THEN <<>>
                         ELSE <<<<f, Blank>> \o ShellWord(word)>>
    IN  CASE q.action = "exec" ->
                Joined(<<<<"docker exec">>>> \o flag("--user", q.user)
                       \o GivenWord(q.id) \o Given(CommandFromBody(q.cmd)))
          [] q.action = "create" ->
                Joined(<<<<"docker container create">>>> \o flag("--name", q.name)
                       \o GivenWord(q.image) \o Given(CommandFromBody(q.cmd)))
          [] q.action = "archive.write" ->
                <<"docker cp <client path>", Blank>> \o ShellWord(q.id)
                \o <<":<container path>">>
          [] q.action = "archive.read" ->
                <<"docker cp", Blank>> \o ShellWord(q.id)
                \o <<":<container path> <client path>">>
          [] OTHER ->
                DescribeObjectCommand(<<"docker container">>, <<q.action>>, q.id)

\* For a pull the ID is fromImage, with ":" and the tag if there is one.
DescribeImageCommand(q) ==
    CASE q.action = "pull" -> DescribeObjectCommand(<<"docker image pull">>, <<>>, q.id)
      [] q.action = "remove" -> DescribeObjectCommand(<<"docker image rm">>, <<>>, q.id)
      [] q.action = "tag" -> DescribeObjectCommand(<<"docker image tag">>, <<>>, q.id)
      [] OTHER -> DescribeObjectCommand(<<"docker image">>, <<q.action>>, q.id)

\* An object that is neither is shown by an ID that is not quoted.
DescribeCommand(q) ==
    CASE q.target = "container" -> DescribeContainerCommand(q)
      [] q.target = "image" -> DescribeImageCommand(q)
      [] q.target = "volume" ->
            DescribeObjectCommand(<<"docker volume">>, <<q.action>>, q.id)
      [] q.target = "network" ->
            DescribeObjectCommand(<<"docker network">>, <<q.action>>, q.id)
      [] OTHER -> Joined(<<<<"docker", Blank, q.target, Blank, q.action>>>> \o Given(q.id))

-----------------------------------------------------------------------------

\* A reader between two words, and one within a word.
Between(words) ==
    [words |-> words, word |-> <<>>, in |-> FALSE, quoted |-> FALSE, escaped |-> FALSE]

Within(words, word, quoted, escaped) ==
    [words |-> words, word |-> word, in |-> TRUE, quoted |-> quoted, escaped |-> escaped]

(***************************************************************************)
(* How a shell splits a line: at blanks outside quotes, taking quotes away *)
(* and a character after a backslash for itself.                           *)
(***************************************************************************)
ReadChar(r, c) ==
    CASE r.escaped -> Within(r.words, Append(r.word, c), FALSE, FALSE)
      [] r.quoted ->
            IF c = Quote THEN Within(r.words, r.word, FALSE, FALSE)
            ELSE Within(r.words, Append(r.word, c), TRUE, FALSE)
      [] ~r.escaped /\ ~r.quoted ->
            CASE c = Quote -> Within(r.words, r.word, TRUE, FALSE)
              [] c = Escape -> Within(r.words, r.word, FALSE, TRUE)
              [] c = Blank -> IF r.in THEN Between(Append(r.words, r.word)) ELSE r
              [] OTHER -> Within(r.words, Append(r.word, c), FALSE, FALSE)

ReadOn(r, text) ==
    LET read[i \in 0..Len(text)] == IF i = 0 THEN r ELSE ReadChar(read[i - 1], text[i])
    IN  read[Len(text)]

ShellRead(line) == ReadOn(Between(<<>>), Append(line, Blank)).words

\* The words the daemon is given to run, or the container to have.
Words(q) ==
    LET opt(f, word) == IF word = <<>> THEN <<>> ELSE <<<<f>>, word>>
        run == IF q.cmd.kind = "none" THEN <<>> ELSE q.cmd.words
    IN  IF q.action = "exec"
        THEN <<<<"docker exec">>>> \o opt("--user", q.user) \o Given(q.id) \o run
        ELSE <<<<"docker container create">>>> \o opt("--name", q.name)
             \o Given(q.image) \o run
=============================================================================
