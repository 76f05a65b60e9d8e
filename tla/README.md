# A TLA+ model of docker-permission-proxy

docker-permission-proxy (DPP) sits between Docker clients and the Docker daemon
and decides for every API request whether it is forwarded, refused, or put to
the user in a desktop notification. This directory holds TLA+ modules of the
parts of DPP that decide, cache and wait, TLC configurations that check them on
small instances, and TLAPS proofs of what should hold for every instance.

    tlc -workers 2 -config MCProxy.cfg MCProxy      # check a run (see "Runs")
    tlapm ProxyProofs.tla                           # check the proofs

## The system

| Part | Code | State | Operations |
|---|---|---|---|
| HTTP handler | `internal/proxy/handler.go` | none of its own; one goroutine per request | clean and classify the path, read the body of `exec` and `create`, authorise, ask, forward, record the exec ID of a create, tunnel upgraded connections |
| Engine | `internal/authz/authz.go`, `client.go` | rules and default policy (fixed), metadata cache, exec cache | `Authorize`, `StoreExecID`; inspects containers at the daemon with a 30 s client timeout |
| TTL cache | `internal/cache/cache.go` | map of entries with an expiry time, cleanup goroutine | `Set`, `Get`, `Delete`, periodic cleanup |
| Confirmation | `internal/confirm/confirm.go` | prompt mutex, end of the auto-approve window | `Ask`: one notification over D-Bus, and its answer |
| Configuration | `internal/config/config.go` | none after start | environment variables and container labels to rules |
| Classifier | `internal/classifier/classifier.go` | none (a table) | method and path to action, target, ID |
| Start-up | `cmd/dsp/main.go` | the file of its Unix socket, shared with other proxies | listener, server |

How they meet: `ServeHTTP` classifies a request and calls `Authorize`, which
looks an exec ID up in the exec cache, a container in the metadata cache or at
the daemon, and combines the rules of the configuration with those on the
container's labels. "Ask" leads to `Ask`, which all requests share one mutex
in. A granted request is forwarded; the response to an exec create is read on
its way to the client, and its exec ID put into the exec cache, where the
follow-ups (`exec.start`, `exec.resize`, `exec.inspect`) find it. Handler
goroutines, the two cleanup goroutines, the daemon with its other clients, the
notification service and the user all run concurrently.

What makes it hard, and what correctness means for each part:

- *Engine, the decision.* Many inputs select the path through `Authorize`:
  rules or none, inspect or not, follow-up or not, labels that parse or not.
  Correct: it fails closed on all of them. No root exec, no exec by default
  policy, no verdict beyond what a matching rule says, nothing lost by skipping
  the inspect, nothing gained by asking about an exec a second time.
- *Engine, the lookups.* Metadata is seconds old when it is used, inspects may
  be answered late or never, names move, execs are also made behind the proxy's
  back, and both caches are gone after a restart. Correct: follow-ups get
  through only for execs granted here; an ID the client has works; decisions
  are made from metadata of bounded age; every request is decided.
- *TTL cache.* Expiry, two kinds of eviction and the cleanup goroutine overlap.
  Correct: bounded, and for its callers simply a store whose entries live for
  the TTL.
- *Confirmation.* Requests wait for one mutex, signals race replies and the
  timeout, D-Bus calls fail or hang. Correct: one prompt at a time, the user's
  first reaction to that prompt decides, the auto-approve window opens only by
  the user's choice and spares waiting requests their prompt, every call ends.
- *Tunnel.* Two copy loops and half-closed connections. Correct: neither
  direction loses bytes because the other ended, an end is passed on, the
  handler returns and leaves no goroutine and no connection behind.
- *Configuration.* Rules are merged field by field in random map order, from keys
  spelled in several ways. Correct: the order does not matter, what is not
  understood fails everything, and what comes out is what the engine expects.
- *Start-up.* System calls that name a path others can change in between, and a
  socket file that outlives the process. Correct: clients reach the proxy that
  was started last, a crash is in nobody's way, other files are left alone.
- *Classifier.* Some ninety expressions of which the first wins. Correct: no two
  compete for a request, and each class is of the form the engine relies on.
- *Body, prompt text, globs.* Correct: what is inspected is what is forwarded;
  the command line shown reads as what will be run; a glob matches its language.

## Modules

| Module | Models | Role |
|---|---|---|
| `ExpiringStore` | what a cache promises | abstract specification |
| `TTLCache` | `cache.go` | implements `ExpiringStore` (`ImplementsStore`) |
| `Authz` | the decision in `authz.go` | operators, no state |
| `AuthorizeCall` | `Engine.Authorize`, request after request | what the decision may never grant |
| `AskSpec` | what `Ask` promises its callers | abstract specification |
| `Confirm` | `confirm.go`, D-Bus, user | concurrent `Ask` calls; implements `AskSpec` (`ImplementsAskSpec`) |
| `Tunnel` | `handleUpgrade`, both peers | the two copy loops of an attach or exec |
| `RuleConfig` | `config.go` | rules from variables or labels, field by field |
| `Routes` | `classifier.go` | the route table and `Classify`, operators |
| `Glob` | `deepMatch` | operators, with the language of a pattern |
| `Prompt` | `describeCommand`, `shellWord` | operators, with how a shell reads a line |
| `Listener` | `createListener`, several proxies | who is reached at the path of a Unix socket |
| `Intake` | `ServeHTTP` from path to decision, and its way on | composes `RuleConfig`, `Routes`, `Glob`, `Prompt` |
| `Program` | `main` | `Intake` and `Listener` in one run |
| `Proxy` | `ServeHTTP`, `getContainerMeta`, `handleExecCreate`, daemon | composes `Authz` with two `ExpiringStore`s |
| `TTLCacheProofs`, `AuthorizeCallProofs`, `TunnelProofs`, `ConfirmProofs`, `ProxyProofs`, `RuleConfigProofs` | | theorems about the module of that name |
| `TextProofs` | | lemmas about `Glob` and `Prompt`: text of any length |
| `ProgramProofs` | | theorems about `Program`, hence `Intake`, `Routes`, `Listener` |
| `MC*` | | constants for TLC |

`PROJECT.json` maps each definition to its lines. The correspondence in short:

**TTLCache.** `items` is `c.items` with `ExpiresAt` kept relative to now, so
that time needs no bound; `Live` is what `Get` finds. `Set` is one step since it
holds the mutex; which key `evictAny` drops is left open as the map's iteration
order is. `Tick` is the clock, with the ticker's one-slot channel (`tickReady`);
`Cleanup` is the goroutine's loop. The refinement hides expired entries: a
caller sees only `Visible`.

**Authz.** One operator per function of `authz.go`. A glob is the set of strings
it matches, a set of rules has no order (`buildRules` ranges over a map), and
the container's label rules come parsed, `Nil` if they do not parse. A Docker
user is a record of user and group; a trailing colon (`1000:`) is not told from
none. `Authorize` runs the rules once where the code runs them a second time
without metadata, to the same effect.

**AuthorizeCall.** `Decide` is a call of `Authorize`, `NextRequest` the next
one. The request carries what the caches and the daemon would answer.

**Confirm.** `pc` follows `Ask` line by line, from the check without the lock
to the deferred calls (`Return`, `CloseNotification`). `promptMu`, `window`
(`autoApproveUntil`) and `deadline` (`ctx`) are the code's; `conn`, `signals`,
`note` are those of the call that holds the lock. The bus, the service, the user
and other applications are environment actions, modelled from how `Ask` uses
them. A reply to Notify without an ID (`NotifyUnread`) leaves a notification on
screen that is no call's, as a lost bus does. `TypeOK` says of the lock who holds
it (`Holder`) and what a call leaves to the next (`AtRest`). `answer` and `inWindow` are history variables. A full signal channel (10
in the code) is not reached: pending signals are bounded by `MaxSignals`.

**Proxy.** `serving[t]` is one handler goroutine. `ResolveExec` and `LookUpMeta`
are the two cache lookups, each a step of its own; `DaemonInspects` and
`InspectDone` bracket the inspect, so that its answer can be late;
`InspectFails` is its error and its timeout. `StoreExecID` comes before `Reply`
because `responseRecorder` has no `Flush`: the few bytes of the response stay in
the server's buffer until the handler returns. `Rebind` moves a container name,
`ForeignExec` makes an exec at the daemon's socket, `Restart` loses both caches.
An exec in `execs` carries, for the properties only, the reference under which
the proxy that runs has granted it: none if it was made elsewhere or before the
last start (`Forgotten`).
`Confirmed` stands for `Ask`, by the contract `Confirm` checks. The metadata of
a container does not change while it exists (labels, image and user do not in
Docker; its name may, and no rule of this instance selects by name). Body limits
(413, 400), which end a request before it is decided, are in `Intake`.

**AskSpec.** A caller's view of `Ask`: `phase` folds the lines of `Ask` into
waiting, opening, asked, settled, done (`Confirm!PhaseOf`); there is no mutex,
bus, signal or context. `Open` says that a call prompts only when no other does
and no window is open, `Approve` that the user's first reaction was that. `Fail`
is any of the error returns. `shown` are the prompts on screen that still belong
to a call.

**Tunnel.** `pc` is `handleUpgrade`, `copier[c]` the goroutine that reads from
connection `c`: `Read`, `Write` and their failures are the loop of `io.Copy`,
`CloseWrite` and `SendDone` the two lines after it. `done` is the channel.
`side` is what the handler has done to its end of a connection, `peer` what the
other side has. Bytes are counted, not told apart, since each direction has one
copier that keeps their order. `Room` is what a slow peer lets pile up. A
connection closed with input unread is reset (`reset`), as TCP and Unix sockets
are, and may lose what is on its way to the peer; so is one that gets input after
the handler has closed its end (`SendUnread`). What a client sends before it
has the daemon's first byte is left out: `Hijack` may have it in the buffer that
the handler drops, and Docker's clients wait for the answer.

**RuleConfig.** A key is a record of what it names (rule, field, label) and of
how it is spelled; `Set` and `ContainerLabelRuleField` decide from the spelling
which field is meant, if any. `AddField` takes the keys in any order, as the
loops over the environment and the map do. `Clean` is the trimming and
lower-casing of a text, given as a function. `TakeConfig` returns the result, so
that the next read starts without builders.

**Routes.** A path is the sequence of its segments: `path.Clean` has left no
empty one, so that the optional `/` at the end of the expressions never counts,
and a query is not part of it. (A path with an encoded `?` is cut off there by
`Classify`; such paths are left out.) `One` and `Many` are the groups `([^/]+)`
and `(.+)`; every expression has at most one, and it is the second segment.

**Glob, Prompt.** Strings are sequences of characters. `MatchesAt` is one turn of
`deepMatch`'s loop at a place of the pattern: the places of the value from which
it goes on to match, given those of the places it turns to next. `DeepMatch`
fills that table from the end of the pattern. `ClassChars` is `filepath.Match`
for one class. The language of a pattern (`InLanguage`) is defined without a
search: the pattern is cut into pieces, the value into as many shares, and each
piece can take its share. In `Prompt` fixed wording is one character, the user's
words are sequences in which blanks, quotes and backslashes count; `ShellRead`
is a shell that reads the line character by character (`ReadChar`).

**Listener.** `pc[p]` is the system call that proxy `p` makes next, `socketPath`
what is at the socket's path: nothing, a file, a socket nobody listens on, or the socket
of a proxy. Each call acts on what is there by then. `Stop` is the end of the
process at any point: it runs no deferred call, so that the file stays. `Close`
is `ln.Close`, which unlinks the path by name. `MoveFile` is anybody else who may
write to the directory: a file is put at the path, or what is there taken away,
at any time. Two history variables say who has been disturbed: `overtaken` holds
the proxies that another start overlaps or follows, `deprived` those whose own
socket, or the one they were about to remove, somebody has taken away.

**Intake.** The state is `ServeHTTP`'s: class, body, command line shown, way
forwarded (`via`). A configuration being read, a request and a match take turns;
they share nothing.

**Program.** `main` starts the listener, and its parts then share nothing with it:
a behaviour of `ProgramSpec` is about one of the two, so that their states add
up instead of multiplying (`TakeIn`, `StartUp`).

## Runs

| Run | Configuration | Shows |
|---|---|---|
| `ttl_cache` | `MCTTLCache` | bound, refinement, collection |
| `authorize` | `MCAuthorizeCall` | six properties of the decision |
| `confirm` | `MCConfirm` | prompts, answers, window, termination, refinement of `AskSpec` |
| `tunnel` | `MCTunnel` | bytes, ends, nothing left behind, termination |
| `intake` | `MCIntake` | rules, classes, bodies, command lines, globs; who is reached at a socket's path |
| `proxy` | `MCProxy` | follow-ups, exec IDs, age of decisions |
| `proxy_live` | `MCProxy`, `ProxyLive.cfg` | every request is decided |
| `deny_rule`, `default_policy` | `MCAuthorizeCall` | two disagreements with the documentation |
| `confirm_backlog`, `confirm_hung` | `MCConfirm` | two more |
| `proxy_origin` | `MCProxy`, `ProxyOrigin.cfg` | one more |

Properties, and what each would catch:

- `Bounded`, `ImplementsStore`, `ExpiredIsCollected`: a map that grows by one at
  capacity, a good entry evicted while expired ones stay, an entry that outlives
  its TTL, a cleanup that stops.
- `NoRootExec`: any path, inherited users and default policy included, by which
  a root user or group gets an exec. `ExecNeedsAllowRule`: exec allowed by
  `DPP_DEFAULT`. `RuleGrantsAtMostItsDecision`: adding a rule that opens more
  than it says, by switching inspect, label rules or default policy.
  `MatchingRuleBounds`: a matching deny or ask that is overruled.
  `SkippedInspectIsHarmless`: an inspect saved that mattered.
  `FollowupNeverWidens`: an exec that needed confirmation started without.
- `OnePrompt`, `NoPromptInWindow`, `FirstAnswerDecides`, `WindowNeedsConsent`,
  `AskEnds`: a prompt left behind or beside another one, a prompt after "Approve
  All", an answer lost, changed or taken from another notification, a window
  nobody asked for, a caller that waits for ever.
- `ImplementsAskSpec`: anything a caller could see of the mutex, the bus and
  their failures that the promise of `Ask` does not have.
- `OutputComplete`, `InputComplete`: bytes lost in one direction because the
  other ended. The first has one exception, which the model brought out: input
  the daemon no longer took is unread when the handler closes the client's
  connection, or comes after that, which resets the connection and may cost the
  client the end of the output.
  The second holds only while the daemon has not half-closed its output: the
  comment at handler.go:425 says that the opposite stream can still drain, but
  when the output ends first, lines 446-447 close the input as well.
  `NothingLeftBehind`: a goroutine, a connection or a message that survives the
  handler. `TunnelEnds`, `EndReachesDaemon`: a tunnel that hangs because a
  client stays silent, or whose daemon is never told that the client has gone.
- `OrderDoesNotMatter`: rules that depend on the order of a map, or a key that
  is dropped where it should fail everything. Several spellings of one field
  (`match-name`, `match_name`) or of one rule's name are the exception; then one
  of the values counts. `ConfigFitsEngine`: a rule that can never match for the
  sake of its spelling, or a policy the engine does not know. It is what
  `AuthorizeCall!DecisionAssumption` and `Confirm`'s assumptions ask for.
- `RoutesUnambiguous`: a new route that takes requests from another.
  `ClassFitsEngine`: a class without the ID that the engine reads; it is what
  `AuthorizeCall!RequestAssumption` and `Proxy!ProxyAssumption` ask for.
- `InspectedAsForwarded`: a body cut off for inspection but not for the daemon, a
  way past the inspection or the recorder. `CommandReadsBack`: a prompt that
  shows other words than are run. (IDs of swarm objects are shown without quotes,
  handler.go:243.) `GlobMatchesLanguage`: a search that gives up too early, a
  malformed pattern that matches. (`?` takes one byte; README.md:181 has it
  take a character. The model's characters have one byte.) `ShellRead` knows
  blanks, quotes and backslashes: what else a real shell treats specially and
  `shellWord` leaves plain, as a `#` or `~` at the start of a word, is outside
  the property.
- `LastStartedReached`: a socket left unusable by a crash, or unlinked by an
  older proxy when it ends, as one that closed its listener on a signal would.
  `FailsForAReason`: a start that what a crash has left prevents. `FileKept`: a
  file removed that is no socket, where Lstat saw it or where it came to an empty
  path. All three speak of proxies that are `Alone`: no start overlaps theirs,
  and nobody else takes away their socket or the one they are about to remove.
  The code promises no more: where two starts overlap, a proxy can serve a socket
  that another has unlinked; and a file that takes the place of the stale socket
  between Lstat and Remove (main.go:89, 93) is removed, with no second proxy
  about. (The socket that a start removes need not be "stale", main.go:88: a
  proxy that runs is cut off from new clients by the next one started. Of the
  proxies that run, the model promises the path to the last.)
- `FollowupsOnlyForGrantedExecs`: a follow-up that gets through for an exec made
  elsewhere, under another name than it was granted for, or from before a
  restart: `Restart` forgets what was granted, so that a mapping that survived
  it, or one guessed for an exec that still runs, shows. `KnownExecsResolve`: a
  client that is told an ID before it works. `DecisionsAreFresh`: metadata whose
  age adds up through hits and late answers. `DecisionReached`: a request that
  hangs in `Authorize`.

### Bounds

- *Cache:* three keys for two places and a TTL of two ticks: enough for an
  eviction with and without an expired entry, an overwrite at capacity, and an
  entry at, before and after its instant of expiry.
- *Decision:* no behaviour is cut off, the bounds are on the data. Nine rules
  cover each decision with each kind of selector and user restriction; up to two
  are configured, and the properties that add one see three. Every property
  relates at most two rules to each other, and the theorems remove the bound.
- *Confirmation:* one call prompts, one waits for it; two IDs, so that a
  notification that a lost bus or an unreadable reply leaves behind can stay
  beside a new one (`SpareId` keeps a second from being left while the first is
  on screen); two pending signals, for
  a foreign or repeated one in front of the answer; deadlines of two ticks, so
  that the timeout, the window and an answer can fall into any order.
- *Proxy:* two goroutines; two names, which one container has in turn, both at
  once or not at all, and whose execs are asked about: enough for a reference
  that is not the create's; two exec IDs and two names for caches with room for
  one (so that mappings get displaced and metadata evicted), times of one tick
  each. `DecisionsAreFresh` is tight at these: the age bound is reached.
  `proxy_live` has one name and one exec ID, of a container whose execs are
  allowed. `proxy_origin` has one name that moves between two containers, and an
  exec TTL of three ticks, as in the code longer than the other two times
  together. Two names and two containers in one run are beyond TLC's reach here;
  the theorems have any number of both. Threads, exec IDs and names are symmetric
  in the safety runs; no symmetry is used for liveness.
- *Tunnel:* two bytes of input, three of output through connections that hold one
  (`Room`): a copier can have read several, written one and wait for a slow peer,
  which meanwhile ends, closes or is cut off. The theorems remove the bound.
- *Listener:* three proxies: one that serves while the starts of two others
  overlap. Nothing else is bounded; each stops and starts, and others change what
  is at the path, without limit.
- *Intake:* up to three fields of two rules, out of seventeen that clash, are
  misspelt or say nothing about rules: a clash takes two, a bystander is the
  third. Every route with every word of the table as an ID, two-segment IDs
  where they could be taken for something else, and all paths of up to three
  segments over nine words. Words of up to two characters, commands of up to two
  words: a quote next to a blank, an empty word, a word of quotes only. Bodies
  from below to beyond the limit (3). Patterns of up to three of thirteen pieces
  against strings of up to three: two stars with something between them.

### Fairness

- `TTLCache!FairSpec`: time passes and the cleanup goroutine is scheduled.
- `Confirm!ProgramFair`: goroutines are scheduled, time passes, and `Lock` is
  strongly fair as `sync.Mutex` hands itself to a starving waiter. `select`
  picks among ready branches at random, hence weak fairness for `TimeOut` of its
  own. The user is never assumed to react. `ServiceFair` adds that the service
  answers every call; `confirm_hung` shows that `AskEnds` needs this.
- `Proxy!ProgramFair`: goroutines are scheduled; `Tick` is strongly fair because
  it waits for goroutines that can run, which other requests may cause to happen
  again and again. Nothing is assumed of the daemon.
- `Tunnel!ProgramFair`: the handler and its two copiers are scheduled. Nothing is
  assumed of the peers: they may stop sending and reading at any time. Nor is
  `WriteRequest` fair, which waits for the rest of the request's body.

Deadlock is checked in every run but `tunnel`, where the handler returns and the
peers may have nothing left to do.

## Disagreements found

1. `deny_rule`. A deny rule on `exec` that restricts no user does not block any
   exec (`authz.go:427`): the user check removes the rule from consideration
   before its decision is looked at. README.md:109 says that it blocks.
2. `default_policy`. `DPP_DEFAULT` covers requests for which no rule *exists*,
   not (README.md:79) those no rule *matches* (`authz.go:171`).
3. `confirm_backlog`. "Approve All Pending" (README.md:373) also approves what
   arrives in the following 30 s (`confirm.go:144`).
4. `confirm_hung`. The timeout does not cover the D-Bus calls
   (`confirm.go:79`): if the service hangs, so do all confirmations
   (README.md:80, 369).
5. `proxy_origin`. Exec IDs are mapped to the reference the client used
   (`handler.go:373`), not to the original container (README.md:541): after the
   name has moved, another container's labels decide.

## Proofs

`TTLCacheProofs` proves `TypeOK`, `Bounded` and the refinement
`Spec => ImplementsStore` for all keys, values, TTLs and sizes, assuming only
that TTL and size are positive (`CacheAssumption`). The type invariant is
inductive by itself but for the ticker's period; `Bounded` needs the finiteness
of the map's domain next to it, since `Set` removes one element of a finite set
before it adds one. The refinement goes action by action: `Set` maps to `Put`,
`Delete` to `Remove`, `Tick` to `Age`, `Cleanup` to a stutter, because what it
removes is not visible.

`AuthorizeCallProofs` proves `TypeOK` and the six properties of `AuthorizeCall`
for all pools of rules and requests, from `RequestAssumption` (what the
classifier's routes guarantee of a classification) and `DecisionAssumption`
(rules have one of three decisions, which `ruleBuilder.build` enforces). The
inductive invariant `IInv` adds to the type that a verdict on record is the one
`Authorize` gives for the request, rules and policy at hand; the properties
then are facts about `Authorize`, by cases over the path it takes.

`ProxyProofs` proves `TypeOK` and `FollowupsOnlyForGrantedExecs` for any number
of goroutines, references, containers, execs, rules and operations, from
`ProxyAssumption` (times and sizes are positive; the classifier gives `exec` a
reference and a follow-up an exec ID). The property speaks of what is past the
verdict only, so it is not inductive: the invariant `IInv` says where the exec
of a request comes from at every stage before (`Good`), and that the exec cache
maps granted execs only, each to its own reference (`Mapped`). The chain is
`DaemonCreatesExec` (the exec is new, hence of this create), `StoreExecID` (what
is stored is what `created` knows), `ResolveExec` (what is found is `Mapped`),
`LookUpMeta`, `InspectDone` and `Confirmed` (what is known carries over).
`Rebind` and `ForeignExec` disturb nothing because what was granted stays so and
IDs are never reused (`Extends`). A `Restart` forgets what was granted, and has
to: it leaves no request and no mapping that could know of it.

Its second half proves `KnownExecsResolve` and `DecisionsAreFresh` on top of
that. Neither is inductive. *Fresh* bounds how long ago a reference named what is
on its way or cached under it: an answer is no older than the inspect has been
running (`InspectTimeout - left`), an entry no older than its own age and one
inspect. It holds because no tick passes while a goroutine can run: an inspect
whose time is up is given up before the next tick. Several inspects of one
reference may overlap and a late one overwrite a newer answer; since `Fresh`
speaks of each entry by its age, that does not add up. *Handed* says that what a
client is about to be told is in the cache, just put there, and that the age of
a mapping is at most the time the client has known the ID; so the cache never
drops it first but to make room (`displaced`).

`TunnelProofs` proves `TypeOK`, `OutputComplete`, `InputComplete` and
`NothingLeftBehind` for any number of bytes and any `Room`. `Flow` ties the
handler's place to the copiers, the messages in the channel and the connections
it has closed; `NothingLeftBehind` is what it says of the end. For the bytes,
`Kept` is a conservation law: unless the peers were cut off or the handler
closed the connection under the copier, what was sent is in the source's
buffer, in the copier's hands, on its way or received. `Drained` adds when a
copier may stop: when there is no more to read, or nobody to read it for. It is
needed because a failed write also ends a copier; and `ShutByCopier` because
half-closing must not come before that.

`ConfirmProofs` proves all five safety properties of `Confirm` for any number of
callers, notifications, signals, and any timeout and window. Of the conjuncts of
`TypeOK`, `Holder` is mutual exclusion and `AtRest` what the deferred calls leave
behind. To these the invariant adds `Progress`: what connection and notification
the holder has at each line, and that no window opens before it is answered;
and `OnScreen`: that other prompts on screen are nobody's (a lost bus or an
unreadable reply leaves them there). `Queue` is what `FirstAnswerDecides` rests on:
the channel may hold foreign and repeated signals, but the first one with the
call's own ID is the user's first reaction. `Spec => ImplementsAskSpec` follows
from the same invariant, action by action: most lines of `Ask` are invisible or
one move of a caller's phase.

`RuleConfigProofs` proves `OrderDoesNotMatter` and `ConfigFitsEngine` for any
sources with any number of keys, for `ConfigSpec`; the other steps of `Intake`
leave its variables alone. It assumes `ConfigAssumption` (lists where lists are
read) and `FailedIsNoConfig` (the error result is no configuration). The
invariant (`ReadSoFar`) speaks of the builders half-way: one of them is marked if
and only if a key was not understood, and if none was, there is a choice of keys,
one for each field of each rule that was named, such that the builders hold just
what these say. A key that is set again replaces the one chosen before
(`Rechosen`), hence the choice at the end is one of `Readings`.

`ProgramProofs` proves what the run `intake` checks, for `ProgramSpec`, any number
of proxies and any requests, patterns and values.

- *The path.* `LastStartedReached`, `FailsForAReason` and `FileKept` rest on
  `PathInv`. None is inductive: what a call finds at the path depends on the
  calls before. `Undisturbed` says what that is for a proxy that is `Alone`: a
  socket to remove, then nothing (or a file put there since), then its own
  socket. Two steps can end that, and both end the promise: `Start` overtakes
  every proxy that is not `off`, and `MoveFile` deprives those that rely on the
  socket it takes away. `ProgramAssumption` is that
  proxies are not called like the other things that can be at the path.
- *Routes.* The table is taken as data. Of each of its twelve parts it is shown
  what its rows have in common (`Table`): the words they begin with, where the
  hole is, what the engine expects of action and target (`Expected`), and that
  no two of them `Overlap`. Parts begin with different words, but for the two
  about containers (`LifecycleApart`). A request that fits two routes makes them
  overlap (`FitsMeans`), so that one route at most fits (`OneRoute`), for paths
  of any length. `RoutesUnambiguous` and `ClassFitsEngine` follow.
- *Bodies.* `InspectedAsForwarded` needs that the class on record is that of the
  request, and that the body on record is whole once `via` is chosen
  (`ServeInv`): `ReadLimited` gives all of the body or fails, for any limit.
- *Globs.* `GlobMatchesLanguage` is `SearchFindsLanguage` of `TextProofs`: a last
  place of the pattern at which search and cuts differ is refuted. Away from
  stars a place is one piece that takes one character (`CutFirst`). At a star
  the search skips the run of stars and tries what follows it everywhere, while
  the language takes the stars one by one: both say that the rest of the pattern
  matches from some later place (`SearchByPieces`).
- *Command lines.* `CommandReadsBack` is `CommandLineReads` and
  `ObjectLineReads`: a reader's states are followed through a line. A reader
  between words that is given `ShellWord(w)` and a blank is between words again
  and has read just `w` more (`ShellWordReads`), for any characters: a plain
  word is none of `Special`, a quoted one has its quotes closed, escaped and
  opened again. It assumes of `Special`, the characters that make `shellWord`
  quote, only that quote, blank and backslash are among them
  (`PromptAssumption`; the code lists them). From words it goes on through joined
  parts (`JoinedIs`, `ListReads`) to the lines of the two commands.
- *Types.* `ProgramTypeOK` takes `RuleConfigProofs` for the configuration, and
  its assumptions. Its invariant adds that builders hold known fields only.
- *The whole.* `PartsOfProgram`: `ProgramSpec` implies `Spec`, `ConfigSpec` and
  the specification of the path, so the theorems about each alone hold of it.

`IntakeAssumption` says what requests are: lengths are natural numbers, names,
users and commands are sequences of strings, and a command given as a word is
one word (`commandFromBody`).

The prover cannot use the library's induction theorems, which take an operator.
`Least` (from the well-foundedness of the natural numbers) stands in for them: a
least place at which a claim fails is refuted by the places before it, upwards
(`Upward`) or from the end (`Downward`). In the same way a recursive function is
shown to be what its definition says (`Descends`, `Iterates`): values up to some
place that obey it exist for every place.

Every safety invariant and action property of the passing runs is a theorem.
Model-checked only are the liveness properties `ExpiredIsCollected`, `AskEnds`,
`TunnelEnds`, `EndReachesDaemon` and `DecisionReached`: they rest on fairness and
hence on `ENABLED`, which is beyond the prover.

## Not modelled

- *The rest of start-up* (`main.go`): a TCP address is bound by one call, which
  the kernel refuses if it is taken; the rest of `main` is logging and wiring.
  Errors of the file system that say neither "exists" nor "does not exist" (no
  permission, a directory missing) end the proxy like a `Stop`.
- *The rest of the prompt* (`confirmationRequest`): lines that repeat the rule,
  the container and the request as they are; no decision depends on them.
- *Transport*: `httputil.ReverseProxy`, `net/http` and D-Bus are modelled by what
  the code relies on. Logging is left out.
- *Text below the level of the properties*: `path.Clean`, the splitting of
  environment names and labels into rule and field, JSON.

## Plan

1. *Done:* `ExpiringStore`, `TTLCache`, `Authz`, `AuthorizeCall`, `Confirm`,
   `Proxy`; theorems about `TTLCache` and `AuthorizeCall`, and
   `FollowupsOnlyForGrantedExecs` of `Proxy`.
2. *Done:* `Tunnel`; `RuleConfig`, `Routes`, `Glob` and `Prompt`, composed in
   `Intake`; `AskSpec`, implemented by `Confirm`.
3. *Done:* theorems about `Tunnel`, about `Confirm` and its refinement of
   `AskSpec`, about time in `Proxy` (`KnownExecsResolve`, `DecisionsAreFresh`)
   and about `RuleConfig`.
4. *Done:* `Listener`, and theorems about all of `Program`.
5. The metadata of a container that is renamed while it is cached, in `Proxy`,
   with a rule that selects by name.
6. Theorems about the caches as `Proxy` uses them: that two `TTLCache`s in the
   place of the `ExpiringStore`s are no different for a request.
