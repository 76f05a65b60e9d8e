-------------------------------- MODULE Proxy --------------------------------
(***************************************************************************)
(* The proxy as a whole: Handler.ServeHTTP for several requests at once,   *)
(* each in its own goroutine, deciding with Authz over the two caches of   *)
(* the engine, in front of a Docker daemon whose container names move and  *)
(* which other clients use as well.  The caches are ExpiringStores (what   *)
(* TTLCache implements) and a prompt is the answer Confirm arrives at.     *)
(*                                                                         *)
(* A tick is coarse next to what the goroutines do between two waits: no   *)
(* time passes while one of them can run.                                  *)
(***************************************************************************)
EXTENDS Integers, Authz

CONSTANTS
    Thread,         \* the goroutines of the HTTP server
    Ref,            \* what clients call containers: names, IDs, prefixes
    Container,
    ExecId,
    Meta,           \* Container -> what an inspect of it reports
    Rules,          \* Config.Rules
    Policy,         \* Config.Default
    Operation,      \* [class, body]: the requests clients make
    MetaTTL,        \* NewEngine: 5 s
    MetaCapacity,   \* NewEngine: 1000
    ExecTTL,        \* NewEngine: 5 min
    ExecCapacity,   \* NewEngine: 10000
    InspectTimeout  \* newUpstreamClient: 30 s

(***************************************************************************)
(* The times and sizes are positive constants of the code; the classifier  *)
(* gives exec and its follow-ups an ID, and a container request a          *)
(* reference or none.                                                      *)
(***************************************************************************)
ASSUME ProxyAssumption ==
    /\ {MetaTTL, ExecTTL, InspectTimeout, MetaCapacity, ExecCapacity}
            \subseteq Nat \ {0}
    /\ Nil \notin Ref \cup Container \cup ExecId \cup Operation
    /\ \A op \in Operation :
          /\ op.class.action \in FollowupAction => op.class.id \in ExecId
          /\ op.class.action = "exec" => op.class.id \in Ref
          /\ op.class.target = "container"
                /\ op.class.action \notin FollowupAction =>
                    op.class.id \in Ref \cup {Nil}

VARIABLES
    serving,    \* thread -> where its request is
    metaCache,  \* Engine.metaCache: reference -> container inspected
    execCache,  \* Engine.execCache: exec ID -> reference
    bound,      \* daemon: reference -> the container it names, or Nil
    execs,      \* daemon: exec ID -> its container; with, as history, the
                \* reference its create was granted for by the proxy that
                \* runs now (Nil if by none, or by one before a restart)
    unbound,    \* history: ticks since a reference last named a container
    known,      \* history: exec ID the proxy handed out -> how long ago
    displaced   \* history: exec IDs dropped to make room for others

caches  == <<metaCache, execCache>>
daemon  == <<bound, execs>>
history == <<unbound, known, displaced>>
vars == <<serving, caches, daemon, history>>

MetaCache == INSTANCE ExpiringStore WITH
    store <- metaCache, Key <- Ref, Value <- Container,
    TTL <- MetaTTL, Capacity <- MetaCapacity

ExecCache == INSTANCE ExpiringStore WITH
    store <- execCache, Key <- ExecId, Value <- Ref,
    TTL <- ExecTTL, Capacity <- ExecCapacity

Empty == [x \in {} |-> x]

-----------------------------------------------------------------------------
\* A request being served

(***************************************************************************)
(* pc       where ServeHTTP is                                             *)
(* op       the request                                                    *)
(* target   the reference the exec cache gave for a follow-up              *)
(* answer   the container whose metadata is on its way from the daemon     *)
(* left     time until the inspect's http.Client gives up                  *)
(* decided  the container whose metadata the verdict was made from         *)
(* created  the exec ID in the daemon's response                           *)
(***************************************************************************)
Serve(pc, op, target) ==
    [pc |-> pc, op |-> op, target |-> target, answer |-> Nil, left |-> 0,
     decided |-> Nil, created |-> Nil]

Idle == Serve("idle", Nil, Nil)

At(t, pc) == serving[t].pc = pc

Step(t, s) == serving' = [serving EXCEPT ![t] = s]

\* The handler returns, whatever it has written to the client.
Finish(t) == Step(t, Idle)

\* The same request, about to do something else.
Onward(t, pc) == Serve(pc, serving[t].op, serving[t].target)

IsFollowup(op) == op.class.action \in FollowupAction

Class(t) == Resolved(serving[t].op.class, serving[t].target)

InspectedRef(t) == Class(t).id

NeedsInspect(t) ==
    /\ Class(t).target # "system"
    /\ Class(t).action # "unknown"
    /\ NeedsContainerMeta(FindRules(Rules, Class(t)), Class(t))

Verdict(t, c) ==
    Authorize(Rules, Policy, serving[t].op.class, serving[t].op.body,
              serving[t].target, IF c = Nil THEN Nil ELSE Meta[c])

(***************************************************************************)
(* What follows the verdict from c's metadata: 403, the prompt, upstream.  *)
(***************************************************************************)
AfterVerdict(t, c) ==
    IF Verdict(t, c) = "deny" THEN Idle
    ELSE [Onward(t, IF Verdict(t, c) = "ask" THEN "ask" ELSE "forward")
            EXCEPT !.decided = c]

-----------------------------------------------------------------------------

Init ==
    /\ serving = [t \in Thread |-> Idle]
    /\ metaCache = Empty
    /\ execCache = Empty
    /\ bound \in [Ref -> Container \cup {Nil}]
    /\ execs = Empty
    /\ unbound = [r \in Ref |-> [c \in Container |->
                      IF bound[r] = c THEN 0 ELSE MetaTTL + InspectTimeout + 1]]
    /\ known = Empty
    /\ displaced = {}

Receive(t) ==
    /\ At(t, "idle")
    /\ \E op \in Operation :
          Step(t, Serve(IF IsFollowup(op) THEN "resolve" ELSE "lookup", op, Nil))
    /\ UNCHANGED <<caches, daemon, history>>

(***************************************************************************)
(* execCache.Get: a follow-up to an exec the cache does not hold is denied.*)
(***************************************************************************)
ResolveExec(t) ==
    LET e == serving[t].op.class.id IN
    /\ At(t, "resolve")
    /\ IF e \in ExecCache!Held
       THEN Step(t, Serve("lookup", serving[t].op, execCache[e].value))
       ELSE Finish(t)
    /\ UNCHANGED <<caches, daemon, history>>

(***************************************************************************)
(* Mutated form of LookUpMeta: a hit renews the entry.                     *)
(***************************************************************************)
LookUpMetaRenewing(t) ==
    LET r == InspectedRef(t) IN
    /\ At(t, "lookup")
    /\ \/ /\ ~NeedsInspect(t)
          /\ Step(t, AfterVerdict(t, Nil))
          /\ UNCHANGED metaCache
       \/ /\ NeedsInspect(t) /\ r \in MetaCache!Held
          /\ Step(t, AfterVerdict(t, metaCache[r].value))
          /\ metaCache' = [metaCache EXCEPT ![r] =
                              [value |-> @.value, age |-> 0]]
       \/ /\ NeedsInspect(t) /\ r \notin MetaCache!Held
          /\ Step(t, [Onward(t, "inspect") EXCEPT !.left = InspectTimeout])
          /\ UNCHANGED metaCache
    /\ UNCHANGED <<execCache, daemon, history>>

(***************************************************************************)
(* Authorize as far as it gets without the daemon: the verdict, if none of *)
(* the container's metadata is needed or the cache holds it.               *)
(***************************************************************************)
LookUpMeta(t) ==
    LET r == InspectedRef(t) IN
    /\ At(t, "lookup")
    /\ \/ ~NeedsInspect(t) /\ Step(t, AfterVerdict(t, Nil))
       \/ /\ NeedsInspect(t) /\ r \in MetaCache!Held
          /\ Step(t, AfterVerdict(t, metaCache[r].value))
       \/ /\ NeedsInspect(t) /\ r \notin MetaCache!Held
          /\ Step(t, [Onward(t, "inspect") EXCEPT !.left = InspectTimeout])
    /\ UNCHANGED <<caches, daemon, history>>

\* The daemon looks the reference up, and its answer is on the way.
DaemonInspects(t) ==
    /\ At(t, "inspect") /\ serving[t].answer = Nil
    /\ bound[InspectedRef(t)] # Nil
    /\ Step(t, [serving[t] EXCEPT !.answer = bound[InspectedRef(t)]])
    /\ UNCHANGED <<caches, daemon, history>>

(***************************************************************************)
(* inspectContainer returns, what it read is cached and decided on.        *)
(***************************************************************************)
InspectDone(t) ==
    /\ At(t, "inspect") /\ serving[t].answer # Nil
    /\ MetaCache!Put(InspectedRef(t), serving[t].answer)
    /\ Step(t, AfterVerdict(t, serving[t].answer))
    /\ UNCHANGED <<execCache, daemon, history>>

\* Mutated form of InspectFails: without the http.Client's Timeout.
InspectFailsUntimed(t) ==
    /\ At(t, "inspect") /\ serving[t].answer = Nil
    /\ bound[InspectedRef(t)] = Nil
    /\ Finish(t)
    /\ UNCHANGED <<caches, daemon, history>>

(***************************************************************************)
(* The reference names nothing (a status other than 200), or the timeout   *)
(* has come: denied.                                                       *)
(***************************************************************************)
InspectFails(t) ==
    /\ At(t, "inspect")
    /\ \/ serving[t].answer = Nil /\ bound[InspectedRef(t)] = Nil
       \/ serving[t].left = 0
    /\ Finish(t)
    /\ UNCHANGED <<caches, daemon, history>>

\* The prompt is approved; or it is denied, fails or times out.
Confirmed(t) ==
    /\ At(t, "ask")
    /\ \/ Step(t, [serving[t] EXCEPT !.pc = "forward"])
       \/ Finish(t)
    /\ UNCHANGED <<caches, daemon, history>>

-----------------------------------------------------------------------------
\* Upstream

CreatesExec(t) == serving[t].op.class.action = "exec"

(***************************************************************************)
(* Whatever is not an exec create is over once it is forwarded; so is one  *)
(* the daemon refuses, or that is given up by the client.                  *)
(***************************************************************************)
ForwardEnds(t) ==
    /\ At(t, "forward")
    /\ Finish(t)
    /\ UNCHANGED <<caches, daemon, history>>

\* The daemon creates the exec, in the container the reference names now.
DaemonCreatesExec(t) ==
    LET r == serving[t].op.class.id IN
    /\ At(t, "forward") /\ CreatesExec(t) /\ bound[r] # Nil
    /\ \E e \in ExecId \ DOMAIN execs :
          /\ execs' = [x \in DOMAIN execs \cup {e} |->
                          IF x = e THEN [container |-> bound[r], ref |-> r]
                          ELSE execs[x]]
          /\ Step(t, [Onward(t, "created") EXCEPT !.created = e])
    /\ UNCHANGED <<caches, bound, history>>

\* The mapping is lost: the response ends early, or is not what is expected.
CreateUnread(t) ==
    /\ At(t, "created")
    /\ Finish(t)
    /\ UNCHANGED <<caches, daemon, history>>

\* Mutated form of StoreExecID: the two strings are swapped.
StoreExecIDSwapped(t) ==
    LET e == serving[t].created IN
    /\ At(t, "created")
    /\ ExecCache!Put(serving[t].op.class.id, e)
    /\ displaced' = displaced \cup (ExecCache!Held \ DOMAIN execCache')
    /\ Step(t, [serving[t] EXCEPT !.pc = "reply"])
    /\ UNCHANGED <<metaCache, daemon, unbound, known>>

(***************************************************************************)
(* handleExecCreate: StoreExecID, with the ID of the recorded response and *)
(* the reference of the request.                                           *)
(***************************************************************************)
StoreExecID(t) ==
    LET e == serving[t].created IN
    /\ At(t, "created")
    /\ ExecCache!Put(e, serving[t].op.class.id)
    /\ displaced' = displaced \cup (ExecCache!Held \ DOMAIN execCache')
    /\ Step(t, [serving[t] EXCEPT !.pc = "reply"])
    /\ UNCHANGED <<metaCache, daemon, unbound, known>>

HandOver(t) ==
    known' = [x \in DOMAIN known \cup {serving[t].created} |->
                 IF x = serving[t].created THEN 0 ELSE known[x]]

(***************************************************************************)
(* Mutated form of Reply: what the recorder passes on is flushed at once,  *)
(* so that the client has the ID before it is stored.                      *)
(***************************************************************************)
ReplyAtOnce(t) ==
    /\ \/ At(t, "reply") /\ Finish(t)
       \/ At(t, "created") /\ UNCHANGED serving
    /\ HandOver(t)
    /\ UNCHANGED <<caches, daemon, unbound, displaced>>

(***************************************************************************)
(* The recorder offers no Flush, so the client sees the response, and the  *)
(* exec ID in it, only when the handler returns.                           *)
(***************************************************************************)
Reply(t) ==
    /\ At(t, "reply")
    /\ HandOver(t)
    /\ Finish(t)
    /\ UNCHANGED <<caches, daemon, unbound, displaced>>

-----------------------------------------------------------------------------
\* The daemon and its other clients

\* A container is created, renamed or removed.
Rebind(r, c) ==
    /\ bound[r] # c
    /\ bound' = [bound EXCEPT ![r] = c]
    /\ unbound' = [unbound EXCEPT ![r] =
                      [x \in Container |-> IF x = c THEN 0 ELSE @[x]]]
    /\ UNCHANGED <<serving, caches, execs, known, displaced>>

\* An exec is created at the daemon's own socket.
ForeignExec(e, c) ==
    /\ e \notin DOMAIN execs
    /\ execs' = [x \in DOMAIN execs \cup {e} |->
                    IF x = e THEN [container |-> c, ref |-> Nil] ELSE execs[x]]
    /\ UNCHANGED <<serving, caches, bound, history>>

-----------------------------------------------------------------------------

\* No exec at the daemon is one that the proxy has granted.
Forgotten == [e \in DOMAIN execs |-> [execs[e] EXCEPT !.ref = Nil]]

\* Mutated form: the exec cache is kept over a restart.
RestartKeepingExecs ==
    /\ serving' = [t \in Thread |-> Idle]
    /\ metaCache' = Empty
    /\ execs' = Forgotten
    /\ known' = Empty
    /\ displaced' = {}
    /\ UNCHANGED <<execCache, bound, unbound>>

(***************************************************************************)
(* The proxy is stopped and started: both caches live in memory only.  IDs *)
(* it handed out before, and what it granted, are no longer its business.  *)
(***************************************************************************)
Restart ==
    /\ serving' = [t \in Thread |-> Idle]
    /\ metaCache' = Empty
    /\ execCache' = Empty
    /\ execs' = Forgotten
    /\ known' = Empty
    /\ displaced' = {}
    /\ UNCHANGED <<bound, unbound>>

Runnable(t) ==
    \/ serving[t].pc \in {"resolve", "lookup", "created", "reply"}
    \/ At(t, "inspect") /\ serving[t].left = 0

Elapsed(s) ==
    IF s.pc = "inspect" /\ s.left > 0 THEN [s EXCEPT !.left = @ - 1] ELSE s

\* History ages are capped at the bound the properties compare with, plus one.
Older(age, cap) == IF age > cap THEN age ELSE age + 1

Tick ==
    /\ \A t \in Thread : ~Runnable(t)
    /\ serving' = [t \in Thread |-> Elapsed(serving[t])]
    /\ MetaCache!Age
    /\ ExecCache!Age
    /\ unbound' = [r \in Ref |-> [c \in Container |->
                      IF bound[r] = c THEN 0
                      ELSE Older(unbound[r][c], MetaTTL + InspectTimeout)]]
    /\ known' = [e \in DOMAIN known |-> Older(known[e], ExecTTL)]
    /\ UNCHANGED <<daemon, displaced>>

Handle(t) ==
    \/ ResolveExec(t) \/ LookUpMeta(t) \/ InspectDone(t) \/ InspectFails(t)
    \/ StoreExecID(t) \/ Reply(t)

Next ==
    \/ \E t \in Thread :
          \/ Receive(t) \/ Handle(t) \/ Confirmed(t)
          \/ DaemonInspects(t) \/ DaemonCreatesExec(t) \/ CreateUnread(t)
          \/ ForwardEnds(t)
    \/ \E r \in Ref, c \in Container \cup {Nil} : Rebind(r, c)
    \/ \E e \in ExecId, c \in Container : ForeignExec(e, c)
    \/ Restart
    \/ Tick

Spec == Init /\ [][Next]_vars

(***************************************************************************)
(* The goroutines run and time goes on (strongly: another request may keep *)
(* interrupting it, but not forever).  Nothing is asked of the daemon, of  *)
(* the user or of the clients.                                             *)
(***************************************************************************)
ProgramFair ==
    /\ Spec
    /\ \A t \in Thread : WF_vars(Handle(t))
    /\ SF_vars(Tick)

-----------------------------------------------------------------------------

Serving ==
    [pc : {"idle", "resolve", "lookup", "inspect", "ask", "forward",
           "created", "reply"},
     op : Operation \cup {Nil},
     target : Ref \cup {Nil},
     answer : Container \cup {Nil},
     left : 0..InspectTimeout,
     decided : Container \cup {Nil},
     created : ExecId \cup {Nil}]

TypeOK ==
    /\ serving \in [Thread -> Serving]
    /\ DOMAIN metaCache \subseteq Ref
    /\ \A r \in DOMAIN metaCache :
          metaCache[r] \in [value : Container, age : 0..MetaTTL]
    /\ DOMAIN execCache \subseteq ExecId
    /\ \A e \in DOMAIN execCache :
          execCache[e] \in [value : Ref, age : 0..ExecTTL]
    /\ bound \in [Ref -> Container \cup {Nil}]
    /\ DOMAIN execs \subseteq ExecId
    /\ \A e \in DOMAIN execs :
          execs[e] \in [container : Container, ref : Ref \cup {Nil}]
    /\ unbound \in [Ref -> [Container -> 0..(MetaTTL + InspectTimeout + 1)]]
    /\ DOMAIN known \subseteq ExecId
    /\ \A e \in DOMAIN known : known[e] \in 0..(ExecTTL + 1)
    /\ displaced \subseteq ExecId

(***************************************************************************)
(* A follow-up gets as far as the prompt or the daemon only for an exec    *)
(* whose create went through the proxy since it was last started, and is   *)
(* decided for the container reference that create was granted for.  Execs *)
(* made at the daemon's own socket, and those from before a restart, stay  *)
(* out of reach.                                                           *)
(***************************************************************************)
FollowupsOnlyForGrantedExecs ==
    \A t \in Thread :
        serving[t].pc \in {"ask", "forward"} /\ IsFollowup(serving[t].op) =>
            LET e == serving[t].op.class.id
            IN  /\ e \in DOMAIN execs
                /\ execs[e].ref = serving[t].target
                /\ serving[t].target # Nil

(***************************************************************************)
(* An exec ID a client was given works for as long as the exec cache keeps *)
(* one, unless it was dropped for newer ones: the mapping is never missing *)
(* because the client was faster than StoreExecID.                         *)
(***************************************************************************)
KnownExecsResolve ==
    \A e \in DOMAIN known \ displaced :
        known[e] <= ExecTTL => e \in ExecCache!Held

(***************************************************************************)
(* When a request is granted on a container's metadata, the reference it   *)
(* uses named that container no longer ago than the cache's TTL and the    *)
(* inspect's timeout together: late answers that overwrite newer ones and  *)
(* repeated hits do not add up.                                            *)
(***************************************************************************)
DecisionsAreFresh ==
    [][\A t \in Thread :
          LET c == serving'[t].decided
          IN  c # Nil /\ serving[t].decided = Nil =>
                  unbound[InspectedRef(t)][c] <= MetaTTL + InspectTimeout]_vars

(***************************************************************************)
(* Authorize returns, whatever the daemon does: a request is decided.      *)
(***************************************************************************)
DecisionReached ==
    \A t \in Thread :
        serving[t].pc \in {"resolve", "lookup", "inspect"}
            ~> serving[t].pc \in {"ask", "forward", "idle"}

-----------------------------------------------------------------------------

(***************************************************************************)
(* README.md:541: exec IDs are cached so that follow-up operations can be  *)
(* mapped back to the original container.  What the short TTL of container *)
(* metadata excuses is left out: it is enough that no follow-up is granted *)
(* on another container's metadata once its exec's own has not been under  *)
(* the reference for longer than that.                                     *)
(***************************************************************************)
FollowupDecidedForItsContainer ==
    [][\A t \in Thread :
          LET s == serving'[t]
              c == execs[s.op.class.id].container
          IN  s.decided # Nil /\ serving[t].decided = Nil
                  /\ IsFollowup(s.op)
                  /\ unbound[s.target][c] > MetaTTL + InspectTimeout =>
                      s.decided = c]_vars
=============================================================================
