----------------------------- MODULE ProxyProofs -----------------------------
(***************************************************************************)
(* Proofs about Proxy: its type invariant, that follow-ups get through     *)
(* only for execs whose create the proxy granted, that exec IDs resolve,   *)
(* and that no request is decided on metadata that is too old.             *)
(***************************************************************************)
EXTENDS Proxy, TLAPS

(***************************************************************************)
(* What is known of a request, from the execs ex the daemon has: where its *)
(* exec comes from once the exec cache has been asked or the daemon has    *)
(* created it, and what is inspected.                                      *)
(***************************************************************************)
GrantedAs(e, r, ex) == e \in DOMAIN ex /\ ex[e].ref = r /\ r \in Ref

Good(s, ex) ==
    /\ s.pc # "idle" => s.op \in Operation
    /\ s.pc = "resolve" => IsFollowup(s.op)
    /\ s.pc \in {"lookup", "inspect", "ask", "forward"} /\ IsFollowup(s.op) =>
          GrantedAs(s.op.class.id, s.target, ex)
    /\ s.pc = "inspect" => Resolved(s.op.class, s.target).id \in Ref
    /\ s.pc = "created" =>
          s.created \in ExecId /\ GrantedAs(s.created, s.op.class.id, ex)
    /\ s.pc = "reply" => s.created \in ExecId

Mapped == \A e \in DOMAIN execCache : GrantedAs(e, execCache[e].value, execs)

IInv ==
    /\ TypeOK
    /\ \A t \in Thread : Good(serving[t], execs)
    /\ Mapped

-----------------------------------------------------------------------------

\* Nothing has to be known of an idle goroutine.
LEMMA IdleGood ==
    ASSUME NEW ex
    PROVE  Idle \in Serving /\ Good(Idle, ex)
  <1>1. InspectTimeout \in Nat
    BY ProxyAssumption
  <1>2. Idle \in Serving
    BY <1>1 DEF Idle, Serve, Serving
  <1>3. Good(Idle, ex)
    BY DEF Idle, Serve, Good
  <1> QED
    BY <1>2, <1>3

\* Execs are only added, and what is known of a request stays known.
Extends(ex, more) ==
    DOMAIN ex \subseteq DOMAIN more /\ \A e \in DOMAIN ex : more[e] = ex[e]

\* The fields of a request in which nothing has happened yet.
LEMMA ServeFields ==
    ASSUME NEW pc, NEW op, NEW target
    PROVE  /\ Serve(pc, op, target).pc = pc
           /\ Serve(pc, op, target).op = op
           /\ Serve(pc, op, target).target = target
  BY DEF Serve

\* The type of such a request.
LEMMA ServeTyped ==
    ASSUME NEW pc \in {"idle", "resolve", "lookup", "inspect", "ask",
                       "forward", "created", "reply"},
           NEW op \in Operation \cup {Nil},
           NEW target \in Ref \cup {Nil}
    PROVE  Serve(pc, op, target) \in Serving
  BY ProxyAssumption DEF Serve, Serving

\* More execs at the daemon take nothing from what is known of a request.
LEMMA GoodExtends ==
    ASSUME NEW s, NEW ex, NEW more, Good(s, ex), Extends(ex, more)
    PROVE  Good(s, more)
  BY DEF Good, GrantedAs, Extends

\* Nor from what the exec cache maps.
LEMMA MappedExtends ==
    ASSUME Mapped, UNCHANGED execCache, Extends(execs, execs')
    PROVE  Mapped'
  BY DEF Mapped, GrantedAs, Extends

(***************************************************************************)
(* A step of one request, whatever else it changes.                        *)
(***************************************************************************)
LEMMA StepGood ==
    ASSUME IInv, NEW t \in Thread, NEW s \in Serving, Step(t, s),
           Extends(execs, execs'), Good(s, execs')
    PROVE  /\ (serving \in [Thread -> Serving])'
           /\ (\A u \in Thread : Good(serving[u], execs))'
  <1>1. serving \in [Thread -> Serving]
    BY DEF IInv, TypeOK
  <1>2. serving' = [serving EXCEPT ![t] = s]
    BY DEF Step
  <1>3. (serving \in [Thread -> Serving])'
    BY <1>1, <1>2
  <1>4. ASSUME NEW u \in Thread
        PROVE  Good(serving'[u], execs')
    <2>1. CASE u = t
      BY <2>1, <1>1, <1>2
    <2>2. CASE u # t
      <3>1. serving'[u] = serving[u]
        BY <2>2, <1>1, <1>2
      <3>2. Good(serving[u], execs)
        BY DEF IInv
      <3> QED
        BY <3>1, <3>2, GoodExtends
    <2> QED
      BY <2>1, <2>2
  <1> QED
    BY <1>3, <1>4

\* A step that leaves the execs alone extends them.
LEMMA ExtendsRefl == UNCHANGED execs => Extends(execs, execs')
  BY DEF Extends

(***************************************************************************)
(* A step of one request that changes nothing else.                        *)
(***************************************************************************)
LEMMA OnlyServing ==
    ASSUME IInv, NEW t \in Thread, NEW s \in Serving, Step(t, s),
           Good(s, execs), UNCHANGED <<caches, daemon, history>>
    PROVE  IInv'
  <1>1. /\ UNCHANGED <<metaCache, execCache, bound, execs, unbound, known,
                       displaced>>
    BY DEF caches, daemon, history
  <1>2. Extends(execs, execs')
    BY <1>1, ExtendsRefl
  <1>3. Good(s, execs')
    BY <1>1
  <1>4. /\ (serving \in [Thread -> Serving])'
        /\ (\A u \in Thread : Good(serving[u], execs))'
    BY <1>2, <1>3, StepGood
  <1>5. TypeOK'
    BY <1>1, <1>4 DEF IInv, TypeOK
  <1>6. Mapped'
    BY <1>1, <1>2, MappedExtends DEF IInv
  <1> QED
    BY <1>4, <1>5, <1>6 DEF IInv

\* A handler that returns keeps the invariant.
LEMMA FinishKeeps ==
    ASSUME IInv, NEW t \in Thread, Finish(t), UNCHANGED <<caches, daemon, history>>
    PROVE  IInv'
  BY IdleGood, OnlyServing DEF Finish

-----------------------------------------------------------------------------
\* The handler's steps

\* What the invariant says of one request.
LEMMA ServingTyped ==
    ASSUME IInv, NEW t \in Thread
    PROVE  serving[t] \in Serving /\ Good(serving[t], execs)
  BY DEF IInv, TypeOK

\* What the classifier guarantees of one request.
LEMMA OperationHasClass ==
    ASSUME NEW op \in Operation
    PROVE  /\ op # Nil
           /\ IsFollowup(op) => op.class.id \in ExecId
           /\ op.class.action = "exec" => op.class.id \in Ref
           /\ op.class.target = "container" /\ ~IsFollowup(op) =>
                 op.class.id \in Ref \cup {Nil}
  BY ProxyAssumption DEF IsFollowup

\* A new request starts with nothing to be known of it.
LEMMA ReceiveKeeps ==
    ASSUME IInv, NEW t \in Thread, Receive(t)
    PROVE  IInv'
  <1>1. PICK op \in Operation :
            Step(t, Serve(IF IsFollowup(op) THEN "resolve" ELSE "lookup", op, Nil))
    BY DEF Receive
  <1> DEFINE pc == IF IsFollowup(op) THEN "resolve" ELSE "lookup"
             s  == Serve(pc, op, Nil)
  <1>2. s \in Serving
    BY ServeTyped
  <1>3. s.op = op /\ s.pc = pc
    BY ServeFields
  <1>4. Good(s, execs)
    BY <1>3 DEF Good
  <1>5. UNCHANGED <<caches, daemon, history>>
    BY DEF Receive
  <1> QED
    BY <1>1, <1>2, <1>4, <1>5, OnlyServing

\* A hit in the exec cache gives the reference of a granted exec.
LEMMA ResolveExecKeeps ==
    ASSUME IInv, NEW t \in Thread, ResolveExec(t)
    PROVE  IInv'
  <1> DEFINE e == serving[t].op.class.id
             s == Serve("lookup", serving[t].op, execCache[e].value)
  <1>1. UNCHANGED <<caches, daemon, history>>
    BY DEF ResolveExec
  <1>2. CASE e \in ExecCache!Held
    <2>1. Step(t, s)
      BY <1>2 DEF ResolveExec
    <2>2. GrantedAs(e, execCache[e].value, execs)
      BY <1>2 DEF IInv, Mapped, ExecCache!Held
    <2>3. serving[t] \in Serving /\ Good(serving[t], execs)
      BY ServingTyped
    <2>4. s \in Serving
      <3>1. serving[t].op \in Operation \cup {Nil}
        BY <2>3 DEF Serving
      <3> QED
        BY <2>2, <3>1, ServeTyped DEF GrantedAs
    <2>5. /\ s.pc = "lookup" /\ s.op = serving[t].op
          /\ s.target = execCache[e].value
      BY ServeFields
    <2>6. Good(s, execs)
      <3>1. serving[t].op \in Operation
        BY <2>3 DEF Good, ResolveExec, At
      <3> QED
        BY <3>1, <2>2, <2>5 DEF Good
    <2> QED
      BY <1>1, <2>1, <2>4, <2>6, OnlyServing
  <1>3. CASE e \notin ExecCache!Held
    BY <1>1, <1>3, FinishKeeps DEF ResolveExec
  <1> QED
    BY <1>2, <1>3

(***************************************************************************)
(* Whatever the verdict is, what is known of the request carries over.     *)
(***************************************************************************)
LEMMA AfterVerdictGood ==
    ASSUME IInv, NEW t \in Thread, NEW c \in Container \cup {Nil},
           serving[t].pc \in {"lookup", "inspect"}
    PROVE  AfterVerdict(t, c) \in Serving /\ Good(AfterVerdict(t, c), execs)
  <1>1. serving[t] \in Serving /\ Good(serving[t], execs)
    BY ServingTyped
  <1>2. CASE Verdict(t, c) = "deny"
    BY <1>2, IdleGood DEF AfterVerdict
  <1>3. CASE Verdict(t, c) # "deny"
    <2> DEFINE pc == IF Verdict(t, c) = "ask" THEN "ask" ELSE "forward"
               s  == [Onward(t, pc) EXCEPT !.decided = c]
    <2>1. AfterVerdict(t, c) = s /\ pc \in {"ask", "forward"}
      BY <1>3 DEF AfterVerdict
    <2>2. Onward(t, pc) \in Serving
      BY <1>1, ServeTyped DEF Onward, Serving
    <2>3. s \in Serving
      BY <2>2 DEF Serving
    <2>4. /\ s.pc \in {"ask", "forward"}
          /\ s.op = serving[t].op
          /\ s.target = serving[t].target
      BY <2>1 DEF Onward, Serve
    <2> HIDE DEF s
    <2>5. Good(s, execs)
      BY <1>1, <2>4 DEF Good
    <2> QED
      BY <2>1, <2>3, <2>5
  <1> QED
    BY <1>2, <1>3

(***************************************************************************)
(* What is inspected is a container reference: an exec ID never gets there.*)
(***************************************************************************)
LEMMA InspectsRef ==
    ASSUME IInv, NEW t \in Thread, At(t, "lookup"), NeedsInspect(t)
    PROVE  InspectedRef(t) \in Ref
  <1>1. /\ serving[t].pc = "lookup"
        /\ Good(serving[t], execs)
    BY ServingTyped DEF At
  <1>2. serving[t].op \in Operation
    BY <1>1 DEF Good
  <1>3. /\ Class(t).target = "container"
        /\ Class(t).id # Nil
    BY DEF NeedsInspect, NeedsContainerMeta
  <1>4. CASE IsFollowup(serving[t].op)
    <2>1. InspectedRef(t) = serving[t].target
      BY <1>4 DEF InspectedRef, Class, Resolved, IsFollowup
    <2> QED
      BY <1>1, <1>4, <2>1 DEF Good, GrantedAs
  <1>5. CASE ~IsFollowup(serving[t].op)
    <2>1. Class(t) = serving[t].op.class
      BY <1>5 DEF Class, Resolved, IsFollowup
    <2> QED
      BY <1>2, <1>3, <1>5, <2>1, OperationHasClass DEF InspectedRef
  <1> QED
    BY <1>4, <1>5

\* The lookup decides, or goes on to inspect a container reference.
LEMMA LookUpMetaKeeps ==
    ASSUME IInv, NEW t \in Thread, LookUpMeta(t)
    PROVE  IInv'
  <1>1. UNCHANGED <<caches, daemon, history>> /\ At(t, "lookup")
    BY DEF LookUpMeta
  <1>2. serving[t] \in Serving /\ Good(serving[t], execs)
    BY ServingTyped
  <1>3. CASE Step(t, AfterVerdict(t, Nil))
    BY <1>1, <1>3, AfterVerdictGood, OnlyServing DEF At
  <1>4. CASE /\ InspectedRef(t) \in MetaCache!Held
             /\ Step(t, AfterVerdict(t, metaCache[InspectedRef(t)].value))
    <2>1. metaCache[InspectedRef(t)].value \in Container
      BY <1>4 DEF IInv, TypeOK, MetaCache!Held
    <2> QED
      BY <1>1, <1>4, <2>1, AfterVerdictGood, OnlyServing DEF At
  <1>5. CASE /\ NeedsInspect(t)
             /\ Step(t, [Onward(t, "inspect") EXCEPT !.left = InspectTimeout])
    <2> DEFINE s == [Onward(t, "inspect") EXCEPT !.left = InspectTimeout]
    <2>1. s \in Serving
      <3>1. Onward(t, "inspect") \in Serving
        BY <1>2, ServeTyped DEF Onward, Serving
      <3>2. InspectTimeout \in 0..InspectTimeout
        BY ProxyAssumption
      <3> QED
        BY <3>1, <3>2 DEF Serving
    <2>2. s.pc = "inspect" /\ s.op = serving[t].op /\ s.target = serving[t].target
      BY DEF Onward, Serve
    <2>3. Resolved(serving[t].op.class, serving[t].target).id \in Ref
      BY <1>1, <1>5, InspectsRef DEF InspectedRef, Class
    <2> HIDE DEF s
    <2>4. Good(s, execs)
      BY <1>1, <1>2, <2>2, <2>3 DEF Good, At
    <2> QED
      BY <1>1, <1>5, <2>1, <2>4, OnlyServing DEF s
  <1> QED
    BY <1>3, <1>4, <1>5 DEF LookUpMeta

\* Steps that change nothing of what is known of a request.
LEMMA SameRequestGood ==
    ASSUME NEW s, NEW r, NEW ex, Good(s, ex), r.op = s.op, r.target = s.target,
           \/ r.pc = s.pc /\ r.created = s.created
           \/ s.pc = "ask" /\ r.pc = "forward"
    PROVE  Good(r, ex)
  BY DEF Good

\* The daemon's answer is a container.
LEMMA DaemonInspectsKeeps ==
    ASSUME IInv, NEW t \in Thread, DaemonInspects(t)
    PROVE  IInv'
  <1> DEFINE s == [serving[t] EXCEPT !.answer = bound[InspectedRef(t)]]
  <1>1. serving[t] \in Serving /\ Good(serving[t], execs)
    BY ServingTyped
  <1>2. InspectedRef(t) \in Ref
    BY <1>1 DEF Good, DaemonInspects, At, InspectedRef, Class
  <1>3. bound[InspectedRef(t)] \in Container \cup {Nil}
    BY <1>2 DEF IInv, TypeOK
  <1>4. s \in Serving
    BY <1>1, <1>3 DEF Serving
  <1>5. /\ s.pc = serving[t].pc /\ s.created = serving[t].created
        /\ s.op = serving[t].op /\ s.target = serving[t].target
    BY <1>1 DEF Serving
  <1>6. Step(t, s) /\ UNCHANGED <<caches, daemon, history>>
    BY DEF DaemonInspects
  <1> HIDE DEF s
  <1>7. Good(s, execs)
    BY <1>1, <1>5, SameRequestGood
  <1> QED
    BY <1>4, <1>6, <1>7, OnlyServing

\* The prompt's answer changes nothing of what is known of the request.
LEMMA ConfirmedKeeps ==
    ASSUME IInv, NEW t \in Thread, Confirmed(t)
    PROVE  IInv'
  <1> DEFINE s == [serving[t] EXCEPT !.pc = "forward"]
  <1>1. serving[t] \in Serving /\ Good(serving[t], execs)
    BY ServingTyped
  <1>2. s \in Serving
    BY <1>1 DEF Serving
  <1>3. s.pc = "forward" /\ s.op = serving[t].op /\ s.target = serving[t].target
    BY <1>1 DEF Serving
  <1>4. UNCHANGED <<caches, daemon, history>> /\ serving[t].pc = "ask"
    BY DEF Confirmed, At
  <1>5. (Step(t, s) \/ Finish(t))
    BY DEF Confirmed
  <1> HIDE DEF s
  <1>6. Good(s, execs)
    BY <1>1, <1>3, <1>4, SameRequestGood
  <1> QED
    BY <1>2, <1>4, <1>5, <1>6, OnlyServing, FinishKeeps

-----------------------------------------------------------------------------
\* The caches

\* What the exec cache holds after a Put.
LEMMA ExecPut ==
    ASSUME NEW e, NEW r, ExecCache!Put(e, r)
    PROVE  \A x \in DOMAIN execCache' :
              \/ x = e /\ execCache'[x] = [value |-> r, age |-> 0]
              \/ x \in DOMAIN execCache /\ execCache'[x] = execCache[x]
  BY DEF ExecCache!Put, ExecCache!Written, ExecCache!Held

\* What the metadata cache holds after a Put.
LEMMA MetaPut ==
    ASSUME NEW r, NEW c, MetaCache!Put(r, c)
    PROVE  \A x \in DOMAIN metaCache' :
              \/ x = r /\ metaCache'[x] = [value |-> c, age |-> 0]
              \/ x \in DOMAIN metaCache /\ metaCache'[x] = metaCache[x]
  BY DEF MetaCache!Put, MetaCache!Written, MetaCache!Held

\* What the exec cache still holds after a tick.
LEMMA ExecAge ==
    ASSUME ExecCache!Age
    PROVE  \A x \in DOMAIN execCache' :
              /\ x \in DOMAIN execCache
              /\ execCache[x].age < ExecTTL
              /\ execCache'[x] = [value |-> execCache[x].value,
                                 age |-> execCache[x].age + 1]
  BY DEF ExecCache!Age, ExecCache!Held

\* What the metadata cache still holds after a tick.
LEMMA MetaAge ==
    ASSUME MetaCache!Age
    PROVE  \A x \in DOMAIN metaCache' :
              /\ x \in DOMAIN metaCache
              /\ metaCache[x].age < MetaTTL
              /\ metaCache'[x] = [value |-> metaCache[x].value,
                                 age |-> metaCache[x].age + 1]
  BY DEF MetaCache!Age, MetaCache!Held

-----------------------------------------------------------------------------
\* The steps that change more than the request

\* What was inspected is cached, under a container reference.
LEMMA InspectDoneKeeps ==
    ASSUME IInv, NEW t \in Thread, InspectDone(t)
    PROVE  IInv'
  <1> DEFINE r == InspectedRef(t)
             c == serving[t].answer
             s == AfterVerdict(t, c)
  <1>1. serving[t] \in Serving /\ Good(serving[t], execs)
    BY ServingTyped
  <1>2. /\ MetaCache!Put(r, c) /\ Step(t, s)
        /\ UNCHANGED <<execCache, bound, execs, unbound, known, displaced>>
    BY DEF InspectDone, daemon, history
  <1>3. c \in Container /\ r \in Ref /\ serving[t].pc = "inspect"
    BY <1>1 DEF InspectDone, At, Serving, Good, InspectedRef, Class
  <1>4. s \in Serving /\ Good(s, execs')
    BY <1>2, <1>3, AfterVerdictGood
  <1>5. Extends(execs, execs')
    BY <1>2, ExtendsRefl
  <1> HIDE DEF s
  <1>6. /\ (serving \in [Thread -> Serving])'
        /\ (\A u \in Thread : Good(serving[u], execs))'
    BY <1>2, <1>4, <1>5, StepGood
  <1>7. \A x \in DOMAIN metaCache' :
            x \in Ref /\ metaCache'[x] \in [value : Container, age : 0..MetaTTL]
    <2>1. [value |-> c, age |-> 0] \in [value : Container, age : 0..MetaTTL]
      BY <1>3, ProxyAssumption
    <2> HIDE DEF r, c
    <2> QED
      BY <1>2, <1>3, <2>1, MetaPut DEF IInv, TypeOK
  <1>8. TypeOK'
    BY <1>2, <1>6, <1>7 DEF IInv, TypeOK
  <1>9. Mapped'
    BY <1>2, <1>5, MappedExtends DEF IInv
  <1> QED
    BY <1>6, <1>8, <1>9 DEF IInv

\* An exec the daemon creates for the proxy is a granted one.
LEMMA DaemonCreatesExecKeeps ==
    ASSUME IInv, NEW t \in Thread, DaemonCreatesExec(t)
    PROVE  IInv'
  <1> DEFINE r == serving[t].op.class.id
  <1>1. PICK e \in ExecId \ DOMAIN execs :
          /\ execs' = [x \in DOMAIN execs \cup {e} |->
                          IF x = e THEN [container |-> bound[r], ref |-> r]
                          ELSE execs[x]]
          /\ Step(t, [Onward(t, "created") EXCEPT !.created = e])
    BY DEF DaemonCreatesExec
  <1> DEFINE s == [Onward(t, "created") EXCEPT !.created = e]
  <1>2. /\ UNCHANGED <<metaCache, execCache, bound, unbound, known, displaced>>
        /\ serving[t].pc = "forward" /\ CreatesExec(t) /\ bound[r] # Nil
    BY DEF DaemonCreatesExec, At, caches, history
  <1>3. serving[t] \in Serving /\ Good(serving[t], execs)
    BY ServingTyped
  <1>4. serving[t].op \in Operation /\ r \in Ref
    <2>1. serving[t].op \in Operation
      BY <1>2, <1>3 DEF Good
    <2> QED
      BY <1>2, <2>1, OperationHasClass DEF CreatesExec
  <1>5. bound[r] \in Container
    BY <1>2, <1>4 DEF IInv, TypeOK
  <1>6. Extends(execs, execs')
    BY <1>1 DEF Extends
  <1>7. GrantedAs(e, r, execs')
    BY <1>1, <1>4 DEF GrantedAs
  <1>8. s \in Serving
    <2>1. Onward(t, "created") \in Serving
      BY <1>3, ServeTyped DEF Onward, Serving
    <2> QED
      BY <2>1 DEF Serving
  <1>9. s.pc = "created" /\ s.op = serving[t].op /\ s.created = e
    BY DEF Onward, Serve
  <1>10. Step(t, s)
    BY <1>1
  <1> HIDE DEF s
  <1>11. Good(s, execs')
    BY <1>4, <1>7, <1>9 DEF Good
  <1>12. /\ (serving \in [Thread -> Serving])'
         /\ (\A u \in Thread : Good(serving[u], execs))'
    BY <1>6, <1>8, <1>10, <1>11, StepGood
  <1>13. /\ DOMAIN execs' \subseteq ExecId
         /\ \A x \in DOMAIN execs' :
              execs'[x] \in [container : Container, ref : Ref \cup {Nil}]
    <2>1. [container |-> bound[r], ref |-> r]
              \in [container : Container, ref : Ref \cup {Nil}]
      BY <1>4, <1>5
    <2> HIDE DEF r
    <2> QED
      BY <1>1, <2>1 DEF IInv, TypeOK
  <1>14. TypeOK'
    BY <1>2, <1>12, <1>13 DEF IInv, TypeOK
  <1>15. Mapped'
    BY <1>2, <1>6, MappedExtends DEF IInv
  <1> QED
    BY <1>12, <1>14, <1>15 DEF IInv

\* What the exec cache gains is the granted reference of that exec.
LEMMA StoreExecIDKeeps ==
    ASSUME IInv, NEW t \in Thread, StoreExecID(t)
    PROVE  IInv'
  <1> DEFINE e == serving[t].created
             r == serving[t].op.class.id
             s == [serving[t] EXCEPT !.pc = "reply"]
  <1>1. serving[t] \in Serving /\ Good(serving[t], execs)
    BY ServingTyped
  <1>2. /\ ExecCache!Put(e, r) /\ Step(t, s)
        /\ displaced' = displaced \cup (ExecCache!Held \ DOMAIN execCache')
        /\ UNCHANGED <<metaCache, bound, execs, unbound, known>>
        /\ serving[t].pc = "created"
    BY DEF StoreExecID, At, daemon
  <1>3. e \in ExecId /\ GrantedAs(e, r, execs)
    BY <1>1, <1>2 DEF Good
  <1>4. s \in Serving
    BY <1>1 DEF Serving
  <1>5. s.pc = "reply" /\ s.op = serving[t].op /\ s.created = e
    BY <1>1 DEF Serving
  <1>6. Extends(execs, execs')
    BY <1>2, ExtendsRefl
  <1> HIDE DEF s
  <1>7. Good(s, execs')
    BY <1>1, <1>2, <1>3, <1>5 DEF Good
  <1>8. /\ (serving \in [Thread -> Serving])'
        /\ (\A u \in Thread : Good(serving[u], execs))'
    BY <1>2, <1>4, <1>6, <1>7, StepGood
  <1>9. Mapped'
    <2> SUFFICES ASSUME NEW x \in DOMAIN execCache'
                 PROVE  GrantedAs(x, execCache'[x].value, execs')
      BY DEF Mapped
    <2>1. CASE x = e /\ execCache'[x] = [value |-> r, age |-> 0]
      BY <1>2, <1>3, <2>1
    <2>2. CASE x \in DOMAIN execCache /\ execCache'[x] = execCache[x]
      BY <1>2, <2>2 DEF IInv, Mapped
    <2> HIDE DEF e, r
    <2> QED
      BY <1>2, <2>1, <2>2, ExecPut
  <1>10. \A x \in DOMAIN execCache' :
            x \in ExecId /\ execCache'[x] \in [value : Ref, age : 0..ExecTTL]
    <2>1. [value |-> r, age |-> 0] \in [value : Ref, age : 0..ExecTTL]
      BY <1>3, ProxyAssumption DEF GrantedAs
    <2> HIDE DEF e, r
    <2> QED
      BY <1>2, <1>3, <2>1, ExecPut DEF IInv, TypeOK
  <1>11. displaced' \subseteq ExecId
    BY <1>2 DEF IInv, TypeOK, ExecCache!Held
  <1>12. TypeOK'
    BY <1>2, <1>8, <1>10, <1>11 DEF IInv, TypeOK
  <1> QED
    BY <1>8, <1>9, <1>12 DEF IInv

\* The ID handed to the client is that of an exec.
LEMMA ReplyKeeps ==
    ASSUME IInv, NEW t \in Thread, Reply(t)
    PROVE  IInv'
  <1>1. serving[t] \in Serving /\ Good(serving[t], execs)
    BY ServingTyped
  <1>2. /\ HandOver(t) /\ Step(t, Idle) /\ serving[t].pc = "reply"
        /\ UNCHANGED <<metaCache, execCache, bound, execs, unbound, displaced>>
    BY DEF Reply, Finish, At, caches, daemon
  <1>3. Extends(execs, execs')
    BY <1>2, ExtendsRefl
  <1>4. /\ (serving \in [Thread -> Serving])'
        /\ (\A u \in Thread : Good(serving[u], execs))'
    BY <1>2, <1>3, IdleGood, StepGood
  <1>5. serving[t].created \in ExecId
    BY <1>1, <1>2 DEF Good
  <1>6. /\ DOMAIN known' \subseteq ExecId
        /\ \A x \in DOMAIN known' : known'[x] \in 0..(ExecTTL + 1)
    <2>1. 0 \in 0..(ExecTTL + 1)
      BY ProxyAssumption
    <2> QED
      BY <1>2, <1>5, <2>1 DEF HandOver, IInv, TypeOK
  <1>7. TypeOK'
    BY <1>2, <1>4, <1>6 DEF IInv, TypeOK
  <1>8. Mapped'
    BY <1>2, <1>3, MappedExtends DEF IInv
  <1> QED
    BY <1>4, <1>7, <1>8 DEF IInv

\* A failed inspect ends the request.
LEMMA InspectFailsKeeps ==
    ASSUME IInv, NEW t \in Thread, InspectFails(t)
    PROVE  IInv'
  BY FinishKeeps DEF InspectFails

\* So does a forwarded request that creates no exec.
LEMMA ForwardEndsKeeps ==
    ASSUME IInv, NEW t \in Thread, ForwardEnds(t)
    PROVE  IInv'
  BY FinishKeeps DEF ForwardEnds

\* And a create whose response was not understood.
LEMMA CreateUnreadKeeps ==
    ASSUME IInv, NEW t \in Thread, CreateUnread(t)
    PROVE  IInv'
  BY FinishKeeps DEF CreateUnread

-----------------------------------------------------------------------------
\* The daemon's other clients, restarts and time

\* History ages stay within the bound they are capped at.
LEMMA OlderTyped ==
    ASSUME NEW cap \in Nat, NEW age \in 0..(cap + 1)
    PROVE  Older(age, cap) \in 0..(cap + 1)
  BY DEF Older

\* Names may move: no exec changes its reference.
LEMMA RebindKeeps ==
    ASSUME IInv, NEW r \in Ref, NEW c \in Container \cup {Nil}, Rebind(r, c)
    PROVE  IInv'
  <1>1. /\ bound' = [bound EXCEPT ![r] = c]
        /\ unbound' = [unbound EXCEPT ![r] =
                          [x \in Container |-> IF x = c THEN 0 ELSE @[x]]]
        /\ UNCHANGED <<serving, metaCache, execCache, execs, known, displaced>>
    BY DEF Rebind, caches
  <1>2. bound' \in [Ref -> Container \cup {Nil}]
    BY <1>1 DEF IInv, TypeOK
  <1>3. unbound' \in [Ref -> [Container -> 0..(MetaTTL + InspectTimeout + 1)]]
    <2> DEFINE Ages == 0..(MetaTTL + InspectTimeout + 1)
    <2>1. 0 \in Ages
      BY ProxyAssumption
    <2> HIDE DEF Ages
    <2>2. unbound \in [Ref -> [Container -> Ages]]
      BY DEF IInv, TypeOK, Ages
    <2>3. unbound' \in [Ref -> [Container -> Ages]]
      BY <1>1, <2>1, <2>2
    <2> QED
      BY <2>3 DEF Ages
  <1>4. TypeOK'
    BY <1>1, <1>2, <1>3 DEF IInv, TypeOK
  <1>5. \A t \in Thread : Good(serving'[t], execs')
    BY <1>1 DEF IInv
  <1>6. Mapped'
    BY <1>1 DEF IInv, Mapped
  <1> QED
    BY <1>4, <1>5, <1>6 DEF IInv

\* Execs made elsewhere are granted to no reference.
LEMMA ForeignExecKeeps ==
    ASSUME IInv, NEW e \in ExecId, NEW c \in Container, ForeignExec(e, c)
    PROVE  IInv'
  <1>1. /\ e \notin DOMAIN execs
        /\ execs' = [x \in DOMAIN execs \cup {e} |->
                        IF x = e THEN [container |-> c, ref |-> Nil]
                        ELSE execs[x]]
        /\ UNCHANGED <<serving, metaCache, execCache, bound, unbound, known,
                       displaced>>
    BY DEF ForeignExec, caches, history
  <1>2. Extends(execs, execs')
    BY <1>1 DEF Extends
  <1>3. \A t \in Thread : Good(serving'[t], execs')
    BY <1>1, <1>2, GoodExtends DEF IInv
  <1>4. TypeOK'
    BY <1>1 DEF IInv, TypeOK
  <1>5. Mapped'
    BY <1>1, <1>2, MappedExtends DEF IInv
  <1> QED
    BY <1>3, <1>4, <1>5 DEF IInv

\* After a restart there is nothing to be known.
LEMMA RestartKeeps ==
    ASSUME IInv, Restart
    PROVE  IInv'
  <1>1. /\ serving' = [t \in Thread |-> Idle]
        /\ metaCache' = Empty /\ execCache' = Empty /\ known' = Empty
        /\ displaced' = {}
        /\ execs' = Forgotten
        /\ UNCHANGED <<bound, unbound>>
    BY DEF Restart
  <1>2. DOMAIN Empty = {}
    BY DEF Empty
  <1>3. /\ serving' \in [Thread -> Serving]
        /\ \A t \in Thread : Good(serving'[t], execs')
    BY <1>1, IdleGood
  <1>6. TypeOK
    BY DEF IInv
  <1>7. /\ DOMAIN execs' \subseteq ExecId
        /\ \A e \in DOMAIN execs' :
              execs'[e] \in [container : Container, ref : Ref \cup {Nil}]
    BY <1>1, <1>6 DEF Forgotten, TypeOK
  <1>4. TypeOK'
    BY <1>1, <1>2, <1>3, <1>6, <1>7 DEF TypeOK
  <1>5. Mapped'
    BY <1>1, <1>2 DEF Mapped
  <1> QED
    BY <1>3, <1>4, <1>5 DEF IInv

\* Time changes how long an inspect may still take, nothing else.
LEMMA ElapsedGood ==
    ASSUME NEW s \in Serving, NEW ex, Good(s, ex)
    PROVE  Elapsed(s) \in Serving /\ Good(Elapsed(s), ex)
  <1>1. CASE s.pc = "inspect" /\ s.left > 0
    <2> DEFINE r == [s EXCEPT !.left = @ - 1]
    <2>1. Elapsed(s) = r
      BY <1>1 DEF Elapsed
    <2>2. s.left \in 0..InspectTimeout /\ InspectTimeout \in Nat
      BY ProxyAssumption DEF Serving
    <2>3. s.left - 1 \in 0..InspectTimeout
      BY <1>1, <2>2
    <2>4. r \in Serving
      BY <2>3 DEF Serving
    <2>5. /\ r.pc = s.pc /\ r.created = s.created
          /\ r.op = s.op /\ r.target = s.target
      BY DEF Serving
    <2> HIDE DEF r
    <2>6. Good(r, ex)
      BY <2>5, SameRequestGood
    <2> QED
      BY <2>1, <2>4, <2>6
  <1>2. CASE ~(s.pc = "inspect" /\ s.left > 0)
    BY <1>2 DEF Elapsed
  <1> QED
    BY <1>1, <1>2

\* Both caches age and requests keep what is known of them.
LEMMA TickKeeps ==
    ASSUME IInv, Tick
    PROVE  IInv'
  <1>1. /\ serving' = [t \in Thread |-> Elapsed(serving[t])]
        /\ MetaCache!Age /\ ExecCache!Age
        /\ unbound' = [r \in Ref |-> [c \in Container |->
                          IF bound[r] = c THEN 0
                          ELSE Older(unbound[r][c], MetaTTL + InspectTimeout)]]
        /\ known' = [e \in DOMAIN known |-> Older(known[e], ExecTTL)]
        /\ UNCHANGED <<bound, execs, displaced>>
    BY DEF Tick, daemon
  <1>2. /\ MetaTTL + InspectTimeout \in Nat
        /\ MetaTTL \in Nat /\ ExecTTL \in Nat
    BY ProxyAssumption
  <1>3. /\ serving' \in [Thread -> Serving]
        /\ \A t \in Thread : Good(serving'[t], execs')
    <2>1. \A t \in Thread : /\ Elapsed(serving[t]) \in Serving
                            /\ Good(Elapsed(serving[t]), execs)
      BY ServingTyped, ElapsedGood
    <2> QED
      BY <1>1, <2>1
  <1>4. \A x \in DOMAIN metaCache' :
            x \in Ref /\ metaCache'[x] \in [value : Container, age : 0..MetaTTL]
    BY <1>1, <1>2, MetaAge DEF IInv, TypeOK
  <1>5. \A x \in DOMAIN execCache' :
            x \in ExecId /\ execCache'[x] \in [value : Ref, age : 0..ExecTTL]
    BY <1>1, <1>2, ExecAge DEF IInv, TypeOK
  <1>6. unbound' \in [Ref -> [Container -> 0..(MetaTTL + InspectTimeout + 1)]]
    <2> DEFINE cap  == MetaTTL + InspectTimeout
               Ages == 0..(cap + 1)
    <2>1. cap \in Nat
      BY <1>2
    <2> HIDE DEF cap
    <2>2. 0 \in Ages /\ \A a \in Ages : Older(a, cap) \in Ages
      BY <2>1, OlderTyped
    <2>3. unbound \in [Ref -> [Container -> Ages]]
      BY DEF IInv, TypeOK, cap
    <2>4. unbound' = [r \in Ref |-> [c \in Container |->
                          IF bound[r] = c THEN 0 ELSE Older(unbound[r][c], cap)]]
      BY <1>1 DEF cap
    <2> HIDE DEF Ages
    <2>5. unbound' \in [Ref -> [Container -> Ages]]
      BY <2>2, <2>3, <2>4
    <2> QED
      BY <2>5 DEF Ages, cap
  <1>7. /\ DOMAIN known' \subseteq ExecId
        /\ \A e \in DOMAIN known' : known'[e] \in 0..(ExecTTL + 1)
    BY <1>1, <1>2, OlderTyped DEF IInv, TypeOK
  <1>8. TypeOK'
    BY <1>1, <1>3, <1>4, <1>5, <1>6, <1>7 DEF IInv, TypeOK
  <1>9. Mapped'
    BY <1>1, ExecAge DEF IInv, Mapped
  <1> QED
    BY <1>3, <1>8, <1>9 DEF IInv

-----------------------------------------------------------------------------

\* The invariant holds initially.
LEMMA InitHolds == Init => IInv
  <1> SUFFICES ASSUME Init PROVE IInv
    OBVIOUS
  <1>1. DOMAIN Empty = {}
    BY DEF Empty
  <1>2. /\ serving \in [Thread -> Serving]
        /\ \A t \in Thread : Good(serving[t], execs)
    BY IdleGood DEF Init
  <1>3. unbound \in [Ref -> [Container -> 0..(MetaTTL + InspectTimeout + 1)]]
    <2> DEFINE Ages == 0..(MetaTTL + InspectTimeout + 1)
    <2>1. 0 \in Ages /\ MetaTTL + InspectTimeout + 1 \in Ages
      BY ProxyAssumption
    <2> HIDE DEF Ages
    <2>2. unbound \in [Ref -> [Container -> Ages]]
      BY <2>1 DEF Init
    <2> QED
      BY <2>2 DEF Ages
  <1>4. TypeOK
    BY <1>1, <1>2, <1>3 DEF Init, TypeOK
  <1>5. Mapped
    BY <1>1 DEF Init, Mapped
  <1> QED
    BY <1>2, <1>4, <1>5 DEF IInv

\* Every step keeps the invariant.
LEMMA NextKeeps == IInv /\ [Next]_vars => IInv'
  <1> SUFFICES ASSUME IInv, [Next]_vars PROVE IInv'
    OBVIOUS
  <1>1. ASSUME NEW t \in Thread, Receive(t) \/ Confirmed(t)
        PROVE  IInv'
    BY <1>1, ReceiveKeeps, ConfirmedKeeps
  <1>2. ASSUME NEW t \in Thread, Handle(t)
        PROVE  IInv'
    BY <1>2, ResolveExecKeeps, LookUpMetaKeeps, InspectDoneKeeps,
       InspectFailsKeeps, StoreExecIDKeeps, ReplyKeeps DEF Handle
  <1>3. ASSUME NEW t \in Thread,
               \/ DaemonInspects(t) \/ DaemonCreatesExec(t)
               \/ CreateUnread(t) \/ ForwardEnds(t)
        PROVE  IInv'
    BY <1>3, DaemonInspectsKeeps, DaemonCreatesExecKeeps, CreateUnreadKeeps,
       ForwardEndsKeeps
  <1>4. ASSUME NEW r \in Ref, NEW c \in Container \cup {Nil}, Rebind(r, c)
        PROVE  IInv'
    BY <1>4, RebindKeeps
  <1>5. ASSUME NEW e \in ExecId, NEW c \in Container, ForeignExec(e, c)
        PROVE  IInv'
    BY <1>5, ForeignExecKeeps
  <1>6. CASE Restart \/ Tick
    BY <1>6, RestartKeeps, TickKeeps
  <1>7. CASE UNCHANGED vars
    BY <1>7 DEF vars, caches, daemon, history, IInv, TypeOK, Mapped
  <1> QED
    BY <1>1, <1>2, <1>3, <1>4, <1>5, <1>6, <1>7 DEF Next

(***************************************************************************)
(* The type invariant of Proxy holds in every reachable state, however     *)
(* many requests, references and execs there are and whatever the rules.   *)
(***************************************************************************)
THEOREM TypeInvariant == Spec => []TypeOK
  <1>1. IInv => TypeOK
    BY DEF IInv
  <1> QED
    BY InitHolds, NextKeeps, <1>1, PTL DEF Spec

(***************************************************************************)
(* Handler.ServeHTTP and Engine.Authorize: a follow-up reaches the prompt  *)
(* or the daemon only for an exec whose create went through the proxy      *)
(* since it was last started, and under the reference that create was      *)
(* granted for.                                                            *)
(***************************************************************************)
THEOREM FollowupsInvariant == Spec => []FollowupsOnlyForGrantedExecs
  <1>1. ASSUME IInv
        PROVE  FollowupsOnlyForGrantedExecs
    <2> SUFFICES ASSUME NEW t \in Thread,
                        serving[t].pc \in {"ask", "forward"},
                        IsFollowup(serving[t].op)
                 PROVE  LET e == serving[t].op.class.id
                        IN  /\ e \in DOMAIN execs
                            /\ execs[e].ref = serving[t].target
                            /\ serving[t].target # Nil
      BY DEF FollowupsOnlyForGrantedExecs
    <2>1. GrantedAs(serving[t].op.class.id, serving[t].target, execs)
      BY <1>1 DEF IInv, Good
    <2>2. Nil \notin Ref
      BY ProxyAssumption
    <2> QED
      BY <2>1, <2>2 DEF GrantedAs
  <1> QED
    BY InitHolds, NextKeeps, <1>1, PTL DEF Spec

-----------------------------------------------------------------------------
(***************************************************************************)
(* The passing of time: how old the metadata may be that a request is      *)
(* decided on, and how long an exec ID a client was given is good for.     *)
(***************************************************************************)

\* The inductive invariants

(***************************************************************************)
(* An answer on its way is no older than the inspect, an entry of the      *)
(* cache no older than that and the time it has been there.                *)
(***************************************************************************)
AnswerFresh(s, ub) ==
    s.pc = "inspect" /\ s.answer # Nil =>
        ub[Resolved(s.op.class, s.target).id][s.answer] <= InspectTimeout - s.left

BoundNow == \A r \in Ref : bound[r] # Nil => unbound[r][bound[r]] = 0

MetaFresh ==
    \A r \in DOMAIN metaCache :
        unbound[r][metaCache[r].value] <= metaCache[r].age + InspectTimeout

Fresh == BoundNow /\ MetaFresh /\ \A t \in Thread : AnswerFresh(serving[t], unbound)

(***************************************************************************)
(* What a client is about to be told is in the cache, just put there; what *)
(* it was told has been there no longer than it knows.                     *)
(***************************************************************************)
ReplyHeld(s, cache, lost) ==
    s.pc = "reply" =>
        \/ s.created \in lost
        \/ s.created \in DOMAIN cache /\ cache[s.created].age = 0

KnownHeld ==
    \A e \in DOMAIN known \ displaced :
        known[e] <= ExecTTL => e \in DOMAIN execCache /\ execCache[e].age <= known[e]

Handed == KnownHeld /\ \A t \in Thread : ReplyHeld(serving[t], execCache, displaced)

-----------------------------------------------------------------------------
\* Steps of one request

\* What the other requests are about does not change.
LEMMA OthersStay ==
    ASSUME IInv, NEW t \in Thread, NEW s, Step(t, s), NEW u \in Thread
    PROVE  serving'[u] = IF u = t THEN s ELSE serving[u]
  BY DEF IInv, TypeOK, Step

\* A step of one request that leaves times and metadata alone.
LEMMA StepFresh ==
    ASSUME IInv, Fresh, NEW t \in Thread, NEW s, Step(t, s), AnswerFresh(s, unbound),
           UNCHANGED <<metaCache, bound, unbound>>
    PROVE  Fresh'
  <1>1. BoundNow' /\ MetaFresh'
    BY DEF Fresh, BoundNow, MetaFresh
  <1>2. ASSUME NEW u \in Thread
        PROVE  AnswerFresh(serving'[u], unbound')
    <2>1. AnswerFresh(serving[u], unbound) /\ unbound' = unbound
      BY DEF Fresh
    <2> QED
      BY <2>1, OthersStay
  <1> QED
    BY <1>1, <1>2 DEF Fresh

\* And one that leaves the exec IDs alone.
LEMMA StepHanded ==
    ASSUME IInv, Handed, NEW t \in Thread, NEW s, Step(t, s), s.pc # "reply",
           UNCHANGED <<execCache, known, displaced>>
    PROVE  Handed'
  <1>1. KnownHeld'
    BY DEF Handed, KnownHeld
  <1>2. ASSUME NEW u \in Thread
        PROVE  ReplyHeld(serving'[u], execCache', displaced')
    <2>1. ReplyHeld(serving[u], execCache, displaced)
      BY DEF Handed
    <2>2. ReplyHeld(s, execCache, displaced)
      BY DEF ReplyHeld
    <2>3. execCache' = execCache /\ displaced' = displaced
      OBVIOUS
    <2> QED
      BY <2>1, <2>2, <2>3, OthersStay
  <1> QED
    BY <1>1, <1>2 DEF Handed

\* A request that is over or has not begun.
LEMMA FinishTimes ==
    ASSUME IInv, NEW t \in Thread, Finish(t), UNCHANGED <<caches, daemon, history>>
    PROVE  (Fresh => Fresh') /\ (Handed => Handed')
  <1>1. Step(t, Idle) /\ Idle.pc = "idle"
    BY DEF Finish, Idle, Serve
  <1>2. AnswerFresh(Idle, unbound)
    BY <1>1 DEF AnswerFresh
  <1> QED
    BY <1>1, <1>2, StepFresh, StepHanded DEF caches, daemon, history

(***************************************************************************)
(* The steps of a request that only change what it is about to do, and     *)
(* bring no answer.                                                        *)
(***************************************************************************)
LEMMA OnwardTimes ==
    ASSUME IInv, NEW t \in Thread, NEW s, Step(t, s),
           s.pc # "reply", s.pc = "inspect" => s.answer = Nil,
           UNCHANGED <<caches, bound, history>>
    PROVE  (Fresh => Fresh') /\ (Handed => Handed')
  <1>1. AnswerFresh(s, unbound)
    BY DEF AnswerFresh
  <1> QED
    BY <1>1, StepFresh, StepHanded DEF caches, history

\* What a verdict leaves of the request.
LEMMA AfterVerdictIs ==
    ASSUME NEW t \in Thread, NEW c
    PROVE  /\ AfterVerdict(t, c).pc \notin {"inspect", "reply"}
           /\ AfterVerdict(t, c).decided \in {c, Nil}
  BY DEF AfterVerdict, Idle, Onward, Serve

\* A new request.
LEMMA ReceiveTimes ==
    ASSUME IInv, NEW t \in Thread, Receive(t)
    PROVE  (Fresh => Fresh') /\ (Handed => Handed')
  <1>1. PICK op \in Operation :
            Step(t, Serve(IF IsFollowup(op) THEN "resolve" ELSE "lookup", op, Nil))
    BY DEF Receive
  <1>. DEFINE s == Serve(IF IsFollowup(op) THEN "resolve" ELSE "lookup", op, Nil)
  <1>2. s.pc \in {"resolve", "lookup"}
    BY DEF Serve
  <1>3. UNCHANGED <<caches, bound, history>>
    BY DEF Receive, daemon
  <1>. HIDE DEF s
  <1> QED
    BY <1>1, <1>2, <1>3, OnwardTimes DEF s

\* The exec cache is asked.
LEMMA ResolveExecTimes ==
    ASSUME IInv, NEW t \in Thread, ResolveExec(t)
    PROVE  (Fresh => Fresh') /\ (Handed => Handed')
  <1>. DEFINE s == Serve("lookup", serving[t].op,
                         execCache[serving[t].op.class.id].value)
  <1>1. UNCHANGED <<caches, daemon, history>>
    BY DEF ResolveExec
  <1>2. s.pc = "lookup"
    BY DEF Serve
  <1>3. Step(t, s) \/ Finish(t)
    BY DEF ResolveExec
  <1>. HIDE DEF s
  <1> QED
    BY <1>1, <1>2, <1>3, OnwardTimes, FinishTimes DEF daemon

\* The metadata cache is asked.
LEMMA LookUpMetaTimes ==
    ASSUME IInv, NEW t \in Thread, LookUpMeta(t)
    PROVE  (Fresh => Fresh') /\ (Handed => Handed')
  <1>1. UNCHANGED <<caches, bound, history>>
    BY DEF LookUpMeta, daemon
  <1>2. \/ \E c : Step(t, AfterVerdict(t, c))
        \/ Step(t, [Onward(t, "inspect") EXCEPT !.left = InspectTimeout])
    BY DEF LookUpMeta
  <1>3. ASSUME NEW c, Step(t, AfterVerdict(t, c))
        PROVE  (Fresh => Fresh') /\ (Handed => Handed')
    BY <1>1, <1>3, AfterVerdictIs, OnwardTimes
  <1>4. CASE Step(t, [Onward(t, "inspect") EXCEPT !.left = InspectTimeout])
    <2>. DEFINE s == [Onward(t, "inspect") EXCEPT !.left = InspectTimeout]
    <2>1. s.pc = "inspect" /\ s.answer = Nil
      BY DEF Onward, Serve
    <2>. HIDE DEF s
    <2> QED
      BY <1>1, <1>4, <2>1, OnwardTimes DEF s
  <1> QED
    BY <1>2, <1>3, <1>4

\* The inspect has failed, or the request has nothing more to do.
LEMMA EndsTimes ==
    ASSUME IInv, NEW t \in Thread, InspectFails(t) \/ ForwardEnds(t) \/ CreateUnread(t)
    PROVE  (Fresh => Fresh') /\ (Handed => Handed')
  BY FinishTimes DEF InspectFails, ForwardEnds, CreateUnread

\* The user's answer.
LEMMA ConfirmedTimes ==
    ASSUME IInv, NEW t \in Thread, Confirmed(t)
    PROVE  (Fresh => Fresh') /\ (Handed => Handed')
  <1>. DEFINE s == [serving[t] EXCEPT !.pc = "forward"]
  <1>1. s.pc = "forward"
    BY DEF IInv, TypeOK, Serving
  <1>2. UNCHANGED <<caches, daemon, history>> /\ (Step(t, s) \/ Finish(t))
    BY DEF Confirmed
  <1>. HIDE DEF s
  <1> QED
    BY <1>1, <1>2, OnwardTimes, FinishTimes DEF daemon

\* The daemon creates an exec.
LEMMA DaemonCreatesExecTimes ==
    ASSUME IInv, NEW t \in Thread, DaemonCreatesExec(t)
    PROVE  (Fresh => Fresh') /\ (Handed => Handed')
  <1>1. PICK e \in ExecId : Step(t, [Onward(t, "created") EXCEPT !.created = e])
    BY DEF DaemonCreatesExec
  <1>. DEFINE s == [Onward(t, "created") EXCEPT !.created = e]
  <1>2. s.pc = "created"
    BY DEF Onward, Serve
  <1>3. UNCHANGED <<caches, bound, history>>
    BY DEF DaemonCreatesExec
  <1>. HIDE DEF s
  <1> QED
    BY <1>1, <1>2, <1>3, OnwardTimes DEF s

-----------------------------------------------------------------------------
\* Steps that bring an answer or an exec ID

\* Times and counts are numbers.
LEMMA Ages ==
    ASSUME IInv
    PROVE  /\ MetaTTL \in Nat /\ InspectTimeout \in Nat /\ ExecTTL \in Nat
           /\ \A r \in Ref, c \in Container : unbound[r][c] \in Nat
           /\ \A r \in DOMAIN metaCache :
                 /\ r \in Ref /\ metaCache[r].value \in Container
                 /\ metaCache[r].age \in 0..MetaTTL
           /\ \A e \in DOMAIN execCache : execCache[e].age \in Nat
           /\ \A e \in DOMAIN known : known[e] \in Nat
           /\ \A t \in Thread : serving[t].left \in 0..InspectTimeout
  <1>1. MetaTTL \in Nat /\ InspectTimeout \in Nat /\ ExecTTL \in Nat
    BY ProxyAssumption
  <1>2. \A r \in Ref, c \in Container : unbound[r][c] \in Nat
    <2>1. ASSUME NEW r \in Ref, NEW c \in Container
          PROVE  unbound[r][c] \in 0..(MetaTTL + InspectTimeout + 1)
      BY DEF IInv, TypeOK
    <2> QED
      BY <1>1, <2>1
  <1>3. \A r \in DOMAIN metaCache :
            /\ r \in Ref /\ metaCache[r].value \in Container
            /\ metaCache[r].age \in 0..MetaTTL
    BY DEF IInv, TypeOK
  <1>4. \A e \in DOMAIN execCache : execCache[e].age \in Nat
    <2>1. \A e \in DOMAIN execCache : execCache[e].age \in 0..ExecTTL
      BY DEF IInv, TypeOK
    <2> QED
      BY <1>1, <2>1
  <1>5. \A e \in DOMAIN known : known[e] \in Nat
    <2>1. \A e \in DOMAIN known : known[e] \in 0..(ExecTTL + 1)
      BY DEF IInv, TypeOK
    <2> QED
      BY <1>1, <2>1
  <1>6. \A t \in Thread : serving[t].left \in 0..InspectTimeout
    BY DEF IInv, TypeOK, Serving
  <1> QED
    BY <1>1, <1>2, <1>3, <1>4, <1>5, <1>6

\* A request that waits for the daemon inspects a container reference.
LEMMA Inspecting ==
    ASSUME IInv, NEW t \in Thread, serving[t].pc = "inspect"
    PROVE  /\ InspectedRef(t) \in Ref
           /\ InspectedRef(t) = Resolved(serving[t].op.class, serving[t].target).id
           /\ serving[t].answer \in Container \cup {Nil}
  BY ServingTyped DEF Good, InspectedRef, Class, Serving

\* The answer is as of now.
LEMMA DaemonInspectsTimes ==
    ASSUME IInv, NEW t \in Thread, DaemonInspects(t)
    PROVE  (Fresh => Fresh') /\ (Handed => Handed')
  <1>. DEFINE s == [serving[t] EXCEPT !.answer = bound[InspectedRef(t)]]
              r == InspectedRef(t)
  <1>1. /\ serving[t].pc = "inspect" /\ bound[r] # Nil /\ Step(t, s)
        /\ UNCHANGED <<metaCache, execCache, bound, unbound, known, displaced>>
    BY DEF DaemonInspects, At, caches, daemon, history
  <1>2. /\ s.pc = "inspect" /\ s.op = serving[t].op /\ s.target = serving[t].target
        /\ s.left = serving[t].left /\ s.answer = bound[r]
    BY <1>1, ServingTyped DEF Serving
  <1>3. r \in Ref /\ r = Resolved(s.op.class, s.target).id
    BY <1>1, <1>2, Inspecting
  <1>4. ASSUME Fresh
        PROVE  AnswerFresh(s, unbound)
    <2>1. unbound[r][s.answer] = 0
      BY <1>1, <1>2, <1>3, <1>4 DEF Fresh, BoundNow
    <2>2. 0 <= InspectTimeout - s.left
      BY <1>2, Ages
    <2> QED
      BY <1>3, <2>1, <2>2 DEF AnswerFresh
  <1>. HIDE DEF s
  <1> QED
    BY <1>1, <1>2, <1>4, StepFresh, StepHanded

\* It goes into the cache.
LEMMA InspectDoneTimes ==
    ASSUME IInv, NEW t \in Thread, InspectDone(t)
    PROVE  (Fresh => Fresh') /\ (Handed => Handed')
  <1>. DEFINE r == InspectedRef(t)
              c == serving[t].answer
              s == AfterVerdict(t, c)
  <1>1. /\ serving[t].pc = "inspect" /\ c # Nil
        /\ MetaCache!Put(r, c) /\ Step(t, s)
        /\ UNCHANGED <<execCache, bound, unbound, known, displaced>>
    BY DEF InspectDone, At, daemon, history
  <1>2. s.pc \notin {"inspect", "reply"}
    BY AfterVerdictIs
  <1>3. /\ r \in Ref /\ c \in Container
        /\ r = Resolved(serving[t].op.class, serving[t].target).id
    BY <1>1, Inspecting
  <1>. HIDE DEF s
  <1>4. Handed => Handed'
    BY <1>1, <1>2, StepHanded
  <1>5. ASSUME Fresh
        PROVE  Fresh'
    <2>1. BoundNow'
      BY <1>1, <1>5 DEF Fresh, BoundNow
    <2>2. ASSUME NEW u \in Thread
          PROVE  AnswerFresh(serving'[u], unbound')
      <3>1. AnswerFresh(serving[u], unbound) /\ AnswerFresh(s, unbound)
        BY <1>2, <1>5 DEF Fresh, AnswerFresh
      <3>2. unbound' = unbound /\ serving'[u] = IF u = t THEN s ELSE serving[u]
        BY <1>1, OthersStay
      <3> QED
        BY <3>1, <3>2
    <2>3. unbound[r][c] <= InspectTimeout
      <3>1. unbound[r][c] <= InspectTimeout - serving[t].left
        BY <1>1, <1>3, <1>5 DEF Fresh, AnswerFresh
      <3>2. unbound[r][c] \in Nat /\ serving[t].left \in 0..InspectTimeout
            /\ InspectTimeout \in Nat
        BY <1>3, Ages
      <3> QED
        BY <3>1, <3>2
    <2>4. ASSUME NEW x \in DOMAIN metaCache'
          PROVE  unbound'[x][metaCache'[x].value] <= metaCache'[x].age + InspectTimeout
      <3>1. CASE x = r /\ metaCache'[x] = [value |-> c, age |-> 0]
        <4>1. metaCache'[x].value = c /\ metaCache'[x].age = 0
          BY <3>1
        <4>2. 0 + InspectTimeout = InspectTimeout
          BY Ages
        <4> QED
          BY <1>1, <2>3, <3>1, <4>1, <4>2
      <3>2. CASE x \in DOMAIN metaCache /\ metaCache'[x] = metaCache[x]
        BY <1>1, <1>5, <3>2 DEF Fresh, MetaFresh
      <3>. HIDE DEF r, c
      <3> QED
        BY <1>1, <3>1, <3>2, MetaPut
    <2> QED
      BY <2>1, <2>2, <2>4 DEF Fresh, MetaFresh
  <1> QED
    BY <1>4, <1>5

\* The exec ID goes into its cache, perhaps in the place of another.
LEMMA StoreExecIDTimes ==
    ASSUME IInv, NEW t \in Thread, StoreExecID(t)
    PROVE  (Fresh => Fresh') /\ (Handed => Handed')
  <1>. DEFINE e == serving[t].created
              r == serving[t].op.class.id
              s == [serving[t] EXCEPT !.pc = "reply"]
  <1>1. /\ ExecCache!Put(e, r) /\ Step(t, s)
        /\ displaced' = displaced \cup (ExecCache!Held \ DOMAIN execCache')
        /\ UNCHANGED <<metaCache, bound, unbound, known>>
    BY DEF StoreExecID, daemon
  <1>2. s.pc = "reply" /\ s.created = e
    BY ServingTyped DEF Serving
  <1>3. e \in DOMAIN execCache' /\ execCache'[e] = [value |-> r, age |-> 0]
    BY <1>1 DEF ExecCache!Put, ExecCache!Written
  <1>. HIDE DEF s
  <1>4. Fresh => Fresh'
    BY <1>1, <1>2, StepFresh DEF AnswerFresh
  <1>5. \A x \in DOMAIN execCache :
            \/ x \in displaced'
            \/ x \in DOMAIN execCache' /\ (execCache'[x] = execCache[x] \/ x = e)
    BY <1>1, ExecPut DEF ExecCache!Held
  <1>. HIDE DEF e, r
  <1>6. execCache'[e].age = 0
    BY <1>3
  <1>7. ASSUME Handed
        PROVE  Handed'
    <2>1. ASSUME NEW u \in Thread
          PROVE  ReplyHeld(serving'[u], execCache', displaced')
      <3>1. CASE u = t
        BY <1>1, <1>2, <1>3, <1>6, <3>1, OthersStay DEF ReplyHeld
      <3>2. CASE u # t
        <4>1. serving'[u] = serving[u]
          BY <1>1, <3>2, OthersStay
        <4>2. ReplyHeld(serving[u], execCache, displaced)
          BY <1>7 DEF Handed
        <4> QED
          BY <1>1, <1>5, <1>6, <4>1, <4>2 DEF ReplyHeld
      <3> QED
        BY <3>1, <3>2
    <2>2. ASSUME NEW x \in DOMAIN known' \ displaced', known'[x] <= ExecTTL
          PROVE  x \in DOMAIN execCache' /\ execCache'[x].age <= known'[x]
      <3>1. x \in DOMAIN known /\ x \notin displaced /\ known'[x] = known[x]
        BY <1>1, <2>2
      <3>2. x \in DOMAIN execCache /\ execCache[x].age <= known[x]
        BY <1>7, <2>2, <3>1 DEF Handed, KnownHeld
      <3>3. x \in DOMAIN execCache' /\ (execCache'[x] = execCache[x] \/ x = e)
        BY <1>5, <2>2, <3>2
      <3>4. 0 <= known[x]
        BY <3>1, Ages
      <3> QED
        BY <1>6, <3>1, <3>2, <3>3, <3>4
    <2> QED
      BY <2>1, <2>2 DEF Handed, KnownHeld
  <1> QED
    BY <1>4, <1>7

\* The client is told.
LEMMA ReplyTimes ==
    ASSUME IInv, NEW t \in Thread, Reply(t)
    PROVE  (Fresh => Fresh') /\ (Handed => Handed')
  <1>. DEFINE e == serving[t].created
  <1>1. /\ serving[t].pc = "reply" /\ Step(t, Idle) /\ Idle.pc = "idle"
        /\ known' = [x \in DOMAIN known \cup {e} |-> IF x = e THEN 0 ELSE known[x]]
        /\ UNCHANGED <<metaCache, execCache, bound, unbound, displaced>>
    BY DEF Reply, At, Finish, HandOver, Idle, Serve, caches, daemon
  <1>2. Fresh => Fresh'
    BY <1>1, StepFresh DEF AnswerFresh
  <1>3. ASSUME Handed
        PROVE  Handed'
    <2>1. ASSUME NEW u \in Thread
          PROVE  ReplyHeld(serving'[u], execCache', displaced')
      <3>1. serving'[u] = IF u = t THEN Idle ELSE serving[u]
        BY <1>1, OthersStay
      <3>2. ReplyHeld(serving[u], execCache, displaced)
        BY <1>3 DEF Handed
      <3> QED
        BY <1>1, <3>1, <3>2 DEF ReplyHeld
    <2>2. e \in displaced \/ (e \in DOMAIN execCache /\ execCache[e].age = 0)
      BY <1>1, <1>3 DEF Handed, ReplyHeld
    <2>. HIDE DEF e
    <2>3. ASSUME NEW x \in DOMAIN known' \ displaced', known'[x] <= ExecTTL
          PROVE  x \in DOMAIN execCache' /\ execCache'[x].age <= known'[x]
      <3>1. CASE x = e
        <4>1. known'[x] = 0 /\ execCache'[x] = execCache[x] /\ x \in DOMAIN execCache
          BY <1>1, <2>2, <2>3, <3>1
        <4> QED
          BY <1>1, <2>2, <2>3, <3>1, <4>1
      <3>2. CASE x # e
        BY <1>1, <1>3, <2>3, <3>2 DEF Handed, KnownHeld
      <3> QED
        BY <3>1, <3>2
    <2> QED
      BY <2>1, <2>3 DEF Handed, KnownHeld
  <1> QED
    BY <1>2, <1>3

-----------------------------------------------------------------------------
\* The daemon's other clients, restarts and time

\* A reference that names something else was bound until now.
LEMMA RebindTimes ==
    ASSUME IInv, NEW r \in Ref, NEW c \in Container \cup {Nil}, Rebind(r, c)
    PROVE  (Fresh => Fresh') /\ (Handed => Handed')
  <1>1. /\ bound' = [bound EXCEPT ![r] = c]
        /\ unbound' = [unbound EXCEPT ![r] =
                          [x \in Container |-> IF x = c THEN 0 ELSE @[x]]]
        /\ UNCHANGED <<serving, metaCache, execCache, known, displaced>>
    BY DEF Rebind, caches
  <1>2. Handed => Handed'
    BY <1>1 DEF Handed, KnownHeld
  <1>3. ASSUME NEW q \in Ref, NEW x \in Container
        PROVE  unbound'[q][x] = IF q = r /\ x = c THEN 0 ELSE unbound[q][x]
    BY <1>1 DEF IInv, TypeOK
  <1>4. ASSUME NEW q \in Ref, NEW x \in Container
        PROVE  unbound'[q][x] <= unbound[q][x]
    BY <1>3, Ages
  <1>5. ASSUME Fresh
        PROVE  Fresh'
    <2>1. BoundNow'
      <3>1. \A q \in Ref : bound'[q] = IF q = r THEN c ELSE bound[q]
        BY <1>1 DEF IInv, TypeOK
      <3>2. \A q \in Ref : bound[q] \in Container \cup {Nil}
        BY DEF IInv, TypeOK
      <3>3. ASSUME NEW q \in Ref, bound'[q] # Nil
            PROVE  unbound'[q][bound'[q]] = 0
        BY <1>3, <1>5, <3>1, <3>2, <3>3 DEF Fresh, BoundNow
      <3> QED
        BY <3>3 DEF BoundNow
    <2>2. ASSUME NEW q \in DOMAIN metaCache
          PROVE  unbound'[q][metaCache[q].value] <= metaCache[q].age + InspectTimeout
      <3>. DEFINE x == metaCache[q].value
      <3>1. q \in Ref /\ x \in Container
        BY Ages
      <3>2. unbound'[q][x] <= unbound[q][x] /\ unbound[q][x] \in Nat
        BY <1>4, <3>1, Ages
      <3>3. unbound'[q][x] \in Nat
        BY <1>3, <3>1, Ages
      <3>4. unbound[q][x] <= metaCache[q].age + InspectTimeout
        BY <1>5 DEF Fresh, MetaFresh
      <3>5. metaCache[q].age + InspectTimeout \in Nat
        <4>1. metaCache[q].age \in 0..MetaTTL /\ MetaTTL \in Nat /\ InspectTimeout \in Nat
          BY Ages
        <4> QED
          BY <4>1
      <3>. HIDE DEF x
      <3>6. unbound'[q][x] <= metaCache[q].age + InspectTimeout
        BY <3>2, <3>3, <3>4, <3>5 DEF x
      <3> QED
        BY <3>6 DEF x
    <2>3. ASSUME NEW t \in Thread
          PROVE  AnswerFresh(serving[t], unbound')
      <3>. DEFINE s == serving[t]
                  q == InspectedRef(t)
                  x == s.answer
      <3>1. SUFFICES ASSUME s.pc = "inspect", x # Nil
                     PROVE  unbound'[Resolved(s.op.class, s.target).id][x]
                                <= InspectTimeout - s.left
        BY DEF AnswerFresh
      <3>2. q \in Ref /\ q = Resolved(s.op.class, s.target).id /\ x \in Container
        BY <3>1, Inspecting
      <3>3. unbound[q][x] <= InspectTimeout - s.left
        BY <1>5, <3>1, <3>2 DEF Fresh, AnswerFresh
      <3>4. /\ unbound'[q][x] <= unbound[q][x] /\ unbound[q][x] \in Nat
            /\ unbound'[q][x] \in Nat
        BY <1>3, <1>4, <3>2, Ages
      <3>5. InspectTimeout - s.left \in Int
        <4>1. s.left \in 0..InspectTimeout /\ InspectTimeout \in Nat
          BY Ages
        <4> QED
          BY <4>1
      <3>. HIDE DEF s, q, x
      <3>6. unbound'[q][x] <= InspectTimeout - s.left
        BY <3>3, <3>4, <3>5
      <3> QED
        BY <3>2, <3>6
    <2> QED
      BY <1>1, <2>1, <2>2, <2>3 DEF Fresh, MetaFresh
  <1> QED
    BY <1>2, <1>5

\* Execs made elsewhere concern neither.
LEMMA ForeignExecTimes ==
    ASSUME IInv, NEW e \in ExecId, NEW c \in Container, ForeignExec(e, c)
    PROVE  (Fresh => Fresh') /\ (Handed => Handed')
  <1>1. UNCHANGED <<serving, metaCache, execCache, bound, unbound, known, displaced>>
    BY DEF ForeignExec, caches, history
  <1> QED
    BY <1>1 DEF Fresh, BoundNow, MetaFresh, Handed, KnownHeld

\* After a restart nothing is cached and nobody was told anything.
LEMMA RestartTimes ==
    ASSUME IInv, Restart
    PROVE  (Fresh => Fresh') /\ (Handed => Handed')
  <1>1. /\ \A t \in Thread : serving'[t].pc = "idle"
        /\ DOMAIN metaCache' = {} /\ DOMAIN known' = {}
        /\ UNCHANGED <<bound, unbound>>
    BY DEF Restart, Idle, Serve, Empty
  <1> QED
    BY <1>1 DEF Fresh, BoundNow, MetaFresh, AnswerFresh, Handed, KnownHeld, ReplyHeld

\* A tick makes nothing older by more than one.
LEMMA OlderByOne ==
    ASSUME NEW cap \in Nat, NEW age \in Nat
    PROVE  Older(age, cap) \in Nat /\ Older(age, cap) <= age + 1
  BY DEF Older

\* So it is with the time since a reference last named a container.
LEMMA UnboundByOne ==
    ASSUME IInv, Tick, NEW r \in Ref, NEW c \in Container
    PROVE  unbound'[r][c] \in Nat /\ unbound'[r][c] <= unbound[r][c] + 1
  <1>1. unbound'[r][c] = IF bound[r] = c THEN 0
                         ELSE Older(unbound[r][c], MetaTTL + InspectTimeout)
    BY DEF Tick
  <1>2. unbound[r][c] \in Nat /\ MetaTTL + InspectTimeout \in Nat
    BY Ages
  <1>. DEFINE age == unbound[r][c]
              cap == MetaTTL + InspectTimeout
  <1>. HIDE DEF age, cap
  <1>3. Older(age, cap) \in Nat /\ Older(age, cap) <= age + 1 /\ age \in Nat
    BY <1>2, OlderByOne DEF age, cap
  <1> QED
    BY <1>1, <1>3 DEF age, cap

(***************************************************************************)
(* A tick finds no goroutine that could run: a request that still waits    *)
(* for the daemon has time left, and now has less.                         *)
(***************************************************************************)
LEMMA TickServing ==
    ASSUME IInv, Tick, NEW t \in Thread
    PROVE  /\ serving[t].pc # "reply" /\ serving'[t].pc = serving[t].pc
           /\ serving[t].pc # "inspect" => serving'[t] = serving[t]
           /\ serving[t].pc = "inspect" =>
                 serving'[t] = [serving[t] EXCEPT !.left = @ - 1]
           /\ serving'[t].decided = serving[t].decided
  <1>1. serving'[t] = Elapsed(serving[t]) /\ ~Runnable(t)
    BY DEF Tick
  <1>2. serving[t] \in Serving /\ serving[t].left \in 0..InspectTimeout
    BY ServingTyped, Ages
  <1>3. serving[t].pc = "inspect" => serving[t].left > 0
    BY <1>1, <1>2, Ages DEF Runnable, At
  <1> QED
    BY <1>1, <1>2, <1>3 DEF Elapsed, Runnable, Serving

\* Time passes.
LEMMA TickTimes ==
    ASSUME IInv, Tick
    PROVE  (Fresh => Fresh') /\ (Handed => Handed')
  <1>1. /\ MetaCache!Age /\ ExecCache!Age /\ UNCHANGED <<bound, displaced>>
        /\ known' = [e \in DOMAIN known |-> Older(known[e], ExecTTL)]
    BY DEF Tick, daemon
  <1>2. ASSUME Fresh
        PROVE  Fresh'
    <2>1. BoundNow'
      <3>1. \A r \in Ref : bound[r] \in Container \cup {Nil}
        BY DEF IInv, TypeOK
      <3> QED
        BY <3>1 DEF Tick, daemon, BoundNow
    <2>2. ASSUME NEW r \in DOMAIN metaCache'
          PROVE  unbound'[r][metaCache'[r].value] <= metaCache'[r].age + InspectTimeout
      <3>. DEFINE c == metaCache[r].value
                  age == metaCache[r].age
      <3>1. /\ r \in DOMAIN metaCache
            /\ metaCache'[r].value = c /\ metaCache'[r].age = age + 1
        BY <1>1, MetaAge
      <3>2. r \in Ref /\ c \in Container /\ age \in Nat /\ unbound[r][c] \in Nat
            /\ InspectTimeout \in Nat
        BY <3>1, Ages
      <3>3. unbound[r][c] <= age + InspectTimeout
        BY <1>2, <3>1 DEF Fresh, MetaFresh
      <3>4. unbound'[r][c] \in Nat /\ unbound'[r][c] <= unbound[r][c] + 1
        BY <3>2, UnboundByOne
      <3>. HIDE DEF c, age
      <3>5. unbound'[r][c] <= (age + 1) + InspectTimeout
        BY <3>2, <3>3, <3>4
      <3> QED
        BY <3>1, <3>5
    <2>3. ASSUME NEW t \in Thread
          PROVE  AnswerFresh(serving'[t], unbound')
      <3>. DEFINE s == serving[t]
                  r == InspectedRef(t)
                  c == serving[t].answer
                  left == serving[t].left
      <3>1. SUFFICES ASSUME serving'[t].pc = "inspect", serving'[t].answer # Nil
                     PROVE  unbound'[Resolved(serving'[t].op.class, serving'[t].target).id]
                                    [serving'[t].answer]
                                <= InspectTimeout - serving'[t].left
        BY DEF AnswerFresh
      <3>2. serving[t].pc = "inspect" /\ serving'[t] = [serving[t] EXCEPT !.left = @ - 1]
        BY <3>1, TickServing
      <3>3. /\ serving'[t].op = s.op /\ serving'[t].target = s.target
            /\ serving'[t].answer = c /\ serving'[t].left = left - 1
        BY <3>2, ServingTyped DEF Serving
      <3>4. r \in Ref /\ r = Resolved(s.op.class, s.target).id /\ c \in Container
        BY <3>1, <3>2, <3>3, Inspecting
      <3>5. unbound[r][c] <= InspectTimeout - left
        BY <1>2, <3>1, <3>2, <3>3, <3>4 DEF Fresh, AnswerFresh
      <3>6. /\ unbound'[r][c] \in Nat /\ unbound'[r][c] <= unbound[r][c] + 1
            /\ unbound[r][c] \in Nat
        BY <3>4, UnboundByOne, Ages
      <3>7. left \in Int /\ InspectTimeout \in Nat
        <4>1. left \in 0..InspectTimeout /\ InspectTimeout \in Nat
          BY Ages
        <4> QED
          BY <4>1
      <3>8. Resolved(serving'[t].op.class, serving'[t].target).id = r
        BY <3>3, <3>4
      <3>. HIDE DEF s, r, c, left
      <3>9. unbound'[r][c] <= InspectTimeout - (left - 1)
        BY <3>5, <3>6, <3>7
      <3> QED
        BY <3>3, <3>8, <3>9
    <2> QED
      BY <2>1, <2>2, <2>3 DEF Fresh, MetaFresh
  <1>3. ASSUME Handed
        PROVE  Handed'
    <2>1. ASSUME NEW t \in Thread
          PROVE  ReplyHeld(serving'[t], execCache', displaced')
      BY TickServing DEF ReplyHeld
    <2>2. ASSUME NEW e \in DOMAIN known' \ displaced', known'[e] <= ExecTTL
          PROVE  e \in DOMAIN execCache' /\ execCache'[e].age <= known'[e]
      <3>. DEFINE told == known[e]
                  age == execCache[e].age
      <3>1. e \in DOMAIN known \ displaced /\ known'[e] = Older(told, ExecTTL)
        BY <1>1, <2>2
      <3>2. told \in Nat /\ ExecTTL \in Nat
        BY <3>1, Ages
      <3>. HIDE DEF told
      <3>3. told < ExecTTL /\ Older(told, ExecTTL) = told + 1
        BY <2>2, <3>1, <3>2 DEF Older
      <3>4. told <= ExecTTL
        BY <3>2, <3>3
      <3>5. e \in DOMAIN execCache /\ age <= told /\ age \in Nat
        BY <1>3, <3>1, <3>4, Ages DEF Handed, KnownHeld, told
      <3>6. age < ExecTTL
        BY <3>2, <3>3, <3>5
      <3>7. e \in DOMAIN execCache' /\ execCache'[e].age = age + 1
        BY <1>1, <3>5, <3>6 DEF ExecCache!Age, ExecCache!Held
      <3>. HIDE DEF age
      <3>8. age + 1 <= told + 1
        BY <3>2, <3>5
      <3> QED
        BY <3>1, <3>3, <3>7, <3>8
    <2> QED
      BY <2>1, <2>2 DEF Handed, KnownHeld
  <1> QED
    BY <1>2, <1>3

-----------------------------------------------------------------------------
\* The theorems

\* Nothing is cached or told at first.
LEMMA InitTimes == Init => Fresh /\ Handed
  <1>1. SUFFICES ASSUME Init PROVE Fresh /\ Handed
    OBVIOUS
  <1>2. /\ \A t \in Thread : serving[t].pc = "idle"
        /\ DOMAIN metaCache = {} /\ DOMAIN known = {}
    BY <1>1 DEF Init, Idle, Serve, Empty
  <1>3. BoundNow
    <2>1. \A r \in Ref : bound[r] \in Container \cup {Nil}
      BY <1>1 DEF Init
    <2> QED
      BY <1>1, <2>1 DEF Init, BoundNow
  <1> QED
    BY <1>2, <1>3 DEF Fresh, MetaFresh, AnswerFresh, Handed, KnownHeld, ReplyHeld

\* Every step keeps both.
LEMMA NextTimes == IInv /\ [Next]_vars => (Fresh => Fresh') /\ (Handed => Handed')
  <1> SUFFICES ASSUME IInv, [Next]_vars
               PROVE  (Fresh => Fresh') /\ (Handed => Handed')
    OBVIOUS
  <1>1. ASSUME NEW t \in Thread, Handle(t)
        PROVE  (Fresh => Fresh') /\ (Handed => Handed')
    BY <1>1, ResolveExecTimes, LookUpMetaTimes, InspectDoneTimes, EndsTimes,
       StoreExecIDTimes, ReplyTimes DEF Handle
  <1>2. ASSUME NEW t \in Thread,
               \/ Receive(t) \/ Confirmed(t) \/ DaemonInspects(t)
               \/ DaemonCreatesExec(t) \/ CreateUnread(t) \/ ForwardEnds(t)
        PROVE  (Fresh => Fresh') /\ (Handed => Handed')
    BY <1>2, ReceiveTimes, ConfirmedTimes, DaemonInspectsTimes,
       DaemonCreatesExecTimes, EndsTimes
  <1>3. ASSUME NEW r \in Ref, NEW c \in Container \cup {Nil}, Rebind(r, c)
        PROVE  (Fresh => Fresh') /\ (Handed => Handed')
    BY <1>3, RebindTimes
  <1>4. ASSUME NEW e \in ExecId, NEW c \in Container, ForeignExec(e, c)
        PROVE  (Fresh => Fresh') /\ (Handed => Handed')
    BY <1>4, ForeignExecTimes
  <1>5. CASE UNCHANGED vars
    BY <1>5 DEF vars, caches, daemon, history, Fresh, BoundNow, MetaFresh,
                Handed, KnownHeld
  <1> QED
    BY <1>1, <1>2, <1>3, <1>4, <1>5, RestartTimes, TickTimes DEF Next

(***************************************************************************)
(* StoreExecID and the recorder that holds the response back: an exec ID   *)
(* that a client was told is found by its follow-ups for as long as the    *)
(* exec cache keeps one, unless newer ones have displaced it.              *)
(***************************************************************************)
THEOREM KnownExecsResolveInvariant == Spec => []KnownExecsResolve
  <1>1. Handed => KnownExecsResolve
    BY DEF Handed, KnownHeld, KnownExecsResolve, ExecCache!Held
  <1> QED
    BY InitHolds, NextKeeps, InitTimes, NextTimes, <1>1, PTL DEF Spec

-----------------------------------------------------------------------------
\* What is decided, and on what

\* Nothing becomes decided in this step.
NothingDecided ==
    \A t \in Thread : serving'[t].decided \in {Nil, serving[t].decided}

\* What is decided in this step is decided on fresh metadata.
DecidedFresh ==
    \A t \in Thread :
        serving'[t].decided # Nil /\ serving[t].decided = Nil =>
            unbound[InspectedRef(t)][serving'[t].decided] <= MetaTTL + InspectTimeout

\* A step of one request decides no other.
LEMMA StepUndecided ==
    ASSUME IInv, NEW t \in Thread, NEW s, Step(t, s),
           s.decided \in {Nil, serving[t].decided}
    PROVE  NothingDecided
  BY OthersStay DEF NothingDecided

\* Nor does one that ends.
LEMMA FinishUndecided ==
    ASSUME IInv, NEW t \in Thread, Finish(t)
    PROVE  NothingDecided
  <1>1. Idle.decided = Nil
    BY DEF Idle, Serve
  <1> QED
    BY <1>1, StepUndecided DEF Finish

\* The steps of a request but those with which Authorize returns.
LEMMA OnwardUndecided ==
    ASSUME IInv, NEW t \in Thread,
           \/ Receive(t) \/ ResolveExec(t) \/ DaemonInspects(t) \/ InspectFails(t)
           \/ Confirmed(t) \/ ForwardEnds(t) \/ DaemonCreatesExec(t)
           \/ CreateUnread(t) \/ StoreExecID(t) \/ Reply(t)
    PROVE  NothingDecided
  <1>1. CASE Receive(t)
    <2>1. PICK op \in Operation :
              Step(t, Serve(IF IsFollowup(op) THEN "resolve" ELSE "lookup", op, Nil))
      BY <1>1 DEF Receive
    <2>. DEFINE s == Serve(IF IsFollowup(op) THEN "resolve" ELSE "lookup", op, Nil)
    <2>2. s.decided = Nil
      BY DEF Serve
    <2>. HIDE DEF s
    <2> QED
      BY <2>1, <2>2, StepUndecided DEF s
  <1>2. CASE ResolveExec(t)
    <2>. DEFINE s == Serve("lookup", serving[t].op,
                           execCache[serving[t].op.class.id].value)
    <2>1. Step(t, s) \/ Finish(t)
      BY <1>2 DEF ResolveExec
    <2>2. s.decided = Nil
      BY DEF Serve
    <2>. HIDE DEF s
    <2> QED
      BY <2>1, <2>2, StepUndecided, FinishUndecided
  <1>3. CASE DaemonInspects(t)
    <2>. DEFINE s == [serving[t] EXCEPT !.answer = bound[InspectedRef(t)]]
    <2>1. Step(t, s) /\ s.decided = serving[t].decided
      BY <1>3, ServingTyped DEF DaemonInspects, Serving
    <2>. HIDE DEF s
    <2> QED
      BY <2>1, StepUndecided
  <1>4. CASE Confirmed(t)
    <2>. DEFINE s == [serving[t] EXCEPT !.pc = "forward"]
    <2>1. Step(t, s) \/ Finish(t)
      BY <1>4 DEF Confirmed
    <2>2. s.decided = serving[t].decided
      BY ServingTyped DEF Serving
    <2>. HIDE DEF s
    <2> QED
      BY <2>1, <2>2, StepUndecided, FinishUndecided
  <1>5. CASE DaemonCreatesExec(t)
    <2>1. PICK e \in ExecId : Step(t, [Onward(t, "created") EXCEPT !.created = e])
      BY <1>5 DEF DaemonCreatesExec
    <2>. DEFINE s == [Onward(t, "created") EXCEPT !.created = e]
    <2>2. s.decided = Nil
      BY DEF Onward, Serve
    <2>. HIDE DEF s
    <2> QED
      BY <2>1, <2>2, StepUndecided DEF s
  <1>6. CASE StoreExecID(t)
    <2>. DEFINE s == [serving[t] EXCEPT !.pc = "reply"]
    <2>1. Step(t, s) /\ s.decided = serving[t].decided
      BY <1>6, ServingTyped DEF StoreExecID, Serving
    <2>. HIDE DEF s
    <2> QED
      BY <2>1, StepUndecided
  <1>7. CASE InspectFails(t) \/ ForwardEnds(t) \/ CreateUnread(t) \/ Reply(t)
    BY <1>7, FinishUndecided DEF InspectFails, ForwardEnds, CreateUnread, Reply
  <1> QED
    BY <1>1, <1>2, <1>3, <1>4, <1>5, <1>6, <1>7

\* A hit: the entry is at most MetaTTL old, what it says InspectTimeout older.
LEMMA LookUpMetaFresh ==
    ASSUME IInv, Fresh, NEW t \in Thread, LookUpMeta(t)
    PROVE  DecidedFresh
  <1>. DEFINE r == InspectedRef(t)
              c == metaCache[r].value
              age == metaCache[r].age
              asked == [Onward(t, "inspect") EXCEPT !.left = InspectTimeout]
  <1>1. \/ Step(t, AfterVerdict(t, Nil))
        \/ r \in DOMAIN metaCache /\ Step(t, AfterVerdict(t, c))
        \/ Step(t, asked)
    BY DEF LookUpMeta, MetaCache!Held
  <1>2. asked.decided = Nil
    BY DEF Onward, Serve
  <1>3. AfterVerdict(t, Nil).decided = Nil /\ AfterVerdict(t, c).decided \in {c, Nil}
    BY AfterVerdictIs
  <1>4. ASSUME NEW s, Step(t, s), s.decided \in {c, Nil},
               s.decided = c /\ c # Nil => r \in DOMAIN metaCache
        PROVE  DecidedFresh
    <2>1. SUFFICES ASSUME NEW u \in Thread,
                          serving'[u].decided # Nil, serving[u].decided = Nil
                   PROVE  unbound[InspectedRef(u)][serving'[u].decided]
                              <= MetaTTL + InspectTimeout
      BY DEF DecidedFresh
    <2>2. u = t /\ serving'[u].decided = c /\ r \in DOMAIN metaCache
      BY <1>4, <2>1, OthersStay
    <2>3. unbound[r][c] <= age + InspectTimeout
      BY <2>2 DEF Fresh, MetaFresh
    <2>4. /\ age \in 0..MetaTTL /\ MetaTTL \in Nat /\ InspectTimeout \in Nat
          /\ unbound[r][c] \in Nat
      BY <2>2, Ages
    <2>5. unbound[r][c] <= MetaTTL + InspectTimeout
      <3>. HIDE DEF r, c, age
      <3> QED
        BY <2>3, <2>4
    <2> QED
      BY <2>2, <2>5
  <1>5. CASE Step(t, AfterVerdict(t, Nil))
    BY <1>3, <1>5, StepUndecided DEF NothingDecided, DecidedFresh
  <1>6. CASE r \in DOMAIN metaCache /\ Step(t, AfterVerdict(t, c))
    <2>. HIDE DEF r, c
    <2> QED
      BY <1>3, <1>4, <1>6
  <1>7. CASE Step(t, asked)
    <2>. HIDE DEF asked
    <2> QED
      BY <1>2, <1>7, StepUndecided DEF NothingDecided, DecidedFresh
  <1> QED
    BY <1>1, <1>5, <1>6, <1>7

\* An answer is at most InspectTimeout old when it arrives.
LEMMA InspectDoneFresh ==
    ASSUME IInv, Fresh, NEW t \in Thread, InspectDone(t)
    PROVE  DecidedFresh
  <1>. DEFINE r == InspectedRef(t)
              c == serving[t].answer
              left == serving[t].left
  <1>1. /\ serving[t].pc = "inspect" /\ c # Nil
        /\ Step(t, AfterVerdict(t, c)) /\ AfterVerdict(t, c).decided \in {c, Nil}
    BY AfterVerdictIs DEF InspectDone, At
  <1>2. SUFFICES ASSUME NEW u \in Thread,
                        serving'[u].decided # Nil, serving[u].decided = Nil
                 PROVE  unbound[InspectedRef(u)][serving'[u].decided]
                            <= MetaTTL + InspectTimeout
    BY DEF DecidedFresh
  <1>3. u = t /\ serving'[u].decided = c
    BY <1>1, <1>2, OthersStay
  <1>4. unbound[r][c] <= InspectTimeout - left
    BY <1>1, Inspecting DEF Fresh, AnswerFresh
  <1>5. /\ left \in 0..InspectTimeout /\ MetaTTL \in Nat /\ InspectTimeout \in Nat
        /\ unbound[r][c] \in Nat
    BY <1>1, Inspecting, Ages
  <1>6. unbound[r][c] <= MetaTTL + InspectTimeout
    <2>. HIDE DEF r, c, left
    <2> QED
      BY <1>4, <1>5
  <1> QED
    BY <1>3, <1>6

\* Every step.
LEMMA NextDecides == IInv /\ Fresh /\ [Next]_vars => DecidedFresh
  <1> SUFFICES ASSUME IInv, Fresh, [Next]_vars
               PROVE  DecidedFresh
    OBVIOUS
  <1>1. NothingDecided => DecidedFresh
    BY DEF NothingDecided, DecidedFresh
  <1>2. ASSUME NEW t \in Thread,
               \/ Receive(t) \/ Handle(t) \/ Confirmed(t) \/ DaemonInspects(t)
               \/ DaemonCreatesExec(t) \/ CreateUnread(t) \/ ForwardEnds(t)
        PROVE  DecidedFresh
    BY <1>1, <1>2, OnwardUndecided, LookUpMetaFresh, InspectDoneFresh DEF Handle
  <1>3. ASSUME NEW r \in Ref, NEW c \in Container \cup {Nil}, Rebind(r, c)
        PROVE  DecidedFresh
    BY <1>1, <1>3 DEF Rebind, NothingDecided
  <1>4. ASSUME NEW e \in ExecId, NEW c \in Container, ForeignExec(e, c)
        PROVE  DecidedFresh
    BY <1>1, <1>4 DEF ForeignExec, NothingDecided
  <1>5. CASE Restart
    BY <1>1, <1>5 DEF Restart, Idle, Serve, NothingDecided
  <1>6. CASE Tick
    BY <1>1, <1>6, TickServing DEF NothingDecided
  <1>7. CASE UNCHANGED vars
    BY <1>1, <1>7 DEF vars, NothingDecided
  <1> QED
    BY <1>2, <1>3, <1>4, <1>5, <1>6, <1>7 DEF Next

(***************************************************************************)
(* getContainerMeta and inspectContainer: a request granted on a           *)
(* container's metadata uses a reference that named that container no      *)
(* longer ago than the cache's TTL and the inspect's timeout together,     *)
(* whatever answers arrive late and whoever else fills the cache.          *)
(***************************************************************************)
THEOREM DecisionsAreFreshProperty == Spec => DecisionsAreFresh
  <1>. DEFINE A ==
          \A t \in Thread :
              LET c == serving'[t].decided
              IN  c # Nil /\ serving[t].decided = Nil =>
                      unbound[InspectedRef(t)][c] <= MetaTTL + InspectTimeout
  <1>1. DecidedFresh => [A]_vars
    BY DEF DecidedFresh
  <1>2. IInv /\ Fresh /\ [Next]_vars => [A]_vars
    BY <1>1, NextDecides
  <1> QED
    BY InitHolds, NextKeeps, InitTimes, NextTimes, <1>2, PTL DEF Spec, DecisionsAreFresh
=============================================================================
