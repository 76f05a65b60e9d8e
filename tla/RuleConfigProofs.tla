--------------------------- MODULE RuleConfigProofs ---------------------------
(***************************************************************************)
(* Proofs about RuleConfig, for any sources with any number of keys: the   *)
(* order in which fields are read does not matter, and the rules that come *)
(* out are what the engine is built upon.                                  *)
(***************************************************************************)
EXTENDS RuleConfig, TLAPS

-----------------------------------------------------------------------------
\* The inductive invariant

Slots(K) == {Slot(k) : k \in K}

\* Of the keys A that name the same field of the same rule, K has one.
Picked(K, A) ==
    /\ K \subseteq A /\ Slots(K) = Slots(A)
    /\ \A j, k \in K : Slot(j) = Slot(k) => j = k

\* The keys about rules that have been seen, and whether one was understood.
Seen == {k \in DOMAIN source.fields \ pending : About(source.from, k)}

Understood(k) == Meant(source.from, k, source.fields[k])

\* The field and label a key sets, and those K sets of rule n.
Place(k) == <<k.field, k.label>>

Places(K, n) == {Place(k) : k \in {j \in K : j.rule = n}}

\* The rules that the keys K name.
Named(K) == {k.rule : k \in K}

\* The builders hold what is said by the keys K.
Told(K) ==
    /\ DOMAIN builders = Named(K)
    /\ \A n \in DOMAIN builders : DOMAIN builders[n].set = Places(K, n)
    /\ \A k \in K : builders[k.rule].set[Place(k)] = source.fields[k]

\* A builder has two fields, a map and a mark.
IsBuilder(rb) ==
    /\ rb = [set |-> rb.set, unknown |-> rb.unknown]
    /\ rb.unknown \in BOOLEAN
    /\ rb.set = [s \in DOMAIN rb.set |-> rb.set[s]]

Form == \A n \in DOMAIN builders : IsBuilder(builders[n])

(***************************************************************************)
(* What has been read so far: a builder is marked if and only if there was *)
(* a key that is not understood, and if there was none the builders hold   *)
(* what some choice among the keys says.                                   *)
(***************************************************************************)
Marked   == \E n \in DOMAIN builders : builders[n].unknown = TRUE
ReadSoFar ==
    /\ Marked <=> \E k \in Seen : ~Understood(k)
    /\ ~Marked => \E K : Picked(K, Seen) /\ Told(K)

IInv ==
    /\ source = Nil => builders = [n \in {} |-> Nil] /\ outcome = Nil
    /\ source # Nil => source \in Source
    /\ pending \subseteq (IF source = Nil THEN {} ELSE DOMAIN source.fields)
    /\ outcome # Nil => pending = {}
    /\ Form
    /\ source # Nil /\ outcome = Nil =>
          /\ source.from = "env" => SettingsValid(source)
          /\ ReadSoFar
    /\ OrderDoesNotMatter /\ ConfigFitsEngine

-----------------------------------------------------------------------------
\* One field

\* The builder that a field of rule n is set in.
Current(n) == IF n \in DOMAIN builders THEN builders[n] ELSE NewBuilder

\* The builders with one of them changed.
LEMMA Extended ==
    ASSUME NEW n, NEW rb, builders' = Assigned(builders, n, rb)
    PROVE  /\ DOMAIN builders' = {n} \cup DOMAIN builders
           /\ builders'[n] = rb
           /\ \A m \in DOMAIN builders \ {n} : builders'[m] = builders[m]
  BY DEF Assigned

\* A builder's form.
LEMMA CurrentForm ==
    ASSUME Form, NEW n
    PROVE  IsBuilder(Current(n))
  <1>1. IsBuilder(NewBuilder)
    BY DEF IsBuilder, NewBuilder
  <1> QED
    BY <1>1 DEF Form, Current

\* A key and its translation name the same.
LEMMA Translated ==
    ASSUME NEW k, k = [rule |-> k.rule, field |-> k.field, label |-> k.label,
                       spelled |-> k.spelled]
    PROVE  /\ ContainerLabelRuleField(k).field = k.field
           /\ ContainerLabelRuleField(k).label = k.label
           /\ k.field \in Field => ContainerLabelRuleField(k).spelled = "env"
  <1>1. [k EXCEPT !.spelled = "env"] =
            [rule |-> k.rule, field |-> k.field, label |-> k.label, spelled |-> "env"]
    OBVIOUS
  <1> QED
    BY <1>1 DEF ContainerLabelRuleField

\* What set does with a key.
SetTo(rb, k, v) == [set |-> Assigned(rb.set, Place(k), v), unknown |-> rb.unknown]
Mark(rb)        == [set |-> rb.set, unknown |-> TRUE]

LEMMA SetIs ==
    ASSUME NEW rb, rb = [set |-> rb.set, unknown |-> rb.unknown], NEW k, NEW v
    PROVE  Set(rb, k, v) =
              IF /\ k.field \in Field
                 /\ k.spelled = "label" => k.field \notin Hyphenated
                 /\ k.field = "MATCH" => v = "*"
              THEN SetTo(rb, k, v) ELSE Mark(rb)
  <1>. DEFINE x == Assigned(rb.set, Place(k), v)
  <1>1. [rb EXCEPT !.set = x] = [set |-> x, unknown |-> rb.unknown]
    <2>. HIDE DEF x
    <2> QED
      OBVIOUS
  <1>2. [rb EXCEPT !.unknown = TRUE] = Mark(rb)
    <2>1. \A y : [rb EXCEPT !.unknown = y] = [set |-> rb.set, unknown |-> y]
      OBVIOUS
    <2>2. [rb EXCEPT !.unknown = TRUE] = [set |-> rb.set, unknown |-> TRUE]
      BY <2>1, Zenon
    <2> QED
      BY <2>2, Zenon DEF Mark
  <1>3. Assigned(rb.set, <<k.field, k.label>>, v) = x
    BY DEF Place
  <1>. HIDE DEF x
  <1>4. [rb EXCEPT !.set = Assigned(rb.set, <<k.field, k.label>>, v)] =
            [set |-> x, unknown |-> rb.unknown]
    BY <1>1, <1>3
  <1>5. SetTo(rb, k, v) = [set |-> x, unknown |-> rb.unknown]
    BY DEF SetTo, x
  <1> QED
    BY <1>2, <1>4, <1>5 DEF Set

(***************************************************************************)
(* A field is read: it is not about rules, or a rule is marked for it, or  *)
(* it is set.                                                              *)
(***************************************************************************)
LEMMA FieldRead ==
    ASSUME IInv, NEW k \in pending, source # Nil,
           IF source.from = "env" THEN AddEnvRuleField(k, source.fields[k])
           ELSE AddContainerLabelRuleField(k, source.fields[k])
    PROVE  \/ ~About(source.from, k) /\ UNCHANGED builders
           \/ /\ About(source.from, k) /\ ~Understood(k)
              /\ \E n : builders' = Assigned(builders, n, Mark(Current(n)))
           \/ /\ About(source.from, k) /\ Understood(k)
              /\ builders' = Assigned(builders, k.rule,
                                  SetTo(Current(k.rule), k, source.fields[k]))
  <1>. DEFINE v == source.fields[k]
              t == ContainerLabelRuleField(k)
  <1>1. k = [rule |-> k.rule, field |-> k.field, label |-> k.label,
             spelled |-> k.spelled]
    BY ConfigAssumption DEF IInv
  <1>2. \A n : Current(n) = [set |-> Current(n).set, unknown |-> Current(n).unknown]
    BY CurrentForm DEF IInv, IsBuilder
  <1>3. ASSUME NEW n, NEW x, SetRuleBuilderField(n, x, v)
        PROVE  builders' = Assigned(builders, n, Set(Current(n), x, v))
    BY <1>3 DEF SetRuleBuilderField, Current
  <1>4. CASE source.from = "env"
    <2>1. CASE k.field \in {"other", "none"}
      BY <1>4, <2>1 DEF AddEnvRuleField, About
    <2>2. CASE k.field \notin {"other", "none"}
      <3>1. builders' = Assigned(builders, k.rule, Set(Current(k.rule), k, v))
        BY <1>3, <1>4, <2>2 DEF AddEnvRuleField
      <3>2. Set(Current(k.rule), k, v) =
                IF Understood(k) THEN SetTo(Current(k.rule), k, v)
                ELSE Mark(Current(k.rule))
        BY <1>2, <1>4, SetIs DEF Understood, Meant
      <3>3. About(source.from, k)
        BY <2>2 DEF About
      <3> QED
        BY <3>1, <3>2, <3>3
    <2> QED
      BY <2>1, <2>2
  <1>5. CASE source.from # "env"
    <2>1. CASE k.field = "other"
      BY <1>5, <2>1 DEF AddContainerLabelRuleField, About
    <2>2. CASE k.field = "none"
      <3>1. builders' = Assigned(builders, "invalidlabel", Set(Current("invalidlabel"), k, v))
        BY <1>3, <1>5, <2>2 DEF AddContainerLabelRuleField
      <3>2. k.field \notin Field
        BY <2>2 DEF Field, Hyphenated
      <3>3. Set(Current("invalidlabel"), k, v) = Mark(Current("invalidlabel"))
        BY <1>2, <3>2, SetIs
      <3> QED
        BY <1>5, <2>2, <3>1, <3>2, <3>3 DEF About, Understood, Meant
    <2>3. CASE k.field \notin {"other", "none"}
      <3>1. builders' = Assigned(builders, k.rule, Set(Current(k.rule), t, v))
        BY <1>3, <1>5, <2>3 DEF AddContainerLabelRuleField
      <3>2. /\ t.field = k.field /\ t.label = k.label
            /\ k.field \in Field => t.spelled = "env"
        BY <1>1, Translated
      <3>3. SetTo(Current(k.rule), t, v) = SetTo(Current(k.rule), k, v)
        BY <3>2 DEF SetTo, Place
      <3>. HIDE DEF t, v
      <3>4. Set(Current(k.rule), t, v) =
                IF k.field \in Field /\ (k.field = "MATCH" => v = "*")
                THEN SetTo(Current(k.rule), k, v) ELSE Mark(Current(k.rule))
        BY <1>2, <3>2, <3>3, SetIs
      <3>5. Understood(k) <=> k.field \in Field /\ (k.field = "MATCH" => v = "*")
        BY <1>5 DEF Understood, Meant, v
      <3>6. About(source.from, k)
        BY <1>5, <2>3 DEF About
      <3> QED
        BY <3>1, <3>4, <3>5, <3>6 DEF v
    <2> QED
      BY <2>1, <2>2, <2>3
  <1> QED
    BY <1>4, <1>5

-----------------------------------------------------------------------------
\* The choice among the keys

\* A key that is set again is chosen instead of the one it overwrites.
Rechosen(K, k) == {j \in K : Slot(j) # Slot(k)} \cup {k}

LEMMA PickedGrows ==
    ASSUME NEW A, NEW K, Picked(K, A), NEW k
    PROVE  Picked(Rechosen(K, k), A \cup {k})
  <1>1. Rechosen(K, k) \subseteq A \cup {k}
    BY DEF Picked, Rechosen
  <1>2. ASSUME NEW i \in Rechosen(K, k), NEW j \in Rechosen(K, k), Slot(i) = Slot(j)
        PROVE  i = j
    BY <1>2 DEF Picked, Rechosen
  <1>3. Slots(Rechosen(K, k)) = Slots(K) \cup {Slot(k)}
    BY DEF Slots, Rechosen
  <1>4. Slots(A \cup {k}) = Slots(A) \cup {Slot(k)}
    BY DEF Slots
  <1> QED
    BY <1>1, <1>2, <1>3, <1>4 DEF Picked

\* The slot of a key is its rule and its place in that rule.
LEMMA SlotIs ==
    ASSUME NEW j, NEW k
    PROVE  Slot(j) = Slot(k) <=> j.rule = k.rule /\ Place(j) = Place(k)
  BY DEF Slot, Place

\* The places of the rule of k, and of the others.
LEMMA PlacesGrow ==
    ASSUME NEW K, NEW k
    PROVE  /\ Places(Rechosen(K, k), k.rule) = Places(K, k.rule) \cup {Place(k)}
           /\ \A n : n # k.rule => Places(Rechosen(K, k), n) = Places(K, n)
           /\ Named(Rechosen(K, k)) = Named(K) \cup {k.rule}
  <1>1. ASSUME NEW p
        PROVE  p \in Places(Rechosen(K, k), k.rule) <=> p \in Places(K, k.rule) \cup {Place(k)}
    BY SlotIs DEF Places, Rechosen
  <1>2. ASSUME NEW n, n # k.rule, NEW p
        PROVE  p \in Places(Rechosen(K, k), n) <=> p \in Places(K, n)
    BY <1>2, SlotIs DEF Places, Rechosen
  <1>3. ASSUME NEW n
        PROVE  n \in Named(Rechosen(K, k)) <=> n \in Named(K) \cup {k.rule}
    BY SlotIs DEF Rechosen, Named
  <1>4. Places(Rechosen(K, k), k.rule) = Places(K, k.rule) \cup {Place(k)}
    BY <1>1
  <1>5. \A n : n # k.rule => Places(Rechosen(K, k), n) = Places(K, n)
    BY <1>2
  <1>6. Named(Rechosen(K, k)) = Named(K) \cup {k.rule}
    BY <1>3
  <1> QED
    BY <1>4, <1>5, <1>6

\* A key that is understood is told.
LEMMA ToldGrows ==
    ASSUME NEW K, Told(K), NEW k, UNCHANGED source,
           builders' = Assigned(builders, k.rule,
                                SetTo(Current(k.rule), k, source.fields[k]))
    PROVE  Told(Rechosen(K, k))'
  <1>. DEFINE n  == k.rule
              rb == SetTo(Current(n), k, source.fields[k])
              L  == Rechosen(K, k)
  <1>1. /\ DOMAIN builders' = {n} \cup DOMAIN builders /\ builders'[n] = rb
        /\ \A m \in DOMAIN builders \ {n} : builders'[m] = builders[m]
    BY Extended
  <1>2. /\ DOMAIN rb.set = DOMAIN Current(n).set \cup {Place(k)}
        /\ rb.set[Place(k)] = source.fields[k]
        /\ \A s \in DOMAIN Current(n).set \ {Place(k)} : rb.set[s] = Current(n).set[s]
    BY DEF SetTo, Assigned
  <1>3. DOMAIN builders' = Named(L)
    BY <1>1, PlacesGrow DEF Told
  <1>4. DOMAIN Current(n).set = Places(K, n)
    <2>1. CASE n \in DOMAIN builders
      BY <2>1 DEF Told, Current
    <2>2. CASE n \notin DOMAIN builders
      <3>1. Places(K, n) = {}
        BY <2>2 DEF Told, Places, Named
      <3> QED
        BY <2>2, <3>1 DEF Current, NewBuilder
    <2> QED
      BY <2>1, <2>2
  <1>. HIDE DEF rb
  <1>5. ASSUME NEW m \in DOMAIN builders'
        PROVE  DOMAIN builders'[m].set = Places(L, m)
    <2>1. CASE m = n
      BY <1>1, <1>2, <1>4, <2>1, PlacesGrow
    <2>2. CASE m # n
      BY <1>1, <2>2, PlacesGrow DEF Told
    <2> QED
      BY <2>1, <2>2
  <1>6. ASSUME NEW j \in L
        PROVE  builders'[j.rule].set[Place(j)] = source.fields[j]
    <2>1. CASE j = k
      BY <1>1, <1>2, <2>1
    <2>2. CASE j # k
      <3>1. /\ j \in K /\ j.rule \in DOMAIN builders
            /\ builders[j.rule].set[Place(j)] = source.fields[j]
            /\ Slot(j) # Slot(k)
        BY <2>2 DEF Told, Rechosen, Named
      <3>2. CASE j.rule = n
        <4>1. Place(j) \in DOMAIN Current(n).set \ {Place(k)}
          BY <1>4, <3>1, <3>2, SlotIs DEF Places
        <4>2. Current(n).set[Place(j)] = source.fields[j]
          BY <3>1, <3>2 DEF Current
        <4> QED
          BY <1>1, <1>2, <3>2, <4>1, <4>2
      <3>3. CASE j.rule # n
        BY <1>1, <3>1, <3>3
      <3> QED
        BY <3>2, <3>3
    <2> QED
      BY <2>1, <2>2
  <1> QED
    BY <1>3, <1>5, <1>6 DEF Told

-----------------------------------------------------------------------------
\* The steps

\* The keys seen, when one more is.
LEMMA SeenGrows ==
    ASSUME IInv, source # Nil, NEW k \in pending, pending' = pending \ {k},
           UNCHANGED source
    PROVE  Seen' = IF About(source.from, k) THEN Seen \cup {k} ELSE Seen
  <1>1. k \in DOMAIN source.fields
    BY DEF IInv
  <1>2. ASSUME NEW j
        PROVE  j \in Seen' <=> j \in (IF About(source.from, k) THEN Seen \cup {k} ELSE Seen)
    BY <1>1, About(source.from, k) \/ ~About(source.from, k) DEF Seen
  <1> QED
    BY <1>2

\* A builder that is changed keeps its form.
LEMMA FormKept ==
    ASSUME Form, NEW n, NEW rb, builders' = Assigned(builders, n, rb),
           \/ rb = Mark(Current(n))
           \/ \E k, v : rb = SetTo(Current(n), k, v)
    PROVE  Form'
  <1>1. IsBuilder(Current(n))
    BY CurrentForm
  <1>2. IsBuilder(rb)
    <2>1. CASE rb = Mark(Current(n))
      BY <1>1, <2>1 DEF Mark, IsBuilder
    <2>2. ASSUME NEW k, NEW v, rb = SetTo(Current(n), k, v)
          PROVE  IsBuilder(rb)
      <3>. DEFINE set == Assigned(Current(n).set, Place(k), v)
                  unknown == Current(n).unknown
      <3>1. set = [s \in DOMAIN set |-> set[s]]
        BY DEF Assigned
      <3>2. unknown \in BOOLEAN
        BY <1>1 DEF IsBuilder
      <3>. HIDE DEF set, unknown
      <3>3. rb = [set |-> set, unknown |-> unknown]
        BY <2>2 DEF SetTo, set, unknown
      <3>4. rb.set = set /\ rb.unknown = unknown
        BY <3>3
      <3> QED
        BY <3>1, <3>2, <3>3, <3>4 DEF IsBuilder
    <2> QED
      BY <2>1, <2>2
  <1>3. ASSUME NEW m \in DOMAIN builders'
        PROVE  IsBuilder(builders'[m])
    <2>1. CASE m = n
      BY <1>2, <2>1, Extended
    <2>2. CASE m # n
      <3>1. m \in DOMAIN builders /\ builders'[m] = builders[m]
        BY <2>2, Extended
      <3> QED
        BY <3>1 DEF Form
    <2> QED
      BY <2>1, <2>2
  <1> QED
    BY <1>3 DEF Form

\* A field is read.
LEMMA AddFieldKeeps ==
    ASSUME IInv, AddField
    PROVE  IInv'
  <1>1. PICK k \in pending :
            /\ pending' = pending \ {k}
            /\ IF source.from = "env" THEN AddEnvRuleField(k, source.fields[k])
               ELSE AddContainerLabelRuleField(k, source.fields[k])
    BY DEF AddField
  <1>2. source # Nil /\ outcome = Nil /\ UNCHANGED <<source, outcome>>
    BY <1>1 DEF IInv, AddField
  <1>3. \/ ~About(source.from, k) /\ UNCHANGED builders
        \/ /\ About(source.from, k) /\ ~Understood(k)
           /\ \E n : builders' = Assigned(builders, n, Mark(Current(n)))
        \/ /\ About(source.from, k) /\ Understood(k)
           /\ builders' = Assigned(builders, k.rule,
                                   SetTo(Current(k.rule), k, source.fields[k]))
    BY <1>1, <1>2, FieldRead
  <1>4. Seen' = IF About(source.from, k) THEN Seen \cup {k} ELSE Seen
    BY <1>1, <1>2, SeenGrows
  <1>5. \A j : Understood(j)' <=> Understood(j)
    BY <1>2 DEF Understood
  <1>6. ReadSoFar
    BY <1>2 DEF IInv
  <1>7. Form' /\ ReadSoFar'
    <2>1. CASE ~About(source.from, k) /\ UNCHANGED builders
      <3>1. Form' /\ (Marked' <=> Marked) /\ Seen' = Seen
        BY <1>4, <2>1 DEF IInv, Form, Marked
      <3>2. \A K : Told(K)' <=> Told(K)
        BY <1>2, <2>1 DEF Told
      <3> QED
        BY <1>5, <1>6, <3>1, <3>2 DEF ReadSoFar
    <2>2. CASE /\ About(source.from, k) /\ ~Understood(k)
               /\ \E n : builders' = Assigned(builders, n, Mark(Current(n)))
      <3>1. PICK n : builders' = Assigned(builders, n, Mark(Current(n)))
        BY <2>2
      <3>2. n \in DOMAIN builders' /\ builders'[n] = Mark(Current(n))
        BY <3>1, Extended
      <3>3. Marked'
        BY <3>2 DEF Marked, Mark
      <3>4. k \in Seen' /\ ~Understood(k)'
        BY <1>4, <1>5, <2>2
      <3>5. Form'
        BY <3>1, FormKept DEF IInv
      <3> QED
        BY <3>3, <3>4, <3>5 DEF ReadSoFar
    <2>3. CASE /\ About(source.from, k) /\ Understood(k)
               /\ builders' = Assigned(builders, k.rule,
                                       SetTo(Current(k.rule), k, source.fields[k]))
      <3>. DEFINE n  == k.rule
                  rb == SetTo(Current(n), k, source.fields[k])
      <3>1. /\ DOMAIN builders' = {n} \cup DOMAIN builders /\ builders'[n] = rb
            /\ \A m \in DOMAIN builders \ {n} : builders'[m] = builders[m]
        BY <2>3, Extended
      <3>2. rb.unknown = IF n \in DOMAIN builders THEN builders[n].unknown ELSE FALSE
        BY DEF SetTo, Current, NewBuilder
      <3>3. Form'
        BY <2>3, FormKept DEF IInv
      <3>. HIDE DEF rb
      <3>4. Marked' <=> Marked
        BY <3>1, <3>2 DEF Marked
      <3>5. (\E j \in Seen' : ~Understood(j)') <=> (\E j \in Seen : ~Understood(j))
        BY <1>4, <1>5, <2>3
      <3>6. ASSUME ~Marked'
            PROVE  \E K : Picked(K, Seen') /\ Told(K)'
        <4>1. PICK K : Picked(K, Seen) /\ Told(K)
          BY <1>6, <3>4, <3>6 DEF ReadSoFar
        <4>2. Picked(Rechosen(K, k), Seen')
          BY <1>4, <2>3, <4>1, PickedGrows
        <4>3. Told(Rechosen(K, k))'
          BY <1>2, <2>3, <4>1, ToldGrows
        <4> QED
          BY <4>2, <4>3
      <3> QED
        BY <1>6, <3>3, <3>4, <3>5, <3>6 DEF ReadSoFar
    <2> QED
      BY <1>3, <2>1, <2>2, <2>3
  <1> QED
    BY <1>1, <1>2, <1>7 DEF IInv, OrderDoesNotMatter, ConfigFitsEngine

-----------------------------------------------------------------------------
\* What is built

\* What the keys K say of rule n, and the rules they are, as in Readings.
Of(K, n) == {k \in K : k.rule = n}

Say(F, K, n) ==
    [s \in {<<k.field, k.label>> : k \in Of(K, n)} |->
        F[CHOOSE k \in Of(K, n) : <<k.field, k.label>> = s]]

Said(F, K) == {RuleFrom(n, Say(F, K, n)) : n \in {k.rule : k \in K}}

Result(rules) == IF Failed \in rules THEN Failed ELSE rules \ {Nil}

\* A choice among keys that are all understood is a reading.
LEMMA ReadingsAre ==
    ASSUME NEW from, NEW F, NEW A, A = {k \in DOMAIN F : About(from, k)}, NEW K
    PROVE  /\ (\E k \in A : ~Meant(from, k, F[k])) => Readings(from, F) = {Failed}
           /\ (\A k \in A : Meant(from, k, F[k])) /\ Picked(K, A) =>
                  Result(Said(F, K)) \in Readings(from, F)
  <1>1. ASSUME \E k \in A : ~Meant(from, k, F[k])
        PROVE  Readings(from, F) = {Failed}
    BY <1>1 DEF Readings
  <1>2. ASSUME \A k \in A : Meant(from, k, F[k]), Picked(K, A)
        PROVE  Result(Said(F, K)) \in Readings(from, F)
    <2>. DEFINE slots == {Slot(k) : k \in A}
                picks == {L \in SUBSET A : /\ {Slot(k) : k \in L} = slots
                                          /\ \A j, k \in L : Slot(j) = Slot(k) => j = k}
    <2>1. Readings(from, F) = {Result(Said(F, L)) : L \in picks}
      BY <1>2, Zenon DEF Readings, Said, Say, Of, Result
    <2>2. K \in picks
      BY <1>2 DEF Picked, Slots
    <2> QED
      BY <2>1, <2>2
  <1> QED
    BY <1>1, <1>2

\* What has been told is what is said.
LEMMA ToldIsSaid ==
    ASSUME Form, NEW K, NEW A, Picked(K, A), Told(K), NEW n \in DOMAIN builders
    PROVE  builders[n].set = Say(source.fields, K, n)
  <1>. DEFINE set == builders[n].set
              F   == source.fields
  <1>1. DOMAIN set = {<<k.field, k.label>> : k \in Of(K, n)}
    BY DEF Told, Places, Place, Of
  <1>2. ASSUME NEW s \in DOMAIN set
        PROVE  set[s] = F[CHOOSE k \in Of(K, n) : <<k.field, k.label>> = s]
    <2>1. PICK k \in Of(K, n) : <<k.field, k.label>> = s
      BY <1>1
    <2>2. \A j \in Of(K, n) : <<j.field, j.label>> = s => j = k
      BY <2>1 DEF Of, Picked, Slot
    <2>3. (CHOOSE j \in Of(K, n) : <<j.field, j.label>> = s) = k
      BY <2>1, <2>2
    <2>4. set[s] = F[k]
      BY <2>1 DEF Told, Of, Place
    <2> QED
      BY <2>3, <2>4
  <1>3. set = [s \in DOMAIN set |-> set[s]]
    BY DEF Form, IsBuilder
  <1>. HIDE DEF set
  <1>4. set = [s \in DOMAIN set |-> F[CHOOSE k \in Of(K, n) : <<k.field, k.label>> = s]]
    BY <1>2, <1>3
  <1> QED
    BY <1>1, <1>4 DEF Say, set

Built == {Build(n, builders[n]) : n \in DOMAIN builders}

LEMMA BuildRulesIs == BuildRules = Result(Built)
  BY DEF BuildRules, Result, Built

(***************************************************************************)
(* When all keys have been seen, what is built is a reading.               *)
(***************************************************************************)
LEMMA BuiltIsReading ==
    ASSUME IInv, source # Nil, outcome = Nil, pending = {}
    PROVE  BuildRules \in Readings(source.from, source.fields)
  <1>. DEFINE F == source.fields
  <1>1. Seen = {k \in DOMAIN F : About(source.from, k)} /\ ReadSoFar /\ Form
    BY DEF IInv, Seen
  <1>2. CASE Marked
    <2>1. PICK n \in DOMAIN builders : builders[n].unknown = TRUE
      BY <1>2 DEF Marked
    <2>2. Build(n, builders[n]) = Failed
      BY <2>1 DEF Build
    <2>3. BuildRules = Failed
      BY <2>2, BuildRulesIs DEF Built, Result
    <2>4. Readings(source.from, F) = {Failed}
      BY <1>1, <1>2, ReadingsAre DEF ReadSoFar, Understood
    <2> QED
      BY <2>3, <2>4
  <1>3. CASE ~Marked
    <2>1. PICK K : Picked(K, Seen) /\ Told(K)
      BY <1>1, <1>3 DEF ReadSoFar
    <2>2. ASSUME NEW n \in DOMAIN builders
          PROVE  Build(n, builders[n]) = RuleFrom(n, Say(F, K, n))
      <3>1. builders[n].unknown = FALSE
        BY <1>1, <1>3 DEF Marked, Form, IsBuilder
      <3> QED
        BY <1>1, <2>1, <3>1, ToldIsSaid DEF Build
    <2>3. DOMAIN builders = {k.rule : k \in K}
      BY <2>1 DEF Told, Named
    <2>4. Built = Said(F, K)
      BY <2>2, <2>3 DEF Built, Said
    <2>5. Result(Said(F, K)) \in Readings(source.from, F)
      BY <1>1, <1>3, <2>1, ReadingsAre DEF ReadSoFar, Understood
    <2> QED
      BY <2>4, <2>5, BuildRulesIs
  <1> QED
    BY <1>2, <1>3

-----------------------------------------------------------------------------
\* What a rule is like

\* A list of texts has clean items.
LEMMA ListClean ==
    ASSUME NEW list, Range(list) \subseteq DOMAIN Clean
    PROVE  ParseCSVSet(list) \subseteq Range(Clean) \ {""}
  BY DEF ParseCSVSet, Range

\* What say may hold: lists of texts where lists are read.
Texts(say) == \A s \in DOMAIN say : s[1] \in Listed => Range(say[s]) \subseteq DOMAIN Clean

\* A rule is as the engine expects it.
FitsEngine(r, n) ==
    /\ r.name = n /\ r.decision \in Decisions /\ r.targets # {}
    /\ r.actions \cup r.targets \subseteq (Range(Clean) \cup {"container"}) \ {""}

LEMMA RuleFits ==
    ASSUME NEW n, NEW say, Texts(say), RuleFrom(n, say) \notin {Nil, Failed}
    PROVE  FitsEngine(RuleFrom(n, say), n)
  <1>. DEFINE S(f) == IF <<f, Nil>> \in DOMAIN say THEN say[<<f, Nil>>]
                      ELSE IF f \in Listed THEN <<>> ELSE ""
              decision == IF Clean[S("DECISION")] = "" THEN "allow"
                          ELSE Clean[S("DECISION")]
              actions  == ParseCSVSet(S("ACTION"))
              listed   == ParseCSVSet(S("TARGET"))
              targets  == IF listed = {} THEN {"container"} ELSE listed
              r        == RuleFrom(n, say)
  <1>1. ASSUME NEW f \in {"ACTION", "TARGET"}
        PROVE  ParseCSVSet(S(f)) \subseteq Range(Clean) \ {""}
    <2>1. f \in Listed
      BY DEF Listed
    <2>2. Range(<<>>) = {}
      BY DEF Range
    <2>3. CASE <<f, Nil>> \in DOMAIN say
      <3>1. Range(say[<<f, Nil>>]) \subseteq DOMAIN Clean
        BY <2>1, <2>3 DEF Texts
      <3> QED
        BY <2>3, <3>1, ListClean
    <2>4. CASE <<f, Nil>> \notin DOMAIN say
      BY <2>1, <2>2, <2>4, ListClean
    <2> QED
      BY <2>3, <2>4
  <1>2. actions \subseteq Range(Clean) \ {""} /\ listed \subseteq Range(Clean) \ {""}
    BY <1>1
  <1>3. /\ r.name = n /\ r.decision = decision /\ decision \in Decisions
        /\ r.actions = actions /\ r.targets = targets
    BY DEF RuleFrom
  <1>. HIDE DEF S, decision, actions, listed, r
  <1> QED
    BY <1>2, <1>3 DEF FitsEngine, r

\* The rules that are built are such rules, one to a name.
LEMMA BuiltFits ==
    ASSUME IInv, source # Nil, outcome = Nil, NEW r \in BuildRules, BuildRules # Failed
    PROVE  \E n \in DOMAIN builders : r = RuleFrom(n, builders[n].set) /\ FitsEngine(r, n)
  <1>1. BuildRules = Built \ {Nil} /\ Failed \notin Built
    BY BuildRulesIs DEF Result
  <1>2. PICK n \in DOMAIN builders : r = Build(n, builders[n])
    BY <1>1 DEF Built
  <1>3. r # Nil /\ r # Failed
    BY <1>1
  <1>4. ~Marked
    <2>1. SUFFICES ASSUME NEW m \in DOMAIN builders, builders[m].unknown = TRUE
                   PROVE  FALSE
      BY DEF Marked
    <2>2. Build(m, builders[m]) = Failed
      BY <2>1 DEF Build
    <2> QED
      BY <1>1, <2>2 DEF Built
  <1>5. r = RuleFrom(n, builders[n].set)
    BY <1>2, <1>3 DEF Build
  <1>6. PICK K : Picked(K, Seen) /\ Told(K)
    BY <1>4 DEF IInv, ReadSoFar
  <1>7. Texts(builders[n].set)
    <2>1. ASSUME NEW s \in DOMAIN builders[n].set, s[1] \in Listed
          PROVE  Range(builders[n].set[s]) \subseteq DOMAIN Clean
      <3>1. PICK k \in K : k.rule = n /\ s = Place(k)
        BY <1>6 DEF Told, Places
      <3>2. builders[n].set[s] = source.fields[k]
        BY <1>6, <3>1 DEF Told
      <3>3. k \in DOMAIN source.fields /\ k.field \in Listed /\ source \in Source
        BY <1>6, <2>1, <3>1 DEF Picked, Seen, Place, IInv
      <3> QED
        BY <3>2, <3>3, ConfigAssumption
    <2> QED
      BY <2>1 DEF Texts
  <1> QED
    BY <1>3, <1>5, <1>7, RuleFits

-----------------------------------------------------------------------------
\* The other steps

(***************************************************************************)
(* The error result is no configuration.                                   *)
(***************************************************************************)
FailedIsNoConfig ==
    \A R, D, T : /\ Failed # [rules |-> R]
                 /\ Failed # [rules |-> R, default |-> D, timeout |-> T]

\* Reading begins; settings that are not valid end it at once.
LEMMA BeginKeeps ==
    ASSUME IInv, Begin
    PROVE  IInv'
  <1>1. PICK s \in Source :
            /\ source' = s
            /\ IF s.from = "env" /\ ~SettingsValid(s)
               THEN outcome' = Failed /\ UNCHANGED pending
               ELSE pending' = DOMAIN s.fields /\ UNCHANGED outcome
    BY DEF Begin
  <1>2. /\ source = Nil /\ outcome = Nil /\ pending = {} /\ Form
        /\ builders' = builders /\ builders = [n \in {} |-> Nil]
    BY DEF IInv, Begin
  <1>3. source' # Nil /\ Failed # Nil
    BY <1>1, ConfigAssumption
  <1>4. Form'
    BY <1>2 DEF Form
  <1>5. DOMAIN builders' = {}
    BY <1>2
  <1>6. CASE s.from = "env" /\ ~SettingsValid(s)
    BY <1>1, <1>2, <1>3, <1>4, <1>6 DEF IInv, OrderDoesNotMatter, ConfigFitsEngine
  <1>7. CASE ~(s.from = "env" /\ ~SettingsValid(s))
    <2>1. pending' = DOMAIN source'.fields /\ outcome' = Nil
      BY <1>1, <1>2, <1>7
    <2>2. Seen' = {}
      BY <2>1 DEF Seen
    <2>3. Picked({}, {}) /\ Told({})'
      BY <1>5 DEF Picked, Slots, Told, Named
    <2>4. ReadSoFar'
      BY <1>5, <2>2, <2>3 DEF ReadSoFar, Marked
    <2> QED
      BY <1>1, <1>3, <1>4, <1>7, <2>1, <2>4
      DEF IInv, OrderDoesNotMatter, ConfigFitsEngine
  <1> QED
    BY <1>6, <1>7

\* The result is made.
LEMMA FinishKeeps ==
    ASSUME FailedIsNoConfig, IInv, Finish
    PROVE  IInv'
  <1>1. /\ source # Nil /\ outcome = Nil /\ pending = {}
        /\ UNCHANGED <<source, pending, builders>>
        /\ source.from = "env" => SettingsValid(source)
    BY DEF IInv, Finish
  <1>2. BuildRules \in Readings(source.from, source.fields)
    BY <1>1, BuiltIsReading
  <1>3. ASSUME BuildRules # Failed
        PROVE  /\ outcome' # Failed /\ outcome'.rules = BuildRules
               /\ source.from = "env" =>
                     /\ outcome'.default = DefaultOf(source)
                     /\ outcome'.timeout = TimeoutOf(source)
    <2>. DEFINE R == BuildRules
    <2>1. outcome' = IF source.from = "labels" THEN [rules |-> R]
                     ELSE [rules |-> R, default |-> DefaultOf(source),
                           timeout |-> TimeoutOf(source)]
      BY <1>3 DEF Finish
    <2>. HIDE DEF R
    <2>2. outcome' # Failed
      BY <2>1 DEF FailedIsNoConfig
    <2>3. outcome'.rules = R
      BY <2>1
    <2>4. source.from = "env" => /\ outcome'.default = DefaultOf(source)
                                 /\ outcome'.timeout = TimeoutOf(source)
      BY <2>1
    <2> QED
      BY <2>2, <2>3, <2>4 DEF R
  <1>4. BuildRules = Failed => outcome' = Failed
    BY DEF Finish
  <1>5. OrderDoesNotMatter'
    BY <1>1, <1>2, <1>3, <1>4 DEF OrderDoesNotMatter
  <1>6. ConfigFitsEngine'
    <2>1. SUFFICES ASSUME outcome' \notin {Nil, Failed}
                   PROVE  /\ \A r \in outcome'.rules :
                              /\ r.decision \in Decisions
                              /\ r.targets # {}
                              /\ r.actions \cup r.targets \subseteq
                                      (Range(Clean) \cup {"container"}) \ {""}
                              /\ \A n \in outcome'.rules : n.name = r.name => n = r
                          /\ source.from = "env" =>
                              outcome'.default \in Decisions /\ outcome'.timeout > 0
      BY <1>1 DEF ConfigFitsEngine
    <2>2. BuildRules # Failed /\ outcome'.rules = BuildRules
      BY <1>3, <1>4, <2>1
    <2>3. \A r \in BuildRules : \E n \in DOMAIN builders :
              r = RuleFrom(n, builders[n].set) /\ FitsEngine(r, n)
      BY <1>1, <2>2, BuiltFits
    <2>4. \A r, q \in BuildRules : r.name = q.name => r = q
      BY <2>3 DEF FitsEngine
    <2>5. source.from = "env" => outcome'.default \in Decisions /\ outcome'.timeout > 0
      BY <1>1, <1>3, <2>2 DEF SettingsValid
    <2> QED
      BY <2>2, <2>3, <2>4, <2>5 DEF FitsEngine
  <1>7. Form' /\ (ReadSoFar' <=> ReadSoFar)
    BY <1>1 DEF IInv, Form, ReadSoFar, Marked, Seen, Understood, Told
  <1> QED
    BY <1>1, <1>5, <1>6, <1>7 DEF IInv

\* The result is taken, and nothing kept.
LEMMA TakeConfigKeeps ==
    ASSUME IInv, TakeConfig
    PROVE  IInv'
  <1>1. /\ source' = Nil /\ outcome' = Nil /\ pending' = pending /\ pending = {}
        /\ builders' = [n \in {} |-> Nil]
    BY DEF IInv, TakeConfig
  <1>2. Form'
    BY <1>1 DEF Form
  <1> QED
    BY <1>1, <1>2 DEF IInv, OrderDoesNotMatter, ConfigFitsEngine

-----------------------------------------------------------------------------
\* The theorems

\* Nothing has been read.
LEMMA InitHolds == ConfigInit => IInv
  BY DEF ConfigInit, IInv, Form, OrderDoesNotMatter, ConfigFitsEngine

\* Every step keeps the invariant.
LEMMA NextKeeps ==
    ASSUME FailedIsNoConfig
    PROVE  IInv /\ [ConfigNext]_configVars => IInv'
  <1>1. ASSUME IInv, UNCHANGED configVars
        PROVE  IInv'
    <2>1. /\ source' = source /\ pending' = pending
          /\ builders' = builders /\ outcome' = outcome
      BY <1>1 DEF configVars
    <2>2. (Form' <=> Form) /\ (Marked' <=> Marked) /\ Seen' = Seen
      BY <2>1 DEF Form, Marked, Seen
    <2>3. \A K : Told(K)' <=> Told(K)
      BY <2>1 DEF Told
    <2>4. \A k : Understood(k)' <=> Understood(k)
      BY <2>1 DEF Understood
    <2>5. ReadSoFar' <=> ReadSoFar
      BY <2>2, <2>3, <2>4 DEF ReadSoFar
    <2>6. (OrderDoesNotMatter' <=> OrderDoesNotMatter)
          /\ (ConfigFitsEngine' <=> ConfigFitsEngine)
      BY <2>1 DEF OrderDoesNotMatter, ConfigFitsEngine
    <2> QED
      BY <1>1, <2>1, <2>2, <2>5, <2>6 DEF IInv
  <1> QED
    BY <1>1, BeginKeeps, AddFieldKeeps, FinishKeeps, TakeConfigKeeps DEF ConfigNext

(***************************************************************************)
(* Parse and ParseContainerLabelRules range over the environment and a     *)
(* map: whatever the order, the result is a reading of the keys, the same  *)
(* one unless several name the same field of a rule.                       *)
(***************************************************************************)
THEOREM OrderInvariant ==
    ASSUME FailedIsNoConfig
    PROVE  ConfigSpec => []OrderDoesNotMatter
  <1>1. IInv => OrderDoesNotMatter
    BY DEF IInv
  <1>2. IInv /\ [ConfigNext]_configVars => IInv'
    BY NextKeeps
  <1> QED
    BY InitHolds, <1>1, <1>2, PTL DEF ConfigSpec

(***************************************************************************)
(* ruleBuilder.build and Parse: what they return is what the engine and    *)
(* the confirmation are built upon, whatever is configured.                *)
(***************************************************************************)
THEOREM ConfigFitsEngineInvariant ==
    ASSUME FailedIsNoConfig
    PROVE  ConfigSpec => []ConfigFitsEngine
  <1>1. IInv => ConfigFitsEngine
    BY DEF IInv
  <1>2. IInv /\ [ConfigNext]_configVars => IInv'
    BY NextKeeps
  <1> QED
    BY InitHolds, <1>1, <1>2, PTL DEF ConfigSpec
=============================================================================
