---------------------------- MODULE ProgramProofs ----------------------------
(***************************************************************************)
(* Proofs about Program: its two parts, the proxies at a path and the      *)
(* intake of configuration and requests.                                   *)
(*                                                                         *)
(* The routes are taken as data: of every part of the table it is shown    *)
(* what its rows have in common, and that no two of them fit one request.  *)
(* What a request is classified as and how it is forwarded follows, for    *)
(* paths of any length; the text that a request and a glob are made of is  *)
(* the matter of TextProofs.                                               *)
(***************************************************************************)
EXTENDS Program, RuleConfigProofs, TextProofs, FiniteSetTheorems

-----------------------------------------------------------------------------
\* Routes

Length(r) == Len(r.pattern)
First(r)  == r.pattern[1]
Second(r) == IF Len(r.pattern) = 1 THEN r.pattern[1] ELSE r.pattern[2]
Final(r)  == r.pattern[Len(r.pattern)]

Word(w) == w \notin {One, Many}

\* Of the segments of a pattern only the second may be a hole.
Shaped(r) ==
    /\ Length(r) \in 1..4 /\ DOMAIN r.pattern = 1..Length(r)
    /\ \A i \in 1..Length(r) : i # 2 => Word(r.pattern[i])

(***************************************************************************)
(* What the engine and the handler expect of actions and targets: what is  *)
(* inspected is posted, and a container is named by one segment unless     *)
(* none is meant.                                                          *)
(***************************************************************************)
Expected(r) ==
    /\ r.action \in {"exec", "exec.start", "exec.resize", "exec.inspect", "create"} =>
        r.target = "container"
    /\ r.target = "container" =>
        Second(r) # Many /\ (Second(r) = One <=> r.action \notin {"list", "create", "prune"})
    /\ r.action \in {"list", "prune", "pull"} => Word(Second(r))
    /\ r.action \in {"exec", "create"} => r.method = "POST"

(***************************************************************************)
(* Two routes that may fit one request: they agree on the method and the   *)
(* first segment, as far as they say on the last, and on the length unless *)
(* a hole may be longer.                                                   *)
(***************************************************************************)
Overlap(r, s) ==
    /\ r.method = s.method /\ First(r) = First(s)
    /\ Second(r) = Many \/ Length(s) <= Length(r)
    /\ Second(s) = Many \/ Length(r) <= Length(s)
    /\ Final(r) = Final(s) \/ ~Word(Final(r)) \/ ~Word(Final(s))

Apart(s, t) == \A i \in DOMAIN s, j \in DOMAIN t : ~Overlap(s[i], t[j])
Distinct(s) == \A i, j \in DOMAIN s : Overlap(s[i], s[j]) => i = j

\* What the rows of the table call their actions; none is a mark in a line.
Actions ==
    {"list", "inspect", "create", "remove", "update", "prune", "rename", "export", "changes",
     "logs", "resize", "attach", "start", "stop", "restart", "kill", "pause", "unpause", "wait",
     "exec", "exec.start", "exec.resize", "exec.inspect",
     "archive.read", "archive.write", "archive.stat",
     "pull", "push", "tag", "build", "commit", "session",
     "image.history", "image.search", "image.save", "image.load",
     "network.create", "network.remove", "network.connect", "network.disconnect",
     "volume.create", "volume.remove", "ping", "version", "info", "events", "df",
     "swarm.init", "swarm.join", "swarm.leave", "swarm.update", "swarm.unlock",
     "swarm.unlockkey", "service.create", "service.update", "service.remove", "service.logs",
     "task.logs", "node.update", "node.remove", "secret.create", "secret.update",
     "secret.remove", "config.create", "config.update", "config.remove", "plugin.pull",
     "plugin.enable", "plugin.disable", "plugin.remove", "distribution.inspect"}

LEMMA ActionsPlain == Actions \cap Marks = {}
  BY ZenonT(60) DEF Actions, Marks, Quote, Blank, Escape

\* A part of the table, with routes that begin with a word of W.
Table(s, W) ==
    /\ s \in Seq(Range(s))
    /\ Distinct(s)
    /\ \A i \in DOMAIN s : Shaped(s[i]) /\ Expected(s[i]) /\ First(s[i]) \in W
    /\ \A i \in DOMAIN s : s[i].action \in Actions

\* A row of the table, by the length of its pattern.
LEMMA Rows ==
    /\ \A m, p, a, t :
        LET r == R(m, p, a, t)
        IN  r.method = m /\ r.pattern = p /\ r.action = a /\ r.target = t
    /\ \A m, a, t, w :
        LET r == R(m, <<w>>, a, t)
        IN  /\ Length(r) = 1 /\ First(r) = w /\ Second(r) = w /\ Final(r) = w
            /\ Word(w) => Shaped(r)
    /\ \A m, a, t, w, x :
        LET r == R(m, <<w, x>>, a, t)
        IN  /\ Length(r) = 2 /\ First(r) = w /\ Second(r) = x /\ Final(r) = x
            /\ Word(w) => Shaped(r)
    /\ \A m, a, t, w, x, y :
        LET r == R(m, <<w, x, y>>, a, t)
        IN  /\ Length(r) = 3 /\ First(r) = w /\ Second(r) = x /\ Final(r) = y
            /\ Word(w) /\ Word(y) => Shaped(r)
    /\ \A m, a, t, w, x, y, z :
        LET r == R(m, <<w, x, y, z>>, a, t)
        IN  /\ Length(r) = 4 /\ First(r) = w /\ Second(r) = x /\ Final(r) = z
            /\ Word(w) /\ Word(y) /\ Word(z) => Shaped(r)
  <1>1. \A m, p, a, t :
        LET r == R(m, p, a, t)
        IN  r.method = m /\ r.pattern = p /\ r.action = a /\ r.target = t
    BY DEF R
  <1>2. \A m, a, t, w :
        LET r == R(m, <<w>>, a, t)
        IN  /\ Length(r) = 1 /\ First(r) = w /\ Second(r) = w /\ Final(r) = w
            /\ Word(w) => Shaped(r)
    BY DEF R, Length, First, Second, Final, Shaped
  <1>3. \A m, a, t, w, x :
        LET r == R(m, <<w, x>>, a, t)
        IN  /\ Length(r) = 2 /\ First(r) = w /\ Second(r) = x /\ Final(r) = x
            /\ Word(w) => Shaped(r)
    BY DEF R, Length, First, Second, Final, Shaped
  <1>4. \A m, a, t, w, x, y :
        LET r == R(m, <<w, x, y>>, a, t)
        IN  /\ Length(r) = 3 /\ First(r) = w /\ Second(r) = x /\ Final(r) = y
            /\ Word(w) /\ Word(y) => Shaped(r)
    BY DEF R, Length, First, Second, Final, Shaped
  <1>5. \A m, a, t, w, x, y, z :
        LET r == R(m, <<w, x, y, z>>, a, t)
        IN  /\ Length(r) = 4 /\ First(r) = w /\ Second(r) = x /\ Final(r) = z
            /\ Word(w) /\ Word(y) /\ Word(z) => Shaped(r)
    BY DEF R, Length, First, Second, Final, Shaped
  <1> QED
    BY <1>1, <1>2, <1>3, <1>4, <1>5

-----------------------------------------------------------------------------
\* The parts of the table

LEMMA ContainerRoutesTable == Table(ContainerRoutes, {"containers", "exec"})
  <1>1. ContainerRoutes \in Seq(Range(ContainerRoutes))
    BY SMTT(30) DEF ContainerRoutes, Range
  <1>2. Distinct(ContainerRoutes)
    BY Rows, SMTT(60) DEF ContainerRoutes, Distinct, Overlap, Word, One, Many
  <1>3. \A i \in DOMAIN ContainerRoutes : Shaped(ContainerRoutes[i])
    BY Rows, SMTT(60) DEF ContainerRoutes, Word, One, Many
  <1>4. \A i \in DOMAIN ContainerRoutes : Expected(ContainerRoutes[i])
    BY Rows, SMTT(60) DEF ContainerRoutes, Expected, Word, One, Many
  <1>5. \A i \in DOMAIN ContainerRoutes : First(ContainerRoutes[i]) \in {"containers", "exec"}
    BY Rows, SMTT(60) DEF ContainerRoutes
  <1>6. \A i \in DOMAIN ContainerRoutes : ContainerRoutes[i].action \in Actions
    BY Rows, SMTT(60) DEF ContainerRoutes, Actions
  <1> QED
    BY <1>1, <1>2, <1>3, <1>4, <1>5, <1>6 DEF Table

LEMMA LifecycleRoutesTable == Table(LifecycleRoutes, {"containers"})
  <1>1. LifecycleRoutes \in Seq(Range(LifecycleRoutes))
    BY SMTT(30) DEF LifecycleRoutes, Range
  <1>2. Distinct(LifecycleRoutes)
    BY Rows, SMTT(60) DEF LifecycleRoutes, Distinct, Overlap, Word, One, Many
  <1>3. \A i \in DOMAIN LifecycleRoutes : Shaped(LifecycleRoutes[i])
    BY Rows, SMTT(60) DEF LifecycleRoutes, Word, One, Many
  <1>4. \A i \in DOMAIN LifecycleRoutes : Expected(LifecycleRoutes[i])
    BY Rows, SMTT(60) DEF LifecycleRoutes, Expected, Word, One, Many
  <1>5. \A i \in DOMAIN LifecycleRoutes : First(LifecycleRoutes[i]) \in {"containers"}
    BY Rows, SMTT(60) DEF LifecycleRoutes
  <1>6. \A i \in DOMAIN LifecycleRoutes : LifecycleRoutes[i].action \in Actions
    BY Rows, SMTT(60) DEF LifecycleRoutes, Actions
  <1> QED
    BY <1>1, <1>2, <1>3, <1>4, <1>5, <1>6 DEF Table

LEMMA ImageRoutesTable == Table(ImageRoutes, {"images", "build", "commit"})
  <1>1. ImageRoutes \in Seq(Range(ImageRoutes))
    BY SMTT(30) DEF ImageRoutes, Range
  <1>2. Distinct(ImageRoutes)
    BY Rows, SMTT(60) DEF ImageRoutes, Distinct, Overlap, Word, One, Many
  <1>3. \A i \in DOMAIN ImageRoutes : Shaped(ImageRoutes[i])
    BY Rows, SMTT(60) DEF ImageRoutes, Word, One, Many
  <1>4. \A i \in DOMAIN ImageRoutes : Expected(ImageRoutes[i])
    BY Rows, SMTT(60) DEF ImageRoutes, Expected, Word, One, Many
  <1>5. \A i \in DOMAIN ImageRoutes : First(ImageRoutes[i]) \in {"images", "build", "commit"}
    BY Rows, SMTT(60) DEF ImageRoutes
  <1>6. \A i \in DOMAIN ImageRoutes : ImageRoutes[i].action \in Actions
    BY Rows, SMTT(60) DEF ImageRoutes, Actions
  <1> QED
    BY <1>1, <1>2, <1>3, <1>4, <1>5, <1>6 DEF Table

LEMMA NetworkRoutesTable == Table(NetworkRoutes, {"networks"})
  <1>1. NetworkRoutes \in Seq(Range(NetworkRoutes))
    BY SMTT(30) DEF NetworkRoutes, Range
  <1>2. Distinct(NetworkRoutes)
    BY Rows, SMTT(60) DEF NetworkRoutes, Distinct, Overlap, Word, One, Many
  <1>3. \A i \in DOMAIN NetworkRoutes : Shaped(NetworkRoutes[i])
    BY Rows, SMTT(60) DEF NetworkRoutes, Word, One, Many
  <1>4. \A i \in DOMAIN NetworkRoutes : Expected(NetworkRoutes[i])
    BY Rows, SMTT(60) DEF NetworkRoutes, Expected, Word, One, Many
  <1>5. \A i \in DOMAIN NetworkRoutes : First(NetworkRoutes[i]) \in {"networks"}
    BY Rows, SMTT(60) DEF NetworkRoutes
  <1>6. \A i \in DOMAIN NetworkRoutes : NetworkRoutes[i].action \in Actions
    BY Rows, SMTT(60) DEF NetworkRoutes, Actions
  <1> QED
    BY <1>1, <1>2, <1>3, <1>4, <1>5, <1>6 DEF Table

LEMMA VolumeRoutesTable == Table(VolumeRoutes, {"volumes"})
  <1>1. VolumeRoutes \in Seq(Range(VolumeRoutes))
    BY SMTT(30) DEF VolumeRoutes, Range
  <1>2. Distinct(VolumeRoutes)
    BY Rows, SMTT(60) DEF VolumeRoutes, Distinct, Overlap, Word, One, Many
  <1>3. \A i \in DOMAIN VolumeRoutes : Shaped(VolumeRoutes[i])
    BY Rows, SMTT(60) DEF VolumeRoutes, Word, One, Many
  <1>4. \A i \in DOMAIN VolumeRoutes : Expected(VolumeRoutes[i])
    BY Rows, SMTT(60) DEF VolumeRoutes, Expected, Word, One, Many
  <1>5. \A i \in DOMAIN VolumeRoutes : First(VolumeRoutes[i]) \in {"volumes"}
    BY Rows, SMTT(60) DEF VolumeRoutes
  <1>6. \A i \in DOMAIN VolumeRoutes : VolumeRoutes[i].action \in Actions
    BY Rows, SMTT(60) DEF VolumeRoutes, Actions
  <1> QED
    BY <1>1, <1>2, <1>3, <1>4, <1>5, <1>6 DEF Table

LEMMA SystemRoutesTable == Table(SystemRoutes, {"_ping", "version", "info", "events", "system"})
  <1>1. SystemRoutes \in Seq(Range(SystemRoutes))
    BY SMTT(30) DEF SystemRoutes, Range
  <1>2. Distinct(SystemRoutes)
    BY Rows, SMTT(60) DEF SystemRoutes, Distinct, Overlap, Word, One, Many
  <1>3. \A i \in DOMAIN SystemRoutes : Shaped(SystemRoutes[i])
    BY Rows, SMTT(60) DEF SystemRoutes, Word, One, Many
  <1>4. \A i \in DOMAIN SystemRoutes : Expected(SystemRoutes[i])
    BY Rows, SMTT(60) DEF SystemRoutes, Expected, Word, One, Many
  <1>5. \A i \in DOMAIN SystemRoutes : First(SystemRoutes[i]) \in {"_ping", "version", "info", "events", "system"}
    BY Rows, SMTT(60) DEF SystemRoutes
  <1>6. \A i \in DOMAIN SystemRoutes : SystemRoutes[i].action \in Actions
    BY Rows, SMTT(60) DEF SystemRoutes, Actions
  <1> QED
    BY <1>1, <1>2, <1>3, <1>4, <1>5, <1>6 DEF Table

LEMMA SwarmRoutesTable == Table(SwarmRoutes, {"swarm"})
  <1>1. SwarmRoutes \in Seq(Range(SwarmRoutes))
    BY SMTT(30) DEF SwarmRoutes, Range
  <1>2. Distinct(SwarmRoutes)
    BY Rows, SMTT(60) DEF SwarmRoutes, Distinct, Overlap, Word, One, Many
  <1>3. \A i \in DOMAIN SwarmRoutes : Shaped(SwarmRoutes[i])
    BY Rows, SMTT(60) DEF SwarmRoutes, Word, One, Many
  <1>4. \A i \in DOMAIN SwarmRoutes : Expected(SwarmRoutes[i])
    BY Rows, SMTT(60) DEF SwarmRoutes, Expected, Word, One, Many
  <1>5. \A i \in DOMAIN SwarmRoutes : First(SwarmRoutes[i]) \in {"swarm"}
    BY Rows, SMTT(60) DEF SwarmRoutes
  <1>6. \A i \in DOMAIN SwarmRoutes : SwarmRoutes[i].action \in Actions
    BY Rows, SMTT(60) DEF SwarmRoutes, Actions
  <1> QED
    BY <1>1, <1>2, <1>3, <1>4, <1>5, <1>6 DEF Table

LEMMA ServiceRoutesTable == Table(ServiceRoutes, {"services"})
  <1>1. ServiceRoutes \in Seq(Range(ServiceRoutes))
    BY SMTT(30) DEF ServiceRoutes, Range
  <1>2. Distinct(ServiceRoutes)
    BY Rows, SMTT(60) DEF ServiceRoutes, Distinct, Overlap, Word, One, Many
  <1>3. \A i \in DOMAIN ServiceRoutes : Shaped(ServiceRoutes[i])
    BY Rows, SMTT(60) DEF ServiceRoutes, Word, One, Many
  <1>4. \A i \in DOMAIN ServiceRoutes : Expected(ServiceRoutes[i])
    BY Rows, SMTT(60) DEF ServiceRoutes, Expected, Word, One, Many
  <1>5. \A i \in DOMAIN ServiceRoutes : First(ServiceRoutes[i]) \in {"services"}
    BY Rows, SMTT(60) DEF ServiceRoutes
  <1>6. \A i \in DOMAIN ServiceRoutes : ServiceRoutes[i].action \in Actions
    BY Rows, SMTT(60) DEF ServiceRoutes, Actions
  <1> QED
    BY <1>1, <1>2, <1>3, <1>4, <1>5, <1>6 DEF Table

LEMMA TaskNodeRoutesTable == Table(TaskNodeRoutes, {"tasks", "nodes"})
  <1>1. TaskNodeRoutes \in Seq(Range(TaskNodeRoutes))
    BY SMTT(30) DEF TaskNodeRoutes, Range
  <1>2. Distinct(TaskNodeRoutes)
    BY Rows, SMTT(60) DEF TaskNodeRoutes, Distinct, Overlap, Word, One, Many
  <1>3. \A i \in DOMAIN TaskNodeRoutes : Shaped(TaskNodeRoutes[i])
    BY Rows, SMTT(60) DEF TaskNodeRoutes, Word, One, Many
  <1>4. \A i \in DOMAIN TaskNodeRoutes : Expected(TaskNodeRoutes[i])
    BY Rows, SMTT(60) DEF TaskNodeRoutes, Expected, Word, One, Many
  <1>5. \A i \in DOMAIN TaskNodeRoutes : First(TaskNodeRoutes[i]) \in {"tasks", "nodes"}
    BY Rows, SMTT(60) DEF TaskNodeRoutes
  <1>6. \A i \in DOMAIN TaskNodeRoutes : TaskNodeRoutes[i].action \in Actions
    BY Rows, SMTT(60) DEF TaskNodeRoutes, Actions
  <1> QED
    BY <1>1, <1>2, <1>3, <1>4, <1>5, <1>6 DEF Table

LEMMA SecretConfigRoutesTable == Table(SecretConfigRoutes, {"secrets", "configs"})
  <1>1. SecretConfigRoutes \in Seq(Range(SecretConfigRoutes))
    BY SMTT(30) DEF SecretConfigRoutes, Range
  <1>2. Distinct(SecretConfigRoutes)
    BY Rows, SMTT(60) DEF SecretConfigRoutes, Distinct, Overlap, Word, One, Many
  <1>3. \A i \in DOMAIN SecretConfigRoutes : Shaped(SecretConfigRoutes[i])
    BY Rows, SMTT(60) DEF SecretConfigRoutes, Word, One, Many
  <1>4. \A i \in DOMAIN SecretConfigRoutes : Expected(SecretConfigRoutes[i])
    BY Rows, SMTT(60) DEF SecretConfigRoutes, Expected, Word, One, Many
  <1>5. \A i \in DOMAIN SecretConfigRoutes : First(SecretConfigRoutes[i]) \in {"secrets", "configs"}
    BY Rows, SMTT(60) DEF SecretConfigRoutes
  <1>6. \A i \in DOMAIN SecretConfigRoutes : SecretConfigRoutes[i].action \in Actions
    BY Rows, SMTT(60) DEF SecretConfigRoutes, Actions
  <1> QED
    BY <1>1, <1>2, <1>3, <1>4, <1>5, <1>6 DEF Table

LEMMA PluginRoutesTable == Table(PluginRoutes, {"plugins"})
  <1>1. PluginRoutes \in Seq(Range(PluginRoutes))
    BY SMTT(30) DEF PluginRoutes, Range
  <1>2. Distinct(PluginRoutes)
    BY Rows, SMTT(60) DEF PluginRoutes, Distinct, Overlap, Word, One, Many
  <1>3. \A i \in DOMAIN PluginRoutes : Shaped(PluginRoutes[i])
    BY Rows, SMTT(60) DEF PluginRoutes, Word, One, Many
  <1>4. \A i \in DOMAIN PluginRoutes : Expected(PluginRoutes[i])
    BY Rows, SMTT(60) DEF PluginRoutes, Expected, Word, One, Many
  <1>5. \A i \in DOMAIN PluginRoutes : First(PluginRoutes[i]) \in {"plugins"}
    BY Rows, SMTT(60) DEF PluginRoutes
  <1>6. \A i \in DOMAIN PluginRoutes : PluginRoutes[i].action \in Actions
    BY Rows, SMTT(60) DEF PluginRoutes, Actions
  <1> QED
    BY <1>1, <1>2, <1>3, <1>4, <1>5, <1>6 DEF Table

LEMMA OtherRoutesTable == Table(OtherRoutes, {"distribution", "session"})
  <1>1. OtherRoutes \in Seq(Range(OtherRoutes))
    BY SMTT(30) DEF OtherRoutes, Range
  <1>2. Distinct(OtherRoutes)
    BY Rows, SMTT(60) DEF OtherRoutes, Distinct, Overlap, Word, One, Many
  <1>3. \A i \in DOMAIN OtherRoutes : Shaped(OtherRoutes[i])
    BY Rows, SMTT(60) DEF OtherRoutes, Word, One, Many
  <1>4. \A i \in DOMAIN OtherRoutes : Expected(OtherRoutes[i])
    BY Rows, SMTT(60) DEF OtherRoutes, Expected, Word, One, Many
  <1>5. \A i \in DOMAIN OtherRoutes : First(OtherRoutes[i]) \in {"distribution", "session"}
    BY Rows, SMTT(60) DEF OtherRoutes
  <1>6. \A i \in DOMAIN OtherRoutes : OtherRoutes[i].action \in Actions
    BY Rows, SMTT(60) DEF OtherRoutes, Actions
  <1> QED
    BY <1>1, <1>2, <1>3, <1>4, <1>5, <1>6 DEF Table

\* Two parts of the table are about containers.
LEMMA LifecycleApart == Apart(ContainerRoutes, LifecycleRoutes)
  <1>1. \A i \in DOMAIN ContainerRoutes :
          LET r == ContainerRoutes[i]
          IN  /\ r.method # "DELETE"
              /\ r.method = "POST" =>
                    Length(r) = 3 /\ Final(r) \in {"resize", "exec", "start", "attach"}
              /\ First(r) = "containers" => Final(r) # "start"
    BY Rows, SMTT(60) DEF ContainerRoutes
  <1>2. \A i \in DOMAIN LifecycleRoutes :
          LET r == LifecycleRoutes[i]
          IN  /\ r.method \in {"POST", "DELETE"} /\ First(r) = "containers"
              /\ Length(r) \in Int /\ Second(r) # Many
              /\ Length(r) = 3 => Final(r) \notin {One, Many, "resize", "exec", "attach"}
    BY Rows, SMTT(60) DEF LifecycleRoutes, One, Many
  <1>3. \A i \in DOMAIN ContainerRoutes : Second(ContainerRoutes[i]) # Many
    BY ContainerRoutesTable, Rows, SMTT(60) DEF ContainerRoutes, One, Many
  <1> QED
    BY <1>1, <1>2, <1>3 DEF Apart, Overlap, Word, One, Many

\* Two parts make one.
LEMMA Together ==
    ASSUME NEW s, NEW t, NEW V, NEW W, Table(s, V), Table(t, W), Apart(s, t)
    PROVE  Table(s \o t, V \cup W)
  <1>. DEFINE S == Range(s) \cup Range(t)
  <1>1. s \in Seq(S) /\ t \in Seq(S)
    BY DEF Table
  <1>. HIDE DEF S
  <1>2. ASSUME NEW i \in DOMAIN (s \o t)
        PROVE  \/ i \in DOMAIN s /\ (s \o t)[i] = s[i]
               \/ i - Len(s) \in DOMAIN t /\ (s \o t)[i] = t[i - Len(s)]
    BY <1>1
  <1>3. s \o t \in Seq(Range(s \o t))
    <2>. DEFINE u == s \o t
    <2>1. u \in Seq(S)
      BY <1>1
    <2>. HIDE DEF u
    <2>2. u \in Seq(Range(u))
      BY <2>1 DEF Range
    <2> QED
      BY <2>2 DEF u
  <1>4. \A i \in DOMAIN (s \o t) :
            LET r == (s \o t)[i]
            IN  Shaped(r) /\ Expected(r) /\ First(r) \in V \cup W
    BY <1>2 DEF Table
  <1>5. Distinct(s \o t)
    <2>. SUFFICES ASSUME NEW i \in DOMAIN (s \o t), NEW j \in DOMAIN (s \o t),
                         Overlap((s \o t)[i], (s \o t)[j])
                  PROVE  i = j
      BY DEF Distinct
    <2>1. i \in Int /\ j \in Int /\ Len(s) \in Int
      BY <1>1
    <2>2. \A q, r : Overlap(q, r) => Overlap(r, q)
      BY DEF Overlap
    <2> QED
      BY <1>2, <2>1, <2>2 DEF Table, Distinct, Apart
  <1> QED
    BY <1>3, <1>4, <1>5 DEF Table

\* Parts about different things.
LEMMA Elsewhere ==
    ASSUME NEW s, NEW t, NEW V, NEW W, Table(s, V), Table(t, W), V \cap W = {}
    PROVE  Table(s \o t, V \cup W)
  <1>1. Apart(s, t)
    BY DEF Table, Apart, Overlap
  <1> QED
    BY <1>1, Together

\* All parts together.
LEMMA RoutesTable == \E W : Table(routes, W)
  <1>. DEFINE W2 == {"containers", "exec"}
              W3 == W2 \cup {"images", "build", "commit"}
              W4 == W3 \cup {"networks"}
              W5 == W4 \cup {"volumes"}
              W6 == W5 \cup {"_ping", "version", "info", "events", "system"}
              W7 == W6 \cup {"swarm"}
              W8 == W7 \cup {"services"}
              W9 == W8 \cup {"tasks", "nodes"}
              W10 == W9 \cup {"secrets", "configs"}
              W11 == W10 \cup {"plugins"}
              W12 == W11 \cup {"distribution", "session"}
              T2 == ContainerRoutes \o LifecycleRoutes
              T3 == T2 \o ImageRoutes
              T4 == T3 \o NetworkRoutes
              T5 == T4 \o VolumeRoutes
              T6 == T5 \o SystemRoutes
              T7 == T6 \o SwarmRoutes
              T8 == T7 \o ServiceRoutes
              T9 == T8 \o TaskNodeRoutes
              T10 == T9 \o SecretConfigRoutes
              T11 == T10 \o PluginRoutes
              T12 == T11 \o OtherRoutes
  <1>1. /\ W2 \cap {"images", "build", "commit"} = {}
        /\ W3 \cap {"networks"} = {}
        /\ W4 \cap {"volumes"} = {}
        /\ W5 \cap {"_ping", "version", "info", "events", "system"} = {}
        /\ W6 \cap {"swarm"} = {}
        /\ W7 \cap {"services"} = {}
        /\ W8 \cap {"tasks", "nodes"} = {}
        /\ W9 \cap {"secrets", "configs"} = {}
        /\ W10 \cap {"plugins"} = {}
        /\ W11 \cap {"distribution", "session"} = {}
    OBVIOUS
  <1>2. Table(T2, W2)
    <2>1. W2 = W2 \cup {"containers"}
      OBVIOUS
    <2> QED
      BY <2>1, ContainerRoutesTable, LifecycleRoutesTable, LifecycleApart, Together
  <1>. HIDE DEF W2, T2
  <1>3. Table(T3, W3)
    BY <1>1, <1>2, ImageRoutesTable, Elsewhere
  <1>. HIDE DEF W3, T3
  <1>4. Table(T4, W4)
    BY <1>1, <1>3, NetworkRoutesTable, Elsewhere
  <1>. HIDE DEF W4, T4
  <1>5. Table(T5, W5)
    BY <1>1, <1>4, VolumeRoutesTable, Elsewhere
  <1>. HIDE DEF W5, T5
  <1>6. Table(T6, W6)
    BY <1>1, <1>5, SystemRoutesTable, Elsewhere
  <1>. HIDE DEF W6, T6
  <1>7. Table(T7, W7)
    BY <1>1, <1>6, SwarmRoutesTable, Elsewhere
  <1>. HIDE DEF W7, T7
  <1>8. Table(T8, W8)
    BY <1>1, <1>7, ServiceRoutesTable, Elsewhere
  <1>. HIDE DEF W8, T8
  <1>9. Table(T9, W9)
    BY <1>1, <1>8, TaskNodeRoutesTable, Elsewhere
  <1>. HIDE DEF W9, T9
  <1>10. Table(T10, W10)
    BY <1>1, <1>9, SecretConfigRoutesTable, Elsewhere
  <1>. HIDE DEF W10, T10
  <1>11. Table(T11, W11)
    BY <1>1, <1>10, PluginRoutesTable, Elsewhere
  <1>. HIDE DEF W11, T11
  <1>12. Table(T12, W12)
    BY <1>1, <1>11, OtherRoutesTable, Elsewhere
  <1>. HIDE DEF W12, T12
  <1>13. routes = T12
    BY DEF routes, T2, T3, T4, T5, T6, T7, T8, T9, T10, T11, T12
  <1> QED
    BY <1>12, <1>13

-----------------------------------------------------------------------------
\* The class of a request

\* Where the hole of a route is.
LEMMA HoleIs ==
    ASSUME NEW r, Shaped(r)
    PROVE  Hole(r.pattern) = IF Word(Second(r)) THEN Length(r) + 1 ELSE 2
  <1>. DEFINE p == r.pattern
  <1>1. \A i \in DOMAIN p : p[i] \in {One, Many} <=> i = 2 /\ ~Word(Second(r))
    BY DEF Shaped, Word, Second, Length
  <1>2. CASE Word(Second(r))
    BY <1>1, <1>2 DEF Hole, Length
  <1>3. CASE ~Word(Second(r))
    <2>1. 2 \in DOMAIN p /\ p[2] \in {One, Many}
      BY <1>3 DEF Shaped, Word, Second, Length
    <2>2. (CHOOSE i \in DOMAIN p : p[i] \in {One, Many}) = 2
      BY <1>1, <2>1
    <2> QED
      BY <1>3, <2>1, <2>2 DEF Hole
  <1> QED
    BY <1>2, <1>3

\* What a route that fits says of a path.
LEMMA FitsMeans ==
    ASSUME NEW r, Shaped(r), NEW path \in Seq(STRING), Fits(r.pattern, path)
    PROVE  /\ First(r) = path[1]
           /\ Length(r) <= Len(path)
           /\ Second(r) # Many => Length(r) = Len(path)
           /\ Word(Final(r)) => Final(r) = path[Len(path)]
  <1>. DEFINE h == Hole(r.pattern)
              extra == Len(path) - Length(r)
  <1>1. h = IF Word(Second(r)) THEN Length(r) + 1 ELSE 2
    BY HoleIs
  <1>2. /\ IF h <= Length(r) /\ r.pattern[h] = Many THEN extra >= 0 ELSE extra = 0
        /\ \A i \in DOMAIN r.pattern :
            /\ i < h => path[i] = r.pattern[i]
            /\ i > h => path[i + extra] = r.pattern[i]
    BY DEF Fits, Length
  <1>3. Length(r) \in 1..4 /\ DOMAIN r.pattern = 1..Length(r) /\ Len(path) \in Nat
    BY DEF Shaped
  <1>. HIDE DEF h
  <1>4. First(r) = path[1]
    BY <1>1, <1>2, <1>3 DEF First
  <1>5. Length(r) <= Len(path)
    BY <1>2, <1>3
  <1>6. Second(r) # Many => Length(r) = Len(path)
    BY <1>1, <1>2, <1>3 DEF Second, Word, Length
  <1>7. Word(Final(r)) => Final(r) = path[Len(path)]
    <2>1. Length(r) # h \/ ~Word(Final(r))
      BY <1>1, <1>3 DEF Final, Second, Length, Word
    <2>2. CASE Length(r) < h
      <3>1. extra = 0 /\ path[Length(r)] = r.pattern[Length(r)]
        <4>1. Length(r) \in DOMAIN r.pattern
          BY <1>3
        <4>2. ~(h <= Length(r))
          BY <1>1, <1>3, <2>2
        <4> QED
          BY <1>2, <2>2, <4>1, <4>2
      <3>2. Len(path) = Length(r)
        BY <1>3, <3>1
      <3> QED
        BY <3>1, <3>2 DEF Final, Length
    <2>3. CASE Length(r) > h
      <3>1. path[Length(r) + extra] = r.pattern[Length(r)]
        <4>1. Length(r) \in DOMAIN r.pattern
          BY <1>3
        <4> QED
          BY <1>2, <2>3, <4>1
      <3>2. Length(r) + extra = Len(path)
        BY <1>3
      <3> QED
        BY <3>1, <3>2 DEF Final, Length
    <2> QED
      BY <1>1, <1>3, <2>1, <2>2, <2>3
  <1> QED
    BY <1>4, <1>5, <1>6, <1>7

\* Routes for one method that fit one path are one.
LEMMA OneRoute ==
    ASSUME NEW i \in DOMAIN routes, NEW j \in DOMAIN routes, NEW path \in Seq(STRING),
           routes[i].method = routes[j].method,
           Fits(routes[i].pattern, path), Fits(routes[j].pattern, path)
    PROVE  i = j
  <1>1. PICK W : Table(routes, W)
    BY RoutesTable
  <1>2. Shaped(routes[i]) /\ Shaped(routes[j])
    BY <1>1 DEF Table
  <1>3. Len(path) \in Nat /\ Length(routes[i]) \in Nat /\ Length(routes[j]) \in Nat
    BY <1>2 DEF Shaped
  <1>4. Overlap(routes[i], routes[j])
    BY <1>2, <1>3, FitsMeans DEF Overlap
  <1> QED
    BY <1>1, <1>4 DEF Table, Distinct

LEMMA UnversionedPath ==
    ASSUME NEW path \in Seq(STRING)
    PROVE  Unversioned(path) \in Seq(STRING)
  BY HeadTailProperties DEF Unversioned

\* A request has the class that any route that fits gives it, or none does.
LEMMA ClassifyIs ==
    ASSUME NEW method, NEW path \in Seq(STRING)
    PROVE  LET rest == Unversioned(path)
               hits == {i \in DOMAIN routes :
                            routes[i].method = method /\ Fits(routes[i].pattern, rest)}
           IN  /\ hits = {} => Classify(method, path) = Unknown
               /\ \A i \in hits : Classify(method, path) = ClassOf(routes[i], rest)
  <1>. DEFINE rest == Unversioned(path)
              hits == {i \in DOMAIN routes :
                            routes[i].method = method /\ Fits(routes[i].pattern, rest)}
  <1>1. rest \in Seq(STRING)
    BY UnversionedPath
  <1>2. DOMAIN routes \subseteq Nat
    BY RoutesTable DEF Table
  <1>3. ASSUME NEW i \in hits
        PROVE  hits = {i} /\ Min(hits) = i
    <2>1. \A j \in hits : i = j
      BY <1>1, OneRoute
    <2>. HIDE DEF hits
    <2>2. hits = {i}
      BY <2>1
    <2>3. i \in Nat
      BY <1>2 DEF hits
    <2>4. Min({i}) = i
      BY <2>3 DEF Min
    <2> QED
      BY <2>2, <2>4
  <1>4. Classify(method, path) =
            IF hits = {} THEN Unknown ELSE ClassOf(routes[Min(hits)], rest)
    BY DEF Classify
  <1>. HIDE DEF hits, rest
  <1>5. /\ hits = {} => Classify(method, path) = Unknown
        /\ \A i \in hits : Classify(method, path) = ClassOf(routes[i], rest)
    BY <1>3, <1>4
  <1> QED
    BY <1>5 DEF hits, rest

\* What is expected of routes holds of classes.
ClassExpected(method, c) ==
    /\ c.action \in {"exec", "exec.start", "exec.resize", "exec.inspect"} =>
        c.target = "container"
    /\ c.target = "container" =>
        Len(c.id) = IF c.action \in {"list", "create", "prune"} THEN 0 ELSE 1
    /\ c.action \in {"list", "prune", "pull"} => c.id = <<>>
    /\ NeedsBodyInspection(c.action) => c.target = "container"
    /\ NeedsBodyInspection(c.action) => method = "POST"
    /\ c.target # "unknown" => c.action \in Letter \ Marks
    /\ c.id \in Seq(STRING)

LEMMA ClassifyExpected ==
    ASSUME NEW method, NEW path \in Seq(STRING)
    PROVE  ClassExpected(method, Classify(method, path))
  <1>. DEFINE rest == Unversioned(path)
              hits == {i \in DOMAIN routes :
                            routes[i].method = method /\ Fits(routes[i].pattern, rest)}
  <1>1. CASE hits = {}
    <2>1. Classify(method, path) = Unknown
      BY <1>1, ClassifyIs
    <2>2. Unknown.action = "unknown" /\ Unknown.target = "unknown" /\ Unknown.id = <<>>
      BY DEF Unknown
    <2>3. <<>> \in Seq(STRING)
      BY ListLaws
    <2>4. ClassExpected(method, Unknown)
      BY <2>2, <2>3 DEF ClassExpected, NeedsBodyInspection
    <2> QED
      BY <2>1, <2>4, Zenon
  <1>2. ASSUME NEW i \in hits
        PROVE  ClassExpected(method, Classify(method, path))
    <2>. DEFINE r == routes[i]
                c == Classify(method, path)
                h == Hole(r.pattern)
    <2>1. Shaped(r) /\ Expected(r) /\ r.action \notin Marks /\ r.method = method
      BY RoutesTable, ActionsPlain DEF Table
    <2>2. rest \in Seq(STRING) /\ Fits(r.pattern, rest)
      BY UnversionedPath
    <2>3. /\ c.action = r.action /\ c.target = r.target
          /\ c.id = IF h > Length(r) THEN <<>>
                    ELSE SubSeq(rest, h, Len(rest) - (Length(r) - h))
      <3>1. c = ClassOf(r, rest)
        BY ClassifyIs
      <3> QED
        BY <3>1 DEF ClassOf, Length
    <2>12. i \in DOMAIN routes
      OBVIOUS
    <2>. HIDE DEF r, c, h, rest, hits
    <2>4. h = (IF Word(Second(r)) THEN Length(r) + 1 ELSE 2) /\ Length(r) \in Nat
      BY <2>1, HoleIs DEF h, Shaped
    <2>5. Word(Second(r)) => c.id = <<>>
      BY <2>3, <2>4
    <2>6. Second(r) = One => Len(c.id) = 1
      <3>1. SUFFICES ASSUME Second(r) = One
                     PROVE  Len(c.id) = 1
        OBVIOUS
      <3>2. Second(r) # Many /\ ~Word(Second(r))
        BY <3>1 DEF One, Many, Word
      <3>3. Len(rest) = Length(r) /\ h = 2 /\ Length(r) >= 2
        BY <2>1, <2>2, <2>4, <3>2, FitsMeans DEF Shaped, Second, Length, Word
      <3>4. c.id = SubSeq(rest, 2, 2)
        BY <2>3, <2>4, <3>3
      <3> QED
        BY <2>2, <3>3, <3>4
    <2>7. Word(Second(r)) => Len(c.id) = 0
      BY <2>5
    <2>8. Second(r) # Many /\ Second(r) # One => Word(Second(r))
      BY DEF Word
    <2>13. c.id \in Seq(STRING)
      <3>1. CASE Word(Second(r))
        BY <2>5, <3>1, ListLaws, Zenon
      <3>2. CASE ~Word(Second(r))
        <4>1. h = 2 /\ Length(r) \in 2..4 /\ Len(rest) \in Nat /\ Length(r) <= Len(rest)
          BY <2>1, <2>2, <2>4, <3>2, FitsMeans DEF Shaped, Second, Length, Word
        <4>. DEFINE n == Len(rest) - (Length(r) - h)
        <4>2. n \in Nat /\ n <= Len(rest) /\ c.id = SubSeq(rest, 2, n)
          BY <2>3, <4>1
        <4>3. \A k \in 2..n : rest[k] \in STRING
          BY <2>2, <4>1, <4>2
        <4>. HIDE DEF n
        <4> QED
          BY <4>2, <4>3, SubSeqProperties
      <3> QED
        BY <3>1, <3>2
    <2>. HIDE DEF Word
    <2>9. c.target = "container" =>
              Len(c.id) = IF c.action \in {"list", "create", "prune"} THEN 0 ELSE 1
      BY <2>1, <2>3, <2>6, <2>7, <2>8 DEF Expected
    <2>10. c.action \in {"list", "prune", "pull"} => c.id = <<>>
      BY <2>1, <2>3, <2>5 DEF Expected
    <2>11. c.action \in Letter /\ c.action \notin Marks
      <3>1. r.action \in Wording
        BY <2>12 DEF Wording, r
      <3> QED
        BY <2>1, <2>3, <3>1 DEF Letter
    <2> QED
      BY <2>1, <2>3, <2>9, <2>10, <2>11, <2>13, Zenon DEF Expected, ClassExpected, NeedsBodyInspection, c
  <1> QED
    BY <1>1, <1>2

-----------------------------------------------------------------------------
\* Configuration

\* What the builders set are fields, and labels where one is matched.
FieldsKnown ==
    \A n \in DOMAIN builders : \A s \in DOMAIN builders[n].set :
        s[1] \in Field /\ (s[2] # Nil => s[1] = "MATCH_LABEL")

LEMMA AddFieldKnown ==
    ASSUME IInv, FieldsKnown, AddField
    PROVE  FieldsKnown'
  <1>1. PICK k \in pending :
            IF source.from = "env" THEN AddEnvRuleField(k, source.fields[k])
            ELSE AddContainerLabelRuleField(k, source.fields[k])
    BY DEF AddField
  <1>2. source # Nil /\ source \in Source /\ k \in DOMAIN source.fields
    BY <1>1 DEF IInv
  <1>3. \A n : \A s \in DOMAIN Current(n).set :
            s[1] \in Field /\ (s[2] # Nil => s[1] = "MATCH_LABEL")
    BY DEF FieldsKnown, Current, NewBuilder
  <1>4. ASSUME NEW n, NEW rb, builders' = Assigned(builders, n, rb),
               \A s \in DOMAIN rb.set :
                    s[1] \in Field /\ (s[2] # Nil => s[1] = "MATCH_LABEL")
        PROVE  FieldsKnown'
    <2>1. /\ DOMAIN builders' = DOMAIN builders \cup {n}
          /\ \A y \in DOMAIN builders' :
                 builders'[y] = IF y = n THEN rb ELSE builders[y]
      BY <1>4, Extended
    <2>2. ASSUME NEW y \in DOMAIN builders', NEW s \in DOMAIN builders'[y].set
          PROVE  s[1] \in Field /\ (s[2] # Nil => s[1] = "MATCH_LABEL")
      <3>1. CASE y = n
        BY <1>4, <2>1, <2>2, <3>1
      <3>2. CASE y # n
        BY <2>1, <2>2, <3>2 DEF FieldsKnown
      <3> QED
        BY <3>1, <3>2
    <2> QED
      BY <2>2 DEF FieldsKnown
  <1>5. CASE UNCHANGED builders
    BY <1>5 DEF FieldsKnown
  <1>6. ASSUME NEW n, builders' = Assigned(builders, n, Mark(Current(n)))
        PROVE  FieldsKnown'
    BY <1>3, <1>4, <1>6 DEF Mark
  <1>7. ASSUME Understood(k),
               builders' = Assigned(builders, k.rule,
                                SetTo(Current(k.rule), k, source.fields[k]))
        PROVE  FieldsKnown'
    <2>. DEFINE rb == SetTo(Current(k.rule), k, source.fields[k])
    <2>1. DOMAIN rb.set = DOMAIN Current(k.rule).set \cup {Place(k)}
      BY DEF SetTo, Assigned
    <2>2. /\ Place(k)[1] \in Field
          /\ Place(k)[2] # Nil => Place(k)[1] = "MATCH_LABEL"
      BY <1>2, <1>7, ConfigAssumption DEF Understood, Meant, Place
    <2>. HIDE DEF rb
    <2>3. \A s \in DOMAIN rb.set : s[1] \in Field /\ (s[2] # Nil => s[1] = "MATCH_LABEL")
      BY <1>3, <2>1, <2>2
    <2> QED
      BY <1>4, <1>7, <2>3 DEF rb
  <1> QED
    BY <1>1, <1>2, <1>5, <1>6, <1>7, FieldRead

LEMMA ConfigStepKnown ==
    ASSUME IInv, FieldsKnown, [ConfigNext]_configVars
    PROVE  FieldsKnown'
  <1>1. CASE builders' = builders
    BY <1>1 DEF FieldsKnown
  <1>2. CASE builders' = [n \in {} |-> Nil]
    BY <1>2 DEF FieldsKnown
  <1> QED
    BY <1>1, <1>2, AddFieldKnown DEF ConfigNext, Begin, Finish, TakeConfig, configVars

LEMMA ConfigTyped ==
    ASSUME IInv, FieldsKnown
    PROVE  ConfigTypeOK
  BY ConfigAssumption DEF IInv, FieldsKnown, ConfigTypeOK, Form, IsBuilder

-----------------------------------------------------------------------------
\* Requests

\* A body that is read is read whole, or refused.
LEMMA ReadWhole ==
    ASSUME NEW length \in Nat
    PROVE  ReadLimited(length) \in {length, Failed}
  <1>1. \A x, y \in Nat : Min({x, y}) = IF x <= y THEN x ELSE y
    BY DEF Min
  <1>2. MaxBodySize \in Nat /\ MaxBodySize + 1 \in Nat
    BY IntakeAssumption
  <1> QED
    BY <1>1, <1>2 DEF ReadLimited

(***************************************************************************)
(* One thing is decided about at a time.  A request keeps the class it was *)
(* given, and is forwarded only once what is inspected of it was read.     *)
(***************************************************************************)
ServeInv ==
    /\ request = Nil => class = Nil /\ body = Nil /\ line = Nil /\ via = Nil
    /\ request # Nil =>
        /\ source = Nil /\ match = Nil
        /\ request \in Request
        /\ class = Classify(request.method, request.path)
        /\ body \in {Nil, Failed, request.length}
        /\ via # Nil /\ NeedsBodyInspection(class.action) => body = request.length
        /\ via # Nil /\ class.action = "exec" => via = "record"
    /\ match # Nil => source = Nil
    /\ via \in {Nil, "record", "tunnel", "proxy"}

\* The request's class is as expected.
LEMMA ClassIs ==
    ASSUME ServeInv, request # Nil
    PROVE  ClassExpected(request.method, class) /\ request.length \in Nat
  BY ClassifyExpected, IntakeAssumption DEF ServeInv

LEMMA ClassifyRequestKeeps ==
    ASSUME ServeInv, ClassifyRequest
    PROVE  ServeInv'
  BY IntakeAssumption DEF ServeInv, ClassifyRequest, Idle, configVars

LEMMA ReadBodyKeeps ==
    ASSUME ServeInv, ReadBody
    PROVE  ServeInv'
  <1>1. request.length \in Nat /\ request.length # Nil
    BY ClassIs, IntakeAssumption DEF ReadBody
  <1>2. via = Nil /\ body' \in {Failed, request.length}
    BY <1>1, ReadWhole DEF ServeInv, ReadBody
  <1> QED
    BY <1>2 DEF ServeInv, ReadBody, configVars

LEMMA ForwardKeeps ==
    ASSUME ServeInv, Forward
    PROVE  ServeInv'
  <1>1. NeedsBodyInspection(class.action) => request.method = "POST"
    BY ClassIs DEF Forward, ClassExpected
  <1>2. NeedsBodyInspection(class.action) => body = request.length
    BY <1>1 DEF ServeInv, Forward, Inspected
  <1>3. class.action = "exec" => via' = "record"
    BY <1>1 DEF Forward, NeedsBodyInspection
  <1>4. via' \in {"record", "tunnel", "proxy"}
    BY DEF Forward
  <1> QED
    BY <1>2, <1>3, <1>4 DEF ServeInv, Forward, configVars

LEMMA OtherStepsKeep ==
    ASSUME ServeInv,
           \/ ReadConfig \/ ShowCommand \/ EndRequest \/ GlobMatch \/ EndMatch
           \/ UNCHANGED vars
    PROVE  ServeInv'
  <1>1. CASE ReadConfig \/ GlobMatch
    BY <1>1 DEF ServeInv, ReadConfig, GlobMatch, Idle, requestVars, configVars
  <1>2. CASE ShowCommand \/ EndRequest
    BY <1>2 DEF ServeInv, ShowCommand, EndRequest, configVars
  <1>3. CASE EndMatch \/ UNCHANGED vars
    BY <1>3 DEF ServeInv, EndMatch, vars, requestVars, configVars
  <1> QED
    BY <1>1, <1>2, <1>3

LEMMA ServeInit == Init => ServeInv
  BY DEF Init, ConfigInit, ServeInv

LEMMA ServeKeeps ==
    ASSUME ServeInv, [Next]_vars
    PROVE  ServeInv'
  BY ClassifyRequestKeeps, ReadBodyKeeps, ForwardKeeps, OtherStepsKeep DEF Next

\* What is shown of a request: of a pull, the image that is to be pulled.
ShownOf(q, c) ==
    [action |-> c.action, target |-> c.target,
     id |-> IF c.action = "pull" THEN q.image ELSE c.id,
     user |-> q.user, name |-> q.name, image |-> q.image, cmd |-> q.cmd]

\* A line is the request's command, and a match is the glob's.
ShownInv ==
    /\ line # Nil => request # Nil /\ line = DescribeCommand(ShownOf(request, class))
    /\ match # Nil =>
        /\ match.pattern \in Seq(STRING) /\ match.value \in Seq(STRING)
        /\ match.matches = DeepMatch(match.pattern, match.value)

LEMMA ShownInit == Init => ShownInv
  BY DEF Init, ShownInv

LEMMA ShownKeeps ==
    ASSUME ServeInv, ShownInv, [Next]_vars
    PROVE  ShownInv'
  <1>1. CASE UNCHANGED vars
    BY <1>1 DEF ShownInv, vars, requestVars
  <1>2. CASE ReadConfig \/ EndMatch \/ ReadBody \/ Forward
    BY <1>2 DEF ShownInv, ReadConfig, EndMatch, ReadBody, Forward, requestVars
  <1>3. CASE ClassifyRequest \/ EndRequest
    BY <1>3 DEF ServeInv, ShownInv, ClassifyRequest, EndRequest, Idle
  <1>4. CASE ShowCommand
    BY <1>4 DEF ShownInv, ShowCommand, ShownOf
  <1>5. CASE GlobMatch
    <2>1. PICK pv \in PatternValue :
                match' = [pattern |-> pv[1], value |-> pv[2],
                          matches |-> DeepMatch(pv[1], pv[2])]
      BY <1>5 DEF GlobMatch
    <2>2. /\ match'.pattern = pv[1] /\ match'.value = pv[2]
          /\ match'.matches = DeepMatch(pv[1], pv[2])
      BY <2>1
    <2>3. pv[1] \in Seq(STRING) /\ pv[2] \in Seq(STRING)
      BY IntakeAssumption
    <2>4. UNCHANGED requestVars
      BY <1>5 DEF GlobMatch
    <2> QED
      BY <2>2, <2>3, <2>4, Zenon DEF ShownInv, requestVars
  <1> QED
    BY <1>1, <1>2, <1>3, <1>4, <1>5 DEF Next

\* What follows for the request that is served.
LEMMA Unambiguous ==
    ASSUME ServeInv
    PROVE  RoutesUnambiguous
  BY ClassifyIs, IntakeAssumption DEF ServeInv, RoutesUnambiguous

LEMMA ClassFits ==
    ASSUME ServeInv
    PROVE  ClassFitsEngine
  BY ClassIs DEF ClassExpected, ClassFitsEngine

LEMMA InspectedFirst ==
    ASSUME ServeInv
    PROVE  InspectedAsForwarded
  BY DEF ServeInv, InspectedAsForwarded

LEMMA MatchIs ==
    ASSUME ShownInv
    PROVE  GlobMatchesLanguage
  <1>. SUFFICES ASSUME match # Nil
                PROVE  match.matches = InLanguage(match.pattern, match.value)
    BY DEF GlobMatchesLanguage
  <1>. DEFINE found == DeepMatch(match.pattern, match.value)
              belongs == InLanguage(match.pattern, match.value)
  <1>1. found <=> belongs
    BY SearchFindsLanguage DEF ShownInv
  <1>2. found \in BOOLEAN
    BY DEF DeepMatch
  <1>3. belongs \in BOOLEAN
    BY DEF InLanguage, Cut
  <1>4. match.matches = found
    BY DEF ShownInv
  <1>. HIDE DEF found, belongs
  <1>5. found = belongs
    BY <1>1, <1>2, <1>3
  <1> QED
    BY <1>4, <1>5, Zenon DEF belongs

LEMMA StringsAreText ==
    /\ \A s \in Seq(STRING) : s \in Text
    /\ \A ws \in Seq(Seq(STRING)) : ws \in Seq(Text)
  <1>1. STRING \subseteq Letter
    BY DEF Letter
  <1>2. \A s \in Seq(STRING) : s \in Seq(Letter)
    BY <1>1, SeqMonotonic
  <1>3. \A ws \in Seq(Seq(STRING)) : ws \in Seq(Seq(Letter))
    BY <1>2, SeqMonotonic
  <1> QED
    BY <1>2, <1>3, Zenon DEF Text

LEMMA LineIs ==
    ASSUME ServeInv, ShownInv
    PROVE  CommandReadsBack
  <1>. SUFFICES ASSUME line # Nil
                PROVE  CommandReadsBack
    BY DEF CommandReadsBack
  <1>. DEFINE q == ShownOf(request, class)
              meant == [action |-> class.action, id |-> class.id,
                        user |-> request.user, name |-> request.name,
                        image |-> request.image, cmd |-> request.cmd]
  <1>1. /\ request # Nil /\ request \in Request /\ line = DescribeCommand(q)
        /\ ClassExpected(request.method, class)
    BY ClassIs DEF ServeInv, ShownInv
  <1>2. /\ q.action = class.action /\ q.target = class.target /\ q.cmd = request.cmd
        /\ q.id = IF class.action = "pull" THEN request.image ELSE class.id
        /\ q.user = request.user /\ q.name = request.name /\ q.image = request.image
    BY DEF ShownOf
  <1>3. /\ request.user \in Text /\ request.name \in Text /\ request.image \in Text
        /\ class.id \in Text /\ CmdFits(request.cmd)
    <2>1. /\ request.user \in Seq(STRING) /\ request.name \in Seq(STRING)
          /\ request.image \in Seq(STRING)
          /\ request.cmd.kind \in {"none", "list", "word"}
          /\ request.cmd.words \in Seq(Seq(STRING))
          /\ request.cmd.kind = "word" => Len(request.cmd.words) = 1
      BY <1>1, IntakeAssumption
    <2>2. class.id \in Seq(STRING)
      BY <1>1 DEF ClassExpected
    <2> QED
      BY <2>1, <2>2, StringsAreText DEF CmdFits
  <1>. HIDE DEF q
  <1>4. q.id \in Text
    BY <1>2, <1>3
  <1>5. ASSUME class.action \in {"exec", "create"}
        PROVE  ShellRead(line) = Words(meant)
    <2>1. class.target = "container" /\ class.action # "pull"
      BY <1>1, <1>5 DEF ClassExpected, NeedsBodyInspection
    <2>2. ShellRead(DescribeCommand(q)) = Words(q)
      BY <1>2, <1>3, <1>4, <1>5, <2>1, CommandLineReads
    <2>3. /\ meant.action = q.action /\ meant.id = q.id /\ meant.user = q.user
          /\ meant.name = q.name /\ meant.image = q.image /\ meant.cmd = q.cmd
      BY <1>2, <2>1
    <2>. HIDE DEF meant
    <2>4. Words(meant) = Words(q)
      BY <2>3, Zenon DEF Words
    <2> QED
      BY <1>1, <2>2, <2>4, Zenon
  <1>6. ASSUME class.target \in {"container", "image", "volume", "network"},
               class.action \notin {"exec", "archive.read", "archive.write"},
               class.id # <<>>
        PROVE  Last(ShellRead(line)) = class.id
    <2>1. class.action \in Letter /\ class.action \notin Marks
      BY <1>1, <1>6 DEF ClassExpected
    <2>2. class.action # "pull"
      BY <1>1, <1>6 DEF ClassExpected
    <2>3. class.action # "create"
      <3>1. SUFFICES ASSUME class.action = "create"
                     PROVE  FALSE
        OBVIOUS
      <3>2. class.target = "container" /\ Len(class.id) = 0
        BY <1>1, <3>1 DEF ClassExpected, NeedsBodyInspection
      <3>3. class.id \in Seq(STRING)
        BY <1>1 DEF ClassExpected
      <3> QED
        BY <1>6, <3>2, <3>3, EmptySeq
    <2>4. q.id = class.id
      BY <1>2, <2>2
    <2>5. Last(ShellRead(DescribeCommand(q))) = q.id
      BY <1>2, <1>4, <1>6, <2>1, <2>3, <2>4, ObjectLineReads
    <2> QED
      BY <1>1, <2>4, <2>5, Zenon
  <1> QED
    BY <1>5, <1>6, Zenon DEF CommandReadsBack, meant

-----------------------------------------------------------------------------
\* The invariant of Intake

IntakeInv == IInv /\ FieldsKnown /\ ServeInv

LEMMA IntakeInit == Init => IntakeInv
  <1>1. Init => IInv
    BY InitHolds DEF Init
  <1> QED
    BY <1>1, ServeInit DEF Init, ConfigInit, IntakeInv, FieldsKnown

\* Every step reads configuration or leaves it alone.
LEMMA ConfigSteps ==
    ASSUME [Next]_vars
    PROVE  [ConfigNext]_configVars
  BY DEF Next, vars, ReadConfig, ClassifyRequest, ReadBody, ShowCommand, Forward, EndRequest,
         GlobMatch, EndMatch

LEMMA IntakeKeeps ==
    ASSUME FailedIsNoConfig, IntakeInv, [Next]_vars
    PROVE  IntakeInv'
  <1>1. IInv' /\ FieldsKnown'
    BY ConfigSteps, NextKeeps, ConfigStepKnown DEF IntakeInv
  <1> QED
    BY <1>1, ServeKeeps DEF IntakeInv

LEMMA Typed ==
    ASSUME IntakeInv
    PROVE  TypeOK
  <1>1. ConfigTypeOK
    BY ConfigTyped DEF IntakeInv
  <1>2. Cardinality({v \in {source, request, match} : v # Nil}) <= 1
    <2>. DEFINE busy == {v \in {source, request, match} : v # Nil}
    <2>1. busy = {} \/ busy = {source} \/ busy = {request} \/ busy = {match}
      BY DEF IntakeInv, ServeInv
    <2>. HIDE DEF busy
    <2>2. Cardinality(busy) \in {0, 1}
      BY <2>1, FS_EmptySet, FS_Singleton
    <2> QED
      BY <2>2 DEF busy
  <1> QED
    BY <1>1, <1>2 DEF IntakeInv, ServeInv, TypeOK

-----------------------------------------------------------------------------
\* The proxies at a path: createListener

(***************************************************************************)
(* A proxy whose start none other overlaps, and from which nobody takes a  *)
(* socket, finds at the path, call after call, what the calls before have  *)
(* left there; only where they left nothing a file may have been put.      *)
(***************************************************************************)
Undisturbed(p) ==
    /\ \A q \in Proc \ {p} : pc[q] \notin Path!Starting
    /\ pc[p] = "remove" => socketPath \notin {"nothing", "file"}
    /\ pc[p] = "listen" => socketPath \in {"nothing", "file"}
    /\ pc[p] \in {"chmod", "serving"} => socketPath = p
    /\ pc[p] # "close"

PathInv ==
    /\ Path!TypeOK
    /\ \A p \in Proc : pc[p] # "off" /\ Path!Alone(p) => Undisturbed(p)

LEMMA PathInit == Path!Init => PathInv
  BY ProgramAssumption DEF Path!Init, PathInv, Path!Alone, Path!TypeOK, Path!Starting, Path!Other

\* The start of one proxy overtakes those that run.
LEMMA StartKeeps ==
    ASSUME PathInv, NEW p \in Proc, Path!Start(p)
    PROVE  PathInv'
  BY ProgramAssumption DEF PathInv, Path!Alone, Undisturbed, Path!TypeOK, Path!Start, Path!Goto, Path!Starting, Path!Other

LEMMA CallKeeps ==
    ASSUME PathInv, NEW p \in Proc, Path!CreateListener(p)
    PROVE  PathInv'
  <1>1. CASE Path!Lstat(p)
    BY <1>1, ProgramAssumption DEF PathInv, Path!Alone, Undisturbed, Path!TypeOK, Path!Lstat, Path!Goto, Path!Starting, Path!Other
  <1>2. CASE Path!Remove(p)
    BY <1>2, ProgramAssumption DEF PathInv, Path!Alone, Undisturbed, Path!TypeOK, Path!Remove, Path!Goto, Path!Starting, Path!Other
  <1>3. CASE Path!Listen(p)
    BY <1>3, ProgramAssumption DEF PathInv, Path!Alone, Undisturbed, Path!TypeOK, Path!Listen, Path!Goto, Path!Starting, Path!Other
  <1>4. CASE Path!Chmod(p)
    BY <1>4, ProgramAssumption DEF PathInv, Path!Alone, Undisturbed, Path!TypeOK, Path!Chmod, Path!Goto, Path!Starting, Path!Other
  <1>5. CASE Path!Close(p)
    BY <1>5, ProgramAssumption DEF PathInv, Path!Alone, Undisturbed, Path!TypeOK, Path!Close, Path!Goto, Path!Starting, Path!Other
  <1> QED
    BY <1>1, <1>2, <1>3, <1>4, <1>5 DEF Path!CreateListener

LEMMA StopKeeps ==
    ASSUME PathInv, NEW p \in Proc, Path!Stop(p)
    PROVE  PathInv'
  BY ProgramAssumption DEF PathInv, Path!Alone, Undisturbed, Path!TypeOK, Path!Stop, Path!Starting, Path!Other

LEMMA MoveFileKeeps ==
    ASSUME PathInv, Path!MoveFile
    PROVE  PathInv'
  BY ProgramAssumption DEF PathInv, Path!Alone, Undisturbed, Path!TypeOK, Path!MoveFile, Path!Starting, Path!Other

\* A step of Program is a step of the proxies, or leaves them alone.
LEMMA PathSteps ==
    ASSUME [ProgramNext]_programVars
    PROVE  [Path!Next]_(Path!vars)
  BY DEF ProgramNext, programVars, pathVars, TakeIn, StartUp, Path!vars

LEMMA PathKeeps ==
    ASSUME PathInv, [Path!Next]_(Path!vars)
    PROVE  PathInv'
  <1>1. CASE UNCHANGED Path!vars
    BY <1>1 DEF Path!vars, PathInv, Path!Alone, Undisturbed, Path!TypeOK, Path!Starting, Path!Other
  <1>2. CASE Path!Next
    BY <1>2, StartKeeps, CallKeeps, StopKeeps, MoveFileKeeps DEF Path!Next
  <1> QED
    BY <1>1, <1>2

LEMMA PathInvariant == ProgramSpec => []PathInv
  <1>1. ProgramInit => PathInv
    BY PathInit DEF ProgramInit
  <1>2. PathInv /\ [ProgramNext]_programVars => PathInv'
    BY PathSteps, PathKeeps
  <1> QED
    BY <1>1, <1>2, PTL DEF ProgramSpec

(***************************************************************************)
(* main.go:89: however many proxies are given one path, whatever crashed   *)
(* ones have left and whenever others stop, clients reach the proxy that   *)
(* was started last, unless its start overlapped with another's or         *)
(* somebody else has taken its socket away.                                *)
(***************************************************************************)
THEOREM LastStartedInvariant == ProgramSpec => []LastStartedReached
  <1>1. PathInv => LastStartedReached
    BY DEF PathInv, Undisturbed, LastStartedReached, Path!LastStartedReached
  <1> QED
    BY <1>1, PathInvariant, PTL

(***************************************************************************)
(* createListener: a start fails for a file that is no socket, because     *)
(* another start overlaps with it or follows, or because somebody else     *)
(* takes away the socket it was to remove or its own; nothing a crash has  *)
(* left makes it fail.                                                     *)
(***************************************************************************)
THEOREM FailsProperty == ProgramSpec => FailsForAReason
  <1>1. PathInv /\ [Path!Next]_(Path!vars)
        => [\A p \in Proc : pc[p] # "failed" /\ pc'[p] = "failed" /\ Path!Alone(p)
                => socketPath = "file"]_(Path!vars)
    <2>. SUFFICES ASSUME PathInv, Path!Next, NEW p \in Proc,
                         pc[p] # "failed", pc'[p] = "failed", Path!Alone(p)
                  PROVE  socketPath = "file"
      OBVIOUS
    <2>1. Undisturbed(p) \/ pc[p] = "off"
      BY DEF PathInv
    <2>2. Path!CreateListener(p)
      <3>1. ASSUME NEW q \in Proc, Path!Start(q) \/ Path!Stop(q)
            PROVE  FALSE
        BY <3>1 DEF PathInv, Path!TypeOK, Path!Start, Path!Stop, Path!Goto
      <3>2. ASSUME NEW q \in Proc, Path!CreateListener(q)
            PROVE  p = q
        BY <3>2 DEF PathInv, Path!TypeOK, Path!CreateListener, Path!Lstat, Path!Remove,
                    Path!Listen, Path!Chmod, Path!Close, Path!Goto
      <3>3. ~Path!MoveFile
        BY DEF Path!MoveFile
      <3> QED
        BY <3>1, <3>2, <3>3 DEF Path!Next
    <2>3. pc[p] # "close" /\ (pc[p] = "remove" => socketPath # "nothing")
      BY <2>1 DEF Undisturbed
    <2>4. pc[p] = "listen" => socketPath \in {"nothing", "file"}
      BY <2>1 DEF Undisturbed
    <2>5. CASE Path!Lstat(p)
      BY <2>5 DEF PathInv, Path!TypeOK, Path!Lstat, Path!Goto
    <2>6. CASE Path!Remove(p) \/ Path!Listen(p)
      BY <2>3, <2>4, <2>6 DEF PathInv, Path!TypeOK, Path!Remove, Path!Listen, Path!Goto
    <2>7. CASE Path!Chmod(p) \/ Path!Close(p)
      BY <2>3, <2>7 DEF PathInv, Path!TypeOK, Path!Chmod, Path!Close, Path!Goto
    <2> QED
      BY <2>2, <2>5, <2>6, <2>7 DEF Path!CreateListener
  <1>2. PathInv /\ [ProgramNext]_programVars
        => [\A p \in Proc : pc[p] # "failed" /\ pc'[p] = "failed" /\ Path!Alone(p)
                => socketPath = "file"]_(Path!vars)
    BY <1>1, PathSteps
  <1> QED
    BY <1>2, PathInvariant, PTL DEF ProgramSpec, FailsForAReason, Path!FailsForAReason

(***************************************************************************)
(* main.go:89-93: with others free to replace what is at the path between  *)
(* any two calls, a start removes a file that is no socket only if it took *)
(* the place of a socket that Lstat had seen, or if another start overlaps *)
(* with it: never a file that Lstat sees, and none put where there was     *)
(* nothing.                                                                *)
(***************************************************************************)
THEOREM FileKeptProperty == ProgramSpec => FileKept
  <1>1. PathInv /\ [Path!Next]_(Path!vars)
        => [\A p \in Proc : socketPath = "file" /\ socketPath' # "file" /\ pc'[p] # pc[p]
                => ~Path!Alone(p)]_(Path!vars)
    <2>. SUFFICES ASSUME PathInv, Path!Next, NEW p \in Proc, socketPath = "file",
                         socketPath' # "file", pc'[p] # pc[p]
                  PROVE  ~Path!Alone(p)
      OBVIOUS
    <2>1. "file" \notin Proc
      BY ProgramAssumption DEF Path!Other
    <2>2. Path!Remove(p) \/ Path!Close(p)
      <3>1. ASSUME NEW q \in Proc, Path!Start(q) \/ Path!Stop(q)
            PROVE  FALSE
        BY <2>1, <3>1 DEF Path!Start, Path!Stop
      <3>2. ASSUME NEW q \in Proc, Path!CreateListener(q)
            PROVE  p = q /\ (Path!Remove(p) \/ Path!Close(p))
        BY <3>2 DEF PathInv, Path!TypeOK, Path!CreateListener, Path!Lstat, Path!Remove,
                    Path!Listen, Path!Chmod, Path!Close, Path!Goto
      <3>3. ~Path!MoveFile
        BY DEF Path!MoveFile
      <3> QED
        BY <3>1, <3>2, <3>3 DEF Path!Next
    <2>3. pc[p] \in {"remove", "close"}
      BY <2>2 DEF Path!Remove, Path!Close, Path!Goto
    <2> QED
      BY <2>3 DEF PathInv, Undisturbed
  <1>2. PathInv /\ [ProgramNext]_programVars
        => [\A p \in Proc : socketPath = "file" /\ socketPath' # "file" /\ pc'[p] # pc[p]
                => ~Path!Alone(p)]_(Path!vars)
    BY <1>1, PathSteps
  <1> QED
    BY <1>2, PathInvariant, PTL DEF ProgramSpec, FileKept, Path!FileKept

-----------------------------------------------------------------------------
\* The intake of configuration and requests

\* A step of Program is a step of Intake, or leaves it alone.
LEMMA IntakeSteps ==
    ASSUME [ProgramNext]_programVars
    PROVE  [Next]_vars
  BY DEF ProgramNext, programVars, TakeIn, StartUp

LEMMA ServeInvariant == ProgramSpec => []ServeInv
  <1>1. ProgramInit => ServeInv
    BY ServeInit DEF ProgramInit
  <1>2. ServeInv /\ [ProgramNext]_programVars => ServeInv'
    BY IntakeSteps, ServeKeeps
  <1> QED
    BY <1>1, <1>2, PTL DEF ProgramSpec

LEMMA IntakeInvariant ==
    ASSUME FailedIsNoConfig
    PROVE  ProgramSpec => []IntakeInv
  <1>1. ProgramInit => IntakeInv
    BY IntakeInit DEF ProgramInit
  <1>2. IntakeInv /\ [ProgramNext]_programVars => IntakeInv'
    BY IntakeSteps, IntakeKeeps
  <1> QED
    BY <1>1, <1>2, PTL DEF ProgramSpec

(***************************************************************************)
(* Both parts of the program keep their types: an exchange of one request  *)
(* at a time, builders of known fields, a live proxy's socket at the path. *)
(***************************************************************************)
THEOREM TypeInvariant ==
    ASSUME FailedIsNoConfig
    PROVE  ProgramSpec => []ProgramTypeOK
  <1>1. IntakeInv /\ PathInv => ProgramTypeOK
    BY Typed DEF PathInv, ProgramTypeOK
  <1> QED
    BY <1>1, IntakeInvariant, PathInvariant, PTL

(***************************************************************************)
(* Classify: whatever is requested, every route that fits it says the same *)
(* of it, so that the order of the table does not matter.                  *)
(***************************************************************************)
THEOREM RoutesInvariant == ProgramSpec => []RoutesUnambiguous
  <1>1. ServeInv => RoutesUnambiguous
    BY Unambiguous
  <1> QED
    BY <1>1, ServeInvariant, PTL

(***************************************************************************)
(* Classify: of whatever path and method, it gives a class that the engine *)
(* and the handler can deal with.                                          *)
(***************************************************************************)
THEOREM ClassInvariant == ProgramSpec => []ClassFitsEngine
  <1>1. ServeInv => ClassFitsEngine
    BY ClassFits
  <1> QED
    BY <1>1, ServeInvariant, PTL

(***************************************************************************)
(* ServeHTTP: whatever the limit and the length of the body, an exec or    *)
(* create is forwarded with all of its body read, an exec to be recorded.  *)
(***************************************************************************)
THEOREM InspectedInvariant == ProgramSpec => []InspectedAsForwarded
  <1>1. ServeInv => InspectedAsForwarded
    BY InspectedFirst
  <1> QED
    BY <1>1, ServeInvariant, PTL

LEMMA ShownInvariant == ProgramSpec => []ShownInv
  <1>1. ProgramInit => ShownInv
    BY ShownInit DEF ProgramInit
  <1>2. ServeInv /\ ShownInv /\ [ProgramNext]_programVars => ShownInv'
    BY IntakeSteps, ShownKeeps
  <1> QED
    BY <1>1, <1>2, ServeInvariant, PTL DEF ProgramSpec

(***************************************************************************)
(* describeCommand: whatever characters the words of an exec or create, or *)
(* the name of an object, are made of, a shell reads the line the user is  *)
(* asked about as these words.                                             *)
(***************************************************************************)
THEOREM CommandInvariant == ProgramSpec => []CommandReadsBack
  <1>1. ServeInv /\ ShownInv => CommandReadsBack
    BY LineIs
  <1> QED
    BY <1>1, ServeInvariant, ShownInvariant, PTL

(***************************************************************************)
(* deepMatch: for globs and values of any length, the search for the share *)
(* of each star finds the strings of the glob's language, and these only.  *)
(***************************************************************************)
THEOREM MatchInvariant == ProgramSpec => []GlobMatchesLanguage
  <1>1. ShownInv => GlobMatchesLanguage
    BY MatchIs
  <1> QED
    BY <1>1, ShownInvariant, PTL

(***************************************************************************)
(* main: a program is its parts, each undisturbed by the other; what is    *)
(* proved of the reading of configuration alone holds of it too.           *)
(***************************************************************************)
THEOREM PartsOfProgram == ProgramSpec => Spec /\ ConfigSpec /\ Path!Spec
  <1>1. ProgramInit => Init /\ ConfigInit /\ Path!Init
    BY DEF ProgramInit, Init
  <1>2. [ProgramNext]_programVars
            => [Next]_vars /\ [ConfigNext]_configVars /\ [Path!Next]_(Path!vars)
    BY IntakeSteps, ConfigSteps, PathSteps
  <1> QED
    BY <1>1, <1>2, PTL DEF ProgramSpec, Spec, ConfigSpec, Path!Spec
=============================================================================
