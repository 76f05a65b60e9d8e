----------------------------- MODULE TunnelProofs -----------------------------
(***************************************************************************)
(* Proofs about Tunnel, for any number of bytes and any room for them: its *)
(* type invariant, that neither direction loses bytes because the other    *)
(* ended, and that the handler leaves nothing behind.                      *)
(***************************************************************************)
EXTENDS Tunnel, TLAPS, SequenceTheorems

-----------------------------------------------------------------------------
\* The inductive invariant

(***************************************************************************)
(* What the channel holds, by the place of the handler: the copiers that   *)
(* have finished and whose message it has not taken.                       *)
(***************************************************************************)
Idle(c)     == copier[c] = "idle"
Finished(c) == copier[c] = "finished"

DoneNone == done = <<>> /\ \A c \in Conn : ~Finished(c)
DoneOne  == \E c \in Conn : done = <<c>> /\ Finished(c) /\ ~Finished(Other(c))
DoneBoth == \E c \in Conn : done = <<c, Other(c)>> /\ \A d \in Conn : Finished(d)

\* The message of t's copier has been taken.
Taken(t) ==
    /\ Finished(t)
    /\ IF Finished(Other(t)) THEN done = <<Other(t)>> ELSE done = <<>>

\* What the handler has done to its ends of the connections.
Untouched(c) == side[c] \in {"open", "shut"}
Closed(c)    == side[c] = "closed"

(***************************************************************************)
(* Where the handler is says which copiers are under way, what the channel *)
(* holds and which connections are closed.                                 *)
(***************************************************************************)
Flow ==
    /\ pc \in {"hijack", "dial", "refused"} =>
        /\ \A c \in Conn : Idle(c)
        /\ done = <<>> /\ side["client"] = "open" /\ side["daemon"] = "none"
    /\ pc = "request" =>
        /\ \A c \in Conn : Idle(c) /\ side[c] = "open"
        /\ done = <<>>
    /\ pc = "relay" =>
        /\ \A c \in Conn : ~Idle(c) /\ Untouched(c)
        /\ DoneNone \/ DoneOne \/ DoneBoth
    /\ pc = "closing" =>
        /\ \A c \in Conn : ~Idle(c) /\ Untouched(c)
        /\ Taken("daemon")
    /\ pc = "closing daemon" =>
        /\ ~Idle("client") /\ Taken("daemon")
        /\ Closed("client") /\ Untouched("daemon")
    /\ pc = "drain" =>
        /\ \A c \in Conn : ~Idle(c)
        /\ \/ Taken("daemon") /\ Closed("client") /\ Closed("daemon")
           \/ Taken("client") /\ Untouched("client") /\ Untouched("daemon")
    /\ pc = "done" =>
        /\ done = <<>> /\ Closed("client")
        /\ Closed("daemon") \/ side["daemon"] = "none"
        /\ (\A c \in Conn : Idle(c)) \/ (\A c \in Conn : Finished(c))

\* A direction is shut by its copier, once it has stopped reading.
ShutByCopier ==
    \A c \in Conn : side[Other(c)] = "shut" => copier[c] \in {"ended", "finished"}

\* The handler has not closed the connection under the copier that reads from c.
Undisturbed(c) == c = "client" => ~Closed("client")

\* None are dropped on the way to a peer that reads and was not cut off.
Kept(c) ==
    /\ peer[c] # "aborted" /\ Reads(Other(c)) /\ Other(c) \notin reset
    /\ Undisturbed(c)
    => in[c] + hold[c] + out[Other(c)] + received[Other(c)] = sent[c]

\* A copier stops only when there is no more to copy, or nobody to copy it to.
Drained(c) ==
    /\ copier[c] \in {"ending", "ended", "finished"}
    /\ Reads(Other(c)) /\ Undisturbed(c)
    => peer[c] # "open" /\ in[c] = 0

(***************************************************************************)
(* The bytes from the peer at c to the other: some may be dropped, none    *)
(* are made up.                                                            *)
(***************************************************************************)
Direction(c) ==
    /\ hold[c] > 0 <=> copier[c] = "write"
    /\ sent[c] <= MaxSent[c] /\ out[Other(c)] <= Room
    /\ in[c] + hold[c] + out[Other(c)] + received[Other(c)] <= sent[c]
    /\ Other(c) \in reset => Closed(Other(c))
    /\ Kept(c) /\ Drained(c)

Control ==
    /\ pc \in {"hijack", "dial", "request", "relay", "closing",
               "closing daemon", "drain", "done", "refused"}
    /\ copier \in [Conn -> {"idle", "read", "write", "ending", "ended", "finished"}]
    /\ done \in Seq(Conn)
    /\ side \in [Conn -> {"none", "open", "shut", "closed"}]
    /\ peer \in [Conn -> {"open", "ended", "closed", "aborted"}]
    /\ reset \subseteq Conn

Counts ==
    /\ in \in [Conn -> Nat] /\ hold \in [Conn -> Nat] /\ out \in [Conn -> Nat]
    /\ sent \in [Conn -> Nat] /\ received \in [Conn -> Nat]

IInv ==
    /\ Control /\ Counts /\ Flow /\ ShutByCopier
    /\ \A c \in Conn : Direction(c)

-----------------------------------------------------------------------------

\* The two ends.
LEMMA Ends == \A c \in Conn : Other(c) \in Conn /\ Other(c) # c /\ Other(Other(c)) = c
  BY DEF Conn, Other

\* Two messages in the channel, and what is left when one has been taken.
LEMMA Pairs ==
    ASSUME NEW S, NEW a \in S, NEW b \in S
    PROVE  /\ Append(<<a>>, b) = <<a, b>>
           /\ Head(<<a, b>>) = a /\ Tail(<<a, b>>) = <<b>>
           /\ Head(<<a>>) = a /\ Tail(<<a>>) = <<>>
  <1>. DEFINE s == Append(<<a>>, b)
              t == <<a, b>>
  <1>1. s \in Seq(S) /\ t \in Seq(S)
    OBVIOUS
  <1>2. Len(s) = 2 /\ s[1] = a /\ s[2] = b
    OBVIOUS
  <1>3. Len(t) = 2 /\ t[1] = a /\ t[2] = b
    OBVIOUS
  <1>4. ASSUME NEW i \in 1..Len(s)
        PROVE  s[i] = t[i]
    <2>1. i = 1 \/ i = 2
      BY <1>2
    <2> QED
      BY <1>2, <1>3, <2>1
  <1>5. s = t
    <2>. HIDE DEF s, t
    <2> QED
      BY <1>1, <1>2, <1>3, <1>4, SeqEqual
  <1>6. Head(<<a, b>>) = a /\ Tail(<<a, b>>) = <<b>>
    OBVIOUS
  <1>7. Head(<<a>>) = a /\ Tail(<<a>>) = <<>>
    OBVIOUS
  <1> QED
    BY <1>5, <1>6, <1>7

\* A step of a peer disturbs nothing of the handler's.
LEMMA HandlerStays ==
    ASSUME Flow, ShutByCopier, UNCHANGED handler
    PROVE  Flow' /\ ShutByCopier'
  BY DEF Flow, ShutByCopier, handler, Idle, Finished, DoneNone, DoneOne, DoneBoth,
         Taken, Untouched, Closed

\* All counts are numbers.
LEMMA Numbers ==
    ASSUME Counts, NEW c \in Conn
    PROVE  /\ in[c] \in Nat /\ hold[c] \in Nat /\ out[Other(c)] \in Nat
           /\ sent[c] \in Nat /\ received[Other(c)] \in Nat
  BY Ends DEF Counts

\* The type invariant, from what is known of the channel and the bytes.
LEMMA TypeFollows == IInv => TypeOK
  <1>1. ASSUME IInv, NEW c \in Conn
        PROVE  /\ hold[c] > 0 <=> copier[c] = "write"
               /\ in[c] <= sent[c] /\ hold[c] <= sent[c]
               /\ received[Other(c)] <= sent[c]
               /\ sent[c] <= MaxSent[c] /\ out[Other(c)] <= Room
    BY <1>1, Numbers DEF IInv, Direction
  <1>2. ASSUME IInv
        PROVE  done \in Seq(Conn) /\ Len(done) <= 2
    <2>1. \/ done = <<>>
          \/ \E c \in Conn : done = <<c>> \/ done = <<c, Other(c)>>
      <3>1. Flow /\ Control
        BY <1>2 DEF IInv
      <3>2. ASSUME NEW c \in Conn, Taken(c)
            PROVE  done = <<>> \/ \E d \in Conn : done = <<d>>
        BY <3>2, Ends DEF Taken
      <3>3. CASE pc = "relay"
        BY <3>1, <3>3 DEF Flow, DoneNone, DoneOne, DoneBoth
      <3>4. CASE pc \in {"closing", "closing daemon", "drain"}
        BY <3>1, <3>2, <3>4 DEF Flow, Conn
      <3>5. CASE pc \in {"hijack", "dial", "request", "done", "refused"}
        BY <3>1, <3>5 DEF Flow
      <3> QED
        BY <3>1, <3>3, <3>4, <3>5 DEF Control
    <2>2. ASSUME done = <<>>
          PROVE  Len(done) = 0
      BY <2>2
    <2>3. ASSUME NEW c, done = <<c>>
          PROVE  Len(done) = 1
      BY <2>3
    <2>4. ASSUME NEW c, done = <<c, Other(c)>>
          PROVE  Len(done) = 2
      BY <2>4
    <2>5. Len(done) \in {0, 1, 2}
      BY <2>1, <2>2, <2>3, <2>4, Zenon
    <2>6. Len(done) <= 2
      BY <2>5
    <2>7. done \in Seq(Conn)
      BY <1>2 DEF IInv, Control
    <2> QED
      BY <2>6, <2>7
  <1>3. ASSUME IInv, NEW c \in Conn
        PROVE  received[c] <= sent[Other(c)] /\ out[c] <= Room
    BY <1>3, <1>1, Ends
  <1> QED
    BY <1>1, <1>2, <1>3 DEF IInv, Control, Counts, TypeOK

(***************************************************************************)
(* A connection is closed only when the output has ended, or before there  *)
(* is a tunnel; and the client's first.                                    *)
(***************************************************************************)
LEMMA ClosedWhen ==
    ASSUME Control, Flow
    PROVE  /\ Closed("client") => copier["daemon"] \in {"idle", "finished"}
           /\ Closed("daemon") => Closed("client")
  BY DEF Control, Flow, Closed, Untouched, Taken, Idle, Finished, Conn

-----------------------------------------------------------------------------
\* The peers

\* A peer sends a byte.
LEMMA SendKeeps ==
    ASSUME IInv, NEW c \in Conn, Send(c)
    PROVE  IInv'
  <1>1. Control'
    BY DEF IInv, Send, Control, handler
  <1>2. Counts'
    BY DEF IInv, Send, Sends, Counts, handler
  <1>3. Flow' /\ ShutByCopier'
    BY HandlerStays DEF IInv, Send
  <1>4. ASSUME NEW d \in Conn
        PROVE  Direction(d)'
    <2>1. /\ in'[d] = IF d = c THEN in[d] + 1 ELSE in[d]
          /\ sent'[d] = IF d = c THEN sent[d] + 1 ELSE sent[d]
          /\ d = c => peer[d] = "open" /\ sent[d] < MaxSent[d]
          /\ UNCHANGED <<copier, hold, side, peer, out, received, reset>>
      BY DEF IInv, Counts, Send, Sends, handler
    <2>2. Direction(d) /\ Counts /\ MaxSent[d] \in Nat
      BY TunnelAssumption DEF IInv
    <2> QED
      BY <2>1, <2>2, Numbers
      DEF Direction, Kept, Drained, Reads, Undisturbed, Closed
  <1> QED
    BY <1>1, <1>2, <1>3, <1>4 DEF IInv

(***************************************************************************)
(* A peer sends one when the handler has closed its end: of a client's     *)
(* input nothing is claimed by then, and the daemon's copier has finished. *)
(***************************************************************************)
LEMMA SendUnreadKeeps ==
    ASSUME IInv, NEW c \in Conn, SendUnread(c)
    PROVE  IInv'
  <1>1. /\ peer[c] = "open" /\ Closed(c)
        /\ c = "daemon" => copier["daemon"] # "idle"
        /\ sent[c] < MaxSent[c] /\ sent' = [sent EXCEPT ![c] = @ + 1]
        /\ reset' = reset \cup {c}
        /\ UNCHANGED <<handler, copier, hold, side, peer, in, received>>
    BY DEF SendUnread, Sends, Present, Closed, handler
  <1>2. PICK n \in 0..out[c] : out' = [out EXCEPT ![c] = n]
    BY DEF SendUnread
  <1>3. Control'
    BY <1>1 DEF IInv, Control, handler
  <1>4. n \in Nat /\ Counts'
    BY <1>1, <1>2 DEF IInv, Counts
  <1>5. Flow' /\ ShutByCopier'
    BY <1>1, HandlerStays DEF IInv
  <1>6. ASSUME NEW d \in Conn
        PROVE  Direction(d)'
    <2>1. /\ sent'[d] = IF d = c THEN sent[d] + 1 ELSE sent[d]
          /\ out'[Other(d)] <= out[Other(d)] /\ out'[Other(d)] \in Nat
          /\ d = c => out'[Other(d)] = out[Other(d)]
          /\ Other(d) # c <=> d = c
      BY <1>1, <1>2, <1>4, Ends DEF IInv, Counts, Conn, Other
    <2>2. Direction(d) /\ Counts /\ MaxSent[d] \in Nat /\ Room \in Nat
      BY TunnelAssumption DEF IInv
    <2>3. CASE d # c
      BY <1>1, <2>1, <2>2, <2>3, Numbers
      DEF Direction, Kept, Drained, Reads, Undisturbed, Closed
    <2>4. CASE d = c
      <3>1. ~(Reads(Other(d)) /\ Undisturbed(d))
        <4>1. CASE c = "client"
          BY <1>1, <2>4, <4>1 DEF Undisturbed
        <4>2. CASE c = "daemon"
          <5>1. copier[d] = "finished"
            BY <1>1, <2>4, <4>2, ClosedWhen DEF IInv
          <5> QED
            BY <1>1, <2>2, <2>4, <5>1 DEF Direction, Drained
        <4> QED
          BY <4>1, <4>2 DEF Conn
      <3> QED
        BY <1>1, <2>1, <2>2, <2>4, <3>1, Numbers
        DEF Direction, Kept, Drained, Reads, Undisturbed, Closed
    <2> QED
      BY <2>3, <2>4
  <1> QED
    BY <1>3, <1>4, <1>5, <1>6 DEF IInv

\* A peer receives one.
LEMMA ReceiveKeeps ==
    ASSUME IInv, NEW c \in Conn, Receive(c)
    PROVE  IInv'
  <1>1. Control'
    BY DEF IInv, Receive, Control, handler
  <1>2. Counts'
    BY DEF IInv, Receive, Counts, handler, bytes
  <1>3. Flow' /\ ShutByCopier'
    BY HandlerStays DEF IInv, Receive
  <1>4. ASSUME NEW d \in Conn
        PROVE  Direction(d)'
    <2>1. /\ out'[Other(d)] = IF Other(d) = c THEN out[Other(d)] - 1 ELSE out[Other(d)]
          /\ received'[Other(d)] = IF Other(d) = c THEN received[Other(d)] + 1
                                                   ELSE received[Other(d)]
          /\ out[c] > 0
          /\ UNCHANGED <<copier, hold, side, peer, in, sent, reset>>
      BY Ends DEF IInv, Counts, Control, Receive, Reads, handler, bytes
    <2>2. Direction(d) /\ Counts /\ Room \in Nat
      BY TunnelAssumption DEF IInv
    <2>3. /\ out'[Other(d)] + received'[Other(d)] = out[Other(d)] + received[Other(d)]
          /\ out'[Other(d)] \in Nat /\ received'[Other(d)] \in Nat
          /\ out'[Other(d)] <= out[Other(d)]
      BY <2>1, <2>2, Numbers
    <2>4. UNCHANGED <<copier, hold, side, peer, in, sent, reset>>
      BY <2>1
    <2> QED
      BY <2>2, <2>3, <2>4, Numbers, Ends
      DEF Direction, Kept, Drained, Reads, Undisturbed, Closed
  <1> QED
    BY <1>1, <1>2, <1>3, <1>4 DEF IInv

\* A peer ends its direction.
LEMMA EndKeeps ==
    ASSUME IInv, NEW c \in Conn, End(c)
    PROVE  IInv'
  <1>1. Control'
    BY DEF IInv, End, Control, handler
  <1>2. Counts'
    BY DEF IInv, End, Counts, handler, bytes
  <1>3. Flow' /\ ShutByCopier'
    BY HandlerStays DEF IInv, End
  <1>4. ASSUME NEW d \in Conn
        PROVE  Direction(d)'
    <2>1. /\ peer'[d] = IF d = c THEN "ended" ELSE peer[d]
          /\ peer'[Other(d)] = IF Other(d) = c THEN "ended" ELSE peer[Other(d)]
          /\ peer[c] = "open"
          /\ UNCHANGED <<copier, hold, side, in, out, sent, received, reset>>
      BY Ends DEF IInv, Counts, Control, End, Reads, handler, bytes
    <2>2. Direction(d) /\ Counts
      BY DEF IInv
    <2> QED
      BY <2>1, <2>2, Numbers, Ends
      DEF Direction, Kept, Drained, Reads, Undisturbed, Closed
  <1> QED
    BY <1>1, <1>2, <1>3, <1>4 DEF IInv

\* A peer closes its connection.
LEMMA CloseKeeps ==
    ASSUME IInv, NEW c \in Conn, Close(c)
    PROVE  IInv'
  <1>1. Control'
    BY DEF IInv, Close, Control, handler
  <1>2. Counts'
    BY DEF IInv, Close, Counts, handler, bytes
  <1>3. Flow' /\ ShutByCopier'
    BY HandlerStays DEF IInv, Close
  <1>4. ASSUME NEW d \in Conn
        PROVE  Direction(d)'
    <2>1. /\ peer'[d] = IF d = c THEN "closed" ELSE peer[d]
          /\ peer'[Other(d)] = IF Other(d) = c THEN "closed" ELSE peer[Other(d)]
          /\ peer[c] \in {"open", "ended"}
          /\ UNCHANGED <<copier, hold, side, in, out, sent, received, reset>>
      BY Ends DEF IInv, Counts, Control, Close, Reads, handler, bytes
    <2>2. Direction(d) /\ Counts
      BY DEF IInv
    <2> QED
      BY <2>1, <2>2, Numbers, Ends
      DEF Direction, Kept, Drained, Reads, Undisturbed, Closed
  <1> QED
    BY <1>1, <1>2, <1>3, <1>4 DEF IInv

\* A peer is cut off.
LEMMA AbortKeeps ==
    ASSUME IInv, NEW c \in Conn, Abort(c)
    PROVE  IInv'
  <1>1. Control'
    BY DEF IInv, Abort, Control, handler
  <1>2. Counts'
    BY DEF IInv, Abort, Counts, handler, bytes
  <1>3. Flow' /\ ShutByCopier'
    BY HandlerStays DEF IInv, Abort
  <1>4. ASSUME NEW d \in Conn
        PROVE  Direction(d)'
    <2>1. /\ peer'[d] = IF d = c THEN "aborted" ELSE peer[d]
          /\ peer'[Other(d)] = IF Other(d) = c THEN "aborted" ELSE peer[Other(d)]
          /\ in'[d] = IF d = c THEN 0 ELSE in[d]
          /\ UNCHANGED <<copier, hold, side, out, sent, received, reset>>
      BY Ends DEF IInv, Counts, Control, Abort, Reads, handler, bytes
    <2>2. Direction(d) /\ Counts
      BY DEF IInv
    <2> QED
      BY <2>1, <2>2, Numbers, Ends
      DEF Direction, Kept, Drained, Reads, Undisturbed, Closed
  <1> QED
    BY <1>1, <1>2, <1>3, <1>4 DEF IInv

-----------------------------------------------------------------------------
\* The copiers

\* A copier that is under way, and stays so, disturbs nothing of the handler's.
LEMMA UnderWay ==
    ASSUME Control, Flow, ShutByCopier, NEW c \in Conn,
           NEW from \in {"read", "write"}, NEW to \in {"read", "write", "ending"},
           Copier(c, from, to), UNCHANGED <<pc, done, side, peer, reset>>
    PROVE  Control' /\ Flow' /\ ShutByCopier'
  <1>. DEFINE At == {"idle", "read", "write", "ending", "ended", "finished"}
  <1>1. /\ copier \in [Conn -> At]
        /\ copier[c] = from /\ copier' = [copier EXCEPT ![c] = to]
    BY DEF Control, Copier
  <1>2. copier' \in [Conn -> At]
    BY <1>1
  <1>3. \A d \in Conn : /\ Idle(d)' <=> Idle(d)
                        /\ Finished(d)' <=> Finished(d)
                        /\ copier'[d] = copier[d]
                           \/ copier[d] \notin {"ended", "finished"}
    BY <1>1 DEF Idle, Finished
  <1>4. Flow'
    BY <1>3, Ends DEF Flow, DoneNone, DoneOne, DoneBoth, Taken, Untouched, Closed, Conn
  <1>5. ShutByCopier'
    BY <1>3, Ends DEF ShutByCopier
  <1>6. Control'
    BY <1>2 DEF Control
  <1> QED
    BY <1>4, <1>5, <1>6

\* What closed connections tell of the copiers.
LEMMA CopierClosed ==
    ASSUME IInv, NEW c \in Conn, copier[c] \in {"read", "write"}
    PROVE  /\ Closed(Other(c)) => ~Undisturbed(c)
           /\ Closed(c) => ~Undisturbed(c)
  BY ClosedWhen DEF IInv, Conn, Other, Undisturbed

\* A copier reads what is there.
LEMMA ReadKeeps ==
    ASSUME IInv, NEW c \in Conn, Read(c)
    PROVE  IInv'
  <1>1. Control' /\ Flow' /\ ShutByCopier'
    BY UnderWay DEF IInv, Read, bytes
  <1>2. Counts'
    <2>1. Counts /\ Other(c) \in Conn
      BY Ends DEF IInv
    <2> QED
      BY <2>1 DEF Read, Counts, bytes
  <1>3. ASSUME NEW d \in Conn
        PROVE  Direction(d)'
    <2>1. PICK n \in 1..in[c] :
            /\ in' = [in EXCEPT ![c] = @ - n]
            /\ hold' = [hold EXCEPT ![c] = n]
      BY DEF Read
    <2>2. Direction(d) /\ Direction(c) /\ Counts /\ Room \in Nat
      BY TunnelAssumption DEF IInv
    <2>3. /\ copier[c] = "read"
          /\ copier'[d] = IF d = c THEN "write" ELSE copier[d]
          /\ in'[d] = IF d = c THEN in[d] - n ELSE in[d]
          /\ hold'[d] = IF d = c THEN n ELSE hold[d]
          /\ UNCHANGED <<side, peer, out, sent, received, reset>>
      BY <2>1 DEF IInv, Counts, Control, Read, Copier
    <2>4. n \in Nat /\ n > 0 /\ n <= in[c]
      BY <2>1, <2>2, Numbers
    <2> QED
      BY <2>2, <2>3, <2>4, Numbers, Ends
      DEF Direction, Kept, Drained, Reads, Undisturbed, Closed
  <1> QED
    BY <1>1, <1>2, <1>3 DEF IInv

\* A copier has come to the end.
LEMMA ReadEndsKeeps ==
    ASSUME IInv, NEW c \in Conn, ReadEnds(c)
    PROVE  IInv'
  <1>1. Control' /\ Flow' /\ ShutByCopier'
    BY UnderWay DEF IInv, ReadEnds, bytes
  <1>2. Counts'
    <2>1. Counts /\ Other(c) \in Conn
      BY Ends DEF IInv
    <2> QED
      BY <2>1 DEF ReadEnds, Counts, bytes
  <1>3. ASSUME NEW d \in Conn
        PROVE  Direction(d)'
    <2>1. /\ copier[c] = "read"
          /\ copier'[d] = IF d = c THEN "ending" ELSE copier[d]
          /\ Undisturbed(c) => peer[c] # "open" /\ in[c] = 0
          /\ UNCHANGED <<hold, side, peer, in, out, sent, received, reset>>
      <3>1. copier \in [Conn -> {"idle", "read", "write", "ending", "ended", "finished"}]
        BY DEF IInv, Control
      <3>2. Closed(c) => ~Undisturbed(c)
        BY CopierClosed DEF ReadEnds, Copier
      <3> QED
        BY <3>1, <3>2 DEF ReadEnds, Copier, Closed, bytes
    <2>2. Direction(d) /\ Direction(c) /\ Counts /\ Room \in Nat
      BY TunnelAssumption DEF IInv
    <2> QED
      BY <2>1, <2>2, Numbers, Ends
      DEF Direction, Kept, Drained, Reads, Undisturbed, Closed
  <1> QED
    BY <1>1, <1>2, <1>3 DEF IInv

\* A copier writes a byte.
LEMMA WriteKeeps ==
    ASSUME IInv, NEW c \in Conn, Write(c)
    PROVE  IInv'
  <1>1. Control' /\ Flow' /\ ShutByCopier'
    BY UnderWay DEF IInv, Write, bytes
  <1>2. Counts'
    <2>1. Counts /\ Other(c) \in Conn /\ hold[c] > 0
      BY Ends DEF IInv, Write, Copier, Direction
    <2> QED
      BY <2>1 DEF Write, Counts, bytes
  <1>3. ASSUME NEW d \in Conn
        PROVE  Direction(d)'
    <2>1. /\ copier[c] = "write"
          /\ copier'[d] = IF d = c THEN IF hold[c] = 1 THEN "read" ELSE "write"
                          ELSE copier[d]
          /\ hold'[d] = IF d = c THEN hold[d] - 1 ELSE hold[d]
          /\ out'[Other(d)] = IF d = c /\ Reads(Other(c)) THEN out[Other(d)] + 1
                              ELSE out[Other(d)]
          /\ Reads(Other(c)) => out[Other(c)] < Room
          /\ UNCHANGED <<side, peer, in, sent, received, reset>>
      BY Ends DEF IInv, Counts, Control, Write, Copier
    <2>2. Direction(d) /\ Direction(c) /\ Counts /\ Room \in Nat
      BY TunnelAssumption DEF IInv
    <2> QED
      BY <2>1, <2>2, Numbers, Ends
      DEF Direction, Kept, Drained, Reads, Undisturbed, Closed
  <1> QED
    BY <1>1, <1>2, <1>3 DEF IInv

\* A copier cannot write.
LEMMA WriteFailsKeeps ==
    ASSUME IInv, NEW c \in Conn, WriteFails(c)
    PROVE  IInv'
  <1>1. Control' /\ Flow' /\ ShutByCopier'
    BY UnderWay DEF IInv, WriteFails, bytes
  <1>2. Counts'
    <2>1. Counts /\ Other(c) \in Conn
      BY Ends DEF IInv
    <2> QED
      BY <2>1 DEF WriteFails, Counts, bytes
  <1>3. ASSUME NEW d \in Conn
        PROVE  Direction(d)'
    <2>1. /\ copier[c] = "write"
          /\ copier'[d] = IF d = c THEN "ending" ELSE copier[d]
          /\ hold'[d] = IF d = c THEN 0 ELSE hold[d]
          /\ ~Undisturbed(c) \/ ~Reads(Other(c))
          /\ UNCHANGED <<side, peer, in, out, sent, received, reset>>
      BY CopierClosed DEF IInv, Control, Counts, WriteFails, Copier, Closed, bytes
    <2>2. Direction(d) /\ Direction(c) /\ Counts /\ Room \in Nat
      BY TunnelAssumption DEF IInv
    <2> QED
      BY <2>1, <2>2, Numbers, Ends
      DEF Direction, Kept, Drained, Reads, Undisturbed, Closed
  <1> QED
    BY <1>1, <1>2, <1>3 DEF IInv

\* A copier shuts the direction it has copied.
LEMMA CloseWriteKeeps ==
    ASSUME IInv, NEW c \in Conn, CloseWrite(c)
    PROVE  IInv'
  <1>. DEFINE At == {"idle", "read", "write", "ending", "ended", "finished"}
              On == {"none", "open", "shut", "closed"}
  <1>1. /\ copier \in [Conn -> At] /\ side \in [Conn -> On]
        /\ copier[c] = "ending" /\ copier' = [copier EXCEPT ![c] = "ended"]
        /\ side' = [side EXCEPT ![Other(c)] = IF @ = "open" THEN "shut" ELSE @]
        /\ UNCHANGED <<pc, hold, done, peer, bytes, reset>>
    BY DEF IInv, Control, CloseWrite, Copier
  <1>2. copier' \in [Conn -> At] /\ side' \in [Conn -> On]
    BY <1>1, Ends
  <1>3. \A d \in Conn :
            /\ copier'[d] = IF d = c THEN "ended" ELSE copier[d]
            /\ side'[Other(d)] = IF d = c /\ side[Other(d)] = "open" THEN "shut"
                                 ELSE side[Other(d)]
    BY <1>1, Ends
  <1>4. \A d \in Conn : /\ Idle(d)' <=> Idle(d)
                        /\ Finished(d)' <=> Finished(d)
                        /\ Untouched(d)' <=> Untouched(d)
                        /\ Closed(d)' <=> Closed(d)
                        /\ side'[d] = "none" <=> side[d] = "none"
    BY <1>1, Ends DEF Idle, Finished, Untouched, Closed
  <1>5. pc \in {"relay", "closing", "closing daemon", "drain"}
    BY <1>1 DEF IInv, Control, Flow, Idle, Finished
  <1>6. Flow'
    BY <1>1, <1>4, <1>5, Ends DEF IInv, Flow, DoneNone, DoneOne, DoneBoth, Taken, Conn
  <1>7. ShutByCopier'
    BY <1>3 DEF IInv, ShutByCopier
  <1>8. Control' /\ Counts'
    BY <1>1, <1>2 DEF IInv, Control, Counts, bytes
  <1>9. ASSUME NEW d \in Conn
        PROVE  Direction(d)'
    <2>1. Direction(d) /\ Direction(c)
      BY DEF IInv
    <2>2. /\ (Undisturbed(d))' <=> Undisturbed(d)
          /\ (Closed(Other(d)))' <=> Closed(Other(d))
      BY <1>4 DEF Undisturbed, Conn, Other
    <2> QED
      BY <1>1, <1>3, <2>1, <2>2 DEF Direction, Kept, Drained, Reads, bytes
  <1> QED
    BY <1>6, <1>7, <1>8, <1>9 DEF IInv

\* A copier tells that it has finished.
LEMMA SendDoneKeeps ==
    ASSUME IInv, NEW c \in Conn, SendDone(c)
    PROVE  IInv'
  <1>. DEFINE At == {"idle", "read", "write", "ending", "ended", "finished"}
  <1>1. /\ copier \in [Conn -> At] /\ done \in Seq(Conn)
        /\ copier[c] = "ended" /\ copier' = [copier EXCEPT ![c] = "finished"]
        /\ done' = Append(done, c)
        /\ UNCHANGED <<pc, hold, side, peer, bytes, reset>>
    BY DEF IInv, Control, SendDone, Copier
  <1>2. copier' \in [Conn -> At] /\ done' \in Seq(Conn)
    BY <1>1
  <1>3. \A d \in Conn : /\ Idle(d)' <=> Idle(d)
                        /\ Finished(d)' <=> (Finished(d) \/ d = c)
                        /\ Untouched(d)' <=> Untouched(d)
                        /\ Closed(d)' <=> Closed(d)
    BY <1>1 DEF Idle, Finished, Untouched, Closed
  <1>4. ~Idle(c) /\ ~Finished(c)
    BY <1>1 DEF Idle, Finished
  <1>5. pc \in {"relay", "closing", "closing daemon", "drain"}
    BY <1>1, <1>4 DEF IInv, Control, Flow
  <1>6. ASSUME NEW t \in Conn, Taken(t)
        PROVE  Taken(t)'
    <2>1. t # c /\ Other(t) = c /\ done = <<>>
      BY <1>4, <1>6 DEF Taken, Conn, Other
    <2>2. done' = <<c>>
      BY <1>1, <2>1
    <2> QED
      BY <1>3, <1>6, <2>1, <2>2 DEF Taken
  <1>7. ASSUME DoneNone \/ DoneOne \/ DoneBoth
        PROVE  (DoneNone \/ DoneOne \/ DoneBoth)'
    <2>1. CASE DoneNone
      <3>1. done' = <<c>>
        BY <1>1, <2>1 DEF DoneNone
      <3>2. Finished(c)' /\ ~Finished(Other(c))'
        BY <1>3, <2>1, Ends DEF DoneNone
      <3> QED
        BY <3>1, <3>2 DEF DoneOne
    <2>2. CASE DoneOne
      <3>1. PICK d \in Conn : done = <<d>> /\ Finished(d) /\ ~Finished(Other(d))
        BY <2>2 DEF DoneOne
      <3>2. c = Other(d)
        BY <1>4, <3>1 DEF Conn, Other
      <3>3. done' = <<d, Other(d)>>
        <4>1. Append(<<d>>, Other(d)) = <<d, Other(d)>>
          BY Ends, Pairs
        <4> QED
          BY <1>1, <3>1, <3>2, <4>1, Zenon
      <3>4. \A e \in Conn : Finished(e)'
        BY <1>3, <3>1, <3>2 DEF Conn, Other
      <3> QED
        BY <3>3, <3>4 DEF DoneBoth
    <2>3. ~DoneBoth
      BY <1>4 DEF DoneBoth
    <2> QED
      BY <1>7, <2>1, <2>2, <2>3
  <1>8. Flow'
    BY <1>1, <1>3, <1>5, <1>6, <1>7 DEF IInv, Flow, Conn
  <1>9. ShutByCopier'
    BY <1>1 DEF IInv, ShutByCopier
  <1>10. Control' /\ Counts'
    BY <1>1, <1>2 DEF IInv, Control, Counts, bytes
  <1>11. ASSUME NEW d \in Conn
         PROVE  Direction(d)'
    <2>1. Direction(d) /\ Direction(c)
      BY DEF IInv
    <2> QED
      BY <1>1, <2>1
      DEF Direction, Kept, Drained, Reads, Undisturbed, Closed, bytes
  <1> QED
    BY <1>8, <1>9, <1>10, <1>11 DEF IInv

-----------------------------------------------------------------------------
\* The handler

\* A step that only moves the handler or takes a message touches no bytes.
LEMMA BytesStay ==
    ASSUME IInv, Flow', pc' \in {"dial", "refused", "closing", "drain"},
           done' \in Seq(Conn), UNCHANGED <<copier, hold, side, peer, bytes, reset>>
    PROVE  IInv'
  <1>1. Control' /\ Counts' /\ ShutByCopier'
    BY DEF IInv, Control, Counts, ShutByCopier, bytes
  <1>2. ASSUME NEW d \in Conn
        PROVE  Direction(d)'
    BY DEF IInv, Direction, Kept, Drained, Reads, Undisturbed, Closed, bytes
  <1> QED
    BY <1>1, <1>2 DEF IInv

\* What a reset leaves of the bytes on their way, and the sum without the rest.
LEMMA AtMost ==
    ASSUME NEW r \in Nat, NEW k \in Nat, NEW m \in 0..r, m <= k \/ m = k
    PROVE  m \in Nat /\ m <= k
  OBVIOUS

LEMMA Fewer ==
    ASSUME NEW r \in Nat, NEW i \in Nat, NEW h \in Nat, NEW k \in Nat, NEW n \in Nat,
           NEW g \in Nat, NEW m \in Nat, m <= k, k <= r, i + h + k + g <= n
    PROVE  m <= r /\ i + h + m + g <= n
  OBVIOUS

(***************************************************************************)
(* Closing connections, the client's among them, loses no output to a      *)
(* client whose connection is not reset.                                   *)
(***************************************************************************)
LEMMA CloseConnsKeeps ==
    ASSUME IInv, NEW C \in SUBSET Conn, CloseConns(C), Closed("client")',
           Flow', done' \in Seq(Conn), pc' \in {"closing daemon", "drain", "done"}
    PROVE  IInv'
  <1>. DEFINE On == {"none", "open", "shut", "closed"}
  <1>1. \A d \in Conn : side'[d] = IF d \in C /\ side[d] # "none" THEN "closed"
                                                                ELSE side[d]
    BY DEF CloseConns
  <1>2. \A d \in Conn : d \in reset' <=>
            d \in reset \/ (d \in C /\ side[d] \in {"open", "shut"} /\ in[d] > 0)
    BY DEF CloseConns
  <1>3. \A d \in Conn : /\ out'[d] \in Nat /\ out'[d] <= out[d]
                        /\ d \notin reset' => out'[d] = out[d]
    <2>1. ASSUME NEW d \in Conn
          PROVE  /\ out[d] \in Nat /\ out'[d] \in 0..Room
                 /\ out'[d] <= out[d] \/ out'[d] = out[d]
                 /\ d \notin reset' => out'[d] = out[d]
      BY DEF IInv, Counts, CloseConns
    <2>2. Room \in Nat
      BY TunnelAssumption
    <2> QED
      BY <2>1, <2>2, AtMost
  <1>4. UNCHANGED <<copier, hold, peer, in, sent, received>>
    BY DEF CloseConns
  <1>5. Control'
    <2>1. side' \in [Conn -> On]
      BY <1>1 DEF IInv, Control, CloseConns
    <2>2. reset' \subseteq Conn
      BY DEF IInv, Control, CloseConns
    <2> QED
      BY <1>4, <2>1, <2>2 DEF IInv, Control
  <1>6. Counts'
    <2>1. out' \in [Conn -> Nat]
      BY <1>3, TunnelAssumption DEF CloseConns
    <2> QED
      BY <1>4, <2>1 DEF IInv, Counts
  <1>7. ShutByCopier'
    BY <1>1, <1>4, Ends DEF IInv, ShutByCopier
  <1>8. ASSUME NEW d \in Conn
        PROVE  Direction(d)'
    <2>1. Direction(d) /\ Counts /\ Room \in Nat
      BY TunnelAssumption DEF IInv
    <2>2. (Other(d) \in reset => Closed(Other(d)))'
      BY <1>1, <1>2, <2>1, Ends DEF Direction, Closed
    <2>3. (Undisturbed(d))' => Undisturbed(d)
      BY DEF Undisturbed
    <2>4. out'[Other(d)] \in Nat /\ out'[Other(d)] <= out[Other(d)]
      BY <1>3, Ends
    <2>5. Other(d) \notin reset' => Other(d) \notin reset /\ out'[Other(d)] = out[Other(d)]
      BY <1>2, <1>3, Ends
    <2>6. /\ out'[Other(d)] <= Room
          /\ in'[d] + hold'[d] + out'[Other(d)] + received'[Other(d)] <= sent'[d]
      <3>1. /\ in[d] + hold[d] + out[Other(d)] + received[Other(d)] <= sent[d]
            /\ out[Other(d)] <= Room
        BY <2>1 DEF Direction
      <3>2. /\ in'[d] = in[d] /\ hold'[d] = hold[d] /\ sent'[d] = sent[d]
            /\ received'[Other(d)] = received[Other(d)]
        BY <1>4
      <3>3. /\ in[d] \in Nat /\ hold[d] \in Nat /\ sent[d] \in Nat
            /\ received[Other(d)] \in Nat /\ out[Other(d)] \in Nat /\ Room \in Nat
        BY <2>1, Numbers
      <3>4. /\ out'[Other(d)] <= Room
            /\ in[d] + hold[d] + out'[Other(d)] + received[Other(d)] <= sent[d]
        BY <2>4, <3>1, <3>3, Fewer
      <3> QED
        BY <3>2, <3>4
    <2>7. Kept(d)' /\ Drained(d)'
      BY <1>4, <2>1, <2>3, <2>5 DEF Direction, Kept, Drained, Reads
    <2> QED
      BY <1>4, <2>1, <2>2, <2>6, <2>7 DEF Direction
  <1> QED
    BY <1>5, <1>6, <1>7, <1>8 DEF IInv

\* The handler takes over the client's connection, or cannot.
LEMMA HijackKeeps ==
    ASSUME IInv, Hijack
    PROVE  IInv'
  <1>1. /\ pc = "hijack" /\ pc' \in {"dial", "refused"}
        /\ UNCHANGED <<copier, hold, done, side, peer, bytes, reset>>
    BY DEF Hijack, Goto
  <1>2. Flow'
    BY <1>1 DEF IInv, Flow, Idle
  <1> QED
    BY <1>1, <1>2, BytesStay DEF IInv, Control

\* It connects to the daemon, or closes the client's connection.
LEMMA DialKeeps ==
    ASSUME IInv, Dial
    PROVE  IInv'
  <1>. DEFINE On == {"none", "open", "shut", "closed"}
  <1>1. /\ pc = "dial" /\ done = <<>> /\ \A c \in Conn : Idle(c)
        /\ side["client"] = "open" /\ side["daemon"] = "none"
        /\ side \in [Conn -> On]
    BY DEF IInv, Control, Flow, Dial, Goto
  <1>2. CASE /\ Goto("dial", "request")
             /\ side' = [side EXCEPT !["daemon"] = "open"]
             /\ UNCHANGED <<copier, hold, done, peer, bytes, reset>>
    <2>1. side' \in [Conn -> On] /\ \A c \in Conn : side'[c] = "open"
      BY <1>1, <1>2 DEF Conn
    <2>2. Control' /\ Counts'
      BY <1>2, <2>1 DEF IInv, Control, Counts, Goto, bytes
    <2>3. Flow' /\ ShutByCopier'
      BY <1>1, <1>2, <2>1, Ends DEF Flow, ShutByCopier, Goto, Idle
    <2>4. ASSUME NEW d \in Conn
          PROVE  Direction(d)'
      <3>1. Direction(d)
        BY DEF IInv
      <3>2. ~Closed(d) /\ ~Closed(Other(d)) /\ ~Closed("client")
        BY <1>1 DEF Closed, Conn, Other
      <3>3. UNCHANGED <<copier, hold, peer, in, out, sent, received, reset>>
        BY <1>2 DEF bytes
      <3> QED
        BY <3>1, <3>2, <3>3 DEF Direction, Kept, Drained, Reads, Undisturbed
    <2> QED
      BY <2>2, <2>3, <2>4 DEF IInv
  <1>3. CASE Goto("dial", "done") /\ CloseConns({"client"}) /\ UNCHANGED done
    <2>1. Closed("client")' /\ side'["daemon"] = "none"
      BY <1>1, <1>3 DEF CloseConns, Closed, Conn
    <2>2. Flow'
      BY <1>1, <1>3, <2>1 DEF Flow, Goto, Idle, CloseConns
    <2> QED
      BY <1>3, <2>1, <2>2, CloseConnsKeeps DEF IInv, Control, Goto, Conn
  <1> QED
    BY <1>2, <1>3 DEF Dial

\* It sends the request and starts the copiers, or closes both connections.
LEMMA WriteRequestKeeps ==
    ASSUME IInv, WriteRequest
    PROVE  IInv'
  <1>1. /\ pc = "request" /\ done = <<>>
        /\ \A c \in Conn : Idle(c) /\ side[c] = "open"
    BY DEF IInv, Flow, WriteRequest, Goto
  <1>2. CASE /\ Goto("request", "relay")
             /\ copier' = [c \in Conn |-> "read"]
             /\ UNCHANGED <<hold, done, side, peer, bytes, reset>>
    <2>1. \A c \in Conn : copier'[c] = "read"
      BY <1>2
    <2>2. Control' /\ Counts'
      BY <1>2 DEF IInv, Control, Counts, Goto, bytes
    <2>3. Flow'
      BY <1>1, <1>2, <2>1 DEF Flow, Goto, Idle, Finished, DoneNone, Untouched
    <2>4. ShutByCopier'
      BY <1>1, <1>2, Ends DEF ShutByCopier
    <2>5. ASSUME NEW d \in Conn
          PROVE  Direction(d)'
      <3>1. Direction(d) /\ copier[d] = "idle"
        BY <1>1 DEF IInv, Idle
      <3>2. UNCHANGED <<hold, side, peer, in, out, sent, received, reset>>
        BY <1>2 DEF bytes
      <3> QED
        BY <2>1, <3>1, <3>2 DEF Direction, Kept, Drained, Reads, Undisturbed, Closed
    <2> QED
      BY <2>2, <2>3, <2>4, <2>5 DEF IInv
  <1>3. CASE Goto("request", "done") /\ CloseConns(Conn) /\ UNCHANGED done
    <2>1. Closed("client")' /\ Closed("daemon")'
      BY <1>1, <1>3 DEF CloseConns, Closed, Conn
    <2>2. Flow'
      BY <1>1, <1>3, <2>1 DEF Flow, Goto, Idle, CloseConns
    <2> QED
      BY <1>3, <2>1, <2>2, CloseConnsKeeps DEF IInv, Control, Goto
  <1> QED
    BY <1>2, <1>3 DEF WriteRequest

\* It takes the first message.
LEMMA FirstDoneKeeps ==
    ASSUME IInv, FirstDone
    PROVE  IInv'
  <1>1. /\ pc = "relay" /\ done # <<>> /\ done' = Tail(done)
        /\ pc' = IF Head(done) = "daemon" THEN "closing" ELSE "drain"
        /\ UNCHANGED <<copier, hold, side, peer, bytes, reset>>
        /\ \A c \in Conn : ~Idle(c) /\ Untouched(c)
        /\ DoneOne \/ DoneBoth
    BY DEF IInv, Flow, FirstDone, Goto, DoneNone
  <1>2. PICK t \in Conn : Head(done) = t /\ Taken(t)' /\ done' \in Seq(Conn)
    <2>1. CASE DoneOne
      <3>1. PICK c \in Conn : done = <<c>> /\ Finished(c) /\ ~Finished(Other(c))
        BY <2>1 DEF DoneOne
      <3>2. Head(done) = c /\ done' = <<>>
        BY <1>1, <3>1, Pairs
      <3> QED
        BY <1>1, <3>1, <3>2 DEF Taken, Finished
    <2>2. CASE DoneBoth
      <3>1. PICK c \in Conn : done = <<c, Other(c)>> /\ \A d \in Conn : Finished(d)
        BY <2>2 DEF DoneBoth
      <3>2. Head(done) = c /\ done' = <<Other(c)>>
        BY <1>1, <3>1, Pairs, Ends
      <3> QED
        BY <1>1, <3>1, <3>2, Ends DEF Taken, Finished
    <2> QED
      BY <1>1, <2>1, <2>2
  <1>3. t = "daemon" \/ t = "client"
    BY DEF Conn
  <1>4. Flow'
    BY <1>1, <1>2, <1>3 DEF Flow, Idle, Untouched, Closed, Conn
  <1> QED
    BY <1>1, <1>2, <1>4, BytesStay

\* It closes one connection, then the other.
LEMMA CloseBothKeeps ==
    ASSUME IInv, CloseBoth
    PROVE  IInv'
  <1>1. UNCHANGED <<done, copier>>
    BY DEF CloseBoth, CloseConns
  <1>2. CASE Goto("closing", "closing daemon") /\ CloseConns({"client"})
    <2>1. /\ \A c \in Conn : ~Idle(c) /\ Untouched(c)
          /\ Taken("daemon")
      BY <1>2 DEF IInv, Flow, Goto
    <2>2. Closed("client")' /\ Untouched("daemon")'
      BY <1>2, <2>1 DEF CloseConns, Closed, Untouched, Conn
    <2>3. Flow'
      BY <1>1, <1>2, <2>1, <2>2 DEF Flow, Goto, Idle, Taken, Finished, Conn
    <2> QED
      BY <1>1, <1>2, <2>2, <2>3, CloseConnsKeeps DEF IInv, Control, Goto, Conn
  <1>3. CASE Goto("closing daemon", "drain") /\ CloseConns({"daemon"})
    <2>1. /\ ~Idle("client") /\ Taken("daemon")
          /\ Closed("client") /\ Untouched("daemon")
      BY <1>3 DEF IInv, Flow, Goto
    <2>2. Closed("client")' /\ Closed("daemon")'
      BY <1>3, <2>1 DEF CloseConns, Closed, Untouched, Conn
    <2>3. Flow'
      BY <1>1, <1>3, <2>1, <2>2 DEF Flow, Goto, Idle, Taken, Finished, Conn
    <2> QED
      BY <1>1, <1>3, <2>2, <2>3, CloseConnsKeeps DEF IInv, Control, Goto, Conn
  <1> QED
    BY <1>2, <1>3 DEF CloseBoth

\* It takes the second message and returns.
LEMMA SecondDoneKeeps ==
    ASSUME IInv, SecondDone
    PROVE  IInv'
  <1>1. /\ pc = "drain" /\ done # <<>> /\ done' = Tail(done)
        /\ pc' = "done" /\ CloseConns(Conn) /\ UNCHANGED copier
        /\ Taken("daemon") \/ Taken("client")
        /\ \A c \in Conn : Closed(c) \/ Untouched(c)
    BY DEF IInv, Flow, SecondDone, Goto, CloseConns, Conn
  <1>2. \A c \in Conn : Closed(c)'
    BY <1>1 DEF CloseConns, Closed, Untouched
  <1>3. done' = <<>> /\ \A c \in Conn : Finished(c)'
    <2>1. PICK t \in Conn : Taken(t)
      BY <1>1 DEF Conn
    <2>2. done = <<Other(t)>> /\ Finished(t) /\ Finished(Other(t))
      BY <1>1, <2>1 DEF Taken
    <2>3. done' = <<>>
      BY <1>1, <2>2, Pairs, Ends
    <2> QED
      BY <1>1, <2>2, <2>3 DEF Finished, Conn, Other
  <1>4. Flow'
    BY <1>1, <1>2, <1>3 DEF Flow, Conn
  <1> QED
    <2>1. Closed("client")' /\ done' \in Seq(Conn)
      BY <1>2, <1>3 DEF Conn
    <2> QED
      BY <1>1, <1>4, <2>1, CloseConnsKeeps

-----------------------------------------------------------------------------
\* The theorems

\* The invariant holds before anything has happened.
LEMMA InitHolds == Init => IInv
  <1>. SUFFICES ASSUME Init
                PROVE  IInv
    OBVIOUS
  <1>1. Counts
    BY DEF Init, Counts
  <1>2. Control
    BY DEF Init, Control, Conn
  <1>3. Flow /\ ShutByCopier
    BY Ends DEF Init, Flow, ShutByCopier, Idle, Conn
  <1>4. ASSUME NEW c \in Conn
        PROVE  Direction(c)
    <2>1. /\ in[c] = 0 /\ hold[c] = 0 /\ out[Other(c)] = 0 /\ sent[c] = 0
          /\ received[Other(c)] = 0 /\ reset = {} /\ copier[c] = "idle"
      BY Ends DEF Init
    <2>2. MaxSent[c] \in Nat /\ Room \in Nat
      BY TunnelAssumption
    <2> QED
      BY <2>1, <2>2 DEF Direction, Kept, Drained
  <1> QED
    BY <1>1, <1>2, <1>3, <1>4 DEF IInv

\* Every step keeps it.
LEMMA NextKeeps == IInv /\ [Next]_vars => IInv'
  <1>. SUFFICES ASSUME IInv, [Next]_vars
                PROVE  IInv'
    OBVIOUS
  <1>1. CASE Handle
    BY <1>1, HijackKeeps, DialKeeps, FirstDoneKeeps, CloseBothKeeps, SecondDoneKeeps
    DEF Handle
  <1>2. CASE WriteRequest
    BY <1>2, WriteRequestKeeps
  <1>3. ASSUME NEW c \in Conn, Copy(c)
        PROVE  IInv'
    BY <1>3, ReadKeeps, ReadEndsKeeps, WriteKeeps, WriteFailsKeeps, CloseWriteKeeps,
       SendDoneKeeps
    DEF Copy
  <1>4. ASSUME NEW c \in Conn, Peer(c)
        PROVE  IInv'
    BY <1>4, SendKeeps, SendUnreadKeeps, ReceiveKeeps, EndKeeps, CloseKeeps, AbortKeeps DEF Peer
  <1>5. CASE UNCHANGED vars
    BY <1>5
    DEF vars, IInv, Control, Counts, Flow, ShutByCopier, Direction, Kept, Drained,
        Reads, Undisturbed, Closed, Untouched, Idle, Finished, DoneNone, DoneOne,
        DoneBoth, Taken
  <1> QED
    BY <1>1, <1>2, <1>3, <1>4, <1>5 DEF Next

\* The invariant holds of every behaviour.
LEMMA Invariant == Spec => []IInv
  BY InitHolds, NextKeeps, PTL DEF Spec

(***************************************************************************)
(* The variables of handleUpgrade, its copiers and its peers have their    *)
(* types, the channel never holds more than its two messages, and no byte  *)
(* is made up.                                                             *)
(***************************************************************************)
THEOREM TypeInvariant == Spec => []TypeOK
  BY Invariant, TypeFollows, PTL

(***************************************************************************)
(* Output is not cut short by the end of the input, by the daemon's        *)
(* closing or by the handler's, for any number of bytes.                   *)
(***************************************************************************)
THEOREM OutputCompleteInvariant == Spec => []OutputComplete
  <1>1. IInv => OutputComplete
    <2>. SUFFICES ASSUME IInv, copier["daemon"] # "idle", peer["daemon"] # "aborted",
                         ReadsEnd("client"), "client" \notin reset
                  PROVE  Complete("client")
      BY DEF OutputComplete
    <2>1. Other("daemon") = "client" /\ Other("client") = "daemon" /\ "daemon" \in Conn
      BY DEF Other, Conn
    <2>2. copier["daemon"] \in {"ended", "finished"}
      BY <2>1, ClosedWhen DEF IInv, ReadsEnd, ShutByCopier, Closed
    <2>3. Direction("daemon") /\ Reads("client")
      BY <2>1 DEF IInv, ReadsEnd
    <2>4. in["daemon"] = 0 /\ hold["daemon"] = 0
      BY <2>1, <2>2, <2>3, Numbers DEF IInv, Direction, Drained, Undisturbed
    <2> QED
      BY <2>1, <2>3, <2>4, Numbers DEF IInv, Direction, Kept, Undisturbed, Complete
  <1> QED
    BY <1>1, Invariant, PTL

(***************************************************************************)
(* Nor is input, while the daemon has not ended its output and the client  *)
(* is there.                                                               *)
(***************************************************************************)
THEOREM InputCompleteInvariant == Spec => []InputComplete
  <1>1. IInv => InputComplete
    <2>. SUFFICES ASSUME IInv, peer["daemon"] = "open", ReadsEnd("daemon"),
                         Reads("client"), copier["daemon"] # "idle"
                  PROVE  Complete("daemon")
      BY DEF InputComplete
    <2>1. /\ Other("daemon") = "client" /\ Other("client") = "daemon"
          /\ "daemon" \in Conn /\ "client" \in Conn
      BY DEF Other, Conn
    <2>2. copier["daemon"] # "finished"
      BY <2>1 DEF IInv, Direction, Drained, Undisturbed
    <2>3. ~Closed("client") /\ ~Closed("daemon")
      BY <2>2, ClosedWhen DEF IInv
    <2>4. copier["client"] \in {"ended", "finished"}
      BY <2>1, <2>3 DEF IInv, ReadsEnd, ShutByCopier, Closed
    <2>5. Direction("client") /\ Reads("daemon") /\ Undisturbed("client")
      BY <2>1, <2>3 DEF IInv, ReadsEnd, Undisturbed
    <2>6. in["client"] = 0 /\ hold["client"] = 0
      BY <2>1, <2>4, <2>5, Numbers DEF IInv, Direction, Drained
    <2> QED
      BY <2>1, <2>3, <2>5, <2>6, Numbers DEF IInv, Direction, Kept, Reads, Complete
  <1> QED
    BY <1>1, Invariant, PTL

(***************************************************************************)
(* When handleUpgrade returns, its two goroutines have returned as well,   *)
(* both connections are closed and the channel is empty.                   *)
(***************************************************************************)
THEOREM NothingLeftBehindInvariant == Spec => []NothingLeftBehind
  <1>1. IInv => NothingLeftBehind
    BY DEF IInv, Flow, NothingLeftBehind, Closed, Idle, Finished, Conn
  <1> QED
    BY <1>1, Invariant, PTL
=============================================================================
