------------------------------- MODULE Tunnel -------------------------------
(***************************************************************************)
(* internal/proxy/handler.go, handleUpgrade: the tunnel of an attach or an *)
(* exec.start.  Two goroutines copy between the client's and the daemon's  *)
(* connection, the handler waits for both.                                 *)
(*                                                                         *)
(* Either connection can be closed one direction at a time.  Bytes are     *)
(* counted, not told apart: each direction has one copier, which keeps     *)
(* their order.  The client sends once it has read the daemon's "101",     *)
(* the first byte; what it sent earlier would be in the bufio.ReadWriter   *)
(* that Hijack returns and the handler drops.                              *)
(***************************************************************************)
EXTENDS Integers, Sequences

CONSTANTS
    MaxSent,    \* [Conn -> Nat]: bound on what the peer at each end sends
    Room        \* bytes that fit between the handler and a peer that is slow

Conn == {"client", "daemon"}

ASSUME TunnelAssumption ==
    /\ MaxSent \in [Conn -> Nat]
    /\ Room \in Nat \ {0}

VARIABLES
    pc,         \* where handleUpgrade is
    copier,     \* source -> where the goroutine is that copies from it
    hold,       \* source -> bytes it has read and not yet written
    done,       \* the channel: sources of the copiers that have finished
    side,       \* connection -> what the handler has done to its end
    peer,       \* connection -> what the peer has done to the other end
    in,         \* connection -> bytes on their way to the handler
    out,        \* connection -> bytes on their way to the peer
    sent,       \* history: bytes the peer has sent
    received,   \* history: bytes the peer has received
    reset       \* history: connections closed by the handler that brought
                \* bytes it did not read

handler == <<pc, copier, hold, done, side>>
bytes   == <<in, out, sent, received>>
vars    == <<pc, copier, hold, done, side, peer, in, out, sent, received, reset>>

Other(c) == IF c = "client" THEN "daemon" ELSE "client"

Init ==
    /\ pc = "hijack"
    /\ copier = [c \in Conn |-> "idle"]
    /\ hold = [c \in Conn |-> 0]
    /\ done = <<>>
    /\ side = [client |-> "open", daemon |-> "none"]
    /\ peer = [c \in Conn |-> "open"]
    /\ in = [c \in Conn |-> 0]
    /\ out = [c \in Conn |-> 0]
    /\ sent = [c \in Conn |-> 0]
    /\ received = [c \in Conn |-> 0]
    /\ reset = {}

-----------------------------------------------------------------------------
\* The peers

\* The daemon is there once it has the request, the client from the start.
Present(c) == c = "client" \/ copier[c] # "idle"

\* The peer still reads.
Reads(c) == peer[c] \in {"open", "ended"}

Sends(c) ==
    /\ Present(c) /\ peer[c] = "open"
    /\ c = "client" => received[c] > 0
    /\ sent[c] < MaxSent[c]
    /\ sent' = [sent EXCEPT ![c] = @ + 1]

Send(c) ==
    /\ Sends(c)
    /\ side[c] # "closed"
    /\ in' = [in EXCEPT ![c] = @ + 1]
    /\ UNCHANGED <<handler, peer, out, received, reset>>

(***************************************************************************)
(* What comes once the handler has closed its end resets the connection,   *)
(* as what it left unread does: more of the output may be lost.            *)
(***************************************************************************)
SendUnread(c) ==
    /\ Sends(c)
    /\ side[c] = "closed"
    /\ reset' = reset \cup {c}
    /\ \E n \in 0..out[c] : out' = [out EXCEPT ![c] = n]
    /\ UNCHANGED <<handler, peer, in, received>>

Receive(c) ==
    /\ Reads(c)
    /\ out[c] > 0
    /\ out' = [out EXCEPT ![c] = @ - 1]
    /\ received' = [received EXCEPT ![c] = @ + 1]
    /\ UNCHANGED <<handler, peer, in, sent, reset>>

(***************************************************************************)
(* The peer ends its direction and reads on, closes altogether, or is cut  *)
(* off, what it sent last included.                                        *)
(***************************************************************************)
End(c) ==
    /\ Present(c) /\ peer[c] = "open"
    /\ peer' = [peer EXCEPT ![c] = "ended"]
    /\ UNCHANGED <<handler, bytes, reset>>

Close(c) ==
    /\ Present(c) /\ Reads(c)
    /\ peer' = [peer EXCEPT ![c] = "closed"]
    /\ UNCHANGED <<handler, bytes, reset>>

Abort(c) ==
    /\ Present(c) /\ Reads(c)
    /\ peer' = [peer EXCEPT ![c] = "aborted"]
    /\ in' = [in EXCEPT ![c] = 0]
    /\ UNCHANGED <<handler, out, sent, received, reset>>

-----------------------------------------------------------------------------
\* The two copiers

Copier(c, from, to) ==
    /\ copier[c] = from
    /\ copier' = [copier EXCEPT ![c] = to]

\* Mutated form: bytes that come together with the end are dropped.
ReadLosesLast(c) ==
    /\ Copier(c, "read", IF peer[c] = "open" THEN "write" ELSE "ending")
    /\ side[c] # "closed"
    /\ \E n \in 1..in[c] :
        /\ in' = [in EXCEPT ![c] = @ - n]
        /\ hold' = [hold EXCEPT ![c] = IF peer[c] = "open" THEN n ELSE 0]
    /\ UNCHANGED <<pc, done, side, peer, out, sent, received, reset>>

(***************************************************************************)
(* io.Copy reads what is there, waits while nothing is, and stops at the   *)
(* end of the direction or when the connection is closed under it.         *)
(***************************************************************************)
Read(c) ==
    /\ Copier(c, "read", "write")
    /\ side[c] # "closed"
    /\ \E n \in 1..in[c] :
        /\ in' = [in EXCEPT ![c] = @ - n]
        /\ hold' = [hold EXCEPT ![c] = n]
    /\ UNCHANGED <<pc, done, side, peer, out, sent, received, reset>>

ReadEnds(c) ==
    /\ Copier(c, "read", "ending")
    /\ \/ side[c] = "closed"
       \/ peer[c] # "open" /\ in[c] = 0
    /\ UNCHANGED <<pc, hold, done, side, peer, bytes, reset>>

(***************************************************************************)
(* io.Copy writes all it has read before it reads again, and waits while   *)
(* the peer is slow.  A write after the peer has closed may go unnoticed,  *)
(* or end the copy; one to a closed connection ends it.                    *)
(***************************************************************************)
Write(c) ==
    /\ Copier(c, "write", IF hold[c] = 1 THEN "read" ELSE "write")
    /\ hold' = [hold EXCEPT ![c] = @ - 1]
    /\ side[Other(c)] # "closed"
    /\ IF Reads(Other(c))
       THEN /\ out[Other(c)] < Room
            /\ out' = [out EXCEPT ![Other(c)] = @ + 1]
       ELSE UNCHANGED out
    /\ UNCHANGED <<pc, done, side, peer, in, sent, received, reset>>

\* Mutated form: what could not be written is kept.
WriteFailsKeeping(c) ==
    /\ Copier(c, "write", "ending")
    /\ side[Other(c)] = "closed" \/ ~Reads(Other(c))
    /\ UNCHANGED <<pc, hold, done, side, peer, bytes, reset>>

WriteFails(c) ==
    /\ Copier(c, "write", "ending")
    /\ side[Other(c)] = "closed" \/ ~Reads(Other(c))
    /\ hold' = [hold EXCEPT ![c] = 0]
    /\ UNCHANGED <<pc, done, side, peer, bytes, reset>>

\* Mutated form: the end of one direction is not passed on.
CloseWriteNot(c) ==
    /\ Copier(c, "ending", "ended")
    /\ UNCHANGED <<pc, hold, done, side, peer, bytes, reset>>

CloseWrite(c) ==
    /\ Copier(c, "ending", "ended")
    /\ side' = [side EXCEPT ![Other(c)] = IF @ = "open" THEN "shut" ELSE @]
    /\ UNCHANGED <<pc, hold, done, peer, bytes, reset>>

SendDone(c) ==
    /\ Copier(c, "ended", "finished")
    /\ done' = Append(done, c)
    /\ UNCHANGED <<pc, hold, side, peer, bytes, reset>>

Copy(c) ==
    \/ Read(c) \/ ReadEnds(c) \/ Write(c) \/ WriteFails(c)
    \/ CloseWrite(c) \/ SendDone(c)

-----------------------------------------------------------------------------
\* The handler

Goto(from, to) == pc = from /\ pc' = to

(***************************************************************************)
(* Closing connections.  One with bytes left unread is reset: what is on   *)
(* its way to the peer may then be lost.                                   *)
(***************************************************************************)
CloseConns(C) ==
    LET unread == {c \in C : side[c] \in {"open", "shut"} /\ in[c] > 0}
    IN  /\ side' = [c \in Conn |-> IF c \in C /\ side[c] # "none"
                                   THEN "closed" ELSE side[c]]
        /\ reset' = reset \cup unread
        /\ out' \in [Conn -> 0..Room]
        /\ \A c \in Conn : IF c \in unread THEN out'[c] <= out[c]
                                           ELSE out'[c] = out[c]
        /\ UNCHANGED <<copier, hold, peer, in, sent, received>>

(***************************************************************************)
(* A connection that cannot be hijacked stays with the HTTP server, which  *)
(* answers 500.                                                            *)
(***************************************************************************)
Hijack ==
    /\ Goto("hijack", "dial") \/ Goto("hijack", "refused")
    /\ UNCHANGED <<copier, hold, done, side, peer, bytes, reset>>

\* net.DialTimeout fails, after 30 s at the latest: 502.
Dial ==
    \/ /\ Goto("dial", "request")
       /\ side' = [side EXCEPT !["daemon"] = "open"]
       /\ UNCHANGED <<copier, hold, done, peer, bytes, reset>>
    \/ /\ Goto("dial", "done")
       /\ CloseConns({"client"})
       /\ UNCHANGED done

\* req.Write: the request with what its body still has to bring; or 502.
WriteRequest ==
    \/ /\ Goto("request", "relay")
       /\ copier' = [c \in Conn |-> "read"]
       /\ UNCHANGED <<hold, done, side, peer, bytes, reset>>
    \/ /\ Goto("request", "done")
       /\ CloseConns(Conn)
       /\ UNCHANGED done

\* Mutated form: whichever direction ends first, both connections go.
FirstDoneEither ==
    /\ Goto("relay", "closing")
    /\ done # <<>>
    /\ done' = Tail(done)
    /\ UNCHANGED <<copier, hold, side, peer, bytes, reset>>

(***************************************************************************)
(* The first <-done.  Output that has ended ends the tunnel; input that    *)
(* has ended leaves the output to drain.                                   *)
(***************************************************************************)
FirstDone ==
    /\ done # <<>>
    /\ Goto("relay", IF Head(done) = "daemon" THEN "closing" ELSE "drain")
    /\ done' = Tail(done)
    /\ UNCHANGED <<copier, hold, side, peer, bytes, reset>>

\* Mutated form: the connections are left to the deferred calls.
CloseBothLate ==
    /\ Goto("closing", "drain")
    /\ UNCHANGED <<copier, hold, done, side, peer, bytes, reset>>

\* clientConn.Close, then upstreamConn.Close.
CloseBoth ==
    /\ \/ Goto("closing", "closing daemon") /\ CloseConns({"client"})
       \/ Goto("closing daemon", "drain") /\ CloseConns({"daemon"})
    /\ UNCHANGED done

\* Mutated form: the handler does not wait for the other copier.
SecondDoneUnawaited ==
    /\ Goto("drain", "done")
    /\ CloseConns(Conn)
    /\ UNCHANGED done

\* The second <-done; the deferred calls close both connections.
SecondDone ==
    /\ done # <<>>
    /\ Goto("drain", "done")
    /\ done' = Tail(done)
    /\ CloseConns(Conn)

Handle == Hijack \/ Dial \/ FirstDone \/ CloseBoth \/ SecondDone

Peer(c) == Send(c) \/ SendUnread(c) \/ Receive(c) \/ End(c) \/ Close(c) \/ Abort(c)

Next ==
    \/ Handle \/ WriteRequest
    \/ \E c \in Conn : Copy(c) \/ Peer(c)

Spec == Init /\ [][Next]_vars

(***************************************************************************)
(* The three goroutines are scheduled.  Nothing is assumed of the peers:   *)
(* they may stop sending or reading at any point, or never bring the rest  *)
(* of a request's body, which WriteRequest waits for.                      *)
(***************************************************************************)
ProgramFair == Spec /\ WF_vars(Handle) /\ \A c \in Conn : WF_vars(Copy(c))

-----------------------------------------------------------------------------

TypeOK ==
    /\ pc \in {"hijack", "dial", "request", "relay", "closing",
               "closing daemon", "drain", "done", "refused"}
    /\ copier \in [Conn -> {"idle", "read", "write", "ending", "ended", "finished"}]
    /\ in \in [Conn -> Nat] /\ hold \in [Conn -> Nat] /\ out \in [Conn -> Nat]
    /\ sent \in [Conn -> Nat] /\ received \in [Conn -> Nat]
    /\ done \in Seq(Conn) /\ Len(done) <= 2
    /\ side \in [Conn -> {"none", "open", "shut", "closed"}]
    /\ peer \in [Conn -> {"open", "ended", "closed", "aborted"}]
    /\ \A c \in Conn : /\ hold[c] > 0 <=> copier[c] = "write"
                       /\ in[c] <= sent[c] /\ hold[c] <= sent[c]
                       /\ received[c] <= sent[Other(c)]
                       /\ sent[c] <= MaxSent[c] /\ out[c] <= Room
    /\ reset \subseteq Conn

\* The peer at c reads an end, and was given all the other peer has sent.
ReadsEnd(c) == Reads(c) /\ side[c] \in {"shut", "closed"}
Complete(c) == out[c] + received[c] = sent[Other(c)]

(***************************************************************************)
(* A client that reads to the end of the output gets all of it, from a     *)
(* daemon that has closed its connection as well, and whether or not the   *)
(* client ended its input before (handler.go:425, handler_test.go:444).    *)
(* The exception is input the daemon no longer took: unread, or sent when  *)
(* the handler has closed its end, it resets the client's connection.      *)
(***************************************************************************)
OutputComplete ==
    /\ copier["daemon"] # "idle" /\ peer["daemon"] # "aborted"
    /\ ReadsEnd("client") /\ "client" \notin reset
    => Complete("client")

(***************************************************************************)
(* A daemon that reads the end of the input has got all of it, unless the  *)
(* daemon had ended its output or the client is gone.                      *)
(***************************************************************************)
InputComplete ==
    /\ peer["daemon"] = "open" /\ ReadsEnd("daemon") /\ Reads("client")
    /\ copier["daemon"] # "idle"
    => Complete("daemon")

(***************************************************************************)
(* When the handler has returned both copiers have, both connections are   *)
(* closed, and nobody waits on the channel.                                *)
(***************************************************************************)
NothingLeftBehind ==
    pc = "done" =>
        /\ \A c \in Conn : side[c] \in {"closed", "none"}
        /\ \A c \in Conn : copier[c] \in {"idle", "finished"}
        /\ done = <<>>

\* The peer at c is there and never again reads what the handler writes.
Stuck(c) == [](Reads(c) /\ out[c] = Room)

(***************************************************************************)
(* Once the daemon has ended the tunnel ends, unless the client is there   *)
(* and leaves output unread for ever: one that neither sends nor ends its  *)
(* input cannot hold the handler (handler.go:445).                         *)
(***************************************************************************)
TunnelEnds ==
    pc = "relay" /\ peer["daemon"] # "open" ~> (pc = "done" \/ Stuck("client"))

(***************************************************************************)
(* A client that has ended its input, or has gone, is noticed: the daemon  *)
(* reads the end of the input, unless it leaves input unread for ever.     *)
(***************************************************************************)
EndReachesDaemon ==
    pc = "relay" /\ peer["client"] # "open" ~>
        (side["daemon"] \in {"shut", "closed"} \/ Stuck("daemon"))
=============================================================================
