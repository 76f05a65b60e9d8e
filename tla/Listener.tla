------------------------------ MODULE Listener ------------------------------
(***************************************************************************)
(* cmd/dsp/main.go, createListener for a unix:// address, with main around *)
(* it: proxies that are given the same path, as one that is started again  *)
(* after a crash, or a second one that shares the mounted directory.       *)
(*                                                                         *)
(* The calls are made one by one, and name the path: what they find there  *)
(* may be another proxy's.  No proxy removes its socket when it stops: it  *)
(* is killed or ends in log.Fatalf, which runs no deferred call.  Errors   *)
(* of the file system other than a missing or an existing file end the     *)
(* proxy too, and are a Stop here.                                         *)
(***************************************************************************)

CONSTANT Proc   \* proxies with the same DPP_LISTEN, none of them in Other

Other == {"nothing", "file", "stale"}   \* at the path, besides a live socket

VARIABLES
    pc,         \* proxy -> the call of createListener it is about to make
    socketPath, \* the proxy whose socket is at the path, or what else is
    open,       \* proxies whose socket's mode is 0660
    overtaken,  \* history: proxies with another start during or after theirs
    deprived    \* history: proxies whose own socket, or the one they were
                \* about to remove, somebody else has taken away

vars == <<pc, socketPath, open, overtaken, deprived>>

Starting == {"lstat", "remove", "listen", "chmod", "close"}

Init ==
    /\ pc = [p \in Proc |-> "off"]
    /\ socketPath \in Other
    /\ open = {}
    /\ overtaken = {}
    /\ deprived = {}

Goto(p, from, to) ==
    /\ pc[p] = from
    /\ pc' = [pc EXCEPT ![p] = to]

-----------------------------------------------------------------------------

Start(p) ==
    /\ Goto(p, "off", "lstat")
    /\ overtaken' = {q \in Proc \ {p} : pc[q] # "off"}
                    \cup {q \in {p} : \E r \in Proc : pc[r] \in Starting}
    /\ deprived' = deprived \ {p}
    /\ UNCHANGED <<socketPath, open>>

\* Mutated form: a socket left behind is in the way.
LstatTakesNothing(p) ==
    /\ Goto(p, "lstat", IF socketPath = "nothing" THEN "listen" ELSE "failed")
    /\ UNCHANGED <<socketPath, open, overtaken, deprived>>

\* Mutated form: the type of what is there is not looked at.
LstatTakesAny(p) ==
    /\ Goto(p, "lstat", IF socketPath = "nothing" THEN "listen" ELSE "remove")
    /\ UNCHANGED <<socketPath, open, overtaken, deprived>>

\* os.Lstat.  A socket is removed, whoever listens on it.
Lstat(p) ==
    /\ Goto(p, "lstat", CASE socketPath = "nothing" -> "listen"
                          [] socketPath = "file"    -> "failed"
                          [] OTHER                 -> "remove")
    /\ UNCHANGED <<socketPath, open, overtaken, deprived>>

\* os.Remove of what is at the path by now.
Remove(p) ==
    /\ Goto(p, "remove", IF socketPath = "nothing" THEN "failed" ELSE "listen")
    /\ socketPath' = "nothing"
    /\ UNCHANGED <<open, overtaken, deprived>>

\* net.Listen: bind fails when there is something.
Listen(p) ==
    \/ /\ socketPath = "nothing"
       /\ Goto(p, "listen", "chmod")
       /\ socketPath' = p
       /\ open' = open \ {p}
       /\ UNCHANGED <<overtaken, deprived>>
    \/ /\ socketPath # "nothing"
       /\ Goto(p, "listen", "failed")
       /\ UNCHANGED <<socketPath, open, overtaken, deprived>>

\* os.Chmod of what is at the path by now.
Chmod(p) ==
    /\ Goto(p, "chmod", IF socketPath = "nothing" THEN "close" ELSE "serving")
    /\ open' = open \cup ({socketPath} \cap Proc)
    /\ UNCHANGED <<socketPath, overtaken, deprived>>

\* ln.Close unlinks the path of its socket, whatever is there.
Close(p) ==
    /\ Goto(p, "close", "failed")
    /\ socketPath' = "nothing"
    /\ UNCHANGED <<open, overtaken, deprived>>

\* Mutated form: a proxy that is told to stop closes its listener.
StopUnlinking(p) ==
    /\ pc[p] # "off"
    /\ pc' = [pc EXCEPT ![p] = "off"]
    /\ socketPath' = CASE pc[p] = "serving"                   -> "nothing"
                       [] socketPath = p /\ pc[p] # "serving" -> "stale"
                       [] OTHER                               -> socketPath
    /\ UNCHANGED <<open, overtaken, deprived>>

\* The process ends, on its own or killed; its socket's file remains.
Stop(p) ==
    /\ pc[p] # "off"
    /\ pc' = [pc EXCEPT ![p] = "off"]
    /\ socketPath' = IF socketPath = p THEN "stale" ELSE socketPath
    /\ UNCHANGED <<open, overtaken, deprived>>

(***************************************************************************)
(* Others who may write to the directory put a file at the path, or take   *)
(* away what is there, at any time: a file, a stale socket or a live one.  *)
(***************************************************************************)
MoveFile ==
    /\ socketPath' \in {"nothing", "file"} \ {socketPath}
    /\ deprived' = IF socketPath \in {"nothing", "file"} THEN deprived
                   ELSE deprived \cup {p \in Proc : p = socketPath \/ pc[p] = "remove"}
    /\ UNCHANGED <<pc, open, overtaken>>

CreateListener(p) == Lstat(p) \/ Remove(p) \/ Listen(p) \/ Chmod(p) \/ Close(p)

Next ==
    \/ \E p \in Proc : Start(p) \/ CreateListener(p) \/ Stop(p)
    \/ MoveFile

Spec == Init /\ [][Next]_vars

-----------------------------------------------------------------------------

\* The socket at the path is one that is listened on, accessible if served.
TypeOK ==
    /\ pc \in [Proc -> Starting \cup {"off", "serving", "failed"}]
    /\ socketPath \in Proc \cup Other
    /\ open \subseteq Proc /\ overtaken \subseteq Proc /\ deprived \subseteq Proc
    /\ socketPath \in Proc =>
        \/ pc[socketPath] = "chmod"
        \/ pc[socketPath] = "serving" /\ socketPath \in open

\* No other start, and nobody else, has come in this proxy's way.
Alone(p) == p \notin overtaken \cup deprived

(***************************************************************************)
(* Clients of the path reach the proxy that was started last, whatever     *)
(* crashed proxies have left and however long the ones before it go on or  *)
(* when they stop, provided that no two starts overlapped (main.go:89) and *)
(* nobody takes its socket away.                                           *)
(***************************************************************************)
LastStartedReached ==
    \A p \in Proc : pc[p] = "serving" /\ Alone(p) => socketPath = p

(***************************************************************************)
(* createListener gives up only because of a file that is not a socket,    *)
(* another start, or somebody else who takes away the socket it removes or *)
(* its own: never because of what a crash has left.                        *)
(***************************************************************************)
FailsForAReason ==
    [][\A p \in Proc :
        pc[p] # "failed" /\ pc'[p] = "failed" /\ Alone(p) => socketPath = "file"]_vars

(***************************************************************************)
(* A file that is not a socket is not removed (main.go:90) unless it has   *)
(* come to the path between two calls, by then in the place of a socket    *)
(* that Lstat saw: a file that Lstat sees, or that is put where there was  *)
(* nothing, stays.  Starts that overlap are the exception.                 *)
(***************************************************************************)
FileKept ==
    [][\A p \in Proc :
        socketPath = "file" /\ socketPath' # "file" /\ pc'[p] # pc[p] => ~Alone(p)]_vars
=============================================================================
