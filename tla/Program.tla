------------------------------ MODULE Program ------------------------------
(***************************************************************************)
(* cmd/dsp/main.go: proxies are started at a path, read a configuration    *)
(* and take requests.  These parts share no state, and a behaviour is      *)
(* about one of them: Intake, while no proxy has been started, or the      *)
(* proxies at the path, from the first start on.                           *)
(***************************************************************************)
EXTENDS Intake

CONSTANT Proc

VARIABLES pc, socketPath, open, overtaken, deprived

Path == INSTANCE Listener

ASSUME ProgramAssumption == Proc \cap Path!Other = {}

pathVars == <<pc, socketPath, open, overtaken, deprived>>
programVars == <<vars, pathVars>>

ProgramInit == Init /\ Path!Init

\* No proxy has been started, and there is nothing at the path.
Unstarted ==
    /\ pc = [p \in Proc |-> "off"]
    /\ socketPath = "nothing" /\ open = {} /\ overtaken = {} /\ deprived = {}

TakeIn == Unstarted /\ Next /\ UNCHANGED pathVars

StartUp == Idle /\ Path!Next /\ UNCHANGED vars

ProgramNext == TakeIn \/ StartUp

ProgramSpec == ProgramInit /\ [][ProgramNext]_programVars

-----------------------------------------------------------------------------

\* The properties of Listener, each stated there.

\* main.go:89: clients of the path reach the proxy that was started last.
LastStartedReached == Path!LastStartedReached

\* main.go:91: createListener does not fail for what a crash has left.
FailsForAReason == Path!FailsForAReason

\* main.go:90: a file that Lstat sees is not removed.
FileKept == Path!FileKept

\* The types of both parts; the socket at the path is a live one's.
ProgramTypeOK == TypeOK /\ Path!TypeOK
=============================================================================
