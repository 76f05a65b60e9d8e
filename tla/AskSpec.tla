------------------------------- MODULE AskSpec -------------------------------
(***************************************************************************)
(* What confirm.go promises to the goroutines that call Ask: calls are     *)
(* spared while a window lasts, else prompt one after the other; a prompt  *)
(* is shown once, is approved only if that was the user's first reaction,  *)
(* and has gone when its call ends.                                        *)
(***************************************************************************)
EXTENDS Integers

CONSTANTS
    Caller,
    Window      \* how long "Approve All" lasts, in ticks

VARIABLES
    phase,      \* caller -> where its call is
    result,     \* caller -> what it returns, once that is settled
    window,     \* time that is left in which calls are spared
    shown,      \* the caller whose prompt is on screen, if any
    answer      \* the user's first reaction to the prompt

vars == <<phase, result, window, shown, answer>>

Init ==
    /\ phase = [t \in Caller |-> "idle"]
    /\ result = [t \in Caller |-> "none"]
    /\ window = 0
    /\ shown = {}
    /\ answer = "none"

Move(t, from, to) == phase[t] = from /\ phase' = [phase EXCEPT ![t] = to]

Returns(t, r) == result' = [result EXCEPT ![t] = r]

\* A call that has the screen to itself.
Prompting(t) == phase[t] \in {"opening", "asked", "settled"}

Call(t) == Move(t, "idle", "waiting") /\ UNCHANGED <<result, window, shown, answer>>

Spare(t) ==
    /\ Move(t, "waiting", "done")
    /\ window > 0
    /\ Returns(t, "auto")
    /\ UNCHANGED <<window, shown, answer>>

Open(t) ==
    /\ Move(t, "waiting", "opening")
    /\ window = 0
    /\ \A u \in Caller : ~Prompting(u)
    /\ UNCHANGED <<result, window, shown, answer>>

Show(t) ==
    /\ Move(t, "opening", "asked")
    /\ shown' = {t}
    /\ UNCHANGED <<result, window, answer>>

\* No bus, no service, or a prompt that gets lost: the call is denied.
Fail(t) ==
    /\ Move(t, "opening", "done") \/ Move(t, "asked", "done")
    /\ Returns(t, "denied")
    /\ shown' = {} /\ answer' = "none"
    /\ UNCHANGED window

\* The user's reactions, of which the first counts.
React ==
    /\ shown # {}
    /\ answer' \in IF answer = "none"
                   THEN {"approve", "approve_next_30", "deny", "closed"} ELSE {answer}
    /\ shown' \in {shown, {}}
    /\ UNCHANGED <<phase, result, window>>

Approve(t) ==
    /\ Move(t, "asked", "settled")
    /\ answer \in {"approve", "approve_next_30"}
    /\ Returns(t, "approved")
    /\ window' = IF answer = "approve_next_30" THEN Window ELSE window
    /\ UNCHANGED <<shown, answer>>

\* The user said no, or said nothing in time.
Deny(t) ==
    /\ Move(t, "asked", "settled")
    /\ Returns(t, "denied")
    /\ UNCHANGED <<window, shown, answer>>

End(t) ==
    /\ Move(t, "settled", "done")
    /\ shown' = {} /\ answer' = "none"
    /\ UNCHANGED <<result, window>>

Take(t) ==
    /\ Move(t, "done", "idle")
    /\ Returns(t, "none")
    /\ UNCHANGED <<window, shown, answer>>

Tick ==
    /\ window > 0
    /\ window' = window - 1
    /\ UNCHANGED <<phase, result, shown, answer>>

Next ==
    \/ \E t \in Caller :
        \/ Call(t) \/ Spare(t) \/ Open(t) \/ Show(t) \/ Fail(t)
        \/ Approve(t) \/ Deny(t) \/ End(t) \/ Take(t)
    \/ React \/ Tick

Spec == Init /\ [][Next]_vars
=============================================================================
