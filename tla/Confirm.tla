------------------------------- MODULE Confirm -------------------------------
(***************************************************************************)
(* internal/confirm/confirm.go: concurrent calls of Desktop.Ask, the D-Bus *)
(* session bus with its notification service, the user, and the clock.     *)
(*                                                                         *)
(* The bus and the service are known only from how Ask uses them: calls    *)
(* that are answered, fail, or hang; notifications that stay on screen     *)
(* when a button is pressed (hint "resident") until dismissed, expired or  *)
(* closed; signals broadcast to every subscriber and kept in order.        *)
(* Deadlines are kept relative to the clock.                               *)
(***************************************************************************)
EXTENDS Integers, Sequences, Functions

CONSTANTS
    Asker,        \* the goroutines that may call Ask
    Id,           \* notification IDs the service gives out
    Nil,
    Timeout,      \* Desktop.Timeout, in ticks
    Window,       \* Desktop.AutoApproveWindow, in ticks
    MaxSignals    \* bound on the signals waiting in the channel

ASSUME ConfirmAssumption ==
    /\ Timeout \in Nat \ {0}
    /\ Window \in Nat \ {0}
    /\ MaxSignals \in Nat
    /\ Nil \notin Asker \cup Id

VARIABLES
    pc,         \* where each call of Ask is
    result,     \* what it returns, once that is settled
    promptMu,   \* who holds Desktop.promptMu, or Nil
    window,     \* time until autoApproveUntil, 0 once it has passed
    deadline,   \* time left of the context of the call that holds promptMu
    conn,       \* its bus connection: "none", "up" or "lost"
    signals,    \* its signals channel
    note,       \* its notification, or Nil before the service made one
    screen,     \* notifications on screen -> the caller, Nil once it is gone
    answer,     \* history: the user's first reaction to that call's prompt
    inWindow    \* history: the calls that came while the window was open

ask  == <<pc, result>>
call == <<deadline, conn, signals, note, answer>>
vars == <<pc, result, promptMu, window, deadline, conn, signals, note, screen,
          answer, inWindow>>

Button == {"approve", "approve_next_30", "deny"}

Signal == [id : Id \cup {Nil}, action : Button \cup {"closed"}]

PC == {"idle", "ask", "lock", "locked", "connect", "caps", "match", "notify",
       "shown", "wait", "closing", "done"}

\* The calls that have passed promptMu.Lock and not yet unlocked.
Inside == {"locked", "connect", "caps", "match", "notify", "shown", "wait",
           "closing"}

Init ==
    /\ pc = [t \in Asker |-> "idle"]
    /\ result = [t \in Asker |-> "none"]
    /\ promptMu = Nil
    /\ window = 0
    /\ deadline = 0
    /\ conn = "none"
    /\ signals = <<>>
    /\ note = Nil
    /\ screen = [i \in {} |-> Nil]
    /\ answer = "none"
    /\ inWindow = {}

-----------------------------------------------------------------------------
\* Before the prompt

Goto(t, l) == pc' = [pc EXCEPT ![t] = l]

Settle(t, r) == result' = [result EXCEPT ![t] = r]

Call(t) ==
    /\ pc[t] = "idle"
    /\ Goto(t, "ask")
    /\ inWindow' = IF window > 0 THEN inWindow \cup {t} ELSE inWindow
    /\ UNCHANGED <<result, promptMu, window, call, screen>>

ShouldAutoApprove == window > 0

\* Mutated form: promptMu is not unlocked.
ReturnLocked(t, r) ==
    /\ Goto(t, "done")
    /\ Settle(t, r)
    /\ deadline' = 0
    /\ conn' = "none"
    /\ signals' = <<>>
    /\ note' = Nil
    /\ answer' = "none"
    /\ UNCHANGED promptMu

(***************************************************************************)
(* The deferred calls that run when Ask returns holding the lock: the      *)
(* signals are dropped, the connection is closed, the lock released.  A    *)
(* notification that is still on screen no longer has a caller.            *)
(***************************************************************************)
Return(t, r) ==
    /\ Goto(t, "done")
    /\ Settle(t, r)
    /\ promptMu' = Nil
    /\ deadline' = 0
    /\ conn' = "none"
    /\ signals' = <<>>
    /\ note' = Nil
    /\ answer' = "none"

Orphaned(t) == [i \in DOMAIN screen |-> IF screen[i] = t THEN Nil ELSE screen[i]]

FirstCheck(t) ==
    /\ pc[t] = "ask"
    /\ IF ShouldAutoApprove
       THEN Goto(t, "done") /\ Settle(t, "auto") /\ UNCHANGED inWindow
       ELSE Goto(t, "lock") /\ inWindow' = inWindow \ {t} /\ UNCHANGED result
    /\ UNCHANGED <<promptMu, window, call, screen>>

Lock(t) ==
    /\ pc[t] = "lock"
    /\ promptMu = Nil
    /\ promptMu' = t
    /\ Goto(t, "locked")
    /\ UNCHANGED <<result, window, call, screen, inWindow>>

\* Mutated form: what was found before waiting for the lock is trusted.
SecondCheckSkipped(t) ==
    /\ pc[t] = "locked"
    /\ Goto(t, "connect")
    /\ deadline' = Timeout
    /\ UNCHANGED <<result, promptMu, window, conn, signals, note, answer,
                   screen, inWindow>>

(***************************************************************************)
(* shouldAutoApprove again, with the lock held; then the timeout starts.   *)
(***************************************************************************)
SecondCheck(t) ==
    /\ pc[t] = "locked"
    /\ IF ShouldAutoApprove
       THEN Return(t, "auto")
       ELSE /\ Goto(t, "connect")
            /\ deadline' = Timeout
            /\ UNCHANGED <<result, promptMu, conn, signals, note, answer>>
    /\ UNCHANGED <<window, screen, inWindow>>

Connect(t) ==
    /\ pc[t] = "connect"
    /\ \/ /\ Goto(t, "caps")
          /\ conn' = "up"
          /\ UNCHANGED <<result, promptMu, deadline, signals, note, answer>>
       \/ Return(t, "denied")
    /\ UNCHANGED <<window, screen, inWindow>>

-----------------------------------------------------------------------------
\* Calls to the bus and the notification service, as they are answered

Advance(t, from, to) ==
    /\ pc[t] = from
    /\ conn = "up"
    /\ Goto(t, to)
    /\ UNCHANGED <<result, promptMu, window, deadline, conn, signals, answer,
                   inWindow>>

GetCapabilities(t) == Advance(t, "caps", "match") /\ UNCHANGED <<note, screen>>

AddMatchSignals(t) == Advance(t, "match", "notify") /\ UNCHANGED <<note, screen>>

(***************************************************************************)
(* The service puts the notification on screen, under a fresh ID; the      *)
(* reply that tells Ask the ID comes later, and buttons can be pressed in  *)
(* between.                                                                *)
(***************************************************************************)
Notify(t) ==
    /\ Advance(t, "notify", "shown")
    /\ \E i \in Id \ (DOMAIN screen \cup {s.id : s \in Range(signals)}) :
        /\ screen' = [j \in DOMAIN screen \cup {i} |->
                        IF j = i THEN t ELSE screen[j]]
        /\ note' = i

NotifyReply(t) == Advance(t, "shown", "wait") /\ UNCHANGED <<note, screen>>

(***************************************************************************)
(* An error reply, or no "actions" among the capabilities.                 *)
(***************************************************************************)
CallRefused(t) ==
    /\ pc[t] \in {"caps", "match", "notify"}
    /\ conn = "up"
    /\ Return(t, "denied")
    /\ UNCHANGED <<window, screen, inWindow>>

\* The bound of the IDs: a notification left behind leaves one for the next.
SpareId == \E i, j \in Id : i # j /\ \A k \in {i, j} \cap DOMAIN screen : screen[k] # Nil

(***************************************************************************)
(* A reply that holds no ID: Ask gives up, the notification stays.         *)
(***************************************************************************)
NotifyUnread(t) ==
    /\ pc[t] = "shown"
    /\ conn = "up"
    /\ SpareId
    /\ Return(t, "denied")
    /\ screen' = Orphaned(t)
    /\ UNCHANGED <<window, inWindow>>

\* The connection may be lost at any time; the calls under way then fail.
BusLost ==
    /\ conn = "up"
    /\ SpareId
    /\ conn' = "lost"
    /\ UNCHANGED <<ask, promptMu, window, deadline, signals, note, answer, screen,
                   inWindow>>

CallLost(t) ==
    /\ pc[t] \in {"caps", "match", "notify", "shown"}
    /\ conn = "lost"
    /\ Return(t, "denied")
    /\ screen' = Orphaned(t)
    /\ UNCHANGED <<window, inWindow>>

-----------------------------------------------------------------------------
\* The user, the service on its own account, and other applications

\* Mutated form: the signals are subscribed to once the prompt is out.
SubscribedLate == \E t \in Asker : pc[t] \in {"wait", "closing"}

Subscribed == \E t \in Asker : pc[t] \in {"notify", "shown", "wait", "closing"}

Emit(i, a) ==
    IF conn = "up" /\ Subscribed
    THEN /\ Len(signals) < MaxSignals
         /\ signals' = Append(signals, [id |-> i, action |-> a])
    ELSE UNCHANGED signals

FirstAnswer(t, a) ==
    answer' = IF t # Nil /\ answer = "none" THEN a ELSE answer

Press(i, button) ==
    /\ i \in DOMAIN screen
    /\ Emit(i, button)
    /\ FirstAnswer(screen[i], button)
    /\ UNCHANGED <<ask, promptMu, window, deadline, conn, note, screen, inWindow>>

(***************************************************************************)
(* The user closes the notification, or the service lets it expire.        *)
(***************************************************************************)
Dismiss(i) ==
    /\ i \in DOMAIN screen
    /\ Emit(i, "closed")
    /\ FirstAnswer(screen[i], "closed")
    /\ screen' = [j \in DOMAIN screen \ {i} |-> screen[j]]
    /\ UNCHANGED <<ask, promptMu, window, deadline, conn, note, inWindow>>

(***************************************************************************)
(* A signal about another application's notification, or a late one about  *)
(* a prompt that is long closed: whatever it says, it must not count.      *)
(***************************************************************************)
ForeignSignal ==
    /\ conn = "up" /\ Subscribed
    /\ Emit(Nil, "approve")
    /\ UNCHANGED <<ask, promptMu, window, deadline, conn, note, answer, screen,
                   inWindow>>

-----------------------------------------------------------------------------
\* The answer

\* Mutated form: any notification's signal is taken for an answer.
OwnAny(s) == TRUE

Own(s) == s.id = note

\* Mutated form: every approval opens the window.
WindowAfterAny(a) == IF a \in {"approve", "approve_next_30"} THEN Window ELSE window

WindowAfter(a) == IF a = "approve_next_30" THEN Window ELSE window

HandleSignal(t) ==
    /\ pc[t] = "wait"
    /\ signals # <<>>
    /\ signals' = Tail(signals)
    /\ LET s == Head(signals)
       IN  IF Own(s)
           THEN /\ Goto(t, "closing")
                /\ Settle(t, IF s.action \in {"approve", "approve_next_30"}
                             THEN "approved" ELSE "denied")
                /\ window' = WindowAfter(s.action)
           ELSE UNCHANGED <<ask, window>>
    /\ UNCHANGED <<promptMu, deadline, conn, note, answer, screen, inWindow>>

\* Mutated form: without the context, Ask waits for the user.
TimeOutNever(t) == FALSE /\ UNCHANGED vars

(***************************************************************************)
(* ctx.Done.  Select takes either branch if a signal is waiting as well;   *)
(* a lost connection closes the channel, and Ask spins until the timeout.  *)
(***************************************************************************)
TimeOut(t) ==
    /\ pc[t] = "wait"
    /\ deadline = 0
    /\ Goto(t, "closing")
    /\ Settle(t, "denied")
    /\ UNCHANGED <<promptMu, window, call, screen, inWindow>>

\* Mutated form: the lock is released without closing the notification.
CloseNothing(t) ==
    /\ pc[t] = "closing"
    /\ conn = "up"
    /\ Return(t, result[t])
    /\ UNCHANGED <<window, screen, inWindow>>

(***************************************************************************)
(* The deferred CloseNotification call, answered; then the lock is free.   *)
(***************************************************************************)
CloseNotification(t) ==
    /\ pc[t] = "closing"
    /\ conn = "up"
    /\ screen' = [i \in DOMAIN screen \ {note} |-> screen[i]]
    /\ Return(t, result[t])
    /\ UNCHANGED <<window, inWindow>>

CloseLost(t) ==
    /\ pc[t] = "closing"
    /\ conn = "lost"
    /\ screen' = Orphaned(t)
    /\ Return(t, result[t])
    /\ UNCHANGED <<window, inWindow>>

\* ServeHTTP takes the result and forwards or refuses its request.
Done(t) ==
    /\ pc[t] = "done"
    /\ Goto(t, "idle")
    /\ Settle(t, "none")
    /\ inWindow' = inWindow \ {t}
    /\ UNCHANGED <<promptMu, window, call, screen>>

Tick ==
    /\ window' = IF window = 0 THEN 0 ELSE window - 1
    /\ deadline' = IF deadline = 0 THEN 0 ELSE deadline - 1
    /\ UNCHANGED <<ask, promptMu, conn, signals, note, answer, screen, inWindow>>

-----------------------------------------------------------------------------

\* What the goroutine that called Ask does by itself.
Program(t) ==
    \/ FirstCheck(t) \/ SecondCheck(t) \/ Connect(t)
    \/ CallLost(t) \/ CloseLost(t)
    \/ HandleSignal(t) \/ TimeOut(t) \/ Done(t)

\* What it takes an answer from the bus or the service to do.
Answered(t) ==
    \/ GetCapabilities(t) \/ AddMatchSignals(t) \/ Notify(t) \/ NotifyReply(t)
    \/ NotifyUnread(t) \/ CallRefused(t) \/ CloseNotification(t)

Environment ==
    \/ BusLost \/ ForeignSignal \/ Tick
    \/ \E i \in Id : Dismiss(i) \/ \E b \in Button : Press(i, b)

Next ==
    \/ \E t \in Asker : Call(t) \/ Lock(t) \/ Program(t) \/ Answered(t)
    \/ Environment

Spec == Init /\ [][Next]_vars

(***************************************************************************)
(* Goroutines are scheduled, select does not favour signals over the       *)
(* context for ever, a Mutex starves no waiter (sync.Mutex's starvation    *)
(* mode), and time passes.  The user need never react.                     *)
(***************************************************************************)
ProgramFairness ==
    /\ \A t \in Asker :
        WF_vars(Program(t)) /\ WF_vars(TimeOut(t)) /\ SF_vars(Lock(t))
    /\ WF_vars(Tick)

(***************************************************************************)
(* ProgramFair leaves the bus and the service free to hang; ServiceFair    *)
(* has every call answered.                                                *)
(***************************************************************************)
ProgramFair == Spec /\ ProgramFairness

ServiceFair == ProgramFair /\ \A t \in Asker : WF_vars(Answered(t))

-----------------------------------------------------------------------------

Typed ==
    /\ pc \in [Asker -> PC]
    /\ result \in [Asker -> {"none", "auto", "approved", "denied"}]
    /\ promptMu \in Asker \cup {Nil}
    /\ window \in 0..Window
    /\ deadline \in 0..Timeout
    /\ conn \in {"none", "up", "lost"}
    /\ signals \in Seq(Signal)
    /\ note \in Id \cup {Nil}
    /\ DOMAIN screen \subseteq Id
    /\ \A i \in DOMAIN screen : screen[i] \in Asker \cup {Nil}
    /\ answer \in Button \cup {"none", "closed"}
    /\ inWindow \subseteq Asker

\* The calls that hold promptMu are the one that promptMu names.
Holder == \A t \in Asker : pc[t] \in Inside <=> promptMu = t

\* When the lock is free nothing is left of the call that held it.
AtRest ==
    promptMu = Nil =>
        /\ deadline = 0 /\ conn = "none" /\ signals = <<>>
        /\ note = Nil /\ answer = "none"

(***************************************************************************)
(* The lock, and all that belongs to the one call that prompts, lasts      *)
(* exactly as long as that call is past Lock, on every way out of Ask.     *)
(***************************************************************************)
TypeOK == Typed /\ Holder /\ AtRest

(***************************************************************************)
(* One actionable notification at a time (README.md:366): a prompt on      *)
(* screen is the one of the call that holds promptMu, and goes before the  *)
(* lock does, on every way out of Ask; only a lost bus connection, or a    *)
(* reply without an ID, leaves one behind, which then answers for nobody.  *)
(***************************************************************************)
OnePrompt ==
    \A i \in DOMAIN screen :
        screen[i] # Nil => promptMu = screen[i] /\ note = i

(***************************************************************************)
(* While the user's "Approve All 30s" lasts no call prompts, those         *)
(* included that were waiting for the lock when it was pressed.            *)
(***************************************************************************)
NoPromptInWindow ==
    [][ShouldAutoApprove => DOMAIN screen' \subseteq DOMAIN screen]_vars

Approving == {"approve", "approve_next_30"}

(***************************************************************************)
(* The user's first reaction to this very prompt decides, even if it comes *)
(* before Ask knows the notification's ID: not a later one, not one to     *)
(* another notification; without it, or once the timeout has passed, the   *)
(* call is denied.                                                         *)
(***************************************************************************)
FirstAnswerDecides ==
    [][\A t \in Asker :
          pc[t] = "wait" /\ pc'[t] = "closing" =>
              \/ result'[t] = "approved" /\ answer \in Approving
              \/ result'[t] = "denied" /\ answer \notin Approving
              \/ result'[t] = "denied" /\ deadline = 0]_vars

(***************************************************************************)
(* The window opens, or is extended, only by the user's choosing it as the *)
(* first reaction to the prompt of the call that holds the lock.           *)
(***************************************************************************)
WindowNeedsConsent ==
    [][window' > window =>
          promptMu # Nil /\ answer = "approve_next_30"]_vars

\* What AskSpec sees of a call.
PhaseOf(l) ==
    CASE l = "idle" -> "idle"
      [] l \in {"ask", "lock", "locked"} -> "waiting"
      [] l \in {"connect", "caps", "match", "notify"} -> "opening"
      [] l \in {"shown", "wait"} -> "asked"
      [] l = "closing" -> "settled"
      [] l = "done" -> "done"

Promise == INSTANCE AskSpec WITH
    Caller <- Asker,
    phase  <- [t \in Asker |-> PhaseOf(pc[t])],
    shown  <- {screen[i] : i \in DOMAIN screen} \ {Nil}

(***************************************************************************)
(* Of the mutex, the bus, its signals and their order, of lost connections *)
(* and the context, a caller sees no more than AskSpec says.               *)
(***************************************************************************)
ImplementsAskSpec == Promise!Spec

(***************************************************************************)
(* Every call of Ask returns, whatever the user does: no call holds the    *)
(* lock for ever, and none waits for it for ever.                          *)
(***************************************************************************)
AskEnds == \A t \in Asker : pc[t] = "ask" ~> pc[t] = "done"

-----------------------------------------------------------------------------
\* What the documentation says

(***************************************************************************)
(* README.md:373: "Approve All Pending drains the current confirmation     *)
(* backlog": a request that comes once the window is open was not pending. *)
(***************************************************************************)
OnlyBacklogAutoApproved ==
    \A t \in Asker : result[t] = "auto" => t \notin inWindow
=============================================================================
