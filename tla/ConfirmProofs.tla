---------------------------- MODULE ConfirmProofs ----------------------------
(***************************************************************************)
(* Proofs about Confirm, for any number of callers, notifications and      *)
(* signals, and any timeout and window: its type invariant, that one       *)
(* prompt at a time is on screen, that none is shown while the window      *)
(* lasts, that the user's first reaction decides, and that Confirm         *)
(* implements AskSpec.                                                     *)
(***************************************************************************)
EXTENDS Confirm, TLAPS, SequenceTheorems

-----------------------------------------------------------------------------
\* The inductive invariant

(***************************************************************************)
(* How far the call that holds the lock has come: it has no connection     *)
(* before "caps", no notification before "shown", and until it is          *)
(* answered nobody opens the window.                                       *)
(***************************************************************************)
Progress ==
    \A t \in Asker :
        /\ pc[t] \in {"locked", "connect"} => conn = "none" /\ signals = <<>>
        /\ pc[t] \in {"caps", "match", "notify", "shown", "wait", "closing"} =>
              conn # "none"
        /\ pc[t] \in {"locked", "connect", "caps", "match", "notify"} =>
              note = Nil /\ answer = "none"
        /\ pc[t] \in {"shown", "wait", "closing"} => note \in Id
        /\ pc[t] \in {"connect", "caps", "match", "notify", "shown", "wait"} =>
              window = 0

\* A prompt on screen is the holder's; the others answer for nobody.
OnScreen ==
    \A i \in DOMAIN screen :
        IF i = note THEN promptMu # Nil /\ screen[i] = promptMu ELSE screen[i] = Nil

\* The k-th signal in the channel is the first that is about the call's prompt.
FirstOwn(k) ==
    /\ k \in 1..Len(signals) /\ signals[k].id = note
    /\ \A m \in 1..(k - 1) : signals[m].id # note

(***************************************************************************)
(* While the prompt is open, the first signal about it is the user's first *)
(* reaction, if the connection still brought it.                           *)
(***************************************************************************)
Queued ==
    /\ answer = "none" => \A k \in 1..Len(signals) : signals[k].id # note
    /\ conn = "up" /\ answer # "none" => \E k \in 1..Len(signals) : signals[k].id = note
    /\ \A k \in 1..Len(signals) : FirstOwn(k) => signals[k].action = answer

Queue == \A t \in Asker : pc[t] \in {"shown", "wait"} => Queued

IInv == Typed /\ Holder /\ AtRest /\ Progress /\ OnScreen /\ Queue

-----------------------------------------------------------------------------
\* Steps outside the lock

Outside == {"idle", "ask", "lock", "done"}

Results == {"none", "auto", "approved", "denied"}

\* Whoever does not hold the lock changes nothing of the prompt.
LEMMA OutsideKeeps ==
    ASSUME IInv, NEW t \in Asker, NEW l \in Outside,
           pc[t] \in Outside, Goto(t, l),
           result' \in [Asker -> Results], inWindow' \subseteq Asker,
           UNCHANGED <<promptMu, window, call, screen>>
    PROVE  IInv'
  <1>1. /\ pc \in [Asker -> PC] /\ pc' = [pc EXCEPT ![t] = l] /\ l \in PC
        /\ UNCHANGED <<promptMu, window, deadline, conn, signals, note, answer, screen>>
    BY DEF IInv, Typed, Goto, call, Outside, PC
  <1>2. \A u \in Asker : \/ pc'[u] = pc[u]
                         \/ u = t /\ pc[u] \in Outside /\ pc'[u] \in Outside
    BY <1>1
  <1>3. Typed'
    BY <1>1 DEF IInv, Typed, Results
  <1>4. Holder'
    BY <1>1, <1>2 DEF IInv, Holder, Inside, Outside
  <1>5. AtRest' /\ OnScreen'
    BY <1>1 DEF IInv, AtRest, OnScreen
  <1>6. Progress'
    BY <1>1, <1>2 DEF IInv, Progress, Outside
  <1>7. Queue'
    <2>1. Queued' <=> Queued
      BY <1>1 DEF Queued, FirstOwn
    <2> QED
      BY <1>2, <2>1 DEF IInv, Queue, Outside
  <1> QED
    BY <1>3, <1>4, <1>5, <1>6, <1>7 DEF IInv

\* Ask is called.
LEMMA CallKeeps ==
    ASSUME IInv, NEW t \in Asker, Call(t)
    PROVE  IInv'
  <1>1. /\ pc[t] \in Outside /\ Goto(t, "ask") /\ "ask" \in Outside
        /\ result' \in [Asker -> Results] /\ inWindow' \subseteq Asker
        /\ UNCHANGED <<promptMu, window, call, screen>>
    BY DEF IInv, Typed, Call, Results, Outside
  <1> QED
    BY <1>1, OutsideKeeps

\* It looks at the window, without the lock.
LEMMA FirstCheckKeeps ==
    ASSUME IInv, NEW t \in Asker, FirstCheck(t)
    PROVE  IInv'
  <1>1. /\ pc[t] \in Outside
        /\ \E l \in Outside : Goto(t, l)
        /\ result' \in [Asker -> Results] /\ inWindow' \subseteq Asker
        /\ UNCHANGED <<promptMu, window, call, screen>>
    BY DEF IInv, Typed, FirstCheck, Settle, Results, Outside
  <1> QED
    BY <1>1, OutsideKeeps

\* Its caller takes the result.
LEMMA DoneKeeps ==
    ASSUME IInv, NEW t \in Asker, Done(t)
    PROVE  IInv'
  <1>1. /\ pc[t] \in Outside /\ Goto(t, "idle") /\ "idle" \in Outside
        /\ result' \in [Asker -> Results] /\ inWindow' \subseteq Asker
        /\ UNCHANGED <<promptMu, window, call, screen>>
    BY DEF IInv, Typed, Done, Settle, Results, Outside
  <1> QED
    BY <1>1, OutsideKeeps

-----------------------------------------------------------------------------
\* The lock

\* The lock is taken.
LEMMA LockKeeps ==
    ASSUME IInv, NEW t \in Asker, Lock(t)
    PROVE  IInv'
  <1>1. /\ pc \in [Asker -> PC] /\ pc' = [pc EXCEPT ![t] = "locked"]
        /\ pc[t] = "lock" /\ promptMu = Nil /\ promptMu' = t
        /\ UNCHANGED <<result, window, deadline, conn, signals, note, answer, screen,
                       inWindow>>
    BY DEF IInv, Typed, Lock, Goto, call
  <1>2. /\ \A u \in Asker : pc'[u] = IF u = t THEN "locked" ELSE pc[u]
        /\ \A u \in Asker : pc[u] \notin Inside
        /\ pc' \in [Asker -> PC]
    BY <1>1, ConfirmAssumption DEF IInv, Holder, PC
  <1>3. conn = "none" /\ signals = <<>> /\ note = Nil /\ answer = "none"
    BY <1>1 DEF IInv, AtRest
  <1>4. Typed'
    BY <1>1, <1>2 DEF IInv, Typed
  <1>5. Holder' /\ AtRest'
    BY <1>1, <1>2, ConfirmAssumption DEF Holder, AtRest, Inside
  <1>6. Progress' /\ Queue'
    BY <1>1, <1>2, <1>3 DEF Progress, Queue, Inside
  <1>7. OnScreen'
    BY <1>1, <1>3, ConfirmAssumption DEF IInv, Typed, OnScreen
  <1> QED
    BY <1>4, <1>5, <1>6, <1>7 DEF IInv

\* The call that holds the lock is the only one inside.
LEMMA OneInside ==
    ASSUME IInv, NEW t \in Asker, pc[t] \in Inside
    PROVE  promptMu = t /\ promptMu # Nil /\ \A u \in Asker : u # t => pc[u] \notin Inside
  BY ConfirmAssumption DEF IInv, Holder

\* Ask returns, and no notification on screen has a caller any more.
LEMMA ReturnKeeps ==
    ASSUME IInv, NEW t \in Asker, NEW r \in Results, pc[t] \in Inside, Return(t, r),
           DOMAIN screen' \subseteq Id, \A i \in DOMAIN screen' : screen'[i] = Nil,
           UNCHANGED <<window, inWindow>>
    PROVE  IInv'
  <1>1. /\ pc \in [Asker -> PC] /\ pc' = [pc EXCEPT ![t] = "done"]
        /\ result' = [result EXCEPT ![t] = r]
        /\ promptMu' = Nil /\ deadline' = 0 /\ conn' = "none" /\ signals' = <<>>
        /\ note' = Nil /\ answer' = "none"
    BY DEF IInv, Typed, Return, Goto, Settle
  <1>2. \A u \in Asker : pc'[u] = IF u = t THEN "done" ELSE pc[u]
    BY <1>1
  <1>3. \A u \in Asker : pc'[u] \notin Inside
    BY <1>2, OneInside DEF Inside
  <1>4. Typed'
    <2>1. pc' \in [Asker -> PC] /\ result' \in [Asker -> Results]
      BY <1>1 DEF IInv, Typed, PC, Results
    <2>2. signals' \in Seq(Signal) /\ deadline' \in 0..Timeout
      BY <1>1, ConfirmAssumption
    <2> QED
      BY <1>1, <2>1, <2>2 DEF IInv, Typed, Results
  <1>5. Holder' /\ AtRest'
    BY <1>1, <1>3, ConfirmAssumption DEF Holder, AtRest
  <1>6. Progress' /\ Queue'
    BY <1>3 DEF Progress, Queue, Inside
  <1>7. OnScreen'
    BY <1>1, ConfirmAssumption DEF OnScreen
  <1> QED
    BY <1>4, <1>5, <1>6, <1>7 DEF IInv

\* Before there is a notification, those on screen have no caller.
LEMMA NoneYet ==
    ASSUME IInv, NEW t \in Asker,
           pc[t] \in {"locked", "connect", "caps", "match", "notify"}
    PROVE  /\ DOMAIN screen \subseteq Id
           /\ \A i \in DOMAIN screen : screen[i] = Nil
  BY ConfirmAssumption DEF IInv, Typed, Progress, OnScreen

\* Once it has gone or been given up, neither has any of the rest.
LEMMA NoneLeft ==
    ASSUME IInv, NEW t \in Asker, pc[t] \in Inside
    PROVE  /\ DOMAIN Orphaned(t) \subseteq Id
           /\ \A i \in DOMAIN Orphaned(t) : Orphaned(t)[i] = Nil
           /\ \A i \in DOMAIN screen \ {note} : i \in Id /\ screen[i] = Nil
  BY OneInside DEF IInv, Typed, OnScreen, Orphaned

\* With the lock held it looks at the window again.
LEMMA SecondCheckKeeps ==
    ASSUME IInv, NEW t \in Asker, SecondCheck(t)
    PROVE  IInv'
  <1>1. pc[t] = "locked" /\ UNCHANGED <<window, screen, inWindow>>
    BY DEF SecondCheck
  <1>2. CASE window > 0
    <2>1. Return(t, "auto")
      BY <1>2 DEF SecondCheck, ShouldAutoApprove
    <2>2. pc[t] \in Inside /\ "auto" \in Results
      BY <1>1 DEF Inside, Results
    <2>3. DOMAIN screen' \subseteq Id /\ \A i \in DOMAIN screen' : screen'[i] = Nil
      BY <1>1, NoneYet
    <2> QED
      BY <1>1, <2>1, <2>2, <2>3, ReturnKeeps
  <1>3. CASE ~(window > 0)
    <2>1. /\ pc' = [pc EXCEPT ![t] = "connect"] /\ deadline' = Timeout
          /\ UNCHANGED <<result, promptMu, conn, signals, note, answer>>
      BY <1>3 DEF SecondCheck, ShouldAutoApprove, Goto
    <2>2. /\ pc \in [Asker -> PC] /\ pc' \in [Asker -> PC]
          /\ \A u \in Asker : pc'[u] = IF u = t THEN "connect" ELSE pc[u]
      BY <2>1 DEF IInv, Typed, PC
    <2>3. window = 0 /\ Timeout \in 0..Timeout
      BY <1>3, ConfirmAssumption DEF IInv, Typed
    <2>4. pc[t] \in Inside
      BY <1>1 DEF Inside
    <2>5. Typed'
      BY <1>1, <2>1, <2>2, <2>3 DEF IInv, Typed
    <2>6. Holder' /\ OnScreen'
      BY <1>1, <2>1, <2>2 DEF IInv, Holder, OnScreen, Inside
    <2>9. AtRest'
      BY <2>1, <2>4, OneInside DEF AtRest
    <2>7. Progress'
      BY <1>1, <2>1, <2>2, <2>3, OneInside, <2>4 DEF IInv, Progress, Inside
    <2>8. Queue'
      BY <2>2, <2>4, OneInside DEF Queue, Inside
    <2> QED
      BY <2>5, <2>6, <2>7, <2>8, <2>9 DEF IInv
  <1> QED
    BY <1>2, <1>3

(***************************************************************************)
(* The call under way comes one step further, the notification and what    *)
(* the user did stay as they are.                                          *)
(***************************************************************************)
LEMMA MoveKeeps ==
    ASSUME IInv, NEW t \in Asker, NEW l \in {"caps", "match", "notify", "wait"},
           IF l = "wait" THEN pc[t] = "shown" /\ conn = "up"
                         ELSE pc[t] \in {"connect", "caps", "match"},
           Goto(t, l), conn' = "up",
           UNCHANGED <<result, promptMu, window, deadline, signals, note, answer,
                       screen, inWindow>>
    PROVE  IInv'
  <1>1. /\ pc \in [Asker -> PC] /\ pc' = [pc EXCEPT ![t] = l] /\ l \in PC
    BY DEF IInv, Typed, Goto, PC
  <1>2. /\ \A u \in Asker : pc'[u] = IF u = t THEN l ELSE pc[u]
        /\ pc' \in [Asker -> PC]
    BY <1>1
  <1>3. pc[t] \in Inside /\ l \in Inside
    BY DEF Inside
  <1>4. Typed'
    BY <1>2 DEF IInv, Typed
  <1>5. Holder' /\ OnScreen'
    BY <1>2, <1>3 DEF IInv, Holder, OnScreen
  <1>6. AtRest'
    BY <1>3, OneInside DEF AtRest
  <1>7. Progress'
    BY <1>2, <1>3, OneInside DEF IInv, Progress, Inside
  <1>8. Queue'
    <2>1. l = "wait" => Queued'
      BY DEF IInv, Queue, Queued, FirstOwn
    <2> QED
      BY <1>2, <1>3, <2>1, OneInside DEF Queue, Inside
  <1> QED
    BY <1>4, <1>5, <1>6, <1>7, <1>8 DEF IInv

\* The bus is reached, or the call denied.
LEMMA ConnectKeeps ==
    ASSUME IInv, NEW t \in Asker, Connect(t)
    PROVE  IInv'
  <1>1. pc[t] = "connect" /\ UNCHANGED <<window, screen, inWindow>>
    BY DEF Connect
  <1>2. CASE Return(t, "denied")
    <2>1. pc[t] \in Inside /\ "denied" \in Results
      BY <1>1 DEF Inside, Results
    <2>2. DOMAIN screen' \subseteq Id /\ \A i \in DOMAIN screen' : screen'[i] = Nil
      BY <1>1, NoneYet
    <2> QED
      BY <1>1, <1>2, <2>1, <2>2, ReturnKeeps
  <1>3. CASE /\ Goto(t, "caps") /\ conn' = "up"
             /\ UNCHANGED <<result, promptMu, deadline, signals, note, answer>>
    BY <1>1, <1>3, MoveKeeps
  <1> QED
    BY <1>2, <1>3 DEF Connect

\* A call to the service is answered.
LEMMA GetCapabilitiesKeeps ==
    ASSUME IInv, NEW t \in Asker, GetCapabilities(t)
    PROVE  IInv'
  <1>1. /\ pc[t] = "caps" /\ Goto(t, "match") /\ conn' = "up"
        /\ UNCHANGED <<result, promptMu, window, deadline, signals, note, answer,
                       screen, inWindow>>
    BY DEF GetCapabilities, Advance
  <1> QED
    BY <1>1, MoveKeeps

\* The signals are subscribed to.
LEMMA AddMatchSignalsKeeps ==
    ASSUME IInv, NEW t \in Asker, AddMatchSignals(t)
    PROVE  IInv'
  <1>1. /\ pc[t] = "match" /\ Goto(t, "notify") /\ conn' = "up"
        /\ UNCHANGED <<result, promptMu, window, deadline, signals, note, answer,
                       screen, inWindow>>
    BY DEF AddMatchSignals, Advance
  <1> QED
    BY <1>1, MoveKeeps

\* Ask learns the notification's ID.
LEMMA NotifyReplyKeeps ==
    ASSUME IInv, NEW t \in Asker, NotifyReply(t)
    PROVE  IInv'
  <1>1. /\ pc[t] = "shown" /\ conn = "up" /\ Goto(t, "wait") /\ conn' = "up"
        /\ UNCHANGED <<result, promptMu, window, deadline, signals, note, answer,
                       screen, inWindow>>
    BY DEF NotifyReply, Advance
  <1> QED
    BY <1>1, MoveKeeps

\* The prompt is put on screen.
LEMMA NotifyKeeps ==
    ASSUME IInv, NEW t \in Asker, Notify(t)
    PROVE  IInv'
  <1>1. /\ pc \in [Asker -> PC] /\ pc' = [pc EXCEPT ![t] = "shown"]
        /\ pc[t] = "notify" /\ conn = "up"
        /\ UNCHANGED <<result, promptMu, window, deadline, conn, signals, answer,
                       inWindow>>
    BY DEF IInv, Typed, Notify, Advance, Goto
  <1>2. PICK i \in Id : /\ i \notin DOMAIN screen
                        /\ \A k \in 1..Len(signals) : signals[k].id # i
                        /\ screen' = [j \in DOMAIN screen \cup {i} |->
                                        IF j = i THEN t ELSE screen[j]]
                        /\ note' = i
    <2>1. PICK i \in Id \ (DOMAIN screen \cup {s.id : s \in Range(signals)}) :
            /\ screen' = [j \in DOMAIN screen \cup {i} |->
                            IF j = i THEN t ELSE screen[j]]
            /\ note' = i
      BY DEF Notify
    <2>2. \A k \in 1..Len(signals) : signals[k] \in Range(signals)
      BY DEF IInv, Typed, Range
    <2> QED
      BY <2>1, <2>2
  <1>3. /\ \A u \in Asker : pc'[u] = IF u = t THEN "shown" ELSE pc[u]
        /\ pc' \in [Asker -> PC] /\ pc[t] \in Inside
    BY <1>1 DEF PC, Inside
  <1>4. /\ promptMu = t /\ promptMu # Nil /\ note = Nil /\ answer = "none"
        /\ window = 0 /\ \A u \in Asker : u # t => pc[u] \notin Inside
    BY <1>1, <1>3, OneInside DEF IInv, Progress
  <1>5. /\ DOMAIN screen' \subseteq Id
        /\ \A j \in DOMAIN screen' : screen'[j] = IF j = i THEN t ELSE Nil
    BY <1>1, <1>2, NoneYet
  <1>6. Typed'
    BY <1>1, <1>2, <1>3, <1>5 DEF IInv, Typed
  <1>7. Holder' /\ AtRest' /\ OnScreen'
    BY <1>1, <1>2, <1>3, <1>4, <1>5 DEF IInv, Holder, AtRest, OnScreen, Inside
  <1>8. Progress'
    BY <1>1, <1>2, <1>3, <1>4 DEF IInv, Progress, Inside
  <1>9. Queue'
    <2>1. Queued'
      BY <1>1, <1>2, <1>4 DEF Queued, FirstOwn
    <2> QED
      BY <2>1 DEF Queue
  <1> QED
    BY <1>6, <1>7, <1>8, <1>9 DEF IInv

\* The service refuses a call.
LEMMA CallRefusedKeeps ==
    ASSUME IInv, NEW t \in Asker, CallRefused(t)
    PROVE  IInv'
  <1>1. /\ pc[t] \in {"caps", "match", "notify"} /\ Return(t, "denied")
        /\ UNCHANGED <<window, screen, inWindow>>
    BY DEF CallRefused
  <1>2. pc[t] \in Inside /\ "denied" \in Results
    BY <1>1 DEF Inside, Results
  <1>3. DOMAIN screen' \subseteq Id /\ \A i \in DOMAIN screen' : screen'[i] = Nil
    BY <1>1, NoneYet
  <1> QED
    BY <1>1, <1>2, <1>3, ReturnKeeps

\* A call fails because the connection is lost, or its reply holds no ID.
LEMMA CallLostKeeps ==
    ASSUME IInv, NEW t \in Asker, CallLost(t) \/ NotifyUnread(t)
    PROVE  IInv'
  <1>1. /\ pc[t] \in Inside /\ "denied" \in Results /\ Return(t, "denied")
        /\ screen' = Orphaned(t) /\ UNCHANGED <<window, inWindow>>
    BY DEF CallLost, NotifyUnread, Inside, Results
  <1> QED
    BY <1>1, NoneLeft, ReturnKeeps

-----------------------------------------------------------------------------
\* The user, the service, the bus, the clock

\* The state of the call that has a prompt on screen.
LEMMA Open ==
    ASSUME IInv, note # Nil
    PROVE  /\ promptMu \in Asker /\ promptMu # Nil
           /\ pc[promptMu] \in {"shown", "wait", "closing"}
  <1>1. promptMu \in Asker /\ promptMu # Nil
    BY ConfirmAssumption DEF IInv, Typed, AtRest
  <1> QED
    BY <1>1 DEF IInv, Holder, Progress, Inside

\* A signal about i joins the channel; about the prompt, it may be the first.
LEMMA EmitQueued ==
    ASSUME IInv, NEW t \in Asker, pc[t] \in {"shown", "wait"},
           NEW i \in Id \cup {Nil}, NEW a \in Button \cup {"closed"}, Emit(i, a),
           answer' = IF i = note /\ answer = "none" THEN a ELSE answer,
           UNCHANGED <<conn, note>>
    PROVE  Queued'
  <1>1. Queued /\ a # "none"
    BY DEF IInv, Queue, Button
  <1>2. CASE conn = "up"
    <2>. DEFINE s == [id |-> i, action |-> a]
    <2>1. signals' = Append(signals, s)
      BY <1>2 DEF Emit, Subscribed
    <2>2. s \in Signal /\ signals \in Seq(Signal) /\ s.id = i /\ s.action = a
      BY DEF IInv, Typed, Signal
    <2>3. /\ Len(signals) \in Nat /\ Len(signals') = Len(signals) + 1
          /\ \A k \in 1..Len(signals) : signals'[k] = signals[k]
          /\ signals'[Len(signals) + 1] = s
      BY <2>1, <2>2, AppendProperties, LenProperties
    <2>. HIDE DEF s
    <2>4. \A k \in 1..Len(signals') : k \in 1..Len(signals) \/ k = Len(signals) + 1
      BY <2>3
    <2>5. (answer = "none" => \A k \in 1..Len(signals) : signals[k].id # note)'
      BY <1>1, <2>2, <2>3, <2>4 DEF Queued
    <2>6. (conn = "up" /\ answer # "none" => \E k \in 1..Len(signals) : signals[k].id = note)'
      <3>1. CASE i = note
        BY <2>2, <2>3, <3>1
      <3>2. CASE i # note /\ answer # "none"
        <4>1. PICK k \in 1..Len(signals) : signals[k].id = note
          BY <1>1, <1>2, <3>2 DEF Queued
        <4>2. k \in 1..Len(signals') /\ signals'[k].id = note
          BY <2>3, <4>1
        <4> QED
          BY <4>2
      <3> QED
        BY <3>1, <3>2
    <2>7. ASSUME NEW k \in 1..Len(signals'), FirstOwn(k)'
          PROVE  signals'[k].action = answer'
      <3>1. CASE k \in 1..Len(signals)
        <4>1. \A m \in 1..(k - 1) : m \in 1..Len(signals)
          BY <2>3, <3>1
        <4>2. FirstOwn(k)
          BY <2>3, <2>7, <3>1, <4>1 DEF FirstOwn
        <4>3. signals[k].action = answer /\ answer # "none"
          BY <1>1, <3>1, <4>2 DEF Queued, FirstOwn
        <4> QED
          BY <2>3, <3>1, <4>3
      <3>2. CASE k = Len(signals) + 1
        <4>1. i = note
          BY <2>2, <2>3, <2>7, <3>2 DEF FirstOwn
        <4>2. \A m \in 1..Len(signals) : signals[m].id # note
          <5>1. \A m \in 1..(k - 1) : signals'[m].id # note
            BY <2>7 DEF FirstOwn
          <5>2. k - 1 = Len(signals)
            BY <2>3, <3>2
          <5> QED
            BY <2>3, <5>1, <5>2
        <4>3. answer = "none"
          BY <1>1, <1>2, <4>2 DEF Queued
        <4> QED
          BY <2>2, <2>3, <3>2, <4>1, <4>3
      <3> QED
        BY <2>4, <3>1, <3>2
    <2> QED
      BY <2>5, <2>6, <2>7 DEF Queued
  <1>3. CASE conn # "up"
    <2>1. signals' = signals
      BY <1>3 DEF Emit
    <2> QED
      BY <1>1, <1>3, <2>1 DEF Queued, FirstOwn
  <1> QED
    BY <1>2, <1>3

(***************************************************************************)
(* A signal about i is sent to whoever has subscribed, and notifications   *)
(* may leave the screen.                                                   *)
(***************************************************************************)
LEMMA EmitKeeps ==
    ASSUME IInv, NEW i \in Id \cup {Nil}, NEW a \in Button \cup {"closed"}, Emit(i, a),
           answer' = IF i # Nil /\ i = note /\ answer = "none" THEN a ELSE answer,
           DOMAIN screen' \subseteq DOMAIN screen,
           \A j \in DOMAIN screen' : screen'[j] = screen[j],
           UNCHANGED <<ask, promptMu, window, deadline, conn, note, inWindow>>
    PROVE  IInv'
  <1>1. conn # "up" => signals' = signals
    BY DEF Emit
  <1>2. note = Nil => answer' = answer
    OBVIOUS
  <1>3. signals' \in Seq(Signal)
    <2>1. [id |-> i, action |-> a] \in Signal /\ signals \in Seq(Signal)
      BY DEF IInv, Typed, Signal
    <2> QED
      BY <2>1, AppendProperties DEF Emit
  <1>4. Typed'
    BY <1>3 DEF IInv, Typed, ask
  <1>5. Holder' /\ AtRest' /\ OnScreen'
    BY <1>1, <1>2 DEF IInv, Holder, AtRest, OnScreen, ask
  <1>6. Progress'
    BY <1>1, <1>2 DEF IInv, Progress, ask
  <1>7. ASSUME NEW t \in Asker, pc'[t] \in {"shown", "wait"}
        PROVE  Queued'
    <2>1. pc[t] \in {"shown", "wait"} /\ note # Nil
      BY <1>7, ConfirmAssumption DEF IInv, Progress, ask
    <2>2. answer' = IF i = note /\ answer = "none" THEN a ELSE answer
      BY <2>1
    <2> QED
      BY <2>1, <2>2, EmitQueued
  <1> QED
    BY <1>4, <1>5, <1>6, <1>7 DEF IInv, Queue

\* The history keeps the first reaction to a notification that has a caller.
LEMMA FirstAnswerIs ==
    ASSUME IInv, NEW i \in DOMAIN screen, NEW a, FirstAnswer(screen[i], a)
    PROVE  /\ i \in Id
           /\ answer' = IF i # Nil /\ i = note /\ answer = "none" THEN a ELSE answer
  <1>1. i \in Id /\ i # Nil
    BY ConfirmAssumption DEF IInv, Typed
  <1>2. screen[i] # Nil <=> i = note
    BY DEF IInv, OnScreen
  <1> QED
    BY <1>1, <1>2 DEF FirstAnswer

\* The user presses a button.
LEMMA PressKeeps ==
    ASSUME IInv, NEW i \in Id, NEW b \in Button, Press(i, b)
    PROVE  IInv'
  <1>1. /\ i \in DOMAIN screen /\ Emit(i, b) /\ FirstAnswer(screen[i], b)
        /\ UNCHANGED <<ask, promptMu, window, deadline, conn, note, screen, inWindow>>
    BY DEF Press
  <1>2. answer' = IF i # Nil /\ i = note /\ answer = "none" THEN b ELSE answer
    BY <1>1, FirstAnswerIs
  <1> QED
    BY <1>1, <1>2, EmitKeeps

\* The notification is closed.
LEMMA DismissKeeps ==
    ASSUME IInv, NEW i \in Id, Dismiss(i)
    PROVE  IInv'
  <1>1. /\ i \in DOMAIN screen /\ Emit(i, "closed") /\ FirstAnswer(screen[i], "closed")
        /\ screen' = [j \in DOMAIN screen \ {i} |-> screen[j]]
        /\ UNCHANGED <<ask, promptMu, window, deadline, conn, note, inWindow>>
    BY DEF Dismiss
  <1>2. answer' = IF i # Nil /\ i = note /\ answer = "none" THEN "closed" ELSE answer
    BY <1>1, FirstAnswerIs
  <1>3. /\ DOMAIN screen' \subseteq DOMAIN screen
        /\ \A j \in DOMAIN screen' : screen'[j] = screen[j]
    BY <1>1
  <1> QED
    BY <1>1, <1>2, <1>3, EmitKeeps

\* A signal that is none of this call's business.
LEMMA ForeignSignalKeeps ==
    ASSUME IInv, ForeignSignal
    PROVE  IInv'
  <1>1. /\ Emit(Nil, "approve")
        /\ UNCHANGED <<ask, promptMu, window, deadline, conn, note, answer, screen,
                       inWindow>>
    BY DEF ForeignSignal
  <1>2. "approve" \in Button \cup {"closed"}
    BY DEF Button
  <1> QED
    BY <1>1, <1>2, EmitKeeps

\* The connection is lost.
LEMMA BusLostKeeps ==
    ASSUME IInv, BusLost
    PROVE  IInv'
  <1>1. /\ conn = "up" /\ conn' = "lost"
        /\ UNCHANGED <<pc, result, promptMu, window, deadline, signals, note, answer,
                       screen, inWindow>>
    BY DEF BusLost, ask
  <1>2. Typed' /\ Holder' /\ AtRest' /\ OnScreen'
    BY <1>1 DEF IInv, Typed, Holder, AtRest, OnScreen
  <1>3. Progress'
    BY <1>1 DEF IInv, Progress
  <1>4. Queued => Queued'
    BY <1>1 DEF Queued, FirstOwn
  <1>5. Queue'
    BY <1>1, <1>4 DEF IInv, Queue
  <1> QED
    BY <1>2, <1>3, <1>5 DEF IInv

\* Time passes.
LEMMA TickKeeps ==
    ASSUME IInv, Tick
    PROVE  IInv'
  <1>1. UNCHANGED <<pc, result, promptMu, conn, signals, note, answer, screen, inWindow>>
    BY DEF Tick, ask
  <1>2. /\ window' \in 0..Window /\ deadline' \in 0..Timeout
        /\ window = 0 => window' = 0
        /\ deadline = 0 => deadline' = 0
    BY ConfirmAssumption DEF IInv, Typed, Tick
  <1>3. Typed' /\ Holder' /\ AtRest' /\ OnScreen'
    BY <1>1, <1>2 DEF IInv, Typed, Holder, AtRest, OnScreen
  <1>4. Progress'
    BY <1>1, <1>2 DEF IInv, Progress
  <1>5. Queue'
    BY <1>1 DEF IInv, Queue, Queued, FirstOwn
  <1> QED
    BY <1>3, <1>4, <1>5 DEF IInv

-----------------------------------------------------------------------------
\* The answer

(***************************************************************************)
(* The signal at the head of the channel, if it is about the prompt, is    *)
(* the user's first reaction.                                              *)
(***************************************************************************)
LEMMA HeadDecides ==
    ASSUME IInv, NEW t \in Asker, pc[t] = "wait", signals # <<>>, Own(Head(signals))
    PROVE  Head(signals).action = answer
  <1>1. signals \in Seq(Signal) /\ Queued
    BY DEF IInv, Typed, Queue
  <1>2. 1 \in 1..Len(signals) /\ Head(signals) = signals[1]
    BY <1>1
  <1>3. FirstOwn(1)
    BY <1>2 DEF FirstOwn, Own
  <1> QED
    BY <1>1, <1>2, <1>3 DEF Queued

\* The rest of the channel, when the head is not about the prompt.
LEMMA TailQueued ==
    ASSUME IInv, NEW t \in Asker, pc[t] = "wait", signals # <<>>, ~Own(Head(signals)),
           signals' = Tail(signals), UNCHANGED <<conn, note, answer>>
    PROVE  Queued'
  <1>1. signals \in Seq(Signal) /\ Queued
    BY DEF IInv, Typed, Queue
  <1>2. /\ Len(signals) \in Nat /\ Len(signals') = Len(signals) - 1
        /\ \A k \in 1..Len(signals') : signals'[k] = signals[k + 1]
    BY <1>1, HeadTailProperties, LenProperties
  <1>3. signals[1].id # note
    BY <1>1 DEF Own
  <1>4. \A k \in 1..Len(signals') : k + 1 \in 1..Len(signals)
    BY <1>2
  <1>5. \A k \in 1..Len(signals) : k = 1 \/ (k - 1 \in 1..Len(signals') /\ (k - 1) + 1 = k)
    BY <1>2
  <1>6. (answer = "none" => \A k \in 1..Len(signals) : signals[k].id # note)'
    BY <1>1, <1>2, <1>4 DEF Queued
  <1>7. (conn = "up" /\ answer # "none" => \E k \in 1..Len(signals) : signals[k].id = note)'
    <2>. SUFFICES ASSUME conn = "up", answer # "none"
                  PROVE  \E k \in 1..Len(signals') : signals'[k].id = note
      OBVIOUS
    <2>1. PICK k \in 1..Len(signals) : signals[k].id = note
      BY <1>1 DEF Queued
    <2>2. k - 1 \in 1..Len(signals') /\ (k - 1) + 1 = k
      BY <1>3, <1>5, <2>1
    <2>3. signals'[k - 1].id = note
      BY <1>2, <2>1, <2>2
    <2> QED
      BY <2>2, <2>3
  <1>8. ASSUME NEW k \in 1..Len(signals'), FirstOwn(k)'
        PROVE  signals'[k].action = answer'
    <2>1. signals[k + 1].id = note /\ k + 1 \in 1..Len(signals)
      BY <1>2, <1>4, <1>8 DEF FirstOwn
    <2>2. ASSUME NEW m \in 1..((k + 1) - 1)
          PROVE  signals[m].id # note
      <3>1. CASE m = 1
        BY <1>3, <3>1
      <3>2. CASE m # 1
        <4>1. m - 1 \in 1..(k - 1) /\ m - 1 \in 1..Len(signals') /\ (m - 1) + 1 = m
          BY <1>2, <3>2
        <4>2. signals'[m - 1].id # note
          BY <1>8, <4>1 DEF FirstOwn
        <4> QED
          BY <1>2, <4>1, <4>2
      <3> QED
        BY <3>1, <3>2
    <2>3. FirstOwn(k + 1)
      BY <2>1, <2>2 DEF FirstOwn
    <2> QED
      BY <1>1, <1>2, <2>1, <2>3 DEF Queued
  <1> QED
    BY <1>6, <1>7, <1>8 DEF Queued

(***************************************************************************)
(* The call that waits stops waiting, with a result; it still has to take  *)
(* its notification off the screen.                                        *)
(***************************************************************************)
LEMMA SettleKeeps ==
    ASSUME IInv, NEW t \in Asker, NEW r \in Results, pc[t] = "wait",
           Goto(t, "closing"), Settle(t, r),
           signals' \in Seq(Signal), window' \in 0..Window,
           UNCHANGED <<promptMu, deadline, conn, note, answer, screen, inWindow>>
    PROVE  IInv'
  <1>1. /\ pc \in [Asker -> PC] /\ pc' = [pc EXCEPT ![t] = "closing"]
        /\ result' = [result EXCEPT ![t] = r]
    BY DEF IInv, Typed, Goto, Settle
  <1>2. /\ \A u \in Asker : pc'[u] = IF u = t THEN "closing" ELSE pc[u]
        /\ pc' \in [Asker -> PC] /\ result' \in [Asker -> Results]
        /\ pc[t] \in Inside
    BY <1>1 DEF IInv, Typed, PC, Inside, Results
  <1>3. promptMu = t /\ promptMu # Nil /\ \A u \in Asker : u # t => pc[u] \notin Inside
    BY <1>2, OneInside
  <1>4. Typed'
    BY <1>2 DEF IInv, Typed, Results
  <1>5. Holder' /\ AtRest' /\ OnScreen'
    BY <1>2, <1>3 DEF IInv, Holder, AtRest, OnScreen, Inside
  <1>6. Progress'
    BY <1>2, <1>3 DEF IInv, Progress, Inside
  <1>7. Queue'
    BY <1>2, <1>3 DEF Queue, Inside
  <1> QED
    BY <1>4, <1>5, <1>6, <1>7 DEF IInv

\* Ask takes a signal from the channel.
LEMMA HandleSignalKeeps ==
    ASSUME IInv, NEW t \in Asker, HandleSignal(t)
    PROVE  IInv'
  <1>1. /\ pc[t] = "wait" /\ signals # <<>> /\ signals' = Tail(signals)
        /\ UNCHANGED <<promptMu, deadline, conn, note, answer, screen, inWindow>>
    BY DEF HandleSignal
  <1>2. signals' \in Seq(Signal)
    BY <1>1, HeadTailProperties DEF IInv, Typed
  <1>3. CASE Own(Head(signals))
    <2>1. /\ Goto(t, "closing")
          /\ \E r \in Results : Settle(t, r)
          /\ window' = WindowAfter(Head(signals).action)
      BY <1>3 DEF HandleSignal, Results
    <2>2. window' \in 0..Window
      BY <2>1, ConfirmAssumption DEF IInv, Typed, WindowAfter
    <2> QED
      BY <1>1, <1>2, <2>1, <2>2, SettleKeeps
  <1>4. CASE ~Own(Head(signals))
    <2>1. UNCHANGED <<pc, result, window>>
      BY <1>4 DEF HandleSignal, ask
    <2>2. Queued'
      BY <1>1, <1>4, TailQueued
    <2>3. Typed' /\ Holder' /\ OnScreen'
      BY <1>1, <1>2, <2>1 DEF IInv, Typed, Holder, OnScreen
    <2>4. AtRest'
      BY <1>1, OneInside DEF AtRest, Inside
    <2>5. Progress'
      <3>1. \A u \in Asker : pc[u] \notin {"locked", "connect"}
        BY <1>1, OneInside DEF Inside
      <3> QED
        BY <1>1, <2>1, <3>1 DEF IInv, Progress
    <2>6. Queue'
      BY <2>2 DEF Queue
    <2> QED
      BY <2>3, <2>4, <2>5, <2>6 DEF IInv
  <1> QED
    BY <1>3, <1>4

\* It gives up waiting.
LEMMA TimeOutKeeps ==
    ASSUME IInv, NEW t \in Asker, TimeOut(t)
    PROVE  IInv'
  <1>1. /\ pc[t] = "wait" /\ Goto(t, "closing") /\ Settle(t, "denied")
        /\ UNCHANGED <<promptMu, window, deadline, conn, signals, note, answer, screen,
                       inWindow>>
    BY DEF TimeOut, call
  <1>2. /\ "denied" \in Results /\ signals' \in Seq(Signal) /\ window' \in 0..Window
    BY <1>1 DEF IInv, Typed, Results
  <1> QED
    BY <1>1, <1>2, SettleKeeps

\* It closes its notification and returns.
LEMMA CloseNotificationKeeps ==
    ASSUME IInv, NEW t \in Asker, CloseNotification(t)
    PROVE  IInv'
  <1>1. /\ pc[t] \in Inside /\ Return(t, result[t]) /\ result[t] \in Results
        /\ screen' = [i \in DOMAIN screen \ {note} |-> screen[i]]
        /\ UNCHANGED <<window, inWindow>>
    BY DEF IInv, Typed, CloseNotification, Inside, Results
  <1>2. DOMAIN screen' \subseteq Id /\ \A i \in DOMAIN screen' : screen'[i] = Nil
    BY <1>1, NoneLeft
  <1> QED
    BY <1>1, <1>2, ReturnKeeps

\* It cannot, and returns.
LEMMA CloseLostKeeps ==
    ASSUME IInv, NEW t \in Asker, CloseLost(t)
    PROVE  IInv'
  <1>1. /\ pc[t] \in Inside /\ Return(t, result[t]) /\ result[t] \in Results
        /\ screen' = Orphaned(t) /\ UNCHANGED <<window, inWindow>>
    BY DEF IInv, Typed, CloseLost, Inside, Results
  <1> QED
    BY <1>1, NoneLeft, ReturnKeeps

-----------------------------------------------------------------------------
\* The theorems

\* Nobody has called Ask.
LEMMA InitHolds == Init => IInv
  <1>. SUFFICES ASSUME Init
                PROVE  IInv
    OBVIOUS
  <1>1. \A t \in Asker : pc[t] = "idle"
    BY DEF Init
  <1>2. Typed
    <2>1. 0 \in 0..Window /\ 0 \in 0..Timeout /\ signals \in Seq(Signal)
      BY ConfirmAssumption DEF Init
    <2> QED
      BY <2>1 DEF Init, Typed, PC
  <1>3. Holder /\ Progress /\ Queue
    BY <1>1, ConfirmAssumption DEF Init, Holder, Progress, Queue, Inside
  <1>4. AtRest /\ OnScreen
    BY DEF Init, AtRest, OnScreen
  <1> QED
    BY <1>2, <1>3, <1>4 DEF IInv

\* Every step keeps the invariant.
LEMMA NextKeeps == IInv /\ [Next]_vars => IInv'
  <1>. SUFFICES ASSUME IInv, [Next]_vars
                PROVE  IInv'
    OBVIOUS
  <1>1. ASSUME NEW t \in Asker, Call(t) \/ Lock(t)
        PROVE  IInv'
    BY <1>1, CallKeeps, LockKeeps
  <1>2. ASSUME NEW t \in Asker, Program(t)
        PROVE  IInv'
    BY <1>2, FirstCheckKeeps, SecondCheckKeeps, ConnectKeeps, CallLostKeeps,
       CloseLostKeeps, HandleSignalKeeps, TimeOutKeeps, DoneKeeps
    DEF Program
  <1>3. ASSUME NEW t \in Asker, Answered(t)
        PROVE  IInv'
    BY <1>3, GetCapabilitiesKeeps, AddMatchSignalsKeeps, NotifyKeeps, NotifyReplyKeeps,
       CallLostKeeps, CallRefusedKeeps, CloseNotificationKeeps
    DEF Answered
  <1>4. CASE Environment
    BY <1>4, BusLostKeeps, ForeignSignalKeeps, TickKeeps, DismissKeeps, PressKeeps
    DEF Environment
  <1>5. CASE UNCHANGED vars
    BY <1>5 DEF vars, IInv, Typed, Holder, AtRest, Progress, OnScreen, Queue, Queued,
                FirstOwn
  <1> QED
    BY <1>1, <1>2, <1>3, <1>4, <1>5 DEF Next

\* The invariant holds of every behaviour.
LEMMA Invariant == Spec => []IInv
  BY InitHolds, NextKeeps, PTL DEF Spec

(***************************************************************************)
(* The variables of Desktop.Ask, of the bus and of the screen have their   *)
(* types, the time left never exceeds the timeout or the window, and       *)
(* promptMu is held, with all that belongs to its holder's call, exactly   *)
(* as long as that call is past Lock.                                      *)
(***************************************************************************)
THEOREM TypeInvariant == Spec => []TypeOK
  <1>1. IInv => TypeOK
    BY DEF IInv, TypeOK
  <1> QED
    BY <1>1, Invariant, PTL

(***************************************************************************)
(* However many calls wait, only the one that holds promptMu has a         *)
(* notification on screen, and it goes before the lock is free.            *)
(***************************************************************************)
THEOREM OnePromptInvariant == Spec => []OnePrompt
  <1>1. IInv => OnePrompt
    BY DEF IInv, OnScreen, OnePrompt
  <1> QED
    BY <1>1, Invariant, PTL

(***************************************************************************)
(* No prompt is shown while the window lasts: it is found closed with the  *)
(* lock held, and only the holder of the lock can open it.                 *)
(***************************************************************************)
THEOREM NoPromptInWindowProperty == Spec => NoPromptInWindow
  <1>1. IInv /\ [Next]_vars
        => [ShouldAutoApprove => DOMAIN screen' \subseteq DOMAIN screen]_vars
    <2>. SUFFICES ASSUME IInv, [Next]_vars, window > 0
                  PROVE  DOMAIN screen' \subseteq DOMAIN screen
      BY DEF ShouldAutoApprove
    <2>1. ASSUME NEW t \in Asker
          PROVE  ~Notify(t)
      BY DEF IInv, Progress, Notify, Advance
    <2>2. ASSUME NEW t \in Asker, Call(t) \/ Lock(t)
          PROVE  UNCHANGED screen
      BY <2>2 DEF Call, Lock
    <2>3. ASSUME NEW t \in Asker, Program(t)
          PROVE  DOMAIN screen' \subseteq DOMAIN screen
      BY <2>3 DEF Program, FirstCheck, SecondCheck, Connect, CallLost, CloseLost,
                  Orphaned, HandleSignal, TimeOut, Done
    <2>4. ASSUME NEW t \in Asker, Answered(t)
          PROVE  DOMAIN screen' \subseteq DOMAIN screen
      BY <2>1, <2>4 DEF Answered, GetCapabilities, AddMatchSignals, NotifyReply,
                        NotifyUnread, Orphaned, CallRefused, CloseNotification
    <2>5. CASE Environment
      BY <2>5 DEF Environment, BusLost, ForeignSignal, Tick, Dismiss, Press
    <2>6. CASE UNCHANGED vars
      BY <2>6 DEF vars
    <2> QED
      BY <2>2, <2>3, <2>4, <2>5, <2>6 DEF Next
  <1> QED
    BY <1>1, Invariant, PTL DEF Spec, NoPromptInWindow

\* What a call that waits can do of itself; nothing else moves it.
LEMMA LeavesWait ==
    ASSUME IInv, [Next]_vars, NEW t \in Asker, pc[t] = "wait", pc'[t] = "closing"
    PROVE  HandleSignal(t) \/ TimeOut(t)
  <1>1. pc \in [Asker -> PC]
    BY DEF IInv, Typed
  <1>2. ASSUME NEW u \in Asker, Call(u) \/ Lock(u)
        PROVE  FALSE
    BY <1>1, <1>2 DEF Call, Lock, Goto
  <1>3. ASSUME NEW u \in Asker, Program(u)
        PROVE  HandleSignal(t) \/ TimeOut(t)
    <2>1. u = t
      BY <1>1, <1>3 DEF Program, FirstCheck, SecondCheck, Connect, CallLost, CloseLost,
                        HandleSignal, TimeOut, Done, Return, Goto, ask
    <2> QED
      BY <1>3, <2>1 DEF Program, FirstCheck, SecondCheck, Connect, CallLost, CloseLost,
                        Done
  <1>4. ASSUME NEW u \in Asker, Answered(u)
        PROVE  FALSE
    BY <1>1, <1>4 DEF Answered, GetCapabilities, AddMatchSignals, Notify, NotifyReply,
                      NotifyUnread, CallRefused, CloseNotification, Advance, Return, Goto
  <1>5. Environment \/ UNCHANGED vars => UNCHANGED pc
    BY DEF Environment, BusLost, ForeignSignal, Tick, Dismiss, Press, ask, vars
  <1> QED
    BY <1>2, <1>3, <1>4, <1>5 DEF Next

(***************************************************************************)
(* The user's first reaction decides, however the signals about it, about  *)
(* other notifications and the timeout interleave.                         *)
(***************************************************************************)
THEOREM FirstAnswerDecidesProperty == Spec => FirstAnswerDecides
  <1>. DEFINE Decided == \A t \in Asker :
                pc[t] = "wait" /\ pc'[t] = "closing" =>
                    \/ result'[t] = "approved" /\ answer \in Approving
                    \/ result'[t] = "denied" /\ answer \notin Approving
                    \/ result'[t] = "denied" /\ deadline = 0
  <1>1. IInv /\ [Next]_vars => Decided
    <2>. SUFFICES ASSUME IInv, [Next]_vars, NEW t \in Asker,
                         pc[t] = "wait", pc'[t] = "closing"
                  PROVE  \/ result'[t] = "approved" /\ answer \in Approving
                         \/ result'[t] = "denied" /\ answer \notin Approving
                         \/ result'[t] = "denied" /\ deadline = 0
      OBVIOUS
    <2>1. result \in [Asker -> Results] /\ pc \in [Asker -> PC]
      BY DEF IInv, Typed, Results
    <2>2. CASE HandleSignal(t)
      <3>1. signals # <<>> /\ Own(Head(signals))
        BY <2>1, <2>2 DEF HandleSignal, ask
      <3>2. Head(signals).action = answer
        BY <3>1, HeadDecides
      <3> QED
        BY <2>1, <2>2, <3>1, <3>2 DEF HandleSignal, Settle, Approving
    <2>3. CASE TimeOut(t)
      BY <2>1, <2>3 DEF TimeOut, Settle
    <2> QED
      BY <2>2, <2>3, LeavesWait
  <1> QED
    BY <1>1, Invariant, PTL DEF Spec, FirstAnswerDecides

\* Only an answer opens the window.
LEMMA OpensWindow ==
    ASSUME IInv, [Next]_vars, window' > window
    PROVE  \E t \in Asker : HandleSignal(t)
  <1>1. window \in 0..Window /\ Window \in Nat
    BY ConfirmAssumption DEF IInv, Typed
  <1>2. ASSUME NEW t \in Asker, Call(t) \/ Lock(t) \/ Answered(t)
        PROVE  FALSE
    BY <1>1, <1>2 DEF Call, Lock, Answered, GetCapabilities, AddMatchSignals, Notify,
                      NotifyReply, NotifyUnread, CallRefused, CloseNotification, Advance
  <1>3. ASSUME NEW t \in Asker, Program(t)
        PROVE  HandleSignal(t)
    BY <1>1, <1>3 DEF Program, FirstCheck, SecondCheck, Connect, CallLost, CloseLost,
                      TimeOut, Done
  <1>4. ~Tick
    BY <1>1 DEF Tick
  <1>5. ASSUME Environment \/ UNCHANGED vars
        PROVE  FALSE
    <2>1. UNCHANGED window
      BY <1>4, <1>5 DEF Environment, BusLost, ForeignSignal, Dismiss, Press, vars
    <2> QED
      BY <1>1, <2>1
  <1> QED
    BY <1>2, <1>3, <1>5 DEF Next

(***************************************************************************)
(* The window opens only for a user who chose it first, at the prompt of   *)
(* the call that holds the lock.                                           *)
(***************************************************************************)
THEOREM WindowNeedsConsentProperty == Spec => WindowNeedsConsent
  <1>1. IInv /\ [Next]_vars
        => [window' > window => promptMu # Nil /\ answer = "approve_next_30"]_vars
    <2>. SUFFICES ASSUME IInv, [Next]_vars, window' > window
                  PROVE  promptMu # Nil /\ answer = "approve_next_30"
      OBVIOUS
    <2>1. PICK t \in Asker : HandleSignal(t)
      BY OpensWindow
    <2>2. pc[t] = "wait" /\ signals # <<>>
      BY <2>1 DEF HandleSignal
    <2>3. window \in 0..Window
      BY DEF IInv, Typed
    <2>4. Own(Head(signals)) /\ window' = WindowAfter(Head(signals).action)
      BY <2>1, <2>3 DEF HandleSignal
    <2>5. Head(signals).action = answer
      BY <2>2, <2>4, HeadDecides
    <2> QED
      BY <2>2, <2>3, <2>4, <2>5, OneInside DEF WindowAfter, Inside
  <1> QED
    BY <1>1, Invariant, PTL DEF Spec, WindowNeedsConsent

-----------------------------------------------------------------------------
(***************************************************************************)
(* Confirm implements AskSpec: every step of Desktop.Ask, the bus, the     *)
(* user or the clock is a step of AskSpec or none.                         *)
(***************************************************************************)

\* What AskSpec sees, as Confirm's INSTANCE maps it

Phase == [t \in Asker |-> PhaseOf(pc[t])]
Seen  == {screen[i] : i \in DOMAIN screen} \ {Nil}

view == <<Phase, result, window, Seen, answer>>

\* Nothing else is a variable of AskSpec.
LEMMA View == UNCHANGED view => UNCHANGED Promise!vars
  BY DEF Promise!vars, view, Phase, Seen

\* The phases of the lines of Ask.
LEMMA Phases ==
    /\ PhaseOf("idle") = "idle"
    /\ PhaseOf("ask") = "waiting" /\ PhaseOf("lock") = "waiting"
    /\ PhaseOf("locked") = "waiting"
    /\ PhaseOf("connect") = "opening" /\ PhaseOf("caps") = "opening"
    /\ PhaseOf("match") = "opening" /\ PhaseOf("notify") = "opening"
    /\ PhaseOf("shown") = "asked" /\ PhaseOf("wait") = "asked"
    /\ PhaseOf("closing") = "settled" /\ PhaseOf("done") = "done"
  BY DEF PhaseOf

\* A step of one call is a move of that call, or none that AskSpec sees.
LEMMA Moves ==
    ASSUME IInv, NEW t \in Asker, NEW l, Goto(t, l)
    PROVE  /\ Phase[t] = PhaseOf(pc[t])
           /\ Phase' = [Phase EXCEPT ![t] = PhaseOf(l)]
           /\ PhaseOf(l) = PhaseOf(pc[t]) => Phase' = Phase
  <1>1. pc \in [Asker -> PC] /\ pc' = [pc EXCEPT ![t] = l]
    BY DEF IInv, Typed, Goto
  <1>2. \A u \in Asker : pc'[u] = IF u = t THEN l ELSE pc[u]
    BY <1>1
  <1> QED
    BY <1>2 DEF Phase

\* The prompt that AskSpec sees is the one of the call that holds the lock.
LEMMA SeenIs ==
    ASSUME IInv
    PROVE  Seen = IF note \in DOMAIN screen THEN {promptMu} ELSE {}
  BY ConfirmAssumption DEF IInv, OnScreen, Seen

\* The same, when no notification on screen has a caller.
LEMMA SeenNone ==
    ASSUME \A i \in DOMAIN screen : screen[i] = Nil
    PROVE  Seen = {}
  BY DEF Seen

-----------------------------------------------------------------------------
\* Steps outside the lock

\* A call begins.
LEMMA CallMaps ==
    ASSUME IInv, NEW t \in Asker, Call(t)
    PROVE  Promise!Call(t)
  <1>1. /\ pc[t] = "idle" /\ Goto(t, "ask")
        /\ UNCHANGED <<result, window, answer, screen>>
    BY DEF Call, call
  <1>2. Phase[t] = "idle" /\ Phase' = [Phase EXCEPT ![t] = "waiting"]
    BY <1>1, Moves, Phases
  <1> QED
    BY <1>1, <1>2 DEF Promise!Call, Promise!Move, Phase

\* It is spared, or waits.
LEMMA FirstCheckMaps ==
    ASSUME IInv, NEW t \in Asker, FirstCheck(t)
    PROVE  Promise!Spare(t) \/ UNCHANGED view
  <1>1. pc[t] = "ask" /\ UNCHANGED <<window, answer, screen>>
    BY DEF FirstCheck, call
  <1>2. CASE window > 0
    <2>1. Goto(t, "done") /\ Settle(t, "auto")
      BY <1>2 DEF FirstCheck, ShouldAutoApprove
    <2>2. Phase[t] = "waiting" /\ Phase' = [Phase EXCEPT ![t] = "done"]
      BY <1>1, <2>1, Moves, Phases
    <2> QED
      BY <1>1, <1>2, <2>1, <2>2
      DEF Promise!Spare, Promise!Move, Promise!Returns, Settle, Phase
  <1>3. CASE ~(window > 0)
    <2>1. Goto(t, "lock") /\ UNCHANGED result
      BY <1>3 DEF FirstCheck, ShouldAutoApprove
    <2>2. Phase' = Phase
      BY <1>1, <2>1, Moves, Phases
    <2> QED
      BY <1>1, <2>1, <2>2 DEF view, Seen
  <1> QED
    BY <1>2, <1>3

\* Its result is taken.
LEMMA DoneMaps ==
    ASSUME IInv, NEW t \in Asker, Done(t)
    PROVE  Promise!Take(t)
  <1>1. /\ pc[t] = "done" /\ Goto(t, "idle") /\ Settle(t, "none")
        /\ UNCHANGED <<window, answer, screen>>
    BY DEF Done, call
  <1>2. Phase[t] = "done" /\ Phase' = [Phase EXCEPT ![t] = "idle"]
    BY <1>1, Moves, Phases
  <1> QED
    BY <1>1, <1>2 DEF Promise!Take, Promise!Move, Promise!Returns, Settle, Phase

\* It takes the lock.
LEMMA LockMaps ==
    ASSUME IInv, NEW t \in Asker, Lock(t)
    PROVE  UNCHANGED view
  <1>1. /\ pc[t] = "lock" /\ Goto(t, "locked")
        /\ UNCHANGED <<result, window, answer, screen>>
    BY DEF Lock, call
  <1>2. Phase' = Phase
    BY <1>1, Moves, Phases
  <1> QED
    BY <1>1, <1>2 DEF view, Seen

-----------------------------------------------------------------------------
\* The prompt

\* A call that has failed or ended leaves nothing for AskSpec to see.
LEMMA ReturnMaps ==
    ASSUME IInv, NEW t \in Asker, NEW r, pc[t] \in Inside, Return(t, r),
           \A i \in DOMAIN screen' : screen'[i] = Nil
    PROVE  /\ Phase[t] = PhaseOf(pc[t]) /\ Phase' = [Phase EXCEPT ![t] = "done"]
           /\ result' = [result EXCEPT ![t] = r]
           /\ Seen' = {} /\ answer' = "none"
  <1>1. Goto(t, "done") /\ result' = [result EXCEPT ![t] = r] /\ answer' = "none"
    BY DEF Return, Settle
  <1>2. Seen' = {}
    BY DEF Seen
  <1> QED
    BY <1>1, <1>2, Moves, Phases

\* With the lock held a call is spared, or has the screen to itself.
LEMMA SecondCheckMaps ==
    ASSUME IInv, NEW t \in Asker, SecondCheck(t)
    PROVE  Promise!Spare(t) \/ Promise!Open(t)
  <1>1. /\ pc[t] = "locked" /\ pc[t] \in Inside /\ UNCHANGED <<window, screen>>
        /\ answer = "none"
    BY DEF SecondCheck, IInv, Progress, Inside
  <1>2. Seen = {} /\ \A i \in DOMAIN screen' : screen'[i] = Nil
    BY <1>1, NoneYet, SeenNone
  <1>3. CASE window > 0
    <2>1. Return(t, "auto")
      BY <1>3 DEF SecondCheck, ShouldAutoApprove
    <2>2. /\ Phase[t] = "waiting" /\ Phase' = [Phase EXCEPT ![t] = "done"]
          /\ result' = [result EXCEPT ![t] = "auto"]
          /\ Seen' = {} /\ answer' = "none"
      BY <1>1, <1>2, <2>1, ReturnMaps, Phases
    <2> QED
      BY <1>1, <1>2, <1>3, <2>2
      DEF Promise!Spare, Promise!Move, Promise!Returns, Phase, Seen
  <1>4. CASE ~(window > 0)
    <2>1. Goto(t, "connect") /\ UNCHANGED <<result, answer>>
      BY <1>4 DEF SecondCheck, ShouldAutoApprove
    <2>2. Phase[t] = "waiting" /\ Phase' = [Phase EXCEPT ![t] = "opening"]
      BY <1>1, <2>1, Moves, Phases
    <2>3. window = 0
      BY <1>4 DEF IInv, Typed
    <2>4. \A u \in Asker : Phase[u] \notin {"opening", "asked", "settled"}
      <3>1. ASSUME NEW u \in Asker, u # t
            PROVE  pc[u] \in {"idle", "ask", "lock", "done"}
        BY <1>1, <3>1, OneInside DEF IInv, Typed, PC, Inside
      <3>2. ASSUME NEW u \in Asker, u # t
            PROVE  PhaseOf(pc[u]) \in {"idle", "waiting", "done"}
        BY <3>1, <3>2, Phases
      <3>3. \A u \in Asker : Phase[u] = PhaseOf(pc[u])
        BY DEF Phase
      <3> QED
        BY <2>2, <3>2, <3>3
    <2> QED
      BY <1>1, <2>1, <2>2, <2>3, <2>4
      DEF Promise!Open, Promise!Move, Promise!Prompting, Phase, Seen
  <1> QED
    BY <1>3, <1>4

\* A step towards the prompt is not seen.
LEMMA MoveMaps ==
    ASSUME IInv, NEW t \in Asker, NEW l, Goto(t, l), PhaseOf(l) = PhaseOf(pc[t]),
           UNCHANGED <<result, window, answer, screen>>
    PROVE  UNCHANGED view
  BY Moves DEF view, Seen

\* A call that fails before there is a prompt.
LEMMA FailMaps ==
    ASSUME IInv, NEW t \in Asker, pc[t] \in Inside, Return(t, "denied"),
           PhaseOf(pc[t]) \in {"opening", "asked"},
           \A i \in DOMAIN screen' : screen'[i] = Nil, UNCHANGED window
    PROVE  Promise!Fail(t)
  BY ReturnMaps DEF Promise!Fail, Promise!Move, Promise!Returns, Phase, Seen

\* The bus is reached, or the call denied.
LEMMA ConnectMaps ==
    ASSUME IInv, NEW t \in Asker, Connect(t)
    PROVE  Promise!Fail(t) \/ UNCHANGED view
  <1>1. pc[t] = "connect" /\ pc[t] \in Inside /\ UNCHANGED <<window, screen>>
    BY DEF Connect, Inside
  <1>2. CASE Return(t, "denied")
    BY <1>1, <1>2, NoneYet, FailMaps, Phases
  <1>3. CASE Goto(t, "caps") /\ UNCHANGED <<result, answer>>
    BY <1>1, <1>3, MoveMaps, Phases
  <1> QED
    BY <1>2, <1>3 DEF Connect

\* The service answers.
LEMMA AdvanceMaps ==
    ASSUME IInv, NEW t \in Asker,
           GetCapabilities(t) \/ AddMatchSignals(t) \/ NotifyReply(t)
    PROVE  UNCHANGED view
  <1>1. CASE GetCapabilities(t)
    BY <1>1, MoveMaps, Phases DEF GetCapabilities, Advance
  <1>2. CASE AddMatchSignals(t)
    BY <1>2, MoveMaps, Phases DEF AddMatchSignals, Advance
  <1>3. CASE NotifyReply(t)
    BY <1>3, MoveMaps, Phases DEF NotifyReply, Advance
  <1> QED
    BY <1>1, <1>2, <1>3

\* The prompt comes on screen.
LEMMA NotifyMaps ==
    ASSUME IInv, NEW t \in Asker, Notify(t)
    PROVE  Promise!Show(t)
  <1>1. /\ pc[t] = "notify" /\ Goto(t, "shown")
        /\ UNCHANGED <<result, promptMu, window, answer>>
    BY DEF Notify, Advance
  <1>2. Phase[t] = "opening" /\ Phase' = [Phase EXCEPT ![t] = "asked"]
    BY <1>1, Moves, Phases
  <1>3. PICK i \in Id : /\ note' = i
                        /\ screen' = [j \in DOMAIN screen \cup {i} |->
                                        IF j = i THEN t ELSE screen[j]]
    BY DEF Notify
  <1>4. \A j \in DOMAIN screen' : screen'[j] = IF j = i THEN t ELSE Nil
    BY <1>1, <1>3, NoneYet
  <1>5. Seen' = {t}
    BY <1>3, <1>4, ConfirmAssumption DEF Seen
  <1> QED
    BY <1>1, <1>2, <1>5 DEF Promise!Show, Promise!Move, Phase, Seen

\* The service refuses, or the connection is lost.
LEMMA CallFailsMaps ==
    ASSUME IInv, NEW t \in Asker, CallRefused(t) \/ CallLost(t) \/ NotifyUnread(t)
    PROVE  Promise!Fail(t)
  <1>1. CASE CallRefused(t)
    <2>1. /\ pc[t] \in {"caps", "match", "notify"} /\ pc[t] \in Inside
          /\ Return(t, "denied") /\ UNCHANGED <<window, screen>>
      BY <1>1 DEF CallRefused, Inside
    <2> QED
      BY <2>1, NoneYet, FailMaps, Phases
  <1>2. CASE CallLost(t) \/ NotifyUnread(t)
    <2>1. /\ pc[t] \in {"caps", "match", "notify", "shown"} /\ pc[t] \in Inside
          /\ Return(t, "denied") /\ screen' = Orphaned(t) /\ UNCHANGED window
      BY <1>2 DEF CallLost, NotifyUnread, Inside
    <2> QED
      BY <2>1, NoneLeft, FailMaps, Phases
  <1> QED
    BY <1>1, <1>2

-----------------------------------------------------------------------------
\* The answer

\* A call that waits is settled by an answer, or not at all.
LEMMA HandleSignalMaps ==
    ASSUME IInv, NEW t \in Asker, HandleSignal(t)
    PROVE  Promise!Approve(t) \/ Promise!Deny(t) \/ UNCHANGED view
  <1>1. /\ pc[t] = "wait" /\ signals # <<>> /\ UNCHANGED <<answer, screen>>
    BY DEF HandleSignal
  <1>2. CASE Own(Head(signals))
    <2>1. Head(signals).action = answer
      BY <1>1, <1>2, HeadDecides
    <2>2. /\ Goto(t, "closing") /\ window' = WindowAfter(answer)
          /\ Settle(t, IF answer \in {"approve", "approve_next_30"}
                       THEN "approved" ELSE "denied")
      BY <1>2, <2>1 DEF HandleSignal
    <2>3. Phase[t] = "asked" /\ Phase' = [Phase EXCEPT ![t] = "settled"]
      BY <1>1, <2>2, Moves, Phases
    <2>4. CASE answer \in {"approve", "approve_next_30"}
      BY <1>1, <2>2, <2>3, <2>4
      DEF Promise!Approve, Promise!Move, Promise!Returns, Settle, WindowAfter, Phase, Seen
    <2>5. CASE answer \notin {"approve", "approve_next_30"}
      BY <1>1, <2>2, <2>3, <2>5
      DEF Promise!Deny, Promise!Move, Promise!Returns, Settle, WindowAfter, Phase, Seen
    <2> QED
      BY <2>4, <2>5
  <1>3. CASE ~Own(Head(signals))
    <2>1. UNCHANGED <<pc, result, window>>
      BY <1>3 DEF HandleSignal, ask
    <2> QED
      BY <1>1, <2>1 DEF view, Phase, Seen
  <1> QED
    BY <1>2, <1>3

\* Or by the timeout.
LEMMA TimeOutMaps ==
    ASSUME IInv, NEW t \in Asker, TimeOut(t)
    PROVE  Promise!Deny(t)
  <1>1. /\ pc[t] = "wait" /\ Goto(t, "closing") /\ Settle(t, "denied")
        /\ UNCHANGED <<window, answer, screen>>
    BY DEF TimeOut, call
  <1>2. Phase[t] = "asked" /\ Phase' = [Phase EXCEPT ![t] = "settled"]
    BY <1>1, Moves, Phases
  <1> QED
    BY <1>1, <1>2 DEF Promise!Deny, Promise!Move, Promise!Returns, Settle, Phase, Seen

\* The prompt goes, and the call ends.
LEMMA CloseMaps ==
    ASSUME IInv, NEW t \in Asker, CloseNotification(t) \/ CloseLost(t)
    PROVE  Promise!End(t)
  <1>1. /\ pc[t] = "closing" /\ pc[t] \in Inside /\ Return(t, result[t])
        /\ UNCHANGED window
        /\ \/ screen' = [i \in DOMAIN screen \ {note} |-> screen[i]]
           \/ screen' = Orphaned(t)
    BY DEF CloseNotification, CloseLost, Inside
  <1>2. \A i \in DOMAIN screen' : screen'[i] = Nil
    BY <1>1, NoneLeft
  <1>3. /\ Phase[t] = "settled" /\ Phase' = [Phase EXCEPT ![t] = "done"]
        /\ result' = [result EXCEPT ![t] = result[t]]
        /\ Seen' = {} /\ answer' = "none"
    BY <1>1, <1>2, ReturnMaps, Phases
  <1>4. UNCHANGED result
    BY <1>3 DEF IInv, Typed
  <1> QED
    BY <1>1, <1>3, <1>4 DEF Promise!End, Promise!Move, Phase, Seen

-----------------------------------------------------------------------------
\* The user, the bus, the clock

\* What AskSpec sees of a notification on screen.
LEMMA SeenOf ==
    ASSUME IInv, NEW i \in DOMAIN screen
    PROVE  screen[i] # Nil => i = note /\ Seen = {screen[i]}
  BY SeenIs DEF IInv, OnScreen

\* The user reacts to the prompt, or to one that answers for nobody.
LEMMA ReactMaps ==
    ASSUME IInv, NEW i \in Id, Dismiss(i) \/ \E b \in Button : Press(i, b)
    PROVE  Promise!React \/ UNCHANGED view
  <1>1. PICK a \in Button \cup {"closed"} :
            /\ i \in DOMAIN screen /\ FirstAnswer(screen[i], a)
            /\ UNCHANGED <<ask, promptMu, window, note>>
            /\ \/ UNCHANGED screen
               \/ screen' = [j \in DOMAIN screen \ {i} |-> screen[j]]
    BY DEF Dismiss, Press
  <1>2. UNCHANGED <<Phase, result, window>>
    BY <1>1 DEF Phase, ask
  <1>3. CASE screen[i] # Nil
    <2>1. i = note /\ Seen = {screen[i]}
      BY <1>1, <1>3, SeenOf
    <2>2. Seen' \in {Seen, {}}
      <3>1. CASE UNCHANGED screen
        BY <3>1 DEF Seen
      <3>2. CASE screen' = [j \in DOMAIN screen \ {i} |-> screen[j]]
        <4>1. \A j \in DOMAIN screen' : screen'[j] = Nil
          BY <2>1, <3>2 DEF IInv, OnScreen
        <4> QED
          BY <4>1 DEF Seen
      <3> QED
        BY <1>1, <3>1, <3>2
    <2>3. answer' = IF answer = "none" THEN a ELSE answer
      BY <1>1, <1>3 DEF FirstAnswer
    <2>4. a \in {"approve", "approve_next_30", "deny", "closed"}
      BY DEF Button
    <2> QED
      BY <1>2, <2>1, <2>2, <2>3, <2>4 DEF Promise!React, Phase, Seen
  <1>4. CASE screen[i] = Nil
    <2>1. UNCHANGED answer
      BY <1>1, <1>4 DEF FirstAnswer
    <2>2. Seen' = Seen
      BY <1>1, <1>4 DEF Seen
    <2> QED
      BY <1>2, <2>1, <2>2 DEF view
  <1> QED
    BY <1>3, <1>4

\* The window closes by itself.
LEMMA TickMaps ==
    ASSUME IInv, Tick
    PROVE  Promise!Tick \/ UNCHANGED view
  <1>1. UNCHANGED <<pc, result, answer, screen>>
    BY DEF Tick, ask
  <1>2. window' = IF window = 0 THEN 0 ELSE window - 1
    BY DEF Tick
  <1>3. UNCHANGED <<Phase, Seen>>
    BY <1>1 DEF Phase, Seen
  <1>4. CASE window = 0
    BY <1>1, <1>2, <1>3, <1>4 DEF view
  <1>5. CASE window # 0
    <2>1. window > 0
      BY <1>5, ConfirmAssumption DEF IInv, Typed
    <2> QED
      BY <1>1, <1>2, <1>3, <1>5, <2>1 DEF Promise!Tick, Phase, Seen
  <1> QED
    BY <1>4, <1>5

\* Lost connections and signals about other prompts are not seen.
LEMMA UnseenMaps ==
    ASSUME BusLost \/ ForeignSignal \/ UNCHANGED vars
    PROVE  UNCHANGED view
  <1>1. UNCHANGED <<pc, result, window, answer, screen>>
    BY DEF BusLost, ForeignSignal, ask, vars
  <1> QED
    BY <1>1 DEF view, Phase, Seen

-----------------------------------------------------------------------------
\* The refinement

\* Initial states are initial states.
LEMMA InitMaps == Init => Promise!Init
  <1>. SUFFICES ASSUME Init
                PROVE  Promise!Init
    OBVIOUS
  <1>1. Phase = [t \in Asker |-> "idle"]
    BY Phases DEF Init, Phase
  <1>2. Seen = {}
    BY DEF Init, Seen
  <1> QED
    BY <1>1, <1>2 DEF Init, Promise!Init, Phase, Seen

\* Steps are steps, or not seen.
LEMMA NextMaps == IInv /\ [Next]_vars => [Promise!Next]_(Promise!vars)
  <1>. SUFFICES ASSUME IInv, [Next]_vars
                PROVE  Promise!Next \/ UNCHANGED view
    BY View
  <1>1. ASSUME NEW t \in Asker, Call(t) \/ Lock(t)
        PROVE  Promise!Next \/ UNCHANGED view
    BY <1>1, CallMaps, LockMaps DEF Promise!Next
  <1>2. ASSUME NEW t \in Asker, Program(t)
        PROVE  Promise!Next \/ UNCHANGED view
    BY <1>2, FirstCheckMaps, SecondCheckMaps, ConnectMaps, CallFailsMaps, CloseMaps,
       HandleSignalMaps, TimeOutMaps, DoneMaps
    DEF Program, Promise!Next
  <1>3. ASSUME NEW t \in Asker, Answered(t)
        PROVE  Promise!Next \/ UNCHANGED view
    BY <1>3, AdvanceMaps, NotifyMaps, CallFailsMaps, CloseMaps
    DEF Answered, Promise!Next
  <1>4. CASE Environment
    BY <1>4, UnseenMaps, TickMaps, ReactMaps DEF Environment, Promise!Next
  <1>5. CASE UNCHANGED vars
    BY <1>5, UnseenMaps
  <1> QED
    BY <1>1, <1>2, <1>3, <1>4, <1>5 DEF Next

(***************************************************************************)
(* Whatever the mutex, the bus, its signals and the context do, the        *)
(* goroutines that call Ask see only what AskSpec allows.                  *)
(***************************************************************************)
THEOREM Refinement == Spec => ImplementsAskSpec
  BY InitMaps, NextMaps, Invariant, PTL DEF Spec, ImplementsAskSpec, Promise!Spec
=============================================================================
