------------------------- MODULE RuntimeEdgeProofs -------------------------
(***************************************************************************)
(* RuntimeEdge for any number of forms, submissions and declarations:      *)
(* type correctness, and what an answer says about the command.            *)
(***************************************************************************)
EXTENDS RuntimeEdge, SequenceTheorems, TLAPS

-----------------------------------------------------------------------------
(* The inductive invariant                                                 *)

\* Before its request is dispatched a command is not at the runtime.
UnsentYet == \A c \in Calls : call[c].phase \in {"unused", "posted"} => work[c] = "none"

\* The server reports completion only of a command that was carried out.
CompletedWasDone == \A c \in Calls : call[c].answer = "completed" => work[c] = "done"

\* A form accepts because of an answer of its submission that it takes for one.
AcceptedHasCall ==
  \A p \in Panels : form[p].phase = "accepted" =>
    form[p].call \in Calls /\ call[form[p].call].answer \in Accepting(p)

\* The two halves of the type invariant: the commands, and the heartbeat.
FormsTyped ==
  /\ form \in [Panels -> [phase : {"idle", "submitting", "accepted", "error"},
                          call : Calls \cup {NoCall}]]
  /\ \A p \in Panels : form[p].phase = "submitting" => form[p].call # NoCall

CallsTyped ==
  /\ call \in [Calls -> [phase : {"unused", "posted", "waiting", "answered", "lost"},
                         answer : Answers \cup {"none"}]]
  /\ \A c \in Calls : call[c].phase = "answered" <=> call[c].answer # "none"
  /\ work \in [Calls -> {"none", "sent", "underway", "done"}]

HeartbeatTyped ==
  /\ {serverUp, simulating, ticking, fresh} \subseteq BOOLEAN
  /\ beats \in Seq(BOOLEAN) /\ Len(beats) <= MaxBeats

CommandsInv ==
  /\ FormsTyped
  /\ CallsTyped
  /\ UnsentYet
  /\ CompletedWasDone
  /\ AcceptedHasCall
  /\ RefusedNeverSent

IInv == CommandsInv /\ HeartbeatTyped

-----------------------------------------------------------------------------
(* The declarations under way                                              *)

\* A function on 1..n is a sequence of length n.
LEMMA FunctionIsSeq ==
  ASSUME NEW n \in Nat, NEW f \in [1..n -> BOOLEAN]
  PROVE  f \in Seq(BOOLEAN) /\ Len(f) = n
<1>1. f \in UNION {[1..m -> BOOLEAN] : m \in Nat}
  OBVIOUS
<1>2. f \in Seq(BOOLEAN)
  BY <1>1, SeqDef, Zenon
<1>3. DOMAIN f = 1..Len(f) /\ Len(f) \in Nat
  BY <1>2, LenProperties, Zenon
<1>4. DOMAIN f = 1..n
  OBVIOUS
<1>5. Len(f) = n
  BY <1>3, <1>4
<1>6. QED
  BY <1>2, <1>5

\* A settled declaration leaves a sequence that is shorter by one.
LEMMA WithoutType ==
  ASSUME NEW s \in Seq(BOOLEAN), NEW i \in DOMAIN s
  PROVE  Without(s, i) \in Seq(BOOLEAN) /\ Len(Without(s, i)) = Len(s) - 1
<1>1. s \in [1..Len(s) -> BOOLEAN] /\ Len(s) \in Nat /\ i \in 1..Len(s)
  BY LenProperties
<1> DEFINE n == Len(s) - 1
<1>2. n \in Nat /\ Len(s) = n + 1
  BY <1>1
<1>3. ASSUME NEW j \in 1..n PROVE (IF j < i THEN s[j] ELSE s[j + 1]) \in BOOLEAN
  <2>1. j \in 1..Len(s) /\ j + 1 \in 1..Len(s)
    BY <1>2
  <2>2. QED
    BY <1>1, <2>1, Zenon
<1>4. Without(s, i) \in [1..n -> BOOLEAN]
  BY <1>3, Zenon DEF Without
<1>5. QED
  BY <1>2, <1>4, FunctionIsSeq, Zenon

\* So does a folded one, whatever the marks of the others.
LEMMA FoldType ==
  ASSUME beats \in Seq(BOOLEAN), NEW i \in DOMAIN beats, Fold(i)
  PROVE  beats' \in Seq(BOOLEAN) /\ Len(beats') = Len(beats) - 1
<1> DEFINE marked == [j \in DOMAIN beats |-> beats[j] \/ j < i]
<1>1. DOMAIN beats = 1..Len(beats) /\ Len(beats) \in Nat
  BY LenProperties
<1>2. marked \in Seq(BOOLEAN) /\ Len(marked) = Len(beats) /\ i \in DOMAIN marked
  <2>1. marked \in [1..Len(beats) -> BOOLEAN]
    BY <1>1, Zenon
  <2>2. QED
    BY <1>1, <2>1, FunctionIsSeq
<1>3. beats' = Without(marked, i)
  BY DEF Fold
<1> HIDE DEF marked
<1>4. QED
  BY <1>2, <1>3, WithoutType

-----------------------------------------------------------------------------
(* Every step keeps the invariant                                          *)

LEMMA InitInv == Init => IInv
<1> SUFFICES ASSUME Init PROVE IInv
  OBVIOUS
<1>1. CommandsInv
  BY EdgeAssumption
  DEF Init, Open, CommandsInv, FormsTyped, CallsTyped, Answers, UnsentYet,
      CompletedWasDone, AcceptedHasCall, RefusedNeverSent
<1>2. beats \in Seq(BOOLEAN) /\ Len(beats) = 0
  BY EmptySeq DEF Init
<1>3. {serverUp, simulating, ticking, fresh} \subseteq BOOLEAN
  BY DEF Init
<1>4. Len(beats) <= MaxBeats
  BY <1>2, EdgeAssumption
<1>5. QED
  BY <1>1, <1>2, <1>3, <1>4 DEF IInv, HeartbeatTyped

\* The forms change nothing the server or the runtime relies on, except that a
\* submission takes a call that was unused, and so was never sent.
LEMMA PanelStepKeepsInv ==
  ASSUME CommandsInv, NEW p \in Panels, PanelStep(p)
  PROVE  CommandsInv'
<1> USE EdgeAssumption
    DEF CommandsInv, FormsTyped, CallsTyped, Answers, UnsentYet, CompletedWasDone,
        AcceptedHasCall, RefusedNeverSent, Shows
<1>1. ASSUME NEW c \in Calls, Submit(p, c) PROVE CommandsInv'
  BY <1>1 DEF Submit, Open
<1>2. CASE Receive(p)
  BY <1>2 DEF Receive
<1>3. CASE Disconnected(p)
  BY <1>3 DEF Disconnected
<1>4. CASE GiveUp(p)
  BY <1>4 DEF GiveUp
<1>5. CASE Clear(p)
  BY <1>5 DEF Clear
<1>6. QED
  BY <1>1, <1>2, <1>3, <1>4, <1>5 DEF PanelStep

\* An answer keeps the invariant when it is true: completion of a command that was
\* carried out, a refusal or a simulation of one that was not sent.
LEMMA AnswerKeepsInv ==
  ASSUME CommandsInv, NEW c \in Calls, NEW a \in Answers,
         Answered(c, a), UNCHANGED <<form, work>>,
         call[c].phase \in {"posted", "waiting"},
         a = "completed" => work[c] = "done",
         a \in {"refused", "simulated"} => call[c].phase = "posted"
  PROVE  CommandsInv'
<1>1. CallsTyped /\ UnsentYet
  BY DEF CommandsInv
<1>2. /\ call'[c].phase = "answered" /\ call'[c].answer = a
      /\ \A d \in Calls : d # c => call'[d] = call[d]
  BY <1>1 DEF CallsTyped, Answered
<1>3. CallsTyped'
  <2>1. call' \in [Calls -> [phase : {"unused", "posted", "waiting", "answered", "lost"},
                            answer : Answers \cup {"none"}]]
    BY <1>1 DEF CallsTyped, Answered
  <2>2. a # "none"
    BY DEF Answers
  <2>3. \A d \in Calls : call'[d].phase = "answered" <=> call'[d].answer # "none"
    BY <1>1, <1>2, <2>2 DEF CallsTyped
  <2>4. QED
    BY <1>1, <2>1, <2>3 DEF CallsTyped
<1>4. UnsentYet' /\ CompletedWasDone' /\ RefusedNeverSent'
  BY <1>1, <1>2 DEF CommandsInv, UnsentYet, CompletedWasDone, RefusedNeverSent
<1>5. FormsTyped'
  BY DEF CommandsInv, FormsTyped
<1>6. AcceptedHasCall'
  <2>1. call[c].answer = "none"
    BY <1>1 DEF CallsTyped
  <2>2. \A p \in Panels : form[p].phase = "accepted" => form[p].call # c
    BY <2>1 DEF CommandsInv, AcceptedHasCall, Accepting
  <2>3. QED
    BY <1>2, <2>2 DEF CommandsInv, AcceptedHasCall, Accepting
<1>7. QED
  BY <1>3, <1>4, <1>5, <1>6 DEF CommandsInv

\* Sending a command keeps the invariant: nothing of it was at the runtime before,
\* and nobody has been answered about it yet.
LEMMA SendKeepsInv ==
  ASSUME CommandsInv, NEW c \in Calls, call[c].phase = "posted",
         call' = [call EXCEPT ![c] = Open("waiting")],
         work' = [work EXCEPT ![c] = "sent"], UNCHANGED form
  PROVE  CommandsInv'
<1>1. CallsTyped /\ UnsentYet /\ work[c] = "none" /\ call[c].answer = "none"
  BY DEF CommandsInv, CallsTyped, UnsentYet
<1>2. /\ call'[c].phase = "waiting" /\ call'[c].answer = "none"
      /\ \A d \in Calls : d # c => call'[d] = call[d] /\ work'[d] = work[d]
  BY <1>1 DEF CallsTyped, Open
<1>3. CallsTyped'
  BY <1>1 DEF CallsTyped, Open
<1>4. UnsentYet' /\ CompletedWasDone' /\ RefusedNeverSent'
  BY <1>2 DEF CommandsInv, UnsentYet, CompletedWasDone, RefusedNeverSent
<1>5. FormsTyped'
  BY DEF CommandsInv, FormsTyped
<1>6. AcceptedHasCall'
  <2>1. \A p \in Panels : form[p].phase = "accepted" => form[p].call # c
    BY <1>1 DEF CommandsInv, AcceptedHasCall, Accepting
  <2>2. QED
    BY <1>2, <2>1 DEF CommandsInv, AcceptedHasCall, Accepting
<1>7. QED
  BY <1>3, <1>4, <1>5, <1>6 DEF CommandsInv

LEMMA ServerStepKeepsInv ==
  ASSUME CommandsInv, NEW c \in Calls, ServerStep(c)
  PROVE  CommandsInv'
<1>1. CASE Refuse(c)
  BY <1>1, AnswerKeepsInv DEF Refuse, Answers
<1>2. CASE Simulate(c)
  BY <1>2, AnswerKeepsInv DEF Simulate, Answers
<1>3. CASE Dispatch(c) /\ EdgeConfigured
  BY <1>3, SendKeepsInv DEF Dispatch
<1>4. CASE Dispatch(c) /\ ~EdgeConfigured
  BY <1>4, AnswerKeepsInv DEF Dispatch, Answers
<1>5. CASE Report(c)
  BY <1>5, AnswerKeepsInv DEF Report, Answers
<1>6. CASE CutOff(c)
  BY <1>6, AnswerKeepsInv DEF CutOff, Answers
<1>7. CASE Garbled(c)
  BY <1>7, AnswerKeepsInv DEF Garbled, Answers
<1>8. QED
  BY <1>1, <1>2, <1>3, <1>4, <1>5, <1>6, <1>7 DEF ServerStep

\* The runtime moves only what was sent, and only towards "done".
LEMMA RuntimeStepKeepsInv ==
  ASSUME CommandsInv, RuntimeStep
  PROVE  CommandsInv'
<1> PICK c \in Calls : Take(c) \/ Finish(c)
  BY DEF RuntimeStep
<1> QED
  BY DEF Take, Finish, CommandsInv, FormsTyped, CallsTyped, UnsentYet, CompletedWasDone,
         AcceptedHasCall, RefusedNeverSent

\* What a process drops it leaves without an answer.
LEMMA ExitKeepsInv ==
  ASSUME CommandsInv, Exit
  PROVE  CommandsInv'
  BY DEF Exit, Held, Open, CommandsInv, FormsTyped, CallsTyped, UnsentYet,
         CompletedWasDone, AcceptedHasCall, RefusedNeverSent

\* The commands are all the rest of the system leaves alone.
LEMMA OthersKeepInv ==
  ASSUME CommandsInv, UNCHANGED commands
  PROVE  CommandsInv'
  BY DEF commands, CommandsInv, FormsTyped, CallsTyped, UnsentYet, CompletedWasDone,
         AcceptedHasCall, RefusedNeverSent

\* Only ticks and a start add a declaration, and both respect the bound.
LEMMA BeatStepKeepsType ==
  ASSUME HeartbeatTyped, BeatStep
  PROVE  HeartbeatTyped'
<1> USE EdgeAssumption DEF HeartbeatTyped
<1>1. CASE Tick
  <2>1. beats' \in Seq(BOOLEAN) /\ Len(beats') = Len(beats) + 1
    BY <1>1, AppendProperties DEF Tick, Declared
  <2>2. QED
    BY <1>1, <2>1, LenProperties DEF Tick
<1>2. CASE Lapse
  BY <1>2 DEF Lapse
<1>3. ASSUME NEW i \in DOMAIN beats, Fold(i) PROVE HeartbeatTyped'
  <2>1. beats' \in Seq(BOOLEAN) /\ Len(beats') = Len(beats) - 1
    BY <1>3, FoldType
  <2>2. QED
    BY <1>3, <2>1, LenProperties DEF Fold
<1>4. ASSUME NEW i \in DOMAIN beats, Reject(i) PROVE HeartbeatTyped'
  <2>1. beats' \in Seq(BOOLEAN) /\ Len(beats') = Len(beats) - 1
    BY <1>4, WithoutType DEF Reject
  <2>2. QED
    BY <1>4, <2>1, LenProperties DEF Reject
<1>5. QED
  BY <1>1, <1>2, <1>3, <1>4 DEF BeatStep

LEMMA StartKeepsType ==
  ASSUME HeartbeatTyped, Start
  PROVE  HeartbeatTyped'
<1> USE EdgeAssumption DEF HeartbeatTyped
<1>1. CASE EdgeConfigured /\ Len(beats) < MaxBeats
  <2>1. Declared \in Seq(BOOLEAN) /\ Len(Declared) = Len(beats) + 1
    BY AppendProperties DEF Declared
  <2>2. beats' = Declared
    BY <1>1 DEF Start
  <2>3. QED
    BY <1>1, <2>1, <2>2, LenProperties DEF Start
<1>2. CASE ~(EdgeConfigured /\ Len(beats) < MaxBeats)
  BY <1>2 DEF Start
<1>3. QED
  BY <1>1, <1>2

LEMMA InvInductive == IInv /\ [Next]_vars => IInv'
<1> SUFFICES ASSUME CommandsInv, HeartbeatTyped, [Next]_vars PROVE CommandsInv' /\ HeartbeatTyped'
  BY DEF IInv
<1>1. ASSUME NEW p \in Panels, PanelStep(p) PROVE CommandsInv' /\ HeartbeatTyped'
  <2>1. UNCHANGED server
    BY <1>1 DEF PanelStep, Submit, Receive, Disconnected, GiveUp, Clear
  <2>2. QED
    BY <1>1, <2>1, PanelStepKeepsInv DEF HeartbeatTyped, server, heartbeat
<1>2. ASSUME NEW c \in Calls, ServerStep(c) PROVE CommandsInv' /\ HeartbeatTyped'
  <2>1. UNCHANGED server
    BY <1>2 DEF ServerStep, Refuse, Simulate, Dispatch, Report, CutOff, Garbled
  <2>2. QED
    BY <1>2, <2>1, ServerStepKeepsInv DEF HeartbeatTyped, server, heartbeat
<1>3. CASE RuntimeStep
  <2>1. UNCHANGED server
    BY <1>3 DEF RuntimeStep, Take, Finish
  <2>2. QED
    BY <1>3, <2>1, RuntimeStepKeepsInv DEF HeartbeatTyped, server, heartbeat
<1>4. CASE BeatStep
  <2>1. UNCHANGED commands
    BY <1>4 DEF BeatStep, Tick, Lapse, Fold, Reject
  <2>2. QED
    BY <1>4, <2>1, OthersKeepInv, BeatStepKeepsType
<1>5. CASE Start
  <2>1. UNCHANGED commands
    BY <1>5 DEF Start
  <2>2. QED
    BY <1>5, <2>1, OthersKeepInv, StartKeepsType
<1>6. CASE Exit
  <2>1. HeartbeatTyped'
    BY <1>6 DEF Exit, HeartbeatTyped
  <2>2. QED
    BY <1>6, <2>1, ExitKeepsInv
<1>7. CASE UNCHANGED vars
  BY <1>7, OthersKeepInv DEF vars, commands, HeartbeatTyped
<1>8. QED
  BY <1>1, <1>2, <1>3, <1>4, <1>5, <1>6, <1>7 DEF Next

LEMMA Invariance == Spec => []IInv
  BY InitInv, InvInductive, PTL DEF Spec

-----------------------------------------------------------------------------
(* What follows from it                                                    *)

\* The state is always well typed; an answer is there exactly when the request
\* is answered.
THEOREM TypeCorrect == Spec => []TypeOK
<1>1. IInv => TypeOK
  BY DEF IInv, CommandsInv, FormsTyped, CallsTyped, HeartbeatTyped, TypeOK
<1>2. QED
  BY <1>1, Invariance, PTL

\* A form that says "accepted" stands for a command that was carried out, or simulated
\* and never sent; the delegation form says so of a garbled answer as well.
THEOREM AcceptanceIsTrue == Spec => []AcceptedWasDone
<1>1. IInv => AcceptedWasDone
  <2> SUFFICES ASSUME IInv, NEW p \in Panels, form[p].phase = "accepted"
               PROVE  LET c == form[p].call IN
                      \/ work[c] = "done"
                      \/ call[c].answer = "simulated" /\ work[c] = "none"
                      \/ call[c].answer = "garbled" /\ p \notin Generators
    BY DEF AcceptedWasDone
  <2>1. form[p].call \in Calls /\ call[form[p].call].answer \in Accepting(p)
    BY DEF IInv, CommandsInv, AcceptedHasCall
  <2>2. QED
    BY <2>1 DEF IInv, CommandsInv, Accepting, CompletedWasDone, RefusedNeverSent
<1>2. QED
  BY <1>1, Invariance, PTL

\* A command the server refused in its own words, or simulated, is never at the
\* runtime, not even later.
THEOREM RefusalIsFinal == Spec => []RefusedNeverSent
<1>1. IInv => RefusedNeverSent
  BY DEF IInv, CommandsInv
<1>2. QED
  BY <1>1, Invariance, PTL

\* The two together, as the run checks them.
THEOREM AnswersHold == Spec => []AnswersAreTrue
BY AcceptanceIsTrue, RefusalIsFinal, PTL DEF AnswersAreTrue
=============================================================================
