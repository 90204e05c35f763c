----------------------------- MODULE RuntimeEdge -----------------------------
(***************************************************************************)
(* The commands the dashboard gives to the ONEX runtime, and the           *)
(* capability heartbeat, which share one HTTP edge.                        *)
(*                                                                         *)
(* A trigger form of the browser posts a command; the server validates it, *)
(* forwards it to the runtime's /skill endpoint with a deadline, and turns *)
(* what comes back, or fails to come back, into an answer; a server in     *)
(* file mode answers by itself and sends nothing.  The runtime             *)
(* itself is external: it may take a command late, finish it after the     *)
(* server has given up, or never see it.  Beside that, each server process *)
(* declares the renderer's capability on start and on every tick of a      *)
(* timer, without waiting for the previous declaration.                    *)
(***************************************************************************)
EXTENDS Naturals, Sequences

CONSTANTS
    Panels,         \* mounted trigger forms
    Generators,     \* those of them that are SeaGeneratePanel, with a deadline;
                    \* the others are DelegationTriggerPanel, without one
    Calls,          \* submissions, each with the correlation id of its own
    NoCall,
    EdgeConfigured, \* runtime_edge.url is set
    MaxBeats        \* bound: declarations under way at one time

ASSUME EdgeAssumption ==
    /\ Generators \subseteq Panels
    /\ NoCall \notin Calls
    /\ EdgeConfigured \in BOOLEAN
    /\ MaxBeats \in Nat \ {0}

VARIABLES
    form,      \* what each trigger form shows, and for which submission
    call,      \* the request of each submission, in the server's hands
    work,      \* what became of each command at the runtime
    serverUp,
    simulating, \* the process serves files, as its configuration says on start
    ticking,   \* the heartbeat's interval timer is set
    beats,     \* declarations sent and not yet settled, oldest first;
               \* TRUE when a newer one has been folded already
    fresh      \* the projection's heartbeat has not lapsed

vars == <<form, call, work, serverUp, simulating, ticking, beats, fresh>>
commands == <<form, call, work>>
heartbeat == <<ticking, beats, fresh>>
server == <<serverUp, simulating, heartbeat>>

(* What the server answers.  Nothing is sent before it answers              *)
(*   simulated: HTTP 200, in file mode,                                    *)
(*   refused: 400 or 409 in its own words.                                 *)
(* Of a command that was sent it answers                                   *)
(*   completed: 200, the terminal event,                                   *)
(*   garbled: an error body that goes out with the runtime's own 200,      *)
(*   rejected: the runtime's own 400 or 409, or another of that class,     *)
(*   retryable and failed: the other errors, with that flag.               *)
Answers == {"simulated", "refused", "completed", "garbled", "rejected", "retryable", "failed"}

TypeOK ==
    /\ form \in [Panels -> [phase : {"idle", "submitting", "accepted", "error"},
                            call : Calls \cup {NoCall}]]
    /\ \A p \in Panels : form[p].phase = "submitting" => form[p].call # NoCall
    /\ call \in [Calls -> [phase : {"unused", "posted", "waiting", "answered", "lost"},
                           answer : Answers \cup {"none"}]]
    /\ \A c \in Calls : call[c].phase = "answered" <=> call[c].answer # "none"
    /\ work \in [Calls -> {"none", "sent", "underway", "done"}]
    /\ {serverUp, simulating, ticking, fresh} \subseteq BOOLEAN
    /\ beats \in Seq(BOOLEAN) /\ Len(beats) <= MaxBeats

(* The record of a submission that has no answer *)
Open(phase) == [phase |-> phase, answer |-> "none"]

Init ==
    /\ form = [p \in Panels |-> [phase |-> "idle", call |-> NoCall]]
    /\ call = [c \in Calls |-> Open("unused")]
    /\ work = [c \in Calls |-> "none"]
    /\ serverUp = FALSE
    /\ simulating = FALSE
    /\ ticking = FALSE
    /\ beats = <<>>
    /\ fresh = FALSE

-----------------------------------------------------------------------------
(* The forms *)

Shows(p, phase, c) == form' = [form EXCEPT ![p] = [phase |-> phase, call |-> c]]

(* The delegation form offers its button again after an error or a reset,  *)
(* the generation form after any answer.                                   *)
MaySubmit(p) == form[p].phase \in
    IF p \in Generators THEN {"idle", "accepted", "error"} ELSE {"idle", "error"}

(* A post to a server that is down, or on a connection that breaks, is lost *)
Submit(p, c) ==
    /\ MaySubmit(p) /\ call[c].phase = "unused"
    /\ Shows(p, "submitting", c)
    /\ call' = [call EXCEPT ![c] = Open(IF serverUp THEN "posted" ELSE "lost")]
    /\ UNCHANGED <<work, server>>

(* The delegation form takes any HTTP 200 for an acceptance, the generation *)
(* form asks for a correlation id in the body.                             *)
Accepting(p) ==
    {"completed", "simulated"} \cup (IF p \in Generators THEN {} ELSE {"garbled"})

Receive(p) ==
    LET c == form[p].call IN
    /\ form[p].phase = "submitting" /\ call[c].phase = "answered"
    /\ Shows(p, IF call[c].answer \in Accepting(p) THEN "accepted" ELSE "error", c)
    /\ UNCHANGED <<call, work, server>>

(* The connection breaks and the browser notices *)
Disconnected(p) ==
    /\ form[p].phase = "submitting" /\ call[form[p].call].phase = "lost"
    /\ Shows(p, "error", form[p].call)
    /\ UNCHANGED <<call, work, server>>


(* The browser's own deadline is longer than the server's, so it passes    *)
(* only when the server no longer waits for the runtime.                   *)
GiveUp(p) ==
    /\ p \in Generators
    /\ form[p].phase = "submitting" /\ call[form[p].call].phase # "waiting"
    /\ Shows(p, "error", form[p].call)
    /\ UNCHANGED <<call, work, server>>

(* "Trigger another", and leaving the page, which drops a pending answer *)
Clear(p) ==
    /\ form[p].phase # "idle"
    /\ Shows(p, "idle", NoCall)
    /\ UNCHANGED <<call, work, server>>

-----------------------------------------------------------------------------
(* The server's routes and its runtime client *)

Answered(c, a) == call' = [call EXCEPT ![c] = [phase |-> "answered", answer |-> a]]

(* Mutant: the command is sent before the request is validated *)
DispatchUnchecked(c) ==
    /\ call[c].phase = "posted"
    /\ work' = [work EXCEPT ![c] = "sent"]
    /\ UNCHANGED <<form, call, server>>

(* No prompt, an unknown task type, or one that nothing routes *)
Refuse(c) ==
    /\ call[c].phase = "posted"
    /\ Answered(c, "refused")
    /\ UNCHANGED <<form, work, server>>

(* File mode accepts a command and sends nothing *)
Simulate(c) ==
    /\ call[c].phase = "posted" /\ simulating
    /\ Answered(c, "simulated")
    /\ UNCHANGED <<form, work, server>>

(* Without a usable edge in the configuration nothing is sent *)
Dispatch(c) ==
    /\ call[c].phase = "posted" /\ ~simulating
    /\ IF EdgeConfigured
         THEN /\ call' = [call EXCEPT ![c] = Open("waiting")]
              /\ work' = [work EXCEPT ![c] = "sent"]
         ELSE Answered(c, "failed") /\ UNCHANGED work
    /\ UNCHANGED <<form, server>>

(* Mutant: an HTTP 200 counts as success although its body says ok = false *)
ReportAnyBody(c) ==
    /\ call[c].phase = "waiting" /\ work[c] # "sent"
    /\ Answered(c, "completed")
    /\ UNCHANGED <<form, work, server>>

(* The runtime reports: the terminal event of a command it carried out, or *)
(* an error of its own, with the status and the flag it chose, in whatever *)
(* state the command is.                                                   *)
Report(c) ==
    /\ call[c].phase = "waiting"
    /\ \/ work[c] = "done" /\ Answered(c, "completed")
       \/ \E a \in {"rejected", "retryable", "failed"} : Answered(c, a)
    /\ UNCHANGED <<form, work, server>>

(* The fetch fails or reaches its deadline before the headers *)
CutOff(c) ==
    /\ call[c].phase = "waiting"
    /\ Answered(c, "retryable")
    /\ UNCHANGED <<form, work, server>>

(* The body breaks off, is not JSON or not a response of the declared      *)
(* shape: the server answers with the status the runtime's headers had.    *)
Garbled(c) ==
    /\ call[c].phase = "waiting"
    /\ \E a \in {"garbled", "rejected", "failed"} : Answered(c, a)
    /\ UNCHANGED <<form, work, server>>

-----------------------------------------------------------------------------
(* The runtime: nobody recalls a command once it is sent *)

Take(c) ==
    /\ work[c] = "sent"
    /\ work' = [work EXCEPT ![c] = "underway"]
    /\ UNCHANGED <<form, call, server>>

Finish(c) ==
    /\ work[c] = "underway"
    /\ work' = [work EXCEPT ![c] = "done"]
    /\ UNCHANGED <<form, call, server>>

-----------------------------------------------------------------------------
(* The heartbeat *)

Declared == Append(beats, FALSE)

Tick ==
    /\ ticking /\ Len(beats) < MaxBeats
    /\ beats' = Declared
    /\ UNCHANGED <<commands, serverUp, simulating, ticking, fresh>>

Without(s, i) == [j \in 1..(Len(s) - 1) |-> IF j < i THEN s[j] ELSE s[j + 1]]

(* The reducer folds a declaration: those sent before it are now older than *)
(* the instant the projection holds.                                        *)
Fold(i) ==
    /\ i \in DOMAIN beats
    /\ beats' = Without([j \in DOMAIN beats |-> beats[j] \/ j < i], i)
    /\ fresh' = TRUE
    /\ UNCHANGED <<commands, serverUp, simulating, ticking>>

(* Mutant: the first rejected declaration ends the loop *)
RejectAndStop(i) ==
    /\ i \in DOMAIN beats
    /\ beats' = Without(beats, i)
    /\ ticking' = FALSE
    /\ UNCHANGED <<commands, serverUp, simulating, fresh>>

(* A publish is rejected: onError reports it and the timer stays set *)
Reject(i) ==
    /\ i \in DOMAIN beats
    /\ beats' = Without(beats, i)
    /\ UNCHANGED <<commands, serverUp, simulating, ticking, fresh>>

Lapse ==
    /\ fresh /\ fresh' = FALSE
    /\ UNCHANGED <<commands, serverUp, simulating, ticking, beats>>

-----------------------------------------------------------------------------
(* The process *)

Start ==
    /\ ~serverUp /\ serverUp' = TRUE
    /\ simulating' \in BOOLEAN
    /\ ticking' = EdgeConfigured
    /\ beats' = IF EdgeConfigured /\ Len(beats) < MaxBeats THEN Declared ELSE beats
    /\ UNCHANGED <<commands, fresh>>

Held(c) == call[c].phase \in {"posted", "waiting"}

(* process.exit drops every request in hand; what was sent stays sent *)
Exit ==
    /\ serverUp /\ serverUp' = FALSE
    /\ simulating' = FALSE
    /\ ticking' = FALSE
    /\ call' = [c \in Calls |-> IF Held(c) THEN Open("lost") ELSE call[c]]
    /\ UNCHANGED <<form, work, beats, fresh>>

PanelStep(p) ==
    (\E c \in Calls : Submit(p, c)) \/ Receive(p) \/ Disconnected(p) \/ GiveUp(p) \/ Clear(p)

ServerStep(c) == Refuse(c) \/ Simulate(c) \/ Dispatch(c) \/ Report(c) \/ CutOff(c) \/ Garbled(c)

RuntimeStep == \E c \in Calls : Take(c) \/ Finish(c)

BeatStep == Tick \/ Lapse \/ \E i \in DOMAIN beats : Fold(i) \/ Reject(i)

Next ==
    \/ \E p \in Panels : PanelStep(p)
    \/ \E c \in Calls : ServerStep(c)
    \/ RuntimeStep
    \/ BeatStep
    \/ Start
    \/ Exit

Spec == Init /\ [][Next]_vars

(* The server serves what it holds and its deadline passes; a generation   *)
(* form's deadline passes and a broken connection is noticed; the timer    *)
(* fires, and of the declarations it keeps sending some arrive.  Nothing   *)
(* obliges an answer to reach a form, the runtime to answer, or a process  *)
(* to start again.                                                         *)
FairSpec ==
    /\ Spec
    /\ \A c \in Calls : WF_vars(Simulate(c) \/ Dispatch(c)) /\ WF_vars(CutOff(c))
    /\ \A p \in Panels : WF_vars(Disconnected(p)) /\ WF_vars(GiveUp(p))
    /\ WF_vars(Tick)
    /\ SF_vars(\E i \in DOMAIN beats : Fold(i))

-----------------------------------------------------------------------------
(* Properties *)

(* A form that says "accepted" stands for a command the runtime carried    *)
(* out, whatever was cut off, resubmitted or restarted on the way; or, in   *)
(* file mode, for one that never left the server (routes.ts:257, 366).  The *)
(* exception is the delegation form's: it also says so of a garbled answer. *)
AcceptedWasDone ==
    \A p \in Panels : form[p].phase = "accepted" =>
        LET c == form[p].call IN
        \/ work[c] = "done"
        \/ call[c].answer = "simulated" /\ work[c] = "none"
        \/ call[c].answer = "garbled" /\ p \notin Generators

(* A command the server refused in its own words, or simulated, never      *)
(* reaches the runtime, not even later.                                    *)
RefusedNeverSent ==
    \A c \in Calls : call[c].answer \in {"refused", "simulated"} => work[c] = "none"

(* Outside file mode a form says "accepted" only of a command the runtime   *)
(* carried out: "returns the typed runtime error instead of fabricating    *)
(* acceptance" (server/__tests__/dispatch.test.ts:186).                    *)
NoFabricatedAcceptance ==
    \A p \in Panels :
        form[p].phase = "accepted" /\ call[form[p].call].answer # "simulated"
            => work[form[p].call] = "done"


(* A rejected declaration does not silence the heartbeat: while a process  *)
(* stays up, the projection becomes fresh again and again.                 *)
HeartbeatResumes == EdgeConfigured => (<>[]serverUp => []<>fresh)

(* What a form says of a command is what happened to it, the garbled        *)
(* answers apart: an accepted one was carried out or simulated, and one the *)
(* server refused never reached the runtime.                                *)
AnswersAreTrue == AcceptedWasDone /\ RefusedNeverSent
=============================================================================
