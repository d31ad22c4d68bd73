------------------------------ MODULE TtsTurn -------------------------------
(***************************************************************************)
(* One TtsManager: speaking turns push texts, a worker synthesises them    *)
(* into the session's audio queue, the sender loop plays the queue to the  *)
(* device, and sentence marks take a detour through a delay task.  At any  *)
(* moment other callers interrupt the speech, which bumps the audio        *)
(* generation, asks the sender to drain its queues, and makes whoever      *)
(* comes first of the sender and the callers finish the turn on the wire.  *)
(*                                                                         *)
(* The loop of the sender is taken to be running (it starts with the       *)
(* manager), the delay of a sentence mark is the same for all, and         *)
(* turn_end_policy, the welcome wait and the idle window that a finished   *)
(* turn also touches are left out.                                         *)
(***************************************************************************)
EXTENDS Integers, Sequences, FiniteSets

CONSTANTS Turns,       \* speaking turns: each speaks a text and ends its turn
          Callers,     \* callers of interrupt_and_stop_sync
          MaxFrames,   \* bound: audio frames of a text
          QueueCap,    \* capacity of the session's queues (SESSION_AUDIO_QUEUE_CAP)
          Width        \* values of the counter pending_tts_jobs (2^64 in the code)

ASSUME TtsAssumption ==
    /\ IsFiniteSet(Turns) /\ IsFiniteSet(Callers)
    /\ MaxFrames \in Nat /\ QueueCap \in Nat \ {0}
    /\ Width \in Nat /\ Width > 2 * Cardinality(Turns)
    /\ "none" \notin Turns

VARIABLES
    turn,     \* where each turn is in handle_text_response and finish_tts_turn
    item,     \* the sequence number of its text, then a generation it read
    seq,      \* tts_queue_seq
    dropped,  \* dropped_tts_seq
    jobs,     \* pending_tts_jobs
    ttsq,     \* the text queue
    worker,   \* process_tts_queue and handle_tts
    gen,      \* audio_generation
    queue,    \* the session's audio queue
    delayed,  \* sentence marks that wait for their time
    ready,    \* sentence marks whose time has come
    sender,   \* run_sender_loop
    irq,      \* the channel of interrupt requests, of capacity one
    pend,     \* pending_interrupt
    caller,   \* where each caller is in interrupt_and_stop_sync
    active,   \* tts_active
    wire,     \* the last of START and STOP on the wire was START
    ended,    \* how often the on_end of each turn's text was called
    lost      \* texts whose on_end nobody will call

turnVars == <<turn, item, seq>>
playVars == <<queue, delayed, ready, sender>>
stopVars == <<pend, active, wire>>
vars == <<turnVars, dropped, jobs, ttsq, worker, gen, playVars, irq, stopVars, caller,
          ended, lost>>

NoPend == [set |-> FALSE, send |-> FALSE]
Resting == [pc |-> "idle", text |-> "none", frames |-> 0, seen |-> 0]

-----------------------------------------------------------------------------

\* enqueue_elem: whatever generation the caller wrote, the current one is stored,
\* and then the element waits for room.  So the generation it carries is one of
\* those since the last step of the caller, which saw the generation seen.
Enqueue(kind, t, seen) ==
    /\ Len(queue) < QueueCap
    /\ \E g \in seen .. gen :
           queue' = Append(queue, [kind |-> kind, text |-> t, gen |-> g])
    /\ UNCHANGED <<delayed, ready, sender>>

\* The texts whose on_end travels with an element of s.
Carried(s) == {s[i].text : i \in {j \in DOMAIN s : s[j].kind = "end"}}

Call(T) == ended' = [t \in Turns |-> IF t \in T THEN ended[t] + 1 ELSE ended[t]]

\* Variants, named so by their comment, are what a slip in the code would make of
\* the definition below them; no specification uses them.

\* A variant: an interrupt that sends no STOP leaves tts_active on.
FinishWhenSent(send) ==
    /\ active' = (active /\ ~ send)
    /\ wire' = (wire /\ ~ (active /\ send))

\* finish_tts_stop: only the one that turns tts_active off sends the STOP.
Finish(send) ==
    /\ active' = FALSE
    /\ wire' = (wire /\ ~ (active /\ send))

FinishPending ==
    /\ pend' = NoPend
    /\ IF pend.set THEN Finish(pend.send) ELSE UNCHANGED <<active, wire>>

-----------------------------------------------------------------------------

Init ==
    /\ turn = [t \in Turns |-> "idle"]
    /\ item = [t \in Turns |-> 0]
    /\ seq = 0 /\ dropped = 0 /\ jobs = 0 /\ gen = 1
    /\ ttsq = <<>> /\ queue = <<>> /\ delayed = <<>> /\ ready = <<>> /\ irq = <<>>
    /\ worker = Resting
    /\ sender = "loop"
    /\ pend = NoPend
    /\ caller = [c \in Callers |-> "idle"]
    /\ active = FALSE /\ wire = FALSE
    /\ ended = [t \in Turns |-> 0]
    /\ lost = {}

-----------------------------------------------------------------------------
\* handle_text_response and finish_tts_turn

TakeSeq(t) ==
    /\ turn[t] = "idle"
    /\ seq' = seq + 1
    /\ item' = [item EXCEPT ![t] = seq + 1]
    /\ turn' = [turn EXCEPT ![t] = "check"]
    /\ UNCHANGED <<dropped, jobs, ttsq, worker, gen, playVars, irq, stopVars, caller,
                   ended, lost>>

\* A text numbered before the queue was cleared is dropped without its on_end.
CheckDropped(t) ==
    /\ turn[t] = "check"
    /\ IF item[t] <= dropped
       THEN lost' = lost \cup {t} /\ turn' = [turn EXCEPT ![t] = "drain"]
       ELSE UNCHANGED lost /\ turn' = [turn EXCEPT ![t] = "stamp"]
    /\ item' = [item EXCEPT ![t] = 0]
    /\ UNCHANGED <<seq, dropped, jobs, ttsq, worker, gen, playVars, irq, stopVars, caller,
                   ended>>

Stamp(t) ==
    /\ turn[t] = "stamp"
    /\ item' = [item EXCEPT ![t] = gen]
    /\ turn' = [turn EXCEPT ![t] = "send"]
    /\ UNCHANGED <<seq, dropped, jobs, ttsq, worker, gen, playVars, irq, stopVars, caller,
                   ended, lost>>

\* The text is sent first and counted after: the worker may be done before.
SendText(t) ==
    /\ turn[t] = "send"
    /\ ttsq' = Append(ttsq, [text |-> t, gen |-> item[t]])
    /\ item' = [item EXCEPT ![t] = 0]
    /\ turn' = [turn EXCEPT ![t] = "count"]
    /\ UNCHANGED <<seq, dropped, jobs, worker, gen, playVars, irq, stopVars, caller,
                   ended, lost>>

CountJob(t) ==
    /\ turn[t] = "count"
    /\ jobs' = (jobs + 1) % Width
    /\ turn' = [turn EXCEPT ![t] = "drain"]
    /\ UNCHANGED <<item, seq, dropped, ttsq, worker, gen, playVars, irq, stopVars, caller,
                   ended, lost>>

\* wait_tts_queue_drain: no job is pending, or 30 seconds have passed.
Drained(t) ==
    /\ turn[t] = "drain"
    /\ turn' = [turn EXCEPT ![t] = IF jobs = 0 THEN "stop" ELSE "late"]
    /\ item' = [item EXCEPT ![t] = gen]
    /\ UNCHANGED <<seq, dropped, jobs, ttsq, worker, gen, playVars, irq, stopVars,
                   caller, ended, lost>>

EndTurn(t) ==
    /\ turn[t] \in {"stop", "late"}
    /\ Enqueue("stop", t, item[t])
    /\ turn' = [turn EXCEPT ![t] = IF @ = "stop" THEN "done" ELSE "gave_up"]
    /\ item' = [item EXCEPT ![t] = 0]
    /\ UNCHANGED <<seq, dropped, jobs, ttsq, worker, gen, irq, stopVars, caller,
                   ended, lost>>

-----------------------------------------------------------------------------
\* process_tts_queue and handle_tts

JobDone ==
    /\ worker' = Resting
    /\ jobs' = (jobs + Width - 1) % Width

\* A variant: the worker continues before it counts the job as done.
TakeStaleUncounted ==
    /\ worker.pc = "idle" /\ ttsq # <<>>
    /\ Head(ttsq).gen # gen
    /\ ttsq' = Tail(ttsq)
    /\ Call({Head(ttsq).text})
    /\ UNCHANGED <<turnVars, dropped, jobs, worker, gen, playVars, irq, stopVars, caller,
                   lost>>

TakeStale ==
    /\ worker.pc = "idle" /\ ttsq # <<>>
    /\ Head(ttsq).gen # gen
    /\ ttsq' = Tail(ttsq)
    /\ Call({Head(ttsq).text})
    /\ JobDone
    /\ UNCHANGED <<turnVars, dropped, gen, playVars, irq, stopVars, caller, lost>>

TakeText ==
    /\ worker.pc = "idle" /\ ttsq # <<>>
    /\ Head(ttsq).gen = gen
    /\ ttsq' = Tail(ttsq)
    /\ worker' = [pc |-> "synth", text |-> Head(ttsq).text, frames |-> MaxFrames,
                seen |-> gen]
    /\ UNCHANGED <<turnVars, dropped, jobs, gen, playVars, irq, stopVars, caller, ended,
                   lost>>

\* An error of the TTS provider: nobody calls the on_end of the text.
SynthesisFails ==
    /\ worker.pc = "synth"
    /\ lost' = lost \cup {worker.text}
    /\ JobDone
    /\ UNCHANGED <<turnVars, dropped, ttsq, gen, playVars, irq, stopVars, caller, ended>>

\* The first frame is there: a START is due unless the TTS is active already.
FirstFrame ==
    /\ worker.pc = "synth"
    /\ worker' = [worker EXCEPT !.pc = IF active THEN "sentence" ELSE "start", !.seen = gen]
    /\ UNCHANGED <<turnVars, dropped, jobs, ttsq, gen, playVars, irq, stopVars, caller,
                   ended, lost>>

EnqueueStart ==
    /\ worker.pc = "start"
    /\ Enqueue("start", worker.text, worker.seen)
    /\ worker' = [worker EXCEPT !.pc = "sentence", !.seen = gen]
    /\ UNCHANGED <<turnVars, dropped, jobs, ttsq, gen, irq, stopVars, caller, ended, lost>>

EnqueueSentence ==
    /\ worker.pc = "sentence"
    /\ Enqueue("begin", worker.text, worker.seen)
    /\ worker' = [worker EXCEPT !.pc = "frames", !.seen = gen]
    /\ UNCHANGED <<turnVars, dropped, jobs, ttsq, gen, irq, stopVars, caller, ended, lost>>

EnqueueFrame ==
    /\ worker.pc = "frames" /\ worker.frames > 0
    /\ Enqueue("frame", worker.text, worker.seen)
    /\ worker' = [worker EXCEPT !.frames = @ - 1, !.seen = gen]
    /\ UNCHANGED <<turnVars, dropped, jobs, ttsq, gen, irq, stopVars, caller, ended, lost>>

\* The stream ends, or the session was aborted.
EnqueueEnd ==
    /\ worker.pc = "frames"
    /\ Enqueue("end", worker.text, worker.seen)
    /\ JobDone
    /\ UNCHANGED <<turnVars, dropped, ttsq, gen, irq, stopVars, caller, ended, lost>>

Worker ==
    TakeStale \/ TakeText \/ SynthesisFails \/ FirstFrame \/ EnqueueStart
      \/ EnqueueSentence \/ EnqueueFrame \/ EnqueueEnd

-----------------------------------------------------------------------------
\* run_sender_loop and run_delayed_sentence_loop

\* An element of an earlier generation is thrown away, its on_end is called.
PopStale ==
    /\ sender = "loop" /\ queue # <<>>
    /\ Head(queue).gen # gen
    /\ queue' = Tail(queue)
    /\ Call(Carried(<<Head(queue)>>))
    /\ UNCHANGED <<turnVars, dropped, jobs, ttsq, worker, gen, delayed, ready, sender, irq,
                   stopVars, caller, lost>>

Pop(kinds) ==
    /\ sender = "loop" /\ queue # <<>>
    /\ Head(queue).gen = gen /\ Head(queue).kind \in kinds
    /\ queue' = Tail(queue)
    /\ UNCHANGED <<turnVars, dropped, jobs, ttsq, worker, gen, ready, irq, pend, wire,
                   caller, ended, lost>>

PopMark ==
    /\ Pop({"begin", "end"})
    /\ Len(delayed) < QueueCap
    /\ delayed' = Append(delayed, Head(queue))
    /\ UNCHANGED <<sender, active>>

\* A frame and a STOP wait for their time; a START marks the TTS active and is sent.
PopTimed ==
    /\ \/ Pop({"frame"}) /\ sender' = "frame"
       \/ Pop({"stop"}) /\ sender' = "grace"
       \/ Pop({"start"}) /\ sender' = "mark"
    /\ UNCHANGED <<delayed, active>>

SendFrame ==
    /\ sender = "frame"
    /\ sender' = "loop"
    /\ UNCHANGED <<turnVars, dropped, jobs, ttsq, worker, gen, queue, delayed, ready, irq,
                   stopVars, caller, ended, lost>>

MarkActive ==
    /\ sender = "mark"
    /\ sender' = "start"
    /\ active' = TRUE
    /\ UNCHANGED <<turnVars, dropped, jobs, ttsq, worker, gen, queue, delayed, ready, irq,
                   pend, wire, caller, ended, lost>>

SendStart ==
    /\ sender = "start"
    /\ wire' = TRUE
    /\ sender' = "loop"
    /\ UNCHANGED <<turnVars, dropped, jobs, ttsq, worker, gen, queue, delayed, ready, irq,
                   pend, active, caller, ended, lost>>

SendStop ==
    /\ sender = "grace"
    /\ Finish(TRUE)
    /\ sender' = "loop"
    /\ UNCHANGED <<turnVars, dropped, jobs, ttsq, worker, gen, queue, delayed, ready, irq,
                   pend, caller, ended, lost>>

DispatchMark ==
    /\ sender \notin {"mark", "start"} /\ ready # <<>>
    /\ ready' = Tail(ready)
    /\ Call(Carried(<<Head(ready)>>))
    /\ UNCHANGED <<turnVars, dropped, jobs, ttsq, worker, gen, queue, delayed, sender, irq,
                   stopVars, caller, lost>>

\* A variant: what is drained is dropped without its on_end.
InterruptedSilently ==
    /\ sender \notin {"mark", "start"} /\ irq # <<>>
    /\ queue' = <<>> /\ ready' = <<>>
    /\ FinishPending
    /\ caller' = [c \in Callers |-> IF c = irq[1] /\ caller[c] = "wait"
                                    THEN "finish" ELSE caller[c]]
    /\ irq' = <<>>
    /\ sender' = "loop"
    /\ UNCHANGED <<turnVars, dropped, jobs, ttsq, worker, gen, delayed, ended, lost>>

\* drain_on_interrupt: the queues of the sender are emptied, not the delay task's.
Interrupted ==
    /\ sender \notin {"mark", "start"} /\ irq # <<>>
    /\ queue' = <<>> /\ ready' = <<>>
    /\ Call(Carried(queue) \cup Carried(ready))
    /\ FinishPending
    /\ caller' = [c \in Callers |-> IF c = irq[1] /\ caller[c] = "wait"
                                    THEN "finish" ELSE caller[c]]
    /\ irq' = <<>>
    /\ sender' = "loop"
    /\ UNCHANGED <<turnVars, dropped, jobs, ttsq, worker, gen, delayed, lost>>

Sender ==
    PopStale \/ PopMark \/ PopTimed \/ SendFrame \/ MarkActive \/ SendStart \/ SendStop
      \/ DispatchMark \/ Interrupted

\* A variant: an outdated mark is dropped without its on_end.
MarkDueSilently ==
    /\ delayed # <<>>
    /\ IF Head(delayed).gen = gen
       THEN Len(ready) < QueueCap /\ ready' = Append(ready, Head(delayed))
       ELSE UNCHANGED ready
    /\ delayed' = Tail(delayed)
    /\ UNCHANGED <<turnVars, dropped, jobs, ttsq, worker, gen, queue, sender, irq, stopVars,
                   caller, ended, lost>>

MarkDue ==
    /\ delayed # <<>>
    /\ IF Head(delayed).gen = gen
       THEN /\ Len(ready) < QueueCap
            /\ ready' = Append(ready, Head(delayed))
            /\ UNCHANGED ended
       ELSE Call(Carried(<<Head(delayed)>>)) /\ UNCHANGED ready
    /\ delayed' = Tail(delayed)
    /\ UNCHANGED <<turnVars, dropped, jobs, ttsq, worker, gen, queue, sender, irq, stopVars,
                   caller, lost>>

-----------------------------------------------------------------------------
\* interrupt_and_stop_sync

\* A variant: the next text is dropped too.
BeginInterruptDropsNext(c, send) ==
    /\ caller[c] = "idle"
    /\ dropped' = seq + 1
    /\ pend' = [set |-> TRUE, send |-> pend.send \/ send]
    /\ gen' = gen + 1
    /\ caller' = [caller EXCEPT ![c] = "post"]
    /\ UNCHANGED <<turnVars, jobs, ttsq, worker, playVars, irq, active, wire, ended, lost>>

\* The text queue is cleared and the interrupt is recorded, merged with one that
\* is pending; then the generation moves on.
BeginInterrupt(c, send) ==
    /\ caller[c] = "idle"
    /\ dropped' = seq
    /\ pend' = [set |-> TRUE, send |-> pend.send \/ send]
    /\ gen' = gen + 1
    /\ caller' = [caller EXCEPT ![c] = "post"]
    /\ UNCHANGED <<turnVars, jobs, ttsq, worker, playVars, irq, active, wire, ended, lost>>

\* A full channel does not wait for the request that is in it already.
PostInterrupt(c) ==
    /\ caller[c] = "post"
    /\ IF irq = <<>>
       THEN irq' = <<c>> /\ caller' = [caller EXCEPT ![c] = "wait"]
       ELSE UNCHANGED irq /\ caller' = [caller EXCEPT ![c] = "finish"]
    /\ UNCHANGED <<turnVars, dropped, jobs, ttsq, worker, gen, playVars, stopVars, ended,
                   lost>>

WaitTimeout(c) ==
    /\ caller[c] = "wait"
    /\ caller' = [caller EXCEPT ![c] = "finish"]
    /\ UNCHANGED <<turnVars, dropped, jobs, ttsq, worker, gen, playVars, irq, stopVars,
                   ended, lost>>

\* A variant: the caller leaves the stop to the sender.
FinishInterruptForgets(c) ==
    /\ caller[c] = "finish"
    /\ caller' = [caller EXCEPT ![c] = "done"]
    /\ UNCHANGED <<turnVars, dropped, jobs, ttsq, worker, gen, playVars, irq, stopVars,
                   ended, lost>>

FinishInterrupt(c) ==
    /\ caller[c] = "finish"
    /\ FinishPending
    /\ caller' = [caller EXCEPT ![c] = "done"]
    /\ UNCHANGED <<turnVars, dropped, jobs, ttsq, worker, gen, playVars, irq, ended, lost>>

-----------------------------------------------------------------------------

Speak(t) ==
    TakeSeq(t) \/ CheckDropped(t) \/ Stamp(t) \/ SendText(t) \/ CountJob(t) \/ EndTurn(t)
Interrupt(c) == PostInterrupt(c) \/ WaitTimeout(c) \/ FinishInterrupt(c)

Next ==
    \/ \E t \in Turns : Speak(t) \/ Drained(t)
    \/ Worker \/ Sender \/ MarkDue
    \/ \E c \in Callers : Interrupt(c) \/ \E send \in BOOLEAN : BeginInterrupt(c, send)

Spec == Init /\ [][Next]_vars

\* Every task of the manager is polled, every timer runs out.
FairSpec ==
    /\ Spec
    /\ \A t \in Turns : WF_vars(Speak(t)) /\ WF_vars(Drained(t))
    /\ WF_vars(Worker) /\ WF_vars(Sender) /\ WF_vars(MarkDue)
    /\ \A c \in Callers : WF_vars(Interrupt(c))

-----------------------------------------------------------------------------

ElemType == [kind : {"start", "begin", "frame", "end", "stop"}, text : Turns, gen : Nat]

TypeOK ==
    /\ turn \in [Turns -> {"idle", "check", "stamp", "send", "count", "drain", "stop",
                           "late", "done", "gave_up"}]
    /\ item \in [Turns -> Nat]
    /\ seq \in Nat /\ dropped \in 0 .. seq /\ gen \in Nat
    /\ jobs \in 0 .. Width - 1
    /\ ttsq \in Seq([text : Turns, gen : Nat])
    /\ worker \in [pc : {"idle", "synth", "start", "sentence", "frames"},
                   text : Turns \cup {"none"}, frames : 0 .. MaxFrames, seen : Nat]
    /\ queue \in Seq(ElemType) /\ delayed \in Seq(ElemType) /\ ready \in Seq(ElemType)
    /\ sender \in {"loop", "frame", "grace", "mark", "start"}
    /\ irq \in Seq(Callers) /\ Len(irq) <= 1
    /\ pend \in [set : BOOLEAN, send : BOOLEAN]
    /\ caller \in [Callers -> {"idle", "post", "wait", "finish", "done"}]
    /\ active \in BOOLEAN /\ wire \in BOOLEAN
    /\ ended \in [Turns -> Nat]
    /\ lost \in SUBSET Turns

\* An interrupt that is recorded is finished by someone: while it is pending,
\* one of its callers still has its own finish ahead.  Neither the merging of
\* interrupts, nor a full channel, nor a caller that stops waiting leaves one
\* behind, to end a later turn.
PendingStopHasOwner ==
    pend.set => \E c \in Callers : caller[c] \in {"post", "wait", "finish"}

\* pending_tts_jobs is below zero (a huge number) when the worker is done with
\* a text before its caller counts it, and right again after: at every moment
\* the counter, and those not yet counted, are the texts in the queue and the
\* one in work.  Nothing makes wait_tts_queue_drain wait for ever.
Uncounted == {t \in Turns : turn[t] = "count"}
Busy == IF worker.pc = "idle" THEN 0 ELSE 1
JobsBalanced == (jobs + Cardinality(Uncounted)) % Width = Len(ttsq) + Busy

\* The on_end of a text that was sent is called once or is still on its way, at
\* one place: the interrupts that drain the queues, outdate the generation of
\* what the delay task holds, or overtake the worker, neither lose nor repeat
\* it.  Only a failed synthesis and the drop of a text that is not sent forget it.
Places(t) ==
    LET ends(s) == Cardinality({i \in DOMAIN s : s[i].kind = "end" /\ s[i].text = t})
    IN  Cardinality({i \in DOMAIN ttsq : ttsq[i].text = t})
          + (IF worker.text = t THEN 1 ELSE 0)
          + ends(queue) + ends(delayed) + ends(ready)
OnEndAccounted ==
    \A t \in Turns :
        ended[t] + Places(t) =
            IF t \in lost \/ turn[t] \in {"idle", "check", "stamp", "send"} THEN 0 ELSE 1

\* The TTS that a START made active does not stay so: whatever was interrupted, dropped as outdated
\* or drained, a STOP of a turn or an interrupt turns it off.  Two things can
\* leave it on: a turn that gave up waiting for its texts (30 seconds), and a
\* request left in the channel after its interrupt was finished, which drains the
\* STOP of the turn that speaks when the sender comes to it.
Leftover == irq # <<>> /\ ~ pend.set
TtsEnds ==
    sender = "start" ~> (~ active \/ Leftover \/ \E t \in Turns : turn[t] = "gave_up")

\* A text that was sent gets its on_end in the end, or its synthesis lost.
OnEndCalled == \A t \in Turns : turn[t] = "count" ~> (ended[t] = 1 \/ t \in lost)

-----------------------------------------------------------------------------
\* What a comment says, and the code does not keep.

\* tts_manager.rs:914: the device takes audio only while it is speaking, so
\* START must come right before the first frame.  A frame is sent only after a
\* START that no STOP followed.
FramesOnlyWhileSpeaking ==
    [][sender = "frame" /\ sender' = "loop" /\ irq' = irq => wire]_vars
=============================================================================
