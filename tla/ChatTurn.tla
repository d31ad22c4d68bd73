------------------------------ MODULE ChatTurn ------------------------------
(***************************************************************************)
(* The dialogue of one session: what the device says reaches the chat text *)
(* queue, one worker takes a text at a time, asks the model, and feeds the *)
(* answer to the speech, while listen starts, aborts and barge-in of the   *)
(* user change the phase and the abort flag under its feet.                *)
(*                                                                         *)
(* Speech is a queue of starts, pieces and stops that an interrupt         *)
(* empties (TtsTurn has the inside of it).  The phase follows the speech   *)
(* only by tasks spawned at its start and its stop.  Welcome speech, the   *)
(* media gate, the injected speech guard and the closing of a session on a *)
(* fatal error are left out.                                               *)
(***************************************************************************)
EXTENDS Naturals, Sequences, FiniteSets

CONSTANTS MaxTexts,   \* bound: texts the user says or types, numbered as they come
          QueueCap,   \* capacity of the chat text queue (10 in the code)
          Pieces,     \* bound: sentences of an answer
          Rounds,     \* MAX_TOOL_ROUNDS
          MaxStarts,  \* bound: listen starts of the device
          MaxStops    \* bound: aborts and barge-ins of the user

ASSUME ChatAssumption == {MaxTexts, QueueCap, Pieces, Rounds} \subseteq Nat

VARIABLES
    phase,     \* listen_phase
    listenMode,      \* listen_mode
    realtime,  \* realtime_listen_active
    abort,     \* session_abort
    loop,      \* an ASR loop of the current listen start runs
    deferred,  \* pending_listen_start_mode is set
    queue,     \* the chat text queue
    turn,      \* the worker of the chat queue, and of the model's queue behind it
    audio,     \* what the speech still has to play
    speaking,  \* tts_active
    tasks,     \* spawned tasks by what they will do to the phase
    said,      \* how many texts came so far
    budget     \* listen starts and stops so far

chatVars == <<phase, listenMode, realtime, abort, loop, deferred, queue, turn, audio, speaking,
              tasks, said, budget>>
listenVars == <<listenMode, realtime, deferred, said, budget>>

NoTurn == [pc |-> "wait", text |-> 0, left |-> 0, bare |-> FALSE]
Sentence == <<"start", "piece", "stop">>
TaskKinds == {"speaking", "idle", "resume"}

ChatInit ==
    /\ phase = "idle" /\ listenMode = "auto" /\ realtime = FALSE
    /\ abort = FALSE /\ loop = FALSE /\ deferred = FALSE
    /\ queue = <<>> /\ turn = NoTurn
    /\ audio = <<>> /\ speaking = FALSE
    /\ tasks = [k \in TaskKinds |-> 0]
    /\ said = 0
    /\ budget = [starts |-> 0, stops |-> 0]

Spawn(k) == [tasks EXCEPT ![k] = @ + 1]
Ran(k) == [tasks EXCEPT ![k] = @ - 1]

\* interrupt_and_stop_sync: the stop on the wire spawns the task that ends Speaking.
Interrupted ==
    /\ audio' = <<>>
    /\ speaking' = FALSE
    /\ tasks' = IF speaking THEN Spawn("idle") ELSE tasks

\* empty_listen_recovery_session: out of listening, and an apology for the device.
Recovery(apology) ==
    /\ phase' = "idle"
    /\ loop' = FALSE
    /\ audio' = audio \o apology

-----------------------------------------------------------------------------
\* What reaches the chat text queue

\* enqueue_chat_text: a full queue drops the text.
Enqueue ==
    /\ said < MaxTexts /\ said' = said + 1
    /\ queue' = IF Len(queue) < QueueCap THEN Append(queue, said') ELSE queue

\* The ASR loop: only a realtime one goes on after a text.
Hears ==
    /\ loop
    /\ Enqueue
    /\ loop' = (listenMode = "realtime")
    /\ UNCHANGED <<phase, listenMode, realtime, abort, deferred, turn, audio, speaking, tasks,
                   budget>>

\* Too many empty results: dispatch_asr_empty_result.  The loop runs it, and aborts itself
\* while it waits for the apology: the stop is never queued.
HearsNothing ==
    /\ loop
    /\ Recovery(<<"start", "piece">>)
    /\ UNCHANGED <<listenVars, abort, queue, turn, speaking, tasks>>

\* A text message, or a detect whose debounce is over: the phase does not matter,
\* except that a detect while Speaking is skipped.
Types ==
    /\ Enqueue
    /\ UNCHANGED <<phase, listenMode, realtime, abort, loop, deferred, turn, audio, speaking,
                   tasks, budget>>

-----------------------------------------------------------------------------
\* The worker of the chat queue

Goes(pc) == turn' = [turn EXCEPT !.pc = pc]

\* process_chat_job: under the mutex, a session that listens now processes.
Take ==
    /\ turn = NoTurn /\ queue # <<>>
    /\ turn' = [NoTurn EXCEPT !.pc = "prepare", !.text = Head(queue), !.left = Rounds]
    /\ queue' = Tail(queue)
    /\ phase' = IF phase = "listening" /\ listenMode # "realtime" THEN "processing" ELSE phase
    /\ UNCHANGED <<listenVars, abort, loop, audio, speaking, tasks>>

\* prepare_chat_turn: the model is asked, a hint is spoken instead, an agent gets the
\* text, or an error ends the job with a recovery.
Prepare ==
    /\ turn.pc = "prepare"
    /\ \/ Goes("clear") /\ UNCHANGED <<phase, loop, audio>>
       \/ Goes("ensure") /\ audio' = audio \o Sentence /\ UNCHANGED <<phase, loop>>
       \/ Goes("ensure") /\ UNCHANGED <<phase, loop, audio>>
       \/ turn' = NoTurn /\ Recovery(Sentence)
    /\ UNCHANGED <<listenVars, abort, queue, speaking, tasks>>

\* clear_session_abort before run_llm_turn, and once more by the model's worker.
ClearAbort ==
    /\ \/ turn.pc = "clear" /\ Goes("asked")
       \/ turn.pc = "asked" /\ \E pc \in {"tools", "stream"} : Goes(pc)
       \/ turn.pc = "fallback" /\ turn' = [turn EXCEPT !.pc = "stream", !.bare = TRUE]
    /\ abort' = FALSE
    /\ UNCHANGED <<listenVars, phase, loop, queue, audio, speaking, tasks>>

\* A round of tools: an abort leaves the rounds, and the rounds fall back to a stream.
ToolRound ==
    /\ turn.pc = "tools"
    /\ \/ (abort \/ turn.left = 0) /\ Goes("fallback")
       \/ /\ ~ abort /\ turn.left > 0
          /\ \/ turn' = [turn EXCEPT !.left = @ - 1]      \* calls, or the retry hint
             \/ Goes("ensure")                           \* a tool stopped the model
             \/ Goes("text")
             \/ Goes("fallback")                         \* an empty answer
    /\ UNCHANGED <<listenVars, phase, abort, loop, queue, audio, speaking, tasks>>

\* run_tts_for_text: no abort is looked at.
SpeakText ==
    /\ turn.pc = "text"
    /\ audio' = audio \o <<"start", "piece">>
    /\ Goes("finish")
    /\ UNCHANGED <<listenVars, phase, abort, loop, queue, speaking, tasks>>

\* run_streaming_llm_turn: bare marks a fallback that gave no text so far.
OpenStream ==
    /\ turn.pc = "stream"
    /\ audio' = Append(audio, "start")
    /\ turn' = [turn EXCEPT !.pc = "chunks", !.left = Pieces]
    /\ UNCHANGED <<listenVars, phase, abort, loop, queue, speaking, tasks>>

\* handle_llm_response: the abort is looked at before every chunk.
Chunk ==
    /\ turn.pc = "chunks" /\ ~ abort /\ turn.left > 0
    /\ audio' = Append(audio, "piece")
    /\ turn' = [turn EXCEPT !.left = @ - 1, !.bare = FALSE]
    /\ UNCHANGED <<listenVars, phase, abort, loop, queue, speaking, tasks>>

\* The stream ends, or the abort breaks it: finish_tts_turn.  A fallback that gave no
\* text is followed by the default sentence.
CloseStream ==
    /\ turn.pc \in {"chunks", "finish"}
    /\ audio' = Append(audio, "stop")
    /\ IF turn.pc = "chunks" /\ turn.bare
       THEN turn' = [turn EXCEPT !.pc = "text", !.bare = FALSE]
       ELSE Goes("ensure")
    /\ UNCHANGED <<listenVars, phase, abort, loop, queue, speaking, tasks>>

\* A variant: the job ends without the last look.
EnsureNothing ==
    /\ turn.pc = "ensure"
    /\ turn' = NoTurn
    /\ UNCHANGED <<listenVars, phase, abort, loop, queue, audio, speaking, tasks>>

\* ensure_voice_response_after_chat_turn reads tts_active, then the phase, and only
\* then takes the mutex to recover.
Ensure ==
    /\ \/ turn.pc = "ensure" /\ IF speaking THEN turn' = NoTurn ELSE Goes("phase")
       \/ /\ turn.pc = "phase"
          /\ IF phase \in {"processing", "listening"} THEN Goes("recover") ELSE turn' = NoTurn
    /\ UNCHANGED <<listenVars, phase, abort, loop, queue, audio, speaking, tasks>>

Recover ==
    /\ turn.pc = "recover"
    /\ turn' = NoTurn
    /\ Recovery(Sentence)
    /\ UNCHANGED <<listenVars, abort, queue, speaking, tasks>>

-----------------------------------------------------------------------------
\* The speech, and the tasks by which the phase follows it

\* The sender plays: a piece that finds the speech inactive starts it (handle_tts).
Plays ==
    /\ audio # <<>>
    /\ audio' = Tail(audio)
    /\ \/ /\ (Head(audio) = "start") \/ (Head(audio) = "piece" /\ ~ speaking)
          /\ speaking' = TRUE /\ tasks' = Spawn("speaking")
       \/ /\ Head(audio) = "piece" /\ speaking
          /\ UNCHANGED <<speaking, tasks>>
       \/ /\ Head(audio) = "stop"
          /\ speaking' = FALSE
          /\ tasks' = IF speaking THEN Spawn("idle") ELSE tasks
    /\ UNCHANGED <<listenVars, phase, abort, loop, queue, turn>>

\* on_tts_started
StartsSpeaking ==
    /\ tasks["speaking"] > 0
    /\ tasks' = Ran("speaking")
    /\ phase' = "speaking"
    /\ UNCHANGED <<listenVars, abort, loop, queue, turn, audio, speaking>>

\* send_tts_stop: only Speaking ends, then a deferred listen start is resumed.
EndsSpeaking ==
    /\ tasks["idle"] > 0
    /\ tasks' = [Ran("idle") EXCEPT !["resume"] = @ + 1]
    /\ phase' = IF phase = "speaking" THEN "idle" ELSE phase
    /\ UNCHANGED <<listenVars, abort, loop, queue, turn, audio, speaking>>

-----------------------------------------------------------------------------
\* What the device and the user do

\* handle_listen_start: put off while speech plays and no audio came before it;
\* otherwise it stops the speech (not the turn), clears the abort and listens.
Listen(m, heard, kept) ==
    LET sounds == speaking \/ phase = "speaking" IN
    IF m # "realtime" /\ sounds /\ ~ heard
    THEN /\ deferred' = TRUE
         /\ UNCHANGED <<phase, listenMode, realtime, abort, loop, audio, speaking>>
    ELSE /\ phase' = "listening" /\ listenMode' = m /\ loop' = TRUE /\ abort' = FALSE
         /\ deferred' = kept
         /\ realtime' = (m = "realtime" \/ (realtime /\ ~ sounds))
         /\ audio' = IF sounds THEN <<>> ELSE audio
         /\ speaking' = (speaking /\ ~ sounds)

\* Speech that a step cuts off sends its stop.
WithStop(T) == IF speaking /\ ~ speaking' THEN [T EXCEPT !["idle"] = @ + 1] ELSE T

ListenStart(m, heard) ==
    /\ budget.starts < MaxStarts
    /\ ~ (m = "realtime" /\ realtime)
    /\ Listen(m, heard, deferred)
    /\ tasks' = WithStop(tasks)
    /\ budget' = [budget EXCEPT !.starts = @ + 1]
    /\ UNCHANGED <<queue, turn, said>>

\* try_resume_pending_listen_start: takes what was put off and starts it anew.
Resume ==
    /\ tasks["resume"] > 0
    /\ IF deferred
       THEN \E heard \in BOOLEAN : Listen("auto", heard, FALSE)
       ELSE UNCHANGED <<phase, listenMode, realtime, abort, loop, deferred, audio, speaking>>
    /\ tasks' = WithStop(Ran("resume"))
    /\ UNCHANGED <<queue, turn, said, budget>>

\* on_listen_stop: a realtime listening is invalidated, another one only ends its audio.
ListenStop ==
    /\ listenMode = "realtime" /\ realtime
    /\ realtime' = FALSE /\ loop' = FALSE
    /\ UNCHANGED <<phase, listenMode, abort, deferred, queue, turn, audio, speaking, tasks, said,
                   budget>>

\* handle_abort: a realtime session goes on listening, another one falls idle.
Abort ==
    /\ budget.stops < MaxStops
    /\ abort' = TRUE
    /\ Interrupted
    /\ IF listenMode = "realtime"
       THEN UNCHANGED <<phase, loop, realtime>>
       ELSE phase' = "idle" /\ loop' = FALSE /\ realtime' = FALSE
    /\ budget' = [budget EXCEPT !.stops = @ + 1]
    /\ UNCHANGED <<listenMode, deferred, queue, turn, said>>

\* process_audio: a voice heard over the speech only sets the flag.
BargeIn ==
    /\ phase = "speaking" /\ ~ abort
    /\ budget.stops < MaxStops
    /\ abort' = TRUE
    /\ budget' = [budget EXCEPT !.stops = @ + 1]
    /\ UNCHANGED <<phase, listenMode, realtime, loop, deferred, queue, turn, audio, speaking,
                   tasks, said>>

ChatNext ==
    \/ Hears \/ Types
    \/ HearsNothing
    \/ Take \/ Prepare \/ ClearAbort \/ ToolRound \/ SpeakText
    \/ OpenStream \/ Chunk \/ CloseStream \/ Ensure \/ Recover
    \/ Plays \/ StartsSpeaking \/ EndsSpeaking
    \/ \E m \in {"auto", "realtime"}, heard \in BOOLEAN : ListenStart(m, heard)
    \/ Resume \/ ListenStop \/ Abort \/ BargeIn

ChatSpec == ChatInit /\ [][ChatNext]_chatVars

-----------------------------------------------------------------------------

\* Phases, flags, queues within their bounds, and a turn in one of its places.
ChatTypeOK ==
    /\ phase \in {"idle", "listening", "processing", "speaking"}
    /\ listenMode \in {"auto", "realtime"}
    /\ {realtime, abort, loop, deferred, speaking} \subseteq BOOLEAN
    /\ queue \in Seq(1 .. said) /\ Len(queue) <= QueueCap
    /\ turn.pc \in {"wait", "prepare", "clear", "asked", "tools", "fallback", "stream",
                    "chunks", "text", "finish", "ensure", "phase", "recover"}
    /\ \A k \in TaskKinds : tasks[k] \in Nat
    /\ said \in 0 .. MaxTexts

\* Once nothing is queued, no turn runs, and the speech and its tasks are through, the
\* session is not left in Processing, where it would hear no audio and say nothing
\* (chat_queue.rs:68, manager.rs:2297, process_audio).
NoTurnLeftProcessing ==
    (/\ turn = NoTurn /\ queue = <<>> /\ audio = <<>> /\ ~ speaking
     /\ \A k \in TaskKinds : tasks[k] = 0)
        => phase # "processing"

=============================================================================
