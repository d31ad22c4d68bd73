----------------------------- MODULE ListenFlow -----------------------------
(***************************************************************************)
(* The listening of one session: the audio of the device, the recognitions *)
(* and the loop that takes their outcomes and starts the next, the clock   *)
(* that closes a silent session, the welcome after a wake word and the     *)
(* debounced text of a detect.                                             *)
(*                                                                         *)
(* Handlers hold the session's mutex, so each is one step; the tasks       *)
(* spawned around the speech, the readers of the recognitions, the loop    *)
(* and the watchdog take it in any order.  What the model and the speech   *)
(* do inside (ChatTurn, TtsTurn), the injected speech guard and the media  *)
(* gate are left out.  A close of the session ends the behaviour           *)
(* (SessionLifecycle has what follows).                                    *)
(***************************************************************************)
EXTENDS Naturals, FiniteSets

CONSTANTS MaxSpawned,   \* bound: tasks of one kind that wait for the mutex
          MaxEmpty,     \* MAX_EMPTY_RESULT_IN_WINDOW, and its like for errors (3 in the code)
          MaxWaits,     \* INVALID_STATUS_WAIT_ROUNDS (10 in the code)
          JobCap        \* capacity of the chat text queue (10 in the code)

ASSUME ListenAssumption == {MaxSpawned, MaxEmpty, MaxWaits, JobCap} \subseteq Nat \ {0}

VARIABLES
    state,    \* ClientState: listen_phase, listen_mode, welcome_playing, welcome_speaking, the
              \* audio idle window; and the session's pending_listen_start_mode
    pipe,     \* AsrPipeline: a turn has its audio open, client_voice_stop, received_text_in_turn
    live,     \* realtime_listen_active
    ear,      \* the recognition loop: whether its listen_start_seq is still the current one,
              \* and what the recognition it waits for gave so far
    stale,    \* a replaced recognition, whose reader has seen no text so far, goes on
    out,      \* the speech, the tasks it spawned, the chat queue and its worker
    prior,    \* a detect that waits for its debounce; pre_listen_pcm is not empty
    watchdog, \* about to look, about to act, or the session closed
    odd       \* what went wrong so far, by name

listenFlowVars == <<state, pipe, live, ear, stale, out, prior, watchdog, odd>>

TaskNames == {"speaking", "idle", "window", "resume"}
NoLoop == [pc |-> "off", current |-> FALSE, rec |-> "none", empty |-> 0, waits |-> 0]

ListenFlowInit ==
    /\ state = [phase |-> "idle", mode |-> "auto", playing |-> FALSE, spoken |-> FALSE,
                clock |-> "off", pending |-> FALSE, later |-> "none"]
    /\ pipe = [open |-> FALSE, stop |-> FALSE, marked |-> FALSE]
    /\ live = FALSE
    /\ ear = NoLoop /\ stale = FALSE
    /\ out = [speech |-> "none", tasks |-> [k \in TaskNames |-> 0], queued |-> 0, busy |-> FALSE]
    /\ prior = [detect |-> FALSE, pre |-> FALSE]
    /\ watchdog = "looks" /\ odd = {}

Sounds == out.speech \in {"plays", "cut"}          \* tts_active
Output == Sounds \/ state.phase = "speaking"       \* tts_active || speaking
Plus(o, k) == [o EXCEPT !.tasks[k] = @ + 1]
Room == out.tasks["speaking"] < MaxSpawned /\ \A k \in {"idle", "window", "resume"} : out.tasks[k] = 0
Odd(what) == odd' = odd \cup {what}

-----------------------------------------------------------------------------
\* What the handlers are made of

Silenced(p) == [p EXCEPT !.open = FALSE, !.stop = TRUE]              \* on_voice_silence
Paused(s) == IF s.clock = "runs" THEN [s EXCEPT !.clock = "paused"] ELSE s
Resumed(s) == IF s.clock = "paused" THEN [s EXCEPT !.clock = "runs"] ELSE s
Window(s) == [s EXCEPT !.clock = "runs", !.pending = FALSE]

\* A recognition that lost its loop goes on; its reader will find another turn's mark.
Left == ear.rec = "open" \/ stale

\* interrupt_and_stop_sync: the stop reaches the device if the speech had started.
FlowInterrupted(o) ==
    LET w == Plus(o, "window") IN
    [IF Sounds THEN Plus(w, "idle") ELSE w EXCEPT !.speech = "none"]

\* Speech that did not start gives the device no stop, and what waited for it is not resumed.
CutShort == IF out.speech = "due" /\ state.later # "none" THEN Odd("cut short") ELSE odd' = odd

\* stop_speaking_with_reason, with cancel_session: invalidate_listen_start and abort_loop.
Stopped(s, o) ==
    /\ Room
    /\ out' = o
    /\ state' = s
    /\ pipe' = Silenced(pipe)
    /\ live' = FALSE
    /\ ear' = NoLoop /\ stale' = Left

\* empty_listen_recovery_session: abort_loop, and a hint is spoken.  The loop that calls it
\* aborts itself, before the stop of its hint is queued.
Recovery(cut) ==
    /\ state' = [state EXCEPT !.phase = "idle"]
    /\ pipe' = [pipe EXCEPT !.open = FALSE]
    /\ ear' = NoLoop /\ stale' = Left
    /\ out' = [out EXCEPT !.speech = IF cut THEN "cut" ELSE IF @ = "none" THEN "due" ELSE @,
                          !.busy = FALSE]
    /\ IF live THEN Odd("gave up") ELSE odd' = odd   \* the next realtime start will be ignored

\* A variant: the mark of the recognition before is kept.
RestartedMarked == [open |-> TRUE, stop |-> FALSE, marked |-> pipe.marked]

\* restart_asr_recognition: the recognition before it loses its audio, not its reader.
Restarted == [open |-> TRUE, stop |-> FALSE, marked |-> FALSE]
Closes == watchdog' = "closed"

-----------------------------------------------------------------------------
\* What the device sends

\* handle_audio: a frame of an idle session is kept for a later listen start.
Audio ==
    /\ state.phase = "idle" /\ ~ prior.pre
    /\ prior' = [prior EXCEPT !.pre = TRUE]
    /\ UNCHANGED <<state, pipe, live, ear, stale, out, watchdog, odd>>

\* process_pcm_frame: silence after a voice closes the recognition's audio.
Silence ==
    /\ state.phase = "listening" /\ pipe.open
    /\ pipe' = Silenced(pipe)
    /\ UNCHANGED <<state, live, ear, stale, out, prior, watchdog, odd>>

FlowDrained == [detect |-> FALSE, pre |-> FALSE]

\* handle_listen_start.  beaten: a realtime listen stop invalidated the start while its
\* recognition was connecting.
Listens(m, o, later, beaten) ==
    LET stopped == Output /\ ~ (m = "realtime" /\ state.playing)
        s == [state EXCEPT !.mode = m, !.later = later, !.playing = @ /\ ~ stopped,
                           !.phase = IF stopped /\ m # "realtime" THEN "idle" ELSE @]
        on == [s EXCEPT !.phase = "listening"]
    IN
    /\ Room
    /\ out' = IF stopped THEN FlowInterrupted(o) ELSE o
    /\ stale' = Left
    /\ IF beaten
       THEN /\ state' = [s EXCEPT !.phase = IF stopped THEN "idle" ELSE @]
            /\ live' = FALSE
            /\ pipe' = [Restarted EXCEPT !.open = FALSE]
            /\ ear' = NoLoop
       ELSE /\ state' = IF state.phase # "listening" \/ stopped THEN Window(on) ELSE on
            /\ live' = (m = "realtime" \/ (live /\ ~ stopped))
            /\ pipe' = Restarted
            /\ ear' = [NoLoop EXCEPT !.pc = "await", !.current = TRUE, !.rec = "open"]
    /\ prior' = FlowDrained
    \* A listening goes on as another with its clock paused, or as one that is not realtime.
    /\ IF \/ state'.phase = "listening" /\ state'.clock # "runs"
          \/ live' /\ m # "realtime"
       THEN Odd("goes on") ELSE odd' = odd
    /\ UNCHANGED watchdog

\* Starts that are put off or ignored: the buffered audio is gone all the same.
NotNow(m) == m # "realtime" /\ (state.playing \/ (Output /\ ~ prior.pre))
Ignored(m) == NotNow(m) \/ (m = "realtime" /\ live)

ListenStart(m) ==
    IF Ignored(m)
    THEN /\ state' = IF NotNow(m) /\ ~ state.playing THEN [state EXCEPT !.later = m] ELSE state
         /\ prior' = FlowDrained
         /\ UNCHANGED <<pipe, live, ear, stale, out, watchdog, odd>>
    ELSE \E beaten \in {FALSE, m = "realtime"} : Listens(m, out, state.later, beaten)

\* The recognition cannot be opened: the session is closed for a fatal error.
ListenFails ==
    /\ ~ Ignored("auto")
    /\ Closes
    /\ UNCHANGED <<state, pipe, live, ear, stale, out, prior, odd>>

\* on_listen_stop: a realtime listening is invalidated first.
ListenStop ==
    /\ IF state.mode = "realtime"
       THEN live' = FALSE /\ ear' = [ear EXCEPT !.current = FALSE]
       ELSE UNCHANGED <<live, ear>>
    /\ pipe' = Silenced(pipe)
    /\ UNCHANGED <<state, stale, out, prior, watchdog, odd>>

\* handle_abort: a device may not abort its welcome; a realtime session goes on listening.
Aborts(explicit) ==
    /\ prior' = [prior EXCEPT !.detect = FALSE]
    /\ IF state.playing /\ ~ explicit THEN UNCHANGED <<state, pipe, live, ear, stale, out>>
       ELSE IF state.mode # "realtime"
       THEN Stopped([state EXCEPT !.playing = FALSE, !.phase = "idle"], FlowInterrupted(out))
       ELSE /\ Room
            /\ out' = FlowInterrupted(out)
            /\ state' = [state EXCEPT !.playing = FALSE]
            /\ UNCHANGED <<pipe, live, ear, stale>>
    /\ IF state.playing /\ ~ explicit THEN odd' = odd ELSE CutShort
    /\ UNCHANGED watchdog

\* resolve_detect_action for a wake word: greet once, then stay silent while auto listening goes on.
Action(wake) ==
    IF state.playing THEN "silent"
    ELSE IF ~ wake THEN "llm"
    ELSE IF ~ state.spoken THEN "welcome"
    ELSE IF state.mode = "auto" /\ state.phase \in {"listening", "processing"} THEN "silent"
    ELSE "llm"

\* handle_welcome: a task gives the greeting to the sender.
Welcome(s) == [s EXCEPT !.playing = TRUE, !.spoken = TRUE]
Greeted(o) == IF o.speech = "none" THEN [o EXCEPT !.speech = "due"] ELSE o

\* handle_listen_detect: a detect that says something stops what is said.
Detects(wake) ==
    LET a == Action(wake)
        S(s) == IF a = "welcome" THEN Welcome(s) ELSE s
        O(o) == IF a = "welcome" THEN Greeted(o) ELSE o
    IN
    /\ prior' = [prior EXCEPT !.detect = a = "llm"]
    /\ IF a # "silent" /\ Output
       THEN Stopped(S([state EXCEPT !.playing = FALSE, !.phase = "idle"]), O(FlowInterrupted(out)))
       ELSE state' = S(state) /\ out' = O(out) /\ UNCHANGED <<pipe, live, ear, stale>>
    /\ IF a # "silent" /\ Output THEN CutShort ELSE odd' = odd
    /\ UNCHANGED watchdog

-----------------------------------------------------------------------------
\* Texts

\* try_enqueue: a full queue drops the text.
Enqueued(o) == [o EXCEPT !.queued = IF @ < JobCap THEN @ + 1 ELSE @]
Drops == out.queued = JobCap

\* schedule_detect_llm after its debounce.
Debounced ==
    /\ prior.detect
    /\ prior' = [prior EXCEPT !.detect = FALSE]
    /\ out' = IF state.phase = "speaking" THEN out ELSE Enqueued(out)
    /\ UNCHANGED <<state, pipe, live, ear, stale, watchdog, odd>>

\* process_chat_job takes a text.
Job ==
    /\ out.queued > 0 /\ ~ out.busy
    /\ out' = [out EXCEPT !.queued = @ - 1, !.busy = TRUE]
    /\ state' = IF state.phase = "listening" /\ state.mode # "realtime"
                THEN [state EXCEPT !.phase = "processing"] ELSE state
    /\ UNCHANGED <<pipe, live, ear, stale, prior, watchdog, odd>>

\* It gives an answer to the speech, or a hint in its stead.
Answer ==
    /\ out.busy
    /\ \/ /\ out' = [out EXCEPT !.busy = FALSE, !.speech = IF @ = "none" THEN "due" ELSE @]
          /\ UNCHANGED <<state, pipe, ear, stale, odd>>
       \/ ~ Sounds /\ Recovery(FALSE)
    /\ UNCHANGED <<live, prior, watchdog>>

-----------------------------------------------------------------------------
\* The speech and the tasks it spawns

Speaks ==
    /\ out.speech = "due" /\ Room
    /\ out' = [Plus(out, "speaking") EXCEPT !.speech = "plays"]
    /\ UNCHANGED <<state, pipe, live, ear, stale, prior, watchdog, odd>>

SpeechEnds ==
    /\ out.speech = "plays" /\ Room
    /\ out' = FlowInterrupted(out)
    /\ UNCHANGED <<state, pipe, live, ear, stale, prior, watchdog, odd>>

Runs(k) == out.tasks[k] > 0 /\ watchdog' = watchdog

\* on_tts_started
TaskSpeaking ==
    /\ Runs("speaking")
    /\ out' = [out EXCEPT !.tasks["speaking"] = @ - 1]
    /\ state' = Paused([state EXCEPT !.phase = "speaking"])
    /\ IF Sounds THEN odd' = odd ELSE Odd("speaks late")
    /\ UNCHANGED <<pipe, live, ear, stale, prior>>

\* send_tts_stop
TaskIdle ==
    /\ Runs("idle")
    /\ out.tasks["resume"] < MaxSpawned
    /\ out' = [Plus(out, "resume") EXCEPT !.tasks["idle"] = @ - 1]
    /\ state' = [state EXCEPT !.playing = FALSE,
                              !.phase = IF @ = "speaking" THEN "idle" ELSE @]
    /\ UNCHANGED <<pipe, live, ear, stale, prior, odd>>

\* try_start_audio_idle_window
TaskWindow ==
    /\ Runs("window")
    /\ out' = [out EXCEPT !.tasks["window"] = @ - 1]
    /\ state' = Window(state)
    /\ pipe' = [pipe EXCEPT !.stop = FALSE]
    /\ UNCHANGED <<live, ear, stale, prior, odd>>

\* try_resume_pending_listen_start: what was put off is taken, and started anew.
TaskResume ==
    LET o == [out EXCEPT !.tasks["resume"] = @ - 1] IN
    /\ Runs("resume")
    /\ IF state.playing \/ state.later = "none"
       THEN out' = o /\ UNCHANGED <<state, pipe, live, ear, stale, prior, odd>>
       ELSE IF Ignored(state.later)
       THEN /\ out' = o /\ prior' = FlowDrained
            /\ UNCHANGED <<state, pipe, live, ear, stale, odd>>
       ELSE Listens(state.later, o, "none", FALSE)

-----------------------------------------------------------------------------
\* The recognitions

\* The reader of the recognition marks the first text it sees.
FirstText ==
    /\ ear.rec = "open"
    /\ ear' = [ear EXCEPT !.rec = "heard"]
    /\ pipe' = [pipe EXCEPT !.marked = TRUE]
    /\ state' = Paused([state EXCEPT !.pending = FALSE])
    /\ UNCHANGED <<live, stale, out, prior, watchdog, odd>>

\* The reader of one that was replaced marks it in the turn that replaced it.
LateText ==
    /\ stale /\ stale' = FALSE
    /\ pipe' = [pipe EXCEPT !.marked = TRUE]
    /\ state' = Paused([state EXCEPT !.pending = FALSE])
    /\ Odd("heard late")
    /\ UNCHANGED <<live, ear, out, prior, watchdog>>

\* A recognition ends with what it heard, with nothing, or with an error.
RecEnds(how) ==
    /\ IF how = "text" THEN ear.rec = "heard"
       ELSE IF how = "error" THEN ear.rec \in {"open", "heard"} ELSE ear.rec = "open"
    /\ ear' = [ear EXCEPT !.rec = how]
    /\ UNCHANGED <<state, pipe, live, stale, out, prior, watchdog, odd>>

\* The reader of a replaced one ends without a text.
StaleEnds ==
    /\ stale /\ stale' = FALSE
    /\ UNCHANGED <<state, pipe, live, ear, out, prior, watchdog, odd>>

Ended == {"text", "empty", "error"}
LoopGot(how) == ear.pc = "await" /\ ear.rec \in how /\ ear.current /\ ~ state.pending
Leaves == ear' = NoLoop /\ UNCHANGED stale

\* The loop whose listen start is over gives up.
LoopOver ==
    /\ ear.pc = "await" /\ ear.rec \in Ended /\ ~ ear.current
    /\ Leaves
    /\ UNCHANGED <<state, pipe, live, out, prior, watchdog, odd>>

\* A pending idle timeout waited for this outcome.
LoopCloses ==
    /\ ear.pc = "await" /\ ear.rec \in Ended /\ ear.current /\ state.pending
    /\ Closes
    /\ UNCHANGED <<state, pipe, live, ear, stale, out, prior, odd>>

\* A text is queued; only a realtime loop goes on.
LoopText ==
    /\ LoopGot({"text"})
    /\ out' = Enqueued(out)
    /\ IF Drops THEN Odd("dropped") ELSE odd' = odd
    /\ IF state.mode = "realtime"
       THEN ear' = [ear EXCEPT !.pc = "top", !.empty = 0, !.waits = 0] /\ UNCHANGED stale
       ELSE Leaves
    /\ UNCHANGED <<state, pipe, live, prior, watchdog>>

\* is_allowed_asr_restart
Allowed == IF state.mode = "realtime" THEN state.phase # "idle" ELSE state.phase = "listening"

\* dispatch_asr_empty_result: not over a welcome, where the loop just ends.
GivesUp ==
    IF state.playing THEN Leaves /\ UNCHANGED <<state, pipe, out, odd>> ELSE Recovery(TRUE)

Again(e, w) == ear' = [ear EXCEPT !.pc = "top", !.empty = e, !.waits = w] /\ UNCHANGED stale

\* An empty outcome, or a recoverable error: again, unless there were too many (in a window of
\* time that may be over), the loop idled for long, or it may not listen now.
LoopEmpty ==
    /\ LoopGot({"empty", "error"})
    /\ \/ /\ state.playing /\ Again(ear.empty, 0)
          /\ UNCHANGED <<state, pipe, out, odd>>
       \/ /\ ~ state.playing
          /\ \E n \in {ear.empty + 1, 1} :
             \/ n >= MaxEmpty /\ GivesUp
             \/ /\ n < MaxEmpty /\ Allowed
                /\ Again(n, 0)
                /\ pipe' = [pipe EXCEPT !.stop = FALSE]
                /\ state' = Resumed(state)
                /\ UNCHANGED <<out, odd>>
             \/ /\ n < MaxEmpty /\ ~ Allowed /\ ear.waits + 1 < MaxWaits
                /\ Again(n, ear.waits + 1)
                /\ UNCHANGED <<state, pipe, out, odd>>
             \/ n < MaxEmpty /\ ~ Allowed /\ ear.waits + 1 >= MaxWaits /\ GivesUp
    /\ UNCHANGED <<live, prior, watchdog>>

\* Idle for too long (an empty outcome), or an error nothing recovers from.
LoopGivesUp ==
    /\ ~ state.playing
    /\ \/ LoopGot({"empty"}) /\ GivesUp /\ UNCHANGED watchdog
       \/ LoopGot({"error"}) /\ Closes /\ UNCHANGED <<state, pipe, ear, stale, out, odd>>
    /\ UNCHANGED <<live, prior>>

\* The top of the loop looks at the start, and only then waits for the mutex.
LoopTop ==
    /\ ear.pc = "top"
    /\ IF ear.current THEN ear' = [ear EXCEPT !.pc = "lock"] /\ UNCHANGED stale ELSE Leaves
    /\ UNCHANGED <<state, pipe, live, out, prior, watchdog, odd>>

\* The next recognition; if it cannot be opened, the loop ends and nobody is told.
LoopRestart ==
    /\ ear.pc = "lock"
    /\ \/ /\ pipe' = Restarted
          /\ ear' = [ear EXCEPT !.pc = "await", !.rec = "open"]
          /\ UNCHANGED <<stale, odd>>
       \/ /\ pipe' = [Restarted EXCEPT !.open = FALSE]
          /\ Leaves /\ Odd("no recognition")
    /\ UNCHANGED <<state, live, out, prior, watchdog>>

-----------------------------------------------------------------------------
\* The watchdog of silent sessions

\* should_count_audio_idle_timeout_for
Counts == /\ ~ Output /\ ~ state.playing /\ ~ state.spoken
          /\ state.phase # "processing"

WatchLooks ==
    /\ watchdog = "looks"
    /\ \/ state.pending /\ Closes /\ UNCHANGED state          \* pending for too long
       \/ /\ ~ state.pending /\ state.clock = "runs" /\ Counts
          /\ ~ pipe.marked /\ ~ pipe.stop
          /\ state' = [state EXCEPT !.pending = TRUE]
          /\ watchdog' = "acts"
    /\ UNCHANGED <<pipe, live, ear, stale, out, prior, odd>>

\* trigger_audio_idle_timeout
WatchActs ==
    /\ watchdog = "acts"
    /\ IF Output \/ state.playing \/ state.spoken \/ state.phase = "processing"
       THEN /\ state' = [state EXCEPT !.pending = FALSE]
            /\ watchdog' = "looks" /\ UNCHANGED pipe
       ELSE /\ state' = state
            /\ IF state.pending \/ ~ pipe.open THEN Closes /\ UNCHANGED pipe
               ELSE pipe' = Silenced(pipe) /\ watchdog' = "looks"
    /\ UNCHANGED <<live, ear, stale, out, prior, odd>>

ListenFlowNext ==
    /\ watchdog # "closed"
    /\ \/ Audio \/ Silence
       \/ \E m \in {"auto", "realtime"} : ListenStart(m)
       \/ ListenFails \/ ListenStop
       \/ \E b \in BOOLEAN : Aborts(b) \/ Detects(b)
       \/ Debounced \/ Job \/ Answer
       \/ Speaks \/ SpeechEnds
       \/ TaskSpeaking \/ TaskIdle \/ TaskWindow \/ TaskResume
       \/ FirstText \/ LateText \/ StaleEnds
       \/ \E how \in Ended : RecEnds(how)
       \/ LoopOver \/ LoopCloses \/ LoopText \/ LoopEmpty \/ LoopGivesUp
       \/ LoopTop \/ LoopRestart
       \/ WatchLooks \/ WatchActs

ListenFlowSpec == ListenFlowInit /\ [][ListenFlowNext]_listenFlowVars

-----------------------------------------------------------------------------

ListenFlowTypeOK ==
    /\ state.phase \in {"idle", "listening", "processing", "speaking"}
    /\ state.mode \in {"auto", "realtime"}
    /\ state.clock \in {"off", "runs", "paused"}
    /\ state.later \in {"none", "auto"}
    /\ {state.playing, state.spoken, state.pending, pipe.open, pipe.stop, pipe.marked, live, stale,
        ear.current, out.busy, prior.detect, prior.pre} \subseteq BOOLEAN
    /\ ear.pc \in {"off", "await", "top", "lock"}
    /\ ear.rec \in {"none", "open", "heard"} \cup Ended
    /\ ear.empty < MaxEmpty /\ ear.waits < MaxWaits
    /\ out.speech \in {"none", "due", "plays", "cut"} /\ out.queued \in 0 .. JobCap
    /\ \A k \in TaskNames : out.tasks[k] \in 0 .. MaxSpawned

\* Nothing is said, and nothing that was said is still on its way.
Still == /\ out.speech = "none" /\ out.queued = 0 /\ ~ out.busy
         /\ \A k \in TaskNames : out.tasks[k] = 0

\* A session that listens on its own is heard: its audio is open, or the loop has an outcome to
\* take and starts the next recognition (asr_manager.rs:308-552).
ListensToSomething ==
    (Still /\ state.phase = "listening" /\ state.mode = "auto" /\ watchdog # "closed")
        => ear.pc # "off"

\* A realtime listening that is held active, so that another start is ignored, has its loop
\* (session.rs:280-287, session.rs:1397-1404).
HeldIsHeard == (Still /\ live /\ watchdog # "closed") => ear.pc # "off"

\* While the recognition that listens has given no text, the silence is timed, unless the
\* session greeted before (session_lifecycle.rs:344) or was told to stop.
SilenceIsTimed ==
    (/\ Still /\ state.phase = "listening" /\ ~ state.spoken /\ watchdog # "closed"
     /\ ear.pc = "await" /\ ear.rec = "open" /\ ~ pipe.stop)
        => state.clock = "runs" /\ ~ pipe.marked /\ Counts

\* A listen start that was put off is not forgotten, and a welcome ends
\* (session.rs:239-279, tts_manager.rs:811).
PutOffIsResumed == Still => state.later = "none" /\ ~ state.playing

ListenIsWhole == odd = {} => ListensToSomething /\ HeldIsHeard /\ SilenceIsTimed /\ PutOffIsResumed

=============================================================================
