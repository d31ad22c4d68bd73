----------------------------- MODULE SpeakPath -----------------------------
(***************************************************************************)
(* Injected speech on an MQTT device: before the server speaks unasked, it *)
(* sends speak_request and waits for the device's speak_ready; calls made  *)
(* meanwhile join the pending request.  A request ends in one place,       *)
(* finish_pending_speak_request: it empties the slot, writes the error and *)
(* wakes the waiting callers, each under a lock of its own, so that the    *)
(* answer, a time-out and a session reset may each be half way through.    *)
(*                                                                         *)
(* A request is named by the call that created it.  The window in which a  *)
(* warm path is reused is a choice; so is whether a session id matches.    *)
(***************************************************************************)
EXTENDS FiniteSets

CONSTANTS Speakers,   \* calls of inject_message
          NoSpeaker,  \* none
          Chatty,     \* the calls with auto_listen
          Readies,    \* speak_ready messages of the device
          Resets      \* goodbyes, session closes and MQTT reconnects

ASSUME SpeakAssumption ==
    /\ Chatty \subseteq Speakers /\ NoSpeaker \notin Speakers
    /\ Speakers \cap Readies = {} /\ Speakers \cap Resets = {} /\ Readies \cap Resets = {}

VARIABLES
    speaker,     \* where each call stands
    request,     \* the request it waits for, or NoSpeaker
    pendingRequest,     \* pending_speak_request
    failed,      \* requests whose error is written
    answered,    \* requests a speak_ready was handled for
    finishing,   \* the runs of finish_pending_speak_request: [at, of]
    readyMsg,    \* what became of each speak_ready
    resetTask,   \* where each reset stands
    path         \* [session, fresh, active, warm, stale, guard]: session is there,
                 \* needs hello, converses; path warm, marked for rebuild, guarded

speakVars == <<speaker, request, pendingRequest, failed, answered, finishing, readyMsg,
               resetTask, path>>

Finishers == Speakers \cup Readies \cup Resets

SpeakInit ==
    /\ speaker = [s \in Speakers |-> "idle"] /\ request = [s \in Speakers |-> NoSpeaker]
    /\ pendingRequest = NoSpeaker /\ failed = {} /\ answered = {}
    /\ finishing = [f \in Finishers |-> [at |-> "no", of |-> NoSpeaker]]
    /\ readyMsg = [d \in Readies |-> "sent"] /\ resetTask = [e \in Resets |-> "idle"]
    /\ \E s \in BOOLEAN : path = [session |-> s, fresh |-> ~s, active |-> FALSE,
                                  warm |-> FALSE, stale |-> FALSE, guard |-> FALSE]

-----------------------------------------------------------------------------
(* finish_pending_speak_request                                            *)

Finishes(f, r) == finishing' = [finishing EXCEPT ![f] = [at |-> "slot", of |-> r]]

\* A variant: the slot is emptied whatever it holds.
EmptySlot(r) == NoSpeaker

\* The slot is emptied only if it still holds this request.
Emptied(r) == IF pendingRequest = r THEN NoSpeaker ELSE pendingRequest

FinishSlot(f) ==
    /\ finishing[f].at = "slot"
    /\ pendingRequest' = Emptied(finishing[f].of)
    /\ finishing' = [finishing EXCEPT ![f].at = IF f \in Readies THEN "notify" ELSE "mark"]
    /\ UNCHANGED <<speaker, request, failed, answered, readyMsg, resetTask, path>>

\* A variant: the callers are woken before the error is there.
NoMark(f) == failed

Marked(f) == failed \cup {finishing[f].of}

FinishMark(f) ==
    /\ finishing[f].at = "mark"
    /\ failed' = Marked(f)
    /\ finishing' = [finishing EXCEPT ![f].at = "notify"]
    /\ UNCHANGED <<speaker, request, pendingRequest, answered, readyMsg, resetTask, path>>

\* notify_waiters wakes those waiting now.  A call that gave up or could not send fails.
FinishNotify(f) ==
    /\ finishing[f].at = "notify"
    /\ speaker' = [s \in Speakers |->
           IF s = f /\ speaker[s] = "finish" THEN "failed"
           ELSE IF speaker[s] = "wait" /\ request[s] = finishing[f].of THEN "woken"
           ELSE speaker[s]]
    /\ finishing' = [finishing EXCEPT ![f].at = "done"]
    /\ UNCHANGED <<request, pendingRequest, failed, answered, readyMsg, resetTask, path>>

-----------------------------------------------------------------------------
(* inject_message: prepare_speak_path_for_injected_speech and the speech   *)

SpeakStays == UNCHANGED <<failed, answered, readyMsg, resetTask>>

Step(s, at) == speaker' = [speaker EXCEPT ![s] = at]

\* requires_hello_bootstrap_for_session
NeedsHello == ~ path.session /\ path.fresh

\* should_send_speak_request; a warm path may have outlived its window.
SpeakBegin(s) ==
    /\ speaker[s] = "idle"
    /\ \/ /\ NeedsHello \/ path.stale \/ ~ path.active
          /\ Step(s, "take")
       \/ /\ ~ NeedsHello /\ ~ path.stale /\ (path.active \/ path.warm)
          /\ Step(s, "ready")
    /\ UNCHANGED <<request, pendingRequest, finishing, path>> /\ SpeakStays

\* get_or_create_pending_speak_request
SpeakTake(s) ==
    /\ speaker[s] = "take"
    /\ request' = [request EXCEPT ![s] = IF pendingRequest = NoSpeaker THEN s ELSE pendingRequest]
    /\ pendingRequest' = IF pendingRequest = NoSpeaker THEN s ELSE pendingRequest
    /\ Step(s, IF pendingRequest = NoSpeaker THEN "send" ELSE "select")
    /\ UNCHANGED <<finishing, path>> /\ SpeakStays

SpeakSend(s) ==
    /\ speaker[s] = "send"
    /\ \/ Step(s, "select") /\ UNCHANGED finishing
       \/ Step(s, "finish") /\ Finishes(s, request[s])
    /\ UNCHANGED <<request, pendingRequest, path>> /\ SpeakStays

\* The call waits from here: a notify_waiters before this step is lost on it.
SpeakSelect(s) ==
    /\ speaker[s] = "select"
    /\ Step(s, "wait")
    /\ UNCHANGED <<request, pendingRequest, finishing, path>> /\ SpeakStays

\* A variant: only the call that made the request watches the clock.
OwnTimeout(s) ==
    /\ speaker[s] = "wait" /\ request[s] = s
    /\ Step(s, "finish") /\ Finishes(s, request[s])
    /\ UNCHANGED <<request, pendingRequest, path>> /\ SpeakStays

SpeakTimeout(s) ==
    /\ speaker[s] = "wait"
    /\ Step(s, "finish") /\ Finishes(s, request[s])
    /\ UNCHANGED <<request, pendingRequest, path>> /\ SpeakStays

SpeakWoken(s) ==
    /\ speaker[s] = "woken"
    /\ Step(s, IF request[s] \in failed THEN "failed"
               ELSE IF NeedsHello THEN "session" ELSE "ready")
    /\ UNCHANGED <<request, pendingRequest, finishing, path>> /\ SpeakStays

\* wait_for_injected_speech_session polls until its deadline.
SpeakSession(s) ==
    /\ speaker[s] = "session"
    /\ \/ path.session /\ Step(s, "ready")
       \/ ~ path.session /\ Step(s, "failed")
    /\ UNCHANGED <<request, pendingRequest, finishing, path>> /\ SpeakStays

\* begin_injected_speech_guard
SpeakGuard(s) ==
    /\ speaker[s] = "ready"
    /\ path' = [path EXCEPT !.guard = @ \/ s \notin Chatty]
    /\ Step(s, "queue")
    /\ UNCHANGED <<request, pendingRequest, finishing>> /\ SpeakStays

\* add_text_to_tts_queue_with_on_start; without a session there is no LLM manager and
\* the call returns with the guard set.
SpeakQueue(s) ==
    /\ speaker[s] = "queue"
    /\ \/ /\ path.session
          /\ path' = [path EXCEPT !.active = TRUE, !.warm = TRUE] /\ Step(s, "speak")
       \/ ~ path.session /\ Step(s, "failed") /\ UNCHANGED path
    /\ UNCHANGED <<request, pendingRequest, finishing>> /\ SpeakStays

\* Cold, and what is pending is taken to be failed (reset_speak_path_after_session_reset).
TakePending(f) ==
    /\ pendingRequest' = NoSpeaker
    /\ IF pendingRequest = NoSpeaker THEN UNCHANGED finishing ELSE Finishes(f, pendingRequest)

\* The turn ends, handle_tts_turn_end_policy.  After a speech that is not followed by
\* listening the session is closed, unless the turn was interrupted: then the policy is
\* dropped and the guard stays.
SpeechEnds(s) ==
    /\ speaker[s] = "speak"
    /\ path' = [path EXCEPT !.active = FALSE]
    /\ \/ Step(s, "done")
       \/ s \notin Chatty /\ Step(s, "goodbye")
    /\ UNCHANGED <<request, pendingRequest, finishing>> /\ SpeakStays

SpeakGoodbye(s) ==
    /\ speaker[s] = "goodbye" /\ Step(s, "done")
    /\ path' = [path EXCEPT !.active = FALSE, !.session = FALSE, !.fresh = TRUE,
                            !.guard = FALSE, !.warm = FALSE]
    /\ TakePending(s)
    /\ UNCHANGED request /\ SpeakStays

-----------------------------------------------------------------------------
(* The device                                                              *)

\* handle_speak_ready_message: it is for another session or not ready; nothing is
\* pending; or it finishes what is pending.
SpeakReady(d) ==
    /\ readyMsg[d] = "sent"
    /\ readyMsg' = [readyMsg EXCEPT ![d] = "handled"]
    /\ \/ UNCHANGED <<answered, path, finishing>>
       \/ /\ pendingRequest # NoSpeaker
          /\ answered' = answered \cup {pendingRequest}
          /\ path' = [path EXCEPT !.warm = TRUE, !.stale = FALSE]
          /\ Finishes(d, pendingRequest)
    /\ UNCHANGED <<speaker, request, pendingRequest, failed, resetTask>>

\* A hello builds the session (on_hardware_hello_received, init_session).
SpeakHello ==
    /\ ~ path.session
    /\ path' = [path EXCEPT !.session = TRUE, !.fresh = FALSE, !.stale = FALSE]
    /\ UNCHANGED <<speaker, request, pendingRequest, failed, answered, finishing, readyMsg, resetTask>>

ResetStep(e, at) == resetTask' = [resetTask EXCEPT ![e] = at]

\* A close: the session goes, its guard with it; the rest follows in the background.
SessionCloses(e) ==
    /\ resetTask[e] = "idle" /\ ResetStep(e, "closed")
    /\ path' = [path EXCEPT !.session = FALSE, !.active = FALSE, !.guard = FALSE]
    /\ UNCHANGED <<speaker, request, pendingRequest, failed, answered, finishing, readyMsg>>

\* handle_device_goodbye: the session is kept, silent.
PeerGoodbye(e) ==
    /\ resetTask[e] = "idle" /\ ResetStep(e, "stale")
    /\ path' = [path EXCEPT !.active = FALSE]
    /\ UNCHANGED <<speaker, request, pendingRequest, failed, answered, finishing, readyMsg>>

\* handle_mqtt_transport_ready, should_protect_active_speak_flow.
SpeakTransportReady(e) ==
    /\ resetTask[e] = "idle"
    /\ ~ path.guard /\ pendingRequest = NoSpeaker /\ ~ path.active
    /\ ResetStep(e, "checked")
    /\ UNCHANGED <<speaker, request, pendingRequest, failed, answered, finishing, readyMsg, path>>

\* mark_mqtt_conversation_state_stale: only the first mark resets the session.
TransportStale(e) ==
    /\ resetTask[e] = "checked"
    /\ ResetStep(e, IF path.stale THEN "done" ELSE "stale")
    /\ path' = [path EXCEPT !.stale = TRUE, !.active = @ /\ path.stale]
    /\ UNCHANGED <<speaker, request, pendingRequest, failed, answered, finishing, readyMsg>>

\* reset_speak_path_after_session_reset, after a close with mark_need_fresh_hello.
ResetTakes(e) ==
    /\ resetTask[e] \in {"closed", "stale"} /\ ResetStep(e, "done")
    /\ path' = [path EXCEPT !.warm = FALSE, !.fresh = @ \/ resetTask[e] = "closed"]
    /\ TakePending(e)
    /\ UNCHANGED <<speaker, request, failed, answered, readyMsg>>

-----------------------------------------------------------------------------

SpeakProgress(s) ==
    \/ SpeakBegin(s) \/ SpeakTake(s) \/ SpeakSend(s) \/ SpeakSelect(s) \/ SpeakTimeout(s)
    \/ SpeakWoken(s) \/ SpeakSession(s) \/ SpeakGuard(s) \/ SpeakQueue(s)
    \/ SpeechEnds(s) \/ SpeakGoodbye(s)

FinishStep(f) == FinishSlot(f) \/ FinishMark(f) \/ FinishNotify(f)

SpeakNext ==
    \/ \E s \in Speakers : SpeakProgress(s)
    \/ \E f \in Finishers : FinishStep(f)
    \/ \E d \in Readies : SpeakReady(d)
    \/ \E e \in Resets : 
           SessionCloses(e) \/ PeerGoodbye(e) \/ SpeakTransportReady(e) \/ TransportStale(e) \/ ResetTakes(e)
    \/ SpeakHello

SpeakSpec ==
    /\ SpeakInit /\ [][SpeakNext]_speakVars
    /\ \A s \in Speakers : WF_speakVars(SpeakProgress(s))
    /\ \A f \in Finishers : WF_speakVars(FinishStep(f))

-----------------------------------------------------------------------------

SpeakTypeOK ==
    /\ speaker \in [Speakers -> {"idle", "take", "send", "select", "wait", "finish", "woken",
                                 "session", "ready", "queue", "speak", "goodbye", "done", "failed"}]
    /\ request \in [Speakers -> Speakers \cup {NoSpeaker}]
    /\ pendingRequest \in Speakers \cup {NoSpeaker}
    /\ failed \subseteq Speakers /\ answered \subseteq Speakers
    /\ finishing \in [Finishers -> [at : {"no", "slot", "mark", "notify", "done"},
                                    of : Speakers \cup {NoSpeaker}]]
    /\ readyMsg \in [Readies -> {"sent", "handled"}]
    /\ resetTask \in [Resets -> {"idle", "closed", "checked", "stale", "done"}]
    /\ path \in [session : BOOLEAN, fresh : BOOLEAN, active : BOOLEAN, warm : BOOLEAN,
                 stale : BOOLEAN, guard : BOOLEAN]

\* A call that waited for a request speaks only if the device answered that request,
\* however the answer, a time-out and a reset interleave.
SpeaksWhenReady ==
    \A s \in Speakers : speaker[s] \in {"session", "ready", "queue", "speak", "goodbye", "done"}
                            /\ request[s] # NoSpeaker => request[s] \in answered

\* The slot holds a request exactly while the call that made it is on its way to the
\* wait or waits, unless somebody is finishing it.  A request left in the slot mutes the
\* microphone (handle_audio) and captures later calls; one lost from it cannot be answered.
SlotIsAwaited ==
    \A s \in Speakers :
        /\ pendingRequest = s => request[s] = s /\ speaker[s] \in {"send", "select", "wait", "finish"}
        /\ request[s] = s /\ speaker[s] \in {"send", "select", "wait"} /\ pendingRequest # s
               => \E f \in Finishers \ {s} : finishing[f].of = s

\* A request to speak is waited for while it stands, and answered before the call speaks.
SpeakRequestIsKept == SpeaksWhenReady /\ SlotIsAwaited

\* Every call that begins comes to an end: the time-outs bound each wait.
SpeakersEnd == <>[](\A s \in Speakers : speaker[s] \in {"idle", "done", "failed"})
=============================================================================
