-------------------------- MODULE SessionLifecycle --------------------------
(***************************************************************************)
(* How one ChatManager builds, closes and rebuilds its ChatSession.        *)
(*                                                                         *)
(* Many tasks of the runtime call the manager at the same time: the hello  *)
(* bootstraps, listen starts, exits, goodbyes, shutdowns, the recognition  *)
(* loop when its ASR fails, the audio idle watchdog, the timer of a        *)
(* retained session and the background cleanups of closed sessions.  They  *)
(* share the slot of the session behind a mutex, the latch                 *)
(* session_closing, and the two slots of task handles.  A task gives way   *)
(* at every await; one that was aborted dies at an await of its choice, or *)
(* goes on when none of its awaits has to wait.                            *)
(***************************************************************************)
EXTENDS Integers, FiniteSets

CONSTANTS Tasks,      \* the tasks that may be alive at the same time
          NoTask,     \* an empty slot of a handle, a mutex nobody holds
          MaxEvents   \* bound: device messages, exits and ASR failures that arrive

ASSUME LifecycleAssumption ==
    /\ IsFiniteSet(Tasks)
    /\ NoTask \notin Tasks
    /\ MaxEvents \in Nat

\* Sessions are told apart by a number: every event builds at most one.
SessionIds == 1 .. MaxEvents
NoSession == 0

VARIABLES
    task,       \* what each task is doing
    session,    \* the session in the slot, or NoSession
    lock,       \* the task that holds the slot's mutex across awaits
    tts,        \* the session whose TtsManager and LlmManager are installed
    closing,    \* session_closing
    needHello,  \* need_fresh_hello
    watch,      \* idle_watchdog: the handle of a watchdog
    retained,   \* retained_cleanup: the handle of a retained session's timer
    cleanup,    \* the stage of each closed session's background cleanup
    forced,     \* history: a recovery was forced on a close
    left        \* events that may still arrive

vars == <<task, session, lock, tts, closing, needHello, watch, retained, cleanup,
          forced, left>>

Idle == [pc |-> "free", after |-> "free", reason |-> "none", mine |-> NoSession,
         aborted |-> FALSE]

ClosePcs == {"c_watch", "c_retained", "c_tts", "c_take", "c_clear"}
ForcePcs == {"f_abort", "f_take", "f_clear"}
InitPcs == {"i_wait", "i_check", "i_install", "i_tts", "i_watch", "i_store"}
OtherPcs == {"free", "h_sid", "e_wait", "e_check", "l_lock", "l_asr", "l_unlock",
             "p_reset", "p_cancel", "p_store", "w_tick", "w_pending",
             "r_sleep", "c_swap"}
Pcs == ClosePcs \cup ForcePcs \cup InitPcs \cup OtherPcs

Reasons == {"none", "hello", "listen", "goodbye", "explicit", "fatal", "shutdown",
            "idle", "retained"}

TaskType ==
    [pc : Pcs,
     after : {"free", "w_tick", "l_unlock", "e_check", "i_check"},
     reason : Reasons, mine : SessionIds \cup {NoSession}, aborted : BOOLEAN]

-----------------------------------------------------------------------------

At(t, l) == task[t].pc = l
Goto(t, l) == task' = [task EXCEPT ![t].pc = l]

Free == {t \in Tasks : At(t, "free")}
Closers == {t \in Tasks : task[t].pc \in ClosePcs}

\* Tasks that will start one more task: a watchdog or a retained timer.
Spawners == {t \in Tasks : task[t].reason \in {"hello", "listen", "goodbye"}}

\* The mutex is not reentrant: its own holder cannot take it a second time.
CanLock == lock = NoTask

Unused == SessionIds \ ({session, tts} \cup {task[t].mine : t \in Tasks}
                          \cup {n \in SessionIds : cleanup[n] # "none"})

Abort(f, h) == IF h = NoTask THEN f ELSE [f EXCEPT ![h].aborted = TRUE]

\* A task ends: a handle of it that is still stored can abort nothing.
Ended(f, t) ==
    /\ task' = [f EXCEPT ![t] = Idle]
    /\ watch' = IF watch = t THEN NoTask ELSE watch
    /\ retained' = IF retained = t THEN NoTask ELSE retained

\* The call of close_session_with_reason returns to its caller.
Return(t) ==
    IF task[t].after = "free"
    THEN Ended(task, t)
    ELSE /\ task' = [task EXCEPT ![t].pc = task[t].after, ![t].mine = NoSession]
         /\ UNCHANGED <<watch, retained>>

-----------------------------------------------------------------------------

Init ==
    /\ task = [t \in Tasks |-> Idle]
    /\ session = NoSession /\ tts = NoSession
    /\ lock = NoTask /\ watch = NoTask /\ retained = NoTask
    /\ closing = FALSE /\ needHello = TRUE
    /\ cleanup = [n \in SessionIds |-> "none"]
    /\ forced = FALSE
    /\ left = MaxEvents

\* A message of the device, or an event of the server, gets a task of its own.
Arrives(t, l, reason, mine) ==
    /\ left > 0
    /\ At(t, "free") /\ Cardinality(Free) > Cardinality(Spawners)
    /\ left' = left - 1
    /\ task' = [Abort(task, IF reason \in {"hello", "listen"} THEN retained ELSE NoTask)
                  EXCEPT ![t] = [Idle EXCEPT !.pc = l, !.reason = reason, !.mine = mine]]
    /\ retained' = IF reason \in {"hello", "listen"} THEN NoTask ELSE retained
    /\ UNCHANGED <<session, lock, tts, closing, needHello, watch, cleanup, forced>>

HelloArrives(t) == Arrives(t, "h_sid", "hello", NoSession)
ListenArrives(t) == ~ needHello /\ Arrives(t, "e_wait", "listen", NoSession)
GoodbyeArrives(t) == Arrives(t, "p_reset", "goodbye", NoSession)
ExitRequested(t) == \E r \in {"explicit", "shutdown"} : Arrives(t, "c_swap", r, NoSession)
\* The recognition loop of the session fails: it closes the session itself.
RecognitionFails(t) == session # NoSession /\ Arrives(t, "c_swap", "fatal", session)

Event(t) ==
    HelloArrives(t) \/ ListenArrives(t) \/ GoodbyeArrives(t) \/ ExitRequested(t)
      \/ RecognitionFails(t)

\* The recognition loop of session n that is closing it, killed by abort_loop.
AbortLoops(f, n) ==
    [t \in Tasks |-> IF f[t].reason = "fatal" /\ f[t].after = "free" /\ f[t].mine = n
                     THEN [f[t] EXCEPT !.aborted = TRUE] ELSE f[t]]

-----------------------------------------------------------------------------
\* close_session_with_reason

\* Variants, named so by their comment, are what a slip in the code would make of
\* the definition below them; no specification uses them.

\* A variant: the latch is stored, not swapped and tested.
CloseSwapBlind(t) ==
    /\ At(t, "c_swap")
    /\ Goto(t, "c_watch")
    /\ closing' = TRUE
    /\ UNCHANGED <<session, lock, tts, needHello, watch, retained, cleanup, forced, left>>

CloseSwap(t) ==
    /\ At(t, "c_swap")
    /\ IF closing THEN Return(t)
       ELSE Goto(t, "c_watch") /\ UNCHANGED <<watch, retained>>
    /\ closing' = TRUE
    /\ UNCHANGED <<session, lock, tts, needHello, cleanup, forced, left>>

CloseWatch(t) ==
    /\ At(t, "c_watch")
    /\ task' = [Abort(task, watch) EXCEPT ![t].pc = "c_retained"]
    /\ watch' = NoTask
    /\ UNCHANGED <<session, lock, tts, closing, needHello, retained, cleanup, forced, left>>

CloseRetained(t) ==
    /\ At(t, "c_retained")
    /\ task' = [Abort(task, retained) EXCEPT ![t].pc = "c_tts"]
    /\ retained' = NoTask
    /\ UNCHANGED <<session, lock, tts, closing, needHello, watch, cleanup, forced, left>>

\* Reading the closing session's id takes the mutex; then the TTS is interrupted.
CloseInterrupt(t) ==
    /\ At(t, "c_tts")
    /\ CanLock
    /\ Goto(t, "c_take")
    /\ UNCHANGED <<session, lock, tts, closing, needHello, watch, retained, cleanup,
                   forced, left>>

\* A variant: the early return for an empty slot forgets the latch.
CloseTakeLatched(t) ==
    /\ At(t, "c_take")
    /\ CanLock
    /\ IF session = NoSession
       THEN Return(t)
       ELSE /\ task' = [task EXCEPT ![t].pc = "c_clear", ![t].mine = session]
            /\ UNCHANGED <<watch, retained>>
    /\ session' = NoSession
    /\ UNCHANGED <<lock, tts, closing, needHello, cleanup, forced, left>>

CloseTake(t) ==
    /\ At(t, "c_take")
    /\ CanLock
    /\ IF session = NoSession
       THEN closing' = FALSE /\ Return(t)
       ELSE /\ task' = [task EXCEPT ![t].pc = "c_clear", ![t].mine = session]
            /\ UNCHANGED <<closing, watch, retained>>
    /\ session' = NoSession
    /\ UNCHANGED <<lock, tts, needHello, cleanup, forced, left>>

\* The managers are removed, the latch is opened and the rest of the closing
\* goes on in the background (in the caller for a shutdown).
CloseClear(t) ==
    /\ At(t, "c_clear")
    /\ tts' = NoSession
    /\ closing' = FALSE
    /\ cleanup' = [cleanup EXCEPT ![task[t].mine] =
                     CASE task[t].reason = "shutdown" -> "reset_only"
                       [] task[t].reason = "retained" -> "reset"
                       [] OTHER -> "goodbye"]
    /\ Return(t)
    /\ UNCHANGED <<session, lock, needHello, forced, left>>

CleanupGoodbye(n) ==
    /\ cleanup[n] = "goodbye"
    /\ cleanup' = [cleanup EXCEPT ![n] = "reset"]
    /\ UNCHANGED <<task, session, lock, tts, closing, needHello, watch, retained,
                   forced, left>>

\* reset_to_silent_state of the closed session: it aborts its recognition loop.
CleanupReset(n) ==
    /\ cleanup[n] \in {"reset", "reset_only"}
    /\ task' = AbortLoops(task, n)
    /\ cleanup' = [cleanup EXCEPT ![n] = IF @ = "reset" THEN "side" ELSE "none"]
    /\ UNCHANGED <<session, lock, tts, closing, needHello, watch, retained, forced, left>>

CleanupSide(n) ==
    /\ cleanup[n] = "side"
    /\ needHello' = TRUE
    /\ cleanup' = [cleanup EXCEPT ![n] = "none"]
    /\ UNCHANGED <<task, session, lock, tts, closing, watch, retained, forced, left>>

-----------------------------------------------------------------------------
\* init_session, ensure_session and the wait for a close to end

HelloSessionId(t) ==
    /\ At(t, "h_sid")
    /\ CanLock
    /\ Goto(t, "i_wait")
    /\ UNCHANGED <<session, lock, tts, closing, needHello, watch, retained, cleanup,
                   forced, left>>

AfterWait(t) == IF At(t, "e_wait") THEN "e_check" ELSE "i_check"

WaitClosed(t) ==
    /\ task[t].pc \in {"e_wait", "i_wait"}
    /\ ~ closing
    /\ Goto(t, AfterWait(t))
    /\ UNCHANGED <<session, lock, tts, closing, needHello, watch, retained, cleanup,
                   forced, left>>

\* A variant: the wait is started again after the timeout.
WaitTimeoutRetries(t) ==
    /\ task[t].pc \in {"e_wait", "i_wait"}
    /\ closing
    /\ UNCHANGED vars

\* A variant: after the recovery the task waits once more.
WaitTimeoutReturns(t) ==
    /\ task[t].pc \in {"e_wait", "i_wait"}
    /\ closing
    /\ task' = [task EXCEPT ![t].pc = "f_abort", ![t].after = task[t].pc]
    /\ UNCHANGED <<session, lock, tts, closing, needHello, watch, retained, cleanup,
                   forced, left>>

\* Five seconds went by and the session is still closing.
WaitTimeout(t) ==
    /\ task[t].pc \in {"e_wait", "i_wait"}
    /\ closing
    /\ task' = [task EXCEPT ![t].pc = "f_abort", ![t].after = AfterWait(t)]
    /\ UNCHANGED <<session, lock, tts, closing, needHello, watch, retained, cleanup,
                   forced, left>>

ForceAbort(t) ==
    /\ At(t, "f_abort")
    /\ IF closing
       THEN /\ task' = [Abort(Abort(task, watch), retained) EXCEPT ![t].pc = "f_take"]
            /\ watch' = NoTask /\ retained' = NoTask
            /\ forced' = TRUE
       ELSE /\ task' = [task EXCEPT ![t].pc = task[t].after, ![t].after = "free"]
            /\ UNCHANGED <<watch, retained, forced>>
    /\ UNCHANGED <<session, lock, tts, closing, needHello, cleanup, left>>

ForceTake(t) ==
    /\ At(t, "f_take")
    /\ CanLock
    /\ session' = NoSession
    /\ Goto(t, "f_clear")
    /\ UNCHANGED <<lock, tts, closing, needHello, watch, retained, cleanup, forced, left>>

ForceClear(t) ==
    /\ At(t, "f_clear")
    /\ tts' = NoSession
    /\ closing' = FALSE
    /\ needHello' = TRUE
    /\ task' = [task EXCEPT ![t].pc = task[t].after, ![t].after = "free"]
    /\ UNCHANGED <<session, lock, watch, retained, cleanup, forced, left>>

\* ensure_session returns when there is a session and calls init_session if not.
EnsureCheck(t) ==
    /\ At(t, "e_check")
    /\ CanLock
    /\ Goto(t, IF session # NoSession THEN "l_lock" ELSE "i_wait")
    /\ UNCHANGED <<session, lock, tts, closing, needHello, watch, retained, cleanup,
                   forced, left>>

\* With a session in the slot only the watchdog is started again.
InitCheck(t) ==
    /\ At(t, "i_check")
    /\ CanLock
    /\ IF session # NoSession
       THEN Goto(t, "i_watch") /\ needHello' = FALSE
       ELSE Goto(t, "i_install") /\ UNCHANGED needHello
    /\ UNCHANGED <<session, lock, tts, closing, watch, retained, cleanup, forced, left>>

\* The configuration is fetched and the resources are acquired, or that fails.
InitFails(t) ==
    /\ At(t, "i_install")
    /\ Ended(task, t)
    /\ UNCHANGED <<session, lock, tts, closing, needHello, cleanup, forced, left>>

InitInstall(t) ==
    /\ At(t, "i_install")
    /\ CanLock
    /\ \E n \in Unused : (\A m \in Unused : n <= m) /\ session' = n
    /\ task' = [task EXCEPT ![t].pc = "i_tts", ![t].mine = session']
    /\ UNCHANGED <<lock, tts, closing, needHello, watch, retained, cleanup, forced, left>>

InitReady(t) ==
    /\ At(t, "i_tts")
    /\ CanLock
    /\ tts' = task[t].mine
    /\ needHello' = FALSE
    /\ task' = [task EXCEPT ![t].pc = "i_watch", ![t].mine = NoSession]
    /\ UNCHANGED <<session, lock, closing, watch, retained, cleanup, forced, left>>

\* spawn_audio_idle_watchdog
WatchAbort(t) ==
    /\ At(t, "i_watch")
    /\ task' = [Abort(task, watch) EXCEPT ![t].pc = "i_store"]
    /\ watch' = NoTask
    /\ UNCHANGED <<session, lock, tts, closing, needHello, retained, cleanup, forced, left>>

WatchStore(t, w) ==
    /\ At(t, "i_store")
    /\ At(w, "free")
    /\ task' = [task EXCEPT ![w] = [Idle EXCEPT !.pc = "w_tick", !.reason = "idle",
                                                !.after = "w_tick"],
                            ![t] = IF @.reason = "listen"
                                   THEN [@ EXCEPT !.pc = "l_lock"]
                                   ELSE Idle]
    /\ watch' = w
    /\ UNCHANGED <<session, lock, tts, closing, needHello, retained, cleanup, forced, left>>

-----------------------------------------------------------------------------
\* on_listen_start after its ensure_session: the mutex is held to the end

ListenLock(t) ==
    /\ At(t, "l_lock")
    /\ CanLock
    /\ IF session = NoSession
       THEN Ended(task, t) /\ UNCHANGED lock
       ELSE Goto(t, "l_asr") /\ lock' = t /\ UNCHANGED <<watch, retained>>
    /\ UNCHANGED <<session, tts, closing, needHello, cleanup, forced, left>>

\* The ASR stream is open (or the listen start was put off): a new recognition
\* loop replaces the old one.
ListenDone(t) ==
    /\ At(t, "l_asr")
    /\ Ended(AbortLoops(task, session), t)
    /\ lock' = NoTask
    /\ UNCHANGED <<session, tts, closing, needHello, cleanup, forced, left>>

\* The ASR cannot be started: the session is closed under its own mutex.
ListenAsrFails(t) ==
    /\ At(t, "l_asr")
    /\ task' = [task EXCEPT ![t].pc = "c_swap", ![t].reason = "fatal",
                            ![t].after = "l_unlock"]
    /\ UNCHANGED <<session, lock, tts, closing, needHello, watch, retained, cleanup,
                   forced, left>>

ListenUnlock(t) ==
    /\ At(t, "l_unlock")
    /\ Ended(task, t)
    /\ lock' = NoTask
    /\ UNCHANGED <<session, tts, closing, needHello, cleanup, forced, left>>

-----------------------------------------------------------------------------
\* handle_device_goodbye and the timer of the retained session

\* The session is reset; then its id is read, and without one there is no timer.
GoodbyeReset(t) ==
    /\ At(t, "p_reset")
    /\ CanLock
    /\ IF session = NoSession
       THEN Ended(task, t)
       ELSE /\ task' = [AbortLoops(task, session) EXCEPT ![t].pc = "p_cancel"]
            /\ UNCHANGED <<watch, retained>>
    /\ UNCHANGED <<session, lock, tts, closing, needHello, cleanup, forced, left>>

GoodbyeCancel(t) ==
    /\ At(t, "p_cancel")
    /\ task' = [Abort(task, retained) EXCEPT ![t].pc = "p_store"]
    /\ retained' = NoTask
    /\ UNCHANGED <<session, lock, tts, closing, needHello, watch, cleanup, forced, left>>

GoodbyeStore(t, r) ==
    /\ At(t, "p_store")
    /\ At(r, "free")
    /\ task' = [task EXCEPT ![r] = [Idle EXCEPT !.pc = "r_sleep", !.reason = "retained"],
                            ![t] = Idle]
    /\ retained' = r
    /\ UNCHANGED <<session, lock, tts, closing, needHello, watch, cleanup, forced, left>>

\* The timer expires.  A hello reuses the id of the session it finds or follows
\* unless it resumes another one, so the id the timer looks for is as a rule
\* also the id of a rebuilt session.
RetainedExpires(t) ==
    /\ At(t, "r_sleep")
    /\ ~ task[t].aborted
    /\ CanLock
    /\ \/ Ended(task, t)
       \/ session # NoSession /\ Goto(t, "c_swap") /\ UNCHANGED <<watch, retained>>
    /\ UNCHANGED <<session, lock, tts, closing, needHello, cleanup, forced, left>>

-----------------------------------------------------------------------------
\* run_audio_idle_timeout_watchdog

\* The idle time of the session has passed: its timeout is marked pending.
WatchFires(t) ==
    /\ At(t, "w_tick")
    /\ ~ task[t].aborted
    /\ CanLock
    /\ session # NoSession
    /\ task' = [task EXCEPT ![t].pc = "w_pending", ![t].mine = session]
    /\ UNCHANGED <<session, lock, tts, closing, needHello, watch, retained, cleanup,
                   forced, left>>

\* A variant: the loop is left, not continued, when the timeout was reset.
WatchPendingLeaves(t) ==
    /\ At(t, "w_pending")
    /\ CanLock
    /\ \/ Ended(task, t)
       \/ session = task[t].mine /\ Goto(t, "c_swap") /\ UNCHANGED <<watch, retained>>
    /\ UNCHANGED <<session, lock, tts, closing, needHello, cleanup, forced, left>>

\* The pending timeout is looked at again; a reset may have cleared it.
WatchPending(t) ==
    /\ At(t, "w_pending")
    /\ CanLock
    /\ \/ task' = [task EXCEPT ![t].pc = "w_tick", ![t].mine = NoSession]
       \/ session = task[t].mine /\ Goto(t, "c_swap")
    /\ UNCHANGED <<session, lock, tts, closing, needHello, watch, retained, cleanup,
                   forced, left>>

WatchExits(t) ==
    /\ At(t, "w_tick")
    /\ ~ task[t].aborted
    /\ CanLock
    /\ session = NoSession
    /\ Ended(task, t)
    /\ UNCHANGED <<session, lock, tts, closing, needHello, cleanup, forced, left>>

\* An aborted task dies at one of its awaits.
Dies(t) ==
    /\ task[t].aborted
    /\ Ended(task, t)
    /\ UNCHANGED <<session, lock, tts, closing, needHello, cleanup, forced, left>>

-----------------------------------------------------------------------------

Close(t) ==
    CloseSwap(t) \/ CloseWatch(t) \/ CloseRetained(t) \/ CloseInterrupt(t) \/ CloseTake(t)
      \/ CloseClear(t)

Build(t) ==
    \/ HelloSessionId(t) \/ WaitClosed(t) \/ WaitTimeout(t)
    \/ ForceAbort(t) \/ ForceTake(t) \/ ForceClear(t)
    \/ EnsureCheck(t) \/ InitCheck(t) \/ InitFails(t) \/ InitInstall(t)
    \/ InitReady(t) \/ WatchAbort(t) \/ \E w \in Tasks : WatchStore(t, w)

Listen(t) == ListenLock(t) \/ ListenDone(t) \/ ListenAsrFails(t) \/ ListenUnlock(t)

Goodbye(t) ==
    GoodbyeReset(t) \/ GoodbyeCancel(t) \/ \E r \in Tasks : GoodbyeStore(t, r)

\* The steps a task takes as soon as it can.
Run(t) ==
    Close(t) \/ Build(t) \/ Listen(t) \/ Goodbye(t) \/ WatchPending(t) \/ WatchExits(t)
      \/ Dies(t)

Timer(t) == RetainedExpires(t) \/ WatchFires(t)

Cleanup(n) == CleanupGoodbye(n) \/ CleanupReset(n) \/ CleanupSide(n)

Next ==
    \/ \E t \in Tasks : Event(t) \/ Run(t) \/ Timer(t)
    \/ \E n \in SessionIds : Cleanup(n)

Spec == Init /\ [][Next]_vars

\* The runtime polls every task that is ready; what a message, a timer or a
\* failing service does is left to chance.
FairSpec ==
    /\ Spec
    /\ \A t \in Tasks : WF_vars(Run(t))
    /\ \A n \in SessionIds : WF_vars(Cleanup(n))

-----------------------------------------------------------------------------

TypeOK ==
    /\ task \in [Tasks -> TaskType]
    /\ {session, tts} \subseteq SessionIds \cup {NoSession}
    /\ {lock, watch, retained} \subseteq Tasks \cup {NoTask}
    /\ {closing, needHello, forced} \subseteq BOOLEAN
    /\ cleanup \in [SessionIds -> {"none", "goodbye", "reset", "reset_only", "side"}]
    /\ left \in 0 .. MaxEvents

\* The latch session_closing lets one task at a time into the close, whoever
\* calls it and wherever the latch is opened again, as long as no recovery was
\* forced on a close that took more than five seconds.
CloserExclusion ==
    ~ forced => /\ \A t, u \in Closers : t = u
                /\ Closers # {} => closing

\* A session that nobody builds or closes has a watchdog that is alive: the
\* restarts of the watchdog and the aborts of closers that find nothing to
\* close, or that lose against a rebuild, never leave an idle session open
\* (as long as no recovery was forced: a closer it overtook may come late and
\* abort the watchdog of the session that was rebuilt).
Settled == \A t \in Tasks : task[t].pc \notin ClosePcs \cup ForcePcs
                                            \cup {"i_tts", "i_watch", "i_store"}
IdleSessionIsWatched ==
    session # NoSession /\ Settled /\ ~ closing /\ ~ forced =>
        \E w \in Tasks : task[w].reason = "idle" /\ ~ task[w].aborted

\* A task that waits for the mutex it holds itself.
Wedged == lock # NoTask /\ task[lock].pc \in ClosePcs

\* The latch is released in the end: a task that won the latch opens it again,
\* on every path of the close.  Only a closer that is aborted on its way, or one
\* that waits for the mutex it holds, leaves it set.
LatchReleased ==
    \A t \in Tasks :
        At(t, "c_watch") ~> (~ closing \/ Wedged \/ \E u \in Closers : task[u].aborted)

\* A hello is served in the end, through a close that hangs, dies or runs late:
\* the wait for the latch is bounded and the forced recovery opens it.
HelloServedUnlessWedged ==
    \A t \in Tasks : task[t].reason = "hello" ~> (task[t].reason # "hello" \/ Wedged)

-----------------------------------------------------------------------------
\* What the comments of the code say, and the code does not keep.

\* session_lifecycle.rs:232: a stuck close is forced to recover, so that a
\* reconnecting simulator does not fail for long: every hello is served.
HelloServed ==
    \A t \in Tasks : task[t].reason = "hello" ~> task[t].reason # "hello"

\* manager.rs:101: while the session is closing nobody rebuilds it between the
\* take and the clearing of what belongs to it.
NoRebuildInClose ==
    \A t \in Tasks : At(t, "c_clear") /\ ~ forced => session = NoSession

\* session_lifecycle.rs:205: once the latch is open a hello may rebuild the
\* session at once.  A session that is ready is not made to wait for yet
\* another hello by the late cleanup of the one before it.
CleanupSparesRebuilt ==
    [][\A n \in SessionIds :
         cleanup[n] = "side" /\ cleanup'[n] = "none" /\ session # NoSession /\ ~ needHello
            => ~ needHello']_vars
=============================================================================
