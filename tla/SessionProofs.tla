---------------------------- MODULE SessionProofs ----------------------------
(***************************************************************************)
(* For every number of tasks and events: the state keeps its type, the     *)
(* latch session_closing admits one closer at a time until a recovery is   *)
(* forced, and a session that nobody builds or closes has a live idle      *)
(* watchdog until then.                                                    *)
(***************************************************************************)
EXTENDS SessionLifecycle, TLAPS

TasksType == task \in [Tasks -> TaskType]

-----------------------------------------------------------------------------
\* What the helpers do to the tasks

LEMMA IdleType == Idle \in TaskType
  BY DEF Idle, TaskType, Pcs, OtherPcs, Reasons, NoSession

LEMMA AbortType ==
    ASSUME NEW f \in [Tasks -> TaskType], NEW h \in Tasks \cup {NoTask}
    PROVE  /\ Abort(f, h) \in [Tasks -> TaskType]
           /\ \A t \in Tasks : /\ Abort(f, h)[t].pc = f[t].pc
                               /\ Abort(f, h)[t].after = f[t].after
                               /\ Abort(f, h)[t].reason = f[t].reason
                               /\ Abort(f, h)[t].mine = f[t].mine
<1>1. CASE h = NoTask
  BY <1>1 DEF Abort
<1>2. CASE h \in Tasks /\ h # NoTask
  <2>1. Abort(f, h) = [f EXCEPT ![h] = [f[h] EXCEPT !.aborted = TRUE]]
    BY <1>2 DEF Abort
  <2>2. [f[h] EXCEPT !.aborted = TRUE] \in TaskType
    BY <1>2 DEF TaskType
  <2>3. Abort(f, h) \in [Tasks -> TaskType]
    BY <1>2, <2>1, <2>2
  <2>4. /\ [f[h] EXCEPT !.aborted = TRUE].pc = f[h].pc
        /\ [f[h] EXCEPT !.aborted = TRUE].after = f[h].after
        /\ [f[h] EXCEPT !.aborted = TRUE].reason = f[h].reason
        /\ [f[h] EXCEPT !.aborted = TRUE].mine = f[h].mine
    BY <1>2 DEF TaskType
  <2> QED
    BY <1>2, <2>1, <2>3, <2>4
<1> QED
  BY <1>1, <1>2

LEMMA AbortLoopsType ==
    ASSUME NEW f \in [Tasks -> TaskType], NEW n
    PROVE  /\ AbortLoops(f, n) \in [Tasks -> TaskType]
           /\ \A t \in Tasks : AbortLoops(f, n)[t].pc = f[t].pc
<1>1. ASSUME NEW t \in Tasks
      PROVE  /\ AbortLoops(f, n)[t] \in TaskType
             /\ AbortLoops(f, n)[t].pc = f[t].pc
  <2>1. /\ [f[t] EXCEPT !.aborted = TRUE] \in TaskType
        /\ [f[t] EXCEPT !.aborted = TRUE].pc = f[t].pc
    BY DEF TaskType
  <2> QED
    BY <2>1 DEF AbortLoops
<1>2. AbortLoops(f, n) = [t \in Tasks |-> AbortLoops(f, n)[t]]
  BY DEF AbortLoops
<1> QED
  BY <1>1, <1>2

\* A task moves on, and perhaps changes what it remembers.
LEMMA PcType ==
    ASSUME NEW f \in [Tasks -> TaskType], NEW t \in Tasks, NEW l \in Pcs
    PROVE  /\ [f EXCEPT ![t].pc = l] \in [Tasks -> TaskType]
           /\ [f EXCEPT ![t].pc = l][t].pc = l
           /\ \A u \in Tasks : u # t => [f EXCEPT ![t].pc = l][u] = f[u]
<1>1. [f[t] EXCEPT !.pc = l] \in TaskType
  BY DEF TaskType
<1> QED
  BY <1>1 DEF TaskType

\* The return point of a call is a place outside the close and the recovery.
LEMMA AfterOutside ==
    ASSUME TasksType, NEW t \in Tasks
    PROVE  /\ task[t].after \in Pcs
           /\ task[t].after \notin ClosePcs \cup ForcePcs
           /\ "free" \in Pcs /\ "free" \notin ClosePcs \cup ForcePcs
  BY DEF TasksType, TaskType, Pcs, OtherPcs, InitPcs, ClosePcs, ForcePcs

-----------------------------------------------------------------------------
\* What each step does to the places the tasks are at

Inner == ClosePcs \cup {"f_take", "f_clear"}

\* Each task other than those of E stays where it is or is outside of the
\* close and of the second part of the recovery.
StaysOut(E) ==
    \A u \in Tasks \ E : task'[u].pc = task[u].pc \/ task'[u].pc \notin Inner

Handles == {watch, retained} \subseteq Tasks \cup {NoTask}

\* A task goes on at l; the others stay where they are.
LEMMA MoveEffect ==
    ASSUME TasksType, NEW f \in [Tasks -> TaskType], NEW t \in Tasks, NEW l \in Pcs,
           \A u \in Tasks : f[u].pc = task[u].pc,
           task' = [f EXCEPT ![t].pc = l]
    PROVE  TasksType' /\ StaysOut({t}) /\ task'[t].pc = l
  BY PcType DEF TasksType, StaysOut

LEMMA MoveMineEffect ==
    ASSUME TasksType, NEW t \in Tasks, NEW l \in Pcs, NEW n \in SessionIds \cup {NoSession},
           task' = [task EXCEPT ![t].pc = l, ![t].mine = n]
    PROVE  TasksType' /\ StaysOut({t}) /\ task'[t].pc = l
<1>1. PICK r : r = [[task[t] EXCEPT !.pc = l] EXCEPT !.mine = n]
  OBVIOUS
<1>2. r \in TaskType /\ r.pc = l
  BY <1>1 DEF TasksType, TaskType
<1>3. task' = [task EXCEPT ![t] = r]
  BY <1>1 DEF TasksType
<1> QED
  BY <1>2, <1>3 DEF TasksType, StaysOut

LEMMA MoveAfterEffect ==
    ASSUME TasksType, NEW t \in Tasks, NEW l \in Pcs, NEW a \in {"free", "e_check", "i_check"},
           task' = [task EXCEPT ![t].pc = l, ![t].after = a]
    PROVE  TasksType' /\ StaysOut({t}) /\ task'[t].pc = l
<1>1. PICK r : r = [[task[t] EXCEPT !.pc = l] EXCEPT !.after = a]
  OBVIOUS
<1>2. r \in TaskType /\ r.pc = l
  BY <1>1 DEF TasksType, TaskType
<1>3. task' = [task EXCEPT ![t] = r]
  BY <1>1 DEF TasksType
<1> QED
  BY <1>2, <1>3 DEF TasksType, StaysOut

LEMMA EndedEffect ==
    ASSUME TasksType, Handles, NEW f \in [Tasks -> TaskType], NEW t \in Tasks,
           \A u \in Tasks : f[u].pc = task[u].pc, Ended(f, t)
    PROVE  TasksType' /\ Handles' /\ StaysOut({}) /\ task'[t].pc \notin Inner
<1>1. task'[t] = Idle /\ \A u \in Tasks : u # t => task'[u] = f[u]
  BY DEF Ended
<1>2. Idle.pc \notin Inner
  BY DEF Idle, Inner, ClosePcs
<1>3. TasksType'
  BY IdleType DEF Ended, TasksType
<1> QED
  BY <1>1, <1>2, <1>3 DEF StaysOut, Handles, Ended

LEMMA ReturnEffect ==
    ASSUME TasksType, Handles, NEW t \in Tasks, Return(t)
    PROVE  TasksType' /\ Handles' /\ StaysOut({}) /\ task'[t].pc \notin Inner
<1>1. CASE task[t].after = "free"
  BY <1>1, EndedEffect DEF Return, TasksType
<1>2. CASE task[t].after # "free"
  <2>1. /\ task' = [task EXCEPT ![t].pc = task[t].after, ![t].mine = NoSession]
        /\ UNCHANGED <<watch, retained>>
    BY <1>2 DEF Return
  <2>2. task[t].after \in Pcs /\ task[t].after \notin Inner
    BY <1>2, AfterOutside DEF Inner, ForcePcs
  <2>3. PICK l \in Pcs : l = task[t].after
    BY <2>2
  <2>4. task' = [task EXCEPT ![t].pc = l, ![t].mine = NoSession]
    BY <2>1, <2>3
  <2>5. TasksType' /\ StaysOut({t}) /\ task'[t].pc = l
    BY <2>4, MoveMineEffect
  <2> QED
    BY <2>1, <2>2, <2>3, <2>5 DEF StaysOut, Handles
<1> QED
  BY <1>1, <1>2

LEMMA ArrivesEffect ==
    ASSUME TasksType, Handles, NEW t \in Tasks, NEW l \in {"h_sid", "e_wait", "p_reset", "c_swap"},
           NEW reason \in Reasons, NEW mine \in SessionIds \cup {NoSession},
           Arrives(t, l, reason, mine)
    PROVE  TasksType' /\ Handles' /\ StaysOut({})
<1> DEFINE h == IF reason \in {"hello", "listen"} THEN retained ELSE NoTask
           r == [Idle EXCEPT !.pc = l, !.reason = reason, !.mine = mine]
<1>1. h \in Tasks \cup {NoTask}
  BY DEF Handles
<1>2. /\ Abort(task, h) \in [Tasks -> TaskType]
      /\ \A u \in Tasks : Abort(task, h)[u].pc = task[u].pc
  BY <1>1, AbortType DEF TasksType
<1>3. r \in TaskType /\ r.pc = l /\ l \notin Inner
  BY DEF Idle, TaskType, Pcs, OtherPcs, InitPcs, Inner, ClosePcs, NoSession
<1>4. task' = [Abort(task, h) EXCEPT ![t] = r]
  BY DEF Arrives
<1> HIDE DEF h, r
<1>5. TasksType' /\ task'[t] = r /\ \A u \in Tasks : u # t => task'[u] = Abort(task, h)[u]
  BY <1>2, <1>3, <1>4 DEF TasksType
<1>6. Handles'
  BY DEF Arrives, Handles
<1> QED
  BY <1>2, <1>3, <1>5, <1>6 DEF StaysOut

LEMMA EventEffect ==
    ASSUME TypeOK, NEW t \in Tasks, Event(t)
    PROVE  /\ TasksType' /\ Handles' /\ StaysOut({})
           /\ left' \in 0 .. MaxEvents
           /\ UNCHANGED <<session, lock, tts, closing, needHello, cleanup, forced>>
<1> USE DEF TypeOK, TasksType, Handles
<1>1. PICK l \in {"h_sid", "e_wait", "p_reset", "c_swap"}, reason \in Reasons,
           mine \in SessionIds \cup {NoSession} : Arrives(t, l, reason, mine)
  BY DEF Event, HelloArrives, ListenArrives, GoodbyeArrives, ExitRequested,
         RecognitionFails, Reasons
<1>2. TasksType' /\ Handles' /\ StaysOut({})
  BY <1>1, ArrivesEffect
<1>3. left' \in 0 .. MaxEvents
  BY <1>1, LifecycleAssumption DEF Arrives
<1> QED
  BY <1>1, <1>2, <1>3 DEF Arrives

LEMMA OutMeansOut ==
    ASSUME NEW t \in Tasks, StaysOut({t}), task'[t].pc \notin Inner
    PROVE  StaysOut({})
  BY DEF StaysOut

LEMMA PcsAre ==
    /\ "c_watch" \in Pcs /\ "c_retained" \in Pcs /\ "c_tts" \in Pcs /\ "c_take" \in Pcs
    /\ "c_clear" \in Pcs /\ "f_abort" \in Pcs /\ "f_take" \in Pcs /\ "f_clear" \in Pcs
    /\ \A l \in {"f_abort", "i_wait", "i_check", "i_install", "i_tts", "i_watch", "i_store",
                 "e_check", "l_lock", "l_asr", "p_cancel", "p_store", "w_tick",
                 "w_pending", "c_swap"} : l \in Pcs /\ l \notin Inner
  BY DEF Pcs, ClosePcs, ForcePcs, InitPcs, OtherPcs, Inner

OutPcs == {"f_abort", "i_wait", "i_check", "i_install", "i_tts", "i_watch", "i_store",
           "e_check", "l_lock", "l_asr", "p_cancel", "p_store", "w_tick", "w_pending",
           "c_swap"}

\* The same moves, to a place outside of the close and the recovery.
LEMMA MoveOut ==
    ASSUME TasksType, NEW f \in [Tasks -> TaskType], NEW t \in Tasks, NEW l \in OutPcs,
           \A u \in Tasks : f[u].pc = task[u].pc,
           task' = [f EXCEPT ![t].pc = l]
    PROVE  TasksType' /\ StaysOut({})
<1>1. l \in Pcs /\ l \notin Inner
  BY PcsAre DEF OutPcs
<1>2. TasksType' /\ StaysOut({t}) /\ task'[t].pc = l
  BY <1>1, MoveEffect
<1> QED
  BY <1>1, <1>2, OutMeansOut

LEMMA MoveMineOut ==
    ASSUME TasksType, NEW t \in Tasks, NEW l \in OutPcs, NEW n \in SessionIds \cup {NoSession},
           task' = [task EXCEPT ![t].pc = l, ![t].mine = n]
    PROVE  TasksType' /\ StaysOut({})
<1>1. l \in Pcs /\ l \notin Inner
  BY PcsAre DEF OutPcs
<1>2. TasksType' /\ StaysOut({t}) /\ task'[t].pc = l
  BY <1>1, MoveMineEffect
<1> QED
  BY <1>1, <1>2, OutMeansOut

\* What the steps of the close keep typed, and where they lead.
LEMMA CloseEffect ==
    ASSUME TypeOK, NEW t \in Tasks, Close(t)
    PROVE  /\ TypeOK'
           /\ forced' = forced
           /\ StaysOut({t})
           /\ \/ task'[t].pc \notin Inner /\ closing' = closing
              \/ task'[t].pc \notin Inner /\ t \in Closers /\ ~ closing'
              \/ task'[t].pc \in ClosePcs /\ ~ closing /\ closing'
              \/ task'[t].pc \in ClosePcs /\ t \in Closers /\ closing' = closing
<1>1. TasksType /\ Handles
  BY DEF TypeOK, TasksType, Handles
<1>2. CASE CloseSwap(t) /\ closing
  <2>1. Return(t) /\ closing' = closing /\ closing' \in BOOLEAN
    BY <1>2 DEF CloseSwap, TypeOK
  <2>2. TasksType' /\ Handles' /\ StaysOut({t}) /\ task'[t].pc \notin Inner
    BY <1>1, <2>1, ReturnEffect DEF StaysOut
  <2> QED
    BY <1>2, <2>1, <2>2 DEF CloseSwap, TypeOK, TasksType, Handles
<1>3. CASE CloseSwap(t) /\ ~ closing
  <2>1. TasksType' /\ StaysOut({t}) /\ task'[t].pc = "c_watch"
    BY <1>1, <1>3, MoveEffect, PcsAre DEF CloseSwap, Goto, TasksType
  <2> QED
    BY <1>3, <2>1 DEF CloseSwap, TypeOK, TasksType, ClosePcs
<1>4. CASE CloseWatch(t)
  <2>0. PICK f \in [Tasks -> TaskType] :
           f = Abort(task, watch) /\ \A u \in Tasks : f[u].pc = task[u].pc
    BY <1>1, AbortType DEF TasksType, Handles
  <2>1. TasksType' /\ StaysOut({t}) /\ task'[t].pc = "c_retained"
    BY <1>1, <1>4, <2>0, MoveEffect, PcsAre DEF CloseWatch
  <2> QED
    BY <1>4, <2>1 DEF CloseWatch, TypeOK, TasksType, ClosePcs, Closers, At
<1>5. CASE CloseRetained(t)
  <2>0. PICK f \in [Tasks -> TaskType] :
           f = Abort(task, retained) /\ \A u \in Tasks : f[u].pc = task[u].pc
    BY <1>1, AbortType DEF TasksType, Handles
  <2>1. TasksType' /\ StaysOut({t}) /\ task'[t].pc = "c_tts"
    BY <1>1, <1>5, <2>0, MoveEffect, PcsAre DEF CloseRetained
  <2> QED
    BY <1>5, <2>1 DEF CloseRetained, TypeOK, TasksType, ClosePcs, Closers, At
<1>6. CASE CloseInterrupt(t)
  <2>1. TasksType' /\ StaysOut({t}) /\ task'[t].pc = "c_take"
    BY <1>1, <1>6, MoveEffect, PcsAre DEF CloseInterrupt, Goto, TasksType
  <2> QED
    BY <1>6, <2>1 DEF CloseInterrupt, TypeOK, TasksType, ClosePcs, Closers, At
<1>7. CASE CloseTake(t) /\ session = NoSession
  <2>1. TasksType' /\ Handles' /\ StaysOut({t}) /\ task'[t].pc \notin Inner
    BY <1>1, <1>7, ReturnEffect DEF CloseTake, StaysOut
  <2> QED
    BY <1>7, <2>1 DEF CloseTake, TypeOK, TasksType, Handles, ClosePcs, Closers, At
<1>8. CASE CloseTake(t) /\ session # NoSession
  <2>1. session \in SessionIds \cup {NoSession}
    BY DEF TypeOK
  <2>2. TasksType' /\ StaysOut({t}) /\ task'[t].pc = "c_clear"
    BY <1>1, <1>8, <2>1, MoveMineEffect, PcsAre DEF CloseTake
  <2> QED
    BY <1>8, <2>2 DEF CloseTake, TypeOK, TasksType, ClosePcs, Closers, At
<1>9. CASE CloseClear(t)
  <2>1. TasksType' /\ Handles' /\ StaysOut({t}) /\ task'[t].pc \notin Inner
    BY <1>1, <1>9, ReturnEffect DEF CloseClear, StaysOut
  <2>2. cleanup' \in [SessionIds -> {"none", "goodbye", "reset", "reset_only", "side"}]
    BY <1>9 DEF CloseClear, TypeOK
  <2> QED
    BY <1>9, <2>1, <2>2 DEF CloseClear, TypeOK, TasksType, Handles, ClosePcs, Closers, At
<1> QED
  BY <1>2, <1>3, <1>4, <1>5, <1>6, <1>7, <1>8, <1>9 DEF Close

\* A step that has nothing to do with the latch.
Quiet == TypeOK' /\ StaysOut({}) /\ closing' = closing /\ forced' = forced

\* The steps of init_session and of the waits, without those of the recovery.
LEMMA BuildEffect ==
    ASSUME TypeOK, NEW t \in Tasks,
           \/ HelloSessionId(t) \/ WaitClosed(t) \/ WaitTimeout(t) \/ EnsureCheck(t)
           \/ InitCheck(t) \/ InitFails(t) \/ InitInstall(t) \/ InitReady(t)
           \/ WatchAbort(t) \/ \E w \in Tasks : WatchStore(t, w)
    PROVE  Quiet
<1>1. TasksType /\ Handles
  BY DEF TypeOK, TasksType, Handles
<1>2. CASE HelloSessionId(t) \/ WaitClosed(t) \/ EnsureCheck(t) \/ InitCheck(t)
  <2>1. PICK l \in {"i_wait", "i_check", "e_check", "l_lock", "i_watch", "i_install"} :
           task' = [task EXCEPT ![t].pc = l]
    BY <1>2 DEF HelloSessionId, WaitClosed, EnsureCheck, InitCheck, Goto, AfterWait
  <2>2. TasksType' /\ StaysOut({})
    BY <1>1, <2>1, MoveOut DEF OutPcs, TasksType
  <2> QED
    BY <1>2, <2>2 DEF HelloSessionId, WaitClosed, EnsureCheck, InitCheck, Quiet, TypeOK,
                      TasksType
<1>3. CASE WaitTimeout(t)
  <2>1. AfterWait(t) \in {"e_check", "i_check"}
    BY DEF AfterWait
  <2>2. /\ "f_abort" \in Pcs /\ "f_abort" \notin Inner
        /\ task' = [task EXCEPT ![t].pc = "f_abort", ![t].after = AfterWait(t)]
    BY <1>3, PcsAre DEF WaitTimeout
  <2>3. TasksType' /\ StaysOut({t}) /\ task'[t].pc = "f_abort"
    BY <1>1, <2>1, <2>2, MoveAfterEffect
  <2>4. StaysOut({})
    BY <2>2, <2>3, OutMeansOut
  <2> QED
    BY <1>3, <2>3, <2>4 DEF WaitTimeout, Quiet, TypeOK, TasksType
<1>4. CASE InitFails(t)
  <2>1. TasksType' /\ Handles' /\ StaysOut({})
    BY <1>1, <1>4, EndedEffect DEF InitFails, TasksType
  <2> QED
    BY <1>4, <2>1 DEF InitFails, Quiet, TypeOK, TasksType, Handles
<1>5. CASE InitInstall(t)
  <2>1. session' \in SessionIds
    BY <1>5 DEF InitInstall, Unused
  <2>2. PICK n \in SessionIds \cup {NoSession} : n = session'
    BY <2>1
  <2>3. TasksType' /\ StaysOut({})
    BY <1>1, <1>5, <2>2, MoveMineOut DEF OutPcs, InitInstall
  <2> QED
    BY <1>5, <2>1, <2>3 DEF InitInstall, Quiet, TypeOK, TasksType
<1>6. CASE InitReady(t)
  <2>1. TasksType' /\ StaysOut({})
    BY <1>1, <1>6, MoveMineOut DEF OutPcs, InitReady
  <2>2. tts' \in SessionIds \cup {NoSession}
    BY <1>1, <1>6 DEF InitReady, TasksType, TaskType
  <2> QED
    BY <1>6, <2>1, <2>2 DEF InitReady, Quiet, TypeOK, TasksType
<1>7. CASE WatchAbort(t)
  <2>1. PICK f \in [Tasks -> TaskType] :
           f = Abort(task, watch) /\ \A u \in Tasks : f[u].pc = task[u].pc
    BY <1>1, AbortType DEF TasksType, Handles
  <2>2. TasksType' /\ StaysOut({})
    BY <1>1, <1>7, <2>1, MoveOut DEF OutPcs, WatchAbort
  <2> QED
    BY <1>7, <2>2 DEF WatchAbort, Quiet, TypeOK, TasksType
<1>8. ASSUME NEW w \in Tasks, WatchStore(t, w) PROVE Quiet
  <2> DEFINE r == [Idle EXCEPT !.pc = "w_tick", !.reason = "idle", !.after = "w_tick"]
             s == IF task[t].reason = "listen" THEN [task[t] EXCEPT !.pc = "l_lock"] ELSE Idle
  <2>1. r \in TaskType /\ r.pc = "w_tick" /\ Idle.pc = "free"
    BY DEF Idle, TaskType, Pcs, OtherPcs, Reasons, NoSession
  <2>2. s \in TaskType /\ s.pc \in {"l_lock", "free"}
    BY <1>1, <2>1, IdleType, PcsAre DEF TasksType, TaskType
  <2>3. t # w
    BY <1>8 DEF WatchStore, At
  <2>4. task' = [[task EXCEPT ![w] = r] EXCEPT ![t] = s]
    BY <1>1, <1>8, <2>3 DEF WatchStore, TasksType
  <2> HIDE DEF r, s
  <2>5. /\ TasksType' /\ task'[w] = r /\ task'[t] = s
        /\ \A u \in Tasks \ {t, w} : task'[u] = task[u]
    BY <1>1, <2>1, <2>2, <2>3, <2>4 DEF TasksType
  <2>6. "free" \notin Inner /\ "l_lock" \notin Inner /\ "w_tick" \notin Inner
    BY DEF Inner, ClosePcs
  <2>7. StaysOut({})
    BY <2>1, <2>2, <2>5, <2>6 DEF StaysOut
  <2> QED
    BY <1>8, <2>5, <2>7 DEF WatchStore, Quiet, TypeOK, TasksType
<1> QED
  BY <1>2, <1>3, <1>4, <1>5, <1>6, <1>7, <1>8

\* on_listen_start, the goodbye, the timers, the watchdog and the aborts.
LEMMA OtherEffect ==
    ASSUME TypeOK, NEW t \in Tasks, Listen(t) \/ Goodbye(t) \/ WatchPending(t)
                                      \/ WatchExits(t) \/ Dies(t) \/ Timer(t)
    PROVE  Quiet
<1>1. TasksType /\ Handles
  BY DEF TypeOK, TasksType, Handles
<1>2. ASSUME NEW f \in [Tasks -> TaskType], \A u \in Tasks : f[u].pc = task[u].pc, Ended(f, t),
             lock' \in Tasks \cup {NoTask},
             UNCHANGED <<session, tts, closing, needHello, cleanup, forced, left>>
      PROVE  Quiet
  <2>1. TasksType' /\ Handles' /\ StaysOut({})
    BY <1>1, <1>2, EndedEffect
  <2> QED
    BY <1>2, <2>1 DEF Quiet, TypeOK, TasksType, Handles
<1>3. ASSUME NEW l \in {"l_asr", "w_tick", "c_swap", "p_cancel", "p_store"},
             NEW f \in [Tasks -> TaskType], \A u \in Tasks : f[u].pc = task[u].pc,
             task' = [f EXCEPT ![t].pc = l], lock' \in Tasks \cup {NoTask}, Handles',
             UNCHANGED <<session, tts, closing, needHello, cleanup, forced, left>>
      PROVE  Quiet
  <2>1. TasksType' /\ StaysOut({})
    BY <1>1, <1>3, MoveOut DEF OutPcs
  <2> QED
    BY <1>3, <2>1 DEF Quiet, TypeOK, TasksType, Handles
<1>4. CASE ListenLock(t)
  <2>1. CASE session = NoSession
    BY <1>1, <1>2, <1>4, <2>1 DEF ListenLock, TypeOK, TasksType
  <2>2. CASE session # NoSession
    BY <1>1, <1>3, <1>4, <2>2 DEF ListenLock, Goto, TypeOK, TasksType, Handles
  <2> QED
    BY <2>1, <2>2
<1>5. CASE ListenDone(t)
  <2>1. PICK f \in [Tasks -> TaskType] :
           f = AbortLoops(task, session) /\ \A u \in Tasks : f[u].pc = task[u].pc
    BY <1>1, AbortLoopsType DEF TasksType
  <2> QED
    BY <1>2, <1>5, <2>1 DEF ListenDone
<1>6. CASE ListenAsrFails(t)
  <2>1. PICK r : r = [[[task[t] EXCEPT !.pc = "c_swap"] EXCEPT !.reason = "fatal"]
                         EXCEPT !.after = "l_unlock"]
    OBVIOUS
  <2>2. r \in TaskType /\ r.pc = "c_swap"
    BY <1>1, <2>1, PcsAre DEF TasksType, TaskType, Reasons
  <2>3. task' = [task EXCEPT ![t] = r]
    BY <1>1, <1>6, <2>1 DEF ListenAsrFails, TasksType
  <2>4. TasksType' /\ StaysOut({})
    BY <1>1, <2>2, <2>3, PcsAre DEF TasksType, StaysOut
  <2> QED
    BY <1>6, <2>4 DEF ListenAsrFails, Quiet, TypeOK, TasksType
<1>7. CASE ListenUnlock(t)
  BY <1>1, <1>2, <1>7 DEF ListenUnlock, TasksType
<1>8. CASE GoodbyeReset(t)
  <2>1. PICK f \in [Tasks -> TaskType] :
           f = AbortLoops(task, session) /\ \A u \in Tasks : f[u].pc = task[u].pc
    BY <1>1, AbortLoopsType DEF TasksType
  <2>2. lock' \in Tasks \cup {NoTask}
    BY <1>8 DEF GoodbyeReset, TypeOK
  <2>3. CASE session = NoSession
    BY <1>1, <1>2, <1>8, <2>2, <2>3 DEF GoodbyeReset, TasksType
  <2>4. CASE session # NoSession
    BY <1>1, <1>3, <1>8, <2>1, <2>2, <2>4 DEF GoodbyeReset, Handles
  <2> QED
    BY <2>3, <2>4
<1>9. CASE GoodbyeCancel(t)
  <2>1. PICK f \in [Tasks -> TaskType] :
           f = Abort(task, retained) /\ \A u \in Tasks : f[u].pc = task[u].pc
    BY <1>1, AbortType DEF TasksType, Handles
  <2>2. lock' \in Tasks \cup {NoTask} /\ Handles'
    BY <1>9 DEF GoodbyeCancel, TypeOK, Handles
  <2> QED
    BY <1>3, <1>9, <2>1, <2>2 DEF GoodbyeCancel
<1>10. ASSUME NEW r \in Tasks, GoodbyeStore(t, r) PROVE Quiet
  <2>1. PICK c : c = [Idle EXCEPT !.pc = "r_sleep", !.reason = "retained"]
    OBVIOUS
  <2>2. c \in TaskType /\ c.pc = "r_sleep" /\ Idle.pc = "free"
    BY <2>1 DEF Idle, TaskType, Pcs, OtherPcs, Reasons, NoSession
  <2>3. t # r
    BY <1>10 DEF GoodbyeStore, At
  <2>4. task' = [[task EXCEPT ![r] = c] EXCEPT ![t] = Idle]
    BY <1>1, <1>10, <2>1, <2>3 DEF GoodbyeStore, TasksType
  <2>5. /\ TasksType' /\ task'[r] = c /\ task'[t] = Idle
        /\ \A u \in Tasks \ {t, r} : task'[u] = task[u]
    BY <1>1, <2>2, <2>3, <2>4, IdleType DEF TasksType
  <2>6. "free" \notin Inner /\ "r_sleep" \notin Inner
    BY DEF Inner, ClosePcs
  <2>7. StaysOut({})
    BY <2>2, <2>5, <2>6 DEF StaysOut
  <2> QED
    BY <1>10, <2>5, <2>7 DEF GoodbyeStore, Quiet, TypeOK, TasksType
<1>11. CASE RetainedExpires(t)
  <2>1. lock' \in Tasks \cup {NoTask}
    BY <1>11 DEF RetainedExpires, TypeOK
  <2>2. CASE Ended(task, t)
    BY <1>1, <1>2, <1>11, <2>1, <2>2 DEF RetainedExpires, TasksType
  <2>3. CASE ~ Ended(task, t)
    BY <1>1, <1>3, <1>11, <2>1, <2>3 DEF RetainedExpires, Goto, Handles, TasksType
  <2> QED
    BY <2>2, <2>3
<1>12. CASE WatchFires(t)
  <2>1. PICK n \in SessionIds \cup {NoSession} : n = session
    BY DEF TypeOK
  <2>2. TasksType' /\ StaysOut({})
    BY <1>1, <1>12, <2>1, MoveMineOut DEF OutPcs, WatchFires
  <2> QED
    BY <1>12, <2>2 DEF WatchFires, Quiet, TypeOK, TasksType
<1>13. CASE WatchPending(t)
  <2>1. TasksType' /\ StaysOut({})
    <3>1. CASE task' = [task EXCEPT ![t].pc = "w_tick", ![t].mine = NoSession]
      BY <1>1, <3>1, MoveMineOut DEF OutPcs
    <3>2. CASE task' = [task EXCEPT ![t].pc = "c_swap"]
      BY <1>1, <3>2, MoveOut DEF OutPcs, TasksType
    <3> QED
      BY <1>13, <3>1, <3>2 DEF WatchPending, Goto
  <2> QED
    BY <1>13, <2>1 DEF WatchPending, Quiet, TypeOK, TasksType
<1>14. CASE WatchExits(t)
  BY <1>1, <1>2, <1>14 DEF WatchExits, TypeOK, TasksType
<1>15. CASE Dies(t)
  BY <1>1, <1>2, <1>15 DEF Dies, TypeOK, TasksType
<1> QED
  BY <1>4, <1>5, <1>6, <1>7, <1>8, <1>9, <1>10, <1>11, <1>12, <1>13, <1>14, <1>15
     DEF Listen, Goodbye, Timer

LEMMA CleanupEffect ==
    ASSUME TypeOK, NEW n \in SessionIds, Cleanup(n)
    PROVE  Quiet
<1>1. CASE CleanupGoodbye(n) \/ CleanupSide(n)
  BY <1>1 DEF CleanupGoodbye, CleanupSide, Quiet, StaysOut, TypeOK
<1>2. CASE CleanupReset(n)
  <2>1. TasksType' /\ StaysOut({})
    BY <1>2, AbortLoopsType DEF CleanupReset, TypeOK, TasksType, StaysOut
  <2> QED
    BY <1>2, <2>1 DEF CleanupReset, Quiet, TypeOK, TasksType
<1> QED
  BY <1>1, <1>2 DEF Cleanup

-----------------------------------------------------------------------------
\* The inductive invariant

\* A task that takes the session by force has set the history variable.
ForcedKnown == \A t \in Tasks : task[t].pc \in {"f_take", "f_clear"} => forced

IInv == TypeOK /\ ForcedKnown /\ CloserExclusion

LEMMA InitIInv == Init => IInv
<1> SUFFICES ASSUME Init PROVE IInv
  OBVIOUS
<1>1. \A t \in Tasks : task[t] = Idle /\ task[t].pc = "free"
  BY DEF Init, Idle
<1>2. TypeOK
  <2>1. task \in [Tasks -> TaskType]
    BY IdleType DEF Init
  <2>2. cleanup \in [SessionIds -> {"none", "goodbye", "reset", "reset_only", "side"}]
    BY DEF Init
  <2>3. left \in 0 .. MaxEvents
    BY LifecycleAssumption DEF Init
  <2> QED
    BY <2>1, <2>2, <2>3 DEF Init, TypeOK
<1> QED
  BY <1>1, <1>2 DEF IInv, ForcedKnown, CloserExclusion, Closers, ClosePcs, Init

LEMMA QuietKeepsIInv == IInv /\ Quiet => IInv'
  BY DEF IInv, Quiet, ForcedKnown, CloserExclusion, Closers, StaysOut, Inner

LEMMA CloseKeepsIInv ==
    ASSUME IInv, NEW t \in Tasks, Close(t)
    PROVE  IInv'
<1>1. /\ TypeOK' /\ forced' = forced /\ StaysOut({t})
      /\ \/ task'[t].pc \notin Inner /\ closing' = closing
         \/ task'[t].pc \notin Inner /\ t \in Closers /\ ~ closing'
         \/ task'[t].pc \in ClosePcs /\ ~ closing /\ closing'
         \/ task'[t].pc \in ClosePcs /\ t \in Closers /\ closing' = closing
  BY CloseEffect DEF IInv
<1>2. ForcedKnown'
  <2>1. task'[t].pc \notin {"f_take", "f_clear"}
    BY <1>1 DEF Inner, ClosePcs
  <2> QED
    BY <1>1, <2>1 DEF IInv, ForcedKnown, StaysOut, Inner
<1>3. \A u \in Tasks \ {t} : u \in Closers' => u \in Closers
  BY <1>1 DEF StaysOut, Closers, Inner
<1>4. t \in Closers' <=> task'[t].pc \in ClosePcs
  BY DEF Closers
<1>5. \A u \in Closers' : u \in Tasks
  BY DEF Closers
<1>6. CloserExclusion'
  <2> SUFFICES ASSUME ~ forced PROVE (\A u, v \in Closers' : u = v) /\ (Closers' # {} => closing')
    BY <1>1 DEF CloserExclusion
  <2>1. (\A u, v \in Closers : u = v) /\ (Closers # {} => closing)
    BY DEF IInv, CloserExclusion
  <2> QED
    BY <1>1, <1>3, <1>4, <1>5, <2>1 DEF Inner
<1> QED
  BY <1>1, <1>2, <1>6 DEF IInv

\* The recovery is forced before it opens the latch over the closer's head.
LEMMA ForceKeepsIInv ==
    ASSUME IInv, NEW t \in Tasks, ForceAbort(t) \/ ForceTake(t) \/ ForceClear(t)
    PROVE  IInv'
<1>1. TypeOK /\ TasksType /\ Handles
  BY DEF IInv, TypeOK, TasksType, Handles
<1>2. CASE ForceAbort(t) /\ closing
  <2>1. PICK g \in [Tasks -> TaskType] :
           g = Abort(task, watch) /\ \A u \in Tasks : g[u].pc = task[u].pc
    BY <1>1, AbortType DEF TasksType, Handles
  <2>2. PICK f \in [Tasks -> TaskType] :
           f = Abort(g, retained) /\ \A u \in Tasks : f[u].pc = g[u].pc
    BY <1>1, AbortType DEF Handles
  <2>3. task' = [f EXCEPT ![t].pc = "f_take"] /\ \A u \in Tasks : f[u].pc = task[u].pc
    BY <1>2, <2>1, <2>2 DEF ForceAbort
  <2>4. TasksType'
    BY <1>1, <2>3, MoveEffect, PcsAre
  <2> QED
    BY <1>1, <1>2, <2>4 DEF ForceAbort, IInv, TypeOK, TasksType, ForcedKnown, CloserExclusion
<1>3. CASE ForceAbort(t) /\ ~ closing
  <2>1. PICK l \in Pcs : l = task[t].after /\ l \notin Inner
    BY <1>1, AfterOutside DEF Inner, ForcePcs
  <2>2. task' = [task EXCEPT ![t].pc = l, ![t].after = "free"]
    BY <1>3, <2>1 DEF ForceAbort
  <2>3. TasksType' /\ StaysOut({t}) /\ task'[t].pc = l
    BY <1>1, <2>2, MoveAfterEffect
  <2>4. StaysOut({})
    BY <2>1, <2>3, OutMeansOut
  <2> QED
    BY <1>1, <1>3, <2>3, <2>4, QuietKeepsIInv DEF ForceAbort, Quiet, TypeOK, TasksType
<1>4. CASE ForceTake(t)
  <2>1. TasksType' /\ StaysOut({t}) /\ task'[t].pc = "f_clear"
    BY <1>1, <1>4, MoveEffect, PcsAre DEF ForceTake, Goto, TasksType
  <2>2. forced /\ forced' = forced
    BY <1>4 DEF ForceTake, IInv, ForcedKnown, At
  <2> QED
    BY <1>1, <1>4, <2>1, <2>2 DEF ForceTake, IInv, TypeOK, TasksType, ForcedKnown,
                                  CloserExclusion
<1>5. CASE ForceClear(t)
  <2>1. forced /\ forced' = forced
    BY <1>5 DEF ForceClear, IInv, ForcedKnown, At
  <2>2. PICK l \in Pcs : l = task[t].after /\ l \notin {"f_take", "f_clear"}
    BY <1>1, AfterOutside DEF ForcePcs
  <2>3. task' = [task EXCEPT ![t].pc = l, ![t].after = "free"]
    BY <1>5, <2>2 DEF ForceClear
  <2>4. TasksType'
    BY <1>1, <2>3, MoveAfterEffect
  <2>5. TypeOK'
    BY <1>1, <1>5, <2>4 DEF ForceClear, TypeOK, TasksType
  <2> QED
    BY <2>1, <2>5 DEF IInv, ForcedKnown, CloserExclusion
<1> QED
  BY <1>2, <1>3, <1>4, <1>5

LEMMA NextIInv == IInv /\ [Next]_vars => IInv'
<1> SUFFICES ASSUME IInv, [Next]_vars PROVE IInv'
  OBVIOUS
<1>1. TypeOK
  BY DEF IInv
<1>2. ASSUME NEW t \in Tasks, Event(t) PROVE IInv'
  <2>1. /\ TasksType' /\ Handles' /\ StaysOut({}) /\ left' \in 0 .. MaxEvents
        /\ UNCHANGED <<session, lock, tts, closing, needHello, cleanup, forced>>
    BY <1>1, <1>2, EventEffect
  <2>2. Quiet
    BY <1>1, <2>1 DEF Quiet, TypeOK, TasksType, Handles
  <2> QED
    BY <2>2, QuietKeepsIInv
<1>3. ASSUME NEW t \in Tasks, Close(t) PROVE IInv'
  BY <1>3, CloseKeepsIInv
<1>4. ASSUME NEW t \in Tasks, Build(t) PROVE IInv'
  <2>1. CASE ForceAbort(t) \/ ForceTake(t) \/ ForceClear(t)
    BY <2>1, ForceKeepsIInv
  <2>2. CASE ~ (ForceAbort(t) \/ ForceTake(t) \/ ForceClear(t))
    <3>1. Quiet
      BY <1>1, <1>4, <2>2, BuildEffect DEF Build
    <3> QED
      BY <3>1, QuietKeepsIInv
  <2> QED
    BY <2>1, <2>2
<1>5. ASSUME NEW t \in Tasks, Listen(t) \/ Goodbye(t) \/ WatchPending(t)
                                \/ WatchExits(t) \/ Dies(t) \/ Timer(t)
      PROVE  IInv'
  BY <1>1, <1>5, OtherEffect, QuietKeepsIInv
<1>6. ASSUME NEW n \in SessionIds, Cleanup(n) PROVE IInv'
  BY <1>1, <1>6, CleanupEffect, QuietKeepsIInv
<1>7. CASE UNCHANGED vars
  BY <1>7 DEF vars, IInv, TypeOK, ForcedKnown, CloserExclusion, Closers
<1> QED
  BY <1>2, <1>3, <1>4, <1>5, <1>6, <1>7 DEF Next, Run

\* The tasks, the handles they leave behind and the session keep their types.
THEOREM TypeCorrect == Spec => []TypeOK
<1>1. IInv => TypeOK
  BY DEF IInv
<1> QED
  BY <1>1, InitIInv, NextIInv, PTL DEF Spec

\* Until a recovery is forced at most one task is closing the session, and then
\* the latch is set: for every number of tasks.
THEOREM OneCloser == Spec => []CloserExclusion
<1>1. IInv => CloserExclusion
  BY DEF IInv
<1> QED
  BY <1>1, InitIInv, NextIInv, PTL DEF Spec

-----------------------------------------------------------------------------
\* The watchdog of an idle session

\* Who may be aborted, and where such a task can be: a watchdog, a retained timer
\* or a recognition loop that closes its session is never a task that builds one.
Abortable == {"idle", "retained", "fatal"}

Fits(r) ==
    /\ r.reason = "idle" => /\ r.pc \in {"w_tick", "w_pending", "c_swap"} \cup ClosePcs
                            /\ r.after = "w_tick"
    /\ r.reason = "retained" => /\ r.pc \in {"r_sleep", "c_swap"} \cup ClosePcs
                                /\ r.after = "free"
    /\ r.reason = "fatal" => /\ r.pc \in {"c_swap", "l_unlock"} \cup ClosePcs
                             /\ r.after \in {"free", "l_unlock"}
    /\ r.aborted => r.reason \in Abortable

Roles == \A t \in Tasks : Fits(task[t])

\* A stored handle is that of a task of its kind.
HandlesFit ==
    /\ watch # NoTask => task[watch].reason = "idle"
    /\ retained # NoTask => task[retained].reason = "retained"

BuildPcs == {"i_tts", "i_watch", "i_store"}
TakePcs == {"c_watch", "c_retained", "c_tts", "c_take"}

\* A session is due its watchdog once it is built, and until a closer that holds
\* the latch takes it or dies with the latch set.
Due ==
    /\ ~ forced /\ session # NoSession
    /\ \A t \in Tasks : task[t].pc \notin BuildPcs \cup TakePcs
    /\ ~ (closing /\ \A t \in Tasks : task[t].pc \notin ClosePcs)

Live(t) == task[t].reason = "idle" /\ ~ task[t].aborted

Watched == Due => \E w \in Tasks : Live(w)

WatchInv == IInv /\ Roles /\ HandlesFit /\ Watched

-----------------------------------------------------------------------------
\* The tasks after some were aborted

\* f is the tasks as they are, but some task of the kinds K may be aborted.
After(f, K) ==
    /\ f \in [Tasks -> TaskType]
    /\ \A u \in Tasks : /\ f[u].pc = task[u].pc
                        /\ f[u].reason = task[u].reason
                        /\ f[u].after = task[u].after
                        /\ f[u].aborted => task[u].aborted \/ task[u].reason \in K

LEMMA AbortAborts ==
    ASSUME NEW f \in [Tasks -> TaskType], NEW h \in Tasks \cup {NoTask},
           NEW u \in Tasks, Abort(f, h)[u].aborted
    PROVE  f[u].aborted \/ u = h
<1>1. CASE h = NoTask
  BY <1>1 DEF Abort
<1>2. CASE h # NoTask
  BY <1>2 DEF Abort
<1> QED
  BY <1>1, <1>2

LEMMA AfterNothing == TypeOK => After(task, {})
  BY DEF TypeOK, After

LEMMA AfterRetained == TypeOK /\ HandlesFit => After(Abort(task, retained), {"retained"})
<1> SUFFICES ASSUME TypeOK, HandlesFit PROVE After(Abort(task, retained), {"retained"})
  OBVIOUS
<1>1. task \in [Tasks -> TaskType] /\ retained \in Tasks \cup {NoTask}
  BY DEF TypeOK
<1>2. \A u \in Tasks : u = retained => task[u].reason = "retained"
  BY LifecycleAssumption DEF HandlesFit
<1> QED
  BY <1>1, <1>2, AbortType, AbortAborts DEF After

LEMMA AfterWatch == TypeOK /\ HandlesFit => After(Abort(task, watch), {"idle"})
<1> SUFFICES ASSUME TypeOK, HandlesFit PROVE After(Abort(task, watch), {"idle"})
  OBVIOUS
<1>1. task \in [Tasks -> TaskType] /\ watch \in Tasks \cup {NoTask}
  BY DEF TypeOK
<1>2. \A u \in Tasks : u = watch => task[u].reason = "idle"
  BY LifecycleAssumption DEF HandlesFit
<1> QED
  BY <1>1, <1>2, AbortType, AbortAborts DEF After

LEMMA AfterLoops == ASSUME TypeOK, NEW n PROVE After(AbortLoops(task, n), {"fatal"})
<1>1. task \in [Tasks -> TaskType]
  BY DEF TypeOK
<1>2. ASSUME NEW u \in Tasks
      PROVE  /\ AbortLoops(task, n)[u].reason = task[u].reason
             /\ AbortLoops(task, n)[u].after = task[u].after
             /\ AbortLoops(task, n)[u].aborted => task[u].aborted \/ task[u].reason = "fatal"
  <2>1. /\ [task[u] EXCEPT !.aborted = TRUE].reason = task[u].reason
        /\ [task[u] EXCEPT !.aborted = TRUE].after = task[u].after
    BY <1>1 DEF TaskType
  <2> QED
    BY <2>1 DEF AbortLoops
<1> QED
  BY <1>1, <1>2, AbortLoopsType DEF After

-----------------------------------------------------------------------------
\* What a step leaves in order

Orderly == Roles' /\ HandlesFit'

\* The places of the tasks outside E are as they were.
Placed(E) == \A u \in Tasks \ E : task'[u].pc = task[u].pc

Spares == \A u \in Tasks : Live(u) => Live(u)'

\* A walk may lead t from its place to l.
Path(t, l) ==
    \/ task[t].reason \notin Abortable
    \/ l \in {"c_swap"} \cup ClosePcs
    \/ task[t].pc = "w_tick" /\ l = "w_pending"
    \/ task[t].pc = "w_pending" /\ l = "w_tick"
    \/ l = task[t].after /\ l # "free"

\* t goes to l, as what it was.
Walks(f, t, l) ==
    /\ task'[t].pc = l
    /\ task'[t].reason = f[t].reason /\ task'[t].after = f[t].after
    /\ task'[t].aborted = f[t].aborted
    /\ \A u \in Tasks \ {t} : task'[u] = f[u]

LEMMA WalksPc ==
    ASSUME NEW f \in [Tasks -> TaskType], NEW t \in Tasks, NEW l,
           task' = [f EXCEPT ![t].pc = l]
    PROVE  Walks(f, t, l)
<1>1. PICK r : r = [f[t] EXCEPT !.pc = l]
  OBVIOUS
<1>2. r.pc = l /\ r.reason = f[t].reason /\ r.after = f[t].after /\ r.aborted = f[t].aborted
  BY <1>1 DEF TaskType
<1>3. task' = [f EXCEPT ![t] = r]
  BY <1>1
<1> QED
  BY <1>2, <1>3 DEF Walks

LEMMA WalksMine ==
    ASSUME NEW f \in [Tasks -> TaskType], NEW t \in Tasks, NEW l, NEW n,
           task' = [f EXCEPT ![t].pc = l, ![t].mine = n]
    PROVE  Walks(f, t, l)
<1>1. PICK r : r = [[f[t] EXCEPT !.pc = l] EXCEPT !.mine = n]
  OBVIOUS
<1>2. r.pc = l /\ r.reason = f[t].reason /\ r.after = f[t].after /\ r.aborted = f[t].aborted
  BY <1>1 DEF TaskType
<1>3. task' = [f EXCEPT ![t] = r]
  BY <1>1
<1> QED
  BY <1>2, <1>3 DEF Walks

\* A handle was kept or dropped.
Dropped == watch' \in {watch, NoTask} /\ retained' \in {retained, NoTask}

LEMMA WalkOrderly ==
    ASSUME TypeOK, Roles, HandlesFit, Dropped, NEW K \in SUBSET Abortable, NEW f,
           After(f, K), NEW t \in Tasks, NEW l, Walks(f, t, l), Path(t, l)
    PROVE  /\ Orderly /\ Placed({t})
           /\ "idle" \notin K => Spares
<1>1. \A u \in Tasks : /\ task'[u].reason = task[u].reason
                       /\ task'[u].after = task[u].after
                       /\ task'[u].aborted => task[u].aborted \/ task[u].reason \in K
  BY DEF Walks, After
<1>2. Placed({t})
  BY DEF Walks, After, Placed
<1>3. ASSUME NEW u \in Tasks PROVE Fits(task'[u])
  <2>1. Fits(task[u]) /\ (task'[u].aborted => task'[u].reason \in Abortable)
    BY <1>1 DEF Roles, Fits
  <2>2. CASE u # t
    BY <1>1, <1>2, <2>1, <2>2 DEF Placed, Fits
  <2>3. CASE u = t /\ task[t].reason \notin Abortable
    BY <1>1, <2>1, <2>3 DEF Fits, Abortable
  <2>4. CASE u = t /\ task[t].reason \in Abortable
    <3>1. task'[t].pc = l
      BY DEF Walks
    <3> QED
      BY <1>1, <2>1, <2>4, <3>1 DEF Fits, Path, Abortable, ClosePcs
  <2> QED
    BY <2>2, <2>3, <2>4
<1>4. HandlesFit'
  <2>1. {watch, retained} \subseteq Tasks \cup {NoTask}
    BY DEF TypeOK
  <2> QED
    BY <1>1, <2>1 DEF HandlesFit, Dropped
<1>5. "idle" \notin K => Spares
  BY <1>1 DEF Spares, Live
<1> QED
  BY <1>2, <1>3, <1>4, <1>5 DEF Orderly, Roles

LEMMA EndedOrderly ==
    ASSUME TypeOK, Roles, HandlesFit, NEW K \in SUBSET Abortable, NEW f,
           After(f, K), NEW t \in Tasks, Ended(f, t)
    PROVE  /\ Orderly /\ Placed({t}) /\ task'[t].pc = "free"
           /\ "idle" \notin K /\ ~ Live(t) => Spares
<1>1. /\ task'[t] = Idle
      /\ \A u \in Tasks \ {t} : task'[u] = f[u]
  BY DEF Ended, After
<1>2. /\ Idle.pc = "free" /\ Idle.reason = "none" /\ Idle.aborted = FALSE
  BY DEF Idle
<1>3. ASSUME NEW u \in Tasks \ {t}
      PROVE  /\ task'[u].reason = task[u].reason
             /\ task'[u].after = task[u].after
             /\ task'[u].pc = task[u].pc
             /\ task'[u].aborted => task[u].aborted \/ task[u].reason \in K
  BY <1>1 DEF After
<1>4. Fits(Idle)
  BY <1>2 DEF Fits
<1>5. ASSUME NEW u \in Tasks PROVE Fits(task'[u])
  <2>1. CASE u = t
    BY <1>1, <1>4, <2>1
  <2>2. CASE u # t
    BY <1>3, <2>2 DEF Roles, Fits
  <2> QED
    BY <2>1, <2>2
<1>6. HandlesFit'
  <2>1. {watch, retained} \subseteq Tasks \cup {NoTask}
    BY DEF TypeOK
  <2>2. /\ watch' # NoTask => watch' = watch /\ watch # t
        /\ retained' # NoTask => retained' = retained /\ retained # t
    BY DEF Ended
  <2> QED
    BY <1>3, <2>1, <2>2 DEF HandlesFit
<1>7. "idle" \notin K /\ ~ Live(t) => Spares
  BY <1>3 DEF Spares, Live
<1> QED
  BY <1>1, <1>2, <1>3, <1>5, <1>6, <1>7 DEF Orderly, Roles, Placed

\* t becomes another kind of task, or another task altogether.
LEMMA BecomesOrderly ==
    ASSUME TypeOK, Roles, HandlesFit, Dropped, NEW K \in SUBSET Abortable, NEW f,
           After(f, K), NEW t \in Tasks, task[t].reason \notin {"idle", "retained"},
           Fits(task'[t]), \A u \in Tasks \ {t} : task'[u] = f[u]
    PROVE  /\ Orderly /\ Placed({t})
           /\ "idle" \notin K => Spares
<1>1. ASSUME NEW u \in Tasks \ {t}
      PROVE  /\ task'[u].reason = task[u].reason
             /\ task'[u].after = task[u].after
             /\ task'[u].pc = task[u].pc
             /\ task'[u].aborted => task[u].aborted \/ task[u].reason \in K
  BY DEF After
<1>2. ASSUME NEW u \in Tasks PROVE Fits(task'[u])
  BY <1>1 DEF Roles, Fits
<1>3. HandlesFit'
  <2>1. {watch, retained} \subseteq Tasks \cup {NoTask}
    BY DEF TypeOK
  <2>2. watch # t /\ retained # t
    BY LifecycleAssumption DEF HandlesFit
  <2> QED
    BY <1>1, <2>1, <2>2 DEF HandlesFit, Dropped
<1>4. "idle" \notin K => Spares
  BY <1>1 DEF Spares, Live
<1> QED
  BY <1>1, <1>2, <1>3, <1>4 DEF Orderly, Roles, Placed

\* t, which no handle is of, starts the task w and stores its handle.
Spawns(t, w) ==
    /\ task[t].reason \notin Abortable /\ task[w].pc = "free"
    /\ Fits(task'[t]) /\ Fits(task'[w])
    /\ \A u \in Tasks \ {t, w} : task'[u] = task[u]
    /\ watch' = watch \/ (watch' = w /\ task'[w].reason = "idle")
    /\ retained' = retained \/ (retained' = w /\ task'[w].reason = "retained")

LEMMA SpawnOrderly ==
    ASSUME TypeOK, Roles, HandlesFit, NEW t \in Tasks, NEW w \in Tasks, Spawns(t, w)
    PROVE  Orderly /\ Placed({t, w}) /\ Spares
<1> USE DEF Spawns
<1>1. task[w].reason \notin Abortable
  BY DEF Roles, Fits, Abortable, ClosePcs
<1>2. ASSUME NEW u \in Tasks PROVE Fits(task'[u])
  BY DEF Roles
<1>3. HandlesFit'
  <2>1. {watch, retained} \subseteq Tasks \cup {NoTask}
    BY DEF TypeOK
  <2>2. watch # t /\ retained # t /\ watch # w /\ retained # w
    BY <1>1, LifecycleAssumption DEF HandlesFit, Abortable
  <2> QED
    BY <2>1, <2>2 DEF HandlesFit
<1>4. Spares
  BY <1>1 DEF Spares, Live, Abortable
<1> QED
  BY <1>2, <1>3, <1>4 DEF Orderly, Roles, Placed

-----------------------------------------------------------------------------
\* When a session is due its watchdog

\* The step takes u neither out of the building nor out of the taking of a session,
\* nor into a close.
Calm(u) ==
    /\ task[u].pc \in BuildPcs => task'[u].pc \in BuildPcs
    /\ task[u].pc \in TakePcs => task'[u].pc \in TakePcs
    /\ task'[u].pc \in ClosePcs => task[u].pc \in ClosePcs

LEMMA CalmDue ==
    ASSUME forced' = forced, closing' = closing, session' \in {session, NoSession},
           \A u \in Tasks : Calm(u)
    PROVE  Due' => Due
  BY DEF Due, Calm

LEMMA CalmWatched ==
    ASSUME Watched, Spares, Due' => Due
    PROVE  Watched'
  BY DEF Watched, Spares

\* A step of t alone.
LEMMA CalmStep ==
    ASSUME Watched, Spares, forced' = forced, closing' = closing,
           session' \in {session, NoSession}, NEW t \in Tasks, Placed({t}), Calm(t)
    PROVE  Watched'
<1>1. \A u \in Tasks : Calm(u)
  BY DEF Placed, Calm
<1> QED
  BY <1>1, CalmDue, CalmWatched

LEMMA NotDueWatched == ~ Due' => Watched'
  BY DEF Watched

WatchKept == Roles' /\ HandlesFit' /\ Watched'

-----------------------------------------------------------------------------
\* The steps

LEMMA CalmWalk ==
    ASSUME WatchInv, Dropped, forced' = forced, closing' = closing,
           session' \in {session, NoSession},
           NEW K \in SUBSET {"retained", "fatal"}, NEW f, After(f, K),
           NEW t \in Tasks, NEW l, Walks(f, t, l), Path(t, l),
           task[t].pc \in BuildPcs => l \in BuildPcs,
           task[t].pc \in TakePcs => l \in TakePcs,
           l \in ClosePcs => task[t].pc \in ClosePcs
    PROVE  WatchKept
<1>1. Orderly /\ Placed({t}) /\ Spares
  BY WalkOrderly DEF WatchInv, IInv, Abortable
<1>2. Calm(t)
  BY DEF Walks, Calm
<1>3. Watched'
  BY <1>1, <1>2, CalmStep DEF WatchInv
<1> QED
  BY <1>1, <1>3 DEF WatchKept, Orderly

LEMMA CalmEnd ==
    ASSUME WatchInv, forced' = forced, closing' = closing, session' \in {session, NoSession},
           NEW K \in SUBSET {"retained", "fatal"}, NEW f, After(f, K),
           NEW t \in Tasks, Ended(f, t), ~ Live(t),
           task[t].pc \notin BuildPcs \cup TakePcs
    PROVE  WatchKept
<1>1. Orderly /\ Placed({t}) /\ task'[t].pc = "free" /\ Spares
  BY EndedOrderly DEF WatchInv, IInv, Abortable
<1>2. Calm(t)
  BY <1>1 DEF Calm, ClosePcs
<1>3. Watched'
  BY <1>1, <1>2, CalmStep DEF WatchInv
<1> QED
  BY <1>1, <1>3 DEF WatchKept, Orderly

\* Which tasks are at the places of a build, of a listen start or of a goodbye.
LEMMA PlacesTell ==
    ASSUME Roles, NEW t \in Tasks,
           task[t].pc \notin {"w_tick", "w_pending", "r_sleep", "c_swap", "l_unlock"} \cup ClosePcs
    PROVE  task[t].reason \notin Abortable /\ ~ task[t].aborted /\ ~ Live(t)
  BY DEF Roles, Fits, Abortable, Live

LEMMA EventWatched == ASSUME WatchInv, NEW t \in Tasks, Event(t) PROVE WatchKept
<1>1. PICK l \in {"h_sid", "e_wait", "p_reset", "c_swap"}, reason \in Reasons,
           mine \in SessionIds \cup {NoSession} :
         /\ Arrives(t, l, reason, mine)
         /\ reason \notin {"idle", "retained"} /\ (reason = "fatal" => l = "c_swap")
  BY DEF Event, HelloArrives, ListenArrives, GoodbyeArrives, ExitRequested,
         RecognitionFails, Reasons, WatchInv, IInv, TypeOK
<1>2. TypeOK /\ Roles /\ HandlesFit /\ Watched
  BY DEF WatchInv, IInv
<1>3. PICK h \in {retained, NoTask} :
         h = IF reason \in {"hello", "listen"} THEN retained ELSE NoTask
  OBVIOUS
<1>4. After(Abort(task, h), {"retained"})
  <2>1. CASE h = NoTask
    BY <1>2, <2>1, AfterNothing DEF Abort, After
  <2>2. CASE h = retained
    BY <1>2, <2>2, AfterRetained
  <2> QED
    BY <2>1, <2>2
<1>5. PICK r : r = [Idle EXCEPT !.pc = l, !.reason = reason, !.mine = mine]
  OBVIOUS
<1>6. r.pc = l /\ r.reason = reason /\ r.after = "free" /\ r.aborted = FALSE
  BY <1>5 DEF Idle
<1>7. task' = [Abort(task, h) EXCEPT ![t] = r]
  BY <1>1, <1>3, <1>5 DEF Arrives
<1>8. task'[t] = r /\ \A u \in Tasks \ {t} : task'[u] = Abort(task, h)[u]
  BY <1>4, <1>7 DEF After
<1>9. Fits(task'[t])
  BY <1>1, <1>6, <1>8 DEF Fits
<1>10. task[t].pc = "free" /\ Dropped
  BY <1>1 DEF Arrives, At, Dropped
<1>11. task[t].reason \notin Abortable
  BY <1>2, <1>10, PlacesTell DEF ClosePcs
<1>12. Orderly /\ Placed({t}) /\ Spares
  BY <1>2, <1>4, <1>8, <1>9, <1>10, <1>11, BecomesOrderly DEF Abortable
<1>13. Calm(t)
  BY <1>6, <1>8, <1>10 DEF Calm, BuildPcs, TakePcs, ClosePcs
<1>14. Watched'
  BY <1>1, <1>2, <1>12, <1>13, CalmStep DEF Arrives
<1> QED
  BY <1>12, <1>14 DEF WatchKept, Orderly

\* The call of close_session_with_reason returns.
LEMMA ReturnOrderly ==
    ASSUME TypeOK, Roles, HandlesFit, NEW t \in Tasks, Return(t)
    PROVE  /\ Orderly /\ Placed({t}) /\ Spares
           /\ task'[t].pc \notin BuildPcs \cup ClosePcs
<1>1. After(task, {})
  BY AfterNothing
<1>2. task[t].after \in {"free", "w_tick", "l_unlock", "e_check", "i_check"}
  BY DEF TypeOK, TaskType
<1>3. CASE task[t].after = "free"
  <2>1. Ended(task, t)
    BY <1>3 DEF Return
  <2>2. ~ Live(t)
    BY <1>3 DEF Roles, Fits, Live
  <2>3. Orderly /\ Placed({t}) /\ Spares /\ task'[t].pc = "free"
    BY <1>1, <2>1, <2>2, EndedOrderly DEF Abortable
  <2> QED
    BY <2>3 DEF BuildPcs, ClosePcs
<1>4. CASE task[t].after # "free"
  <2>1. /\ task' = [task EXCEPT ![t].pc = task[t].after, ![t].mine = NoSession]
        /\ Dropped
    BY <1>4 DEF Return, Dropped
  <2>2. Walks(task, t, task[t].after)
    BY <2>1, WalksMine DEF TypeOK
  <2>3. Path(t, task[t].after)
    BY <1>4 DEF Path
  <2>4. Orderly /\ Placed({t}) /\ Spares
    BY <1>1, <2>1, <2>2, <2>3, WalkOrderly
  <2> QED
    BY <1>2, <2>2, <2>4 DEF Walks, BuildPcs, ClosePcs
<1> QED
  BY <1>3, <1>4

LEMMA CloseWatched == ASSUME WatchInv, NEW t \in Tasks, Close(t) PROVE WatchKept
<1>1. TypeOK /\ Roles /\ HandlesFit /\ Watched
  BY DEF WatchInv, IInv
<1>2. task \in [Tasks -> TaskType] /\ After(task, {})
  BY <1>1, AfterNothing DEF TypeOK
<1>3. CASE CloseSwap(t) /\ closing
  <2>1. /\ Return(t) /\ closing' = closing /\ forced' = forced /\ session' = session
        /\ task[t].pc = "c_swap"
    BY <1>1, <1>3 DEF CloseSwap, At, TypeOK
  <2>2. Orderly /\ Placed({t}) /\ Spares /\ task'[t].pc \notin BuildPcs \cup ClosePcs
    BY <1>1, <2>1, ReturnOrderly
  <2>3. Calm(t)
    BY <2>1, <2>2 DEF Calm, BuildPcs, TakePcs
  <2>4. Watched'
    BY <1>1, <2>1, <2>2, <2>3, CalmStep
  <2> QED
    BY <2>2, <2>4 DEF WatchKept, Orderly
<1>4. ASSUME NEW l \in TakePcs, NEW K \in SUBSET Abortable, NEW f, After(f, K),
             Walks(f, t, l), Dropped
      PROVE  WatchKept
  <2>1. Path(t, l)
    BY DEF Path, TakePcs, ClosePcs
  <2>2. Orderly
    BY <1>1, <1>4, <2>1, WalkOrderly
  <2>3. ~ Due'
    BY <1>4 DEF Due, Walks
  <2> QED
    BY <2>2, <2>3, NotDueWatched DEF WatchKept, Orderly
<1>5. CASE CloseSwap(t) /\ ~ closing
  <2>1. Walks(task, t, "c_watch") /\ Dropped
    BY <1>2, <1>5, WalksPc DEF CloseSwap, Goto, Dropped
  <2> QED
    BY <1>2, <1>4, <2>1 DEF TakePcs, Abortable
<1>6. CASE CloseWatch(t)
  <2>1. PICK f : f = Abort(task, watch) /\ After(f, {"idle"})
    BY <1>1, AfterWatch
  <2>2. Walks(f, t, "c_retained") /\ Dropped
    BY <1>6, <2>1, WalksPc DEF CloseWatch, Dropped, After
  <2> QED
    BY <1>4, <2>1, <2>2 DEF TakePcs, Abortable
<1>7. CASE CloseRetained(t)
  <2>1. PICK f : f = Abort(task, retained) /\ After(f, {"retained"})
    BY <1>1, AfterRetained
  <2>2. Walks(f, t, "c_tts") /\ Dropped
    BY <1>7, <2>1, WalksPc DEF CloseRetained, Dropped, After
  <2> QED
    BY <1>4, <2>1, <2>2 DEF TakePcs, Abortable
<1>8. CASE CloseInterrupt(t)
  <2>1. Walks(task, t, "c_take") /\ Dropped
    BY <1>2, <1>8, WalksPc DEF CloseInterrupt, Goto, Dropped
  <2> QED
    BY <1>2, <1>4, <2>1 DEF TakePcs, Abortable
<1>9. CASE CloseTake(t)
  <2>1. session' = NoSession
    BY <1>9 DEF CloseTake
  <2>2. Watched'
    BY <2>1, NotDueWatched DEF Due
  <2>3. CASE session = NoSession
    BY <1>1, <1>9, <2>2, <2>3, ReturnOrderly DEF CloseTake, WatchKept, Orderly
  <2>4. CASE session # NoSession
    <3>1. Walks(task, t, "c_clear") /\ Dropped
      BY <1>2, <1>9, <2>4, WalksMine DEF CloseTake, Dropped
    <3>2. Orderly
      BY <1>1, <1>2, <3>1, WalkOrderly DEF Path, ClosePcs, Abortable
    <3> QED
      BY <2>2, <3>2 DEF WatchKept, Orderly
  <2> QED
    BY <2>3, <2>4
<1>10. CASE CloseClear(t)
  <2>1. /\ Return(t) /\ forced' = forced /\ session' = session /\ closing' = FALSE
        /\ task[t].pc = "c_clear"
    BY <1>10 DEF CloseClear, At
  <2>2. Orderly /\ Placed({t}) /\ Spares /\ task'[t].pc \notin BuildPcs \cup ClosePcs
    BY <1>1, <2>1, ReturnOrderly
  <2>3. Due' => Due
    BY <2>1, <2>2 DEF Due, Placed, BuildPcs, TakePcs, ClosePcs
  <2> QED
    BY <1>1, <2>2, <2>3, CalmWatched DEF WatchKept, Orderly
<1> QED
  BY <1>3, <1>5, <1>6, <1>7, <1>8, <1>9, <1>10 DEF Close

\* The waits, the recovery and init_session.
LEMMA BuildWatched == ASSUME WatchInv, NEW t \in Tasks, Build(t) PROVE WatchKept
<1>1. TypeOK /\ Roles /\ HandlesFit /\ Watched
  BY DEF WatchInv, IInv
<1>2. task \in [Tasks -> TaskType] /\ After(task, {})
  BY <1>1, AfterNothing DEF TypeOK
<1>3. ASSUME NEW l \in Pcs, l \notin ClosePcs, Walks(task, t, l),
             task[t].pc \in {"h_sid", "e_wait", "i_wait", "e_check", "i_check"},
             UNCHANGED <<session, closing, watch, retained, forced>>
      PROVE  WatchKept
  <2>1. Path(t, l)
    BY <1>1, <1>3, PlacesTell DEF Path, ClosePcs
  <2> QED
    BY <1>2, <1>3, <2>1, CalmWalk DEF Dropped, BuildPcs, TakePcs
<1>4. CASE HelloSessionId(t) \/ WaitClosed(t) \/ EnsureCheck(t) \/ InitCheck(t)
  <2>1. PICK l \in {"i_wait", "i_check", "e_check", "l_lock", "i_watch", "i_install"} :
           /\ task' = [task EXCEPT ![t].pc = l]
           /\ task[t].pc \in {"h_sid", "e_wait", "i_wait", "e_check", "i_check"}
           /\ UNCHANGED <<session, closing, watch, retained, forced>>
    BY <1>4 DEF HelloSessionId, WaitClosed, EnsureCheck, InitCheck, Goto, AfterWait, At
  <2>2. l \in Pcs /\ l \notin ClosePcs
    BY DEF Pcs, InitPcs, OtherPcs, ClosePcs
  <2> QED
    BY <1>2, <1>3, <2>1, <2>2, WalksPc
<1>5. ASSUME NEW a, NEW l, l \notin ClosePcs,
             task[t].pc \in {"e_wait", "i_wait", "f_abort", "f_clear"},
             task' = [task EXCEPT ![t].pc = l, ![t].after = a], Dropped
      PROVE  Orderly /\ Placed({t}) /\ Spares /\ task'[t].pc = l
  <2>1. PICK r : r = [[task[t] EXCEPT !.pc = l] EXCEPT !.after = a]
    OBVIOUS
  <2>2. r.pc = l /\ r.reason = task[t].reason /\ r.aborted = task[t].aborted
    BY <1>2, <2>1 DEF TaskType
  <2>3. task' = [task EXCEPT ![t] = r]
    BY <1>2, <1>5, <2>1
  <2>4. task'[t] = r /\ \A u \in Tasks \ {t} : task'[u] = task[u]
    BY <1>2, <2>3
  <2>5. task[t].reason \notin Abortable /\ ~ task[t].aborted
    BY <1>1, <1>5, PlacesTell DEF ClosePcs
  <2>6. Fits(task'[t])
    BY <2>2, <2>4, <2>5 DEF Fits, Abortable
  <2> QED
    BY <1>1, <1>2, <1>5, <2>2, <2>4, <2>5, <2>6, BecomesOrderly DEF Abortable
<1>6. CASE WaitTimeout(t)
  <2>1. Orderly /\ Placed({t}) /\ Spares /\ task'[t].pc = "f_abort"
    BY <1>5, <1>6 DEF WaitTimeout, ClosePcs, Dropped
  <2>2. Calm(t)
    BY <1>6, <2>1 DEF Calm, WaitTimeout, BuildPcs, TakePcs, ClosePcs
  <2>3. Watched'
    BY <1>1, <1>6, <2>1, <2>2, CalmStep DEF WaitTimeout
  <2> QED
    BY <2>1, <2>3 DEF WatchKept, Orderly
<1>7. CASE ForceAbort(t) /\ ~ closing
  <2>1. PICK l : l = task[t].after
    OBVIOUS
  <2>2. l \notin ClosePcs
    BY <1>2, <2>1 DEF TaskType, ClosePcs
  <2>3. /\ task' = [task EXCEPT ![t].pc = l, ![t].after = "free"] /\ Dropped
        /\ task[t].pc = "f_abort" /\ UNCHANGED <<session, closing, forced>>
    BY <1>7, <2>1 DEF ForceAbort, Dropped, At
  <2>4. Orderly /\ Placed({t}) /\ Spares /\ task'[t].pc = l
    BY <1>5, <2>2, <2>3
  <2>5. Calm(t)
    BY <2>2, <2>3, <2>4 DEF Calm, BuildPcs, TakePcs, ClosePcs
  <2>6. Watched'
    BY <1>1, <2>3, <2>4, <2>5, CalmStep
  <2> QED
    BY <2>4, <2>6 DEF WatchKept, Orderly
<1>8. CASE ForceAbort(t) /\ closing
  <2>1. PICK g : g = Abort(task, watch) /\ After(g, {"idle"})
    BY <1>1, AfterWatch
  <2>2. PICK f : f = Abort(g, retained)
    OBVIOUS
  <2>3. /\ g \in [Tasks -> TaskType] /\ retained \in Tasks \cup {NoTask}
        /\ \A u \in Tasks : u = retained => task[u].reason = "retained"
    BY <1>1, <2>1, LifecycleAssumption DEF After, TypeOK, HandlesFit
  <2>4. After(f, {"idle", "retained"})
    <3>1. /\ f \in [Tasks -> TaskType]
          /\ \A u \in Tasks : /\ f[u].pc = g[u].pc /\ f[u].reason = g[u].reason
                              /\ f[u].after = g[u].after
      BY <2>2, <2>3, AbortType
    <3>2. ASSUME NEW u \in Tasks, f[u].aborted PROVE g[u].aborted \/ u = retained
      BY <2>2, <2>3, <3>2, AbortAborts
    <3> QED
      BY <2>1, <2>3, <3>1, <3>2 DEF After
  <2>5. Walks(f, t, "f_take") /\ Dropped
    BY <1>8, <2>1, <2>2, <2>4, WalksPc DEF ForceAbort, Dropped, After
  <2>6. Path(t, "f_take")
    BY <1>1, <1>8, PlacesTell DEF Path, ForceAbort, At, ClosePcs
  <2>7. Orderly
    BY <1>1, <2>4, <2>5, <2>6, WalkOrderly DEF Abortable
  <2>8. ~ Due'
    BY <1>8 DEF ForceAbort, Due
  <2> QED
    BY <2>7, <2>8, NotDueWatched DEF WatchKept, Orderly
<1>9. CASE ForceTake(t)
  <2>1. Walks(task, t, "f_clear") /\ Dropped /\ session' = NoSession /\ task[t].pc = "f_take"
    BY <1>2, <1>9, WalksPc DEF ForceTake, Goto, Dropped, At
  <2>2. Path(t, "f_clear")
    BY <1>1, <2>1, PlacesTell DEF Path, ClosePcs
  <2>3. Orderly
    BY <1>1, <1>2, <2>1, <2>2, WalkOrderly DEF Abortable
  <2>4. ~ Due'
    BY <2>1 DEF Due
  <2> QED
    BY <2>3, <2>4, NotDueWatched DEF WatchKept, Orderly
<1>10. CASE ForceClear(t)
  <2>1. PICK l : l = task[t].after
    OBVIOUS
  <2>2. l \notin ClosePcs
    BY <1>2, <2>1 DEF TaskType, ClosePcs
  <2>3. /\ task' = [task EXCEPT ![t].pc = l, ![t].after = "free"] /\ Dropped
        /\ task[t].pc = "f_clear" /\ forced' = forced
    BY <1>10, <2>1 DEF ForceClear, Dropped, At
  <2>4. Orderly
    BY <1>5, <2>2, <2>3
  <2>5. ~ Due'
    BY <2>3 DEF Due, WatchInv, IInv, ForcedKnown
  <2> QED
    BY <2>4, <2>5, NotDueWatched DEF WatchKept, Orderly
<1>11. CASE InitFails(t)
  <2>1. Ended(task, t) /\ task[t].pc = "i_install" /\ UNCHANGED <<session, closing, forced>>
    BY <1>11 DEF InitFails, At
  <2>2. ~ Live(t)
    BY <1>1, <2>1, PlacesTell DEF ClosePcs
  <2> QED
    BY <1>2, <2>1, <2>2, CalmEnd DEF BuildPcs, TakePcs
<1>12. ASSUME NEW l \in BuildPcs, NEW K \in SUBSET Abortable, NEW f, After(f, K),
              Walks(f, t, l), Dropped, task[t].pc \in {"i_install", "i_tts", "i_watch"}
       PROVE  WatchKept
  <2>1. Path(t, l)
    BY <1>1, <1>12, PlacesTell DEF Path, ClosePcs
  <2>2. Orderly
    BY <1>1, <1>12, <2>1, WalkOrderly
  <2>3. ~ Due'
    BY <1>12 DEF Due, Walks
  <2> QED
    BY <2>2, <2>3, NotDueWatched DEF WatchKept, Orderly
<1>13. CASE InitInstall(t)
  <2>1. Walks(task, t, "i_tts") /\ Dropped /\ task[t].pc = "i_install"
    BY <1>2, <1>13, WalksMine DEF InitInstall, Dropped, At
  <2> QED
    BY <1>2, <1>12, <2>1 DEF BuildPcs, Abortable
<1>14. CASE InitReady(t)
  <2>1. Walks(task, t, "i_watch") /\ Dropped /\ task[t].pc = "i_tts"
    BY <1>2, <1>14, WalksMine DEF InitReady, Dropped, At
  <2> QED
    BY <1>2, <1>12, <2>1 DEF BuildPcs, Abortable
<1>15. CASE WatchAbort(t)
  <2>1. PICK f : f = Abort(task, watch) /\ After(f, {"idle"})
    BY <1>1, AfterWatch
  <2>2. Walks(f, t, "i_store") /\ Dropped /\ task[t].pc = "i_watch"
    BY <1>15, <2>1, WalksPc DEF WatchAbort, Dropped, After, At
  <2> QED
    BY <1>12, <2>1, <2>2 DEF BuildPcs, Abortable
<1>16. ASSUME NEW w \in Tasks, WatchStore(t, w) PROVE WatchKept
  <2> DEFINE r == [Idle EXCEPT !.pc = "w_tick", !.reason = "idle", !.after = "w_tick"]
             s == IF task[t].reason = "listen" THEN [task[t] EXCEPT !.pc = "l_lock"] ELSE Idle
  <2>1. r.pc = "w_tick" /\ r.reason = "idle" /\ r.after = "w_tick" /\ r.aborted = FALSE
    BY DEF Idle
  <2>2. task[t].pc = "i_store" /\ task[w].pc = "free" /\ t # w
    BY <1>16 DEF WatchStore, At
  <2>3. task[t].reason \notin Abortable /\ ~ task[t].aborted
    BY <1>1, <2>2, PlacesTell DEF ClosePcs
  <2>4. s.reason \notin Abortable /\ ~ s.aborted
    BY <1>2, <2>3 DEF TaskType, Idle, Abortable
  <2>5. task' = [[task EXCEPT ![w] = r] EXCEPT ![t] = s]
    BY <1>2, <1>16, <2>2 DEF WatchStore
  <2> HIDE DEF r, s
  <2>6. task'[w] = r /\ task'[t] = s /\ \A u \in Tasks \ {t, w} : task'[u] = task[u]
    BY <1>2, <2>2, <2>5
  <2>7. Fits(task'[w]) /\ Fits(task'[t])
    BY <2>1, <2>4, <2>6 DEF Fits, Abortable
  <2>8. watch' = w /\ retained' = retained
    BY <1>16 DEF WatchStore
  <2>9. Spawns(t, w)
    BY <2>1, <2>2, <2>3, <2>6, <2>7, <2>8 DEF Spawns
  <2>10. Orderly
    BY <1>1, <2>9, SpawnOrderly
  <2>11. Live(w)'
    BY <2>1, <2>6 DEF Live
  <2> QED
    BY <2>10, <2>11 DEF WatchKept, Orderly, Watched
<1> QED
  BY <1>4, <1>6, <1>7, <1>8, <1>9, <1>10, <1>11, <1>13, <1>14, <1>15, <1>16 DEF Build

\* A task that was aborted dies: a closer of that kind leaves the latch set, and
\* no task that builds a session is among them.
LEMMA DiesWatched == ASSUME WatchInv, NEW t \in Tasks, Dies(t) PROVE WatchKept
<1>1. TypeOK /\ Roles /\ HandlesFit /\ Watched /\ CloserExclusion
  BY DEF WatchInv, IInv
<1>2. After(task, {})
  BY <1>1, AfterNothing
<1>3. /\ task[t].aborted /\ Ended(task, t) /\ UNCHANGED <<session, closing, forced>>
      /\ ~ Live(t)
  BY DEF Dies, Live
<1>4. task[t].pc \notin BuildPcs
  BY <1>1, <1>3, PlacesTell DEF BuildPcs, ClosePcs
<1>5. CASE task[t].pc \notin TakePcs
  BY <1>2, <1>3, <1>4, <1>5, CalmEnd
<1>6. CASE task[t].pc \in TakePcs
  <2>1. Orderly /\ Placed({t}) /\ task'[t].pc = "free"
    BY <1>1, <1>2, <1>3, EndedOrderly DEF Abortable
  <2>2. t \in Closers
    BY <1>6 DEF Closers, TakePcs, ClosePcs
  <2>3. ASSUME ~ forced PROVE closing /\ \A u \in Tasks : task'[u].pc \notin ClosePcs
    <3>1. closing /\ \A u \in Tasks \ {t} : u \notin Closers
      BY <1>1, <2>2, <2>3 DEF CloserExclusion
    <3> QED
      BY <2>1, <3>1 DEF Closers, Placed, ClosePcs
  <2>4. ~ Due'
    BY <1>3, <2>3 DEF Due
  <2> QED
    BY <2>1, <2>4, NotDueWatched DEF WatchKept, Orderly
<1> QED
  BY <1>5, <1>6

\* on_listen_start, the goodbye, the timers and the watchdog.
LEMMA OtherWatched ==
    ASSUME WatchInv, NEW t \in Tasks,
           Listen(t) \/ Goodbye(t) \/ WatchPending(t) \/ WatchExits(t) \/ Timer(t)
    PROVE  WatchKept
<1>1. TypeOK /\ Roles /\ HandlesFit /\ Watched
  BY DEF WatchInv, IInv
<1>2. task \in [Tasks -> TaskType] /\ After(task, {}) /\ {} \subseteq {"retained", "fatal"}
  BY <1>1, AfterNothing DEF TypeOK
<1>3. ASSUME NEW l \in {"l_asr", "w_tick", "w_pending", "c_swap", "p_cancel", "p_store"},
             NEW K \in SUBSET {"retained", "fatal"}, NEW f, After(f, K), Walks(f, t, l),
             Path(t, l), task[t].pc \notin BuildPcs \cup TakePcs, Dropped,
             UNCHANGED <<session, closing, forced>>
      PROVE  WatchKept
  <2>1. l \notin ClosePcs
    BY DEF ClosePcs
  <2> QED
    BY <1>3, <2>1, CalmWalk
<1>4. CASE ListenLock(t)
  <2>1. task[t].pc = "l_lock" /\ UNCHANGED <<session, closing, forced>>
    BY <1>4 DEF ListenLock, At
  <2>2. task[t].pc \notin BuildPcs \cup TakePcs /\ Path(t, "l_asr") /\ ~ Live(t)
    BY <1>1, <2>1, PlacesTell DEF BuildPcs, TakePcs, ClosePcs, Path
  <2>3. CASE session = NoSession
    BY <1>2, <1>4, <2>1, <2>2, <2>3, CalmEnd DEF ListenLock
  <2>4. CASE session # NoSession
    <3>1. Walks(task, t, "l_asr") /\ Dropped
      BY <1>2, <1>4, <2>4, WalksPc DEF ListenLock, Goto, Dropped
    <3> QED
      BY <1>2, <1>3, <2>1, <2>2, <3>1
  <2> QED
    BY <2>3, <2>4
<1>5. CASE ListenDone(t)
  <2>1. PICK f : f = AbortLoops(task, session) /\ After(f, {"fatal"})
    BY <1>1, AfterLoops
  <2>2. task[t].pc = "l_asr" /\ Ended(f, t) /\ UNCHANGED <<session, closing, forced>>
    BY <1>5, <2>1 DEF ListenDone, At
  <2>3. task[t].pc \notin BuildPcs \cup TakePcs /\ ~ Live(t)
    BY <1>1, <2>2, PlacesTell DEF BuildPcs, TakePcs, ClosePcs
  <2> QED
    BY <2>1, <2>2, <2>3, CalmEnd
<1>6. CASE ListenAsrFails(t)
  <2>1. PICK r : r = [[[task[t] EXCEPT !.pc = "c_swap"] EXCEPT !.reason = "fatal"]
                         EXCEPT !.after = "l_unlock"]
    OBVIOUS
  <2>2. r.pc = "c_swap" /\ r.reason = "fatal" /\ r.after = "l_unlock"
    BY <1>2, <2>1 DEF TaskType
  <2>3. task' = [task EXCEPT ![t] = r]
    BY <1>2, <1>6, <2>1 DEF ListenAsrFails
  <2>4. task'[t] = r /\ \A u \in Tasks \ {t} : task'[u] = task[u]
    BY <1>2, <2>3
  <2>5. task[t].pc = "l_asr" /\ Dropped /\ UNCHANGED <<session, closing, forced>>
    BY <1>6 DEF ListenAsrFails, At, Dropped
  <2>6. task[t].reason \notin Abortable
    BY <1>1, <2>5, PlacesTell DEF ClosePcs
  <2>7. Fits(task'[t])
    BY <2>2, <2>4 DEF Fits, Abortable
  <2>8. Orderly /\ Placed({t}) /\ Spares
    <3>1. Dropped /\ task[t].reason \notin {"idle", "retained"} /\ {} \in SUBSET Abortable
      BY <2>5, <2>6 DEF Abortable
    <3>2. \A u \in Tasks \ {t} : task'[u] = task[u]
      BY <2>4
    <3> QED
      BY <1>1, <1>2, <2>7, <3>1, <3>2, BecomesOrderly
  <2>9. Calm(t)
    BY <2>2, <2>4, <2>5 DEF Calm, BuildPcs, TakePcs, ClosePcs
  <2>10. Watched'
    BY <1>1, <2>5, <2>8, <2>9, CalmStep
  <2> QED
    BY <2>8, <2>10 DEF WatchKept, Orderly
<1>7. CASE ListenUnlock(t)
  <2>1. task[t].pc = "l_unlock" /\ Ended(task, t) /\ UNCHANGED <<session, closing, forced>>
    BY <1>7 DEF ListenUnlock, At
  <2>2. task[t].pc \notin BuildPcs \cup TakePcs /\ ~ Live(t)
    BY <1>1, <2>1 DEF Roles, Fits, Live, BuildPcs, TakePcs, ClosePcs
  <2> QED
    BY <1>2, <2>1, <2>2, CalmEnd
<1>8. CASE GoodbyeReset(t)
  <2>1. task[t].pc = "p_reset" /\ UNCHANGED <<session, closing, forced>>
    BY <1>8 DEF GoodbyeReset, At
  <2>2. task[t].pc \notin BuildPcs \cup TakePcs /\ Path(t, "p_cancel") /\ ~ Live(t)
    BY <1>1, <2>1, PlacesTell DEF BuildPcs, TakePcs, ClosePcs, Path
  <2>3. CASE session = NoSession
    BY <1>2, <1>8, <2>1, <2>2, <2>3, CalmEnd DEF GoodbyeReset
  <2>4. CASE session # NoSession
    <3>1. PICK f : f = AbortLoops(task, session) /\ After(f, {"fatal"})
      BY <1>1, AfterLoops
    <3>2. Walks(f, t, "p_cancel") /\ Dropped
      BY <1>8, <2>4, <3>1, WalksPc DEF GoodbyeReset, Dropped, After
    <3> QED
      BY <1>3, <2>1, <2>2, <3>1, <3>2
  <2> QED
    BY <2>3, <2>4
<1>9. CASE GoodbyeCancel(t)
  <2>1. PICK f : f = Abort(task, retained) /\ After(f, {"retained"})
    BY <1>1, AfterRetained
  <2>2. /\ Walks(f, t, "p_store") /\ Dropped /\ task[t].pc = "p_cancel"
        /\ UNCHANGED <<session, closing, forced>>
    BY <1>9, <2>1, WalksPc DEF GoodbyeCancel, Dropped, After, At
  <2>3. task[t].pc \notin BuildPcs \cup TakePcs /\ Path(t, "p_store")
    BY <1>1, <2>2, PlacesTell DEF BuildPcs, TakePcs, ClosePcs, Path
  <2> QED
    BY <1>3, <2>1, <2>2, <2>3
<1>10. ASSUME NEW r \in Tasks, GoodbyeStore(t, r) PROVE WatchKept
  <2>1. PICK c : c = [Idle EXCEPT !.pc = "r_sleep", !.reason = "retained"]
    OBVIOUS
  <2>2. /\ c.pc = "r_sleep" /\ c.reason = "retained" /\ c.after = "free" /\ c.aborted = FALSE
        /\ Idle.pc = "free" /\ Idle.reason = "none" /\ Idle.aborted = FALSE
    BY <2>1 DEF Idle
  <2>3. /\ task[t].pc = "p_store" /\ task[r].pc = "free" /\ t # r
        /\ watch' = watch /\ retained' = r /\ UNCHANGED <<session, closing, forced>>
    BY <1>10 DEF GoodbyeStore, At
  <2>4. task' = [[task EXCEPT ![r] = c] EXCEPT ![t] = Idle]
    BY <1>2, <1>10, <2>1, <2>3 DEF GoodbyeStore
  <2>5. task'[r] = c /\ task'[t] = Idle /\ \A u \in Tasks \ {t, r} : task'[u] = task[u]
    BY <1>2, <2>3, <2>4
  <2>6. task[t].reason \notin Abortable
    BY <1>1, <2>3, PlacesTell DEF ClosePcs
  <2>7. Fits(task'[t]) /\ Fits(task'[r])
    BY <2>2, <2>5 DEF Fits, Abortable
  <2>8. retained' = r /\ task'[r].reason = "retained"
    BY <2>2, <2>3, <2>5
  <2>9. Orderly /\ Placed({t, r}) /\ Spares
    <3>1. Spawns(t, r)
      BY <2>3, <2>5, <2>6, <2>7, <2>8 DEF Spawns
    <3> QED
      BY <1>1, <3>1, SpawnOrderly
  <2>10. Calm(t) /\ Calm(r)
    BY <2>2, <2>3, <2>5 DEF Calm, BuildPcs, TakePcs, ClosePcs
  <2>11. \A u \in Tasks : Calm(u)
    BY <2>9, <2>10 DEF Placed, Calm
  <2>12. Due' => Due
    BY <2>3, <2>11, CalmDue
  <2> QED
    BY <1>1, <2>9, <2>12, CalmWatched DEF WatchKept, Orderly
<1>11. CASE RetainedExpires(t)
  <2>1. task[t].pc = "r_sleep" /\ UNCHANGED <<session, closing, forced>>
    BY <1>11 DEF RetainedExpires, At
  <2>2. task[t].pc \notin BuildPcs \cup TakePcs /\ Path(t, "c_swap") /\ ~ Live(t)
    BY <1>1, <2>1 DEF Roles, Fits, Live, BuildPcs, TakePcs, ClosePcs, Path
  <2>3. CASE Ended(task, t)
    BY <1>2, <2>1, <2>2, <2>3, CalmEnd
  <2>4. CASE ~ Ended(task, t)
    <3>1. Walks(task, t, "c_swap") /\ Dropped
      BY <1>2, <1>11, <2>4, WalksPc DEF RetainedExpires, Goto, Dropped
    <3> QED
      BY <1>2, <1>3, <2>1, <2>2, <3>1
  <2> QED
    BY <2>3, <2>4
<1>12. CASE WatchFires(t)
  <2>1. /\ task[t].pc = "w_tick" /\ UNCHANGED <<session, closing, forced>> /\ Dropped
        /\ Walks(task, t, "w_pending")
    BY <1>2, <1>12, WalksMine DEF WatchFires, At, Dropped
  <2>2. task[t].pc \notin BuildPcs \cup TakePcs /\ Path(t, "w_pending")
    BY <2>1 DEF BuildPcs, TakePcs, Path
  <2> QED
    BY <1>2, <1>3, <2>1, <2>2
<1>13. CASE WatchPending(t)
  <2>1. PICK l \in {"w_tick", "c_swap"} :
           /\ task[t].pc = "w_pending" /\ UNCHANGED <<session, closing, forced>> /\ Dropped
           /\ Walks(task, t, l)
    <3>1. CASE task' = [task EXCEPT ![t].pc = "w_tick", ![t].mine = NoSession]
      BY <1>2, <1>13, <3>1, WalksMine DEF WatchPending, At, Dropped
    <3>2. CASE task' = [task EXCEPT ![t].pc = "c_swap"]
      BY <1>2, <1>13, <3>2, WalksPc DEF WatchPending, At, Dropped
    <3> QED
      BY <1>13, <3>1, <3>2 DEF WatchPending, Goto
  <2>2. task[t].pc \notin BuildPcs \cup TakePcs /\ Path(t, l)
    BY <2>1 DEF BuildPcs, TakePcs, Path
  <2> QED
    BY <1>2, <1>3, <2>1, <2>2
<1>14. CASE WatchExits(t)
  <2>1. Ended(task, t) /\ session' = NoSession
    BY <1>14 DEF WatchExits
  <2>2. Orderly
    BY <1>1, <1>2, <2>1, EndedOrderly DEF Abortable
  <2>3. ~ Due'
    BY <2>1 DEF Due
  <2> QED
    BY <2>2, <2>3, NotDueWatched DEF WatchKept, Orderly
<1> QED
  BY <1>4, <1>5, <1>6, <1>7, <1>8, <1>9, <1>10, <1>11, <1>12, <1>13, <1>14
     DEF Listen, Goodbye, Timer

LEMMA CleanupWatched == ASSUME WatchInv, NEW n \in SessionIds, Cleanup(n) PROVE WatchKept
<1>1. TypeOK /\ Roles /\ HandlesFit /\ Watched
  BY DEF WatchInv, IInv
<1>2. \/ task' = AbortLoops(task, n) /\ After(AbortLoops(task, n), {"fatal"})
      \/ task' = task /\ After(task, {})
  <2>1. CASE CleanupReset(n)
    BY <1>1, <2>1, AfterLoops DEF CleanupReset
  <2>2. CASE CleanupGoodbye(n) \/ CleanupSide(n)
    BY <1>1, <2>2, AfterNothing DEF CleanupGoodbye, CleanupSide
  <2> QED
    BY <2>1, <2>2 DEF Cleanup
<1>3. UNCHANGED <<session, closing, forced, watch, retained>>
  BY DEF Cleanup, CleanupGoodbye, CleanupReset, CleanupSide
<1>4. \A u \in Tasks : /\ task'[u].pc = task[u].pc
                       /\ task'[u].reason = task[u].reason
                       /\ task'[u].after = task[u].after
                       /\ task'[u].aborted => task[u].aborted \/ task[u].reason = "fatal"
  BY <1>2 DEF After
<1>5. Roles'
  BY <1>1, <1>4 DEF Roles, Fits, Abortable
<1>6. HandlesFit'
  BY <1>1, <1>3, <1>4 DEF HandlesFit, TypeOK
<1>7. Spares
  BY <1>4 DEF Spares, Live
<1>8. Due' => Due
  BY <1>3, <1>4 DEF Due
<1> QED
  BY <1>1, <1>5, <1>6, <1>7, <1>8, CalmWatched DEF WatchKept

-----------------------------------------------------------------------------

LEMMA InitWatched == Init => WatchInv
<1> SUFFICES ASSUME Init PROVE WatchInv
  OBVIOUS
<1>1. \A t \in Tasks : task[t].reason = "none" /\ task[t].aborted = FALSE
  BY DEF Init, Idle
<1>2. Roles
  BY <1>1 DEF Roles, Fits
<1>3. HandlesFit /\ Watched
  BY DEF Init, HandlesFit, Watched, Due
<1> QED
  BY <1>2, <1>3, InitIInv DEF WatchInv

LEMMA NextWatched == WatchInv /\ [Next]_vars => WatchInv'
<1> SUFFICES ASSUME WatchInv, [Next]_vars PROVE WatchInv'
  OBVIOUS
<1>1. IInv'
  BY NextIInv DEF WatchInv
<1>2. CASE UNCHANGED vars
  <2>1. WatchKept
    BY <1>2 DEF vars, WatchInv, WatchKept, Roles, HandlesFit, Watched, Due, Live
  <2> QED
    BY <1>1, <2>1 DEF WatchInv, WatchKept
<1>3. CASE Next
  <2>1. ASSUME NEW t \in Tasks, Event(t) \/ Run(t) \/ Timer(t) PROVE WatchKept
    BY <2>1, EventWatched, CloseWatched, BuildWatched, DiesWatched, OtherWatched DEF Run
  <2>2. WatchKept
    BY <1>3, <2>1, CleanupWatched DEF Next
  <2> QED
    BY <1>1, <2>2 DEF WatchInv, WatchKept
<1> QED
  BY <1>2, <1>3

\* A session that is built, and that nobody closes, has a watchdog that is alive,
\* however watchdog restarts, closers that lose or die, rebuilds in the middle of
\* a close and late cleanups interleave, until a recovery is forced.
THEOREM SessionIsWatched == Spec => []IdleSessionIsWatched
<1>1. WatchInv => IdleSessionIsWatched
  <2> SUFFICES ASSUME WatchInv, session # NoSession, Settled, ~ closing, ~ forced
               PROVE  \E w \in Tasks : task[w].reason = "idle" /\ ~ task[w].aborted
    BY DEF IdleSessionIsWatched
  <2>1. Due
    BY DEF Due, Settled, BuildPcs, TakePcs, ClosePcs
  <2> QED
    BY <2>1 DEF WatchInv, Watched, Live
<1> QED
  BY <1>1, InitWatched, NextWatched, PTL DEF Spec
=============================================================================
