------------------------------ MODULE AsrStream ------------------------------
(***************************************************************************)
(* One recognizer of xiaozhi-asr and the tasks that use it, one after the  *)
(* other.  A provider keeps the web socket of its last task (ws_session.rs)*)
(* and lends it to the next: a task waits for the lock of the tasks, takes *)
(* the socket or connects, streams its audio, passes on what the service   *)
(* says, and at the end puts the socket back or lets it go.  The five      *)
(* services differ in who reads while the audio is sent, in what ends a    *)
(* task and in which sockets are put back.                                 *)
(*                                                                         *)
(* The service is the environment: it hears a task begin and its audio     *)
(* end, says what it recognized and, once the audio is over, the last of   *)
(* it; it may fail, close or lose a connection whenever it likes.          *)
(***************************************************************************)
EXTENDS Integers, Sequences

CONSTANTS MaxTasks,   \* bound: tasks of the provider, in the order of their connections
          MaxChunks,  \* bound: pieces of audio of a task
          MaxSaid,    \* bound: what the service says of a task before its end
          MaxFaults   \* bound: errors, closed and lost connections

ASSUME AsrAssumption == {MaxTasks, MaxChunks, MaxSaid, MaxFaults} \subseteq Nat

AsrTasks == 1 .. MaxTasks
NoTask == 0

VARIABLES
    service,  \* the provider's kind; "qwen3_vad" is qwen3 with auto_end
    task,     \* [at, conn, fed, out, whole] of each task
    reader,   \* the reading half of a qwen3 task: [on, signals, finished, updated]
    guard,    \* the task that holds task_mu, or NoTask
    cached,   \* the connection in conn_mu, or NoTask; a connection has the number of its first task
    line,     \* the service's side of each connection: [serves, told, said, up]
    asrWire,  \* what the service said on each connection and nobody read
    results,      \* what reached the receiver of each task, in order: [of, final, error]
    faults    \* bound

asrVars == <<service, task, reader, guard, cached, line, asrWire, results, faults>>

Qwen3 == {"qwen3", "qwen3_vad"}

AsrInit ==
    /\ service \in {"doubao", "aliyun", "xunfei", "funasr"} \cup Qwen3
    /\ task = [t \in AsrTasks |->
                  [at |-> "idle", conn |-> NoTask, fed |-> 0, out |-> "none", whole |-> FALSE]]
    /\ reader = [t \in AsrTasks |-> [on |-> "no", signals |-> 0, finished |-> FALSE, updated |-> FALSE]]
    /\ guard = NoTask /\ cached = NoTask
    /\ line = [c \in AsrTasks |-> [serves |-> NoTask, told |-> FALSE, said |-> 0, up |-> FALSE]]
    /\ asrWire = [c \in AsrTasks |-> <<>>]
    /\ results = [t \in AsrTasks |-> <<>>]
    /\ faults = 0

-----------------------------------------------------------------------------
\* The shared socket

\* A connection whose end the client has read refuses what is sent; of one that broke
\* unnoticed nobody can say.
LineEnded(c) == asrWire[c] = <<>> /\ ~ line[c].up
MaySend(c) == ~ LineEnded(c)
MayFail(c) == ~ line[c].up

\* The task goes on; it ends with an outcome; it ends once something reached its receiver.
TaskGoes(t, at) == task' = [task EXCEPT ![t].at = at]
Outcome(t, out) == task' = [task EXCEPT ![t].at = "release", ![t].out = out]

Says(t, of, final, error) == Append(results[t], [of |-> of, final |-> final, error |-> error])
Passes(t, of, final) == results' = [results EXCEPT ![t] = Says(t, of, final, FALSE)]
PassesError(t, of) == results' = [results EXCEPT ![t] = Says(t, of, TRUE, TRUE)]
FailsAloud(t) == Outcome(t, "drop") /\ PassesError(t, t)

\* A caller wants something recognized: in a stream or, of doubao, all at once.
Recognize(t) ==
    /\ task[t].at = "idle" /\ \A s \in AsrTasks : s < t => task[s].at # "idle"
    /\ \E whole \in {FALSE, service = "doubao"} :
           task' = [task EXCEPT ![t].at = "asked", ![t].whole = whole]
    /\ UNCHANGED <<service, reader, guard, cached, line, asrWire, results, faults>>

\* The lock of the tasks is given in the order of the calls.
AcquireTask(t) ==
    /\ task[t].at = "asked" /\ guard = NoTask /\ guard' = t
    /\ \A s \in AsrTasks : s < t => task[s].at # "asked"
    /\ TaskGoes(t, IF service \in Qwen3 THEN "first" ELSE "connect")
    /\ UNCHANGED <<service, reader, cached, line, asrWire, results, faults>>

\* qwen3 connects when there is something to say; a caller that ends before ends the task.
FirstAudio(t) ==
    /\ task[t].at = "first"
    /\ \/ TaskGoes(t, "connect")
       \/ Outcome(t, "drop")
    /\ UNCHANGED <<service, reader, guard, cached, line, asrWire, results, faults>>

\* The cached connection is taken as it is; xunfei never looks for one.
TakesCached(t) ==
    /\ task[t].at = "connect" /\ cached # NoTask /\ service # "xunfei"
    /\ task' = [task EXCEPT ![t].at = "begin", ![t].conn = cached]
    /\ cached' = NoTask
    /\ UNCHANGED <<service, reader, guard, line, asrWire, results, faults>>

ConnectsAsr(t) ==
    /\ task[t].at = "connect" /\ (cached = NoTask \/ service = "xunfei")
    /\ task' = [task EXCEPT ![t].at = "begin", ![t].conn = t]
    /\ line' = [line EXCEPT ![t].up = TRUE]
    /\ UNCHANGED <<service, reader, guard, cached, asrWire, results, faults>>

\* Some callers learn that there is no connection from the call, others from the stream.
ConnectFails(t) ==
    /\ task[t].at = "connect" /\ (cached = NoTask \/ service = "xunfei")
    /\ faults < MaxFaults /\ faults' = faults + 1
    /\ IF service \in {"aliyun", "funasr"} \/ task[t].whole
       THEN Outcome(t, "drop") /\ UNCHANGED results
       ELSE FailsAloud(t)
    /\ UNCHANGED <<service, reader, guard, cached, line, asrWire>>

\* The service hears of a task: what it has to say from now on is of this one.
Engages(c, t) == [line EXCEPT ![c].serves = t, ![c].told = FALSE, ![c].said = 0]

\* What opens a task on its connection.  doubao and xunfei open with the first audio.
Begins(t) ==
    LET c == task[t].conn IN
    /\ task[t].at = "begin"
    /\ \/ /\ service \in {"doubao", "xunfei"} /\ ~ task[t].whole
          /\ TaskGoes(t, "stream") /\ UNCHANGED <<line, results, reader>>
       \/ /\ service \notin {"doubao", "xunfei"} /\ MaySend(c)
          /\ line' = IF line[c].up THEN Engages(c, t) ELSE line
          /\ TaskGoes(t, IF service = "funasr" THEN "stream" ELSE "opening")
          /\ reader' = [reader EXCEPT ![t].on = IF service \in Qwen3 THEN "on" ELSE "no"]
          /\ UNCHANGED results
       \/ /\ service \notin {"doubao", "xunfei"} /\ MayFail(c)
          /\ IF service = "aliyun" THEN Outcome(t, "drop") /\ UNCHANGED results ELSE FailsAloud(t)
          /\ UNCHANGED <<line, reader>>
       \/ /\ task[t].whole /\ MaySend(c)
          /\ line' = IF line[c].up THEN [Engages(c, t) EXCEPT ![c].told = TRUE] ELSE line
          /\ TaskGoes(t, "drain") /\ UNCHANGED <<results, reader>>
       \/ /\ task[t].whole /\ MayFail(c)
          /\ Outcome(t, "drop") /\ UNCHANGED <<line, results, reader>>
    /\ UNCHANGED <<service, guard, cached, asrWire, faults>>

\* A piece of audio goes out; for doubao and xunfei the first is the beginning.
Feeds(t) ==
    LET c == task[t].conn IN
    /\ task[t].at = "stream" /\ task[t].fed < MaxChunks
    /\ \/ /\ MaySend(c)
          /\ task' = [task EXCEPT ![t].fed = @ + 1]
          /\ line' = IF line[c].up /\ task[t].fed = 0 /\ service \in {"doubao", "xunfei"}
                     THEN Engages(c, t) ELSE line
          /\ UNCHANGED results
       \/ /\ MayFail(c)
          /\ CASE service \in {"doubao", "xunfei"} -> Outcome(t, "drop") /\ UNCHANGED results
               [] service = "funasr" ->
                      /\ task' = [task EXCEPT ![t].at = "drain", ![t].out = "drop"]
                      /\ UNCHANGED results
               [] OTHER -> FailsAloud(t)
          /\ UNCHANGED line
    /\ UNCHANGED <<service, reader, guard, cached, asrWire, faults>>

\* The caller's audio is over.  doubao ends at once when it never began; the others tell the
\* service, and only some of them care whether it could be told.
AudioOver(t) ==
    LET c == task[t].conn
        told == IF line[c].up
                THEN IF service = "xunfei" /\ task[t].fed = 0
                     THEN [Engages(c, t) EXCEPT ![c].told = TRUE]
                     ELSE [line EXCEPT ![c].told = (service \notin Qwen3)]
                ELSE line IN
    /\ task[t].at = "stream"
    /\ \/ /\ service = "doubao" /\ task[t].fed = 0
          /\ Outcome(t, "reuse") /\ UNCHANGED <<line, results>>
       \/ /\ ~ (service = "doubao" /\ task[t].fed = 0) /\ MaySend(c)
          /\ TaskGoes(t, IF service \in Qwen3 THEN "final" ELSE "drain")
          /\ line' = told /\ UNCHANGED results
       \/ /\ ~ (service = "doubao" /\ task[t].fed = 0) /\ MayFail(c)
          /\ CASE service \in {"doubao", "xunfei"} -> Outcome(t, "drop") /\ UNCHANGED results
               [] service = "qwen3" -> FailsAloud(t)
               [] service = "qwen3_vad" -> TaskGoes(t, "final") /\ UNCHANGED results
               [] OTHER -> TaskGoes(t, "drain") /\ UNCHANGED results
          /\ UNCHANGED line
    /\ UNCHANGED <<service, reader, guard, cached, asrWire, faults>>

-----------------------------------------------------------------------------
\* What the service says

\* Who reads a connection that ended before reads its end again; an end is nobody's speech.
Heard(t) ==
    IF LineEnded(task[t].conn) THEN [of |-> t, say |-> "close"]
    ELSE LET h == Head(asrWire[task[t].conn])
         IN  IF h.say \in {"close", "cut"} THEN [h EXCEPT !.of = t] ELSE h
FailsAsHeard(t) == Outcome(t, "drop") /\ PassesError(t, Heard(t).of)
ReadsOn(t) ==
    /\ asrWire[task[t].conn] # <<>> \/ LineEnded(task[t].conn)
    /\ asrWire' = [asrWire EXCEPT ![task[t].conn] = IF @ = <<>> THEN @ ELSE Tail(@)]

\* doubao reads while it sends; the end of a connection counts as the end of the speech, and
\* the connection as one to keep, while an error of the socket ends the task without a word.
DoubaoReads(t) ==
    /\ service = "doubao" /\ task[t].at \in {"stream", "drain"} /\ ReadsOn(t)
    /\ CASE Heard(t).say = "part" -> Passes(t, Heard(t).of, FALSE) /\ UNCHANGED task
         [] Heard(t).say \in {"last", "close"} -> Outcome(t, "reuse") /\ Passes(t, Heard(t).of, TRUE)
         [] Heard(t).say = "error" ->
                IF task[t].whole THEN Outcome(t, "drop") /\ UNCHANGED results ELSE FailsAsHeard(t)
         [] OTHER -> Outcome(t, "drop") /\ UNCHANGED results
    /\ UNCHANGED <<service, reader, guard, cached, line, faults>>

\* xunfei reads in the same way and keeps no connection.
XunfeiReads(t) ==
    /\ service = "xunfei" /\ task[t].at \in {"stream", "drain"} /\ ReadsOn(t)
    /\ CASE Heard(t).say = "part" -> Passes(t, Heard(t).of, FALSE) /\ UNCHANGED task
         [] Heard(t).say \in {"last", "close"} -> Outcome(t, "drop") /\ Passes(t, Heard(t).of, TRUE)
         [] Heard(t).say = "error" -> FailsAsHeard(t)
         [] OTHER -> Outcome(t, "drop") /\ UNCHANGED results
    /\ UNCHANGED <<service, reader, guard, cached, line, faults>>

\* aliyun first waits for the task to start.
AliyunStarts(t) ==
    /\ service = "aliyun" /\ task[t].at = "opening" /\ ReadsOn(t)
    /\ IF Heard(t).say = "started" THEN TaskGoes(t, "stream") /\ UNCHANGED results
       ELSE IF Heard(t).say \in {"part", "last"} THEN UNCHANGED <<task, results>>
       ELSE FailsAsHeard(t)
    /\ UNCHANGED <<service, reader, guard, cached, line, faults>>

AliyunReads(t) ==
    /\ service = "aliyun" /\ task[t].at \in {"stream", "drain"} /\ ReadsOn(t)
    /\ CASE Heard(t).say = "part" -> Passes(t, Heard(t).of, FALSE) /\ UNCHANGED task
         [] Heard(t).say \in {"last", "close"} -> Outcome(t, "reuse") /\ Passes(t, Heard(t).of, TRUE)
         [] Heard(t).say = "started" -> UNCHANGED <<task, results>>
         [] OTHER -> FailsAsHeard(t)
    /\ UNCHANGED <<service, reader, guard, cached, line, faults>>

\* A variant: a task that waited too long keeps its connection.
TimeoutKeeps(t) == "reuse"
TimeoutDrops(t) == "drop"

AliyunTimesOut(t) ==
    /\ service = "aliyun" /\ task[t].at \in {"opening", "drain"} /\ asrWire[task[t].conn] = <<>>
    /\ IF task[t].at = "opening" THEN FailsAloud(t)
       ELSE Outcome(t, TimeoutDrops(t)) /\ PassesError(t, t)
    /\ UNCHANGED <<service, reader, guard, cached, line, asrWire, faults>>

\* funasr reads when all is sent, and until the connection ends, which it then puts back.
FunasrReads(t) ==
    /\ service = "funasr" /\ task[t].at = "drain" /\ ReadsOn(t)
    /\ CASE Heard(t).say \in {"part", "last"} ->
                Passes(t, Heard(t).of, Heard(t).say = "last") /\ UNCHANGED task
         [] Heard(t).say \in {"error", "started"} -> UNCHANGED <<task, results>>
         [] OTHER -> IF task[t].out = "drop" THEN FailsAloud(t)
                     ELSE Outcome(t, "reuse") /\ UNCHANGED results
    /\ UNCHANGED <<service, reader, guard, cached, line, faults>>

-----------------------------------------------------------------------------
\* qwen3: a reader of its own, and signals from it to the task

\* Two finals of a task do not fit into its channel of signals: the reader waits.
SignalsFinal(t) == reader' = [reader EXCEPT ![t].signals = 1, ![t].on = "on"]

QwenReads(t) ==
    /\ service \in Qwen3 /\ reader[t].on = "on" /\ ReadsOn(t)
    /\ CASE Heard(t).say = "started" ->
                reader' = [reader EXCEPT ![t].updated = TRUE] /\ UNCHANGED results
         [] Heard(t).say = "part" -> Passes(t, Heard(t).of, FALSE) /\ UNCHANGED reader
         [] Heard(t).say = "done" ->
                IF reader[t].signals = 0
                THEN SignalsFinal(t) /\ Passes(t, Heard(t).of, TRUE)
                ELSE reader' = [reader EXCEPT ![t].on = "stuck"] /\ UNCHANGED results
         [] Heard(t).say = "last" ->
                reader' = [reader EXCEPT ![t].on = "off", ![t].finished = TRUE] /\ UNCHANGED results
         [] Heard(t).say = "error" ->
                /\ reader' = [reader EXCEPT ![t].on = "off"]
                /\ PassesError(t, Heard(t).of)
         [] OTHER -> reader' = [reader EXCEPT ![t].on = "off"] /\ UNCHANGED results
    /\ UNCHANGED <<service, task, guard, cached, line, faults>>

ReaderGoesOn(t) ==
    /\ reader[t].on = "stuck" /\ reader[t].signals = 0
    /\ SignalsFinal(t) /\ Passes(t, t, TRUE)
    /\ UNCHANGED <<service, task, guard, cached, line, asrWire, faults>>

\* The task waits for the session, with a timeout; its failure aborts the reader.
QwenOpens(t) ==
    /\ service \in Qwen3 /\ task[t].at = "opening"
    /\ \/ reader[t].updated /\ TaskGoes(t, "stream") /\ UNCHANGED <<reader, results>>
       \/ ~ reader[t].updated /\ FailsAloud(t) /\ reader' = [reader EXCEPT ![t].on = "off"]
    /\ UNCHANGED <<service, guard, cached, line, asrWire, faults>>

\* The wait for a final and what follows it: session.finish, sent or not.
QwenFinishes(t) ==
    /\ service \in Qwen3 /\ task[t].at = "final"
    /\ reader' = [reader EXCEPT ![t].signals = 0]
    /\ TaskGoes(t, "finish")
    /\ line' = IF line[task[t].conn].up THEN [line EXCEPT ![task[t].conn].told = TRUE] ELSE line
    /\ UNCHANGED <<service, guard, cached, asrWire, results, faults>>

QwenEnds(t) ==
    /\ service \in Qwen3 /\ task[t].at = "finish"
    /\ task' = [task EXCEPT ![t].at = "join", ![t].out = IF reader[t].finished THEN "reuse" ELSE "drop"]
    /\ UNCHANGED <<service, reader, guard, cached, line, asrWire, results, faults>>

\* The reading half comes back when the reader ended; nothing bounds this wait.
QwenJoins(t) ==
    /\ task[t].at = "join" /\ reader[t].on = "off" /\ TaskGoes(t, "release")
    /\ UNCHANGED <<service, reader, guard, cached, line, asrWire, results, faults>>

-----------------------------------------------------------------------------
\* finish_task and close

FinishTask(t) ==
    /\ task[t].at = "release" /\ guard = t /\ guard' = NoTask
    /\ cached' = IF task[t].out = "reuse" THEN task[t].conn ELSE NoTask
    /\ line' = IF task[t].out = "reuse" \/ task[t].conn = NoTask THEN line
               ELSE [line EXCEPT ![task[t].conn].up = FALSE]
    /\ TaskGoes(t, "over")
    /\ UNCHANGED <<service, reader, asrWire, results, faults>>

\* The pool closes a provider: of a connection in use it knows nothing.
ClosesProvider ==
    /\ cached # NoTask /\ cached' = NoTask
    /\ line' = [line EXCEPT ![cached].up = FALSE]
    /\ UNCHANGED <<service, task, reader, guard, asrWire, results, faults>>

-----------------------------------------------------------------------------
\* The service

ServiceSpeaks(c, say) == asrWire' = [asrWire EXCEPT ![c] = Append(@, [of |-> line[c].serves, say |-> say])]
Kinds == [doubao |-> {"part"}, xunfei |-> {"part"}, funasr |-> {"part"}, aliyun |-> {"started", "part"},
          qwen3 |-> {"started", "done"}, qwen3_vad |-> {"started", "done"}]

\* It first says that the task started, where it does, and then what it recognized; of a
\* session without auto_end qwen3 completes one piece of speech.
ServiceSays(c, say) ==
    /\ line[c].up /\ line[c].serves # NoTask /\ line[c].said < MaxSaid
    /\ say \in Kinds[service]
    /\ "started" \in Kinds[service] => (say = "started") = (line[c].said = 0)
    /\ service = "qwen3" /\ say = "done" => line[c].said = 1 /\ task[line[c].serves].at \in {"final", "finish"}
    /\ ServiceSpeaks(c, say) /\ line' = [line EXCEPT ![c].said = @ + 1]
    /\ UNCHANGED <<service, task, reader, guard, cached, results, faults>>

ServiceEnds(c) ==
    /\ line[c].up /\ line[c].serves # NoTask /\ line[c].told
    /\ ServiceSpeaks(c, "last") /\ line' = [line EXCEPT ![c].serves = NoTask]
    /\ UNCHANGED <<service, task, reader, guard, cached, results, faults>>

\* It gives the task up, closes the connection, or the connection breaks.
ServiceFails(c, say) ==
    /\ line[c].up /\ faults < MaxFaults /\ faults' = faults + 1
    /\ say = "error" => line[c].serves # NoTask
    /\ ServiceSpeaks(c, say)
    /\ line' = [line EXCEPT ![c].serves = NoTask, ![c].up = (say = "error")]
    /\ UNCHANGED <<service, task, reader, guard, cached, results>>

\* funasr's own end of a session: it says the last of it and closes.
FunasrCloses(c) ==
    /\ service = "funasr" /\ line[c].up /\ line[c].serves = NoTask /\ line[c].told
    /\ ServiceSpeaks(c, "close") /\ line' = [line EXCEPT ![c].up = FALSE]
    /\ UNCHANGED <<service, task, reader, guard, cached, results, faults>>

AsrNext ==
    \/ \E t \in AsrTasks :
          \/ Recognize(t) \/ AcquireTask(t) \/ FirstAudio(t)
          \/ TakesCached(t) \/ ConnectsAsr(t) \/ ConnectFails(t)
          \/ Begins(t) \/ Feeds(t) \/ AudioOver(t)
          \/ DoubaoReads(t) \/ XunfeiReads(t) \/ FunasrReads(t)
          \/ AliyunStarts(t) \/ AliyunReads(t) \/ AliyunTimesOut(t)
          \/ QwenReads(t) \/ ReaderGoesOn(t) \/ QwenOpens(t)
          \/ QwenFinishes(t) \/ QwenEnds(t) \/ QwenJoins(t)
          \/ FinishTask(t)
    \/ ClosesProvider
    \/ \E c \in AsrTasks :
          \/ \E say \in {"started", "part", "done"} : ServiceSays(c, say)
          \/ \E say \in {"error", "close", "cut"} : ServiceFails(c, say)
          \/ ServiceEnds(c) \/ FunasrCloses(c)

AsrSpec == AsrInit /\ [][AsrNext]_asrVars

-----------------------------------------------------------------------------
\* Properties

AsrTypeOK ==
    /\ service \in DOMAIN Kinds
    /\ \A t \in AsrTasks :
          /\ task[t].at \in {"idle", "asked", "first", "connect", "begin", "opening", "stream", "drain",
                             "final", "finish", "join", "release", "over"}
          /\ task[t].conn \in 0 .. t /\ task[t].fed \in 0 .. MaxChunks
          /\ task[t].out \in {"none", "reuse", "drop"} /\ task[t].whole \in BOOLEAN
          /\ reader[t].on \in {"no", "on", "stuck", "off"} /\ reader[t].signals \in 0 .. 1
          /\ \A n \in DOMAIN results[t] : results[t][n].of \in AsrTasks
    /\ guard \in AsrTasks \cup {NoTask} /\ cached \in AsrTasks \cup {NoTask}
    /\ faults \in 0 .. MaxFaults

\* What is recognized reaches the caller it is of: a connection is put back only when nothing
\* of its last task can still come (ws_session.rs: "恢复或作废连接").
OwnResult == \A t \in AsrTasks : \A n \in DOMAIN results[t] : results[t][n].of = t

\* A task that can never give the lock back (ws_session.rs: "并释放 task 锁") is one of a session
\* that ends its own speeches: a final nobody waits for is in the channel of the signals, the
\* reader waits for room for the next, and the task for its reader.
Wedged(t) == task[t].at = "join" /\ reader[t].on = "stuck" /\ reader[t].signals = 1
OnlyVadWedges ==
    \A t \in AsrTasks : Wedged(t) =>
        service = "qwen3_vad" /\ \E n \in DOMAIN results[t] : results[t][n].final /\ ~ results[t][n].error

AsrIsOne == OwnResult /\ OnlyVadWedges

=============================================================================
