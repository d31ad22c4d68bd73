---------------------------- MODULE StreamProofs -----------------------------
(***************************************************************************)
(* For any number of tasks, turns, texts, pieces of audio and faults: the  *)
(* speech a recognizer was fed reaches the task that fed it and no other,  *)
(* the answer of a language model its reader, whole and in order, and what *)
(* a synthesizer got of a text is heard to its last sample.                *)
(***************************************************************************)
EXTENDS ProviderProofs, SequenceTheorems

-----------------------------------------------------------------------------
(***************************************************************************)
(* What AsrStream promises for every number of tasks, pieces of audio and  *)
(* faults.  Everything that can still come on a connection is of the task  *)
(* that uses it, since a task puts its connection back only after the last *)
(* of it was read, or before the service heard of it; and after a          *)
(* connection's end, and after the last of a task, only ends are read.     *)
(***************************************************************************)
\* The tasks of a recognizer

Early == {"idle", "asked", "first", "connect"}
Using == {"begin", "opening", "stream", "drain", "final", "finish", "join", "release"}
Holding == {"first", "connect"} \cup Using
Ends == {"close", "cut"}
Reading == {"on", "stuck"}

TaskRecords == [at : Early \cup Using \cup {"over"}, conn : AsrTasks \cup {NoTask},
                fed : 0 .. MaxChunks, out : {"none", "reuse", "drop"}, whole : BOOLEAN]
ReaderRecords == [on : {"no", "on", "stuck", "off"}, signals : 0 .. 1, finished : BOOLEAN,
                  updated : BOOLEAN]
LineRecords == [serves : AsrTasks \cup {NoTask}, told : BOOLEAN, said : Nat, up : BOOLEAN]
WireRecords == [of : AsrTasks \cup {NoTask},
                say : {"started", "part", "done", "error", "last", "close", "cut"}]
ResultRecords == [of : AsrTasks \cup {NoTask}, final : BOOLEAN, error : BOOLEAN]

AsrTypes ==
    /\ service \in {"doubao", "aliyun", "xunfei", "funasr", "qwen3", "qwen3_vad"}
    /\ task \in [AsrTasks -> TaskRecords] /\ reader \in [AsrTasks -> ReaderRecords]
    /\ line \in [AsrTasks -> LineRecords] /\ asrWire \in [AsrTasks -> Seq(WireRecords)]
    /\ results \in [AsrTasks -> Seq(ResultRecords)]
    /\ cached \in AsrTasks \cup {NoTask} /\ faults \in 0 .. MaxFaults

\* The tasks take their turns: who has the lock has it alone, those before it are over and
\* those after it wait.
InTurn ==
    /\ guard \in AsrTasks \cup {NoTask}
    /\ \A t \in AsrTasks : task[t].at \in Holding <=> guard = t
    /\ \A s, t \in AsrTasks :
          s < t => /\ task[t].at # "idle" => task[s].at # "idle"
                   /\ task[t].at \notin {"idle", "asked"} => task[s].at = "over"

\* Nothing of a task can still come on a connection l with the unread messages w.
Clean(l, w) == l.serves = NoTask /\ \A n \in DOMAIN w : w[n].say \in Ends
\* What can still come is of task t.
IsOf(l, w, t) == l.serves \in {NoTask, t} /\ \A n \in DOMAIN w : w[n].say \in Ends \/ w[n].of = t
\* A session of qwen3 completes its one piece of speech no more.
NoMoreDone(l) == l.serves = NoTask \/ l.said > 1

\* What a service says in a row: after the last of a task only the end of the connection, which is
\* down then, and one completed piece of speech of a task without auto_end.
ConnFits(v, l, w) ==
    /\ \A n \in DOMAIN w : w[n].say \in Kinds[v] \cup {"error", "last"} \cup Ends
    /\ \A n \in DOMAIN w : w[n].say \in {"last"} \cup Ends =>
          l.serves = NoTask /\ \A m \in DOMAIN w : m > n => w[m].say \in Ends
    /\ \A n \in DOMAIN w : w[n].say \in Ends => ~ l.up
    /\ v = "qwen3" =>
          \A n \in DOMAIN w : w[n].say = "done" =>
             NoMoreDone(l) /\ \A m \in DOMAIN w : w[m].say = "done" => m = n

\* What comes on the connection of task t, in state k with its reader r, is of the task, and
\* nothing comes before the task has begun and after what made it put the connection back.
UseFits(v, t, k, r, l, w) ==
    /\ IsOf(l, w, t)
    /\ k.at \in Using /\ ~ l.up => l.serves = NoTask
    /\ k.at = "begin" => Clean(l, w)
    /\ k.at = "stream" /\ k.fed = 0 /\ v \in {"doubao", "xunfei"} => Clean(l, w)
    /\ k.at \in Using /\ (k.out = "reuse" \/ r.finished) => Clean(l, w) /\ r.on \notin Reading
    /\ v = "qwen3" /\ r.signals = 1 =>
          NoMoreDone(l) /\ \A n \in DOMAIN w : w[n].say # "done"

\* A task that has not begun has nothing; a signal is of a final that was passed on; and what
\* was passed on is the task's own.
TaskFits(v, t, k, r, q) ==
    /\ k.conn <= t
    /\ k.at \in Early \cup {"begin"} =>
          /\ k.out = "none" /\ k.fed = 0
          /\ r.on = "no" /\ r.signals = 0 /\ ~ r.finished
    /\ k.at \in Early => k.conn = NoTask
    /\ k.at \in Using \ {"release"} => k.conn # NoTask
    /\ r.on \in Reading => k.conn # NoTask
    /\ k.out = "reuse" => k.at \in {"join", "release", "over"}
    /\ v \notin Qwen3 => r.on = "no" /\ ~ r.finished
    /\ v = "qwen3" => r.on # "stuck"
    /\ r.signals = 1 => \E n \in DOMAIN q : q[n].final /\ ~ q[n].error
    /\ \A n \in DOMAIN q : q[n].of = t

\* Task t has a connection and uses it, itself or by its reader.
HasConn(t) == task[t].conn # NoTask /\ (task[t].at \in Using \/ reader[t].on \in Reading)

TasksFit == \A t \in AsrTasks : TaskFits(service, t, task[t], reader[t], results[t])
ConnsFit == \A c \in AsrTasks : ConnFits(service, line[c], asrWire[c])
UsersFit ==
    \A t \in AsrTasks : HasConn(t) =>
       /\ UseFits(service, t, task[t], reader[t], line[task[t].conn], asrWire[task[t].conn])
       /\ cached # task[t].conn
UsersDiffer ==
    \A s, t \in AsrTasks : HasConn(s) /\ HasConn(t) /\ task[s].conn = task[t].conn => s = t

\* A connection that nobody has made yet, and the one that is kept for the next task.
FreshFits ==
    \A t \in AsrTasks : task[t].at \in Early =>
       /\ line[t].serves = NoTask /\ ~ line[t].up /\ asrWire[t] = <<>> /\ cached # t
       /\ \A s \in AsrTasks : task[s].conn # t
KeptIsClean == cached # NoTask => Clean(line[cached], asrWire[cached])

AsrInv ==
    /\ AsrTypes /\ InTurn /\ TasksFit /\ ConnsFit /\ UsersFit /\ UsersDiffer /\ FreshFits
    /\ KeptIsClean

LEMMA AsrNumbers ==
    AsrTasks \subseteq Nat /\ NoTask \notin AsrTasks /\ NoTask = 0 /\ 0 \in 0 .. MaxChunks
  BY AsrAssumption DEF AsrTasks, NoTask

\* One task takes a step: it, its reader, what reached its receiver and its connection change.
AsrMoves(t, k, r, q, l, w) ==
    /\ k \in TaskRecords /\ r \in ReaderRecords /\ q \in Seq(ResultRecords)
    /\ l \in LineRecords /\ w \in Seq(WireRecords)
    /\ task' = [task EXCEPT ![t] = k] /\ reader' = [reader EXCEPT ![t] = r]
    /\ results' = [results EXCEPT ![t] = q]
    /\ IF task[t].conn = NoTask THEN UNCHANGED <<line, asrWire>>
       ELSE /\ line' = [line EXCEPT ![task[t].conn] = l]
            /\ asrWire' = [asrWire EXCEPT ![task[t].conn] = w]
    /\ HasConn(t) \/ UNCHANGED <<line, asrWire>>
    /\ service' = service /\ cached' = cached /\ faults' \in 0 .. MaxFaults
    /\ k.conn = task[t].conn /\ (k.at \in Early => task[t].at \in Early)
    /\ (k.conn # NoTask /\ (k.at \in Using \/ r.on \in Reading)) =>
          HasConn(t) /\ UseFits(service, t, k, r, l, w)
    /\ HasConn(t) => ConnFits(service, l, w)
    /\ TaskFits(service, t, k, r, q)

LEMMA AsrMovesKeep ==
    ASSUME AsrInv, NEW t \in AsrTasks, NEW k, NEW r, NEW q, NEW l, NEW w,
           AsrMoves(t, k, r, q, l, w), InTurn'
    PROVE  AsrInv'
<1>1. /\ task \in [AsrTasks -> TaskRecords] /\ reader \in [AsrTasks -> ReaderRecords]
      /\ line \in [AsrTasks -> LineRecords] /\ asrWire \in [AsrTasks -> Seq(WireRecords)]
      /\ results \in [AsrTasks -> Seq(ResultRecords)] /\ cached \in AsrTasks \cup {NoTask}
  BY DEF AsrInv, AsrTypes
<1>2. /\ k \in TaskRecords /\ r \in ReaderRecords /\ q \in Seq(ResultRecords)
      /\ l \in LineRecords /\ w \in Seq(WireRecords)
      /\ service' = service /\ cached' = cached /\ faults' \in 0 .. MaxFaults
      /\ k.conn = task[t].conn /\ (k.at \in Early => task[t].at \in Early)
  BY DEF AsrMoves
<1> DEFINE c == task[t].conn
<1>3. c \in AsrTasks \cup {NoTask}
  BY <1>1 DEF TaskRecords
<1>4. /\ \A s \in AsrTasks : /\ task'[s] = IF s = t THEN k ELSE task[s]
                             /\ reader'[s] = IF s = t THEN r ELSE reader[s]
                             /\ results'[s] = IF s = t THEN q ELSE results[s]
      /\ \A d \in AsrTasks : d # c => line'[d] = line[d] /\ asrWire'[d] = asrWire[d]
      /\ c # NoTask => line'[c] = l /\ asrWire'[c] = w
      /\ ~ HasConn(t) => line' = line /\ asrWire' = asrWire
  BY <1>1, <1>3 DEF AsrMoves
<1>5. AsrTypes'
  <2>1. task' \in [AsrTasks -> TaskRecords] /\ reader' \in [AsrTasks -> ReaderRecords]
        /\ results' \in [AsrTasks -> Seq(ResultRecords)]
    BY <1>1, <1>2 DEF AsrMoves
  <2>2. line' \in [AsrTasks -> LineRecords] /\ asrWire' \in [AsrTasks -> Seq(WireRecords)]
    BY <1>1, <1>2, <1>3 DEF AsrMoves
  <2> QED
    BY <1>1, <1>2, <2>1, <2>2 DEF AsrInv, AsrTypes
<1>6. TasksFit'
  <2>1. TaskFits(service, t, k, r, q) /\ TasksFit
    BY DEF AsrMoves, AsrInv
  <2> QED
    BY <1>2, <1>4, <2>1 DEF TasksFit
<1>7. ConnsFit'
  <2>1. ConnsFit /\ (HasConn(t) => ConnFits(service, l, w))
    BY DEF AsrMoves, AsrInv
  <2> SUFFICES ASSUME NEW d \in AsrTasks PROVE ConnFits(service', line'[d], asrWire'[d])
    BY DEF ConnsFit
  <2> QED
    BY <1>2, <1>4, <2>1 DEF ConnsFit, HasConn
<1>8. \A s \in AsrTasks : /\ HasConn(s)' => HasConn(s)
                          /\ s # t /\ HasConn(s) /\ HasConn(t) => task[s].conn # c
  BY <1>4 DEF AsrMoves, AsrInv, HasConn, UsersDiffer
<1>9. UsersFit'
  <2> SUFFICES ASSUME NEW s \in AsrTasks, HasConn(s)'
               PROVE  /\ UseFits(service', s, task'[s], reader'[s], line'[task'[s].conn],
                                 asrWire'[task'[s].conn])
                      /\ cached' # task'[s].conn
    BY DEF UsersFit
  <2>1. HasConn(s) /\ cached # task[s].conn /\ task[s].conn \in AsrTasks
    BY <1>1, <1>8 DEF AsrInv, UsersFit, HasConn, TaskRecords
  <2>2. CASE s = t
    <3>1. UseFits(service, t, k, r, l, w)
      BY <1>4, <2>2 DEF AsrMoves, HasConn
    <3>2. task'[s] = k /\ reader'[s] = r /\ k.conn = c /\ line'[c] = l /\ asrWire'[c] = w
      BY <1>2, <1>3, <1>4, <2>1, <2>2, AsrNumbers
    <3> QED
      BY <1>2, <2>1, <2>2, <3>1, <3>2
  <2>3. CASE s # t
    <3>1. UseFits(service, s, task[s], reader[s], line[task[s].conn], asrWire[task[s].conn])
      BY <2>1 DEF AsrInv, UsersFit
    <3>2. line'[task[s].conn] = line[task[s].conn] /\ asrWire'[task[s].conn] = asrWire[task[s].conn]
      BY <1>4, <1>8, <2>1, <2>3
    <3> QED
      BY <1>2, <1>4, <2>1, <2>3, <3>1, <3>2
  <2> QED
    BY <2>2, <2>3
<1>10. UsersDiffer'
  BY <1>2, <1>4, <1>8 DEF AsrInv, UsersDiffer
<1>11. FreshFits'
  <2> SUFFICES ASSUME NEW s \in AsrTasks, task'[s].at \in Early
               PROVE  /\ line'[s].serves = NoTask /\ ~ line'[s].up /\ asrWire'[s] = <<>>
                      /\ cached' # s /\ \A i \in AsrTasks : task'[i].conn # s
    BY DEF FreshFits
  <2>1. task[s].at \in Early
    BY <1>2, <1>4
  <2> QED
    BY <1>2, <1>4, <2>1 DEF AsrInv, FreshFits
<1>12. KeptIsClean'
  <2> SUFFICES ASSUME cached # NoTask PROVE Clean(line'[cached], asrWire'[cached])
    BY <1>2 DEF KeptIsClean
  <2>1. HasConn(t) => cached # c
    BY DEF AsrInv, UsersFit
  <2> QED
    BY <1>1, <1>4, <2>1 DEF AsrInv, KeptIsClean
<1> QED
  BY <1>5, <1>6, <1>7, <1>9, <1>10, <1>11, <1>12 DEF AsrInv

\* A task that has the lock keeps it.
LEMMA KeepsTurn ==
    ASSUME AsrInv, NEW t \in AsrTasks, NEW k \in TaskRecords, task' = [task EXCEPT ![t] = k],
           guard' = guard, task[t].at \in Holding, k.at \in Holding
    PROVE  InTurn'
<1>1. task \in [AsrTasks -> TaskRecords] /\ InTurn
  BY DEF AsrInv, AsrTypes
<1>2. \A s \in AsrTasks : task'[s] = IF s = t THEN k ELSE task[s]
  BY <1>1
<1>3. k.at \notin {"idle", "asked", "over"} /\ task[t].at \notin {"idle", "asked", "over"}
  BY DEF Holding, Using
<1> QED
  BY <1>1, <1>2, <1>3 DEF InTurn

\* A step of a task that has the lock and leaves the connections alone.
LEMMA LocalKeeps ==
    ASSUME AsrInv, NEW t \in AsrTasks, NEW k \in TaskRecords, NEW r \in ReaderRecords,
           NEW q \in Seq(ResultRecords),
           task' = [task EXCEPT ![t] = k], reader' = [reader EXCEPT ![t] = r],
           results' = [results EXCEPT ![t] = q],
           UNCHANGED <<service, cached, line, asrWire>>, faults' \in 0 .. MaxFaults, InTurn',
           k.conn = task[t].conn, k.at \in Early => task[t].at \in Early,
           (k.conn # NoTask /\ (k.at \in Using \/ r.on \in Reading)) =>
              /\ HasConn(t)
              /\ UseFits(service, t, task[t], reader[t], line[k.conn], asrWire[k.conn])
                    => UseFits(service, t, k, r, line[k.conn], asrWire[k.conn]),
           TaskFits(service, t, k, r, q)
    PROVE  AsrInv'
<1>1. /\ task \in [AsrTasks -> TaskRecords]
      /\ line \in [AsrTasks -> LineRecords] /\ asrWire \in [AsrTasks -> Seq(WireRecords)]
  BY DEF AsrInv, AsrTypes
<1>2. task[t].conn \in AsrTasks \cup {NoTask}
  BY <1>1 DEF TaskRecords
<1>3. PICK d \in AsrTasks : task[t].conn # NoTask => d = task[t].conn
  BY <1>2
<1>4. line[d] \in LineRecords /\ asrWire[d] \in Seq(WireRecords)
  BY <1>1
<1>5. HasConn(t) => UseFits(service, t, task[t], reader[t], line[d], asrWire[d])
  BY <1>3 DEF HasConn, AsrInv, UsersFit
<1>6. ConnFits(service, line[d], asrWire[d])
  BY DEF AsrInv, ConnsFit
<1>7. line = [line EXCEPT ![d] = line[d]] /\ asrWire = [asrWire EXCEPT ![d] = asrWire[d]]
  BY <1>1
<1>8. AsrMoves(t, k, r, q, line[d], asrWire[d])
  BY <1>3, <1>4, <1>5, <1>6, <1>7 DEF AsrMoves
<1> QED
  BY <1>4, <1>8, AsrMovesKeep

LEMMA TaskFacts ==
    ASSUME AsrInv, NEW t \in AsrTasks
    PROVE  /\ task \in [AsrTasks -> TaskRecords] /\ reader \in [AsrTasks -> ReaderRecords]
           /\ results \in [AsrTasks -> Seq(ResultRecords)]
           /\ task[t] \in TaskRecords /\ reader[t] \in ReaderRecords
           /\ results[t] \in Seq(ResultRecords) /\ faults \in 0 .. MaxFaults
           /\ TaskFits(service, t, task[t], reader[t], results[t])
           /\ task = [task EXCEPT ![t] = task[t]] /\ reader = [reader EXCEPT ![t] = reader[t]]
           /\ results = [results EXCEPT ![t] = results[t]]
  BY DEF AsrInv, AsrTypes, TasksFit

\* What a step makes of its task.
LEMMA Goes ==
    ASSUME AsrInv, NEW t \in AsrTasks, NEW at \in Early \cup Using \cup {"over"}, TaskGoes(t, at)
    PROVE  \E k \in TaskRecords :
              /\ task' = [task EXCEPT ![t] = k] /\ k.at = at /\ k.conn = task[t].conn
              /\ k.fed = task[t].fed /\ k.out = task[t].out
<1>1. PICK k : k = [task[t] EXCEPT !.at = at]
  OBVIOUS
<1>2. /\ k \in TaskRecords /\ k.at = at /\ k.conn = task[t].conn /\ k.fed = task[t].fed
      /\ k.out = task[t].out
  BY <1>1, TaskFacts DEF TaskRecords
<1>3. task' = [task EXCEPT ![t] = k]
  BY <1>1, TaskFacts DEF TaskGoes
<1> QED
  BY <1>2, <1>3

LEMMA Outcomes ==
    ASSUME AsrInv, NEW t \in AsrTasks, NEW out \in {"reuse", "drop"}, Outcome(t, out)
    PROVE  \E k \in TaskRecords :
              /\ task' = [task EXCEPT ![t] = k] /\ k.at = "release" /\ k.conn = task[t].conn
              /\ k.fed = task[t].fed /\ k.out = out
<1>1. PICK k : k = [task[t] EXCEPT !.at = "release", !.out = out]
  OBVIOUS
<1>2. /\ k \in TaskRecords /\ k.at = "release" /\ k.conn = task[t].conn /\ k.fed = task[t].fed
      /\ k.out = out
  BY <1>1, TaskFacts DEF TaskRecords, Using
<1>3. task' = [task EXCEPT ![t] = k]
  BY <1>1, TaskFacts DEF Outcome
<1> QED
  BY <1>2, <1>3

\* Something of the task reaches its receiver.
Told(q, was) ==
    \/ q = was
    \/ /\ \E n \in DOMAIN was : was[n].final /\ ~ was[n].error
       /\ \E n \in DOMAIN q : q[n].final /\ ~ q[n].error
    \/ ~ \E n \in DOMAIN was : was[n].final /\ ~ was[n].error

LEMMA SaysOwn ==
    ASSUME AsrInv, NEW t \in AsrTasks, NEW final \in BOOLEAN, NEW error \in BOOLEAN
    PROVE  /\ Says(t, t, final, error) \in Seq(ResultRecords)
           /\ \A n \in DOMAIN Says(t, t, final, error) : Says(t, t, final, error)[n].of = t
           /\ Told(Says(t, t, final, error), results[t])
           /\ final /\ ~ error => \E n \in DOMAIN Says(t, t, final, error) :
                                     /\ Says(t, t, final, error)[n].final
                                     /\ ~ Says(t, t, final, error)[n].error
<1>1. results[t] \in Seq(ResultRecords) /\ \A n \in DOMAIN results[t] : results[t][n].of = t
  BY TaskFacts DEF TaskFits
<1>2. PICK m : m = [of |-> t, final |-> final, error |-> error]
  OBVIOUS
<1>3. m \in ResultRecords /\ m.of = t /\ m.final = final /\ m.error = error
  BY <1>2 DEF ResultRecords
<1>4. PICK q : q = Append(results[t], m)
  OBVIOUS
<1>5. /\ q \in Seq(ResultRecords) /\ Len(q) = Len(results[t]) + 1 /\ q[Len(q)] = m
      /\ DOMAIN q = 1 .. Len(q) /\ DOMAIN results[t] = 1 .. Len(results[t]) /\ Len(results[t]) \in Nat
      /\ \A n \in DOMAIN results[t] : q[n] = results[t][n]
  BY <1>1, <1>3, <1>4
<1>6. \A n \in DOMAIN q : n = Len(q) \/ n \in DOMAIN results[t]
  BY <1>5
<1>7. (\A n \in DOMAIN q : q[n].of = t) /\ \A n \in DOMAIN results[t] : n \in DOMAIN q
  BY <1>1, <1>3, <1>5, <1>6
<1>8. Told(q, results[t]) /\ (final /\ ~ error => \E n \in DOMAIN q : q[n].final /\ ~ q[n].error)
  BY <1>3, <1>5, <1>7 DEF Told
<1> QED
  BY <1>2, <1>4, <1>5, <1>7, <1>8 DEF Says

LEMMA FailsAloudTells ==
    ASSUME AsrInv, NEW t \in AsrTasks, FailsAloud(t)
    PROVE  \E k \in TaskRecords, q \in Seq(ResultRecords) :
              /\ task' = [task EXCEPT ![t] = k] /\ k.at = "release" /\ k.conn = task[t].conn
              /\ k.fed = task[t].fed /\ k.out = "drop"
              /\ results' = [results EXCEPT ![t] = q]
              /\ Told(q, results[t]) /\ \A n \in DOMAIN q : q[n].of = t
<1>1. PICK k \in TaskRecords :
         /\ task' = [task EXCEPT ![t] = k] /\ k.at = "release" /\ k.conn = task[t].conn
         /\ k.fed = task[t].fed /\ k.out = "drop"
  BY Outcomes DEF FailsAloud
<1>2. results' = [results EXCEPT ![t] = Says(t, t, TRUE, TRUE)]
  BY DEF FailsAloud, PassesError
<1>3. PICK q : q = Says(t, t, TRUE, TRUE)
  OBVIOUS
<1>4. q \in Seq(ResultRecords) /\ Told(q, results[t]) /\ \A n \in DOMAIN q : q[n].of = t
  BY <1>3, SaysOwn
<1> QED
  BY <1>1, <1>2, <1>3, <1>4

LEMMA RecognizeInv == ASSUME AsrInv, NEW t \in AsrTasks, Recognize(t) PROVE AsrInv'
<1>1. PICK whole \in BOOLEAN : task' = [task EXCEPT ![t].at = "asked", ![t].whole = whole]
  BY DEF Recognize
<1>2. PICK k : k = [task[t] EXCEPT !.at = "asked", !.whole = whole]
  OBVIOUS
<1>3. /\ k \in TaskRecords /\ k.at = "asked" /\ k.conn = task[t].conn /\ k.fed = task[t].fed
      /\ k.out = task[t].out
  BY <1>2, TaskFacts DEF TaskRecords, Early
<1>4. task' = [task EXCEPT ![t] = k] /\ task[t].at = "idle"
  BY <1>1, <1>2, TaskFacts DEF Recognize
<1>5. TaskFits(service, t, k, reader[t], results[t]) /\ k.conn = NoTask
  BY <1>3, <1>4, TaskFacts DEF TaskFits, Early, Using
<1>6. InTurn'
  <2>1. \A s \in AsrTasks : task'[s] = IF s = t THEN k ELSE task[s]
    BY <1>4, TaskFacts
  <2>2. k.at = "asked" /\ "asked" \notin Holding /\ "idle" \notin Holding
    BY <1>3 DEF Holding, Using
  <2>3. /\ guard \in AsrTasks \cup {NoTask} /\ guard' = guard
        /\ \A s \in AsrTasks : task[s].at \in Holding <=> guard = s
        /\ \A s, u \in AsrTasks :
              s < u => /\ task[u].at # "idle" => task[s].at # "idle"
                       /\ task[u].at \notin {"idle", "asked"} => task[s].at = "over"
        /\ \A s \in AsrTasks : s < t => task[s].at # "idle"
    BY DEF Recognize, AsrInv, InTurn
  <2>4. \A s \in AsrTasks : task'[s].at \in Holding <=> guard' = s
    BY <1>4, <2>1, <2>2, <2>3
  <2>5. \A s, u \in AsrTasks :
           s < u => /\ task'[u].at # "idle" => task'[s].at # "idle"
                    /\ task'[u].at \notin {"idle", "asked"} => task'[s].at = "over"
    BY <1>4, <2>1, <2>2, <2>3
  <2> QED
    BY <2>3, <2>4, <2>5 DEF InTurn
<1> QED
  BY <1>3, <1>4, <1>5, <1>6, TaskFacts, LocalKeeps DEF Recognize, Early

LEMMA AcquireTaskInv == ASSUME AsrInv, NEW t \in AsrTasks, AcquireTask(t) PROVE AsrInv'
<1>1. PICK at \in {"first", "connect"} : TaskGoes(t, at)
  BY DEF AcquireTask
<1>2. PICK k \in TaskRecords :
         /\ task' = [task EXCEPT ![t] = k] /\ k.at = at /\ k.conn = task[t].conn
         /\ k.fed = task[t].fed /\ k.out = task[t].out
  BY <1>1, Goes DEF Early
<1>3. TaskFits(service, t, k, reader[t], results[t]) /\ k.conn = NoTask
  BY <1>2, TaskFacts DEF TaskFits, AcquireTask, Early, Using
<1>4. InTurn'
  <2>1. \A s \in AsrTasks : task'[s] = IF s = t THEN k ELSE task[s]
    BY <1>2, TaskFacts
  <2>2. /\ \A s \in AsrTasks : task[s].at \notin Holding
        /\ \A s \in AsrTasks : s < t => task[s].at \notin {"idle", "asked"}
    BY AsrNumbers DEF AcquireTask, AsrInv, InTurn
  <2>3. \A s \in AsrTasks : task[s].at \in {"idle", "asked", "over"}
    BY <2>2, TaskFacts DEF TaskRecords, Early, Holding
  <2> QED
    BY <1>2, <2>1, <2>2, <2>3, AsrNumbers DEF AcquireTask, AsrInv, InTurn, Holding, Using
<1> QED
  BY <1>2, <1>3, <1>4, TaskFacts, LocalKeeps DEF AcquireTask, Early

\* A task gives up, with or without a word to its receiver; one of qwen3 may abort its reader.
LEMMA DropKeeps ==
    ASSUME AsrInv, NEW t \in AsrTasks, task[t].at \in Holding,
           \/ FailsAloud(t)
           \/ Outcome(t, "drop") /\ UNCHANGED results
           \/ /\ Outcome(t, "drop")
              /\ \E q \in Seq(ResultRecords) : /\ results' = [results EXCEPT ![t] = q]
                                               /\ Told(q, results[t])
                                               /\ \A n \in DOMAIN q : q[n].of = t,
           \/ reader' = reader
           \/ reader' = [reader EXCEPT ![t].on = "off"] /\ service \in Qwen3 /\ task[t].at = "opening",
           UNCHANGED <<service, guard, cached, line, asrWire>>, faults' \in 0 .. MaxFaults
    PROVE  AsrInv'
<1>1. PICK k \in TaskRecords, q \in Seq(ResultRecords) :
         /\ task' = [task EXCEPT ![t] = k] /\ k.at = "release" /\ k.conn = task[t].conn
         /\ k.fed = task[t].fed /\ k.out = "drop"
         /\ results' = [results EXCEPT ![t] = q]
         /\ Told(q, results[t]) /\ \A n \in DOMAIN q : q[n].of = t
  <2>1. CASE FailsAloud(t)
    BY <2>1, FailsAloudTells
  <2>2. CASE Outcome(t, "drop") /\ UNCHANGED results
    <3>1. results[t] \in Seq(ResultRecords) /\ Told(results[t], results[t])
          /\ (\A n \in DOMAIN results[t] : results[t][n].of = t)
          /\ results' = [results EXCEPT ![t] = results[t]]
      BY <2>2, TaskFacts DEF Told, TaskFits
    <3>2. PICK k \in TaskRecords :
             /\ task' = [task EXCEPT ![t] = k] /\ k.at = "release" /\ k.conn = task[t].conn
             /\ k.fed = task[t].fed /\ k.out = "drop"
      BY <2>2, Outcomes
    <3> QED
      BY <3>1, <3>2
  <2>3. ASSUME Outcome(t, "drop"), NEW q \in Seq(ResultRecords),
               results' = [results EXCEPT ![t] = q], Told(q, results[t]),
               \A n \in DOMAIN q : q[n].of = t
        PROVE  \E k \in TaskRecords, p \in Seq(ResultRecords) :
                  /\ task' = [task EXCEPT ![t] = k] /\ k.at = "release" /\ k.conn = task[t].conn
                  /\ k.fed = task[t].fed /\ k.out = "drop"
                  /\ results' = [results EXCEPT ![t] = p]
                  /\ Told(p, results[t]) /\ \A n \in DOMAIN p : p[n].of = t
    <3>1. PICK k \in TaskRecords :
             /\ task' = [task EXCEPT ![t] = k] /\ k.at = "release" /\ k.conn = task[t].conn
             /\ k.fed = task[t].fed /\ k.out = "drop"
      BY <2>3, Outcomes
    <3> QED
      BY <2>3, <3>1
  <2> QED
    BY <2>1, <2>2, <2>3
<1>2. PICK r \in ReaderRecords :
         /\ reader' = [reader EXCEPT ![t] = r] /\ r.signals = reader[t].signals
         /\ r.finished = reader[t].finished
         /\ r.on = reader[t].on \/ (r.on = "off" /\ service \in Qwen3 /\ task[t].at = "opening")
  <2>1. CASE reader' = reader
    BY <2>1, TaskFacts
  <2>2. CASE reader' = [reader EXCEPT ![t].on = "off"] /\ service \in Qwen3 /\ task[t].at = "opening"
    <3>1. PICK r : r = [reader[t] EXCEPT !.on = "off"]
      OBVIOUS
    <3>2. /\ r \in ReaderRecords /\ r.signals = reader[t].signals /\ r.finished = reader[t].finished
          /\ r.on = "off"
      BY <3>1, TaskFacts DEF ReaderRecords
    <3>3. reader' = [reader EXCEPT ![t] = r]
      BY <2>2, <3>1, TaskFacts
    <3> QED
      BY <2>2, <3>2, <3>3
  <2> QED
    BY <2>1, <2>2
<1>3. TaskFits(service, t, k, r, q)
  <2>1. TaskFits(service, t, task[t], reader[t], results[t])
    BY TaskFacts
  <2>2. r.signals = 1 => \E n \in DOMAIN q : q[n].final /\ ~ q[n].error
    BY <1>1, <1>2, <2>1 DEF TaskFits, Told
  <2> QED
    BY <1>1, <1>2, <2>1, <2>2 DEF TaskFits, Early, Reading, Using
<1>4. InTurn'
  BY <1>1, KeepsTurn DEF Holding, Using
<1>5. (k.conn # NoTask /\ (k.at \in Using \/ r.on \in Reading)) =>
         /\ HasConn(t)
         /\ UseFits(service, t, task[t], reader[t], line[k.conn], asrWire[k.conn])
               => UseFits(service, t, k, r, line[k.conn], asrWire[k.conn])
  <2>1. k.conn # NoTask => task[t].at \in Using
    BY <1>1, TaskFacts DEF TaskFits, Holding, Early
  <2>2. UseFits(service, t, task[t], reader[t], line[k.conn], asrWire[k.conn]) /\ task[t].at \in Using
           => UseFits(service, t, k, r, line[k.conn], asrWire[k.conn])
    BY <1>1, <1>2 DEF UseFits, Using, Reading
  <2> QED
    BY <1>1, <2>1, <2>2 DEF HasConn
<1>6. k.at \notin Early
  BY <1>1 DEF Early
<1> QED
  BY <1>1, <1>2, <1>3, <1>4, <1>5, <1>6, LocalKeeps

LEMMA FirstAudioInv == ASSUME AsrInv, NEW t \in AsrTasks, FirstAudio(t) PROVE AsrInv'
<1>1. task[t].at \in Holding /\ task[t].at \in Early
  BY DEF FirstAudio, Holding, Early
<1>2. CASE Outcome(t, "drop")
  BY <1>1, <1>2, DropKeeps, TaskFacts DEF FirstAudio
<1>3. CASE TaskGoes(t, "connect")
  <2>1. PICK k \in TaskRecords :
           /\ task' = [task EXCEPT ![t] = k] /\ k.at = "connect" /\ k.conn = task[t].conn
           /\ k.fed = task[t].fed /\ k.out = task[t].out
    BY <1>3, Goes DEF Early
  <2>2. TaskFits(service, t, k, reader[t], results[t]) /\ k.conn = NoTask
    BY <1>1, <2>1, TaskFacts DEF TaskFits, Early, Using
  <2>3. InTurn'
    BY <1>1, <2>1, KeepsTurn DEF FirstAudio, Holding
  <2> QED
    BY <1>1, <2>1, <2>2, <2>3, TaskFacts, LocalKeeps DEF FirstAudio
<1> QED
  BY <1>2, <1>3 DEF FirstAudio

LEMMA ConnectFailsInv == ASSUME AsrInv, NEW t \in AsrTasks, ConnectFails(t) PROVE AsrInv'
<1>1. task[t].at \in Holding /\ faults' \in 0 .. MaxFaults
  BY TaskFacts, AsrAssumption DEF ConnectFails, Holding
<1> QED
  BY <1>1, DropKeeps DEF ConnectFails

LEMMA AliyunTimesOutInv == ASSUME AsrInv, NEW t \in AsrTasks, AliyunTimesOut(t) PROVE AsrInv'
<1>1. task[t].at \in Holding /\ faults' \in 0 .. MaxFaults
  BY TaskFacts DEF AliyunTimesOut, Holding, Using
<1>2. FailsAloud(t)
  BY DEF AliyunTimesOut, FailsAloud, TimeoutDrops
<1> QED
  BY <1>1, <1>2, DropKeeps DEF AliyunTimesOut

LEMMA ReaderGoesOnInv == ASSUME AsrInv, NEW t \in AsrTasks, ReaderGoesOn(t) PROVE AsrInv'
<1>1. PICK r : r = [reader[t] EXCEPT !.signals = 1, !.on = "on"]
  OBVIOUS
<1>2. /\ r \in ReaderRecords /\ r.signals = 1 /\ r.on = "on" /\ r.finished = reader[t].finished
      /\ reader' = [reader EXCEPT ![t] = r] /\ reader[t].on = "stuck"
  <2>1. /\ r \in ReaderRecords /\ r.signals = 1 /\ r.on = "on"
        /\ r.finished = reader[t].finished
    <3>1. reader[t] \in ReaderRecords /\ 1 \in 0 .. 1
      BY TaskFacts
    <3> QED
      BY <1>1, <3>1 DEF ReaderRecords
  <2>2. reader' = [reader EXCEPT ![t].signals = 1, ![t].on = "on"] /\ reader[t].on = "stuck"
    BY DEF ReaderGoesOn, SignalsFinal
  <2>3. reader' = [reader EXCEPT ![t] = r]
    BY <1>1, <2>2, TaskFacts
  <2> QED
    BY <2>1, <2>2, <2>3
<1>3. PICK q : q = Says(t, t, TRUE, FALSE)
  OBVIOUS
<1>4. /\ q \in Seq(ResultRecords) /\ \A n \in DOMAIN q : q[n].of = t
      /\ \E n \in DOMAIN q : q[n].final /\ ~ q[n].error
      /\ results' = [results EXCEPT ![t] = q]
  BY <1>3, SaysOwn DEF ReaderGoesOn, Passes
<1>5. TaskFits(service, t, task[t], r, q) /\ service # "qwen3"
  BY <1>2, <1>4, TaskFacts DEF TaskFits, Reading
<1>6. InTurn' /\ task' = task
  BY DEF AsrInv, InTurn, ReaderGoesOn
<1>7. UseFits(service, t, task[t], reader[t], line[task[t].conn], asrWire[task[t].conn])
         => UseFits(service, t, task[t], r, line[task[t].conn], asrWire[task[t].conn])
  BY <1>2, <1>5 DEF UseFits, Reading
<1>8. task[t].conn # NoTask => HasConn(t)
  BY <1>2 DEF HasConn, Reading
<1> QED
  BY <1>2, <1>4, <1>5, <1>6, <1>7, <1>8, TaskFacts, LocalKeeps DEF ReaderGoesOn

\* A task of qwen3 goes on to a later place, its reader as it is.
LEMMA QwenGoes ==
    ASSUME AsrInv, NEW t \in AsrTasks, NEW k \in TaskRecords, service \in Qwen3,
           task' = [task EXCEPT ![t] = k], k.conn = task[t].conn,
           task[t].at \in Using \ {"begin", "release"}, k.at \in Using \ {"begin"},
           k.out = task[t].out \/ k.out = "drop" \/ reader[t].finished,
           k.out = "reuse" => k.at \in {"join", "release"},
           UNCHANGED <<service, reader, guard, cached, line, asrWire, results>>,
           faults' \in 0 .. MaxFaults
    PROVE  AsrInv'
<1>1. InTurn'
  BY KeepsTurn DEF Holding
<1>2. TaskFits(service, t, k, reader[t], results[t])
  BY TaskFacts DEF TaskFits, Using, Early
<1>3. HasConn(t)
  BY TaskFacts DEF TaskFits, HasConn
<1>4. UseFits(service, t, task[t], reader[t], line[k.conn], asrWire[k.conn])
         => UseFits(service, t, k, reader[t], line[k.conn], asrWire[k.conn])
  BY DEF UseFits, Using, Qwen3
<1>5. k.at \notin Early
  BY DEF Using, Early
<1> QED
  BY <1>1, <1>2, <1>3, <1>4, <1>5, TaskFacts, LocalKeeps

LEMMA QwenOpensInv == ASSUME AsrInv, NEW t \in AsrTasks, QwenOpens(t) PROVE AsrInv'
<1>1. CASE reader[t].updated /\ TaskGoes(t, "stream") /\ UNCHANGED <<reader, results>>
  <2>1. PICK k \in TaskRecords :
           /\ task' = [task EXCEPT ![t] = k] /\ k.at = "stream" /\ k.conn = task[t].conn
           /\ k.fed = task[t].fed /\ k.out = task[t].out
    BY <1>1, Goes DEF Using
  <2>2. k.out # "reuse"
    BY <2>1, TaskFacts DEF QwenOpens, TaskFits
  <2> QED
    BY <1>1, <2>1, <2>2, QwenGoes, TaskFacts DEF QwenOpens, Using
<1>2. CASE ~ reader[t].updated /\ FailsAloud(t) /\ reader' = [reader EXCEPT ![t].on = "off"]
  <2>1. task[t].at = "opening" /\ task[t].at \in Holding
    BY DEF QwenOpens, Holding, Using
  <2> QED
    BY <1>2, <2>1, DropKeeps, TaskFacts DEF QwenOpens
<1> QED
  BY <1>1, <1>2 DEF QwenOpens

LEMMA QwenEndsInv == ASSUME AsrInv, NEW t \in AsrTasks, QwenEnds(t) PROVE AsrInv'
<1>1. PICK out \in {"reuse", "drop"} : out = IF reader[t].finished THEN "reuse" ELSE "drop"
  OBVIOUS
<1>2. PICK k : k = [task[t] EXCEPT !.at = "join", !.out = out]
  OBVIOUS
<1>3. k \in TaskRecords /\ k.at = "join" /\ k.conn = task[t].conn /\ k.out = out
  BY <1>2, TaskFacts DEF TaskRecords, Using
<1>4. task' = [task EXCEPT ![t] = k]
  BY <1>1, <1>2, TaskFacts DEF QwenEnds
<1>5. k.out = "drop" \/ reader[t].finished
  BY <1>1, <1>3
<1> QED
  BY <1>3, <1>4, <1>5, QwenGoes, TaskFacts DEF QwenEnds, Using

LEMMA QwenJoinsInv == ASSUME AsrInv, NEW t \in AsrTasks, QwenJoins(t) PROVE AsrInv'
<1>1. PICK k \in TaskRecords :
         /\ task' = [task EXCEPT ![t] = k] /\ k.at = "release" /\ k.conn = task[t].conn
         /\ k.fed = task[t].fed /\ k.out = task[t].out
  BY Goes DEF Using, QwenJoins
<1>2. service \in Qwen3
  BY TaskFacts DEF QwenJoins, TaskFits
<1> QED
  BY <1>1, <1>2, QwenGoes, TaskFacts DEF QwenJoins, Using

\* A connection that is made anew, or taken over from the task before.
LEMMA TakesConnection ==
    ASSUME AsrInv, NEW t \in AsrTasks, NEW c \in AsrTasks, NEW l \in LineRecords, c <= t,
           task[t].at = "connect",
           task' = [task EXCEPT ![t].at = "begin", ![t].conn = c],
           line' = [line EXCEPT ![c] = l], Clean(l, asrWire[c]), ConnFits(service, l, asrWire[c]),
           \/ cached = c /\ cached' = NoTask
           \/ c = t /\ cached' = cached,
           UNCHANGED <<service, reader, guard, asrWire, results, faults>>
    PROVE  AsrInv'
<1>1. /\ task \in [AsrTasks -> TaskRecords] /\ reader \in [AsrTasks -> ReaderRecords]
      /\ line \in [AsrTasks -> LineRecords] /\ asrWire \in [AsrTasks -> Seq(WireRecords)]
      /\ task[t] \in TaskRecords
  BY DEF AsrInv, AsrTypes
<1>2. PICK k : k = [task[t] EXCEPT !.at = "begin", !.conn = c]
  OBVIOUS
<1>3. /\ k \in TaskRecords /\ k.at = "begin" /\ k.conn = c /\ k.fed = task[t].fed
      /\ k.out = task[t].out
  BY <1>1, <1>2 DEF TaskRecords, Using
<1>4. task' = [task EXCEPT ![t] = k]
  BY <1>1, <1>2
<1>5. /\ \A s \in AsrTasks : task'[s] = IF s = t THEN k ELSE task[s]
      /\ \A d \in AsrTasks : line'[d] = IF d = c THEN l ELSE line[d]
  BY <1>1, <1>4
<1>6. TaskFits(service, t, k, reader[t], results[t])
  <2>1. TaskFits(service, t, task[t], reader[t], results[t])
    BY TaskFacts
  <2> QED
    BY <1>3, <2>1, AsrNumbers DEF TaskFits, Early, Using, Reading
<1>7. UseFits(service, t, k, reader[t], l, asrWire[c])
  <2>1. reader[t].on = "no" /\ reader[t].signals = 0 /\ ~ reader[t].finished /\ k.out = "none"
    BY <1>3, <1>6 DEF TaskFits
  <2>2. IsOf(l, asrWire[c], t) /\ l.serves = NoTask
    BY DEF Clean, IsOf
  <2> QED
    BY <1>3, <2>1, <2>2 DEF UseFits
<1>8. \A s \in AsrTasks : HasConn(s) => task[s].conn # c /\ s # t
  <2>1. ~ HasConn(t)
    BY TaskFacts DEF TaskFits, HasConn, Early
  <2>2. ASSUME NEW s \in AsrTasks, HasConn(s) PROVE task[s].conn # c
    <3>1. task[s].conn # cached
      BY <2>2 DEF AsrInv, UsersFit
    <3>2. \A i \in AsrTasks : task[i].conn # t
      BY DEF AsrInv, FreshFits, Early
    <3> QED
      BY <3>1, <3>2
  <2> QED
    BY <2>1, <2>2
<1>9. \A s \in AsrTasks : s # t => (HasConn(s)' <=> HasConn(s))
  BY <1>5 DEF HasConn
<1>10. AsrTypes'
  BY <1>1, <1>3, <1>4 DEF AsrInv, AsrTypes
<1>11. InTurn'
  BY <1>3, <1>4, KeepsTurn DEF Holding, Using
<1>12. TasksFit'
  BY <1>5, <1>6 DEF AsrInv, TasksFit
<1>13. ConnsFit'
  BY <1>5 DEF AsrInv, ConnsFit
<1>14. cached' # c
  <2>1. cached # t
    BY DEF AsrInv, FreshFits, Early
  <2> QED
    BY <2>1, AsrNumbers
<1>15. UsersFit'
  <2> SUFFICES ASSUME NEW s \in AsrTasks, HasConn(s)'
               PROVE  /\ UseFits(service', s, task'[s], reader'[s], line'[task'[s].conn],
                                 asrWire'[task'[s].conn])
                      /\ cached' # task'[s].conn
    BY DEF UsersFit
  <2>1. CASE s = t
    <3>1. task'[s] = k /\ reader'[s] = reader[t] /\ line'[c] = l /\ asrWire'[c] = asrWire[c]
          /\ service' = service
      BY <1>5, <2>1
    <3> QED
      BY <1>3, <1>7, <1>14, <2>1, <3>1
  <2>2. CASE s # t
    <3>1. HasConn(s) /\ task'[s] = task[s] /\ task[s].conn # c /\ task[s].conn \in AsrTasks
      BY <1>1, <1>5, <1>8, <1>9, <2>2 DEF HasConn, TaskRecords
    <3>2. UseFits(service, s, task[s], reader[s], line[task[s].conn], asrWire[task[s].conn])
          /\ cached # task[s].conn
      BY <3>1 DEF AsrInv, UsersFit
    <3>3. line'[task[s].conn] = line[task[s].conn] /\ cached' # task[s].conn
      BY <1>5, <3>1, <3>2, AsrNumbers
    <3> QED
      BY <3>1, <3>2, <3>3
  <2> QED
    BY <2>1, <2>2
<1>16. UsersDiffer'
  BY <1>3, <1>5, <1>8, <1>9 DEF AsrInv, UsersDiffer
<1>17. FreshFits'
  <2> SUFFICES ASSUME NEW s \in AsrTasks, task'[s].at \in Early
               PROVE  /\ line'[s].serves = NoTask /\ ~ line'[s].up /\ asrWire'[s] = <<>>
                      /\ cached' # s /\ \A i \in AsrTasks : task'[i].conn # s
    BY DEF FreshFits
  <2>1. s # t /\ task[s].at \in Early
    BY <1>3, <1>5 DEF Early
  <2>2. /\ line[s].serves = NoTask /\ ~ line[s].up /\ asrWire[s] = <<>> /\ cached # s
        /\ \A i \in AsrTasks : task[i].conn # s
    BY <2>1 DEF AsrInv, FreshFits
  <2>3. s # c /\ cached' # s
    BY <2>1, <2>2, AsrNumbers
  <2> QED
    BY <1>3, <1>5, <2>2, <2>3
<1>18. KeptIsClean'
  BY <1>5, <1>14 DEF AsrInv, KeptIsClean, AsrTypes
<1> QED
  BY <1>10, <1>11, <1>12, <1>13, <1>15, <1>16, <1>17, <1>18 DEF AsrInv

LEMMA ConnectsAsrInv == ASSUME AsrInv, NEW t \in AsrTasks, ConnectsAsr(t) PROVE AsrInv'
<1>1. line[t] \in LineRecords /\ asrWire[t] = <<>> /\ line[t].serves = NoTask
  BY DEF AsrInv, AsrTypes, FreshFits, ConnectsAsr, Early
<1>2. PICK l : l = [line[t] EXCEPT !.up = TRUE]
  OBVIOUS
<1>3. l \in LineRecords /\ l.serves = NoTask
  BY <1>1, <1>2 DEF LineRecords
<1>4. Clean(l, asrWire[t]) /\ ConnFits(service, l, asrWire[t])
  BY <1>1, <1>3 DEF Clean, ConnFits
<1>5. line' = [line EXCEPT ![t] = l]
  BY <1>2 DEF ConnectsAsr, AsrInv, AsrTypes
<1>6. t <= t
  BY AsrNumbers
<1> QED
  BY <1>3, <1>4, <1>5, <1>6, TakesConnection DEF ConnectsAsr

LEMMA TakesCachedInv == ASSUME AsrInv, NEW t \in AsrTasks, TakesCached(t) PROVE AsrInv'
<1>1. cached \in AsrTasks /\ line[cached] \in LineRecords /\ line = [line EXCEPT ![cached] = line[cached]]
  BY DEF AsrInv, AsrTypes, TakesCached
<1>2. Clean(line[cached], asrWire[cached]) /\ ConnFits(service, line[cached], asrWire[cached])
  BY <1>1 DEF AsrInv, KeptIsClean, ConnsFit, TakesCached
<1>3. cached <= t
  <2>1. task[cached].at \notin Early
    BY <1>1 DEF AsrInv, FreshFits
  <2>2. task[cached].at \notin {"idle", "asked"} /\ task[t].at # "over"
    BY <2>1 DEF Early, TakesCached
  <2>3. ~ (t < cached)
    BY <1>1, <2>2 DEF AsrInv, InTurn
  <2> QED
    BY <1>1, <2>3, AsrNumbers
<1> QED
  BY <1>1, <1>2, <1>3, TakesConnection DEF TakesCached

\* A step of a task that uses its connection and tells the service something.
LEMMA LineKeeps ==
    ASSUME AsrInv, NEW t \in AsrTasks, NEW k \in TaskRecords, NEW r \in ReaderRecords,
           NEW l \in LineRecords,
           task' = [task EXCEPT ![t] = k], reader' = [reader EXCEPT ![t] = r],
           line' = [line EXCEPT ![task[t].conn] = l],
           UNCHANGED <<service, guard, cached, asrWire, results, faults>>,
           task[t].at \in Using \ {"release"}, k.at \in Using, k.conn = task[t].conn,
           TaskFits(service, t, k, r, results[t]),
           ConnFits(service, l, asrWire[task[t].conn]),
           UseFits(service, t, k, r, l, asrWire[task[t].conn])
    PROVE  AsrInv'
<1>1. InTurn'
  BY KeepsTurn DEF Holding
<1>2. task[t].conn # NoTask /\ HasConn(t)
  BY TaskFacts DEF TaskFits, HasConn
<1>3. task[t].conn \in AsrTasks
  BY <1>2, TaskFacts DEF TaskRecords
<1>4. asrWire[task[t].conn] \in Seq(WireRecords)
      /\ asrWire = [asrWire EXCEPT ![task[t].conn] = asrWire[task[t].conn]]
  BY <1>3 DEF AsrInv, AsrTypes
<1>5. k.at \notin Early
  BY DEF Early, Using
<1>6. AsrMoves(t, k, r, results[t], l, asrWire[task[t].conn])
  BY <1>2, <1>4, <1>5, TaskFacts DEF AsrMoves
<1> QED
  BY <1>1, <1>6, AsrMovesKeep

\* The facts of a connection that a task uses.
LEMMA UserFacts ==
    ASSUME AsrInv, NEW t \in AsrTasks, HasConn(t)
    PROVE  /\ task[t].conn \in AsrTasks /\ line[task[t].conn] \in LineRecords
           /\ asrWire[task[t].conn] \in Seq(WireRecords)
           /\ ConnFits(service, line[task[t].conn], asrWire[task[t].conn])
           /\ UseFits(service, t, task[t], reader[t], line[task[t].conn], asrWire[task[t].conn])
           /\ line \in [AsrTasks -> LineRecords]
           /\ line = [line EXCEPT ![task[t].conn] = line[task[t].conn]]
  BY TaskFacts DEF HasConn, AsrInv, AsrTypes, ConnsFit, UsersFit, TaskRecords

\* The service hears of a task on a connection on which nothing can come, or of one that is down
\* it does not.
LEMMA EngagesKeeps ==
    ASSUME AsrInv, NEW t \in AsrTasks, NEW k \in TaskRecords, NEW r \in ReaderRecords,
           NEW told \in BOOLEAN,
           task' = [task EXCEPT ![t] = k], reader' = [reader EXCEPT ![t] = r],
           line' = IF line[task[t].conn].up
                   THEN [line EXCEPT ![task[t].conn].serves = t, ![task[t].conn].told = told,
                                     ![task[t].conn].said = 0]
                   ELSE line,
           UNCHANGED <<service, guard, cached, asrWire, results, faults>>,
           Clean(line[task[t].conn], asrWire[task[t].conn]),
           task[t].at \in Using \ {"release"}, k.at \in Using \ {"begin"}, k.conn = task[t].conn,
           TaskFits(service, t, k, r, results[t]), k.out # "reuse", ~ r.finished,
           service = "qwen3" => r.signals = 0,
           service \in {"doubao", "xunfei"} /\ k.at = "stream" => k.fed # 0
    PROVE  AsrInv'
<1>1. HasConn(t)
  BY TaskFacts DEF TaskFits, HasConn
<1> DEFINE c == task[t].conn
<1>2. PICK l : l = IF line[c].up THEN [line[c] EXCEPT !.serves = t, !.told = told, !.said = 0]
                                 ELSE line[c]
  OBVIOUS
<1>3. l \in LineRecords /\ l.up = line[c].up /\ l.serves \in {NoTask, t}
      /\ (~ l.up => l = line[c])
  <2>1. line[c] \in LineRecords /\ line[c].serves = NoTask /\ 0 \in Nat
    BY <1>1, UserFacts DEF Clean
  <2>2. CASE line[c].up
    BY <1>2, <2>1, <2>2 DEF LineRecords
  <2>3. CASE ~ line[c].up
    BY <1>2, <2>1, <2>3
  <2> QED
    BY <2>2, <2>3
<1>4. line' = [line EXCEPT ![c] = l]
  BY <1>1, <1>2, UserFacts
<1>5. ConnFits(service, l, asrWire[c])
  <2>1. ConnFits(service, line[c], asrWire[c]) /\ asrWire[c] \in Seq(WireRecords)
    BY <1>1, UserFacts
  <2>2. CASE ~ l.up
    BY <1>3, <2>1, <2>2
  <2>3. CASE l.up
    <3>1. \A n \in DOMAIN asrWire[c] : FALSE
      BY <1>3, <2>1, <2>3 DEF Clean, ConnFits
    <3> QED
      BY <3>1 DEF ConnFits
  <2> QED
    BY <2>2, <2>3
<1>6. UseFits(service, t, k, r, l, asrWire[c])
  <2>1. IsOf(l, asrWire[c], t) /\ (~ l.up => l.serves = NoTask)
    BY <1>3 DEF Clean, IsOf
  <2> QED
    BY <2>1 DEF UseFits
<1> QED
  BY <1>3, <1>4, <1>5, <1>6, LineKeeps

LEMMA QwenFinishesInv == ASSUME AsrInv, NEW t \in AsrTasks, QwenFinishes(t) PROVE AsrInv'
<1> DEFINE c == task[t].conn
<1>1. HasConn(t) /\ task[t].at = "final" /\ service \in Qwen3
  BY TaskFacts DEF TaskFits, HasConn, QwenFinishes, Using
<1>2. PICK k \in TaskRecords :
         /\ task' = [task EXCEPT ![t] = k] /\ k.at = "finish" /\ k.conn = task[t].conn
         /\ k.fed = task[t].fed /\ k.out = task[t].out
  BY Goes DEF Using, QwenFinishes
<1>3. PICK r : r = [reader[t] EXCEPT !.signals = 0]
  OBVIOUS
<1>4. /\ r \in ReaderRecords /\ r.signals = 0 /\ r.on = reader[t].on
      /\ r.finished = reader[t].finished
  <2>1. reader[t] \in ReaderRecords /\ 0 \in 0 .. 1
    BY TaskFacts
  <2> QED
    BY <1>3, <2>1 DEF ReaderRecords
<1>5. reader' = [reader EXCEPT ![t] = r]
  BY <1>3, TaskFacts DEF QwenFinishes
<1>6. PICK l : l = IF line[c].up THEN [line[c] EXCEPT !.told = TRUE] ELSE line[c]
  OBVIOUS
<1>7. l \in LineRecords /\ l.up = line[c].up /\ l.serves = line[c].serves /\ l.said = line[c].said
  BY <1>1, <1>6, UserFacts DEF LineRecords
<1>8. line' = [line EXCEPT ![c] = l]
  BY <1>1, <1>6, UserFacts DEF QwenFinishes
<1>9. TaskFits(service, t, k, r, results[t])
  BY <1>1, <1>2, <1>4, TaskFacts DEF TaskFits, Using, Early
<1>10. ConnFits(service, l, asrWire[c])
  BY <1>1, <1>7, UserFacts DEF ConnFits, NoMoreDone
<1>11. UseFits(service, t, k, r, l, asrWire[c])
  <2>1. /\ IsOf(line[c], asrWire[c], t)
        /\ ~ line[c].up => line[c].serves = NoTask
        /\ task[t].out = "reuse" \/ reader[t].finished =>
              Clean(line[c], asrWire[c]) /\ reader[t].on \notin Reading
    BY <1>1, UserFacts DEF UseFits, Using
  <2>2. IsOf(l, asrWire[c], t) /\ (Clean(line[c], asrWire[c]) => Clean(l, asrWire[c]))
    BY <1>7, <2>1 DEF IsOf, Clean
  <2> QED
    BY <1>2, <1>4, <1>7, <2>1, <2>2 DEF UseFits
<1> QED
  BY <1>1, <1>2, <1>4, <1>5, <1>7, <1>8, <1>9, <1>10, <1>11, LineKeeps DEF QwenFinishes, Using

\* A place in a task's own course, with the connection as it is: what holds of the wire goes on.
LEMMA BeginsInv == ASSUME AsrInv, NEW t \in AsrTasks, Begins(t) PROVE AsrInv'
<1> DEFINE c == task[t].conn
<1>1. HasConn(t) /\ task[t].at = "begin" /\ Clean(line[c], asrWire[c])
  <2>1. HasConn(t) /\ task[t].at = "begin"
    BY TaskFacts DEF TaskFits, HasConn, Begins, Using
  <2> QED
    BY <2>1, UserFacts DEF UseFits
<1>2. /\ task[t].at \in Using \ {"release"} /\ task[t].at \in Holding
      /\ UNCHANGED <<service, guard, cached, asrWire, faults>>
  BY <1>1 DEF Begins, Using, Holding
<1>3. /\ reader[t].on = "no" /\ reader[t].signals = 0 /\ ~ reader[t].finished
      /\ task[t].out = "none" /\ task[t].fed = 0
  BY <1>1, TaskFacts DEF TaskFits
<1>4. CASE /\ service \in {"doubao", "xunfei"} /\ ~ task[t].whole
           /\ TaskGoes(t, "stream") /\ UNCHANGED <<line, results, reader>>
  <2>1. PICK k \in TaskRecords :
           /\ task' = [task EXCEPT ![t] = k] /\ k.at = "stream" /\ k.conn = task[t].conn
           /\ k.fed = task[t].fed /\ k.out = task[t].out
    BY <1>4, Goes DEF Using
  <2>2. TaskFits(service, t, k, reader[t], results[t]) /\ k.at \notin Early
    BY <1>1, <1>2, <1>3, <2>1, TaskFacts DEF TaskFits, Early, Using
  <2>3. InTurn'
    BY <1>2, <2>1, KeepsTurn DEF Holding, Using
  <2>4. UseFits(service, t, task[t], reader[t], line[k.conn], asrWire[k.conn])
           => UseFits(service, t, k, reader[t], line[k.conn], asrWire[k.conn])
    BY <1>1, <1>2, <1>3, <2>1 DEF UseFits
  <2> QED
    BY <1>1, <1>2, <1>4, <2>1, <2>2, <2>3, <2>4, TaskFacts, LocalKeeps
<1>5. ASSUME NEW told \in BOOLEAN, NEW at \in {"opening", "stream", "drain"},
             TaskGoes(t, at),
             line' = IF line[c].up
                     THEN [line EXCEPT ![c].serves = t, ![c].told = told, ![c].said = 0] ELSE line,
             at = "stream" => service \notin {"doubao", "xunfei"},
             NEW r \in ReaderRecords, reader' = [reader EXCEPT ![t] = r], UNCHANGED results,
             r.signals = 0, ~ r.finished, r.on # "stuck", service \notin Qwen3 => r.on = "no"
      PROVE  AsrInv'
  <2>1. PICK k \in TaskRecords :
           /\ task' = [task EXCEPT ![t] = k] /\ k.at = at /\ k.conn = task[t].conn
           /\ k.fed = task[t].fed /\ k.out = task[t].out
    BY <1>5, Goes DEF Using
  <2>2. TaskFits(service, t, k, r, results[t])
    BY <1>1, <1>2, <1>3, <1>5, <2>1, TaskFacts DEF TaskFits, Early, Using, Reading
  <2>3. k.at \in Using \ {"begin"} /\ k.out # "reuse"
    BY <1>3, <2>1 DEF Using
  <2> QED
    BY <1>1, <1>2, <1>5, <2>1, <2>2, <2>3, EngagesKeeps
<1>6. CASE /\ service \notin {"doubao", "xunfei"} /\ MaySend(c)
           /\ line' = IF line[c].up THEN Engages(c, t) ELSE line
           /\ TaskGoes(t, IF service = "funasr" THEN "stream" ELSE "opening")
           /\ reader' = [reader EXCEPT ![t].on = IF service \in Qwen3 THEN "on" ELSE "no"]
           /\ UNCHANGED results
  <2>1. PICK r : r = [reader[t] EXCEPT !.on = IF service \in Qwen3 THEN "on" ELSE "no"]
    OBVIOUS
  <2>2. /\ r \in ReaderRecords /\ r.signals = 0 /\ ~ r.finished /\ r.on # "stuck"
        /\ service \notin Qwen3 => r.on = "no"
    BY <1>3, <2>1, TaskFacts DEF ReaderRecords
  <2>3. reader' = [reader EXCEPT ![t] = r]
    BY <1>6, <2>1, TaskFacts
  <2>4. PICK at \in {"opening", "stream", "drain"} : TaskGoes(t, at)
    BY <1>6
  <2>5. line' = IF line[c].up
                THEN [line EXCEPT ![c].serves = t, ![c].told = FALSE, ![c].said = 0] ELSE line
    BY <1>6 DEF Engages
  <2> QED
    BY <1>5, <1>6, <2>2, <2>3, <2>4, <2>5
<1>7. CASE /\ service \notin {"doubao", "xunfei"}
           /\ IF service = "aliyun" THEN Outcome(t, "drop") /\ UNCHANGED results ELSE FailsAloud(t)
           /\ UNCHANGED <<line, reader>>
  BY <1>2, <1>7, TaskFacts, DropKeeps
<1>8. CASE /\ task[t].whole
           /\ line' = IF line[c].up THEN [Engages(c, t) EXCEPT ![c].told = TRUE] ELSE line
           /\ TaskGoes(t, "drain") /\ UNCHANGED <<results, reader>>
  <2>1. line' = IF line[c].up
                THEN [line EXCEPT ![c].serves = t, ![c].told = TRUE, ![c].said = 0] ELSE line
    BY <1>1, <1>8, UserFacts DEF Engages, LineRecords
  <2>2. /\ reader[t] \in ReaderRecords /\ reader' = [reader EXCEPT ![t] = reader[t]]
        /\ (service \notin Qwen3 => reader[t].on = "no") /\ reader[t].on # "stuck"
    BY <1>3, <1>8, TaskFacts
  <2> QED
    BY <1>3, <1>5, <1>8, <2>1, <2>2
<1>9. CASE task[t].whole /\ Outcome(t, "drop") /\ UNCHANGED <<line, results, reader>>
  BY <1>2, <1>9, TaskFacts, DropKeeps
<1> QED
  BY <1>4, <1>6, <1>7, <1>8, <1>9 DEF Begins


LEMMA FeedsInv == ASSUME AsrInv, NEW t \in AsrTasks, Feeds(t) PROVE AsrInv'
<1> DEFINE c == task[t].conn
<1>1. /\ HasConn(t) /\ task[t].at = "stream" /\ task[t].at \in Using \ {"release"}
      /\ task[t].at \in Holding /\ task[t].out # "reuse"
  BY TaskFacts DEF TaskFits, HasConn, Feeds, Using, Holding
<1>2. UNCHANGED <<service, reader, guard, cached, asrWire, faults>>
  BY DEF Feeds
<1>3. CASE /\ task' = [task EXCEPT ![t].fed = @ + 1]
           /\ line' = IF line[c].up /\ task[t].fed = 0 /\ service \in {"doubao", "xunfei"}
                      THEN Engages(c, t) ELSE line
           /\ UNCHANGED results
  <2>1. PICK k : k = [task[t] EXCEPT !.fed = task[t].fed + 1]
    OBVIOUS
  <2>2. /\ k \in TaskRecords /\ k.at = "stream" /\ k.conn = task[t].conn /\ k.out = task[t].out
        /\ k.fed = task[t].fed + 1 /\ k.fed # 0
    <3>1. task[t] \in TaskRecords /\ task[t].fed + 1 \in 0 .. MaxChunks /\ task[t].fed + 1 # 0
      BY TaskFacts, AsrAssumption DEF TaskRecords, Feeds
    <3> QED
      BY <1>1, <2>1, <3>1 DEF TaskRecords
  <2>3. task' = [task EXCEPT ![t] = k]
    BY <1>3, <2>1, TaskFacts
  <2>4. TaskFits(service, t, k, reader[t], results[t])
    BY <1>1, <2>2, TaskFacts DEF TaskFits, Early, Using
  <2>5. k.at \in Using \ {"begin"} /\ k.at \notin Early
    BY <2>2 DEF Using, Early
  <2>6. CASE task[t].fed = 0 /\ service \in {"doubao", "xunfei"}
    <3>1. Clean(line[c], asrWire[c])
      BY <1>1, <2>6, UserFacts DEF UseFits
    <3>2. ~ reader[t].finished /\ service # "qwen3"
      BY <2>6, TaskFacts DEF TaskFits, Qwen3
    <3>3. line' = IF line[c].up
                  THEN [line EXCEPT ![c].serves = t, ![c].told = FALSE, ![c].said = 0] ELSE line
      BY <1>3, <2>6 DEF Engages
    <3>4. FALSE \in BOOLEAN /\ reader[t] \in ReaderRecords
          /\ reader' = [reader EXCEPT ![t] = reader[t]]
      BY <1>2, TaskFacts
    <3> QED
      BY <1>1, <1>2, <1>3, <2>2, <2>3, <2>4, <2>5, <3>1, <3>2, <3>3, <3>4, EngagesKeeps
  <2>7. CASE ~ (task[t].fed = 0 /\ service \in {"doubao", "xunfei"})
    <3>1. InTurn'
      BY <1>1, <1>2, <2>2, <2>3, KeepsTurn DEF Holding
    <3>2. UseFits(service, t, task[t], reader[t], line[k.conn], asrWire[k.conn])
             => UseFits(service, t, k, reader[t], line[k.conn], asrWire[k.conn])
      BY <1>1, <2>2 DEF UseFits
    <3>3. line' = line /\ faults' \in 0 .. MaxFaults /\ results' = [results EXCEPT ![t] = results[t]]
          /\ reader' = [reader EXCEPT ![t] = reader[t]] /\ results[t] \in Seq(ResultRecords)
          /\ reader[t] \in ReaderRecords
      BY <1>2, <1>3, <2>7, TaskFacts
    <3> QED
      BY <1>1, <1>2, <2>2, <2>3, <2>4, <2>5, <3>1, <3>2, <3>3, LocalKeeps
  <2> QED
    BY <2>6, <2>7
<1>4. CASE Outcome(t, "drop") /\ UNCHANGED results /\ UNCHANGED line
  BY <1>1, <1>2, <1>4, TaskFacts, DropKeeps
<1>5. CASE FailsAloud(t) /\ UNCHANGED line
  BY <1>1, <1>2, <1>5, TaskFacts, DropKeeps
<1>6. CASE /\ service = "funasr" /\ UNCHANGED line /\ UNCHANGED results
           /\ task' = [task EXCEPT ![t].at = "drain", ![t].out = "drop"]
  <2>1. PICK k : k = [task[t] EXCEPT !.at = "drain", !.out = "drop"]
    OBVIOUS
  <2>2. k \in TaskRecords /\ k.at = "drain" /\ k.conn = task[t].conn /\ k.out = "drop"
        /\ k.fed = task[t].fed
    BY <2>1, TaskFacts DEF TaskRecords, Using
  <2>3. task' = [task EXCEPT ![t] = k]
    BY <1>6, <2>1, TaskFacts
  <2>4. TaskFits(service, t, k, reader[t], results[t]) /\ k.at \notin Early
    BY <1>1, <2>2, TaskFacts DEF TaskFits, Early, Using
  <2>5. InTurn'
    BY <1>1, <1>2, <2>2, <2>3, KeepsTurn DEF Holding, Using
  <2>6. UseFits(service, t, task[t], reader[t], line[k.conn], asrWire[k.conn])
           => UseFits(service, t, k, reader[t], line[k.conn], asrWire[k.conn])
    BY <1>1, <2>2 DEF UseFits
  <2>7. /\ faults' \in 0 .. MaxFaults /\ results' = [results EXCEPT ![t] = results[t]]
        /\ reader' = [reader EXCEPT ![t] = reader[t]] /\ results[t] \in Seq(ResultRecords)
        /\ reader[t] \in ReaderRecords
        /\ UNCHANGED <<service, cached, line, asrWire>>
    BY <1>2, <1>6, TaskFacts
  <2> QED
    BY <1>1, <2>2, <2>3, <2>4, <2>5, <2>6, <2>7, LocalKeeps
<1> QED
  BY <1>3, <1>4, <1>5, <1>6 DEF Feeds

LEMMA AudioOverInv == ASSUME AsrInv, NEW t \in AsrTasks, AudioOver(t) PROVE AsrInv'
<1> DEFINE c == task[t].conn
<1>1. /\ HasConn(t) /\ task[t].at = "stream" /\ task[t].at \in Using \ {"release"}
      /\ task[t].at \in Holding /\ task[t].out # "reuse"
      /\ UNCHANGED <<service, reader, guard, cached, asrWire, faults>>
  BY TaskFacts DEF TaskFits, HasConn, AudioOver, Using, Holding
<1>2. CASE service = "doubao" /\ task[t].fed = 0 /\ Outcome(t, "reuse") /\ UNCHANGED <<line, results>>
  <2>1. PICK k \in TaskRecords :
           /\ task' = [task EXCEPT ![t] = k] /\ k.at = "release" /\ k.conn = task[t].conn
           /\ k.fed = task[t].fed /\ k.out = "reuse"
    BY <1>2, Outcomes
  <2>2. TaskFits(service, t, k, reader[t], results[t]) /\ k.at \notin Early
    BY <1>1, <2>1, TaskFacts DEF TaskFits, Early, Using
  <2>3. InTurn'
    BY <1>1, <2>1, KeepsTurn DEF Holding, Using
  <2>4. reader[t].on = "no"
    BY <1>2, TaskFacts DEF TaskFits, Qwen3
  <2>5. UseFits(service, t, task[t], reader[t], line[k.conn], asrWire[k.conn])
           => UseFits(service, t, k, reader[t], line[k.conn], asrWire[k.conn])
    BY <1>1, <1>2, <2>1, <2>4 DEF UseFits, Reading
  <2> QED
    BY <1>1, <1>2, <2>1, <2>2, <2>3, <2>5, TaskFacts, LocalKeeps
<1>3. ASSUME NEW at \in {"final", "drain"}, TaskGoes(t, at), UNCHANGED results,
             NEW l \in LineRecords, line' = [line EXCEPT ![c] = l],
             l.up = line[c].up, l.serves = line[c].serves, l.said = line[c].said
      PROVE  AsrInv'
  <2>1. PICK k \in TaskRecords :
           /\ task' = [task EXCEPT ![t] = k] /\ k.at = at /\ k.conn = task[t].conn
           /\ k.fed = task[t].fed /\ k.out = task[t].out
    BY <1>3, Goes DEF Using
  <2>2. TaskFits(service, t, k, reader[t], results[t]) /\ k.at \in Using
    BY <1>1, <2>1, TaskFacts DEF TaskFits, Early, Using
  <2>3. ConnFits(service, l, asrWire[c])
    BY <1>1, <1>3, UserFacts DEF ConnFits, NoMoreDone
  <2>4. UseFits(service, t, k, reader[t], l, asrWire[c])
    <3>1. UseFits(service, t, task[t], reader[t], line[c], asrWire[c])
      BY <1>1, UserFacts
    <3>2. /\ IsOf(line[c], asrWire[c], t) => IsOf(l, asrWire[c], t)
          /\ Clean(line[c], asrWire[c]) => Clean(l, asrWire[c])
          /\ NoMoreDone(line[c]) => NoMoreDone(l)
      BY <1>3 DEF IsOf, Clean, NoMoreDone
    <3> QED
      BY <1>1, <1>3, <2>1, <3>1, <3>2 DEF UseFits
  <2> QED
    BY <1>1, <1>3, <2>1, <2>2, <2>3, <2>4, TaskFacts, LineKeeps
<1>4. CASE TaskGoes(t, IF service \in Qwen3 THEN "final" ELSE "drain")
           /\ UNCHANGED <<line, results>>
  <2>1. line' = [line EXCEPT ![c] = line[c]] /\ line[c] \in LineRecords
    BY <1>1, <1>4, UserFacts
  <2> QED
    BY <1>3, <1>4, <2>1
<1>5. CASE /\ TaskGoes(t, IF service \in Qwen3 THEN "final" ELSE "drain") /\ UNCHANGED results
           /\ line' = [line EXCEPT ![c].told = (service \notin Qwen3)]
  <2>1. PICK l : l = [line[c] EXCEPT !.told = (service \notin Qwen3)]
    OBVIOUS
  <2>2. PICK at \in {"final", "drain"} : TaskGoes(t, at)
    BY <1>5
  <2>3. /\ l \in LineRecords /\ l.up = line[c].up /\ l.serves = line[c].serves
        /\ l.said = line[c].said
    BY <1>1, <2>1, UserFacts DEF LineRecords
  <2>4. line' = [line EXCEPT ![c] = l]
    BY <1>1, <1>5, <2>1, UserFacts
  <2> QED
    BY <1>3, <1>5, <2>2, <2>3, <2>4
<1>6. CASE /\ service = "xunfei" /\ task[t].fed = 0 /\ line[c].up
           /\ TaskGoes(t, "drain") /\ UNCHANGED results
           /\ line' = [Engages(c, t) EXCEPT ![c].told = TRUE]
  <2>1. line' = IF line[c].up
                THEN [line EXCEPT ![c].serves = t, ![c].told = TRUE, ![c].said = 0] ELSE line
    BY <1>1, <1>6, UserFacts DEF Engages, LineRecords
  <2>2. PICK k \in TaskRecords :
           /\ task' = [task EXCEPT ![t] = k] /\ k.at = "drain" /\ k.conn = task[t].conn
           /\ k.fed = task[t].fed /\ k.out = task[t].out
    BY <1>6, Goes DEF Using
  <2>3. TaskFits(service, t, k, reader[t], results[t]) /\ k.at \in Using \ {"begin"}
    BY <1>1, <2>2, TaskFacts DEF TaskFits, Early, Using
  <2>4. Clean(line[c], asrWire[c]) /\ service # "qwen3" /\ ~ reader[t].finished
    BY <1>1, <1>6, UserFacts, TaskFacts DEF UseFits, TaskFits, Qwen3
  <2>5. TRUE \in BOOLEAN /\ reader[t] \in ReaderRecords
        /\ reader' = [reader EXCEPT ![t] = reader[t]]
    BY <1>1, TaskFacts
  <2> QED
    BY <1>1, <1>6, <2>1, <2>2, <2>3, <2>4, <2>5, EngagesKeeps
<1>7. CASE Outcome(t, "drop") /\ UNCHANGED <<line, results>>
  BY <1>1, <1>7, TaskFacts, DropKeeps
<1>8. CASE FailsAloud(t) /\ UNCHANGED line
  BY <1>1, <1>8, TaskFacts, DropKeeps
<1>9. CASE service \in Qwen3 /\ TaskGoes(t, "final") /\ UNCHANGED <<line, results>>
  BY <1>4, <1>9
<1>10. CASE service \notin Qwen3 /\ TaskGoes(t, "drain") /\ UNCHANGED <<line, results>>
  BY <1>4, <1>10
<1> QED
  <2>1. CASE service = "doubao" /\ task[t].fed = 0
    BY <1>2, <2>1 DEF AudioOver
  <2>2. CASE ~ line[c].up /\ service \in {"doubao", "xunfei"} /\ UNCHANGED line
             /\ Outcome(t, "drop") /\ UNCHANGED results
    BY <1>7, <2>2
  <2> QED
    BY <1>1, <1>2, <1>4, <1>5, <1>6, <1>7, <1>8, <1>9, <1>10 DEF AudioOver, Qwen3

-----------------------------------------------------------------------------
\* What is read

LEMMA Reads ==
    ASSUME AsrInv, NEW t \in AsrTasks, HasConn(t), ReadsOn(t)
    PROVE  \E w \in Seq(WireRecords) :
              /\ asrWire' = [asrWire EXCEPT ![task[t].conn] = w]
              /\ ConnFits(service, line[task[t].conn], w) /\ IsOf(line[task[t].conn], w, t)
              /\ Clean(line[task[t].conn], asrWire[task[t].conn]) => Clean(line[task[t].conn], w)
              /\ task[t].at \in Using /\ Heard(t).say \in {"last"} \cup Ends
                    => Clean(line[task[t].conn], w)
              /\ service = "qwen3" /\ Heard(t).say = "done"
                    => NoMoreDone(line[task[t].conn]) /\ \A n \in DOMAIN w : w[n].say # "done"
              /\ (\A n \in DOMAIN asrWire[task[t].conn] : asrWire[task[t].conn][n].say # "done")
                    => (\A n \in DOMAIN w : w[n].say # "done") /\ Heard(t).say # "done"
              /\ Heard(t).of = t
              /\ Heard(t).say \in Kinds[service] \cup {"error", "last"} \cup Ends
<1> DEFINE c == task[t].conn
<1>1. PICK x : x = asrWire[c]
  OBVIOUS
<1>2. PICK l : l = line[c]
  OBVIOUS
<1>3. /\ c \in AsrTasks /\ l \in LineRecords /\ x \in Seq(WireRecords)
      /\ ConnFits(service, l, x) /\ IsOf(l, x, t)
      /\ task[t].at \in Using /\ ~ l.up => l.serves = NoTask
  BY <1>1, <1>2, UserFacts DEF UseFits
<1>4. CASE x = <<>>
  <2>1. ~ l.up /\ Heard(t) = [of |-> t, say |-> "close"] /\ asrWire' = [asrWire EXCEPT ![c] = x]
    BY <1>1, <1>2, <1>4 DEF ReadsOn, LineEnded, Heard
  <2>2. Heard(t).of = t /\ Heard(t).say = "close"
    BY <2>1
  <2>3. \A n \in DOMAIN x : FALSE
    BY <1>4
  <2>4. task[t].at \in Using => Clean(l, x)
    BY <1>3, <2>1, <2>3 DEF Clean
  <2> QED
    BY <1>1, <1>2, <1>3, <2>1, <2>2, <2>3, <2>4 DEF Ends
<1>5. CASE x # <<>>
  <2>1. PICK w : w = Tail(x)
    OBVIOUS
  <2>2. PICK h : h = Head(x)
    OBVIOUS
  <2>3. /\ w \in Seq(WireRecords) /\ h \in WireRecords /\ 1 \in DOMAIN x /\ h = x[1]
        /\ \A n \in DOMAIN w : n + 1 \in DOMAIN x /\ n + 1 > 1 /\ w[n] = x[n + 1]
        /\ \A n, m \in DOMAIN w : (m > n => m + 1 > n + 1) /\ (m + 1 = n + 1 => m = n)
    BY <1>3, <1>5, <2>1, <2>2
  <2>4. asrWire' = [asrWire EXCEPT ![c] = w]
    BY <1>1, <1>5, <2>1 DEF ReadsOn
  <2>5. Heard(t) = IF h.say \in {"close", "cut"} THEN [h EXCEPT !.of = t] ELSE h
    BY <1>1, <1>5, <2>2 DEF Heard, LineEnded
  <2>6. Heard(t).say = h.say /\ (h.say \notin Ends => h.of = t)
    BY <1>3, <2>3, <2>5 DEF WireRecords, IsOf
  <2>7. Heard(t).of = t
    BY <2>3, <2>5, <2>6 DEF WireRecords, Ends
  <2>8. h.say \in Kinds[service] \cup {"error", "last"} \cup Ends
    BY <1>3, <2>3 DEF ConnFits
  <2>9. IsOf(l, w, t) /\ (Clean(l, x) => Clean(l, w))
    BY <1>3, <2>3 DEF IsOf, Clean
  <2>10. h.say \in {"last"} \cup Ends => Clean(l, w)
    BY <1>3, <2>3 DEF ConnFits, Clean
  <2>11. /\ service = "qwen3" /\ h.say = "done" => NoMoreDone(l) /\ \A n \in DOMAIN w : w[n].say # "done"
         /\ (\A n \in DOMAIN x : x[n].say # "done")
               => (\A n \in DOMAIN w : w[n].say # "done") /\ h.say # "done"
    <3>1. ASSUME service = "qwen3", h.say = "done", NEW n \in DOMAIN w PROVE w[n].say # "done"
      <4>1. x[1].say = "done" => \A m \in DOMAIN x : x[m].say = "done" => m = 1
        BY <1>3, <2>3, <3>1 DEF ConnFits
      <4> QED
        BY <2>3, <3>1, <4>1
    <3>2. service = "qwen3" /\ h.say = "done" => NoMoreDone(l)
      BY <1>3, <2>3 DEF ConnFits
    <3> QED
      BY <2>3, <3>1, <3>2
  <2>12. ConnFits(service, l, w)
    <3>1. \A n \in DOMAIN w : w[n].say \in Kinds[service] \cup {"error", "last"} \cup Ends
      BY <1>3, <2>3 DEF ConnFits
    <3>2. \A n \in DOMAIN w : w[n].say \in {"last"} \cup Ends =>
             l.serves = NoTask /\ \A m \in DOMAIN w : m > n => w[m].say \in Ends
      BY <1>3, <2>3 DEF ConnFits
    <3>3. \A n \in DOMAIN w : w[n].say \in Ends => ~ l.up
      BY <1>3, <2>3 DEF ConnFits
    <3>4. service = "qwen3" =>
             \A n \in DOMAIN w : w[n].say = "done" =>
                NoMoreDone(l) /\ \A m \in DOMAIN w : w[m].say = "done" => m = n
      BY <1>3, <2>3 DEF ConnFits
    <3> QED
      BY <3>1, <3>2, <3>3, <3>4 DEF ConnFits
  <2> QED
    BY <1>1, <1>2, <2>3, <2>4, <2>6, <2>7, <2>8, <2>9, <2>10, <2>11, <2>12
<1> QED
  BY <1>4, <1>5

\* A step of a task, or of its reader, that reads.
LEMMA ReadKeeps ==
    ASSUME AsrInv, NEW t \in AsrTasks, HasConn(t), NEW k \in TaskRecords, NEW r \in ReaderRecords,
           NEW q \in Seq(ResultRecords), NEW w \in Seq(WireRecords),
           task' = [task EXCEPT ![t] = k], reader' = [reader EXCEPT ![t] = r],
           results' = [results EXCEPT ![t] = q],
           asrWire' = [asrWire EXCEPT ![task[t].conn] = w],
           UNCHANGED <<service, cached, line, faults>>, InTurn',
           k.conn = task[t].conn, k.at \notin Early,
           ConnFits(service, line[task[t].conn], w), TaskFits(service, t, k, r, q),
           UseFits(service, t, k, r, line[task[t].conn], w)
    PROVE  AsrInv'
<1>1. line[task[t].conn] \in LineRecords /\ line' = [line EXCEPT ![task[t].conn] = line[task[t].conn]]
      /\ faults' \in 0 .. MaxFaults
  BY UserFacts, TaskFacts
<1>2. AsrMoves(t, k, r, q, line[task[t].conn], w)
  BY <1>1 DEF AsrMoves, HasConn
<1> QED
  BY <1>1, <1>2, AsrMovesKeep

\* A task of the services that have no reader of their own reads.
LEMMA TaskReads ==
    ASSUME AsrInv, NEW t \in AsrTasks, service \notin Qwen3,
           task[t].at \in {"opening", "stream", "drain"}, ReadsOn(t),
           \/ task' = task
           \/ TaskGoes(t, "stream") /\ service = "aliyun"
           \/ Outcome(t, "drop")
           \/ Outcome(t, "reuse") /\ Heard(t).say \in {"last"} \cup Ends,
           \/ results' = results
           \/ \E final, error \in BOOLEAN :
                 results' = [results EXCEPT ![t] = Says(t, Heard(t).of, final, error)],
           UNCHANGED <<service, reader, guard, cached, line, faults>>
    PROVE  AsrInv'
<1>1. HasConn(t) /\ task[t].at \in Using /\ task[t].at \in Holding /\ task[t].out # "reuse"
  BY TaskFacts DEF TaskFits, HasConn, Using, Holding
<1>2. PICK w \in Seq(WireRecords) :
         /\ asrWire' = [asrWire EXCEPT ![task[t].conn] = w]
         /\ ConnFits(service, line[task[t].conn], w) /\ IsOf(line[task[t].conn], w, t)
         /\ Clean(line[task[t].conn], asrWire[task[t].conn]) => Clean(line[task[t].conn], w)
         /\ task[t].at \in Using /\ Heard(t).say \in {"last"} \cup Ends
               => Clean(line[task[t].conn], w)
         /\ Heard(t).of = t
  BY <1>1, Reads
<1>3. PICK k \in TaskRecords :
         /\ task' = [task EXCEPT ![t] = k] /\ k.conn = task[t].conn /\ k.fed = task[t].fed
         /\ \/ k.at = task[t].at /\ k.out = task[t].out
            \/ k.at = "stream" /\ k.out = task[t].out /\ service = "aliyun"
            \/ k.at = "release" /\ k.out = "drop"
            \/ k.at = "release" /\ k.out = "reuse" /\ Heard(t).say \in {"last"} \cup Ends
  <2>1. CASE task' = task
    BY <2>1, TaskFacts
  <2>2. CASE TaskGoes(t, "stream") /\ service = "aliyun"
    <3>1. PICK k \in TaskRecords :
             /\ task' = [task EXCEPT ![t] = k] /\ k.at = "stream" /\ k.conn = task[t].conn
             /\ k.fed = task[t].fed /\ k.out = task[t].out
      BY <2>2, Goes DEF Using
    <3> QED
      BY <2>2, <3>1
  <2>3. ASSUME NEW out \in {"reuse", "drop"}, Outcome(t, out),
               out = "reuse" => Heard(t).say \in {"last"} \cup Ends
        PROVE  \E k \in TaskRecords :
                  /\ task' = [task EXCEPT ![t] = k] /\ k.conn = task[t].conn /\ k.fed = task[t].fed
                  /\ \/ k.at = "release" /\ k.out = "drop"
                     \/ k.at = "release" /\ k.out = "reuse" /\ Heard(t).say \in {"last"} \cup Ends
    <3>1. PICK k \in TaskRecords :
             /\ task' = [task EXCEPT ![t] = k] /\ k.at = "release" /\ k.conn = task[t].conn
             /\ k.fed = task[t].fed /\ k.out = out
      BY <2>3, Outcomes
    <3> QED
      BY <2>3, <3>1
  <2> QED
    BY <2>1, <2>2, <2>3
<1>4. PICK q \in Seq(ResultRecords) :
         /\ results' = [results EXCEPT ![t] = q] /\ Told(q, results[t])
         /\ \A n \in DOMAIN q : q[n].of = t
  <2>1. CASE results' = results
    BY <2>1, TaskFacts DEF Told, TaskFits
  <2>2. ASSUME NEW final \in BOOLEAN, NEW error \in BOOLEAN,
               results' = [results EXCEPT ![t] = Says(t, Heard(t).of, final, error)]
        PROVE  \E q \in Seq(ResultRecords) :
                  /\ results' = [results EXCEPT ![t] = q] /\ Told(q, results[t])
                  /\ \A n \in DOMAIN q : q[n].of = t
    <3>1. PICK q : q = Says(t, t, final, error)
      OBVIOUS
    <3>2. q \in Seq(ResultRecords) /\ Told(q, results[t]) /\ \A n \in DOMAIN q : q[n].of = t
      BY <3>1, SaysOwn
    <3> QED
      BY <1>2, <2>2, <3>1, <3>2
  <2> QED
    BY <2>1, <2>2
<1>5. /\ reader[t] \in ReaderRecords /\ reader' = [reader EXCEPT ![t] = reader[t]]
      /\ reader[t].on = "no" /\ ~ reader[t].finished
  BY TaskFacts DEF TaskFits
<1>6. k.at \in Using /\ k.at \notin Early /\ k.at \in Holding /\ k.at # "begin"
  BY <1>1, <1>3 DEF Using, Early, Holding
<1>7. TaskFits(service, t, k, reader[t], q)
  <2>1. TaskFits(service, t, task[t], reader[t], results[t])
    BY TaskFacts
  <2>2. reader[t].signals = 1 => \E n \in DOMAIN q : q[n].final /\ ~ q[n].error
    BY <1>4, <2>1 DEF TaskFits, Told
  <2> QED
    BY <1>1, <1>3, <1>4, <1>5, <1>6, <2>1, <2>2 DEF TaskFits, Using
<1>8. UseFits(service, t, k, reader[t], line[task[t].conn], w)
  <2>1. UseFits(service, t, task[t], reader[t], line[task[t].conn], asrWire[task[t].conn])
    BY <1>1, UserFacts
  <2>2. service # "qwen3"
    BY DEF Qwen3
  <2> QED
    BY <1>1, <1>2, <1>3, <1>5, <1>6, <2>1, <2>2 DEF UseFits, Reading
<1>9. InTurn'
  BY <1>1, <1>3, <1>6, KeepsTurn
<1> QED
  BY <1>1, <1>2, <1>3, <1>4, <1>5, <1>6, <1>7, <1>8, <1>9, ReadKeeps

LEMMA KindsOf ==
    /\ service = "doubao" => Kinds[service] = {"part"}
    /\ service = "xunfei" => Kinds[service] = {"part"}
    /\ service = "funasr" => Kinds[service] = {"part"}
    /\ service = "aliyun" => Kinds[service] = {"started", "part"}
    /\ service \in Qwen3 => Kinds[service] = {"started", "done"}
  BY DEF Kinds, Qwen3

LEMMA SaidTo ==
    ASSUME AsrInv, NEW t \in AsrTasks, NEW final \in BOOLEAN,
           Passes(t, Heard(t).of, final) \/ PassesError(t, Heard(t).of)
    PROVE  \E f, e \in BOOLEAN : results' = [results EXCEPT ![t] = Says(t, Heard(t).of, f, e)]
  BY DEF Passes, PassesError

LEMMA DoubaoReadsInv == ASSUME AsrInv, NEW t \in AsrTasks, DoubaoReads(t) PROVE AsrInv'
<1>1. /\ service \notin Qwen3 /\ task[t].at \in {"opening", "stream", "drain"} /\ ReadsOn(t)
      /\ UNCHANGED <<service, reader, guard, cached, line, faults>>
  BY DEF DoubaoReads, Qwen3
<1>2. \/ task' = task
      \/ Outcome(t, "drop")
      \/ Outcome(t, "reuse") /\ Heard(t).say \in {"last"} \cup Ends
  BY DEF DoubaoReads, FailsAsHeard, Ends
<1>3. \/ results' = results
      \/ \E f, e \in BOOLEAN : results' = [results EXCEPT ![t] = Says(t, Heard(t).of, f, e)]
  <2>1. results' = results \/ \E f \in BOOLEAN : Passes(t, Heard(t).of, f) \/ PassesError(t, Heard(t).of)
    BY DEF DoubaoReads, FailsAsHeard
  <2> QED
    BY <2>1, SaidTo
<1> QED
  BY <1>1, <1>2, <1>3, TaskReads

LEMMA XunfeiReadsInv == ASSUME AsrInv, NEW t \in AsrTasks, XunfeiReads(t) PROVE AsrInv'
<1>1. /\ service \notin Qwen3 /\ task[t].at \in {"opening", "stream", "drain"} /\ ReadsOn(t)
      /\ UNCHANGED <<service, reader, guard, cached, line, faults>>
  BY DEF XunfeiReads, Qwen3
<1>2. task' = task \/ Outcome(t, "drop")
  BY DEF XunfeiReads, FailsAsHeard
<1>3. \/ results' = results
      \/ \E f, e \in BOOLEAN : results' = [results EXCEPT ![t] = Says(t, Heard(t).of, f, e)]
  <2>1. results' = results \/ \E f \in BOOLEAN : Passes(t, Heard(t).of, f) \/ PassesError(t, Heard(t).of)
    BY DEF XunfeiReads, FailsAsHeard
  <2> QED
    BY <2>1, SaidTo
<1> QED
  BY <1>1, <1>2, <1>3, TaskReads

LEMMA AliyunStartsInv == ASSUME AsrInv, NEW t \in AsrTasks, AliyunStarts(t) PROVE AsrInv'
<1>1. /\ service \notin Qwen3 /\ task[t].at \in {"opening", "stream", "drain"} /\ ReadsOn(t)
      /\ UNCHANGED <<service, reader, guard, cached, line, faults>>
  BY DEF AliyunStarts, Qwen3
<1>2. task' = task \/ (TaskGoes(t, "stream") /\ service = "aliyun") \/ Outcome(t, "drop")
  BY DEF AliyunStarts, FailsAsHeard
<1>3. \/ results' = results
      \/ \E f, e \in BOOLEAN : results' = [results EXCEPT ![t] = Says(t, Heard(t).of, f, e)]
  <2>1. results' = results \/ \E f \in BOOLEAN : Passes(t, Heard(t).of, f) \/ PassesError(t, Heard(t).of)
    BY DEF AliyunStarts, FailsAsHeard
  <2> QED
    BY <2>1, SaidTo
<1> QED
  BY <1>1, <1>2, <1>3, TaskReads

LEMMA AliyunReadsInv == ASSUME AsrInv, NEW t \in AsrTasks, AliyunReads(t) PROVE AsrInv'
<1>1. /\ service \notin Qwen3 /\ task[t].at \in {"opening", "stream", "drain"} /\ ReadsOn(t)
      /\ UNCHANGED <<service, reader, guard, cached, line, faults>>
  BY DEF AliyunReads, Qwen3
<1>2. \/ task' = task
      \/ Outcome(t, "drop")
      \/ Outcome(t, "reuse") /\ Heard(t).say \in {"last"} \cup Ends
  BY DEF AliyunReads, FailsAsHeard, Ends
<1>3. \/ results' = results
      \/ \E f, e \in BOOLEAN : results' = [results EXCEPT ![t] = Says(t, Heard(t).of, f, e)]
  <2>1. results' = results \/ \E f \in BOOLEAN : Passes(t, Heard(t).of, f) \/ PassesError(t, Heard(t).of)
    BY DEF AliyunReads, FailsAsHeard
  <2> QED
    BY <2>1, SaidTo
<1> QED
  BY <1>1, <1>2, <1>3, TaskReads

LEMMA FunasrReadsInv == ASSUME AsrInv, NEW t \in AsrTasks, FunasrReads(t) PROVE AsrInv'
<1>1. /\ service \notin Qwen3 /\ task[t].at \in {"opening", "stream", "drain"} /\ ReadsOn(t)
      /\ UNCHANGED <<service, reader, guard, cached, line, faults>> /\ service = "funasr"
  BY DEF FunasrReads, Qwen3
<1>2. HasConn(t)
  BY TaskFacts DEF FunasrReads, TaskFits, HasConn, Using
<1>3. Heard(t).say \in {"part", "error", "last"} \cup Ends /\ Heard(t).of = t
  BY <1>1, <1>2, Reads, KindsOf
<1>4. \/ task' = task
      \/ Outcome(t, "drop")
      \/ Outcome(t, "reuse") /\ Heard(t).say \in {"last"} \cup Ends
  BY <1>3 DEF FunasrReads, FailsAloud, Ends
<1>5. \/ results' = results
      \/ \E f, e \in BOOLEAN : results' = [results EXCEPT ![t] = Says(t, Heard(t).of, f, e)]
  <2>1. \/ results' = results
        \/ \E f \in BOOLEAN : Passes(t, Heard(t).of, f) \/ PassesError(t, Heard(t).of)
    BY <1>3 DEF FunasrReads, FailsAloud
  <2> QED
    BY <2>1, SaidTo
<1> QED
  BY <1>1, <1>4, <1>5, TaskReads

\* The reader of a qwen3 task.
LEMMA QwenReadsInv == ASSUME AsrInv, NEW t \in AsrTasks, QwenReads(t) PROVE AsrInv'
<1> DEFINE c == task[t].conn
<1>1. /\ service \in Qwen3 /\ reader[t].on = "on" /\ ReadsOn(t)
      /\ UNCHANGED <<service, task, guard, cached, line, faults>>
  BY DEF QwenReads
<1>2. /\ HasConn(t) /\ task[t].at \notin Early \cup {"begin"}
      /\ TaskFits(service, t, task[t], reader[t], results[t])
      /\ task[t] \in TaskRecords /\ reader[t] \in ReaderRecords
  BY <1>1, TaskFacts DEF TaskFits, HasConn, Reading
<1>3. PICK w \in Seq(WireRecords) :
         /\ asrWire' = [asrWire EXCEPT ![c] = w]
         /\ ConnFits(service, line[c], w) /\ IsOf(line[c], w, t)
         /\ Clean(line[c], asrWire[c]) => Clean(line[c], w)
         /\ task[t].at \in Using /\ Heard(t).say \in {"last"} \cup Ends => Clean(line[c], w)
         /\ service = "qwen3" /\ Heard(t).say = "done"
               => NoMoreDone(line[c]) /\ \A n \in DOMAIN w : w[n].say # "done"
         /\ (\A n \in DOMAIN asrWire[c] : asrWire[c][n].say # "done")
               => (\A n \in DOMAIN w : w[n].say # "done") /\ Heard(t).say # "done"
         /\ Heard(t).of = t
         /\ Heard(t).say \in Kinds[service] \cup {"error", "last"} \cup Ends
  BY <1>1, <1>2, Reads
<1>4. Heard(t).say \in {"started", "done", "error", "last"} \cup Ends
  BY <1>1, <1>3, KindsOf
<1>5. UseFits(service, t, task[t], reader[t], line[c], asrWire[c])
  BY <1>2, UserFacts
<1>6. InTurn'
  BY <1>1 DEF AsrInv, InTurn
<1>7. ASSUME NEW r \in ReaderRecords, reader' = [reader EXCEPT ![t] = r], r.on # "no",
             NEW q \in Seq(ResultRecords), results' = [results EXCEPT ![t] = q],
             \A n \in DOMAIN q : q[n].of = t,
             r.signals = 1 => \E n \in DOMAIN q : q[n].final /\ ~ q[n].error,
             service = "qwen3" => r.on # "stuck",
             r.finished => reader[t].finished \/ (Heard(t).say = "last" /\ r.on = "off"),
             r.signals = reader[t].signals \/ Heard(t).say = "done"
      PROVE  AsrInv'
  <2>1. TaskFits(service, t, task[t], r, q)
    BY <1>1, <1>2, <1>7 DEF TaskFits, Reading
  <2>2. UseFits(service, t, task[t], r, line[c], w)
    <3>1. task[t].at = "stream" /\ task[t].fed = 0 => service \notin {"doubao", "xunfei"}
      BY <1>1 DEF Qwen3
    <3>2. task[t].at \in Using => task[t].out # "reuse" /\ ~ reader[t].finished
      BY <1>1, <1>5 DEF UseFits, Reading
    <3>3. task[t].at \in Using /\ r.finished => Clean(line[c], w) /\ r.on \notin Reading
      BY <1>3, <1>7, <3>2 DEF Reading
    <3>4. service = "qwen3" /\ r.signals = 1 =>
             NoMoreDone(line[c]) /\ \A n \in DOMAIN w : w[n].say # "done"
      BY <1>3, <1>5, <1>7 DEF UseFits
    <3> QED
      BY <1>2, <1>3, <1>5, <3>1, <3>2, <3>3, <3>4 DEF UseFits
  <2> QED
    BY <1>1, <1>2, <1>3, <1>6, <1>7, <2>1, <2>2, TaskFacts, ReadKeeps
<1>8. /\ results[t] \in Seq(ResultRecords)
      /\ UNCHANGED results => results' = [results EXCEPT ![t] = results[t]]
      /\ \A n \in DOMAIN results[t] : results[t][n].of = t
      /\ reader[t].signals = 1 =>
            \E n \in DOMAIN results[t] : results[t][n].final /\ ~ results[t][n].error
  BY <1>2, TaskFacts DEF TaskFits
<1>9. CASE Heard(t).say = "started"
  <2>1. PICK r : r = [reader[t] EXCEPT !.updated = TRUE]
    OBVIOUS
  <2>2. /\ r \in ReaderRecords /\ r.on = "on" /\ r.signals = reader[t].signals
        /\ r.finished = reader[t].finished
    BY <1>1, <1>2, <2>1 DEF ReaderRecords
  <2>3. reader' = [reader EXCEPT ![t] = r] /\ UNCHANGED results
    BY <1>9, <2>1, TaskFacts DEF QwenReads
  <2> QED
    BY <1>7, <1>8, <2>2, <2>3
<1>10. CASE Heard(t).say = "done" /\ reader[t].signals = 0
  <2>1. PICK r : r = [reader[t] EXCEPT !.signals = 1, !.on = "on"]
    OBVIOUS
  <2>2. r \in ReaderRecords /\ r.on = "on" /\ r.finished = reader[t].finished
    <3>1. 1 \in 0 .. 1
      OBVIOUS
    <3> QED
      BY <1>2, <2>1, <3>1 DEF ReaderRecords
  <2>3. reader' = [reader EXCEPT ![t].signals = 1, ![t].on = "on"] /\ Passes(t, t, TRUE)
    BY <1>3, <1>10 DEF QwenReads, SignalsFinal
  <2>4. reader' = [reader EXCEPT ![t] = r]
    BY <2>1, <2>3, TaskFacts
  <2>5. PICK q : q = Says(t, t, TRUE, FALSE)
    OBVIOUS
  <2>6. /\ q \in Seq(ResultRecords) /\ \A n \in DOMAIN q : q[n].of = t
        /\ \E n \in DOMAIN q : q[n].final /\ ~ q[n].error
    BY <2>5, SaysOwn
  <2>7. results' = [results EXCEPT ![t] = q]
    BY <2>3, <2>5 DEF Passes
  <2> QED
    BY <1>7, <1>10, <2>2, <2>4, <2>6, <2>7
<1>11. CASE Heard(t).say = "done" /\ reader[t].signals # 0
  <2>1. PICK r : r = [reader[t] EXCEPT !.on = "stuck"]
    OBVIOUS
  <2>2. /\ r \in ReaderRecords /\ r.on = "stuck" /\ r.signals = reader[t].signals
        /\ r.finished = reader[t].finished
    BY <1>2, <2>1 DEF ReaderRecords
  <2>3. reader' = [reader EXCEPT ![t] = r] /\ UNCHANGED results
    BY <1>11, <2>1, TaskFacts DEF QwenReads
  <2>4. reader[t].signals = 1
    BY <1>2, <1>11 DEF ReaderRecords
  <2>5. service # "qwen3"
    BY <1>3, <1>5, <1>11, <2>4 DEF UseFits
  <2> QED
    BY <1>7, <1>8, <2>2, <2>3, <2>5
<1>12. ASSUME NEW r \in ReaderRecords, reader' = [reader EXCEPT ![t] = r],
              r.on = "off", r.signals = reader[t].signals,
              r.finished => reader[t].finished \/ Heard(t).say = "last",
              UNCHANGED results \/ PassesError(t, Heard(t).of)
       PROVE  AsrInv'
  <2>1. CASE UNCHANGED results
    BY <1>7, <1>8, <1>12, <2>1
  <2>2. CASE PassesError(t, Heard(t).of)
    <3>1. PICK q : q = Says(t, t, TRUE, TRUE)
      OBVIOUS
    <3>2. /\ q \in Seq(ResultRecords) /\ \A n \in DOMAIN q : q[n].of = t
          /\ Told(q, results[t])
      BY <3>1, SaysOwn
    <3>3. results' = [results EXCEPT ![t] = q]
      BY <1>3, <2>2, <3>1 DEF PassesError
    <3> QED
      BY <1>7, <1>8, <1>12, <3>2, <3>3 DEF Told
  <2> QED
    BY <1>12, <2>1, <2>2
<1>13. CASE Heard(t).say = "last"
  <2>1. reader' = [reader EXCEPT ![t].on = "off", ![t].finished = TRUE] /\ UNCHANGED results
    BY <1>13 DEF QwenReads
  <2>2. PICK r : r = [reader[t] EXCEPT !.on = "off", !.finished = TRUE]
    OBVIOUS
  <2>3. r \in ReaderRecords /\ r.on = "off" /\ r.signals = reader[t].signals
    BY <1>2, <2>2 DEF ReaderRecords
  <2>4. reader' = [reader EXCEPT ![t] = r]
    BY <2>1, <2>2, TaskFacts
  <2> QED
    BY <1>12, <1>13, <2>1, <2>3, <2>4
<1>14. CASE Heard(t).say \in {"error"} \cup Ends
  <2>1. reader' = [reader EXCEPT ![t].on = "off"] /\ (UNCHANGED results \/ PassesError(t, Heard(t).of))
    BY <1>14 DEF QwenReads, Ends
  <2>2. PICK r : r = [reader[t] EXCEPT !.on = "off"]
    OBVIOUS
  <2>3. /\ r \in ReaderRecords /\ r.on = "off" /\ r.signals = reader[t].signals
        /\ r.finished = reader[t].finished
    BY <1>2, <2>2 DEF ReaderRecords
  <2>4. reader' = [reader EXCEPT ![t] = r]
    BY <2>1, <2>2, TaskFacts
  <2> QED
    BY <1>12, <2>1, <2>3, <2>4
<1> QED
  BY <1>4, <1>9, <1>10, <1>11, <1>13, <1>14

-----------------------------------------------------------------------------
\* The end of a task, and of the provider

LEMMA FinishTaskInv == ASSUME AsrInv, NEW t \in AsrTasks, FinishTask(t) PROVE AsrInv'
<1> DEFINE c == task[t].conn
<1>1. /\ task[t].at = "release" /\ guard = t /\ guard' = NoTask
      /\ UNCHANGED <<service, reader, asrWire, results, faults>>
  BY DEF FinishTask
<1>2. /\ task \in [AsrTasks -> TaskRecords] /\ reader \in [AsrTasks -> ReaderRecords]
      /\ line \in [AsrTasks -> LineRecords] /\ asrWire \in [AsrTasks -> Seq(WireRecords)]
      /\ c \in AsrTasks \cup {NoTask} /\ cached \in AsrTasks \cup {NoTask}
      /\ TaskFits(service, t, task[t], reader[t], results[t])
  BY TaskFacts DEF AsrInv, AsrTypes, TaskRecords
<1>3. PICK k \in TaskRecords :
         /\ task' = [task EXCEPT ![t] = k] /\ k.at = "over" /\ k.conn = c
         /\ k.fed = task[t].fed /\ k.out = task[t].out
  BY Goes DEF FinishTask
<1>4. c # NoTask => /\ HasConn(t) /\ UseFits(service, t, task[t], reader[t], line[c], asrWire[c])
                    /\ ConnFits(service, line[c], asrWire[c])
  <2>1. c # NoTask => HasConn(t)
    BY <1>1 DEF HasConn, Using
  <2> QED
    BY <2>1, UserFacts
<1>5. \A s \in AsrTasks : task'[s] = IF s = t THEN k ELSE task[s]
  BY <1>2, <1>3
<1>6. /\ line' \in [AsrTasks -> LineRecords]
      /\ \A d \in AsrTasks : /\ line'[d].serves = line[d].serves /\ line'[d].said = line[d].said
                             /\ line'[d].up => line[d].up
                             /\ d # c => line'[d] = line[d]
  <2>1. CASE line' = line
    BY <1>2, <2>1
  <2>2. CASE c # NoTask /\ line' = [line EXCEPT ![c].up = FALSE]
    <3>1. PICK l : l = [line[c] EXCEPT !.up = FALSE]
      OBVIOUS
    <3>2. /\ l \in LineRecords /\ l.serves = line[c].serves /\ l.said = line[c].said /\ ~ l.up
          /\ line' = [line EXCEPT ![c] = l]
      BY <1>2, <2>2, <3>1 DEF LineRecords
    <3> QED
      BY <1>2, <2>2, <3>2
  <2> QED
    BY <2>1, <2>2 DEF FinishTask
<1>7. /\ cached' \in {c, NoTask}
      /\ cached' # NoTask => /\ task[t].out = "reuse" /\ cached' = c /\ line' = line
                             /\ Clean(line[c], asrWire[c]) /\ reader[t].on \notin Reading
  <2>1. /\ cached' = IF task[t].out = "reuse" THEN c ELSE NoTask
        /\ task[t].out = "reuse" => line' = line
    BY DEF FinishTask
  <2>2. c # NoTask /\ task[t].out = "reuse" => Clean(line[c], asrWire[c]) /\ reader[t].on \notin Reading
    BY <1>1, <1>4 DEF UseFits, Using
  <2> QED
    BY <2>1, <2>2
<1>8. \A s \in AsrTasks : HasConn(s)' => HasConn(s)
  BY <1>1, <1>3, <1>5, <1>2 DEF HasConn, Using
<1>9. AsrTypes'
  BY <1>1, <1>2, <1>3, <1>6, <1>7 DEF AsrInv, AsrTypes
<1>10. InTurn'
  <2>1. /\ \A s \in AsrTasks : task[s].at \in Holding => s = t
        /\ \A s \in AsrTasks : t < s => task[s].at \in {"idle", "asked"}
        /\ \A s \in AsrTasks : s < t => task[s].at = "over"
    BY <1>1 DEF AsrInv, InTurn
  <2>2. \A s \in AsrTasks : task'[s].at \notin Holding
    BY <1>3, <1>5, <2>1 DEF Holding, Using
  <2>3. \A s, u \in AsrTasks :
           s < u => /\ task'[u].at # "idle" => task'[s].at # "idle"
                    /\ task'[u].at \notin {"idle", "asked"} => task'[s].at = "over"
    <3> SUFFICES ASSUME NEW s \in AsrTasks, NEW u \in AsrTasks, s < u
                 PROVE  /\ task'[u].at # "idle" => task'[s].at # "idle"
                        /\ task'[u].at \notin {"idle", "asked"} => task'[s].at = "over"
      OBVIOUS
    <3>1. CASE u = t
      BY <1>3, <1>5, <2>1, <3>1, AsrNumbers
    <3>2. CASE s = t
      BY <1>3, <1>5, <2>1, <3>2, AsrNumbers
    <3>3. CASE u # t /\ s # t
      BY <1>5, <3>3 DEF AsrInv, InTurn
    <3> QED
      BY <3>1, <3>2, <3>3
  <2> QED
    BY <1>1, <2>2, <2>3, AsrNumbers DEF InTurn
<1>11. TasksFit'
  <2>1. TaskFits(service, t, k, reader[t], results[t])
    BY <1>1, <1>2, <1>3 DEF TaskFits, Early, Using
  <2> QED
    BY <1>1, <1>5, <2>1 DEF AsrInv, TasksFit
<1>12. ConnsFit'
  <2> SUFFICES ASSUME NEW d \in AsrTasks PROVE ConnFits(service', line'[d], asrWire'[d])
    BY DEF ConnsFit
  <2>1. ConnFits(service, line[d], asrWire[d])
    BY DEF AsrInv, ConnsFit
  <2> QED
    BY <1>1, <1>6, <2>1 DEF ConnFits, NoMoreDone
<1>13. UsersFit'
  <2> SUFFICES ASSUME NEW s \in AsrTasks, HasConn(s)'
               PROVE  /\ UseFits(service', s, task'[s], reader'[s], line'[task'[s].conn],
                                 asrWire'[task'[s].conn])
                      /\ cached' # task'[s].conn
    BY DEF UsersFit
  <2>1. /\ HasConn(s) /\ task[s].conn \in AsrTasks
        /\ UseFits(service, s, task[s], reader[s], line[task[s].conn], asrWire[task[s].conn])
    BY <1>2, <1>8 DEF AsrInv, UsersFit, HasConn, TaskRecords
  <2>2. CASE s = t
    <3>1. task'[s] = k /\ k.conn = c /\ c \in AsrTasks /\ reader[t].on \in Reading
          /\ k.at \notin Using
      BY <1>1, <1>3, <1>5, <2>1, <2>2 DEF HasConn, Using
    <3>2. UseFits(service, t, k, reader[t], line'[c], asrWire[c])
      <4>1. UseFits(service, t, task[t], reader[t], line[c], asrWire[c])
            /\ line'[c].serves = line[c].serves /\ line'[c].said = line[c].said
        BY <1>6, <2>1, <2>2, <3>1
      <4>2. IsOf(line[c], asrWire[c], t) => IsOf(line'[c], asrWire[c], t)
        BY <4>1 DEF IsOf
      <4> QED
        BY <1>3, <3>1, <4>1, <4>2 DEF UseFits, NoMoreDone
    <3> QED
      BY <1>1, <1>7, <2>2, <3>1, <3>2, AsrNumbers
  <2>3. CASE s # t
    <3>1. task'[s] = task[s] /\ (c # NoTask => task[s].conn # c)
      BY <1>4, <1>5, <2>1, <2>3 DEF AsrInv, UsersDiffer
    <3>2. task[s].conn # c
      BY <2>1, <3>1, AsrNumbers
    <3>3. line'[task[s].conn] = line[task[s].conn]
      BY <1>6, <2>1, <3>2
    <3> QED
      BY <1>1, <1>7, <2>1, <3>1, <3>2, <3>3, AsrNumbers
  <2> QED
    BY <2>2, <2>3
<1>14. UsersDiffer'
  BY <1>3, <1>5, <1>8 DEF AsrInv, UsersDiffer
<1>15. FreshFits'
  <2> SUFFICES ASSUME NEW s \in AsrTasks, task'[s].at \in Early
               PROVE  /\ line'[s].serves = NoTask /\ ~ line'[s].up /\ asrWire'[s] = <<>>
                      /\ cached' # s /\ \A i \in AsrTasks : task'[i].conn # s
    BY DEF FreshFits
  <2>1. s # t /\ task[s].at \in Early
    BY <1>3, <1>5 DEF Early
  <2>2. /\ line[s].serves = NoTask /\ ~ line[s].up /\ asrWire[s] = <<>>
        /\ \A i \in AsrTasks : task[i].conn # s
    BY <2>1 DEF AsrInv, FreshFits
  <2> QED
    BY <1>1, <1>3, <1>5, <1>6, <1>7, <2>2, AsrNumbers
<1>16. KeptIsClean'
  BY <1>1, <1>7 DEF KeptIsClean
<1> QED
  BY <1>9, <1>10, <1>11, <1>12, <1>13, <1>14, <1>15, <1>16 DEF AsrInv

LEMMA ClosesProviderInv == ASSUME AsrInv, ClosesProvider PROVE AsrInv'
<1>1. /\ cached # NoTask /\ cached' = NoTask /\ cached \in AsrTasks
      /\ line' = [line EXCEPT ![cached].up = FALSE] /\ line \in [AsrTasks -> LineRecords]
      /\ UNCHANGED <<service, task, reader, guard, asrWire, results, faults>>
  BY DEF ClosesProvider, AsrInv, AsrTypes
<1>2. PICK l : l = [line[cached] EXCEPT !.up = FALSE]
  OBVIOUS
<1>3. /\ l \in LineRecords /\ l.serves = line[cached].serves /\ l.said = line[cached].said /\ ~ l.up
  BY <1>1, <1>2 DEF LineRecords
<1>4. line' = [line EXCEPT ![cached] = l]
  BY <1>1, <1>2
<1>5. \A d \in AsrTasks : line'[d] = IF d = cached THEN l ELSE line[d]
  BY <1>1, <1>4
<1>6. AsrTypes' /\ InTurn' /\ TasksFit' /\ UsersDiffer' /\ KeptIsClean'
  <2>1. AsrTypes'
    BY <1>1, <1>3, <1>4 DEF AsrInv, AsrTypes
  <2> QED
    BY <1>1, <2>1 DEF AsrInv, InTurn, TasksFit, UsersDiffer, HasConn, KeptIsClean
<1>7. ConnsFit'
  <2> SUFFICES ASSUME NEW d \in AsrTasks PROVE ConnFits(service', line'[d], asrWire'[d])
    BY DEF ConnsFit
  <2>1. ConnFits(service, line[d], asrWire[d])
    BY DEF AsrInv, ConnsFit
  <2> QED
    BY <1>1, <1>3, <1>5, <2>1 DEF ConnFits, NoMoreDone
<1>8. UsersFit'
  <2> SUFFICES ASSUME NEW s \in AsrTasks, HasConn(s)'
               PROVE  /\ UseFits(service', s, task'[s], reader'[s], line'[task'[s].conn],
                                 asrWire'[task'[s].conn])
                      /\ cached' # task'[s].conn
    BY DEF UsersFit
  <2>1. HasConn(s) /\ task[s].conn \in AsrTasks
    BY <1>1 DEF HasConn, AsrInv, AsrTypes, TaskRecords
  <2>2. /\ UseFits(service, s, task[s], reader[s], line[task[s].conn], asrWire[task[s].conn])
        /\ cached # task[s].conn
    BY <2>1 DEF AsrInv, UsersFit
  <2> QED
    BY <1>1, <1>5, <2>1, <2>2, AsrNumbers
<1>9. FreshFits'
  <2> SUFFICES ASSUME NEW s \in AsrTasks, task[s].at \in Early
               PROVE  /\ line'[s].serves = NoTask /\ ~ line'[s].up /\ asrWire'[s] = <<>>
                      /\ cached' # s /\ \A i \in AsrTasks : task'[i].conn # s
    BY <1>1 DEF FreshFits
  <2> QED
    BY <1>1, <1>5, AsrNumbers DEF AsrInv, FreshFits
<1> QED
  BY <1>6, <1>7, <1>8, <1>9 DEF AsrInv

-----------------------------------------------------------------------------
\* The service

\* What a service says next fits what it said before.
LEMMA SaysFits ==
    ASSUME NEW v, NEW l0, NEW l, NEW x \in Seq(WireRecords), NEW m \in WireRecords,
           ConnFits(v, l0, x), l0.up,
           m.say \in Kinds[v] \cup {"error", "last"} \cup Ends,
           m.say \in {"last"} \cup Ends => l.serves = NoTask,
           m.say \notin Ends => l0.serves # NoTask,
           l0.serves = NoTask => l.serves = NoTask,
           m.say \in Ends => ~ l.up,
           v = "qwen3" /\ m.say = "done" => ~ NoMoreDone(l0) /\ NoMoreDone(l),
           v = "qwen3" /\ NoMoreDone(l0) => NoMoreDone(l)
    PROVE  ConnFits(v, l, Append(x, m))
<1>1. PICK w : w = Append(x, m)
  OBVIOUS
<1>2. /\ Len(x) \in Nat /\ DOMAIN x = 1 .. Len(x) /\ Len(w) = Len(x) + 1 /\ DOMAIN w = 1 .. Len(w)
      /\ w[Len(w)] = m /\ \A n \in DOMAIN x : w[n] = x[n]
  BY <1>1
<1>3. \A n \in DOMAIN w : (n \in DOMAIN x /\ w[n] = x[n]) \/ (n = Len(w) /\ w[n] = m)
  BY <1>2
<1>4. \A n, i \in DOMAIN w : (i > n /\ n = Len(w) => FALSE) /\ (n \in DOMAIN x => n # Len(w))
  BY <1>2
<1>5. \A n \in DOMAIN w : w[n].say \in Kinds[v] \cup {"error", "last"} \cup Ends
  BY <1>3 DEF ConnFits
<1>6. \A n \in DOMAIN x : x[n].say \in {"last"} \cup Ends => l0.serves = NoTask /\ m.say \in Ends
  BY DEF ConnFits
<1>7. ASSUME NEW n \in DOMAIN w, w[n].say \in {"last"} \cup Ends
      PROVE  l.serves = NoTask /\ \A i \in DOMAIN w : i > n => w[i].say \in Ends
  <2>1. CASE n \in DOMAIN x /\ w[n] = x[n]
    <3>1. \A i \in DOMAIN x : i > n => x[i].say \in Ends
      BY <1>7, <2>1 DEF ConnFits
    <3> QED
      BY <1>3, <1>6, <1>7, <2>1, <3>1
  <2>2. CASE n = Len(w) /\ w[n] = m
    BY <1>4, <1>7, <2>2
  <2> QED
    BY <1>3, <2>1, <2>2
<1>8. \A n \in DOMAIN w : w[n].say \in Ends => ~ l.up
  BY <1>3 DEF ConnFits
<1>9. ASSUME v = "qwen3", NEW n \in DOMAIN w, w[n].say = "done"
      PROVE  NoMoreDone(l) /\ \A i \in DOMAIN w : w[i].say = "done" => i = n
  <2>1. \A i \in DOMAIN x : x[i].say = "done" =>
           NoMoreDone(l0) /\ \A j \in DOMAIN x : x[j].say = "done" => j = i
    BY <1>9 DEF ConnFits
  <2>2. CASE n \in DOMAIN x /\ w[n] = x[n]
    BY <1>3, <1>9, <2>1, <2>2
  <2>3. CASE n = Len(w) /\ w[n] = m
    BY <1>3, <1>9, <2>1, <2>3
  <2> QED
    BY <1>3, <2>2, <2>3
<1>10. ConnFits(v, l, w)
  BY <1>5, <1>7, <1>8, <1>9 DEF ConnFits
<1> QED
  BY <1>1, <1>10

\* The service says something on a connection that is up.
LEMMA ServiceKeeps ==
    ASSUME AsrInv, NEW c \in AsrTasks, line[c].up, NEW l \in LineRecords, NEW m \in WireRecords,
           m.of = line[c].serves,
           line' = [line EXCEPT ![c] = l],
           asrWire' = [asrWire EXCEPT ![c] = Append(asrWire[c], m)],
           UNCHANGED <<service, task, reader, guard, cached, results>>, faults' \in 0 .. MaxFaults,
           l.serves \in {line[c].serves, NoTask}, ~ l.up => l.serves = NoTask,
           m.say \in Kinds[service] \cup {"error", "last"} \cup Ends,
           m.say \in {"last"} \cup Ends => l.serves = NoTask,
           m.say \notin Ends => line[c].serves # NoTask,
           m.say \in Ends => ~ l.up,
           service = "qwen3" /\ m.say = "done" => ~ NoMoreDone(line[c]) /\ NoMoreDone(l),
           service = "qwen3" /\ NoMoreDone(line[c]) => NoMoreDone(l)
    PROVE  AsrInv'
<1>1. line \in [AsrTasks -> LineRecords] /\ asrWire \in [AsrTasks -> Seq(WireRecords)]
      /\ task \in [AsrTasks -> TaskRecords] /\ cached \in AsrTasks \cup {NoTask}
  BY DEF AsrInv, AsrTypes
<1>2. PICK x : x = asrWire[c]
  OBVIOUS
<1>3. PICK w : w = Append(x, m)
  OBVIOUS
<1>4. /\ x \in Seq(WireRecords) /\ w \in Seq(WireRecords) /\ asrWire' = [asrWire EXCEPT ![c] = w]
      /\ \A n \in DOMAIN w : (n \in DOMAIN x /\ w[n] = x[n]) \/ w[n] = m
  BY <1>1, <1>2, <1>3
<1>5. /\ \A d \in AsrTasks : line'[d] = IF d = c THEN l ELSE line[d]
      /\ \A d \in AsrTasks : asrWire'[d] = IF d = c THEN w ELSE asrWire[d]
  BY <1>1, <1>4
<1>6. ConnFits(service, l, w)
  <2>1. ConnFits(service, line[c], x)
    BY <1>2 DEF AsrInv, ConnsFit
  <2> QED
    BY <1>3, <1>4, <2>1, SaysFits
<1>7. Clean(line[c], x) => Clean(l, w)
  BY <1>4 DEF Clean
<1>8. AsrTypes' /\ InTurn' /\ TasksFit' /\ UsersDiffer'
  <2>1. line' \in [AsrTasks -> LineRecords] /\ asrWire' \in [AsrTasks -> Seq(WireRecords)]
    BY <1>1, <1>4
  <2> QED
    BY <2>1 DEF AsrInv, AsrTypes, InTurn, TasksFit, UsersDiffer, HasConn
<1>9. ConnsFit'
  BY <1>5, <1>6 DEF AsrInv, ConnsFit
<1>10. UsersFit'
  <2> SUFFICES ASSUME NEW s \in AsrTasks, HasConn(s)'
               PROVE  /\ UseFits(service', s, task'[s], reader'[s], line'[task'[s].conn],
                                 asrWire'[task'[s].conn])
                      /\ cached' # task'[s].conn
    BY DEF UsersFit
  <2>1. HasConn(s) /\ task[s].conn \in AsrTasks
    BY <1>1 DEF HasConn, TaskRecords
  <2>2. /\ UseFits(service, s, task[s], reader[s], line[task[s].conn], asrWire[task[s].conn])
        /\ cached # task[s].conn
    BY <2>1 DEF AsrInv, UsersFit
  <2>3. CASE task[s].conn = c
    <3>1. UseFits(service, s, task[s], reader[s], line[c], x)
      BY <1>2, <2>2, <2>3
    <3>2. IsOf(line[c], x, s) => IsOf(l, w, s)
      BY <1>4 DEF IsOf
    <3>3. service = "qwen3" /\ reader[s].signals = 1 =>
             NoMoreDone(l) /\ \A n \in DOMAIN w : w[n].say # "done"
      BY <1>4, <3>1 DEF UseFits
    <3>4. UseFits(service, s, task[s], reader[s], l, w)
      BY <1>7, <3>1, <3>2, <3>3 DEF UseFits
    <3> QED
      BY <1>5, <2>2, <2>3, <3>4
  <2>4. CASE task[s].conn # c
    BY <1>5, <2>1, <2>2, <2>4
  <2> QED
    BY <2>3, <2>4
<1>11. FreshFits'
  <2> SUFFICES ASSUME NEW s \in AsrTasks, task[s].at \in Early
               PROVE  /\ line'[s].serves = NoTask /\ ~ line'[s].up /\ asrWire'[s] = <<>>
                      /\ cached' # s /\ \A i \in AsrTasks : task'[i].conn # s
    BY DEF FreshFits
  <2>1. /\ line[s].serves = NoTask /\ ~ line[s].up /\ asrWire[s] = <<>>
        /\ cached # s /\ \A i \in AsrTasks : task[i].conn # s
    BY DEF AsrInv, FreshFits
  <2> QED
    BY <1>5, <2>1
<1>12. KeptIsClean'
  BY <1>1, <1>2, <1>5, <1>7 DEF AsrInv, KeptIsClean
<1> QED
  BY <1>8, <1>9, <1>10, <1>11, <1>12 DEF AsrInv

LEMMA ServiceSpeaksOnce ==
    ASSUME AsrInv, NEW c \in AsrTasks,
           NEW say \in {"started", "part", "done", "error", "last", "close", "cut"},
           ServiceSpeaks(c, say)
    PROVE  \E m \in WireRecords : /\ m.of = line[c].serves /\ m.say = say
                                  /\ asrWire' = [asrWire EXCEPT ![c] = Append(asrWire[c], m)]
<1>1. line[c] \in LineRecords /\ asrWire \in [AsrTasks -> Seq(WireRecords)]
  BY DEF AsrInv, AsrTypes
<1>2. PICK m : m = [of |-> line[c].serves, say |-> say]
  OBVIOUS
<1>3. m \in WireRecords /\ m.of = line[c].serves /\ m.say = say
  BY <1>1, <1>2 DEF WireRecords, LineRecords
<1>4. asrWire' = [asrWire EXCEPT ![c] = Append(asrWire[c], m)]
  BY <1>1, <1>2 DEF ServiceSpeaks
<1> QED
  BY <1>3, <1>4

LEMMA ServiceSaysInv ==
    ASSUME AsrInv, NEW c \in AsrTasks, NEW say \in {"started", "part", "done"}, ServiceSays(c, say)
    PROVE  AsrInv'
<1>1. PICK m \in WireRecords : /\ m.of = line[c].serves /\ m.say = say
                               /\ asrWire' = [asrWire EXCEPT ![c] = Append(asrWire[c], m)]
  BY ServiceSpeaksOnce DEF ServiceSays
<1>2. line \in [AsrTasks -> LineRecords] /\ faults' \in 0 .. MaxFaults /\ line[c].said \in Nat
  BY DEF AsrInv, AsrTypes, ServiceSays, LineRecords
<1>3. PICK l : l = [line[c] EXCEPT !.said = line[c].said + 1]
  OBVIOUS
<1>4. /\ l \in LineRecords /\ l.serves = line[c].serves /\ l.up = line[c].up
      /\ l.said = line[c].said + 1
  <2>1. line[c] \in LineRecords /\ line[c].said + 1 \in Nat
    BY <1>2
  <2> QED
    BY <1>3, <2>1 DEF LineRecords
<1>5. line' = [line EXCEPT ![c] = l]
  BY <1>2, <1>3 DEF ServiceSays
<1>6. /\ line[c].up /\ line[c].serves # NoTask /\ say \in Kinds[service] /\ say \notin Ends \cup {"last"}
      /\ "started" \in Kinds[service] => (say = "started") = (line[c].said = 0)
      /\ service = "qwen3" /\ say = "done" => line[c].said = 1
      /\ UNCHANGED <<service, task, reader, guard, cached, results>>
  BY DEF ServiceSays, Ends
<1>7. service = "qwen3" /\ say = "done" => ~ NoMoreDone(line[c]) /\ NoMoreDone(l)
  BY <1>2, <1>4, <1>6 DEF NoMoreDone
<1>8. NoMoreDone(line[c]) => NoMoreDone(l)
  BY <1>2, <1>4, <1>6 DEF NoMoreDone
<1> QED
  BY <1>1, <1>2, <1>4, <1>5, <1>6, <1>7, <1>8, ServiceKeeps

\* It has no more to say of a task.
LEMMA ServiceLetsGo ==
    ASSUME AsrInv, NEW c \in AsrTasks, line[c].up, NEW up \in BOOLEAN,
           NEW say \in {"error", "last", "close", "cut"}, ServiceSpeaks(c, say),
           say \in {"error", "last"} => line[c].serves # NoTask,
           up = (say \in {"error", "last"}),
           line' = [line EXCEPT ![c] = [line[c] EXCEPT !.serves = NoTask, !.up = up]],
           UNCHANGED <<service, task, reader, guard, cached, results>>, faults' \in 0 .. MaxFaults
    PROVE  AsrInv'
<1>1. PICK m \in WireRecords : /\ m.of = line[c].serves /\ m.say = say
                               /\ asrWire' = [asrWire EXCEPT ![c] = Append(asrWire[c], m)]
  BY ServiceSpeaksOnce
<1>2. PICK l : l = [line[c] EXCEPT !.serves = NoTask, !.up = up]
  OBVIOUS
<1>3. l \in LineRecords /\ l.serves = NoTask /\ l.up = up /\ line' = [line EXCEPT ![c] = l]
  BY <1>2 DEF LineRecords, AsrInv, AsrTypes
<1>4. NoMoreDone(l)
  BY <1>3 DEF NoMoreDone
<1>5. m.say \in {"error", "last"} \cup Ends /\ (m.say \in Ends <=> ~ up) /\ m.say # "done"
  BY <1>1 DEF Ends
<1>6. m.say \notin Ends => line[c].serves # NoTask
  BY <1>1, <1>5
<1> QED
  BY <1>1, <1>3, <1>4, <1>5, <1>6, ServiceKeeps

LEMMA ServiceEndsInv == ASSUME AsrInv, NEW c \in AsrTasks, ServiceEnds(c) PROVE AsrInv'
<1>1. line \in [AsrTasks -> LineRecords] /\ faults \in 0 .. MaxFaults
  BY DEF AsrInv, AsrTypes
<1>2. [line[c] EXCEPT !.serves = NoTask, !.up = TRUE] = [line[c] EXCEPT !.serves = NoTask]
  BY <1>1 DEF LineRecords, ServiceEnds
<1>3. line' = [line EXCEPT ![c] = [line[c] EXCEPT !.serves = NoTask, !.up = TRUE]]
  BY <1>1, <1>2 DEF ServiceEnds
<1>4. TRUE \in BOOLEAN /\ TRUE = ("last" \in {"error", "last"})
  OBVIOUS
<1> QED
  BY <1>1, <1>3, <1>4, ServiceLetsGo DEF ServiceEnds

LEMMA ServiceFailsInv ==
    ASSUME AsrInv, NEW c \in AsrTasks, NEW say \in {"error", "close", "cut"}, ServiceFails(c, say)
    PROVE  AsrInv'
<1>1. line \in [AsrTasks -> LineRecords] /\ faults' \in 0 .. MaxFaults
  BY AsrAssumption DEF AsrInv, AsrTypes, ServiceFails
<1>2. PICK up \in BOOLEAN : up = (say = "error")
  OBVIOUS
<1>3. line' = [line EXCEPT ![c].serves = NoTask, ![c].up = up]
  BY <1>2 DEF ServiceFails
<1>4. line' = [line EXCEPT ![c] = [line[c] EXCEPT !.serves = NoTask, !.up = up]]
  BY <1>1, <1>3
<1>5. up = (say \in {"error", "last"})
  BY <1>2
<1> QED
  BY <1>1, <1>4, <1>5, ServiceLetsGo DEF ServiceFails

LEMMA FunasrClosesInv == ASSUME AsrInv, NEW c \in AsrTasks, FunasrCloses(c) PROVE AsrInv'
<1>1. line \in [AsrTasks -> LineRecords] /\ faults \in 0 .. MaxFaults
  BY DEF AsrInv, AsrTypes
<1>2. [line[c] EXCEPT !.serves = NoTask, !.up = FALSE] = [line[c] EXCEPT !.up = FALSE]
  BY <1>1 DEF LineRecords, FunasrCloses
<1>3. line' = [line EXCEPT ![c] = [line[c] EXCEPT !.serves = NoTask, !.up = FALSE]]
  BY <1>1, <1>2 DEF FunasrCloses
<1>4. FALSE \in BOOLEAN /\ FALSE = ("close" \in {"error", "last"})
  OBVIOUS
<1> QED
  BY <1>1, <1>3, <1>4, ServiceLetsGo DEF FunasrCloses

-----------------------------------------------------------------------------
\* The invariant

LEMMA AsrBegins == ASSUME AsrInit PROVE AsrInv
<1>1. /\ service \in {"doubao", "aliyun", "xunfei", "funasr", "qwen3", "qwen3_vad"}
      /\ guard = NoTask /\ cached = NoTask /\ faults = 0
  BY DEF AsrInit, Qwen3
<1>2. PICK k : k = [at |-> "idle", conn |-> NoTask, fed |-> 0, out |-> "none", whole |-> FALSE]
  OBVIOUS
<1>3. PICK r : r = [on |-> "no", signals |-> 0, finished |-> FALSE, updated |-> FALSE]
  OBVIOUS
<1>4. PICK l : l = [serves |-> NoTask, told |-> FALSE, said |-> 0, up |-> FALSE]
  OBVIOUS
<1>5. /\ k \in TaskRecords /\ k.at = "idle" /\ k.conn = NoTask /\ k.fed = 0 /\ k.out = "none"
  BY <1>2, AsrNumbers DEF TaskRecords, Early
<1>6. /\ r \in ReaderRecords /\ r.on = "no" /\ r.signals = 0 /\ ~ r.finished
  <2>1. 0 \in 0 .. 1
    OBVIOUS
  <2> QED
    BY <1>3, <2>1 DEF ReaderRecords
<1>7. /\ l \in LineRecords /\ l.serves = NoTask /\ ~ l.up
  BY <1>4 DEF LineRecords
<1>8. /\ task = [t \in AsrTasks |-> k] /\ reader = [t \in AsrTasks |-> r]
      /\ line = [c \in AsrTasks |-> l] /\ asrWire = [c \in AsrTasks |-> <<>>]
      /\ results = [t \in AsrTasks |-> <<>>]
  BY <1>2, <1>3, <1>4 DEF AsrInit
<1>9. AsrTypes
  BY <1>1, <1>5, <1>6, <1>7, <1>8, AsrAssumption DEF AsrTypes
<1>10. InTurn
  BY <1>1, <1>5, <1>8, AsrNumbers DEF InTurn, Holding, Using
<1>11. TasksFit
  <2> SUFFICES ASSUME NEW t \in AsrTasks PROVE TaskFits(service, t, k, r, <<>>)
    BY <1>8 DEF TasksFit
  <2>1. \A n \in DOMAIN <<>> : FALSE
    OBVIOUS
  <2> QED
    BY <1>5, <1>6, <2>1, AsrNumbers DEF TaskFits, Early, Using, Reading
<1>12. ConnsFit
  BY <1>7, <1>8 DEF ConnsFit, ConnFits
<1>13. \A t \in AsrTasks : ~ HasConn(t)
  BY <1>5, <1>8 DEF HasConn
<1>14. UsersFit /\ UsersDiffer /\ KeptIsClean
  BY <1>1, <1>13 DEF UsersFit, UsersDiffer, KeptIsClean
<1>15. FreshFits
  BY <1>1, <1>5, <1>7, <1>8, AsrNumbers DEF FreshFits
<1> QED
  BY <1>9, <1>10, <1>11, <1>12, <1>14, <1>15 DEF AsrInv

LEMMA AsrKeeps == ASSUME AsrInv, AsrNext \/ UNCHANGED asrVars PROVE AsrInv'
<1>1. ASSUME NEW t \in AsrTasks,
             \/ Recognize(t) \/ AcquireTask(t) \/ FirstAudio(t)
             \/ TakesCached(t) \/ ConnectsAsr(t) \/ ConnectFails(t)
             \/ Begins(t) \/ Feeds(t) \/ AudioOver(t)
             \/ DoubaoReads(t) \/ XunfeiReads(t) \/ FunasrReads(t)
             \/ AliyunStarts(t) \/ AliyunReads(t) \/ AliyunTimesOut(t)
             \/ QwenReads(t) \/ ReaderGoesOn(t) \/ QwenOpens(t)
             \/ QwenFinishes(t) \/ QwenEnds(t) \/ QwenJoins(t)
             \/ FinishTask(t)
      PROVE  AsrInv'
  BY <1>1, RecognizeInv, AcquireTaskInv, FirstAudioInv, TakesCachedInv, ConnectsAsrInv,
     ConnectFailsInv, BeginsInv, FeedsInv, AudioOverInv, DoubaoReadsInv, XunfeiReadsInv,
     FunasrReadsInv, AliyunStartsInv, AliyunReadsInv, AliyunTimesOutInv, QwenReadsInv,
     ReaderGoesOnInv, QwenOpensInv, QwenFinishesInv, QwenEndsInv, QwenJoinsInv, FinishTaskInv
<1>2. ASSUME NEW c \in AsrTasks,
             \/ \E say \in {"started", "part", "done"} : ServiceSays(c, say)
             \/ \E say \in {"error", "close", "cut"} : ServiceFails(c, say)
             \/ ServiceEnds(c) \/ FunasrCloses(c)
      PROVE  AsrInv'
  BY <1>2, ServiceSaysInv, ServiceFailsInv, ServiceEndsInv, FunasrClosesInv
<1>3. CASE UNCHANGED asrVars
  BY <1>3 DEF AsrInv, AsrTypes, InTurn, TasksFit, ConnsFit, UsersFit, UsersDiffer, FreshFits,
              KeptIsClean, HasConn, asrVars
<1> QED
  BY <1>1, <1>2, <1>3, ClosesProviderInv DEF AsrNext

LEMMA AsrFits == ASSUME AsrInv PROVE AsrIsOne
<1>1. OwnResult
  BY TaskFacts DEF OwnResult, TaskFits
<1>2. OnlyVadWedges
  <2> SUFFICES ASSUME NEW t \in AsrTasks, Wedged(t)
               PROVE  /\ service = "qwen3_vad"
                      /\ \E n \in DOMAIN results[t] : results[t][n].final /\ ~ results[t][n].error
    BY DEF OnlyVadWedges
  <2>1. TaskFits(service, t, task[t], reader[t], results[t])
    BY TaskFacts
  <2> QED
    BY <2>1 DEF Wedged, TaskFits, Qwen3
<1> QED
  BY <1>1, <1>2 DEF AsrIsOne

\* The invariant of a recognizer, for every number of tasks, pieces of audio and faults.
THEOREM AsrInvariant == AsrSpec => []AsrInv
  BY AsrBegins, AsrKeeps, PTL DEF AsrSpec

\* What is recognized reaches the caller it is of, and a task waits for its reader for ever only
\* in a session that ends its own speeches, with a final in the channel that nobody waits for.
THEOREM SpeechReachesItsCaller == ProvidersSpec => []SpeechIsRecognized
<1> DEFINE Inv == part = "recognize" => AsrInv
<1>1. ProvidersInit => Inv
  BY AsrBegins DEF ProvidersInit
<1>2. Inv /\ [ProvidersNext]_providersVars => Inv'
  <2> SUFFICES ASSUME Inv, [ProvidersNext]_providersVars, part' = "recognize" PROVE AsrInv'
    OBVIOUS
  <2>1. part = "recognize" /\ (AsrNext \/ UNCHANGED asrVars)
    BY DEF ProvidersNext, providersVars
  <2> QED
    BY <2>1, AsrKeeps
<1>3. Inv => SpeechIsRecognized
  BY AsrFits DEF SpeechIsRecognized
<1> QED
  BY <1>1, <1>2, <1>3, PTL DEF ProvidersSpec

(***************************************************************************)
(* What LlmStream promises for every number of turns, words and fragments. *)
(* A turn nothing excuses has told a beginning of its answer in order, and *)
(* what is left of the body it reads is the rest, the whole of the words   *)
(* only when each was told; the requests that are left end in the plainest.*)
(***************************************************************************)
\* The turns of a language model

Messages == [is : {"word", "call", "whole", "error", "finished", "failed"}, i : Nat]
Requests == [connector : BOOLEAN, with : LlmTurns \cup {None}]
Plans == [connector : BOOLEAN, expires : BOOLEAN, named : BOOLEAN]
Oddities == {"refused", "trouble", "spoiled", "broken", "full", "unnamed"}
TurnRecords ==
    [at : {"idle", "asking", "reading", "telling", "over"}, tries : Seq(Requests),
     had : LlmTurns \cup {None}, with : LlmTurns \cup {None}, reader : {"on", "left"},
     said : 0 .. MaxWords, args : 0 .. MaxArgs + 1,
     state : {"none", "words", "args", "finished", "failed"}, body : Seq(Messages), seen : BOOLEAN,
     call : [name : BOOLEAN, args : Nat], chan : Seq(Messages), heard : Seq(Messages),
     odd : SUBSET Oddities]

LlmTypes ==
    /\ model \in {"openai", "coze", "dify"} /\ plan \in Plans /\ conv \in LlmTurns \cup {None}
    /\ asked \in [LlmTurns -> TurnRecords]

\* What a turn has in each of its stages: nothing before it is answered, and a call that is
\* named by the first of its fragments and has the others.
StageFits(m, a) ==
    /\ a.at \in {"idle", "asking"} =>
          /\ a.heard = <<>> /\ a.chan = <<>> /\ a.said = 0 /\ a.state = "none" /\ ~ a.seen
          /\ a.reader = "on" /\ a.odd \subseteq {"trouble"}
    /\ a.at = "reading" => m = "openai" /\ a.state = IF a.args > 0 THEN "args" ELSE "words"
    /\ a.at \in {"asking", "telling"} => m # "openai"
    /\ a.at = "telling" => a.state \in {"finished", "failed"}
    /\ m # "openai" => a.state \in {"none", "finished", "failed"}
    /\ m = "openai" => a.state \in {"none", "words", "args"}
    /\ a.at \notin {"reading", "over"} \/ m # "openai" => a.args = 0 /\ ~ a.call.name
    /\ a.call.name <=> a.args > 0
    /\ a.call.args = IF a.args > 0 THEN a.args - 1 ELSE 0
    /\ Len(a.chan) <= ChanCap

\* Nothing excuses the answer of such a turn.
Plain(a) == a.reader = "on" /\ a.odd \subseteq {"trouble"}

\* What of the n words and the end of an answer is still to be told, when k words were.
Pending(m, s, n, k, b) ==
    /\ k <= n /\ Len(b) >= n - k + 1
    /\ \A i \in DOMAIN b :
          b[i] = IF i = Len(b) THEN [is |-> s, i |-> 0]
                 ELSE IF k + i <= n THEN Word(k + i) ELSE WholeText(n)
    /\ \A i \in DOMAIN b : i < Len(b) /\ k + i > n => m = "coze" /\ n > 0

\* The answer q of a turn so far.
AnswerFits(m, a, q) ==
    Plain(a) =>
       /\ a.at = "reading" => Len(q) = a.said /\ WordsFirst(q, a.said)
       /\ a.at = "telling" =>
             /\ WordsFirst(q, Len(q)) /\ Pending(m, a.state, a.said, Len(q), a.body)
             /\ m = "coze" => (a.seen <=> Len(q) > 0)
       /\ a.at = "over" =>
             /\ WordsFirst(q, a.said)
             /\ a.args > 0 => Contains(q, CallOf(a.args - 1))
             /\ a.state = "failed" => Last(q) = Error

\* The requests that are left, the plainest of which is the last.
Planned(j, had) ==
    IF j <= 1 THEN Body(IF j = 1 THEN TRUE ELSE FALSE, None)
              ELSE Body(IF j = 3 THEN TRUE ELSE FALSE, had)

Excused(p, a) == p.expires \/ "trouble" \in a.odd

AskFits(m, p, a) ==
    /\ a.at = "asking" =>
          /\ a.tries # <<>>
          /\ m = "dify" => Len(a.tries) = 1 /\ a.tries[1] = Body(FALSE, a.had)
          /\ m = "coze" =>
                /\ Len(a.tries) <= 4 /\ (a.had = None => Len(a.tries) <= 2)
                /\ \A i \in DOMAIN a.tries : a.tries[i] = Planned(Len(a.tries) - i, a.had)
                /\ a.had # None /\ Len(a.tries) <= 2 => Excused(p, a)
    /\ a.at \in {"telling", "over"} /\ a.state # "none" /\ a.with # a.had => Excused(p, a)
    /\ m = "openai" \/ a.at = "idle" => a.with = None /\ a.had = None
    /\ m = "coze" /\ a.at = "over" /\ a.state = "none" => "trouble" \in a.odd

TurnFits(m, p, a) ==
    StageFits(m, a) /\ AnswerFits(m, a, a.heard \o a.chan) /\ AskFits(m, p, a)

LlmInv == LlmTypes /\ \A t \in LlmTurns : TurnFits(model, plan, asked[t])

LEMMA TurnFacts ==
    ASSUME LlmInv, NEW t \in LlmTurns
    PROVE  /\ asked \in [LlmTurns -> TurnRecords] /\ asked[t] \in TurnRecords
           /\ TurnFits(model, plan, asked[t])
           /\ model \in {"openai", "coze", "dify"} /\ plan \in Plans
           /\ conv \in LlmTurns \cup {None}
  BY DEF LlmInv, LlmTypes

LEMMA TurnFields ==
    ASSUME NEW a \in TurnRecords
    PROVE  /\ a.at \in {"idle", "asking", "reading", "telling", "over"} /\ a.tries \in Seq(Requests)
           /\ a.had \in LlmTurns \cup {None} /\ a.with \in LlmTurns \cup {None}
           /\ a.reader \in {"on", "left"} /\ a.said \in 0 .. MaxWords /\ a.args \in 0 .. MaxArgs + 1
           /\ a.state \in {"none", "words", "args", "finished", "failed"}
           /\ a.body \in Seq(Messages) /\ a.seen \in BOOLEAN /\ a.call \in [name : BOOLEAN, args : Nat]
           /\ a.chan \in Seq(Messages) /\ a.heard \in Seq(Messages) /\ a.odd \in SUBSET Oddities
  BY DEF TurnRecords

\* One turn takes a step.
LEMMA TurnMoves ==
    ASSUME LlmInv, NEW t \in LlmTurns, NEW a \in TurnRecords,
           asked' = [asked EXCEPT ![t] = a], UNCHANGED <<model, plan>>,
           conv' \in LlmTurns \cup {None}, TurnFits(model, plan, a)
    PROVE  LlmInv'
<1>1. LlmTypes'
  BY DEF LlmInv, LlmTypes
<1>2. \A s \in LlmTurns : asked'[s] = IF s = t THEN a ELSE asked[s]
  BY DEF LlmInv, LlmTypes
<1> QED
  BY <1>1, <1>2 DEF LlmInv

-----------------------------------------------------------------------------
\* What is put into the channel

LEMMA Put ==
    ASSUME NEW h \in Seq(Messages), NEW c \in Seq(Messages), NEW m \in Messages
    PROVE  /\ Append(c, m) \in Seq(Messages) /\ Len(Append(c, m)) = Len(c) + 1
           /\ Len(h \o c) \in Nat /\ DOMAIN (h \o c) = 1 .. Len(h \o c)
           /\ Len(h \o Append(c, m)) = Len(h \o c) + 1
           /\ DOMAIN (h \o Append(c, m)) = 1 .. Len(h \o c) + 1
           /\ (h \o Append(c, m))[Len(h \o c) + 1] = m
           /\ \A i \in DOMAIN (h \o c) : (h \o Append(c, m))[i] = (h \o c)[i]
  OBVIOUS

LEMMA WordTold ==
    ASSUME NEW h \in Seq(Messages), NEW c \in Seq(Messages), NEW n \in Nat,
           Len(h \o c) = n, WordsFirst(h \o c, n)
    PROVE  /\ Word(n + 1) \in Messages /\ Append(c, Word(n + 1)) \in Seq(Messages)
           /\ Len(h \o Append(c, Word(n + 1))) = n + 1
           /\ WordsFirst(h \o Append(c, Word(n + 1)), n + 1)
<1>1. PICK m : m = Word(n + 1)
  OBVIOUS
<1>2. m \in Messages
  BY <1>1 DEF Word, Messages
<1>3. PICK q, p : q = h \o c /\ p = h \o Append(c, m)
  OBVIOUS
<1>4. /\ Len(p) = n + 1 /\ DOMAIN p = 1 .. n + 1 /\ p[n + 1] = m /\ DOMAIN q = 1 .. n
      /\ \A i \in DOMAIN q : p[i] = q[i]
  BY <1>2, <1>3, Put
<1>5. \A i \in DOMAIN p : p[i] = Word(i)
  <2>1. \A i \in DOMAIN p : i = n + 1 \/ i \in DOMAIN q
    BY <1>4
  <2>2. \A i \in DOMAIN q : q[i] = Word(i)
    BY <1>3, <1>4 DEF WordsFirst
  <2> QED
    BY <1>1, <1>4, <2>1, <2>2
<1>6. WordsFirst(p, n + 1)
  BY <1>4, <1>5 DEF WordsFirst
<1> QED
  BY <1>1, <1>2, <1>3, <1>4, <1>6, Put

LEMMA OtherTold ==
    ASSUME NEW h \in Seq(Messages), NEW c \in Seq(Messages), NEW n \in Nat, NEW m \in Messages,
           WordsFirst(h \o c, n), m.is \notin {"word", "whole"}
    PROVE  /\ WordsFirst(h \o Append(c, m), n) /\ Contains(h \o Append(c, m), m)
           /\ Last(h \o Append(c, m)) = m
<1>1. PICK q, p : q = h \o c /\ p = h \o Append(c, m)
  OBVIOUS
<1>2. PICK k : k = Len(q)
  OBVIOUS
<1>3. /\ k \in Nat /\ Len(p) = k + 1 /\ DOMAIN p = 1 .. k + 1 /\ p[k + 1] = m /\ DOMAIN q = 1 .. k
      /\ \A i \in DOMAIN q : p[i] = q[i]
  BY <1>1, <1>2, Put
<1>4. n <= k /\ \A i \in DOMAIN q : IF i <= n THEN q[i] = Word(i) ELSE q[i].is \notin {"word", "whole"}
  BY <1>1, <1>2 DEF WordsFirst
<1>5. \A i \in DOMAIN p : i = k + 1 \/ i \in DOMAIN q
  BY <1>3
<1>6. WordsFirst(p, n)
  <2> SUFFICES ASSUME NEW i \in DOMAIN p
               PROVE  IF i <= n THEN p[i] = Word(i) ELSE p[i].is \notin {"word", "whole"}
    BY <1>3, <1>4 DEF WordsFirst
  <2>1. CASE i = k + 1
    BY <1>3, <1>4, <2>1
  <2>2. CASE i \in DOMAIN q
    BY <1>3, <1>4, <2>2
  <2> QED
    BY <1>5, <2>1, <2>2
<1>7. Contains(p, m) /\ Last(p) = m
  BY <1>3 DEF Contains, Last
<1> QED
  BY <1>1, <1>6, <1>7

\* What a turn tells goes into its channel, unless nobody reads it; a channel that is full makes
\* it wait, or makes it miss the message.
LEMMA SendsIt ==
    ASSUME LlmInv, NEW t \in LlmTurns, NEW m \in Messages, ChanRoom(t)
    PROVE  /\ Sends(t, m) \in Seq(Messages) /\ Len(Sends(t, m)) <= ChanCap
           /\ asked[t].reader = "on" => Sends(t, m) = Append(asked[t].chan, m)
<1>1. asked[t].chan \in Seq(Messages) /\ Len(asked[t].chan) <= ChanCap
  BY TurnFacts, TurnFields DEF TurnFits, StageFits
<1>2. Append(asked[t].chan, m) \in Seq(Messages)
      /\ Len(Append(asked[t].chan, m)) = Len(asked[t].chan) + 1
  BY <1>1
<1>3. asked[t].reader # "left" => Len(asked[t].chan) < ChanCap
  BY DEF ChanRoom
<1> QED
  BY <1>1, <1>2, <1>3, LlmStreamAssumption DEF Sends

LEMMA TriesIt ==
    ASSUME LlmInv, NEW t \in LlmTurns, NEW m \in Messages
    PROVE  /\ Tries(t, m) \in Seq(Messages) /\ Len(Tries(t, m)) <= ChanCap
           /\ Missed(t) \in SUBSET Oddities /\ asked[t].odd \subseteq Missed(t)
           /\ asked[t].reader = "on" /\ "full" \notin Missed(t)
                 => Tries(t, m) = Append(asked[t].chan, m)
<1>1. /\ asked[t].chan \in Seq(Messages) /\ Len(asked[t].chan) <= ChanCap
      /\ asked[t].odd \in SUBSET Oddities
  BY TurnFacts, TurnFields DEF TurnFits, StageFits
<1>2. Missed(t) \in SUBSET Oddities /\ asked[t].odd \subseteq Missed(t)
      /\ ("full" \notin Missed(t) => ChanRoom(t))
  BY <1>1 DEF Missed, Oddities
<1> QED
  BY <1>1, <1>2, SendsIt DEF Tries

-----------------------------------------------------------------------------
\* OpenAI

\* Before a turn is answered nothing was said.
LEMMA NothingSaid ==
    ASSUME NEW a \in TurnRecords, a.heard = <<>>, a.chan = <<>>
    PROVE  a.heard \o a.chan = <<>> /\ Len(a.heard \o a.chan) = 0 /\ WordsFirst(a.heard \o a.chan, 0)
<1>1. a.heard \o a.chan = <<>>
  OBVIOUS
<1>2. Len(<<>>) = 0 /\ WordsFirst(<<>>, 0)
  BY DEF WordsFirst
<1> QED
  BY <1>1, <1>2

LEMMA AsksOpenAiInv == ASSUME LlmInv, NEW t \in LlmTurns, AsksOpenAi(t) PROVE LlmInv'
<1>1. PICK ok \in BOOLEAN :
         asked' = [asked EXCEPT ![t].at = IF ok THEN "reading" ELSE "over",
                                ![t].odd = IF ok THEN @ ELSE {"refused"},
                                ![t].state = IF ok THEN "words" ELSE @]
  BY DEF AsksOpenAi
<1>2. PICK at, o, s : /\ at = IF ok THEN "reading" ELSE "over"
                      /\ o = IF ok THEN asked[t].odd ELSE {"refused"}
                      /\ s = IF ok THEN "words" ELSE asked[t].state
  OBVIOUS
<1>3. PICK a : a = [asked[t] EXCEPT !.at = at, !.odd = o, !.state = s]
  OBVIOUS
<1>10. /\ a.at = at /\ a.odd = o /\ a.state = s /\ a \in TurnRecords
       /\ a.heard = asked[t].heard /\ a.chan = asked[t].chan /\ a.said = asked[t].said
       /\ a.args = asked[t].args /\ a.call = asked[t].call /\ a.with = asked[t].with
       /\ a.had = asked[t].had
  <2>1. /\ asked[t] \in TurnRecords /\ at \in {"reading", "over"} /\ o \in SUBSET Oddities
        /\ s \in {"none", "words", "args", "finished", "failed"}
    BY <1>2, TurnFacts, TurnFields DEF Oddities
  <2> QED
    BY <1>3, <2>1 DEF TurnRecords
<1>4. asked' = [asked EXCEPT ![t] = a]
  BY <1>1, <1>2, <1>3, TurnFacts
<1>5. /\ asked[t].at = "idle" /\ model = "openai"
      /\ StageFits(model, asked[t]) /\ AskFits(model, plan, asked[t])
      /\ UNCHANGED <<model, plan, conv>>
  BY TurnFacts DEF AsksOpenAi, MayAsk, TurnFits
<1>6. a.args = 0 /\ a.heard = <<>> /\ a.chan = <<>> /\ a.said = 0 /\ ~ a.call.name
  BY <1>2, <1>5, <1>10 DEF StageFits
<1>7. StageFits(model, a)
  BY <1>2, <1>5, <1>6, <1>10 DEF StageFits
<1>8. AnswerFits(model, a, a.heard \o a.chan)
  BY <1>2, <1>6, <1>10, NothingSaid DEF AnswerFits, Plain
<1>9. AskFits(model, plan, a)
  BY <1>2, <1>5, <1>10 DEF AskFits
<1> QED
  BY <1>10, <1>4, <1>5, <1>7, <1>8, <1>9, TurnFacts, TurnMoves DEF TurnFits

LEMMA OpenAiWordInv == ASSUME LlmInv, NEW t \in LlmTurns, OpenAiWord(t) PROVE LlmInv'
<1>1. PICK spoiled \in BOOLEAN :
         asked' = [asked EXCEPT ![t].said = @ + 1,
                                ![t].chan = Sends(t, Word(IF spoiled THEN 0 ELSE asked[t].said + 1)),
                                ![t].odd = IF spoiled THEN @ \cup {"spoiled"} ELSE @]
  BY DEF OpenAiWord
<1>2. /\ asked[t].at = "reading" /\ asked[t].state = "words" /\ asked[t].said < MaxWords /\ ChanRoom(t)
      /\ model = "openai" /\ UNCHANGED <<model, plan, conv>>
      /\ StageFits(model, asked[t]) /\ AskFits(model, plan, asked[t])
      /\ AnswerFits(model, asked[t], asked[t].heard \o asked[t].chan)
  BY TurnFacts DEF OpenAiWord, TurnFits
<1>3. PICK n : n = asked[t].said
  OBVIOUS
<1>4. n \in Nat /\ n + 1 \in 0 .. MaxWords
  BY <1>2, <1>3, TurnFacts, TurnFields, LlmStreamAssumption
<1>5. PICK m : m = Word(IF spoiled THEN 0 ELSE n + 1)
  OBVIOUS
<1>6. m \in Messages
  BY <1>4, <1>5 DEF Word, Messages
<1>7. PICK c : c = Sends(t, m)
  OBVIOUS
<1>8. /\ c \in Seq(Messages) /\ Len(c) <= ChanCap
      /\ asked[t].reader = "on" => c = Append(asked[t].chan, m)
  BY <1>2, <1>6, <1>7, SendsIt
<1>9. PICK o : o = IF spoiled THEN asked[t].odd \cup {"spoiled"} ELSE asked[t].odd
  OBVIOUS
<1>10. o \in SUBSET Oddities /\ (o \subseteq {"trouble"} => ~ spoiled /\ asked[t].odd \subseteq {"trouble"})
  BY <1>9, TurnFacts, TurnFields DEF Oddities
<1>11. PICK a : a = [asked[t] EXCEPT !.said = n + 1, !.chan = c, !.odd = o]
  OBVIOUS
<1>12. /\ a.said = n + 1 /\ a.chan = c /\ a.odd = o /\ a.at = "reading" /\ a.state = "words"
       /\ a.heard = asked[t].heard /\ a.args = asked[t].args /\ a.call = asked[t].call
       /\ a.with = asked[t].with /\ a.had = asked[t].had /\ a.reader = asked[t].reader
       /\ a \in TurnRecords
  <2>1. /\ asked[t] \in TurnRecords /\ n + 1 \in 0 .. MaxWords /\ c \in Seq(Messages)
        /\ o \in SUBSET Oddities
    BY <1>4, <1>8, <1>10, TurnFacts
  <2> QED
    BY <1>2, <1>11, <2>1 DEF TurnRecords
<1>13. asked' = [asked EXCEPT ![t] = a]
  BY <1>1, <1>3, <1>5, <1>7, <1>9, <1>11, TurnFacts
<1>14. StageFits(model, a)
  BY <1>2, <1>8, <1>12 DEF StageFits
<1>15. AnswerFits(model, a, a.heard \o a.chan)
  <2> SUFFICES ASSUME Plain(a)
               PROVE  Len(a.heard \o a.chan) = a.said /\ WordsFirst(a.heard \o a.chan, a.said)
    BY <1>12 DEF AnswerFits
  <2>1. Plain(asked[t]) /\ ~ spoiled /\ c = Append(asked[t].chan, Word(n + 1))
    BY <1>5, <1>8, <1>10, <1>12 DEF Plain
  <2>2. Len(asked[t].heard \o asked[t].chan) = n /\ WordsFirst(asked[t].heard \o asked[t].chan, n)
    BY <1>2, <1>3, <2>1 DEF AnswerFits
  <2>3. asked[t].heard \in Seq(Messages) /\ asked[t].chan \in Seq(Messages)
    BY TurnFacts, TurnFields
  <2>4. /\ Len(asked[t].heard \o Append(asked[t].chan, Word(n + 1))) = n + 1
        /\ WordsFirst(asked[t].heard \o Append(asked[t].chan, Word(n + 1)), n + 1)
    BY <1>4, <2>2, <2>3, WordTold
  <2> QED
    BY <1>12, <2>1, <2>4
<1>16. AskFits(model, plan, a)
  BY <1>2, <1>12 DEF AskFits
<1> QED
  BY <1>2, <1>12, <1>13, <1>14, <1>15, <1>16, TurnFacts, TurnMoves DEF TurnFits

LEMMA OpenAiFragmentInv == ASSUME LlmInv, NEW t \in LlmTurns, OpenAiFragment(t) PROVE LlmInv'
<1>1. /\ asked' = [asked EXCEPT ![t].state = "args", ![t].args = @ + 1,
                                ![t].call = MergedCall(@, asked[t].args)]
      /\ asked[t].at = "reading" /\ asked[t].args < MaxArgs + 1
      /\ model = "openai" /\ UNCHANGED <<model, plan, conv>>
      /\ StageFits(model, asked[t]) /\ AskFits(model, plan, asked[t])
      /\ AnswerFits(model, asked[t], asked[t].heard \o asked[t].chan)
  BY TurnFacts DEF OpenAiFragment, TurnFits
<1>2. PICK n : n = asked[t].args
  OBVIOUS
<1>3. n \in Nat /\ n + 1 \in 0 .. MaxArgs + 1 /\ n + 1 > 0
  BY <1>1, <1>2, TurnFacts, TurnFields, LlmStreamAssumption
<1>4. PICK k : k = MergedCall(asked[t].call, n)
  OBVIOUS
<1>5. k \in [name : BOOLEAN, args : Nat] /\ k.name /\ k.args = n
  <2>1. /\ asked[t].call \in [name : BOOLEAN, args : Nat] /\ (asked[t].call.name <=> n > 0)
        /\ asked[t].call.args = IF n > 0 THEN n - 1 ELSE 0
    BY <1>1, <1>2, TurnFacts, TurnFields DEF StageFits
  <2>2. PICK b : b = asked[t].call
    OBVIOUS
  <2>3. CASE n = 0
    <3>1. k = [b EXCEPT !.name = TRUE]
      BY <1>4, <2>2, <2>3 DEF MergedCall
    <3>2. b \in [name : BOOLEAN, args : Nat] /\ b.args = 0
      BY <2>1, <2>2, <2>3
    <3> QED
      BY <2>3, <3>1, <3>2
  <2>4. CASE n # 0
    <3>1. k = [b EXCEPT !.args = b.args + 1]
      BY <1>4, <2>2, <2>4 DEF MergedCall
    <3>2. b.args + 1 = n /\ b \in [name : BOOLEAN, args : Nat] /\ b.name
      BY <1>3, <2>1, <2>2, <2>4
    <3> QED
      BY <1>3, <3>1, <3>2
  <2> QED
    BY <2>3, <2>4
<1>6. PICK a : a = [asked[t] EXCEPT !.state = "args", !.args = n + 1, !.call = k]
  OBVIOUS
<1>7. /\ a.args = n + 1 /\ a.call = k /\ a.at = "reading" /\ a.state = "args"
      /\ a.heard = asked[t].heard /\ a.chan = asked[t].chan /\ a.said = asked[t].said
      /\ a.with = asked[t].with /\ a.had = asked[t].had /\ a.reader = asked[t].reader
      /\ a.odd = asked[t].odd /\ a \in TurnRecords
  <2>1. /\ asked[t] \in TurnRecords /\ n + 1 \in 0 .. MaxArgs + 1
        /\ k \in [name : BOOLEAN, args : Nat]
    BY <1>3, <1>5, TurnFacts
  <2> QED
    BY <1>1, <1>6, <2>1 DEF TurnRecords
<1>8. asked' = [asked EXCEPT ![t] = a]
  BY <1>1, <1>2, <1>4, <1>6, TurnFacts
<1>9. StageFits(model, a)
  BY <1>1, <1>3, <1>5, <1>7 DEF StageFits
<1>10. AnswerFits(model, a, a.heard \o a.chan)
  BY <1>1, <1>7 DEF AnswerFits, Plain
<1>11. AskFits(model, plan, a)
  BY <1>1, <1>7 DEF AskFits
<1> QED
  BY <1>1, <1>7, <1>8, <1>9, <1>10, <1>11, TurnFacts, TurnMoves DEF TurnFits

LEMMA OpenAiEndsInv == ASSUME LlmInv, NEW t \in LlmTurns, OpenAiEnds(t) PROVE LlmInv'
<1>1. PICK broken \in BOOLEAN :
         asked' = [asked EXCEPT
             ![t].at = "over",
             ![t].chan = IF asked[t].call.name THEN Sends(t, CallOf(asked[t].call.args)) ELSE @,
             ![t].odd = IF broken THEN @ \cup {"broken"} ELSE @]
  BY DEF OpenAiEnds
<1>2. /\ asked[t].at = "reading" /\ (asked[t].call.name => ChanRoom(t))
      /\ model = "openai" /\ UNCHANGED <<model, plan, conv>>
      /\ StageFits(model, asked[t]) /\ AskFits(model, plan, asked[t])
      /\ AnswerFits(model, asked[t], asked[t].heard \o asked[t].chan)
  BY TurnFacts DEF OpenAiEnds, TurnFits
<1>3. PICK m : m = CallOf(asked[t].call.args)
  OBVIOUS
<1>4. m \in Messages /\ m.is = "call"
  <2>1. asked[t].call.args \in Nat
    BY TurnFacts, TurnFields
  <2> QED
    BY <1>3, <2>1 DEF CallOf, Messages
<1>5. PICK c : c = IF asked[t].call.name THEN Sends(t, m) ELSE asked[t].chan
  OBVIOUS
<1>6. /\ c \in Seq(Messages) /\ Len(c) <= ChanCap
      /\ asked[t].reader = "on" /\ asked[t].call.name => c = Append(asked[t].chan, m)
      /\ ~ asked[t].call.name => c = asked[t].chan
  BY <1>2, <1>4, <1>5, SendsIt, TurnFacts, TurnFields DEF StageFits
<1>7. PICK o : o = IF broken THEN asked[t].odd \cup {"broken"} ELSE asked[t].odd
  OBVIOUS
<1>8. o \in SUBSET Oddities /\ (o \subseteq {"trouble"} => asked[t].odd \subseteq {"trouble"})
  BY <1>7, TurnFacts, TurnFields DEF Oddities
<1>9. PICK a : a = [asked[t] EXCEPT !.at = "over", !.chan = c, !.odd = o]
  OBVIOUS
<1>10. /\ a.chan = c /\ a.odd = o /\ a.at = "over" /\ a.state = asked[t].state
       /\ a.heard = asked[t].heard /\ a.said = asked[t].said
       /\ a.args = asked[t].args /\ a.call = asked[t].call
       /\ a.with = asked[t].with /\ a.had = asked[t].had /\ a.reader = asked[t].reader
       /\ a \in TurnRecords
  <2>1. asked[t] \in TurnRecords /\ c \in Seq(Messages) /\ o \in SUBSET Oddities
    BY <1>6, <1>8, TurnFacts
  <2> QED
    BY <1>9, <2>1 DEF TurnRecords
<1>11. asked' = [asked EXCEPT ![t] = a]
  BY <1>1, <1>3, <1>5, <1>7, <1>9, TurnFacts
<1>12. StageFits(model, a)
  BY <1>2, <1>6, <1>10 DEF StageFits
<1>13. AnswerFits(model, a, a.heard \o a.chan)
  <2> SUFFICES ASSUME Plain(a)
               PROVE  /\ WordsFirst(a.heard \o a.chan, a.said)
                      /\ a.args > 0 => Contains(a.heard \o a.chan, CallOf(a.args - 1))
                      /\ a.state # "failed"
    BY <1>10 DEF AnswerFits
  <2>1. Plain(asked[t]) /\ a.said \in Nat
    BY <1>8, <1>10, TurnFields DEF Plain
  <2>2. WordsFirst(asked[t].heard \o asked[t].chan, a.said) /\ a.state # "failed"
        /\ (a.args > 0 <=> asked[t].call.name) /\ (a.args > 0 => m = CallOf(a.args - 1))
    BY <1>2, <1>3, <1>10, <2>1 DEF AnswerFits, StageFits
  <2>3. CASE asked[t].call.name
    <3>1. /\ asked[t].heard \in Seq(Messages) /\ asked[t].chan \in Seq(Messages)
          /\ c = Append(asked[t].chan, m)
      BY <1>6, <2>1, <2>3, TurnFacts, TurnFields DEF Plain
    <3>2. /\ WordsFirst(asked[t].heard \o Append(asked[t].chan, m), a.said)
          /\ Contains(asked[t].heard \o Append(asked[t].chan, m), m)
      BY <1>4, <2>1, <2>2, <3>1, OtherTold
    <3> QED
      BY <1>10, <2>2, <3>1, <3>2
  <2>4. CASE ~ asked[t].call.name
    BY <1>6, <1>10, <2>2, <2>4
  <2> QED
    BY <2>3, <2>4
<1>14. AskFits(model, plan, a)
  BY <1>2, <1>10 DEF AskFits
<1> QED
  BY <1>2, <1>10, <1>11, <1>12, <1>13, <1>14, TurnFacts, TurnMoves DEF TurnFits

-----------------------------------------------------------------------------
\* Coze and Dify: asking

LEMMA BodiesFit ==
    ASSUME LlmInv, model \in {"coze", "dify"}
    PROVE  /\ Bodies \in Seq(Requests) /\ Bodies # <<>>
           /\ model = "dify" => Len(Bodies) = 1 /\ Bodies[1] = Body(FALSE, conv)
           /\ model = "coze" =>
                 /\ Len(Bodies) = IF conv = None THEN 2 ELSE 4
                 /\ \A i \in DOMAIN Bodies : Bodies[i] = Planned(Len(Bodies) - i, conv)
<1>1. conv \in LlmTurns \cup {None} /\ None \in LlmTurns \cup {None}
  BY DEF LlmInv, LlmTypes
<1>2. PICK p, q, r, s : p = Body(TRUE, conv) /\ q = Body(FALSE, conv) /\ r = Body(TRUE, None) /\ s = Body(FALSE, None)
  OBVIOUS
<1>3. p \in Requests /\ q \in Requests /\ r \in Requests /\ s \in Requests
  BY <1>1, <1>2 DEF Body, Requests
<1>4. CASE model = "dify"
  <2>1. Bodies = <<q>>
    BY <1>2, <1>4 DEF Bodies
  <2>2. Len(<<q>>) = 1 /\ <<q>>[1] = q /\ <<q>> \in Seq(Requests) /\ <<q>> # <<>>
    BY <1>3
  <2> QED
    BY <1>2, <1>4, <2>1, <2>2
<1>5. CASE model = "coze" /\ conv = None
  <2>1. Bodies = <<p, q>>
    <3>1. Bodies = <<p, q>> \o <<>>
      BY <1>2, <1>5 DEF Bodies
    <3> QED
      BY <1>3, <3>1
  <2>2. Len(<<p, q>>) = 2 /\ <<p, q>> \in Seq(Requests) /\ <<p, q>> # <<>>
        /\ <<p, q>>[1] = p /\ <<p, q>>[2] = q /\ DOMAIN <<p, q>> = 1 .. 2
    BY <1>3
  <2>3. p = Planned(1, conv) /\ q = Planned(0, conv)
    BY <1>2, <1>5 DEF Planned
  <2>4. \A i \in DOMAIN Bodies : (i = 1 \/ i = 2) /\ Bodies[i] = Planned(2 - i, conv)
    BY <2>1, <2>2, <2>3
  <2> QED
    BY <1>5, <2>1, <2>2, <2>4
<1>6. CASE model = "coze" /\ conv # None
  <2>1. PICK x, y, b : x = <<p, q>> /\ y = <<r, s>> /\ b = x \o y
    OBVIOUS
  <2>2. /\ x \in Seq(Requests) /\ Len(x) = 2 /\ x[1] = p /\ x[2] = q
        /\ y \in Seq(Requests) /\ Len(y) = 2 /\ y[1] = r /\ y[2] = s
    BY <1>3, <2>1
  <2>3. Len(b) = 4 /\ b \in Seq(Requests) /\ b # <<>> /\ DOMAIN b = 1 .. 4
        /\ b[1] = p /\ b[2] = q /\ b[3] = r /\ b[4] = s
    BY <2>1, <2>2
  <2>4. p = Planned(3, conv) /\ q = Planned(2, conv) /\ r = Planned(1, conv) /\ s = Planned(0, conv)
    BY <1>2 DEF Planned
  <2>5. \A i \in DOMAIN b : (i = 1 \/ i = 2 \/ i = 3 \/ i = 4) /\ b[i] = Planned(4 - i, conv)
    BY <2>3, <2>4
  <2>6. Bodies = b
    BY <1>2, <1>6, <2>1 DEF Bodies
  <2> QED
    BY <1>6, <2>3, <2>5, <2>6
<1> QED
  BY <1>4, <1>5, <1>6

LEMMA AsksBodyInv == ASSUME LlmInv, NEW t \in LlmTurns, AsksBody(t) PROVE LlmInv'
<1>1. /\ asked[t].at = "idle" /\ model \in {"coze", "dify"} /\ UNCHANGED <<model, plan, conv>>
      /\ StageFits(model, asked[t]) /\ AskFits(model, plan, asked[t])
      /\ asked' = [asked EXCEPT ![t].at = "asking", ![t].tries = Bodies, ![t].had = conv]
  BY TurnFacts DEF AsksBody, MayAsk, TurnFits
<1>2. PICK b : b = Bodies
  OBVIOUS
<1>3. /\ b \in Seq(Requests) /\ b # <<>>
      /\ model = "dify" => Len(b) = 1 /\ b[1] = Body(FALSE, conv)
      /\ model = "coze" =>
            /\ Len(b) = IF conv = None THEN 2 ELSE 4
            /\ \A i \in DOMAIN b : b[i] = Planned(Len(b) - i, conv)
  BY <1>1, <1>2, BodiesFit
<1>4. PICK a : a = [asked[t] EXCEPT !.at = "asking", !.tries = b, !.had = conv]
  OBVIOUS
<1>5. /\ a.at = "asking" /\ a.tries = b /\ a.had = conv /\ a \in TurnRecords
      /\ a.heard = asked[t].heard /\ a.chan = asked[t].chan /\ a.said = asked[t].said
      /\ a.args = asked[t].args /\ a.call = asked[t].call /\ a.with = asked[t].with
      /\ a.state = asked[t].state /\ a.odd = asked[t].odd /\ a.seen = asked[t].seen
      /\ a.reader = asked[t].reader
  <2>1. asked[t] \in TurnRecords /\ b \in Seq(Requests) /\ conv \in LlmTurns \cup {None}
    BY <1>3, TurnFacts
  <2> QED
    BY <1>4, <2>1 DEF TurnRecords
<1>6. asked' = [asked EXCEPT ![t] = a]
  BY <1>1, <1>2, <1>4, TurnFacts
<1>7. StageFits(model, a)
  BY <1>1, <1>5 DEF StageFits
<1>8. AnswerFits(model, a, a.heard \o a.chan)
  BY <1>5 DEF AnswerFits
<1>9. AskFits(model, plan, a)
  <2>1. model = "coze" =>
           /\ Len(b) <= 4 /\ (conv = None => Len(b) <= 2)
           /\ conv # None => ~ (Len(b) <= 2)
    <3>1. CASE model = "coze" /\ conv = None
      <4>1. Len(b) = 2
        BY <1>3, <3>1
      <4> QED
        BY <3>1, <4>1
    <3>2. CASE model = "coze" /\ conv # None
      <4>1. Len(b) = 4
        BY <1>3, <3>2
      <4> QED
        BY <3>2, <4>1
    <3> QED
      BY <3>1, <3>2
  <2>2. CASE model = "dify"
    BY <1>1, <1>3, <1>5, <2>2 DEF AskFits
  <2>3. CASE model = "coze"
    BY <1>1, <1>3, <1>5, <2>1, <2>3 DEF AskFits
  <2> QED
    BY <1>1, <2>2, <2>3
<1> QED
  BY <1>1, <1>5, <1>6, <1>7, <1>8, <1>9, TurnFacts, TurnMoves DEF TurnFits

\* The requests that are left when the first has failed, and why it can.
LEMMA PlanGoesOn ==
    ASSUME NEW q \in Seq(Requests), q # <<>>, NEW had,
           \A i \in DOMAIN q : q[i] = Planned(Len(q) - i, had)
    PROVE  /\ Head(q) = Planned(Len(q) - 1, had)
           /\ Tail(q) \in Seq(Requests) /\ Len(Tail(q)) = Len(q) - 1
           /\ \A i \in DOMAIN Tail(q) : Tail(q)[i] = Planned(Len(Tail(q)) - i, had)
<1>1. 1 \in DOMAIN q /\ Head(q) = q[1] /\ Len(q) \in Nat
  OBVIOUS
<1>2. PICK r : r = Tail(q)
  OBVIOUS
<1>3. r \in Seq(Requests) /\ Len(r) = Len(q) - 1
  BY <1>2
<1>4. \A i \in DOMAIN r : i \in Nat /\ i + 1 \in DOMAIN q /\ r[i] = q[i + 1]
  BY <1>2
<1>5. \A i \in DOMAIN r : Len(q) - (i + 1) = Len(r) - i
  BY <1>1, <1>3, <1>4
<1>6. \A i \in DOMAIN r : r[i] = Planned(Len(r) - i, had)
  BY <1>4, <1>5
<1> QED
  BY <1>1, <1>2, <1>3, <1>6

LEMMA PlannedAccepts ==
    ASSUME NEW had
    PROVE  /\ Accepts(Planned(0, had)) /\ (~ Accepts(Planned(2, had)) => plan.expires)
           /\ Planned(0, had).with = None /\ Planned(1, had).with = None
  BY DEF Accepts, Planned, Body

LEMMA AskFailsInv == ASSUME LlmInv, NEW t \in LlmTurns, AskFails(t) PROVE LlmInv'
<1>1. PICK why \in {"refused", "trouble"} :
         /\ why = "refused" => ~ Accepts(Head(asked[t].tries))
         /\ asked' = [asked EXCEPT
                ![t].tries = Tail(@),
                ![t].odd = IF why = "trouble" THEN @ \cup {"trouble"} ELSE @,
                ![t].at = IF Len(asked[t].tries) = 1 THEN "over" ELSE @,
                ![t].chan = IF Len(asked[t].tries) = 1 THEN Tries(t, Error) ELSE @]
  BY DEF AskFails
<1>2. /\ asked[t].at = "asking" /\ model # "openai" /\ UNCHANGED <<model, plan, conv>>
      /\ StageFits(model, asked[t]) /\ AskFits(model, plan, asked[t])
  BY TurnFacts DEF AskFails, TurnFits, StageFits
<1>3. PICK q, had : q = asked[t].tries /\ had = asked[t].had
  OBVIOUS
<1>4. /\ q \in Seq(Requests) /\ q # <<>> /\ Len(q) \in Nat /\ Len(q) >= 1
      /\ model = "dify" => Len(q) = 1
      /\ model = "coze" =>
            /\ Len(q) <= 4 /\ (had = None => Len(q) <= 2)
            /\ \A i \in DOMAIN q : q[i] = Planned(Len(q) - i, had)
            /\ had # None /\ Len(q) <= 2 => Excused(plan, asked[t])
  <2>1. q \in Seq(Requests)
    BY <1>3, TurnFacts, TurnFields
  <2>2. q # <<>> /\ (model = "dify" => Len(q) = 1)
    BY <1>2, <1>3 DEF AskFits
  <2>3. Len(q) \in Nat /\ Len(q) >= 1
    BY <2>1, <2>2
  <2> QED
    BY <1>2, <1>3, <2>1, <2>2, <2>3 DEF AskFits
<1>5. /\ Tail(q) \in Seq(Requests) /\ Len(Tail(q)) = Len(q) - 1
      /\ model = "coze" =>
            /\ Head(q) = Planned(Len(q) - 1, had)
            /\ \A i \in DOMAIN Tail(q) : Tail(q)[i] = Planned(Len(Tail(q)) - i, had)
  BY <1>4, PlanGoesOn
<1>6. PICK o : o = IF why = "trouble" THEN asked[t].odd \cup {"trouble"} ELSE asked[t].odd
  OBVIOUS
<1>7. /\ o \in SUBSET Oddities /\ asked[t].odd \subseteq o /\ o \subseteq {"trouble"}
      /\ why = "trouble" => "trouble" \in o
  BY <1>2, <1>6, TurnFacts, TurnFields DEF StageFits, Oddities
<1>8. PICK at : at = IF Len(q) = 1 THEN "over" ELSE "asking"
  OBVIOUS
<1>9. PICK c : c = IF Len(q) = 1 THEN Tries(t, Error) ELSE asked[t].chan
  OBVIOUS
<1>10. Error \in Messages /\ Error.is \notin {"word", "whole"}
  BY DEF Error, Messages
<1>11. /\ c \in Seq(Messages) /\ Len(c) <= ChanCap
       /\ c = <<>> \/ c = Append(<<>>, Error)
       /\ asked[t].heard = <<>> /\ asked[t].chan = <<>>
       /\ Len(q) # 1 => c = <<>>
  <2>1. asked[t].chan = <<>> /\ asked[t].heard = <<>> /\ Len(asked[t].chan) <= ChanCap
        /\ asked[t].chan \in Seq(Messages)
    BY <1>2, TurnFacts, TurnFields DEF StageFits
  <2>2. Tries(t, Error) = asked[t].chan \/ Tries(t, Error) = Append(asked[t].chan, Error)
    BY DEF Tries, Sends
  <2>3. Tries(t, Error) \in Seq(Messages) /\ Len(Tries(t, Error)) <= ChanCap
    BY <1>10, TriesIt
  <2> QED
    BY <1>9, <2>1, <2>2, <2>3
<1>12. PICK a : a = [asked[t] EXCEPT !.tries = Tail(q), !.odd = o, !.at = at, !.chan = c]
  OBVIOUS
<1>13. /\ a.at = at /\ a.tries = Tail(q) /\ a.odd = o /\ a.chan = c /\ a \in TurnRecords
       /\ a.heard = asked[t].heard /\ a.said = asked[t].said /\ a.had = had
       /\ a.args = asked[t].args /\ a.call = asked[t].call /\ a.with = asked[t].with
       /\ a.state = asked[t].state /\ a.seen = asked[t].seen /\ a.reader = asked[t].reader
  <2>1. /\ asked[t] \in TurnRecords /\ Tail(q) \in Seq(Requests) /\ o \in SUBSET Oddities
        /\ at \in {"asking", "over"} /\ c \in Seq(Messages)
    BY <1>5, <1>7, <1>8, <1>11, TurnFacts
  <2> QED
    BY <1>3, <1>12, <2>1 DEF TurnRecords
<1>14. asked' = [asked EXCEPT ![t] = a]
  BY <1>1, <1>2, <1>3, <1>6, <1>8, <1>9, <1>12, TurnFacts
<1>15. asked[t].said = 0 /\ asked[t].state = "none"
  BY <1>2 DEF StageFits
<1>16. StageFits(model, a)
  BY <1>2, <1>7, <1>8, <1>11, <1>13, <1>15 DEF StageFits
<1>17. AnswerFits(model, a, a.heard \o a.chan)
  <2>1. <<>> \in Seq(Messages) /\ <<>> \o <<>> = <<>> /\ WordsFirst(<<>>, 0)
    BY DEF WordsFirst
  <2>2. WordsFirst(<<>> \o Append(<<>>, Error), 0)
    BY <1>10, <2>1, OtherTold
  <2>3. WordsFirst(a.heard \o a.chan, 0)
    BY <1>11, <1>13, <2>1, <2>2
  <2>4. a.args = 0
    BY <1>2, <1>13 DEF StageFits
  <2> QED
    BY <1>8, <1>13, <1>15, <2>3, <2>4 DEF AnswerFits
<1>18. Excused(plan, asked[t]) => Excused(plan, a)
  BY <1>7, <1>13 DEF Excused
<1>19. AskFits(model, plan, a)
  <2>1. CASE Len(q) = 1
    <3>1. model = "coze" => "trouble" \in a.odd
      <4> SUFFICES ASSUME model = "coze", why = "refused" PROVE FALSE
        BY <1>7, <1>13
      <4>1. Head(q) = Planned(0, had) /\ ~ Accepts(Head(q))
        BY <1>1, <1>3, <1>5, <2>1
      <4> QED
        BY <4>1, PlannedAccepts
    <3> QED
      BY <1>2, <1>8, <1>13, <1>15, <2>1, <3>1 DEF AskFits
  <2>2. CASE Len(q) # 1
    <3>1. model = "coze" /\ a.at = "asking" /\ Len(q) >= 2 /\ a.tries # <<>>
      <4>1. Len(Tail(q)) # 0
        BY <1>4, <1>5, <2>2
      <4> QED
        BY <1>2, <1>4, <1>5, <1>8, <1>13, <2>2, <4>1, TurnFacts
    <3>2. had # None /\ Len(a.tries) <= 2 => Excused(plan, a)
      <4> SUFFICES ASSUME had # None, Len(a.tries) <= 2, Len(q) # 2, why = "refused"
                   PROVE  plan.expires
        BY <1>4, <1>7, <1>13, <1>18, <3>1 DEF Excused
      <4>1. Len(q) = 3
        BY <1>4, <1>5, <1>13, <3>1
      <4>2. Head(q) = Planned(2, had) /\ ~ Accepts(Head(q))
        BY <1>1, <1>3, <1>5, <3>1, <4>1
      <4> QED
        BY <4>2, PlannedAccepts
    <3> QED
      BY <1>4, <1>5, <1>13, <3>1, <3>2 DEF AskFits
  <2> QED
    BY <2>1, <2>2
<1> QED
  BY <1>2, <1>13, <1>14, <1>16, <1>17, <1>19, TurnFacts, TurnMoves DEF TurnFits

LEMMA OneMore ==
    ASSUME NEW y \in Seq(Messages), NEW e \in Messages, NEW b, b = y \o <<e>>
    PROVE  /\ b \in Seq(Messages) /\ Len(b) = Len(y) + 1 /\ DOMAIN b = 1 .. Len(y) + 1
           /\ b[Len(y) + 1] = e /\ \A i \in 1 .. Len(y) : b[i] = y[i]
<1>1. PICK z : z = <<e>>
  OBVIOUS
<1>2. z \in Seq(Messages) /\ Len(z) = 1 /\ z[1] = e
  BY <1>1
<1>3. b = y \o z
  BY <1>1
<1> QED
  BY <1>2, <1>3

\* The body of an answer of n words, none of which was told.
LEMMA BodyIsPending ==
    ASSUME NEW m, NEW n \in Nat, NEW s,
           NEW x \in Seq(Messages), Len(x) = n, \A i \in 1 .. n : x[i] = Word(i),
           NEW w \in Seq(Messages), w = <<>> \/ (m = "coze" /\ n > 0 /\ w = <<WholeText(n)>>),
           NEW e \in Messages, e = [is |-> s, i |-> 0]
    PROVE  (x \o w) \o <<e>> \in Seq(Messages) /\ Pending(m, s, n, 0, (x \o w) \o <<e>>)
<1>7. PICK y : y = x \o w
  OBVIOUS
<1>8. y \in Seq(Messages) /\ Len(y) = n + Len(w) /\ Len(w) \in Nat
      /\ (\A i \in 1 .. n : y[i] = Word(i))
      /\ (\A i \in DOMAIN w : y[n + i] = w[i])
  BY <1>7
<1>9. PICK b : b = y \o <<e>>
  OBVIOUS
<1>10. /\ b \in Seq(Messages) /\ Len(b) = Len(y) + 1 /\ DOMAIN b = 1 .. Len(y) + 1
       /\ b[Len(y) + 1] = e /\ \A i \in 1 .. Len(y) : b[i] = y[i]
  <2>1. y \in Seq(Messages)
    BY <1>8
  <2> QED
    BY <1>9, <2>1, OneMore
<1> SUFFICES Pending(m, s, n, 0, b)
  BY <1>7, <1>9, <1>10
<1>11. CASE w = <<>>
  <2>1. Len(w) = 0
    BY <1>11
  <2>2. Len(y) = n
    BY <1>8, <2>1
  <2>3. Len(b) = n + 1 /\ DOMAIN b = 1 .. n + 1
    BY <1>10, <2>2
  <2>4. \A i \in DOMAIN b : b[i] = IF i = n + 1 THEN e ELSE Word(i)
    BY <1>8, <1>10, <2>2
  <2>5. \A i \in DOMAIN b : i \in Nat /\ 0 + i = i /\ (i # n + 1 => 0 + i <= n)
    BY <2>3
  <2>6. 0 <= n /\ Len(b) >= n - 0 + 1
    BY <2>3
  <2>7. \A i \in DOMAIN b :
           b[i] = IF i = Len(b) THEN [is |-> s, i |-> 0]
                  ELSE IF 0 + i <= n THEN Word(0 + i) ELSE WholeText(n)
    BY <2>3, <2>4, <2>5
  <2>8. \A i \in DOMAIN b : i < Len(b) /\ 0 + i > n => m = "coze" /\ n > 0
    BY <2>3, <2>5
  <2> QED
    BY <2>6, <2>7, <2>8 DEF Pending
<1>12. CASE w # <<>>
  <2>1. m = "coze" /\ n > 0 /\ w = <<WholeText(n)>>
    BY <1>12
  <2>2. Len(w) = 1 /\ w[1] = WholeText(n) /\ 1 \in DOMAIN w
    BY <2>1
  <2>3. Len(y) = n + 1 /\ y[n + 1] = WholeText(n)
    BY <1>8, <2>2
  <2>4. \A i \in DOMAIN b : i \in 1 .. n \/ i = n + 1 \/ i = n + 2
    BY <1>10, <2>3
  <2>5. \A i \in DOMAIN b : b[i] = IF i = n + 2 THEN e ELSE IF i <= n THEN Word(i) ELSE WholeText(n)
    BY <1>8, <1>10, <2>3, <2>4
  <2> QED
    BY <1>10, <2>1, <2>3, <2>5 DEF Pending
<1> QED
  BY <1>11, <1>12

LEMMA BodyComesInv == ASSUME LlmInv, NEW t \in LlmTurns, BodyComes(t) PROVE LlmInv'
<1>1. PICK n \in 0 .. MaxWords, end \in {"finished", "failed"} :
         asked' = [asked EXCEPT
             ![t].at = "telling", ![t].said = n, ![t].with = Head(asked[t].tries).with, ![t].state = end,
             ![t].body = [i \in 1 .. n |-> Word(i)]
                         \o (IF model = "coze" /\ end = "finished" /\ n > 0 THEN <<WholeText(n)>> ELSE <<>>)
                         \o <<[is |-> end, i |-> 0]>>]
  BY DEF BodyComes
<1>2. /\ asked[t].at = "asking" /\ model # "openai" /\ UNCHANGED <<model, plan, conv>>
      /\ StageFits(model, asked[t]) /\ AskFits(model, plan, asked[t])
  BY TurnFacts DEF BodyComes, TurnFits, StageFits
<1>3. PICK q, had : q = asked[t].tries /\ had = asked[t].had
  OBVIOUS
<1>4. /\ q \in Seq(Requests) /\ q # <<>> /\ Len(q) \in Nat /\ Len(q) >= 1
      /\ model = "dify" => Len(q) = 1 /\ q[1] = Body(FALSE, had)
      /\ model = "coze" =>
            /\ Len(q) <= 4 /\ (had = None => Len(q) <= 2)
            /\ \A i \in DOMAIN q : q[i] = Planned(Len(q) - i, had)
            /\ had # None /\ Len(q) <= 2 => Excused(plan, asked[t])
  <2>1. q \in Seq(Requests)
    BY <1>3, TurnFacts, TurnFields
  <2>2. q # <<>> /\ (model = "dify" => Len(q) = 1)
    BY <1>2, <1>3 DEF AskFits
  <2>3. Len(q) \in Nat /\ Len(q) >= 1
    BY <2>1, <2>2
  <2> QED
    BY <1>2, <1>3, <2>1, <2>2, <2>3 DEF AskFits
<1>5. PICK with : with = Head(q).with
  OBVIOUS
<1>6. with \in LlmTurns \cup {None} /\ (with # had => Excused(plan, asked[t]))
  <2>1. Head(q) \in Requests /\ Head(q) = q[1]
    BY <1>4
  <2>2. CASE model = "dify"
    <3>1. with = had
      BY <1>4, <1>5, <2>1, <2>2 DEF Body
    <3> QED
      BY <1>5, <2>1, <3>1 DEF Requests
  <2>3. CASE model = "coze"
    <3>1. Head(q) = Planned(Len(q) - 1, had)
      BY <1>4, <2>3, PlanGoesOn
    <3>2. with = IF Len(q) <= 2 THEN None ELSE had
      BY <1>4, <1>5, <3>1 DEF Planned, Body
    <3> QED
      BY <1>4, <1>5, <2>1, <2>3, <3>2 DEF Requests
  <2> QED
    BY <1>2, <2>2, <2>3, TurnFacts
<1>7. PICK w : w = IF model = "coze" /\ end = "finished" /\ n > 0 THEN <<WholeText(n)>> ELSE <<>>
  OBVIOUS
<1>8. w \in Seq(Messages)
  <2>1. WholeText(n) \in Messages
    BY LlmStreamAssumption DEF WholeText, Messages
  <2> QED
    BY <1>7, <2>1
<1>9. PICK x, e, b : x = [i \in 1 .. n |-> Word(i)] /\ e = [is |-> end, i |-> 0] /\ b = (x \o w) \o <<e>>
  OBVIOUS
<1>10. b \in Seq(Messages) /\ Pending(model, end, n, 0, b)
  <2>1. n \in Nat /\ e \in Messages
    BY <1>9, LlmStreamAssumption DEF Messages
  <2>2. \A i \in 1 .. n : Word(i) \in Messages
    BY <2>1 DEF Word, Messages
  <2>3. x \in Seq(Messages) /\ Len(x) = n /\ \A i \in 1 .. n : x[i] = Word(i)
    BY <1>9, <2>1, <2>2
  <2>4. w = <<>> \/ (model = "coze" /\ n > 0 /\ w = <<WholeText(n)>>)
    BY <1>7
  <2>5. e = [is |-> end, i |-> 0]
    BY <1>9
  <2> QED
    BY <1>8, <1>9, <2>1, <2>3, <2>4, <2>5, BodyIsPending
<1>11. PICK a : a = [asked[t] EXCEPT !.at = "telling", !.said = n, !.with = with, !.state = end, !.body = b]
  OBVIOUS
<1>12. /\ a.at = "telling" /\ a.said = n /\ a.with = with /\ a.state = end /\ a.body = b
       /\ a \in TurnRecords /\ a.heard = asked[t].heard /\ a.chan = asked[t].chan
       /\ a.had = had /\ a.args = asked[t].args /\ a.call = asked[t].call
       /\ a.seen = asked[t].seen /\ a.reader = asked[t].reader /\ a.odd = asked[t].odd
  <2>1. /\ asked[t] \in TurnRecords /\ n \in 0 .. MaxWords /\ with \in LlmTurns \cup {None}
        /\ b \in Seq(Messages)
    BY <1>6, <1>10, TurnFacts
  <2> QED
    BY <1>3, <1>11, <2>1 DEF TurnRecords
<1>13. asked' = [asked EXCEPT ![t] = a]
  BY <1>1, <1>3, <1>5, <1>7, <1>9, <1>11, TurnFacts
<1>14. a.heard = <<>> /\ a.chan = <<>> /\ ~ a.seen
  BY <1>2, <1>12 DEF StageFits
<1>15. StageFits(model, a)
  BY <1>2, <1>12 DEF StageFits
<1>16. AnswerFits(model, a, a.heard \o a.chan)
  <2>1. PICK h : h = a.heard \o a.chan
    OBVIOUS
  <2>2. h = <<>> /\ Len(h) = 0 /\ WordsFirst(h, Len(h))
    BY <1>12, <1>14, <2>1, NothingSaid
  <2>3. Pending(model, a.state, a.said, Len(h), a.body)
    BY <1>10, <1>12, <2>2
  <2>4. AnswerFits(model, a, h)
    BY <1>12, <1>14, <2>2, <2>3 DEF AnswerFits
  <2> QED
    BY <2>1, <2>4
<1>17. AskFits(model, plan, a)
  <2>1. Excused(plan, asked[t]) => Excused(plan, a)
    BY <1>12 DEF Excused
  <2> QED
    BY <1>2, <1>6, <1>12, <2>1 DEF AskFits
<1> QED
  BY <1>2, <1>12, <1>13, <1>15, <1>16, <1>17, TurnFacts, TurnMoves DEF TurnFits

LEMMA BodyBreaksInv == ASSUME LlmInv, NEW t \in LlmTurns, BodyBreaks(t) PROVE LlmInv'
<1>1. /\ asked[t].at = "asking" /\ model = "dify" /\ UNCHANGED <<model, plan, conv>>
      /\ StageFits(model, asked[t]) /\ AskFits(model, plan, asked[t])
      /\ asked' = [asked EXCEPT ![t].at = "over", ![t].odd = @ \cup {"broken"}]
  BY TurnFacts DEF BodyBreaks, TurnFits
<1>2. PICK o : o = asked[t].odd \cup {"broken"}
  OBVIOUS
<1>3. PICK a : a = [asked[t] EXCEPT !.at = "over", !.odd = o]
  OBVIOUS
<1>4. /\ a.at = "over" /\ a.odd = o /\ a \in TurnRecords
      /\ a.heard = asked[t].heard /\ a.chan = asked[t].chan /\ a.said = asked[t].said
      /\ a.args = asked[t].args /\ a.call = asked[t].call /\ a.with = asked[t].with
      /\ a.had = asked[t].had /\ a.state = asked[t].state
  <2>1. asked[t] \in TurnRecords /\ o \in SUBSET Oddities
    BY <1>2, TurnFacts, TurnFields DEF Oddities
  <2> QED
    BY <1>3, <2>1 DEF TurnRecords
<1>5. asked' = [asked EXCEPT ![t] = a]
  BY <1>1, <1>2, <1>3, TurnFacts
<1>6. StageFits(model, a)
  BY <1>1, <1>4 DEF StageFits
<1>7. AnswerFits(model, a, a.heard \o a.chan)
  BY <1>2, <1>4 DEF AnswerFits, Plain
<1>8. AskFits(model, plan, a)
  BY <1>1, <1>4 DEF AskFits, StageFits
<1> QED
  BY <1>1, <1>4, <1>5, <1>6, <1>7, <1>8, TurnFacts, TurnMoves DEF TurnFits

-----------------------------------------------------------------------------
\* Coze and Dify: the events

LEMMA ConvKept ==
    ASSUME LlmInv, NEW t \in LlmTurns, KeepsConversation(t)
    PROVE  conv' \in LlmTurns \cup {None}
BY TurnFacts, TurnFields DEF KeepsConversation

\* The first of the messages of a body.
LEMMA FirstEvent ==
    ASSUME NEW b \in Seq(Messages), b # <<>>
    PROVE  /\ Head(b) \in Messages /\ Head(b) = b[1] /\ 1 \in DOMAIN b
           /\ Tail(b) \in Seq(Messages) /\ Len(Tail(b)) = Len(b) - 1 /\ Len(b) \in Nat /\ Len(b) >= 1
           /\ \A i \in DOMAIN Tail(b) : i \in Nat /\ i + 1 \in DOMAIN b /\ Tail(b)[i] = b[i + 1]
  OBVIOUS

\* What a turn that tells an answer has.
LEMMA TellingFacts ==
    ASSUME LlmInv, NEW t \in LlmTurns, HasEvents(t)
    PROVE  /\ asked[t].at = "telling" /\ model # "openai" /\ asked[t].state \in {"finished", "failed"}
           /\ asked[t].body \in Seq(Messages) /\ asked[t].body # <<>>
           /\ Event(t) \in Messages /\ Event(t) = Head(asked[t].body)
           /\ Tail(asked[t].body) \in Seq(Messages)
           /\ asked[t].chan \in Seq(Messages) /\ asked[t].heard \in Seq(Messages)
           /\ asked[t].odd \in SUBSET Oddities /\ asked[t].said \in Nat
           /\ asked[t].args = 0 /\ Len(asked[t].chan) <= ChanCap /\ asked[t].chan \in Seq(Messages)
           /\ AnswerFits(model, asked[t], asked[t].heard \o asked[t].chan)
<1>1. asked[t].at = "telling" /\ asked[t].body # <<>>
  BY DEF HasEvents
<1>2. StageFits(model, asked[t]) /\ AnswerFits(model, asked[t], asked[t].heard \o asked[t].chan)
  BY TurnFacts DEF TurnFits
<1>3. /\ asked[t].body \in Seq(Messages) /\ asked[t].chan \in Seq(Messages)
      /\ asked[t].heard \in Seq(Messages) /\ asked[t].odd \in SUBSET Oddities /\ asked[t].said \in Nat
  BY TurnFacts, TurnFields
<1>4. /\ model # "openai" /\ asked[t].state \in {"finished", "failed"}
      /\ asked[t].args = 0 /\ Len(asked[t].chan) <= ChanCap
  BY <1>1, <1>2 DEF StageFits
<1> QED
  BY <1>1, <1>2, <1>3, <1>4, FirstEvent DEF Event

\* Such a turn has told k words, and what is next tells the word after them, or the whole of
\* them, or is the end.
LEMMA TellingNext ==
    ASSUME LlmInv, NEW t \in LlmTurns, HasEvents(t), Plain(asked[t]),
           NEW q \in Seq(Messages), AnswerFits(model, asked[t], q), NEW k \in Nat, k = Len(q)
    PROVE  /\ WordsFirst(q, k)
           /\ model = "coze" => (asked[t].seen <=> k > 0)
           /\ Event(t).is = "word" =>
                 /\ Event(t) = Word(k + 1)
                 /\ Pending(model, asked[t].state, asked[t].said, k + 1, Tail(asked[t].body))
           /\ Event(t).is = "whole" =>
                 /\ model = "coze" /\ k > 0
                 /\ Pending(model, asked[t].state, asked[t].said, k, Tail(asked[t].body))
           /\ Event(t).is \in {"finished", "failed"} => k = asked[t].said /\ Event(t).is = asked[t].state
<1>2. /\ WordsFirst(q, k)
      /\ Pending(model, asked[t].state, asked[t].said, k, asked[t].body)
      /\ model = "coze" => (asked[t].seen <=> k > 0)
  BY TellingFacts DEF AnswerFits
<1>3. PICK m, s, n, b, e : m = model /\ s = asked[t].state /\ n = asked[t].said /\ b = asked[t].body
                         /\ e = Head(asked[t].body)
  OBVIOUS
<1>4. /\ s \in {"finished", "failed"} /\ n \in Nat /\ b \in Seq(Messages) /\ b # <<>>
      /\ Event(t) = e /\ e = Head(b)
  BY <1>3, TellingFacts
<1>5. Pending(m, s, n, k, b)
  BY <1>2, <1>3
<1>7. n \in Nat /\ s \in {"finished", "failed"} /\ s \notin {"word", "whole"}
  BY <1>4
<1>6. /\ e.is = "word" => e = Word(k + 1) /\ Pending(m, s, n, k + 1, Tail(b))
      /\ e.is = "whole" => m = "coze" /\ n > 0 /\ k = n /\ Pending(m, s, n, k, Tail(b))
      /\ e.is \in {"finished", "failed"} => k = n /\ e.is = s
  <2>1. PICK r : r = Tail(b)
    OBVIOUS
  <2>2. /\ e = b[1] /\ 1 \in DOMAIN b /\ Len(b) \in Nat /\ Len(b) >= 1
        /\ Len(r) = Len(b) - 1 /\ Len(r) \in Nat
        /\ \A i \in DOMAIN r : i \in Nat /\ i + 1 \in DOMAIN b /\ r[i] = b[i + 1]
    BY <1>4, <2>1, FirstEvent
  <2>3. /\ k <= n /\ Len(b) >= n - k + 1
        /\ \A i \in DOMAIN b :
              b[i] = IF i = Len(b) THEN [is |-> s, i |-> 0]
                     ELSE IF k + i <= n THEN Word(k + i) ELSE WholeText(n)
        /\ \A i \in DOMAIN b : i < Len(b) /\ k + i > n => m = "coze" /\ n > 0
    BY <1>5 DEF Pending
  <2>4. e = IF 1 = Len(b) THEN [is |-> s, i |-> 0] ELSE IF k + 1 <= n THEN Word(k + 1) ELSE WholeText(n)
    BY <2>2, <2>3
  <2>5. CASE Len(b) = 1
    <3>1. e.is = s /\ k = n
      BY <1>7, <2>3, <2>4, <2>5
    <3> QED
      BY <1>7, <2>1, <3>1
  <2>6. CASE Len(b) # 1 /\ k + 1 <= n
    <3>1. e = Word(k + 1) /\ e.is = "word"
      BY <1>7, <2>4, <2>6 DEF Word
    <3>2. Len(r) >= n - (k + 1) + 1
      BY <1>7, <2>2, <2>3
    <3>3. \A i \in DOMAIN r :
             r[i] = IF i = Len(r) THEN [is |-> s, i |-> 0]
                    ELSE IF (k + 1) + i <= n THEN Word((k + 1) + i) ELSE WholeText(n)
      <4> SUFFICES ASSUME NEW i \in DOMAIN r
                   PROVE  r[i] = IF i = Len(r) THEN [is |-> s, i |-> 0]
                          ELSE IF (k + 1) + i <= n THEN Word((k + 1) + i) ELSE WholeText(n)
        OBVIOUS
      <4>1. i \in Nat /\ i + 1 \in DOMAIN b /\ r[i] = b[i + 1] /\ (i = Len(r) <=> i + 1 = Len(b))
        BY <2>2
      <4>2. k + (i + 1) = (k + 1) + i
        BY <4>1
      <4> QED
        BY <2>3, <4>1, <4>2
    <3>4. \A i \in DOMAIN r : i < Len(r) /\ (k + 1) + i > n => m = "coze" /\ n > 0
      <4> SUFFICES ASSUME NEW i \in DOMAIN r, i < Len(r), (k + 1) + i > n PROVE m = "coze" /\ n > 0
        OBVIOUS
      <4>1. i + 1 \in DOMAIN b /\ i + 1 < Len(b) /\ k + (i + 1) > n
        BY <2>2
      <4> QED
        BY <2>3, <4>1
    <3>5. Pending(m, s, n, k + 1, r)
      BY <2>6, <3>2, <3>3, <3>4 DEF Pending
    <3> QED
      BY <1>7, <2>1, <2>6, <3>1, <3>5
  <2>7. CASE Len(b) # 1 /\ ~ (k + 1 <= n)
    <3>1. e.is = "whole" /\ k = n
      BY <1>7, <2>3, <2>4, <2>7 DEF WholeText
    <3>2. 1 < Len(b) /\ k + 1 > n
      BY <1>7, <2>2, <2>7
    <3>3. m = "coze" /\ n > 0
      BY <2>2, <2>3, <3>2
    <3>4. Len(r) >= n - k + 1
      BY <1>7, <2>2, <2>7, <3>1
    <3>5. \A i \in DOMAIN r :
             r[i] = IF i = Len(r) THEN [is |-> s, i |-> 0]
                    ELSE IF k + i <= n THEN Word(k + i) ELSE WholeText(n)
      <4> SUFFICES ASSUME NEW i \in DOMAIN r
                   PROVE  r[i] = IF i = Len(r) THEN [is |-> s, i |-> 0]
                          ELSE IF k + i <= n THEN Word(k + i) ELSE WholeText(n)
        OBVIOUS
      <4>1. i \in Nat /\ i + 1 \in DOMAIN b /\ r[i] = b[i + 1] /\ (i = Len(r) <=> i + 1 = Len(b))
        BY <2>2
      <4>2. i >= 1
        <5>1. DOMAIN r = 1 .. Len(r)
          BY <1>4, <2>1, FirstEvent
        <5> QED
          BY <2>2, <5>1
      <4>3. ~ (k + (i + 1) <= n) /\ ~ (k + i <= n)
        BY <3>1, <4>1, <4>2
      <4> QED
        BY <2>3, <4>1, <4>3
    <3>6. Pending(m, s, n, k, r)
      BY <2>3, <3>3, <3>4, <3>5 DEF Pending
    <3> QED
      BY <2>1, <3>1, <3>3, <3>6
  <2> QED
    BY <2>5, <2>6, <2>7
<1> QED
  BY <1>2, <1>3, <1>4, <1>6

\* Such a turn takes a step.
LEMMA TellingMoves ==
    ASSUME LlmInv, NEW t \in LlmTurns, HasEvents(t), KeepsConversation(t), UNCHANGED <<model, plan>>,
           NEW a \in TurnRecords, asked' = [asked EXCEPT ![t] = a],
           a.at \in {"telling", "over"}, a.state = asked[t].state, a.with = asked[t].with,
           a.had = asked[t].had, a.args = asked[t].args, a.call = asked[t].call,
           asked[t].odd \subseteq a.odd, Len(a.chan) <= ChanCap,
           AnswerFits(model, a, a.heard \o a.chan)
    PROVE  LlmInv'
<1>1. StageFits(model, asked[t]) /\ AskFits(model, plan, asked[t]) /\ asked[t].at = "telling"
      /\ model # "openai" /\ asked[t].state \in {"finished", "failed"}
  BY TurnFacts, TellingFacts DEF TurnFits
<1>2. StageFits(model, a)
  BY <1>1 DEF StageFits
<1>3. Excused(plan, asked[t]) => Excused(plan, a)
  BY DEF Excused
<1>4. AskFits(model, plan, a)
  BY <1>1, <1>3 DEF AskFits
<1> QED
  BY <1>2, <1>4, ConvKept, TurnMoves DEF TurnFits

\* A word goes into the channel.
LEMMA WordFits ==
    ASSUME LlmInv, NEW t \in LlmTurns, HasEvents(t), Event(t).is = "word",
           NEW a \in TurnRecords, a.at = "telling", a.body = Tail(asked[t].body),
           a.state = asked[t].state, a.said = asked[t].said, a.heard = asked[t].heard,
           Plain(a) => Plain(asked[t]) /\ a.chan = Append(asked[t].chan, Event(t)),
           model = "coze" => a.seen
    PROVE  AnswerFits(model, a, a.heard \o a.chan)
<1> SUFFICES ASSUME Plain(a)
             PROVE  LET q == a.heard \o a.chan
                    IN  /\ WordsFirst(q, Len(q)) /\ Pending(model, a.state, a.said, Len(q), a.body)
                        /\ model = "coze" => (a.seen <=> Len(q) > 0)
  BY DEF AnswerFits
<1>1. PICK h, c, q : h = asked[t].heard /\ c = asked[t].chan /\ q = h \o c
  OBVIOUS
<1>2. h \in Seq(Messages) /\ c \in Seq(Messages) /\ AnswerFits(model, asked[t], q)
  BY <1>1, TellingFacts
<1>3. q \in Seq(Messages)
  BY <1>1, <1>2
<1>4. PICK k : k = Len(q)
  OBVIOUS
<1>9. k \in Nat
  BY <1>3, <1>4
<1>5. /\ WordsFirst(q, k) /\ Event(t) = Word(k + 1)
      /\ Pending(model, a.state, a.said, k + 1, a.body)
  BY <1>1, <1>2, <1>3, <1>4, <1>9, TellingNext
<1>6. a.chan = Append(c, Word(k + 1)) /\ a.heard = h
  BY <1>1, <1>5
<1>7. Len(h \o Append(c, Word(k + 1))) = k + 1 /\ WordsFirst(h \o Append(c, Word(k + 1)), k + 1)
  BY <1>1, <1>2, <1>4, <1>5, <1>9, WordTold
<1>8. k + 1 > 0
  BY <1>9
<1> QED
  BY <1>5, <1>6, <1>7, <1>8

\* The end of an answer, and the error of one that failed.
LEMMA EndFits ==
    ASSUME LlmInv, NEW t \in LlmTurns, HasEvents(t), Event(t).is \in {"finished", "failed"},
           NEW a \in TurnRecords, a.at = "over",
           a.state = asked[t].state, a.said = asked[t].said, a.heard = asked[t].heard,
           a.args = asked[t].args, Plain(a) => Plain(asked[t]),
           Plain(a) => IF Event(t).is = "failed" THEN a.chan = Append(asked[t].chan, Error)
                                                 ELSE a.chan = asked[t].chan
    PROVE  AnswerFits(model, a, a.heard \o a.chan)
<1> SUFFICES ASSUME Plain(a)
             PROVE  LET q == a.heard \o a.chan
                    IN  WordsFirst(q, a.said) /\ (a.state = "failed" => Last(q) = Error)
  <2>1. a.args = 0
    BY TellingFacts
  <2> QED
    BY <2>1 DEF AnswerFits
<1>1. PICK h, c, q : h = asked[t].heard /\ c = asked[t].chan /\ q = h \o c
  OBVIOUS
<1>2. h \in Seq(Messages) /\ c \in Seq(Messages) /\ AnswerFits(model, asked[t], q)
  BY <1>1, TellingFacts
<1>3. q \in Seq(Messages)
  BY <1>1, <1>2
<1>4. PICK k : k = Len(q)
  OBVIOUS
<1>9. k \in Nat
  BY <1>3, <1>4
<1>5. WordsFirst(q, k) /\ k = a.said /\ Event(t).is = a.state
  BY <1>1, <1>2, <1>3, <1>4, <1>9, TellingNext
<1>6. CASE a.state = "failed"
  <2>1. Error \in Messages /\ Error.is \notin {"word", "whole"}
    BY DEF Error, Messages
  <2>2. WordsFirst(h \o Append(c, Error), k) /\ Last(h \o Append(c, Error)) = Error
    BY <1>1, <1>2, <1>5, <1>9, <2>1, OtherTold
  <2> QED
    BY <1>1, <1>5, <1>6, <2>2
<1>7. CASE a.state # "failed"
  BY <1>1, <1>5, <1>7
<1> QED
  BY <1>6, <1>7

\* What is the same after an event: the answer itself, and what excused it.
AfterEvent(t, a, at, b, c, o) ==
    /\ a \in TurnRecords /\ a.at = at /\ a.body = b /\ a.chan = c /\ a.odd = o
    /\ a.state = asked[t].state /\ a.said = asked[t].said /\ a.heard = asked[t].heard
    /\ a.args = asked[t].args /\ a.reader = asked[t].reader /\ a.call = asked[t].call
    /\ a.with = asked[t].with /\ a.had = asked[t].had

LEMMA EventMoves ==
    ASSUME LlmInv, NEW t \in LlmTurns, HasEvents(t), KeepsConversation(t), UNCHANGED <<model, plan>>,
           NEW a, NEW at \in {"telling", "over"}, NEW b, NEW c, NEW o,
           AfterEvent(t, a, at, b, c, o), asked' = [asked EXCEPT ![t] = a],
           Len(c) <= ChanCap, asked[t].odd \subseteq o, AnswerFits(model, a, a.heard \o a.chan)
    PROVE  LlmInv'
BY TellingMoves DEF AfterEvent

LEMMA EventFacts ==
    ASSUME LlmInv, NEW t \in LlmTurns, HasEvents(t)
    PROVE  /\ asked[t] \in TurnRecords /\ asked[t].at = "telling"
           /\ Tail(asked[t].body) \in Seq(Messages) /\ <<>> \in Seq(Messages)
           /\ Event(t) \in Messages /\ Error \in Messages
           /\ asked[t].chan \in Seq(Messages) /\ Len(asked[t].chan) <= ChanCap
           /\ asked[t].odd \in SUBSET Oddities
<1>1. Error \in Messages /\ <<>> \in Seq(Messages)
  BY DEF Error, Messages
<1> QED
  BY <1>1, TurnFacts, TellingFacts

\* A turn that tells with try_send (Coze, and an error of Dify's).
LEMMA TriedFacts ==
    ASSUME LlmInv, NEW t \in LlmTurns, NEW m \in Messages, NEW a,
           NEW at, NEW b, NEW c, NEW o, AfterEvent(t, a, at, b, c, o), c = Tries(t, m), Missed(t) \subseteq o
    PROVE  Plain(a) => Plain(asked[t]) /\ a.chan = Append(asked[t].chan, m)
<1>1. asked[t].odd \subseteq Missed(t)
      /\ (asked[t].reader = "on" /\ "full" \notin Missed(t) => Tries(t, m) = Append(asked[t].chan, m))
  BY TriesIt
<1> QED
  BY <1>1 DEF AfterEvent, Plain

\* The whole of an answer comes when its words were told.
LEMMA WholeIsSeen ==
    ASSUME LlmInv, NEW t \in LlmTurns, HasEvents(t), Event(t).is = "whole", Plain(asked[t]), model = "coze"
    PROVE  asked[t].seen
<1>1. PICK h, c, q : h = asked[t].heard /\ c = asked[t].chan /\ q = h \o c
  OBVIOUS
<1>2. h \in Seq(Messages) /\ c \in Seq(Messages) /\ AnswerFits(model, asked[t], q)
  BY <1>1, TellingFacts
<1>3. q \in Seq(Messages)
  BY <1>1, <1>2
<1>4. PICK k : k = Len(q)
  OBVIOUS
<1>5. k \in Nat
  BY <1>3, <1>4
<1> QED
  BY <1>2, <1>3, <1>4, <1>5, TellingNext

LEMMA WholeFits ==
    ASSUME LlmInv, NEW t \in LlmTurns, HasEvents(t), Event(t).is = "whole",
           NEW a \in TurnRecords, a.at = "telling", a.body = Tail(asked[t].body),
           a.state = asked[t].state, a.said = asked[t].said, a.heard = asked[t].heard,
           a.chan = asked[t].chan, Plain(a) => Plain(asked[t]), a.seen
    PROVE  AnswerFits(model, a, a.heard \o a.chan)
<1> SUFFICES ASSUME Plain(a)
             PROVE  LET q == a.heard \o a.chan
                    IN  /\ WordsFirst(q, Len(q)) /\ Pending(model, a.state, a.said, Len(q), a.body)
                        /\ model = "coze" => (a.seen <=> Len(q) > 0)
  BY DEF AnswerFits
<1>1. PICK h, c, q : h = asked[t].heard /\ c = asked[t].chan /\ q = h \o c
  OBVIOUS
<1>2. h \in Seq(Messages) /\ c \in Seq(Messages) /\ AnswerFits(model, asked[t], q)
  BY <1>1, TellingFacts
<1>3. q \in Seq(Messages)
  BY <1>1, <1>2
<1>4. PICK k : k = Len(q)
  OBVIOUS
<1>5. k \in Nat
  BY <1>3, <1>4
<1>6. WordsFirst(q, k) /\ k > 0 /\ Pending(model, a.state, a.said, k, a.body)
  BY <1>2, <1>3, <1>4, <1>5, TellingNext
<1>7. q = a.heard \o a.chan
  BY <1>1
<1> QED
  BY <1>4, <1>6, <1>7

LEMMA CozeEventInv == ASSUME LlmInv, NEW t \in LlmTurns, CozeEvent(t) PROVE LlmInv'
<1>1. model = "coze" /\ HasEvents(t) /\ KeepsConversation(t) /\ UNCHANGED <<model, plan>>
  BY DEF CozeEvent
<1>2. /\ asked[t] \in TurnRecords /\ asked[t].at = "telling"
      /\ Tail(asked[t].body) \in Seq(Messages) /\ <<>> \in Seq(Messages)
      /\ Event(t) \in Messages /\ Error \in Messages
      /\ asked[t].chan \in Seq(Messages) /\ Len(asked[t].chan) <= ChanCap /\ asked[t].odd \in SUBSET Oddities
  BY <1>1, EventFacts
<1>3. PICK r, v, w, o, u : /\ r = Tail(asked[t].body) /\ v = Tries(t, Event(t)) /\ w = Tries(t, Error)
                           /\ o = Missed(t) /\ u = o \cup {"unnamed"}
  OBVIOUS
<1>4. /\ r \in Seq(Messages) /\ v \in Seq(Messages) /\ w \in Seq(Messages)
      /\ Len(v) <= ChanCap /\ Len(w) <= ChanCap /\ o \in SUBSET Oddities /\ asked[t].odd \subseteq o
      /\ u \in SUBSET Oddities /\ o \subseteq u
  BY <1>2, <1>3, TriesIt DEF Oddities
<1>5. \A k \in {"word", "whole", "finished", "failed"} : NamedEvent(t) = k => Event(t).is = k
  BY DEF NamedEvent
<1>6. CASE CozeDelta(t)
  <2>1. PICK a : a = [asked[t] EXCEPT !.body = r, !.chan = v, !.odd = o, !.seen = TRUE]
    OBVIOUS
  <2>2. AfterEvent(t, a, "telling", r, v, o) /\ a.seen
    BY <1>2, <1>4, <2>1 DEF AfterEvent, TurnRecords
  <2>3. asked' = [asked EXCEPT ![t] = a]
    BY <1>3, <1>6, <2>1, TurnFacts DEF CozeDelta, CozeTells
  <2>4. Event(t).is = "word"
    BY <1>5, <1>6 DEF CozeDelta
  <2>5. Plain(a) => Plain(asked[t]) /\ a.chan = Append(asked[t].chan, Event(t))
    BY <1>2, <1>3, <2>2, TriedFacts
  <2>6. AnswerFits(model, a, a.heard \o a.chan)
    BY <1>1, <1>3, <2>2, <2>4, <2>5, WordFits DEF AfterEvent
  <2> QED
    BY <1>1, <1>4, <2>2, <2>3, <2>6, EventMoves
<1>7. CASE CozeCompleted(t) /\ asked[t].seen
  <2>1. PICK a : a = [asked[t] EXCEPT !.body = r]
    OBVIOUS
  <2>2. AfterEvent(t, a, "telling", r, asked[t].chan, asked[t].odd) /\ a.seen
    BY <1>2, <1>4, <1>7, <2>1 DEF AfterEvent, TurnRecords
  <2>3. asked' = [asked EXCEPT ![t] = a]
    BY <1>3, <1>7, <2>1, TurnFacts DEF CozeCompleted
  <2>4. Event(t).is = "whole"
    BY <1>5, <1>7 DEF CozeCompleted
  <2>5. AnswerFits(model, a, a.heard \o a.chan)
    BY <1>1, <1>3, <2>2, <2>4, WholeFits DEF AfterEvent, Plain
  <2> QED
    BY <1>1, <1>2, <2>2, <2>3, <2>5, EventMoves
<1>8. CASE CozeCompleted(t) /\ ~ asked[t].seen
  <2>1. PICK a : a = [asked[t] EXCEPT !.body = r, !.chan = v, !.odd = o, !.seen = TRUE]
    OBVIOUS
  <2>2. AfterEvent(t, a, "telling", r, v, o) /\ a.seen
    BY <1>2, <1>4, <2>1 DEF AfterEvent, TurnRecords
  <2>3. asked' = [asked EXCEPT ![t] = a]
    BY <1>3, <1>8, <2>1, TurnFacts DEF CozeCompleted, CozeTells
  <2>4. Event(t).is = "whole"
    BY <1>5, <1>8 DEF CozeCompleted
  <2>5. ~ Plain(a)
    <3>1. Plain(a) => Plain(asked[t])
      BY <1>2, <1>3, <2>2, TriedFacts
    <3> QED
      BY <1>1, <1>8, <2>4, <3>1, WholeIsSeen
  <2>6. AnswerFits(model, a, a.heard \o a.chan)
    BY <2>5 DEF AnswerFits
  <2> QED
    BY <1>1, <1>4, <2>2, <2>3, <2>6, EventMoves
<1>9. CASE CozeFinished(t)
  <2>1. PICK a : a = [asked[t] EXCEPT !.body = <<>>, !.at = "over"]
    OBVIOUS
  <2>2. AfterEvent(t, a, "over", <<>>, asked[t].chan, asked[t].odd)
    BY <1>2, <2>1 DEF AfterEvent, TurnRecords
  <2>3. asked' = [asked EXCEPT ![t] = a]
    BY <1>9, <2>1, TurnFacts DEF CozeFinished
  <2>4. Event(t).is = "finished"
    BY <1>5, <1>9 DEF CozeFinished
  <2>5. AnswerFits(model, a, a.heard \o a.chan)
    BY <1>1, <2>2, <2>4, EndFits DEF AfterEvent, Plain
  <2> QED
    BY <1>1, <1>2, <2>2, <2>3, <2>5, EventMoves
<1>10. CASE CozeFailed(t)
  <2>1. PICK a : a = [asked[t] EXCEPT !.body = <<>>, !.at = "over", !.chan = w, !.odd = o]
    OBVIOUS
  <2>2. AfterEvent(t, a, "over", <<>>, w, o)
    BY <1>2, <1>4, <2>1 DEF AfterEvent, TurnRecords
  <2>3. asked' = [asked EXCEPT ![t] = a]
    BY <1>3, <1>10, <2>1, TurnFacts DEF CozeFailed
  <2>4. Event(t).is = "failed"
    BY <1>5, <1>10 DEF CozeFailed
  <2>5. Plain(a) => Plain(asked[t]) /\ a.chan = Append(asked[t].chan, Error)
    BY <1>2, <1>3, <2>2, TriedFacts
  <2>6. AnswerFits(model, a, a.heard \o a.chan)
    BY <1>1, <2>2, <2>4, <2>5, EndFits DEF AfterEvent
  <2> QED
    BY <1>1, <1>4, <2>2, <2>3, <2>6, EventMoves
<1>11. CASE CozeOther(t) /\ Event(t).is \in {"word", "whole"}
  <2>1. PICK a : a = [asked[t] EXCEPT !.body = r, !.chan = v, !.odd = u, !.seen = TRUE]
    OBVIOUS
  <2>2. AfterEvent(t, a, "telling", r, v, u)
    BY <1>2, <1>4, <2>1 DEF AfterEvent, TurnRecords
  <2>3. asked' = [asked EXCEPT ![t] = a]
    BY <1>3, <1>11, <2>1, TurnFacts DEF CozeOther
  <2>4. ~ Plain(a)
    <3>1. "unnamed" \in u /\ a.odd = u
      BY <1>3, <2>2 DEF AfterEvent
    <3> QED
      BY <3>1 DEF Plain
  <2>5. AnswerFits(model, a, a.heard \o a.chan)
    BY <2>4 DEF AnswerFits
  <2> QED
    BY <1>1, <1>4, <2>2, <2>3, <2>5, EventMoves
<1>12. CASE CozeOther(t) /\ Event(t).is \notin {"word", "whole"}
  <2>1. PICK x : x = asked[t].odd \cup {"unnamed"}
    OBVIOUS
  <2>2. x \in SUBSET Oddities /\ asked[t].odd \subseteq x
    BY <1>2, <2>1 DEF Oddities
  <2>3. PICK a : a = [asked[t] EXCEPT !.body = r, !.odd = x, !.at = "over"]
    OBVIOUS
  <2>4. AfterEvent(t, a, "over", r, asked[t].chan, x)
    BY <1>2, <1>4, <2>2, <2>3 DEF AfterEvent, TurnRecords
  <2>5. asked' = [asked EXCEPT ![t] = a]
    BY <1>3, <1>12, <2>1, <2>3, TurnFacts DEF CozeOther
  <2>6. AnswerFits(model, a, a.heard \o a.chan)
    BY <2>1, <2>4 DEF AnswerFits, Plain, AfterEvent
  <2> QED
    BY <1>1, <1>2, <2>2, <2>4, <2>5, <2>6, EventMoves
<1> QED
  BY <1>6, <1>7, <1>8, <1>9, <1>10, <1>11, <1>12 DEF CozeEvent

LEMMA DifyEventInv == ASSUME LlmInv, NEW t \in LlmTurns, DifyEvent(t) PROVE LlmInv'
<1>1. model = "dify" /\ HasEvents(t) /\ KeepsConversation(t) /\ UNCHANGED <<model, plan>>
  BY DEF DifyEvent
<1>2. /\ asked[t] \in TurnRecords /\ asked[t].at = "telling"
      /\ Tail(asked[t].body) \in Seq(Messages) /\ <<>> \in Seq(Messages)
      /\ Event(t) \in Messages /\ Error \in Messages
      /\ asked[t].chan \in Seq(Messages) /\ Len(asked[t].chan) <= ChanCap /\ asked[t].odd \in SUBSET Oddities
  BY <1>1, EventFacts
<1>3. PICK r, v, w, o : /\ r = Tail(asked[t].body) /\ v = Sends(t, Event(t)) /\ w = Tries(t, Error)
                        /\ o = Missed(t)
  OBVIOUS
<1>4. /\ r \in Seq(Messages) /\ w \in Seq(Messages)
      /\ Len(w) <= ChanCap /\ o \in SUBSET Oddities /\ asked[t].odd \subseteq o
  BY <1>2, <1>3, TriesIt
<1>5. CASE /\ Event(t).is = "word" /\ ChanRoom(t)
           /\ asked' = [asked EXCEPT ![t].body = Tail(@), ![t].chan = Sends(t, Event(t))]
  <2>1. v \in Seq(Messages) /\ Len(v) <= ChanCap
        /\ (asked[t].reader = "on" => v = Append(asked[t].chan, Event(t)))
    BY <1>2, <1>3, <1>5, SendsIt
  <2>2. PICK a : a = [asked[t] EXCEPT !.body = r, !.chan = v]
    OBVIOUS
  <2>3. AfterEvent(t, a, "telling", r, v, asked[t].odd)
    BY <1>2, <1>4, <2>1, <2>2 DEF AfterEvent, TurnRecords
  <2>4. asked' = [asked EXCEPT ![t] = a]
    BY <1>3, <1>5, <2>2, TurnFacts
  <2>5. Plain(a) => Plain(asked[t]) /\ a.chan = Append(asked[t].chan, Event(t))
    BY <2>1, <2>3 DEF AfterEvent, Plain
  <2>6. AnswerFits(model, a, a.heard \o a.chan)
    BY <1>1, <1>3, <1>5, <2>3, <2>5, WordFits DEF AfterEvent
  <2> QED
    BY <1>1, <2>1, <2>3, <2>4, <2>6, EventMoves
<1>6. CASE /\ Event(t).is = "finished"
           /\ asked' = [asked EXCEPT ![t].body = <<>>, ![t].at = "over"]
  <2>1. PICK a : a = [asked[t] EXCEPT !.body = <<>>, !.at = "over"]
    OBVIOUS
  <2>2. AfterEvent(t, a, "over", <<>>, asked[t].chan, asked[t].odd)
    BY <1>2, <2>1 DEF AfterEvent, TurnRecords
  <2>3. asked' = [asked EXCEPT ![t] = a]
    BY <1>6, <2>1, TurnFacts
  <2>4. AnswerFits(model, a, a.heard \o a.chan)
    BY <1>1, <1>6, <2>2, EndFits DEF AfterEvent, Plain
  <2> QED
    BY <1>1, <1>2, <2>2, <2>3, <2>4, EventMoves
<1>7. CASE /\ Event(t).is = "failed"
           /\ asked' = [asked EXCEPT ![t].body = <<>>, ![t].at = "over", ![t].chan = Tries(t, Error),
                                     ![t].odd = Missed(t)]
  <2>1. PICK a : a = [asked[t] EXCEPT !.body = <<>>, !.at = "over", !.chan = w, !.odd = o]
    OBVIOUS
  <2>2. AfterEvent(t, a, "over", <<>>, w, o)
    BY <1>2, <1>4, <2>1 DEF AfterEvent, TurnRecords
  <2>3. asked' = [asked EXCEPT ![t] = a]
    BY <1>3, <1>7, <2>1, TurnFacts
  <2>4. Plain(a) => Plain(asked[t]) /\ a.chan = Append(asked[t].chan, Error)
    BY <1>2, <1>3, <2>2, TriedFacts
  <2>5. AnswerFits(model, a, a.heard \o a.chan)
    BY <1>1, <1>7, <2>2, <2>4, EndFits DEF AfterEvent
  <2> QED
    BY <1>1, <1>4, <2>2, <2>3, <2>5, EventMoves
<1> QED
  BY <1>5, <1>6, <1>7 DEF DifyEvent

-----------------------------------------------------------------------------
\* The reader

LEMMA HeadIsHeard ==
    ASSUME NEW h \in Seq(Messages), NEW c \in Seq(Messages), c # <<>>
    PROVE  /\ Tail(c) \in Seq(Messages) /\ Len(Tail(c)) = Len(c) - 1
           /\ Append(h, Head(c)) \in Seq(Messages) /\ Append(h, Head(c)) \o Tail(c) = h \o c
<1>1. Head(c) \in Messages /\ Tail(c) \in Seq(Messages) /\ Len(Tail(c)) = Len(c) - 1
  OBVIOUS
<1>2. PICK e, r : e = Head(c) /\ r = Tail(c)
  OBVIOUS
<1>3. Append(h, e) \in Seq(Messages)
  BY <1>1, <1>2
<1>4. PICK x, y : x = Append(h, e) \o r /\ y = h \o c
  OBVIOUS
<1>5. x \in Seq(Messages) /\ y \in Seq(Messages) /\ Len(x) = Len(h) + Len(c) /\ Len(y) = Len(h) + Len(c)
  BY <1>1, <1>2, <1>3, <1>4
<1>6. \A i \in 1 .. Len(y) : x[i] = y[i]
  BY <1>1, <1>2, <1>3, <1>4, <1>5
<1>7. x = y
  BY <1>5, <1>6, SeqEqual
<1> QED
  BY <1>1, <1>2, <1>3, <1>4, <1>7

LEMMA HearsAnswerInv == ASSUME LlmInv, NEW t \in LlmTurns, HearsAnswer(t) PROVE LlmInv'
<1>1. /\ asked[t].chan # <<>> /\ UNCHANGED <<model, plan, conv>>
      /\ asked' = [asked EXCEPT ![t].chan = Tail(@), ![t].heard = Append(@, Head(asked[t].chan))]
      /\ StageFits(model, asked[t]) /\ AskFits(model, plan, asked[t])
      /\ AnswerFits(model, asked[t], asked[t].heard \o asked[t].chan)
  BY TurnFacts DEF HearsAnswer, TurnFits
<1>2. PICK h, c, g, r : /\ h = asked[t].heard /\ c = asked[t].chan /\ r = Tail(asked[t].chan)
                        /\ g = Append(asked[t].heard, Head(asked[t].chan))
  OBVIOUS
<1>3. h \in Seq(Messages) /\ c \in Seq(Messages) /\ c # <<>> /\ Len(c) <= ChanCap
  BY <1>1, <1>2, TurnFacts, TurnFields DEF StageFits
<1>4. /\ g = Append(h, Head(c)) /\ r = Tail(c)
  BY <1>2
<1>5. /\ r \in Seq(Messages) /\ Len(r) = Len(c) - 1 /\ g \in Seq(Messages) /\ g \o r = h \o c
  BY <1>3, <1>4, HeadIsHeard
<1>6. Len(r) <= ChanCap
  <2>1. Len(c) \in Nat
    BY <1>3
  <2> QED
    BY <1>3, <1>5, <2>1, LlmStreamAssumption
<1>7. PICK a : a = [asked[t] EXCEPT !.chan = r, !.heard = g]
  OBVIOUS
<1>8. /\ a.chan = r /\ a.heard = g /\ a \in TurnRecords /\ a.at = asked[t].at
      /\ a.odd = asked[t].odd /\ a.said = asked[t].said /\ a.tries = asked[t].tries
      /\ a.args = asked[t].args /\ a.call = asked[t].call /\ a.with = asked[t].with
      /\ a.had = asked[t].had /\ a.state = asked[t].state /\ a.seen = asked[t].seen
      /\ a.body = asked[t].body /\ a.reader = asked[t].reader
  <2>1. asked[t] \in TurnRecords
    BY TurnFacts
  <2> QED
    BY <1>5, <1>7, <2>1 DEF TurnRecords
<1>9. asked' = [asked EXCEPT ![t] = a]
  BY <1>1, <1>2, <1>7, TurnFacts
<1>10. asked[t].at \notin {"idle", "asking"}
  BY <1>1 DEF StageFits
<1>11. StageFits(model, a)
  BY <1>1, <1>6, <1>8, <1>10 DEF StageFits
<1>12. AnswerFits(model, a, a.heard \o a.chan)
  <2>1. AnswerFits(model, asked[t], h \o c)
    BY <1>1, <1>2
  <2>2. AnswerFits(model, a, h \o c)
    BY <1>8, <2>1 DEF AnswerFits, Plain
  <2> QED
    BY <1>5, <1>8, <2>2
<1>13. AskFits(model, plan, a)
  BY <1>1, <1>8, <1>10 DEF AskFits, Excused
<1> QED
  BY <1>1, <1>8, <1>9, <1>11, <1>12, <1>13, TurnFacts, TurnMoves DEF TurnFits

LEMMA LeavesAnswerInv == ASSUME LlmInv, NEW t \in LlmTurns, LeavesAnswer(t) PROVE LlmInv'
<1>1. /\ asked[t].at \in {"reading", "telling"} /\ UNCHANGED <<model, plan, conv>>
      /\ asked' = [asked EXCEPT ![t].reader = "left", ![t].chan = <<>>]
      /\ StageFits(model, asked[t]) /\ AskFits(model, plan, asked[t])
  BY TurnFacts DEF LeavesAnswer, TurnFits
<1>2. PICK a : a = [asked[t] EXCEPT !.reader = "left", !.chan = <<>>]
  OBVIOUS
<1>3. <<>> \in Seq(Messages) /\ Len(<<>>) = 0
  OBVIOUS
<1>4. /\ a.chan = <<>> /\ a.reader = "left" /\ a \in TurnRecords /\ a.at = asked[t].at
      /\ a.odd = asked[t].odd /\ a.args = asked[t].args /\ a.call = asked[t].call
      /\ a.with = asked[t].with /\ a.had = asked[t].had /\ a.state = asked[t].state
  <2>1. asked[t] \in TurnRecords
    BY TurnFacts
  <2> QED
    BY <1>2, <1>3, <2>1 DEF TurnRecords
<1>5. asked' = [asked EXCEPT ![t] = a]
  BY <1>1, <1>2, TurnFacts
<1>6. StageFits(model, a)
  BY <1>1, <1>3, <1>4, LlmStreamAssumption DEF StageFits
<1>7. AnswerFits(model, a, a.heard \o a.chan)
  BY <1>4 DEF AnswerFits, Plain
<1>8. AskFits(model, plan, a)
  BY <1>1, <1>4 DEF AskFits, Excused
<1> QED
  BY <1>1, <1>4, <1>5, <1>6, <1>7, <1>8, TurnFacts, TurnMoves DEF TurnFits

-----------------------------------------------------------------------------
\* What holds

LEMMA LlmBegins == LlmStreamInit => LlmInv
<1> SUFFICES ASSUME LlmStreamInit PROVE LlmInv
  OBVIOUS
<1>1. PICK a : a = Unanswered
  OBVIOUS
<1>2. <<>> \in Seq(Messages) /\ <<>> \in Seq(Requests) /\ Len(<<>>) = 0
  OBVIOUS
<1>3. 0 \in 0 .. MaxWords /\ 0 \in 0 .. MaxArgs + 1
  BY LlmStreamAssumption
<1>4. /\ a \in TurnRecords /\ a.at = "idle" /\ a.heard = <<>> /\ a.chan = <<>> /\ a.said = 0
      /\ a.state = "none" /\ ~ a.seen /\ a.reader = "on" /\ a.odd = {} /\ a.args = 0
      /\ ~ a.call.name /\ a.call.args = 0 /\ a.with = None /\ a.had = None
  BY <1>1, <1>2, <1>3 DEF Unanswered, TurnRecords, Oddities
<1>5. StageFits(model, a)
  BY <1>2, <1>4, LlmStreamAssumption DEF StageFits
<1>6. AnswerFits(model, a, a.heard \o a.chan)
  BY <1>4 DEF AnswerFits
<1>7. AskFits(model, plan, a)
  BY <1>4 DEF AskFits
<1>8. asked = [t \in LlmTurns |-> a] /\ model \in {"openai", "coze", "dify"} /\ plan \in Plans /\ conv = None
  BY <1>1 DEF LlmStreamInit, Plans
<1>9. LlmTypes
  BY <1>4, <1>8 DEF LlmTypes
<1> QED
  BY <1>5, <1>6, <1>7, <1>8, <1>9 DEF LlmInv, TurnFits

LEMMA LlmKeeps == LlmInv /\ [LlmStreamNext]_llmStreamVars => LlmInv'
<1> SUFFICES ASSUME LlmInv, [LlmStreamNext]_llmStreamVars PROVE LlmInv'
  OBVIOUS
<1>1. CASE UNCHANGED llmStreamVars
  BY <1>1 DEF llmStreamVars, LlmInv, LlmTypes
<1>2. CASE LlmStreamNext
  <2>1. PICK t \in LlmTurns :
          \/ AsksOpenAi(t) \/ OpenAiWord(t) \/ OpenAiFragment(t) \/ OpenAiEnds(t)
          \/ AsksBody(t) \/ AskFails(t) \/ BodyComes(t) \/ BodyBreaks(t)
          \/ CozeEvent(t) \/ DifyEvent(t)
          \/ HearsAnswer(t) \/ LeavesAnswer(t)
    BY <1>2 DEF LlmStreamNext
  <2> QED
    BY <2>1, AsksOpenAiInv, OpenAiWordInv, OpenAiFragmentInv, OpenAiEndsInv, AsksBodyInv,
       AskFailsInv, BodyComesInv, BodyBreaksInv, CozeEventInv, DifyEventInv, HearsAnswerInv,
       LeavesAnswerInv
<1> QED
  BY <1>1, <1>2

\* The turns of a language model, and what of its answer is told so far.
THEOREM LlmInvariant == LlmStreamSpec => []LlmInv
BY LlmBegins, LlmKeeps, PTL DEF LlmStreamSpec

LEMMA LlmTypesHold == LlmInv => LlmStreamTypeOK
<1> SUFFICES ASSUME LlmInv, NEW t \in LlmTurns
             PROVE  /\ LlmTypes
                    /\ asked[t] \in TurnRecords /\ Len(asked[t].chan) <= ChanCap
  BY TurnFields DEF LlmStreamTypeOK, LlmTypes, Plans, Oddities, LlmInv
<1> QED
  BY TurnFacts DEF LlmInv, TurnFits, StageFits

LEMMA AnswersFollow == LlmInv => AnswersAreWhole
<1> SUFFICES ASSUME LlmInv PROVE AnswersAreWhole
  OBVIOUS
<1>1. ASSUME NEW t \in LlmTurns PROVE TurnFits(model, plan, asked[t])
  BY TurnFacts
<1>2. AnswerIsHeard
  BY <1>1 DEF AnswerIsHeard, Stays, AnswerOf, TurnFits, AnswerFits, Plain
<1>3. PlainIsTried
  BY <1>1 DEF PlainIsTried, TurnFits, AskFits
<1>4. ConversationGoesOn
  BY <1>1 DEF ConversationGoesOn, TurnFits, AskFits, Excused
<1> QED
  BY <1>2, <1>3, <1>4 DEF AnswersAreWhole

\* The answer of a language model reaches its reader whole, for every number of turns, words and
\* fragments and every capacity of the channel (xiaozhi-llm openai.rs, coze.rs, dify.rs).
THEOREM AnswersReachTheirReader == ProvidersSpec => []ModelAnswers
<1> DEFINE Inv == part = "answer" => LlmInv
<1>1. ProvidersInit => Inv
  BY LlmBegins DEF ProvidersInit
<1>2. Inv /\ [ProvidersNext]_providersVars => Inv'
  <2> SUFFICES ASSUME Inv, [ProvidersNext]_providersVars, part' = "answer" PROVE LlmInv'
    OBVIOUS
  <2>1. part = "answer" /\ (LlmStreamNext \/ UNCHANGED llmStreamVars)
    BY DEF ProvidersNext, providersVars
  <2> QED
    BY <2>1, LlmKeeps
<1>3. Inv => ModelAnswers
  BY AnswersFollow DEF ModelAnswers
<1> QED
  BY <1>1, <1>2, <1>3, PTL DEF ProvidersSpec

\* Types of a language model's turns, for the same constants.
THEOREM LlmTypesCorrect == LlmStreamSpec => []LlmStreamTypeOK
BY LlmInvariant, LlmTypesHold, PTL

(***************************************************************************)
(* What TtsStream promises for every number of texts, pieces of audio and  *)
(* changes of the voice.  Until the decoder has filled up its last frame,  *)
(* what was got is what waits in the channel, at the bridge and in the     *)
(* decoder, and as many whole frames as were handed out; the sizes of a    *)
(* sequence of pieces are added up by a witness, their partial sums.  A    *)
(* text that is still being asked for has an attempt ahead of it that      *)
(* suits its voice, if its voice has one.                                  *)
(***************************************************************************)
\* The pieces q are n bytes together: c counts them up.
Weighs(q, n) ==
    \E c \in [0 .. Len(q) -> Int] :
        c[0] = 0 /\ c[Len(q)] = n /\ \A i \in 1 .. Len(q) : c[i] = c[i - 1] + q[i]

Timbres == [family : Families, model : Models, resource : {"none", "tts20"}]
Unopened == {"idle", "trying", "failed"}
Talks == [at : {"idle", "trying", "open", "heard", "left", "failed"}, tries : Seq(Attempt),
          set : Timbres \cup {NoModel}, pump : {"none", "on", "done", "lost"}, pieces : 0 .. MaxPieces,
          got : Nat, raw : Seq(Nat), pipe : Seq(Nat), rest : Nat,
          decoder : {"off", "on", "done", "broken"}, out : 0 .. OutCap, heard : Nat,
          cut : BOOLEAN, why : {"none", "refused", "mismatch", "trouble"}]

TtsTypes ==
    /\ engine \in Streaming \cup Collecting /\ format \in Formats(engine)
    /\ granted \in [Families -> Resources] /\ timbre \in Timbres
    /\ kept \in Attempt \cup {NoModel} /\ changes \in 0 .. MaxVoices
    /\ talk \in [Speeches -> Talks]
    /\ \A s \in Speeches : Len(talk[s].raw) <= RawCap

\* Each public voice is granted a public resource, at the one service that has several.
GrantsOne == engine = "doubao_ws" => {granted["tts1"], granted["tts2"]} \subseteq {"tts10", "tts20"}

PublicAsk(set) == Resolved(set.family, set.model).resource \notin {"icl10", "icl20"}

\* A text that is being asked for has its voice, and one of the attempts left suits it.
HasAttempt(r) ==
    r.at = "trying" =>
        /\ engine = "doubao_ws" /\ r.set \in Timbres /\ r.tries # <<>>
        /\ PublicAsk(r.set) => \E i \in DOMAIN r.tries : r.tries[i].resource = granted[r.set.family]
Mismatched(r) == r.at = "failed" /\ r.why = "mismatch" => r.set \in Timbres /\ ~ PublicAsk(r.set)

\* Before the service answered there is no audio.
NothingYet(r) ==
    r.at \in Unopened =>
        /\ r.pump = "none" /\ r.decoder = "off" /\ r.raw = <<>> /\ r.pipe = <<>> /\ ~ r.cut
        /\ r.pieces = 0 /\ r.got = 0 /\ r.rest = 0 /\ r.out = 0 /\ r.heard = 0

\* A frame of opus is in the channel or was heard.
OpusFits(r) ==
    r.at \in {"open", "heard"} /\ format = "opus" =>
        /\ r.decoder = "off" /\ r.pieces = r.heard + Len(r.raw) /\ r.out = 0
        /\ r.at = "heard" => r.raw = <<>> /\ r.pump # "on"

\* All that was got is on its way, or all of it was made frames of.
UnderWay(r) ==
    \E a, b \in Int : /\ Weighs(r.raw, a) /\ Weighs(r.pipe, b)
                      /\ r.got = a + b + r.rest + FrameUnits * (r.heard + r.out)
AllFrames(r) == Complete(r) /\ r.rest = 0 /\ r.heard + r.out = FramesOf(r.got)

FramesFit(r) ==
    r.at \in {"open", "heard"} /\ format # "opus" =>
        /\ r.decoder # "off"
        /\ r.decoder = "on" => r.at = "open" /\ (UnderWay(r) \/ AllFrames(r))
        /\ r.decoder = "done" => AllFrames(r)
        /\ r.decoder = "broken" => r.cut
        /\ r.at = "heard" => r.out = 0

TalkFits(r) == HasAttempt(r) /\ Mismatched(r) /\ NothingYet(r) /\ OpusFits(r) /\ FramesFit(r)

TtsInv == TtsTypes /\ GrantsOne /\ \A s \in Speeches : TalkFits(talk[s])

LEMMA TtsNumbers ==
    /\ FrameSize \in Nat \ {0} /\ MaxPieces \in Nat \ {0} /\ RawCap \in Nat \ {0} /\ OutCap \in Nat \ {0}
    /\ Sizes \subseteq Nat \ {0} /\ MaxVoices \in Nat
  BY TtsStreamAssumption

-----------------------------------------------------------------------------
\* What a sequence of pieces amounts to

LEMMA NothingWeighs == Weighs(<<>>, 0) /\ \A n : Weighs(<<>>, n) => n = 0
<1>1. Len(<<>>) = 0
  OBVIOUS
<1>2. PICK c : c = [i \in 0 .. 0 |-> 0]
  OBVIOUS
<1>3. c \in [0 .. 0 -> Nat] /\ c[0] = 0
  BY <1>2
<1>4. Weighs(<<>>, 0)
  BY <1>1, <1>3 DEF Weighs
<1> QED
  BY <1>1, <1>4 DEF Weighs

LEMMA AppendWeighs ==
    ASSUME NEW q \in Seq(Nat), NEW n \in Int, Weighs(q, n), NEW m \in Nat
    PROVE  Weighs(Append(q, m), n + m)
<1>1. PICK k : k = Len(q)
  OBVIOUS
<1>2. k \in Nat
  BY <1>1
<1>3. PICK c \in [0 .. k -> Int] : c[0] = 0 /\ c[k] = n /\ \A i \in 1 .. k : c[i] = c[i - 1] + q[i]
  BY <1>1 DEF Weighs
<1>5. PICK d : d = [i \in 0 .. k + 1 |-> IF i = k + 1 THEN n + m ELSE c[i]]
  OBVIOUS
<1>6. d \in [0 .. k + 1 -> Int] /\ d[0] = 0 /\ d[k + 1] = n + m /\ d[k] = n
  BY <1>2, <1>3, <1>5
<1>7. PICK p : p = Append(q, m)
  OBVIOUS
<1>8. Len(p) = k + 1 /\ p[k + 1] = m /\ \A i \in 1 .. k : p[i] = q[i]
  BY <1>1, <1>7
<1>9. ASSUME NEW i \in 1 .. k + 1 PROVE d[i] = d[i - 1] + p[i]
  <2>1. CASE i = k + 1
    BY <1>2, <1>6, <1>8, <2>1
  <2>2. CASE i \in 1 .. k
    BY <1>2, <1>3, <1>5, <1>8, <2>2
  <2> QED
    BY <1>2, <2>1, <2>2
<1> QED
  BY <1>6, <1>7, <1>8, <1>9 DEF Weighs

LEMMA TailWeighs ==
    ASSUME NEW q \in Seq(Nat), q # <<>>, NEW n \in Int, Weighs(q, n)
    PROVE  Head(q) \in Nat /\ Weighs(Tail(q), n - Head(q))
<1>1. PICK k, h : k = Len(q) /\ h = Head(q)
  OBVIOUS
<1>2. k \in Nat \ {0} /\ h \in Nat /\ h = q[1]
  BY <1>1
<1>3. PICK c \in [0 .. k -> Int] : c[0] = 0 /\ c[k] = n /\ \A i \in 1 .. k : c[i] = c[i - 1] + q[i]
  BY <1>1 DEF Weighs
<1>4. PICK p : p = Tail(q)
  OBVIOUS
<1>5. Len(p) = k - 1 /\ \A i \in 1 .. k - 1 : p[i] = q[i + 1]
  BY <1>1, <1>4
<1>6. PICK d : d = [i \in 0 .. k - 1 |-> c[i + 1] - h]
  OBVIOUS
<1>7. c[1] = h
  <2>1. 1 \in 1 .. k /\ 1 - 1 = 0
    BY <1>2
  <2>2. c[1] = c[0] + q[1]
    BY <1>3, <2>1
  <2> QED
    BY <1>2, <1>3, <2>2
<1>8. d \in [0 .. k - 1 -> Int] /\ d[0] = 0 /\ d[k - 1] = n - h
  <2>1. 0 \in 0 .. k - 1 /\ k - 1 \in 0 .. k - 1 /\ (k - 1) + 1 = k /\ 0 + 1 = 1
    BY <1>2
  <2>2. d[0] = c[1] - h /\ d[k - 1] = c[k] - h
    BY <1>6, <2>1
  <2>3. d \in [0 .. k - 1 -> Int]
    BY <1>2, <1>3, <1>6
  <2> QED
    BY <1>2, <1>3, <1>7, <2>2, <2>3
<1>9. ASSUME NEW i \in 1 .. k - 1 PROVE d[i] = d[i - 1] + p[i]
  <2>1. c[i + 1] = c[i] + q[i + 1]
    BY <1>2, <1>3
  <2>2. c[i] \in Int /\ c[i + 1] \in Int /\ q[i + 1] = p[i] /\ p[i] \in Int
    BY <1>1, <1>2, <1>3, <1>5
  <2>3. d[i] = c[i + 1] - h /\ d[i - 1] = c[i] - h
    <3>1. i \in 0 .. k - 1 /\ i - 1 \in 0 .. k - 1 /\ (i - 1) + 1 = i
      BY <1>2
    <3> QED
      BY <1>6, <3>1
  <2>4. h \in Int
    BY <1>2
  <2> QED
    BY <2>1, <2>2, <2>3, <2>4
<1> QED
  BY <1>1, <1>2, <1>4, <1>5, <1>8, <1>9 DEF Weighs

\* One piece weighs its size.
LEMMA OneWeighs == ASSUME NEW n \in Nat PROVE Weighs(<<n>>, n)
<1>1. Weighs(Append(<<>>, n), 0 + n)
  <2>1. <<>> \in Seq(Nat) /\ 0 \in Int
    OBVIOUS
  <2> QED
    BY <2>1, NothingWeighs, AppendWeighs
<1>2. Append(<<>>, n) = <<n>> /\ 0 + n = n
  OBVIOUS
<1> QED
  BY <1>1, <1>2

-----------------------------------------------------------------------------
\* Frames

LEMMA Quotient ==
    ASSUME NEW a \in Nat \ {0}, NEW k \in Nat, NEW x \in Nat, a * k <= x, x < a * k + a
    PROVE  x \div a = k
<1>1. PICK y \in Int : y = a * k
  OBVIOUS
<1>2. a * k \in Nat
  OBVIOUS
<1> QED
  BY SMTT(30)

LEMMA OneTimesMore == ASSUME NEW a \in Nat, NEW k \in Nat PROVE a * (k + 1) = a * k + a /\ a * k \in Nat
  OBVIOUS

\* k whole frames and less than one.
LEMMA FramesAreWhole ==
    ASSUME NEW k \in Nat, NEW r \in Nat, r < FrameUnits
    PROVE  FramesOf(r + FrameUnits * k) = IF r >= IF Bytes THEN 2 ELSE 1 THEN k + 1 ELSE k
<1>1. PICK f, p : f = FrameSize /\ p = f * k
  OBVIOUS
<1>2. f \in Nat \ {0} /\ p \in Nat
  BY <1>1, TtsNumbers
<1>3. f * (k + 1) = p + f
  BY <1>1, <1>2
<1>4. ASSUME NEW h \in Nat, h < f, NEW x \in Nat, x = p + h
      PROVE  (x + f - 1) \div f = IF h = 0 THEN k ELSE k + 1
  <2>1. CASE h = 0
    <3>1. x + f - 1 \in Nat /\ f * k <= x + f - 1 /\ x + f - 1 < f * k + f
      BY <1>1, <1>2, <1>4, <2>1
    <3> QED
      BY <1>2, <2>1, <3>1, Quotient
  <2>2. CASE h # 0
    <3>1. x + f - 1 \in Nat /\ f * (k + 1) <= x + f - 1 /\ x + f - 1 < f * (k + 1) + f /\ k + 1 \in Nat
      BY <1>2, <1>3, <1>4, <2>2
    <3> QED
      BY <1>2, <2>2, <3>1, Quotient
  <2> QED
    BY <2>1, <2>2
<1>5. CASE Bytes
  <2>1. FrameUnits = 2 * f /\ (2 * f) * k = 2 * p
    BY <1>1, <1>2, <1>5 DEF FrameUnits
  <2>2. PICK h \in Nat : r = 2 * h \/ r = 2 * h + 1
    <3>1. r \div 2 \in Nat /\ (r = 2 * (r \div 2) \/ r = 2 * (r \div 2) + 1)
      OBVIOUS
    <3> QED
      BY <3>1
  <2>3. (r + 2 * p) \div 2 = p + h
    BY <1>2, <2>2
  <2>4. h < f /\ (r >= 2 <=> h # 0) /\ p + h \in Nat
    BY <1>2, <2>1, <2>2
  <2> QED
    BY <1>1, <1>2, <1>4, <1>5, <2>1, <2>3, <2>4 DEF FramesOf
<1>6. CASE ~ Bytes
  <2>1. FrameUnits = f
    BY <1>1, <1>6 DEF FrameUnits
  <2>2. r + p \in Nat /\ r < f
    BY <1>2, <2>1
  <2> QED
    BY <1>1, <1>2, <1>4, <1>6, <2>1, <2>2 DEF FramesOf
<1> QED
  BY <1>5, <1>6

-----------------------------------------------------------------------------
\* The attempts of a voice

Has(q, x) == \E i \in DOMAIN q : q[i] = x

LEMMA PushedHas ==
    ASSUME NEW q \in Seq(Attempt), NEW x \in Attempt
    PROVE  /\ Pushed(q, x) \in Seq(Attempt) /\ Pushed(q, x) # <<>>
           /\ Has(Pushed(q, x), x) /\ \A y : Has(q, y) => Has(Pushed(q, x), y)
<1>1. CASE Contains(q, x)
  <2>1. PICK i \in 1 .. Len(q) : q[i] = x
    BY <1>1 DEF Contains
  <2>2. q # <<>> /\ DOMAIN q = 1 .. Len(q)
    BY <2>1
  <2> QED
    BY <1>1, <2>1, <2>2 DEF Pushed, Has
<1>2. CASE ~ Contains(q, x)
  <2>1. PICK p : p = Append(q, x)
    OBVIOUS
  <2>2. /\ p \in Seq(Attempt) /\ DOMAIN q = 1 .. Len(q) /\ DOMAIN p = 1 .. Len(q) + 1
        /\ p[Len(q) + 1] = x /\ Len(q) \in Nat /\ \A i \in 1 .. Len(q) : p[i] = q[i]
    BY <2>1
  <2>3. Len(q) + 1 \in DOMAIN p /\ DOMAIN q \subseteq DOMAIN p
    BY <2>2
  <2>4. p # <<>>
    BY <2>3
  <2>5. Has(p, x) /\ \A y : Has(q, y) => Has(p, y)
    BY <2>2, <2>3 DEF Has
  <2> QED
    BY <1>2, <2>1, <2>2, <2>4, <2>5 DEF Pushed
<1> QED
  BY <1>1, <1>2

LEMMA AskIsTyped == ASSUME NEW r \in Resources, NEW m \in Models
                 PROVE  Ask(r, m) \in Attempt /\ Ask(r, m).resource = r
  BY DEF Ask, Attempt

LEMMA Resolves ==
    ASSUME NEW f, f \in Families, NEW m, m \in Models
    PROVE  /\ Resolved(f, m) \in Attempt
           /\ f = "icl1" /\ ~ RefusedPair(f, m) => Resolved(f, m).resource = "icl10"
<1>1. {"tts10", "tts20", "icl10", "icl20"} \subseteq Resources /\ {"none", "tts11", "standard"} \subseteq Models
  BY DEF Resources, Models
<1>2. Upgraded(f, m) \in {"none", "tts11", "standard", "icl10", "icl20"}
  BY DEF Upgraded, Models
<1>3. ASSUME Upgraded(f, m) = "none" PROVE Resolved(f, m) \in Attempt
  <2>1. f = "tts1" => Resolved(f, m) = Ask("tts10", "tts11")
    BY <1>3 DEF Resolved
  <2>2. f = "tts2" => Resolved(f, m) = Ask("tts20", "none")
    BY <1>3 DEF Resolved
  <2>3. f = "icl1" => Resolved(f, m) = Ask("icl10", "none")
    BY <1>3 DEF Resolved
  <2> QED
    BY <1>1, <2>1, <2>2, <2>3, AskIsTyped DEF Families
<1>4. ASSUME Upgraded(f, m) # "none" PROVE Resolved(f, m) \in Attempt
  <2>1. PICK u, x : u = Upgraded(f, m) /\ x = IF f = "tts2" THEN "none" ELSE "standard"
    OBVIOUS
  <2>2. Resolved(f, m) = IF u = "tts11" THEN Ask("tts10", "tts11")
                         ELSE IF u = "standard" THEN Ask("tts20", x)
                         ELSE IF u = "icl10" THEN Ask("icl10", "none") ELSE Ask("icl20", "standard")
    BY <1>4, <2>1 DEF Resolved
  <2>3. x \in Models
    BY <1>1, <2>1
  <2> QED
    BY <1>1, <2>2, <2>3, AskIsTyped
<1>5. f = "icl1" /\ ~ RefusedPair(f, m) => Resolved(f, m).resource = "icl10"
  BY DEF RefusedPair
<1> QED
  BY <1>3, <1>4, <1>5

LEMMA FallsBackTo ==
    ASSUME NEW f, NEW a \in Attempt
    PROVE  /\ Fallback(f, a) # <<>> => Head(Fallback(f, a)) \in Attempt
           /\ f # "icl1" /\ a.resource = "tts10"
                 => Fallback(f, a) # <<>> /\ Head(Fallback(f, a)).resource = "tts20"
           /\ f # "icl1" /\ a.resource = "tts20"
                 => Fallback(f, a) # <<>> /\ Head(Fallback(f, a)).resource = "tts10"
<1>1. {"tts10", "tts20"} \subseteq Resources /\ {"tts11", "standard"} \subseteq Models
  BY DEF Resources, Models
<1>2. PICK x, y : x = Ask("tts20", "standard") /\ y = Ask("tts10", "tts11")
  OBVIOUS
<1>3. x \in Attempt /\ y \in Attempt /\ x.resource = "tts20" /\ y.resource = "tts10"
  BY <1>1, <1>2, AskIsTyped
<1>4. <<x>> # <<>> /\ Head(<<x>>) = x /\ <<y>> # <<>> /\ Head(<<y>>) = y
  OBVIOUS
<1>6. CASE f = "icl1"
  <2>1. Fallback(f, a) = <<>>
    BY <1>6 DEF Fallback
  <2> QED
    BY <1>6, <2>1
<1>7. CASE f # "icl1" /\ a.resource = "tts10"
  <2>1. Fallback(f, a) = <<x>>
    BY <1>2, <1>7 DEF Fallback
  <2> QED
    BY <1>3, <1>4, <1>7, <2>1
<1>8. CASE f # "icl1" /\ a.resource = "tts20"
  <2>1. Fallback(f, a) = <<y>>
    BY <1>2, <1>8 DEF Fallback
  <2> QED
    BY <1>3, <1>4, <1>8, <2>1
<1>9. CASE f # "icl1" /\ a.resource \notin {"tts10", "tts20"}
  <2>1. Fallback(f, a) = <<>>
    BY <1>9 DEF Fallback
  <2> QED
    BY <1>9, <2>1
<1> QED
  BY <1>6, <1>7, <1>8, <1>9

\* A voice that may be asked for has an attempt that suits it, whichever public resource it is
\* granted; a clone is granted its own.
LEMMA AttemptsFit ==
    ASSUME NEW set \in Timbres, ~ RefusedPair(set.family, set.model), kept \in Attempt \cup {NoModel},
           NEW r \in {"tts10", "tts20"}
    PROVE  /\ Attempts(set) \in Seq(Attempt) /\ Attempts(set) # <<>>
           /\ PublicAsk(set) => \E i \in DOMAIN Attempts(set) : Attempts(set)[i].resource = r
<1>1. PICK f, m, w, a : f = set.family /\ m = set.model /\ w = set.resource /\ a = Resolved(f, m)
  OBVIOUS
<1>2. f \in Families /\ m \in Models /\ w \in {"none", "tts20"}
  BY <1>1 DEF Timbres
<1>3. a \in Attempt /\ (f = "icl1" => a.resource = "icl10")
  BY <1>1, <1>2, Resolves
<1>4. PICK first : first = IF kept = NoModel THEN <<>> ELSE <<kept>>
  OBVIOUS
<1>5. first \in Seq(Attempt)
  BY <1>4
<1>6. PICK b : b = [a EXCEPT !.resource = w]
  OBVIOUS
<1>7. w # "none" => b \in Attempt
  BY <1>2, <1>3, <1>6 DEF Attempt, Resources
<1>8. PICK configured : configured = IF w = "none" THEN first ELSE Pushed(first, b)
  OBVIOUS
<1>9. configured \in Seq(Attempt)
  BY <1>5, <1>7, <1>8, PushedHas
<1>10. PICK own : own = Pushed(configured, a)
  OBVIOUS
<1>11. own \in Seq(Attempt) /\ own # <<>> /\ Has(own, a)
  BY <1>3, <1>9, <1>10, PushedHas
<1>12. PICK other : other = Fallback(f, a)
  OBVIOUS
<1>13. PICK all : all = IF other = <<>> THEN own ELSE Pushed(own, Head(other))
  OBVIOUS
<1>14. Attempts(set) = all
  BY <1>1, <1>4, <1>6, <1>8, <1>10, <1>12, <1>13 DEF Attempts, OwnAttempts
<1>15. other # <<>> => Head(other) \in Attempt
  BY <1>3, <1>12, FallsBackTo
<1>16. all \in Seq(Attempt) /\ all # <<>> /\ Has(all, a) /\ (other # <<>> => Has(all, Head(other)))
  BY <1>11, <1>13, <1>15, PushedHas
<1>17. ASSUME PublicAsk(set) PROVE \E i \in DOMAIN all : all[i].resource = r
  <2>1. a.resource \in {"tts10", "tts20"} /\ f # "icl1"
    BY <1>1, <1>3, <1>17 DEF PublicAsk, Attempt, Resources
  <2>2. CASE a.resource = r
    BY <1>16, <2>2 DEF Has
  <2>3. CASE a.resource # r
    <3>1. other # <<>> /\ Head(other).resource = r
      BY <1>3, <1>12, <2>1, <2>3, FallsBackTo
    <3> QED
      BY <1>16, <3>1 DEF Has
  <2> QED
    BY <2>2, <2>3
<1> QED
  BY <1>14, <1>16, <1>17

-----------------------------------------------------------------------------
\* One text takes a step

LEMMA TalkFacts ==
    ASSUME TtsInv, NEW s \in Speeches
    PROVE  /\ talk \in [Speeches -> Talks] /\ talk[s] \in Talks /\ Len(talk[s].raw) <= RawCap
           /\ TalkFits(talk[s])
           /\ engine \in Streaming \cup Collecting /\ format \in Formats(engine)
           /\ granted \in [Families -> Resources] /\ timbre \in Timbres
           /\ kept \in Attempt \cup {NoModel} /\ changes \in 0 .. MaxVoices /\ GrantsOne
  BY DEF TtsInv, TtsTypes

LEMMA TalkFields ==
    ASSUME NEW r \in Talks
    PROVE  /\ r.at \in {"idle", "trying", "open", "heard", "left", "failed"} /\ r.tries \in Seq(Attempt)
           /\ r.set \in Timbres \cup {NoModel} /\ r.pump \in {"none", "on", "done", "lost"}
           /\ r.pieces \in 0 .. MaxPieces /\ r.got \in Nat /\ r.raw \in Seq(Nat) /\ r.pipe \in Seq(Nat)
           /\ r.rest \in Nat /\ r.decoder \in {"off", "on", "done", "broken"} /\ r.out \in 0 .. OutCap
           /\ r.heard \in Nat /\ r.cut \in BOOLEAN /\ r.why \in {"none", "refused", "mismatch", "trouble"}
  BY DEF Talks

LEMMA TalkMoves ==
    ASSUME TtsInv, NEW s \in Speeches, NEW r \in Talks, talk' = [talk EXCEPT ![s] = r],
           UNCHANGED <<engine, format, granted>>, timbre' \in Timbres,
           kept' \in Attempt \cup {NoModel}, changes' \in 0 .. MaxVoices,
           Len(r.raw) <= RawCap, TalkFits(r)
    PROVE  TtsInv'
<1>1. \A p \in Speeches : talk'[p] = IF p = s THEN r ELSE talk[p]
  BY TalkFacts
<1>2. TtsTypes'
  BY <1>1, TalkFacts DEF TtsTypes, TtsInv
<1>4. GrantsOne'
  BY TalkFacts DEF GrantsOne
<1>5. ASSUME NEW p \in Speeches PROVE TalkFits(talk[p])'
  <2>1. TalkFits(talk'[p])
    BY <1>1, TalkFacts
  <2> QED
    BY <2>1 DEF TalkFits, HasAttempt, Mismatched, NothingYet, OpusFits, FramesFit, UnderWay, AllFrames,
         FrameUnits, Bytes, FramesOf
<1> QED
  BY <1>2, <1>4, <1>5 DEF TtsInv

LEMMA UnitsAreMany == FrameUnits \in Nat \ {0} /\ (Bytes => FrameUnits >= 2)
  BY TtsNumbers DEF FrameUnits

\* Nothing was said of a text that was not asked for: nothing is under way.
LEMMA NothingIsUnderWay ==
    ASSUME NEW r, r.raw = <<>>, r.pipe = <<>>, r.got = 0, r.rest = 0, r.heard = 0, r.out = 0
    PROVE  UnderWay(r)
<1>1. FrameUnits * 0 = 0
  BY UnitsAreMany
<1> QED
  BY <1>1, NothingWeighs DEF UnderWay

LEMMA AppliesVoiceInv == ASSUME TtsInv, AppliesVoice PROVE TtsInv'
<1>1. PICK family \in Families, model_1 \in {timbre.model, "none"} :
         timbre' = [timbre EXCEPT !.family = family, !.model = model_1]
  BY DEF AppliesVoice
<1>2. timbre \in Timbres /\ changes \in 0 .. MaxVoices
  BY DEF TtsInv, TtsTypes
<1>3. timbre' \in Timbres
  BY <1>1, <1>2 DEF Timbres, Models
<1>4. changes' \in 0 .. MaxVoices
  BY <1>2, TtsNumbers DEF AppliesVoice
<1>5. UNCHANGED <<engine, format, granted, talk>> /\ kept' = NoModel
  BY DEF AppliesVoice
<1>6. TtsTypes'
  BY <1>3, <1>4, <1>5 DEF TtsInv, TtsTypes
<1>7. ASSUME NEW s \in Speeches PROVE TalkFits(talk[s])'
  <2>1. TalkFits(talk[s])
    BY DEF TtsInv
  <2> QED
    BY <1>5, <2>1 DEF TalkFits, HasAttempt, Mismatched, NothingYet, OpusFits, FramesFit, UnderWay,
         AllFrames, FrameUnits, Bytes, FramesOf
<1> QED
  BY <1>5, <1>6, <1>7 DEF TtsInv, GrantsOne

-----------------------------------------------------------------------------
\* A text is asked for

LEMMA FailsInv ==
    ASSUME TtsInv, NEW s \in Speeches, talk[s].at \in {"idle", "trying"},
           NEW why, why \in {"refused", "mismatch", "trouble"}, FailsText(s, why),
           why = "mismatch" => talk[s].set \in Timbres /\ ~ PublicAsk(talk[s].set),
           UNCHANGED <<engine, format, granted, timbre, kept, changes>>
    PROVE  TtsInv'
<1>1. PICK r : r = [talk[s] EXCEPT !.at = "failed", !.why = why, !.tries = <<>>]
  OBVIOUS
<1>2. /\ r \in Talks /\ r.at = "failed" /\ r.why = why /\ r.set = talk[s].set /\ r.pump = talk[s].pump
      /\ r.decoder = talk[s].decoder /\ r.raw = talk[s].raw /\ r.pipe = talk[s].pipe /\ r.cut = talk[s].cut
      /\ r.pieces = talk[s].pieces /\ r.got = talk[s].got /\ r.rest = talk[s].rest /\ r.out = talk[s].out
      /\ r.heard = talk[s].heard
  <2>1. talk[s] \in Talks /\ <<>> \in Seq(Attempt)
    BY TalkFacts
  <2> QED
    BY <1>1, <2>1 DEF Talks
<1>3. talk' = [talk EXCEPT ![s] = r]
  BY <1>1, TalkFacts DEF FailsText
<1>4. TalkFits(r)
  <2>1. NothingYet(r)
    BY <1>2, TalkFacts DEF TalkFits, NothingYet, Unopened
  <2>2. HasAttempt(r) /\ Mismatched(r) /\ OpusFits(r) /\ FramesFit(r)
    BY <1>2 DEF HasAttempt, Mismatched, OpusFits, FramesFit
  <2> QED
    BY <2>1, <2>2 DEF TalkFits
<1> QED
  BY <1>2, <1>3, <1>4, TalkFacts, TalkMoves

\* Nothing yet, or the first piece of audio.
OneAtMost(w, k, n) == (w = <<>> /\ k = 0 /\ n = 0) \/ (w = <<n>> /\ k = 1)

LEMMA OpensInv ==
    ASSUME TtsInv, NEW s \in Speeches, NEW r \in Talks, talk' = [talk EXCEPT ![s] = r],
           UNCHANGED <<engine, format, granted, timbre, changes>>, kept' \in Attempt \cup {NoModel},
           r.at = "open", r.decoder = IF format = "opus" THEN "off" ELSE "on",
           r.pipe = <<>>, r.rest = 0, r.out = 0, r.heard = 0,
           OneAtMost(r.raw, r.pieces, r.got)
    PROVE  TtsInv'
<1>1. Len(r.raw) = r.pieces /\ Len(r.raw) <= RawCap
  <2>1. CASE r.raw = <<>> /\ r.pieces = 0
    <3>1. Len(<<>>) = 0
      OBVIOUS
    <3> QED
      BY <2>1, <3>1, TtsNumbers
  <2>2. CASE r.raw = <<r.got>> /\ r.pieces = 1
    <3>1. Len(<<r.got>>) = 1
      OBVIOUS
    <3> QED
      BY <2>2, <3>1, TtsNumbers
  <2> QED
    BY <2>1, <2>2 DEF OneAtMost
<1>2. UnderWay(r)
  <2>1. CASE r.raw = <<>> /\ r.got = 0
    BY <2>1, NothingIsUnderWay
  <2>2. CASE r.raw = <<r.got>>
    <3>1. r.got \in Nat /\ FrameUnits * (r.heard + r.out) = 0
      BY UnitsAreMany, TalkFields
    <3>2. Weighs(r.raw, r.got) /\ Weighs(r.pipe, 0)
      BY <2>2, <3>1, OneWeighs, NothingWeighs
    <3>3. r.got = r.got + 0 + r.rest + FrameUnits * (r.heard + r.out)
      BY <3>1
    <3> QED
      BY <3>1, <3>2, <3>3 DEF UnderWay
  <2> QED
    BY <2>1, <2>2 DEF OneAtMost
<1>3. OpusFits(r)
  BY <1>1, TalkFields DEF OpusFits
<1>4. FramesFit(r)
  BY <1>2 DEF FramesFit
<1>5. TalkFits(r)
  BY <1>3, <1>4 DEF TalkFits, HasAttempt, Mismatched, NothingYet, Unopened
<1> QED
  BY <1>1, <1>5, TalkFacts, TalkMoves

\* A text that is not asked for yet, and what it becomes when it is open.
LEMMA OpensNow ==
    ASSUME TtsInv, NEW s \in Speeches, talk[s].at \in {"idle", "trying"},
           NEW q \in Seq(Attempt), NEW p, p \in {"on", "done", "lost"}, NEW k, k \in {0, 1}, NEW n \in Nat,
           NEW c, c \in BOOLEAN, NEW w, OneAtMost(w, k, n),
           NEW d, d = IF format = "opus" THEN "off" ELSE "on",
           NEW r, r = [talk[s] EXCEPT !.at = "open", !.decoder = d, !.tries = q, !.pump = p,
                                      !.pieces = k, !.got = n, !.raw = w, !.cut = c],
           talk' = [talk EXCEPT ![s] = r],
           UNCHANGED <<engine, format, granted, timbre, changes>>, kept' \in Attempt \cup {NoModel}
    PROVE  TtsInv'
<1>3. /\ r \in Talks /\ r.at = "open" /\ r.decoder = d /\ r.pipe = talk[s].pipe /\ r.rest = talk[s].rest
      /\ r.out = talk[s].out /\ r.heard = talk[s].heard /\ r.raw = w /\ r.pieces = k /\ r.got = n
  <2>1. talk[s] \in Talks /\ k \in 0 .. MaxPieces
    BY TalkFacts, TtsNumbers
  <2>3. w \in Seq(Nat)
    <3>1. <<>> \in Seq(Nat) /\ <<n>> \in Seq(Nat)
      OBVIOUS
    <3> QED
      BY <3>1 DEF OneAtMost
  <2>2. d \in {"off", "on", "done", "broken"} /\ p \in {"none", "on", "done", "lost"}
        /\ "open" \in {"idle", "trying", "open", "heard", "left", "failed"}
    OBVIOUS
  <2> QED
    BY <2>1, <2>2, <2>3 DEF Talks
<1>4. talk[s].pipe = <<>> /\ talk[s].rest = 0 /\ talk[s].out = 0 /\ talk[s].heard = 0
  BY TalkFacts DEF TalkFits, NothingYet, Unopened
<1>5. OneAtMost(r.raw, r.pieces, r.got)
  BY <1>3
<1>6. r.pipe = <<>> /\ r.rest = 0 /\ r.out = 0 /\ r.heard = 0
  BY <1>3, <1>4
<1>7. r \in Talks /\ r.at = "open" /\ r.decoder = IF format = "opus" THEN "off" ELSE "on"
  BY <1>3
<1> QED
  BY <1>5, <1>6, <1>7, OpensInv

LEMMA SpeaksNothingInv == ASSUME TtsInv, NEW s \in Speeches, SpeaksNothing(s) PROVE TtsInv'
<1>1. PICK d : d = IF format = "opus" THEN "off" ELSE "on"
  OBVIOUS
<1>2. talk[s].at = "idle" /\ UNCHANGED <<engine, format, granted, timbre, kept, changes>>
  BY DEF SpeaksNothing, MaySpeak
<1>3. PICK q : q = talk[s].tries
  OBVIOUS
<1>6. PICK r : r = [talk[s] EXCEPT
                  !.at = "open", !.decoder = d, !.tries = q, !.pump = "done", !.pieces = 0, !.got = 0,
                  !.raw = <<>>, !.cut = FALSE]
  OBVIOUS
<1>4. talk' = [talk EXCEPT ![s] = r]
  <2>1. /\ talk[s] \in Talks /\ talk[s].pieces = 0 /\ talk[s].got = 0 /\ talk[s].raw = <<>>
        /\ talk[s].cut = FALSE
    BY <1>2, TalkFacts DEF TalkFits, NothingYet, Unopened, Talks
  <2>2. talk' = [talk EXCEPT ![s] = [talk[s] EXCEPT !.at = "open", !.decoder = d, !.pump = "done"]]
    BY <1>1, TalkFacts DEF SpeaksNothing, Opened
  <2> QED
    BY <1>3, <1>6, <2>1, <2>2 DEF Talks
<1>5. q \in Seq(Attempt) /\ kept \in Attempt \cup {NoModel}
  BY <1>3, TalkFacts, TalkFields
<1> QED
  <2>1. OneAtMost(<<>>, 0, 0) /\ "done" \in {"on", "done", "lost"} /\ 0 \in {0, 1}
    BY DEF OneAtMost
  <2> QED
    BY <1>1, <1>2, <1>4, <1>5, <1>6, <2>1, OpensNow

LEMMA NothingSoFar ==
    ASSUME TtsInv, NEW s \in Speeches, talk[s].at \in {"idle", "trying"}
    PROVE  /\ talk[s].pump = "none" /\ talk[s].decoder = "off" /\ talk[s].raw = <<>> /\ talk[s].pipe = <<>>
           /\ talk[s].cut = FALSE /\ talk[s].pieces = 0 /\ talk[s].got = 0 /\ talk[s].rest = 0
           /\ talk[s].out = 0 /\ talk[s].heard = 0
  BY TalkFacts, TalkFields DEF TalkFits, NothingYet, Unopened

LEMMA PiecesWeigh == PieceSizes \subseteq Nat
  BY TtsNumbers DEF PieceSizes

LEMMA AsksDoubaoInv == ASSUME TtsInv, NEW s \in Speeches, AsksDoubao(s) PROVE TtsInv'
<1>1. /\ talk[s].at = "idle" /\ engine = "doubao_ws"
      /\ UNCHANGED <<engine, format, granted, timbre, kept, changes>>
  BY DEF AsksDoubao, MaySpeak
<1>2. CASE RefusedPair(timbre.family, timbre.model)
  <2>1. FailsText(s, "refused")
    BY <1>2 DEF AsksDoubao
  <2> QED
    BY <1>1, <2>1, FailsInv
<1>3. CASE ~ RefusedPair(timbre.family, timbre.model)
  <2>1. PICK q : q = Attempts(timbre)
    OBVIOUS
  <2>2. timbre \in Timbres /\ kept \in Attempt \cup {NoModel}
    BY TalkFacts
  <2>3. timbre.family \in Families /\ timbre.model \in Models
    BY <2>2 DEF Timbres
  <2>4. PublicAsk(timbre) => granted[timbre.family] \in {"tts10", "tts20"}
    <3>1. timbre.family = "icl1" => ~ PublicAsk(timbre)
      BY <1>3, <2>3, Resolves DEF PublicAsk
    <3> QED
      BY <1>1, <2>3, <3>1, TalkFacts DEF GrantsOne, Families
  <2>5. q \in Seq(Attempt) /\ q # <<>>
    BY <1>3, <2>1, <2>2, AttemptsFit
  <2>6. PublicAsk(timbre) => \E i \in DOMAIN q : q[i].resource = granted[timbre.family]
    BY <1>3, <2>1, <2>2, <2>4, AttemptsFit
  <2>7. PICK r : r = [talk[s] EXCEPT !.at = "trying", !.set = timbre, !.tries = q]
    OBVIOUS
  <2>8. /\ r \in Talks /\ r.at = "trying" /\ r.set = timbre /\ r.tries = q /\ r.pump = talk[s].pump
        /\ r.decoder = talk[s].decoder /\ r.raw = talk[s].raw /\ r.pipe = talk[s].pipe
        /\ r.cut = talk[s].cut /\ r.pieces = talk[s].pieces /\ r.got = talk[s].got
        /\ r.rest = talk[s].rest /\ r.out = talk[s].out /\ r.heard = talk[s].heard
    <3>1. talk[s] \in Talks
      BY TalkFacts
    <3> QED
      BY <2>2, <2>5, <2>7, <3>1 DEF Talks
  <2>9. talk' = [talk EXCEPT ![s] = r]
    BY <1>3, <2>1, <2>7, TalkFacts DEF AsksDoubao
  <2>10. NothingYet(r)
    BY <1>1, <2>8, NothingSoFar DEF NothingYet
  <2>11. HasAttempt(r)
    BY <1>1, <2>2, <2>5, <2>6, <2>8 DEF HasAttempt
  <2>12. TalkFits(r)
    BY <2>8, <2>10, <2>11 DEF TalkFits, Mismatched, OpusFits, FramesFit
  <2> QED
    BY <1>1, <2>8, <2>9, <2>12, TalkFacts, TalkMoves
<1> QED
  BY <1>2, <1>3

LEMMA MismatchesInv == ASSUME TtsInv, NEW s \in Speeches, Mismatches(s) PROVE TtsInv'
<1>1. /\ talk[s].at = "trying" /\ ~ Suits(s)
      /\ UNCHANGED <<engine, format, granted, timbre, kept, changes>>
  BY DEF Mismatches
<1>2. PICK q, v, g : q = talk[s].tries /\ v = talk[s].set /\ g = granted[talk[s].set.family]
  OBVIOUS
<1>3. q \in Seq(Attempt) /\ q # <<>> /\ v \in Timbres /\ engine = "doubao_ws"
  BY <1>1, <1>2, TalkFacts, TalkFields DEF TalkFits, HasAttempt
<1>4. PublicAsk(v) => \E i \in DOMAIN q : q[i].resource = g
  BY <1>1, <1>2, TalkFacts DEF TalkFits, HasAttempt
<1>5. q[1].resource # g
  BY <1>1, <1>2, <1>3 DEF Suits
<1>6. CASE Len(q) = 1
  <2>1. FailsText(s, "mismatch")
    BY <1>2, <1>6 DEF Mismatches
  <2>2. ~ PublicAsk(v)
    BY <1>3, <1>4, <1>5, <1>6
  <2> QED
    BY <1>1, <1>2, <1>3, <2>1, <2>2, FailsInv
<1>7. CASE Len(q) # 1
  <2>1. PICK p : p = Tail(q)
    OBVIOUS
  <2>2. p \in Seq(Attempt) /\ p # <<>> /\ DOMAIN p = 1 .. Len(q) - 1 /\ \A i \in DOMAIN p : p[i] = q[i + 1]
    <3>1. p \in Seq(Attempt) /\ Len(p) = Len(q) - 1 /\ \A i \in 1 .. Len(q) - 1 : p[i] = q[i + 1]
      BY <1>3, <2>1
    <3>2. Len(q) \in Nat /\ Len(q) # 0 /\ DOMAIN p = 1 .. Len(p)
      BY <1>3, <3>1
    <3>3. p # <<>>
      BY <1>7, <3>1, <3>2
    <3> QED
      BY <3>1, <3>2, <3>3
  <2>3. ASSUME PublicAsk(v) PROVE \E i \in DOMAIN p : p[i].resource = g
    <3>1. PICK i \in DOMAIN q : q[i].resource = g
      BY <1>4, <2>3
    <3>2. i \in 2 .. Len(q) /\ Len(q) \in Nat
      BY <1>3, <1>5, <3>1
    <3>3. i - 1 \in DOMAIN p /\ p[i - 1] = q[i]
      BY <2>2, <3>2
    <3> QED
      BY <3>1, <3>3
  <2>7. PICK r : r = [talk[s] EXCEPT !.tries = p]
    OBVIOUS
  <2>8. /\ r \in Talks /\ r.at = "trying" /\ r.set = v /\ r.tries = p /\ r.pump = talk[s].pump
        /\ r.decoder = talk[s].decoder /\ r.raw = talk[s].raw /\ r.pipe = talk[s].pipe
        /\ r.cut = talk[s].cut /\ r.pieces = talk[s].pieces /\ r.got = talk[s].got
        /\ r.rest = talk[s].rest /\ r.out = talk[s].out /\ r.heard = talk[s].heard
    <3>1. talk[s] \in Talks
      BY TalkFacts
    <3> QED
      BY <1>1, <1>2, <2>2, <2>7, <3>1 DEF Talks
  <2>9. talk' = [talk EXCEPT ![s] = r]
    BY <1>2, <1>7, <2>1, <2>7, TalkFacts DEF Mismatches
  <2>10. NothingYet(r)
    BY <1>1, <2>8, NothingSoFar DEF NothingYet
  <2>11. HasAttempt(r)
    BY <1>2, <1>3, <2>2, <2>3, <2>8 DEF HasAttempt
  <2>12. TalkFits(r)
    BY <2>8, <2>10, <2>11 DEF TalkFits, Mismatched, OpusFits, FramesFit
  <2> QED
    BY <1>1, <2>8, <2>9, <2>12, TalkFacts, TalkMoves
<1> QED
  BY <1>6, <1>7

LEMMA TroubledInv == ASSUME TtsInv, NEW s \in Speeches, Troubled(s) PROVE TtsInv'
  BY FailsInv DEF Troubled

LEMMA FirstSpeechInv == ASSUME TtsInv, NEW s \in Speeches, FirstSpeech(s) PROVE TtsInv'
<1>1. /\ talk[s].at = "trying" /\ kept' = Head(talk[s].tries)
      /\ UNCHANGED <<engine, format, granted, timbre, changes>>
  BY DEF FirstSpeech
<1>2. PICK d : d = IF format = "opus" THEN "off" ELSE "on"
  OBVIOUS
<1>3. PICK n \in Nat :
         talk' = [talk EXCEPT ![s] = [talk[s] EXCEPT !.at = "open", !.decoder = d, !.tries = <<>>,
                                                     !.pump = "on", !.pieces = 1, !.got = n, !.raw = <<n>>]]
  BY <1>2, PiecesWeigh DEF FirstSpeech, Opened
<1>4. kept' \in Attempt
  <2>1. talk[s].tries \in Seq(Attempt) /\ talk[s].tries # <<>>
    BY <1>1, TalkFacts, TalkFields DEF TalkFits, HasAttempt
  <2> QED
    BY <1>1, <2>1
<1>5. PICK r : r = [talk[s] EXCEPT
                  !.at = "open", !.decoder = d, !.tries = <<>>, !.pump = "on", !.pieces = 1, !.got = n,
                  !.raw = <<n>>, !.cut = FALSE]
  OBVIOUS
<1>6. talk' = [talk EXCEPT ![s] = r]
  <2>1. talk[s] \in Talks /\ talk[s].cut = FALSE
    BY <1>1, TalkFacts, NothingSoFar
  <2> QED
    BY <1>3, <1>5, <2>1 DEF Talks
<1>7. OneAtMost(<<n>>, 1, n) /\ "on" \in {"on", "done", "lost"} /\ 1 \in {0, 1} /\ <<>> \in Seq(Attempt)
  BY DEF OneAtMost
<1> QED
  BY <1>1, <1>2, <1>4, <1>5, <1>6, <1>7, OpensNow

LEMMA OpenedFacts ==
    ASSUME TtsInv, NEW s \in Speeches, talk[s].at = "idle", NEW o, o = Opened(talk[s])
    PROVE  /\ o \in Talks /\ o.at = "open" /\ o.decoder = IF format = "opus" THEN "off" ELSE "on"
           /\ o.pipe = <<>> /\ o.rest = 0 /\ o.out = 0 /\ o.heard = 0 /\ o.raw = <<>>
           /\ o.pieces = 0 /\ o.got = 0
<1>1. PICK d : d = IF format = "opus" THEN "off" ELSE "on"
  OBVIOUS
<1>2. o = [talk[s] EXCEPT !.at = "open", !.decoder = d]
  BY <1>1 DEF Opened
<1>3. talk[s] \in Talks /\ d \in {"off", "on", "done", "broken"}
  BY <1>1, TalkFacts
<1>4. /\ o \in Talks /\ o.at = "open" /\ o.decoder = d /\ o.pipe = talk[s].pipe /\ o.rest = talk[s].rest
      /\ o.out = talk[s].out /\ o.heard = talk[s].heard /\ o.raw = talk[s].raw
      /\ o.pieces = talk[s].pieces /\ o.got = talk[s].got
  BY <1>2, <1>3 DEF Talks
<1> QED
  BY <1>1, <1>4, NothingSoFar

\* A text is open, and how its end is known already.
LEMMA OpensCut ==
    ASSUME TtsInv, NEW s \in Speeches, talk[s].at = "idle", NEW c, c \in BOOLEAN,
           NEW p, p \in {"on", "done", "lost"}, NEW r, r = [Opened(talk[s]) EXCEPT !.pump = p, !.cut = c],
           talk' = [talk EXCEPT ![s] = r], UNCHANGED <<engine, format, granted, timbre, kept, changes>>
    PROVE  TtsInv'
<1>1. PICK o : o = Opened(talk[s])
  OBVIOUS
<1>2. o \in Talks
  BY <1>1, OpenedFacts
<1>3. /\ r \in Talks /\ r.at = o.at /\ r.decoder = o.decoder /\ r.pipe = o.pipe /\ r.rest = o.rest
      /\ r.out = o.out /\ r.heard = o.heard /\ r.raw = o.raw /\ r.pieces = o.pieces /\ r.got = o.got
  BY <1>1, <1>2 DEF Talks
<1>4. kept' \in Attempt \cup {NoModel}
  BY TalkFacts
<1>5. /\ r.at = "open" /\ r.decoder = IF format = "opus" THEN "off" ELSE "on"
      /\ r.pipe = <<>> /\ r.rest = 0 /\ r.out = 0 /\ r.heard = 0 /\ r.raw = <<>>
      /\ r.pieces = 0 /\ r.got = 0
  BY <1>1, <1>3, OpenedFacts
<1>6. OneAtMost(r.raw, r.pieces, r.got)
  BY <1>5 DEF OneAtMost
<1> QED
  BY <1>3, <1>4, <1>5, <1>6, OpensInv

\* A text is open with all of its audio, or what passes for it.
LEMMA OpensWhole ==
    ASSUME TtsInv, NEW s \in Speeches, talk[s].at = "idle", NEW c, c \in BOOLEAN, NEW n \in Nat,
           NEW w, OneAtMost(w, 1, n),
           NEW r, r = [Opened(talk[s]) EXCEPT !.pump = "done", !.pieces = 1, !.got = n, !.raw = w, !.cut = c],
           talk' = [talk EXCEPT ![s] = r], UNCHANGED <<engine, format, granted, timbre, kept, changes>>
    PROVE  TtsInv'
<1>1. PICK o : o = Opened(talk[s])
  OBVIOUS
<1>2. o \in Talks
  BY <1>1, OpenedFacts
<1>3. /\ r \in Talks /\ r.at = o.at /\ r.decoder = o.decoder /\ r.pipe = o.pipe /\ r.rest = o.rest
      /\ r.out = o.out /\ r.heard = o.heard /\ r.raw = w /\ r.pieces = 1 /\ r.got = n
  <2>1. 1 \in 0 .. MaxPieces
    BY TtsNumbers
  <2>2. w \in Seq(Nat)
    <3>1. <<n>> \in Seq(Nat) /\ <<>> \in Seq(Nat)
      OBVIOUS
    <3> QED
      BY <3>1 DEF OneAtMost
  <2> QED
    BY <1>1, <1>2, <2>1, <2>2 DEF Talks
<1>4. kept' \in Attempt \cup {NoModel}
  BY TalkFacts
<1>5. /\ r.at = "open" /\ r.decoder = IF format = "opus" THEN "off" ELSE "on"
      /\ r.pipe = <<>> /\ r.rest = 0 /\ r.out = 0 /\ r.heard = 0 /\ r.raw = w
      /\ r.pieces = 1 /\ r.got = n
  BY <1>1, <1>3, OpenedFacts
<1>6. OneAtMost(r.raw, r.pieces, r.got)
  BY <1>5
<1> QED
  BY <1>3, <1>4, <1>5, <1>6, OpensInv

LEMMA OpensStreamInv == ASSUME TtsInv, NEW s \in Speeches, OpensStream(s) PROVE TtsInv'
<1>1. talk[s].at = "idle" /\ UNCHANGED <<engine, format, granted, timbre, kept, changes>>
  BY DEF OpensStream, MaySpeak
<1>2. CASE FailsText(s, "trouble")
  BY <1>1, <1>2, FailsInv
<1>3. CASE talk' = [talk EXCEPT ![s] = [Opened(@) EXCEPT !.pump = "lost", !.cut = TRUE]]
  <2>1. PICK r : r = [Opened(talk[s]) EXCEPT !.pump = "lost", !.cut = TRUE]
    OBVIOUS
  <2>2. talk' = [talk EXCEPT ![s] = r] /\ "lost" \in {"on", "done", "lost"} /\ TRUE \in BOOLEAN
    BY <1>3, <2>1
  <2> QED
    BY <1>1, <2>1, <2>2, OpensCut
<1>4. CASE talk' = [talk EXCEPT ![s] = [Opened(@) EXCEPT !.pump = "on"]]
  <2>1. PICK o : o = Opened(talk[s])
    OBVIOUS
  <2>2. PICK r : r = [o EXCEPT !.pump = "on"]
    OBVIOUS
  <2>3. talk' = [talk EXCEPT ![s] = r]
    BY <1>4, <2>1, <2>2
  <2>4. o \in Talks
    BY <1>1, <2>1, OpenedFacts
  <2>5. /\ r \in Talks /\ r.at = o.at /\ r.decoder = o.decoder /\ r.pipe = o.pipe /\ r.rest = o.rest
        /\ r.out = o.out /\ r.heard = o.heard /\ r.raw = o.raw /\ r.pieces = o.pieces /\ r.got = o.got
    BY <2>2, <2>4 DEF Talks
  <2>6. /\ r.at = "open" /\ r.decoder = IF format = "opus" THEN "off" ELSE "on"
        /\ r.pipe = <<>> /\ r.rest = 0 /\ r.out = 0 /\ r.heard = 0 /\ r.raw = <<>>
        /\ r.pieces = 0 /\ r.got = 0
    BY <1>1, <2>1, <2>5, OpenedFacts
  <2>7. OneAtMost(r.raw, r.pieces, r.got)
    BY <2>6 DEF OneAtMost
  <2>8. kept' \in Attempt \cup {NoModel}
    BY <1>1, TalkFacts
  <2> QED
    BY <1>1, <2>3, <2>5, <2>6, <2>7, <2>8, OpensInv
<1> QED
  BY <1>2, <1>3, <1>4 DEF OpensStream

LEMMA AsksWholeInv == ASSUME TtsInv, NEW s \in Speeches, AsksWhole(s) PROVE TtsInv'
<1>1. talk[s].at = "idle" /\ UNCHANGED <<engine, format, granted, timbre, kept, changes>>
  BY DEF AsksWhole, MaySpeak
<1>2. CASE FailsText(s, "trouble")
  BY <1>1, <1>2, FailsInv
<1>3. CASE talk' = [talk EXCEPT ![s] = [Opened(@) EXCEPT !.pump = "lost", !.cut = TRUE]]
  <2>1. PICK r : r = [Opened(talk[s]) EXCEPT !.pump = "lost", !.cut = TRUE]
    OBVIOUS
  <2>2. talk' = [talk EXCEPT ![s] = r] /\ "lost" \in {"on", "done", "lost"} /\ TRUE \in BOOLEAN
    BY <1>3, <2>1
  <2> QED
    BY <1>1, <2>1, <2>2, OpensCut
<1>4. ASSUME NEW n \in PieceSizes, NEW c, c \in BOOLEAN,
             talk' = [talk EXCEPT ![s] = [Opened(@) EXCEPT !.pump = "done", !.pieces = 1,
                                              !.got = n, !.raw = <<n>>, !.cut = c]]
      PROVE  TtsInv'
  <2>1. PICK w : w = <<n>>
    OBVIOUS
  <2>2. PICK r : r = [Opened(talk[s]) EXCEPT !.pump = "done", !.pieces = 1, !.got = n, !.raw = w, !.cut = c]
    OBVIOUS
  <2>3. talk' = [talk EXCEPT ![s] = r]
    BY <1>4, <2>1, <2>2
  <2>4. n \in Nat
    BY PiecesWeigh
  <2>5. OneAtMost(w, 1, n)
    BY <2>1 DEF OneAtMost
  <2>6. c \in BOOLEAN
    BY <1>4
  <2> QED
    BY <1>1, <2>2, <2>3, <2>4, <2>5, <2>6, OpensWhole
<1>5. ASSUME NEW what \in Gets(engine), what \notin {"failed", "silent"},
             NEW n \in PieceSizes,
             talk' = [talk EXCEPT ![s] = [Opened(@) EXCEPT !.pump = "done", !.pieces = 1,
                                              !.got = n, !.raw = <<n>>, !.cut = what = "part"]]
      PROVE  TtsInv'
  <2>1. PICK c : c = (what = "part")
    OBVIOUS
  <2>2. c \in BOOLEAN
    BY <2>1
  <2>3. talk' = [talk EXCEPT ![s] = [Opened(@) EXCEPT !.pump = "done", !.pieces = 1,
                                         !.got = n, !.raw = <<n>>, !.cut = c]]
    BY <1>5, <2>1
  <2> QED
    BY <1>4, <2>2, <2>3
<1> QED
  BY <1>2, <1>3, <1>5 DEF AsksWhole

-----------------------------------------------------------------------------
\* A stream, the bridge and the decoder

\* Only the parts of a text that are past its asking matter, once it is open.
LEMMA FitsWhenOpen ==
    ASSUME NEW r \in Talks, r.at \in {"open", "heard", "left"}, OpusFits(r), FramesFit(r)
    PROVE  TalkFits(r)
  BY DEF TalkFits, HasAttempt, Mismatched, NothingYet, Unopened

\* A text whose stream is on, or whose decoder runs, is open or was left.
LEMMA IsOpened ==
    ASSUME TtsInv, NEW s \in Speeches, talk[s].pump = "on" \/ talk[s].decoder # "off" \/ talk[s].raw # <<>>
    PROVE  talk[s].at \in {"open", "heard", "left"}
  BY TalkFacts, TalkFields DEF TalkFits, NothingYet, Unopened

\* A text takes a step beyond its asking.
LEMMA Proceeds ==
    ASSUME TtsInv, NEW s \in Speeches, NEW r \in Talks, talk' = [talk EXCEPT ![s] = r],
           UNCHANGED <<engine, format, granted, timbre, kept, changes>>,
           r.at \in {"open", "heard", "left"}, Len(r.raw) <= RawCap, OpusFits(r), FramesFit(r)
    PROVE  TtsInv'
<1>1. TalkFits(r)
  BY FitsWhenOpen
<1> QED
  BY <1>1, TalkFacts, TalkMoves

LEMMA PieceInv == ASSUME TtsInv, NEW s \in Speeches, Piece(s) PROVE TtsInv'
<1>1. /\ talk[s].pump = "on" /\ talk[s].pieces < MaxPieces
      /\ UNCHANGED <<engine, format, granted, timbre, kept, changes>>
  BY DEF Piece
<1>2. talk[s].at \in {"open", "heard", "left"}
  BY <1>1, IsOpened
<1>3. /\ talk[s].pieces \in Nat /\ talk[s].pieces + 1 \in 0 .. MaxPieces
      /\ talk[s].raw \in Seq(Nat) /\ talk[s].got \in Nat /\ Len(talk[s].raw) <= RawCap
      /\ talk[s].heard \in Nat /\ talk[s].rest \in Nat /\ talk[s].out \in Nat
  BY <1>1, TalkFacts, TalkFields, TtsNumbers
<1>4. OpusFits(talk[s]) /\ FramesFit(talk[s])
  BY TalkFacts DEF TalkFits
<1>5. CASE Received(talk[s])
  <2>1. PICK n \in Nat :
           talk' = [talk EXCEPT ![s].raw = Append(@, n), ![s].got = @ + n, ![s].pieces = @ + 1]
    BY <1>5, PiecesWeigh DEF Piece
  <2>2. Len(talk[s].raw) < RawCap
    BY <1>5 DEF Piece
  <2>3. PICK w, g, k : w = Append(talk[s].raw, n) /\ g = talk[s].got + n /\ k = talk[s].pieces + 1
    OBVIOUS
  <2>4. w \in Seq(Nat) /\ Len(w) = Len(talk[s].raw) + 1 /\ g \in Nat /\ k \in 0 .. MaxPieces
    BY <1>3, <2>3
  <2>5. PICK r : r = [talk[s] EXCEPT !.raw = w, !.got = g, !.pieces = k]
    OBVIOUS
  <2>6. /\ r \in Talks /\ r.raw = w /\ r.got = g /\ r.pieces = k /\ r.at = talk[s].at
        /\ r.pump = talk[s].pump /\ r.decoder = talk[s].decoder /\ r.pipe = talk[s].pipe
        /\ r.rest = talk[s].rest /\ r.out = talk[s].out /\ r.heard = talk[s].heard /\ r.cut = talk[s].cut
    <3>1. talk[s] \in Talks
      BY TalkFacts
    <3> QED
      BY <2>4, <2>5, <3>1 DEF Talks
  <2>7. talk' = [talk EXCEPT ![s] = r]
    BY <2>1, <2>3, <2>5, TalkFacts
  <2>8. Len(w) \in Nat /\ Len(w) <= RawCap
    <3>1. Len(talk[s].raw) \in Nat
      BY <1>3
    <3> QED
      BY <2>2, <2>4, <3>1, TtsNumbers
  <2>9. OpusFits(r)
    <3>1. ASSUME talk[s].at \in {"open", "heard"}, format = "opus"
          PROVE  talk[s].pieces + 1 = talk[s].heard + (Len(talk[s].raw) + 1)
      <4>1. Len(talk[s].raw) \in Nat /\ talk[s].pieces = talk[s].heard + Len(talk[s].raw)
        BY <1>3, <1>4, <3>1 DEF OpusFits
      <4> QED
        BY <1>3, <4>1
    <3> QED
      BY <1>1, <1>4, <2>3, <2>4, <2>6, <3>1 DEF OpusFits
  <2>10. UnderWay(talk[s]) => UnderWay(r)
    <3> SUFFICES ASSUME UnderWay(talk[s]) PROVE UnderWay(r)
      OBVIOUS
    <3>1. PICK a, b \in Int : /\ Weighs(talk[s].raw, a) /\ Weighs(talk[s].pipe, b)
                 /\ talk[s].got = a + b + talk[s].rest + FrameUnits * (talk[s].heard + talk[s].out)
      BY DEF UnderWay
    <3>2. a + n \in Int /\ Weighs(w, a + n)
      BY <1>3, <2>3, <3>1, AppendWeighs
    <3>3. PICK u : u = FrameUnits * (talk[s].heard + talk[s].out)
      OBVIOUS
    <3>4. u \in Int
      BY <1>3, <3>3, UnitsAreMany
    <3>5. g = (a + n) + b + talk[s].rest + u
      <4>1. talk[s].got = a + b + talk[s].rest + u
        BY <3>1, <3>3
      <4>2. g = talk[s].got + n
        BY <2>3
      <4> QED
        BY <1>3, <3>4, <4>1, <4>2
    <3> QED
      BY <2>6, <3>1, <3>2, <3>3, <3>5 DEF UnderWay
  <2>11. FramesFit(r)
    BY <1>1, <1>4, <2>6, <2>10 DEF FramesFit, AllFrames, Complete
  <2> QED
    BY <1>1, <1>2, <2>6, <2>7, <2>8, <2>9, <2>11, Proceeds
<1>6. CASE ~ Received(talk[s])
  <2>1. PICK k : k = talk[s].pieces + 1
    OBVIOUS
  <2>2. PICK r : r = [talk[s] EXCEPT !.pieces = k]
    OBVIOUS
  <2>3. /\ r \in Talks /\ r.raw = talk[s].raw /\ r.got = talk[s].got /\ r.pieces = k /\ r.at = talk[s].at
        /\ r.pump = talk[s].pump /\ r.decoder = talk[s].decoder /\ r.pipe = talk[s].pipe
        /\ r.rest = talk[s].rest /\ r.out = talk[s].out /\ r.heard = talk[s].heard /\ r.cut = talk[s].cut
    <3>1. talk[s] \in Talks /\ k \in 0 .. MaxPieces
      BY <1>3, <2>1, TalkFacts
    <3> QED
      BY <2>2, <3>1 DEF Talks
  <2>4. talk' = [talk EXCEPT ![s] = r]
    BY <1>6, <2>1, <2>2, TalkFacts DEF Piece
  <2>5. OpusFits(r)
    BY <1>1, <1>4, <1>6, <2>3 DEF OpusFits, Received
  <2>6. FramesFit(r)
    BY <1>1, <1>4, <1>6, <2>3 DEF FramesFit, AllFrames, Complete, Received
  <2> QED
    BY <1>1, <1>2, <1>3, <2>3, <2>4, <2>5, <2>6, Proceeds
<1> QED
  BY <1>5, <1>6

LEMMA StopsInv ==
    ASSUME TtsInv, NEW s \in Speeches, talk[s].pump = "on", NEW cut, cut \in BOOLEAN, Stops(s, cut),
           UNCHANGED <<engine, format, granted, timbre, kept, changes>>
    PROVE  TtsInv'
<1>1. PICK p, c : p = (IF cut THEN "lost" ELSE "done") /\ c = (talk[s].cut \/ cut)
  OBVIOUS
<1>2. p \in {"done", "lost"} /\ c \in BOOLEAN /\ (talk[s].cut => c)
  BY <1>1
<1>3. PICK r : r = [talk[s] EXCEPT !.pump = p, !.cut = c]
  OBVIOUS
<1>4. talk' = [talk EXCEPT ![s] = r]
  BY <1>1, <1>3, TalkFacts DEF Stops
<1>5. /\ r \in Talks /\ r.raw = talk[s].raw /\ r.got = talk[s].got /\ r.pieces = talk[s].pieces
      /\ r.at = talk[s].at /\ r.pump = p /\ r.decoder = talk[s].decoder /\ r.pipe = talk[s].pipe
      /\ r.rest = talk[s].rest /\ r.out = talk[s].out /\ r.heard = talk[s].heard /\ (talk[s].cut => r.cut)
  <2>1. talk[s] \in Talks
    BY TalkFacts
  <2> QED
    BY <1>2, <1>3, <2>1 DEF Talks
<1>6. OpusFits(talk[s]) /\ FramesFit(talk[s]) /\ Len(talk[s].raw) <= RawCap
  BY TalkFacts DEF TalkFits
<1>7. OpusFits(r)
  BY <1>5, <1>6 DEF OpusFits
<1>8. UnderWay(talk[s]) => UnderWay(r)
  BY <1>5 DEF UnderWay
<1>9. FramesFit(r)
  BY <1>2, <1>5, <1>6, <1>8 DEF FramesFit, AllFrames, Complete
<1> QED
  BY <1>4, <1>5, <1>6, <1>7, <1>9, IsOpened, Proceeds

LEMMA StreamEndsInv == ASSUME TtsInv, NEW s \in Speeches, StreamEnds(s) PROVE TtsInv'
<1>1. talk[s].pump = "on" /\ UNCHANGED <<engine, format, granted, timbre, kept, changes>>
  BY DEF StreamEnds
<1>2. ASSUME NEW cut, cut \in BOOLEAN, Stops(s, cut) PROVE TtsInv'
  BY <1>1, <1>2, StopsInv
<1>3. ASSUME NEW how, NEW C, Stops(s, how \in C) PROVE TtsInv'
  <2>1. (how \in C) \in BOOLEAN
    OBVIOUS
  <2> QED
    BY <1>2, <1>3, <2>1
<1>4. CASE DoubaoEnds(s)
  BY <1>3, <1>4 DEF DoubaoEnds
<1>5. CASE XiaozhiEnds(s)
  BY <1>2, <1>5 DEF XiaozhiEnds
<1>6. CASE QwenSseEnds(s)
  BY <1>3, <1>6 DEF QwenSseEnds
<1> QED
  BY <1>4, <1>5, <1>6 DEF StreamEnds

LEMMA BridgesInv == ASSUME TtsInv, NEW s \in Speeches, Bridges(s) PROVE TtsInv'
<1>1. /\ talk[s].decoder # "off" /\ talk[s].raw # <<>>
      /\ UNCHANGED <<engine, format, granted, timbre, kept, changes>>
  BY DEF Bridges
<1>2. talk[s].at \in {"open", "heard", "left"} /\ talk[s].raw \in Seq(Nat) /\ talk[s].pipe \in Seq(Nat)
  BY <1>1, IsOpened, TalkFacts, TalkFields
<1>3. PICK w, h, v : /\ w = Tail(talk[s].raw) /\ h = Head(talk[s].raw)
                     /\ v = IF talk[s].decoder = "on" THEN Append(talk[s].pipe, h) ELSE talk[s].pipe
  OBVIOUS
<1>4. w \in Seq(Nat) /\ h \in Nat /\ Len(w) = Len(talk[s].raw) - 1 /\ Len(talk[s].raw) \in Nat
  BY <1>1, <1>2, <1>3
<1>5. v \in Seq(Nat)
  BY <1>2, <1>3, <1>4
<1>6. PICK r : r = [talk[s] EXCEPT !.raw = w, !.pipe = v]
  OBVIOUS
<1>7. talk' = [talk EXCEPT ![s] = r]
  BY <1>3, <1>6, TalkFacts DEF Bridges
<1>8. /\ r \in Talks /\ r.raw = w /\ r.got = talk[s].got /\ r.pieces = talk[s].pieces
      /\ r.at = talk[s].at /\ r.pump = talk[s].pump /\ r.decoder = talk[s].decoder /\ r.pipe = v
      /\ r.rest = talk[s].rest /\ r.out = talk[s].out /\ r.heard = talk[s].heard /\ r.cut = talk[s].cut
  <2>1. talk[s] \in Talks
    BY TalkFacts
  <2> QED
    BY <1>4, <1>5, <1>6, <2>1 DEF Talks
<1>9. OpusFits(talk[s]) /\ FramesFit(talk[s]) /\ Len(talk[s].raw) <= RawCap
  BY TalkFacts DEF TalkFits
<1>10. OpusFits(r)
  BY <1>1, <1>8, <1>9 DEF OpusFits
<1>11. ASSUME UnderWay(talk[s]), talk[s].decoder = "on" PROVE UnderWay(r)
  <2>1. PICK a, b \in Int : /\ Weighs(talk[s].raw, a) /\ Weighs(talk[s].pipe, b)
               /\ talk[s].got = a + b + talk[s].rest + FrameUnits * (talk[s].heard + talk[s].out)
    BY <1>11 DEF UnderWay
  <2>2. a - h \in Int /\ Weighs(w, a - h)
    BY <1>1, <1>2, <1>3, <1>4, <2>1, TailWeighs
  <2>3. b + h \in Int /\ Weighs(v, b + h)
    <3>1. v = Append(talk[s].pipe, h)
      BY <1>3, <1>11
    <3>2. Weighs(Append(talk[s].pipe, h), b + h)
      BY <1>2, <1>4, <2>1, AppendWeighs
    <3> QED
      BY <1>4, <3>1, <3>2
  <2>4. (a - h) + (b + h) = a + b
    BY <1>4
  <2> QED
    BY <1>8, <2>1, <2>2, <2>3, <2>4 DEF UnderWay
<1>12. FramesFit(r)
  BY <1>1, <1>8, <1>9, <1>11 DEF FramesFit, AllFrames, Complete
<1>13. Len(r.raw) <= RawCap
  BY <1>4, <1>8, <1>9, TtsNumbers
<1> QED
  BY <1>1, <1>2, <1>7, <1>8, <1>10, <1>12, <1>13, Proceeds

LEMMA TakesPieceInv == ASSUME TtsInv, NEW s \in Speeches, TakesPiece(s) PROVE TtsInv'
<1>1. /\ talk[s].decoder = "on" /\ talk[s].pipe # <<>>
      /\ UNCHANGED <<engine, format, granted, timbre, kept, changes>>
      /\ talk' = [talk EXCEPT ![s].pipe = Tail(@), ![s].rest = @ + Head(talk[s].pipe)]
  BY DEF TakesPiece
<1>2. talk[s].at \in {"open", "heard", "left"} /\ talk[s].pipe \in Seq(Nat) /\ talk[s].rest \in Nat
  BY <1>1, IsOpened, TalkFacts, TalkFields
<1>3. PICK w, h, v : w = Tail(talk[s].pipe) /\ h = Head(talk[s].pipe) /\ v = talk[s].rest + h
  OBVIOUS
<1>4. w \in Seq(Nat) /\ h \in Nat
  BY <1>1, <1>2, <1>3
<1>5. v \in Nat
  BY <1>2, <1>3, <1>4
<1>6. PICK r : r = [talk[s] EXCEPT !.pipe = w, !.rest = v]
  OBVIOUS
<1>7. talk' = [talk EXCEPT ![s] = r]
  BY <1>1, <1>3, <1>6, TalkFacts
<1>8. /\ r \in Talks /\ r.raw = talk[s].raw /\ r.got = talk[s].got /\ r.pieces = talk[s].pieces
      /\ r.at = talk[s].at /\ r.pump = talk[s].pump /\ r.decoder = talk[s].decoder /\ r.pipe = w
      /\ r.rest = v /\ r.out = talk[s].out /\ r.heard = talk[s].heard /\ r.cut = talk[s].cut
  <2>1. talk[s] \in Talks
    BY TalkFacts
  <2> QED
    BY <1>4, <1>5, <1>6, <2>1 DEF Talks
<1>9. OpusFits(talk[s]) /\ FramesFit(talk[s]) /\ Len(talk[s].raw) <= RawCap
  BY TalkFacts DEF TalkFits
<1>10. OpusFits(r)
  BY <1>1, <1>8, <1>9 DEF OpusFits
<1>11. ASSUME UnderWay(talk[s]) PROVE UnderWay(r)
  <2>1. PICK a, b \in Int : /\ Weighs(talk[s].raw, a) /\ Weighs(talk[s].pipe, b)
               /\ talk[s].got = a + b + talk[s].rest + FrameUnits * (talk[s].heard + talk[s].out)
    BY <1>11 DEF UnderWay
  <2>2. b - h \in Int /\ Weighs(w, b - h)
    BY <1>1, <1>2, <1>3, <1>4, <2>1, TailWeighs
  <2>3. a + (b - h) + v = a + b + talk[s].rest
    <3>1. v = talk[s].rest + h
      BY <1>3
    <3> QED
      BY <1>2, <1>4, <3>1
  <2> QED
    BY <1>8, <2>1, <2>2, <2>3 DEF UnderWay
<1>12. FramesFit(r)
  BY <1>1, <1>8, <1>9, <1>11 DEF FramesFit, AllFrames, Complete
<1> QED
  BY <1>1, <1>2, <1>7, <1>8, <1>9, <1>10, <1>12, Proceeds

\* The decoder reads while its text is open, or after it was left.
LEMMA DecoderRuns ==
    ASSUME TtsInv, NEW s \in Speeches, talk[s].decoder = "on", talk[s].at # "left"
    PROVE  talk[s].at = "open" /\ format # "opus" /\ (UnderWay(talk[s]) \/ AllFrames(talk[s]))
<1>1. talk[s].at \in {"open", "heard"} /\ OpusFits(talk[s]) /\ FramesFit(talk[s])
  BY IsOpened, TalkFacts DEF TalkFits
<1> QED
  BY <1>1 DEF OpusFits, FramesFit

\* What is complete is whole frames and the rest the decoder holds.
LEMMA CompleteIsCounted ==
    ASSUME NEW r \in Talks, UnderWay(r), Complete(r)
    PROVE  r.got = r.rest + FrameUnits * (r.heard + r.out)
<1>1. PICK a, b \in Int : /\ Weighs(r.raw, a) /\ Weighs(r.pipe, b)
                          /\ r.got = a + b + r.rest + FrameUnits * (r.heard + r.out)
  BY DEF UnderWay
<1>2. a = 0 /\ b = 0
  BY <1>1, NothingWeighs DEF Complete
<1>3. PICK u : u = FrameUnits * (r.heard + r.out)
  OBVIOUS
<1>4. u \in Int /\ r.rest \in Int
  BY <1>3, TalkFields, UnitsAreMany
<1>5. r.got = a + b + r.rest + u
  BY <1>1, <1>3
<1>6. r.got = r.rest + u
  BY <1>2, <1>4, <1>5
<1> QED
  BY <1>3, <1>6

LEMMA NotReady ==
    ASSUME NEW r \in Talks, Complete(r), ~ FrameReady(r)
    PROVE  r.rest \in Nat /\ r.rest < FrameUnits
  BY TalkFields, UnitsAreMany DEF FrameReady

LEMMA HandsOutInv ==
    ASSUME TtsInv, NEW s \in Speeches, talk[s].decoder = "on", talk[s].at # "left",
           NEW v \in Nat, talk[s].out < OutCap,
           talk' = [talk EXCEPT ![s].out = @ + 1, ![s].rest = v],
           UNCHANGED <<engine, format, granted, timbre, kept, changes>>,
           \/ talk[s].rest >= FrameUnits /\ v = talk[s].rest - FrameUnits
           \/ Complete(talk[s]) /\ ~ FrameReady(talk[s]) /\ Padded(talk[s]) /\ v = 0
    PROVE  TtsInv'
<1>1. talk[s].at = "open" /\ format # "opus" /\ (UnderWay(talk[s]) \/ AllFrames(talk[s]))
  BY DecoderRuns
<1>2. /\ talk[s].out \in Nat /\ talk[s].heard \in Nat /\ talk[s].rest \in Nat /\ talk[s] \in Talks
      /\ Len(talk[s].raw) <= RawCap
  BY TalkFacts, TalkFields
<1>3. PICK m : m = talk[s].out + 1
  OBVIOUS
<1>4. m \in 0 .. OutCap /\ talk[s].heard + m = (talk[s].heard + talk[s].out) + 1
  <2>1. PICK o, h : o = talk[s].out /\ h = talk[s].heard
    OBVIOUS
  <2>2. o \in Nat /\ h \in Nat /\ o < OutCap /\ m = o + 1
    BY <1>2, <1>3, <2>1
  <2>3. m \in 0 .. OutCap /\ h + m = (h + o) + 1
    BY <2>2, TtsNumbers
  <2> QED
    BY <2>1, <2>3
<1>5. PICK r : r = [talk[s] EXCEPT !.out = m, !.rest = v]
  OBVIOUS
<1>6. talk' = [talk EXCEPT ![s] = r]
  BY <1>3, <1>5, TalkFacts
<1>7. /\ r \in Talks /\ r.raw = talk[s].raw /\ r.got = talk[s].got /\ r.pieces = talk[s].pieces
      /\ r.at = talk[s].at /\ r.pump = talk[s].pump /\ r.decoder = talk[s].decoder
      /\ r.pipe = talk[s].pipe /\ r.rest = v /\ r.out = m /\ r.heard = talk[s].heard
      /\ r.cut = talk[s].cut
  BY <1>2, <1>4, <1>5 DEF Talks
<1>8. UnderWay(talk[s])
  <2>1. ~ AllFrames(talk[s])
    BY <1>2, UnitsAreMany DEF AllFrames, Padded
  <2> QED
    BY <1>1, <2>1
<1>9. PICK k \in Nat : k = talk[s].heard + talk[s].out
  BY <1>2
<1>10. FrameUnits * (k + 1) = FrameUnits * k + FrameUnits /\ FrameUnits * k \in Nat
  BY <1>9, UnitsAreMany, OneTimesMore
<1>11. r.heard + r.out = k + 1
  BY <1>4, <1>7, <1>9
<1>12. ASSUME talk[s].rest >= FrameUnits /\ v = talk[s].rest - FrameUnits PROVE UnderWay(r)
  <2>1. PICK a, b \in Int : /\ Weighs(talk[s].raw, a) /\ Weighs(talk[s].pipe, b)
               /\ talk[s].got = a + b + talk[s].rest + FrameUnits * (talk[s].heard + talk[s].out)
    BY <1>8 DEF UnderWay
  <2>2. PICK u, t : u = FrameUnits * k /\ t = FrameUnits * (k + 1)
    OBVIOUS
  <2>3. talk[s].got = a + b + talk[s].rest + u /\ u \in Nat /\ t = u + FrameUnits
    BY <1>9, <1>10, <2>1, <2>2
  <2>4. talk[s].got = a + b + v + t
    BY <1>2, <1>12, <2>3, UnitsAreMany
  <2>5. r.got = a + b + r.rest + FrameUnits * (r.heard + r.out)
    BY <1>7, <1>11, <2>2, <2>4
  <2> QED
    BY <1>7, <2>1, <2>5 DEF UnderWay
<1>13. ASSUME Complete(talk[s]) /\ ~ FrameReady(talk[s]) /\ Padded(talk[s]) /\ v = 0 PROVE AllFrames(r)
  <2>1. talk[s].got = talk[s].rest + FrameUnits * k
    BY <1>2, <1>8, <1>9, <1>13, CompleteIsCounted
  <2>2. talk[s].rest < FrameUnits
    BY <1>2, <1>13, NotReady
  <2>3. FramesOf(talk[s].got) = k + 1
    BY <1>2, <1>13, <2>1, <2>2, FramesAreWhole DEF Padded
  <2> QED
    BY <1>7, <1>11, <1>13, <2>3 DEF AllFrames, Complete
<1>14. FramesFit(r) /\ OpusFits(r)
  <2>1. UnderWay(r) \/ AllFrames(r)
    BY <1>12, <1>13
  <2> QED
    BY <1>1, <1>7, <2>1 DEF FramesFit, OpusFits
<1> QED
  BY <1>1, <1>2, <1>6, <1>7, <1>14, Proceeds

LEMMA GivesUpInv ==
    ASSUME TtsInv, NEW s \in Speeches, talk[s].at = "left",
           talk' = [talk EXCEPT ![s].decoder = "broken", ![s].pipe = <<>>],
           UNCHANGED <<engine, format, granted, timbre, kept, changes>>
    PROVE  TtsInv'
<1>1. PICK r : r = [talk[s] EXCEPT !.decoder = "broken", !.pipe = <<>>]
  OBVIOUS
<1>2. r \in Talks /\ r.at = "left" /\ r.raw = talk[s].raw
  <2>1. talk[s] \in Talks /\ <<>> \in Seq(Nat)
    BY TalkFacts
  <2> QED
    BY <1>1, <2>1 DEF Talks
<1>3. talk' = [talk EXCEPT ![s] = r]
  BY <1>1, TalkFacts
<1>4. OpusFits(r) /\ FramesFit(r)
  BY <1>2 DEF OpusFits, FramesFit
<1> QED
  BY <1>2, <1>3, <1>4, TalkFacts, Proceeds

LEMMA EmitsFrameInv == ASSUME TtsInv, NEW s \in Speeches, EmitsFrame(s) PROVE TtsInv'
<1>1. /\ talk[s].decoder = "on" /\ talk[s].rest >= FrameUnits /\ Emits(s, talk[s].rest - FrameUnits)
      /\ UNCHANGED <<engine, format, granted, timbre, kept, changes>>
  BY DEF EmitsFrame, FrameReady
<1>2. talk[s].rest - FrameUnits \in Nat
  BY <1>1, TalkFacts, TalkFields, UnitsAreMany
<1>3. PICK v : v = talk[s].rest - FrameUnits
  OBVIOUS
<1>4. Emits(s, v) /\ v \in Nat
  BY <1>1, <1>2, <1>3
<1>5. CASE talk[s].at = "left"
  BY <1>1, <1>4, <1>5, GivesUpInv DEF Emits
<1>6. CASE talk[s].at # "left"
  <2>1. talk[s].out < OutCap /\ talk' = [talk EXCEPT ![s].out = @ + 1, ![s].rest = v]
    BY <1>4, <1>6 DEF Emits
  <2> QED
    BY <1>1, <1>3, <1>4, <1>6, <2>1, HandsOutInv
<1> QED
  BY <1>5, <1>6

LEMMA EmitsTailInv == ASSUME TtsInv, NEW s \in Speeches, EmitsTail(s) PROVE TtsInv'
<1>1. /\ talk[s].decoder = "on" /\ Complete(talk[s]) /\ ~ FrameReady(talk[s]) /\ Padded(talk[s])
      /\ Emits(s, 0) /\ UNCHANGED <<engine, format, granted, timbre, kept, changes>>
  BY DEF EmitsTail
<1>2. CASE talk[s].at = "left"
  BY <1>1, <1>2, GivesUpInv DEF Emits
<1>3. CASE talk[s].at # "left"
  <2>1. talk[s].out < OutCap /\ talk' = [talk EXCEPT ![s].out = @ + 1, ![s].rest = 0]
    BY <1>1, <1>3 DEF Emits
  <2> QED
    BY <1>1, <1>3, <2>1, HandsOutInv
<1> QED
  BY <1>2, <1>3

LEMMA DecoderEndsInv == ASSUME TtsInv, NEW s \in Speeches, DecoderEnds(s) PROVE TtsInv'
<1>1. /\ talk[s].decoder = "on" /\ Complete(talk[s]) /\ ~ FrameReady(talk[s]) /\ ~ Padded(talk[s])
      /\ talk' = [talk EXCEPT ![s].decoder = "done", ![s].rest = 0]
      /\ UNCHANGED <<engine, format, granted, timbre, kept, changes>>
  BY DEF DecoderEnds
<1>2. /\ talk[s].at \in {"open", "heard", "left"} /\ talk[s] \in Talks /\ Len(talk[s].raw) <= RawCap
      /\ talk[s].out \in Nat /\ talk[s].heard \in Nat
  BY <1>1, IsOpened, TalkFacts, TalkFields
<1>3. PICK r : r = [talk[s] EXCEPT !.decoder = "done", !.rest = 0]
  OBVIOUS
<1>4. talk' = [talk EXCEPT ![s] = r]
  BY <1>1, <1>3, TalkFacts
<1>5. /\ r \in Talks /\ r.raw = talk[s].raw /\ r.got = talk[s].got /\ r.pieces = talk[s].pieces
      /\ r.at = talk[s].at /\ r.pump = talk[s].pump /\ r.decoder = "done"
      /\ r.pipe = talk[s].pipe /\ r.rest = 0 /\ r.out = talk[s].out /\ r.heard = talk[s].heard
      /\ r.cut = talk[s].cut
  BY <1>2, <1>3 DEF Talks
<1>6. CASE talk[s].at = "left"
  BY <1>1, <1>2, <1>4, <1>5, <1>6, Proceeds DEF OpusFits, FramesFit
<1>7. CASE talk[s].at # "left"
  <2>1. talk[s].at = "open" /\ format # "opus" /\ (UnderWay(talk[s]) \/ AllFrames(talk[s]))
    BY <1>1, <1>7, DecoderRuns
  <2>2. ASSUME UnderWay(talk[s]) PROVE AllFrames(r)
    <3>1. PICK k \in Nat : k = talk[s].heard + talk[s].out
      BY <1>2
    <3>2. talk[s].got = talk[s].rest + FrameUnits * k
      BY <1>1, <1>2, <2>2, <3>1, CompleteIsCounted
    <3>3. talk[s].rest \in Nat /\ talk[s].rest < FrameUnits
      BY <1>1, <1>2, NotReady
    <3>4. FramesOf(talk[s].got) = k
      BY <1>1, <3>2, <3>3, FramesAreWhole DEF Padded
    <3> QED
      BY <1>1, <1>5, <3>1, <3>4 DEF AllFrames, Complete
  <2>3. AllFrames(r)
    BY <1>5, <2>1, <2>2 DEF AllFrames, Complete
  <2>4. FramesFit(r) /\ OpusFits(r)
    BY <1>5, <2>1, <2>3 DEF FramesFit, OpusFits
  <2> QED
    BY <1>1, <1>2, <1>4, <1>5, <2>4, Proceeds
<1> QED
  BY <1>6, <1>7

LEMMA DecoderBreaksInv == ASSUME TtsInv, NEW s \in Speeches, DecoderBreaks(s) PROVE TtsInv'
<1>1. /\ talk[s].decoder = "on" /\ UNCHANGED <<engine, format, granted, timbre, kept, changes>>
      /\ talk' = [talk EXCEPT ![s].decoder = "broken", ![s].pipe = <<>>, ![s].rest = 0, ![s].cut = TRUE]
  BY DEF DecoderBreaks
<1>2. /\ talk[s].at \in {"open", "heard", "left"} /\ talk[s] \in Talks /\ Len(talk[s].raw) <= RawCap
  BY <1>1, IsOpened, TalkFacts
<1>3. PICK r : r = [talk[s] EXCEPT !.decoder = "broken", !.pipe = <<>>, !.rest = 0, !.cut = TRUE]
  OBVIOUS
<1>4. talk' = [talk EXCEPT ![s] = r]
  BY <1>1, <1>3, TalkFacts
<1>5. /\ r \in Talks /\ r.raw = talk[s].raw /\ r.at = talk[s].at /\ r.decoder = "broken" /\ r.cut
  <2>1. <<>> \in Seq(Nat)
    OBVIOUS
  <2> QED
    BY <1>2, <1>3, <2>1 DEF Talks
<1>6. FramesFit(r) /\ OpusFits(r)
  <2>1. talk[s].at = "left" \/ (talk[s].at = "open" /\ format # "opus")
    BY <1>1, DecoderRuns
  <2> QED
    BY <1>5, <2>1 DEF FramesFit, OpusFits
<1> QED
  BY <1>1, <1>2, <1>4, <1>5, <1>6, Proceeds

LEMMA HearsFrameInv == ASSUME TtsInv, NEW s \in Speeches, HearsFrame(s) PROVE TtsInv'
<1>1. talk[s].at = "open" /\ UNCHANGED <<engine, format, granted, timbre, kept, changes>>
  BY DEF HearsFrame
<1>2. /\ talk[s] \in Talks /\ Len(talk[s].raw) <= RawCap /\ talk[s].raw \in Seq(Nat)
      /\ talk[s].heard \in Nat /\ talk[s].out \in 0 .. OutCap /\ talk[s].pieces \in Nat
      /\ OpusFits(talk[s]) /\ FramesFit(talk[s])
  BY TalkFacts, TalkFields DEF TalkFits
<1>3. PICK h, k : h = talk[s].heard /\ k = h + 1
  OBVIOUS
<1>4. h \in Nat /\ k \in Nat /\ k = h + 1
  BY <1>2, <1>3
<1>5. CASE format = "opus"
  <2>1. PICK w, n : w = Tail(talk[s].raw) /\ n = Len(talk[s].raw)
    OBVIOUS
  <2>2. talk[s].raw # <<>> /\ talk' = [talk EXCEPT ![s].raw = Tail(@), ![s].heard = @ + 1]
    BY <1>5 DEF HearsFrame
  <2>3. w \in Seq(Nat) /\ Len(w) = n - 1 /\ n \in Nat
    BY <1>2, <2>1, <2>2
  <2>4. PICK r : r = [talk[s] EXCEPT !.raw = w, !.heard = k]
    OBVIOUS
  <2>5. talk' = [talk EXCEPT ![s] = r]
    BY <1>3, <2>1, <2>2, <2>4, TalkFacts
  <2>6. /\ r \in Talks /\ r.raw = w /\ r.at = "open" /\ r.heard = k /\ r.decoder = talk[s].decoder
        /\ r.pieces = talk[s].pieces /\ r.out = talk[s].out
    BY <1>1, <1>2, <1>4, <2>3, <2>4 DEF Talks
  <2>7. talk[s].pieces = h + n /\ talk[s].decoder = "off" /\ talk[s].out = 0
    BY <1>1, <1>2, <1>3, <1>5, <2>1 DEF OpusFits
  <2>8. talk[s].pieces = k + (n - 1) /\ n - 1 <= RawCap
    <3>1. n <= RawCap
      BY <1>2, <2>1
    <3>2. h + n = k + (n - 1)
      BY <1>4, <2>3
    <3> QED
      BY <2>3, <2>7, <3>1, <3>2, TtsNumbers
  <2>9. OpusFits(r) /\ FramesFit(r)
    BY <1>5, <2>3, <2>6, <2>7, <2>8 DEF OpusFits, FramesFit
  <2> QED
    BY <1>1, <2>3, <2>5, <2>6, <2>8, <2>9, Proceeds
<1>6. CASE format # "opus"
  <2>1. PICK o, m : o = talk[s].out /\ m = o - 1
    OBVIOUS
  <2>2. talk[s].out > 0 /\ talk' = [talk EXCEPT ![s].out = @ - 1, ![s].heard = @ + 1]
    BY <1>6 DEF HearsFrame
  <2>3. o \in Nat /\ m \in 0 .. OutCap /\ k + m = h + o
    <3>1. o \in Nat /\ o <= OutCap /\ o > 0 /\ m = o - 1
      BY <1>2, <2>1, <2>2, TtsNumbers
    <3> QED
      BY <1>4, <3>1, TtsNumbers
  <2>4. PICK r : r = [talk[s] EXCEPT !.out = m, !.heard = k]
    OBVIOUS
  <2>5. talk' = [talk EXCEPT ![s] = r]
    BY <1>3, <2>1, <2>2, <2>4, TalkFacts
  <2>6. /\ r \in Talks /\ r.raw = talk[s].raw /\ r.got = talk[s].got /\ r.pieces = talk[s].pieces
        /\ r.at = "open" /\ r.pump = talk[s].pump /\ r.decoder = talk[s].decoder
        /\ r.pipe = talk[s].pipe /\ r.rest = talk[s].rest /\ r.out = m /\ r.heard = k
        /\ r.cut = talk[s].cut
    BY <1>1, <1>2, <1>4, <2>3, <2>4 DEF Talks
  <2>7. r.heard + r.out = talk[s].heard + talk[s].out
    BY <1>3, <2>1, <2>3, <2>6
  <2>8. (UnderWay(talk[s]) => UnderWay(r)) /\ (AllFrames(talk[s]) => AllFrames(r))
    BY <2>6, <2>7 DEF UnderWay, AllFrames, Complete
  <2>9. OpusFits(r) /\ FramesFit(r)
    BY <1>1, <1>2, <1>6, <2>6, <2>8 DEF OpusFits, FramesFit
  <2> QED
    BY <1>1, <1>2, <2>5, <2>6, <2>9, Proceeds
<1> QED
  BY <1>5, <1>6

LEMMA HearsEndInv == ASSUME TtsInv, NEW s \in Speeches, HearsEnd(s) PROVE TtsInv'
<1>1. /\ talk[s].at = "open" /\ talk[s].out = 0 /\ UNCHANGED <<engine, format, granted, timbre, kept, changes>>
      /\ talk' = [talk EXCEPT ![s].at = "heard"]
      /\ format = "opus" => talk[s].pump # "on" /\ talk[s].raw = <<>>
      /\ format # "opus" => talk[s].decoder \in {"done", "broken"}
  BY DEF HearsEnd
<1>2. /\ talk[s] \in Talks /\ Len(talk[s].raw) <= RawCap /\ OpusFits(talk[s]) /\ FramesFit(talk[s])
  BY TalkFacts DEF TalkFits
<1>3. PICK r : r = [talk[s] EXCEPT !.at = "heard"]
  OBVIOUS
<1>4. talk' = [talk EXCEPT ![s] = r]
  BY <1>1, <1>3, TalkFacts
<1>5. /\ r \in Talks /\ r.raw = talk[s].raw /\ r.got = talk[s].got /\ r.pieces = talk[s].pieces
      /\ r.at = "heard" /\ r.pump = talk[s].pump /\ r.decoder = talk[s].decoder
      /\ r.pipe = talk[s].pipe /\ r.rest = talk[s].rest /\ r.out = talk[s].out
      /\ r.heard = talk[s].heard /\ r.cut = talk[s].cut
  BY <1>2, <1>3 DEF Talks
<1>6. OpusFits(r)
  BY <1>1, <1>2, <1>5 DEF OpusFits
<1>7. FramesFit(r)
  BY <1>1, <1>2, <1>5 DEF FramesFit, AllFrames, Complete
<1> QED
  BY <1>1, <1>2, <1>4, <1>5, <1>6, <1>7, Proceeds

LEMMA LeavesSpeechInv == ASSUME TtsInv, NEW s \in Speeches, LeavesSpeech(s) PROVE TtsInv'
<1>1. PICK w : w = IF format = "opus" THEN <<>> ELSE talk[s].raw
  OBVIOUS
<1>2. /\ talk' = [talk EXCEPT ![s].at = "left", ![s].out = 0, ![s].raw = w]
      /\ UNCHANGED <<engine, format, granted, timbre, kept, changes>>
  BY <1>1, TalkFacts DEF LeavesSpeech
<1>3. talk[s] \in Talks /\ Len(talk[s].raw) <= RawCap /\ talk[s].raw \in Seq(Nat)
  BY TalkFacts, TalkFields
<1>4. w \in Seq(Nat) /\ Len(w) <= RawCap
  <2>1. <<>> \in Seq(Nat) /\ Len(<<>>) = 0
    OBVIOUS
  <2> QED
    BY <1>1, <1>3, <2>1, TtsNumbers
<1>5. PICK r : r = [talk[s] EXCEPT !.at = "left", !.out = 0, !.raw = w]
  OBVIOUS
<1>6. talk' = [talk EXCEPT ![s] = r]
  BY <1>2, <1>5, TalkFacts
<1>7. r \in Talks /\ r.at = "left" /\ r.raw = w
  <2>1. 0 \in 0 .. OutCap
    BY TtsNumbers
  <2> QED
    BY <1>3, <1>4, <1>5, <2>1 DEF Talks
<1>8. OpusFits(r) /\ FramesFit(r)
  BY <1>7 DEF OpusFits, FramesFit
<1> QED
  BY <1>2, <1>4, <1>6, <1>7, <1>8, Proceeds

-----------------------------------------------------------------------------
\* What holds

LEMMA TtsBegins == TtsStreamInit => TtsInv
<1> SUFFICES ASSUME TtsStreamInit PROVE TtsInv
  OBVIOUS
<1>1. /\ Silent.at = "idle" /\ Silent.pump = "none" /\ Silent.decoder = "off" /\ Silent.raw = <<>>
      /\ Silent.pipe = <<>> /\ Silent.cut = FALSE /\ Silent.pieces = 0 /\ Silent.got = 0
      /\ Silent.rest = 0 /\ Silent.out = 0 /\ Silent.heard = 0
  BY DEF Silent
<1>2. Silent \in Talks
  <2>1. /\ <<>> \in Seq(Attempt) /\ <<>> \in Seq(Nat) /\ 0 \in 0 .. MaxPieces /\ 0 \in 0 .. OutCap
        /\ NoModel \in Timbres \cup {NoModel}
    BY TtsNumbers
  <2> QED
    BY <2>1 DEF Silent, Talks
<1>3. talk \in [Speeches -> Talks] /\ \A s \in Speeches : talk[s] = Silent
  BY <1>2 DEF TtsStreamInit
<1>4. Len(<<>>) = 0
  OBVIOUS
<1>5. TtsTypes
  <2>1. timbre \in Timbres /\ kept \in Attempt \cup {NoModel} /\ changes \in 0 .. MaxVoices
    BY TtsNumbers DEF TtsStreamInit, Timbres
  <2>2. \A s \in Speeches : Len(talk[s].raw) <= RawCap
    BY <1>1, <1>3, <1>4, TtsNumbers
  <2> QED
    BY <1>3, <2>1, <2>2 DEF TtsTypes, TtsStreamInit
<1>6. TalkFits(Silent)
  BY <1>1 DEF TalkFits, HasAttempt, Mismatched, NothingYet, OpusFits, FramesFit
<1>7. GrantsOne
  BY DEF GrantsOne, TtsStreamInit
<1> QED
  BY <1>3, <1>5, <1>6, <1>7 DEF TtsInv

LEMMA TtsKeeps == TtsInv /\ [TtsStreamNext]_ttsStreamVars => TtsInv'
<1> SUFFICES ASSUME TtsInv, [TtsStreamNext]_ttsStreamVars PROVE TtsInv'
  OBVIOUS
<1>1. CASE UNCHANGED ttsStreamVars
  <2>1. UNCHANGED <<engine, format, granted, timbre, kept, talk, changes>>
    BY <1>1 DEF ttsStreamVars
  <2>2. TtsTypes' /\ GrantsOne'
    BY <2>1 DEF TtsInv, TtsTypes, GrantsOne
  <2>3. ASSUME NEW s \in Speeches PROVE TalkFits(talk[s])'
    BY <2>1, TalkFacts DEF TalkFits, HasAttempt, Mismatched, NothingYet, OpusFits, FramesFit, UnderWay,
         AllFrames, FrameUnits, Bytes, FramesOf
  <2> QED
    BY <2>2, <2>3 DEF TtsInv
<1>2. CASE AppliesVoice
  BY <1>2, AppliesVoiceInv
<1>3. CASE TtsStreamNext /\ ~ AppliesVoice
  <2>1. PICK s \in Speeches :
           \/ SpeaksNothing(s) \/ AsksDoubao(s) \/ Mismatches(s) \/ Troubled(s) \/ FirstSpeech(s)
           \/ OpensStream(s) \/ AsksWhole(s) \/ Piece(s) \/ StreamEnds(s)
           \/ Bridges(s) \/ TakesPiece(s) \/ EmitsFrame(s) \/ EmitsTail(s)
           \/ DecoderEnds(s) \/ DecoderBreaks(s)
           \/ HearsFrame(s) \/ HearsEnd(s) \/ LeavesSpeech(s)
    BY <1>3 DEF TtsStreamNext
  <2> QED
    BY <2>1, SpeaksNothingInv, AsksDoubaoInv, MismatchesInv, TroubledInv, FirstSpeechInv,
       OpensStreamInv, AsksWholeInv, PieceInv, StreamEndsInv, BridgesInv, TakesPieceInv,
       EmitsFrameInv, EmitsTailInv, DecoderEndsInv, DecoderBreaksInv, HearsFrameInv, HearsEndInv,
       LeavesSpeechInv
<1> QED
  BY <1>1, <1>2, <1>3

\* The texts of a synthesizer: what was got of each, and where it is.
THEOREM TtsInvariant == TtsStreamSpec => []TtsInv
BY TtsBegins, TtsKeeps, PTL DEF TtsStreamSpec

LEMMA SpeechFollows == TtsInv => SpeechIsWhole
<1> SUFFICES ASSUME TtsInv, NEW s \in Speeches
             PROVE  /\ talk[s].at = "heard" /\ ~ talk[s].cut =>
                          talk[s].heard = IF format = "opus" THEN talk[s].pieces ELSE FramesOf(talk[s].got)
                    /\ talk[s].at = "failed" /\ talk[s].why = "mismatch" =>
                          Resolved(talk[s].set.family, talk[s].set.model).resource \in {"icl10", "icl20"}
  BY DEF SpeechIsWhole, AllIsHeard, FallsBack
<1>1. TalkFits(talk[s]) /\ talk[s].heard \in Nat /\ talk[s].decoder \in {"off", "on", "done", "broken"}
  BY TalkFacts, TalkFields
<1>2. Len(<<>>) = 0
  OBVIOUS
<1>3. talk[s].at = "heard" /\ format = "opus" => talk[s].heard = talk[s].pieces
  BY <1>1, <1>2 DEF TalkFits, OpusFits
<1>4. talk[s].at = "heard" /\ ~ talk[s].cut /\ format # "opus" => talk[s].heard = FramesOf(talk[s].got)
  BY <1>1 DEF TalkFits, FramesFit, AllFrames
<1> QED
  BY <1>1, <1>3, <1>4 DEF TalkFits, Mismatched, PublicAsk

LEMMA TtsTypesHold == TtsInv => TtsStreamTypeOK
<1> SUFFICES ASSUME TtsInv PROVE TtsStreamTypeOK
  OBVIOUS
<1>1. ASSUME NEW s \in Speeches
      PROVE  /\ talk[s] \in Talks /\ Len(talk[s].raw) <= RawCap
  BY TalkFacts
<1> QED
  BY <1>1, TalkFields DEF TtsInv, TtsTypes, TtsStreamTypeOK, Timbres

\* What a synthesizer is asked to say is heard to its last sample, and a public voice finds its
\* resource, for every number of texts, pieces of audio and changes of the voice, every size of a
\* frame and every capacity of the channels (xiaozhi-tts doubao_v3_ws.rs, audio_decoder.rs).
THEOREM SpeechReachesItsReader == ProvidersSpec => []TextIsSpoken
<1> DEFINE Inv == part = "speak" => TtsInv
<1>1. ProvidersInit => Inv
  BY TtsBegins DEF ProvidersInit
<1>2. Inv /\ [ProvidersNext]_providersVars => Inv'
  <2> SUFFICES ASSUME Inv, [ProvidersNext]_providersVars, part' = "speak" PROVE TtsInv'
    OBVIOUS
  <2>1. part = "speak" /\ (TtsStreamNext \/ UNCHANGED ttsStreamVars)
    BY DEF ProvidersNext, providersVars
  <2> QED
    BY <2>1, TtsKeeps
<1>3. Inv => TextIsSpoken
  BY SpeechFollows DEF TextIsSpoken
<1> QED
  BY <1>1, <1>2, <1>3, PTL DEF ProvidersSpec

\* Types of a synthesizer's texts, for the same constants.
THEOREM TtsTypesCorrect == TtsStreamSpec => []TtsStreamTypeOK
BY TtsInvariant, TtsTypesHold, PTL

-----------------------------------------------------------------------------
\* The types of the providers, together

LEMMA AsrTypesHold == AsrInv => AsrTypeOK
<1> SUFFICES ASSUME AsrInv PROVE AsrTypeOK
  OBVIOUS
<1>1. service \in DOMAIN Kinds
  BY DEF AsrInv, AsrTypes, Kinds
<1>2. ASSUME NEW t \in AsrTasks
      PROVE  /\ task[t].at \in Early \cup Using \cup {"over"}
             /\ task[t].conn \in 0 .. t /\ task[t].fed \in 0 .. MaxChunks
             /\ task[t].out \in {"none", "reuse", "drop"} /\ task[t].whole \in BOOLEAN
             /\ reader[t].on \in {"no", "on", "stuck", "off"} /\ reader[t].signals \in 0 .. 1
             /\ \A n \in DOMAIN results[t] : results[t][n].of \in AsrTasks
  <2>1. task[t] \in TaskRecords /\ reader[t] \in ReaderRecords
        /\ task[t].conn <= t /\ \A n \in DOMAIN results[t] : results[t][n].of = t
    BY TaskFacts DEF TaskFits
  <2>2. task[t].conn \in Nat /\ t \in Nat
    <3>1. task[t].conn \in AsrTasks \cup {NoTask}
      BY <2>1 DEF TaskRecords
    <3>2. t \in Nat /\ \A u \in AsrTasks \cup {NoTask} : u \in Nat
      BY AsrAssumption DEF AsrTasks, NoTask
    <3> QED
      BY <3>1, <3>2
  <2>3. /\ task[t].at \in Early \cup Using \cup {"over"} /\ task[t].fed \in 0 .. MaxChunks
        /\ task[t].out \in {"none", "reuse", "drop"} /\ task[t].whole \in BOOLEAN
        /\ reader[t].on \in {"no", "on", "stuck", "off"} /\ reader[t].signals \in 0 .. 1
    BY <2>1 DEF TaskRecords, ReaderRecords
  <2>4. task[t].conn \in 0 .. t
    BY <2>1, <2>2
  <2> QED
    BY <2>1, <2>3, <2>4
<1>3. /\ guard \in AsrTasks \cup {NoTask} /\ cached \in AsrTasks \cup {NoTask}
      /\ faults \in 0 .. MaxFaults
  BY DEF AsrInv, AsrTypes, InTurn
<1> QED
  BY <1>1, <1>2, <1>3 DEF AsrTypeOK, Early, Using

\* Types of the pools and of the provider at work, for every size of a pool, every number of
\* sessions, tasks, turns, texts, documents and jobs, and every bound of the model.
THEOREM ProvidersTypesCorrect == ProvidersSpec => []ProvidersTypeOK
<1> DEFINE Inv == /\ TypeOK
                  /\ part = "recognize" => AsrInv
                  /\ part = "answer" => LlmInv
                  /\ part = "speak" => TtsInv
                  /\ part = "knowledge" => SyncInv
<1>1. ProvidersInit => Inv
  BY InitTypeOK, AsrBegins, LlmBegins, TtsBegins, SyncBegins DEF ProvidersInit
<1>2. Inv /\ [ProvidersNext]_providersVars => Inv'
  <2> SUFFICES ASSUME Inv, [ProvidersNext]_providersVars PROVE Inv'
    OBVIOUS
  <2>1. TypeOK'
    BY NextTypeOK DEF ProvidersNext, providersVars
  <2>2. ASSUME part' = "recognize" PROVE AsrInv'
    <3>1. part = "recognize" /\ (AsrNext \/ UNCHANGED asrVars)
      BY <2>2 DEF ProvidersNext, providersVars
    <3> QED
      BY <3>1, AsrKeeps
  <2>3. ASSUME part' = "answer" PROVE LlmInv'
    <3>1. part = "answer" /\ (LlmStreamNext \/ UNCHANGED llmStreamVars)
      BY <2>3 DEF ProvidersNext, providersVars
    <3> QED
      BY <3>1, LlmKeeps
  <2>4. ASSUME part' = "speak" PROVE TtsInv'
    <3>1. part = "speak" /\ (TtsStreamNext \/ UNCHANGED ttsStreamVars)
      BY <2>4 DEF ProvidersNext, providersVars
    <3> QED
      BY <3>1, TtsKeeps
  <2>5. ASSUME part' = "knowledge" PROVE SyncInv'
    <3>1. part = "knowledge" /\ [SyncNext]_syncVars
      BY <2>5 DEF ProvidersNext, providersVars
    <3> QED
      BY <3>1, SyncKeeps
  <2> QED
    BY <2>1, <2>2, <2>3, <2>4, <2>5
<1>3. Inv => ProvidersTypeOK
  BY AsrTypesHold, LlmTypesHold, TtsTypesHold DEF ProvidersTypeOK, SyncInv
<1> QED
  BY <1>1, <1>2, <1>3, PTL DEF ProvidersSpec
=============================================================================
