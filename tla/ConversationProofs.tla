-------------------------- MODULE ConversationProofs --------------------------
(***************************************************************************)
(* For any number of initialisations, calls, refreshes and reconnections,  *)
(* the table of requests to a device: its entries are live, answers are    *)
(* not taken for another's but where the code lets them, one task          *)
(* initialises at a time, and the table is one in the sense of             *)
(* RequestTable.  For every number of messages, lines and fragments: the   *)
(* warm-up of an agent's answer ends with the answer, and its text comes   *)
(* after a START.  For every number of calls, answers and resets: a        *)
(* request to speak stays in its slot while it is waited for, and no call  *)
(* speaks unanswered.  For every number of connections, messages, frames,  *)
(* notices and hellos: the latest connection of an agent serves, and a     *)
(* frame or a notice is spoken once.                                       *)
(***************************************************************************)
EXTENDS MCConversation, FiniteSetTheorems, SequenceTheorems, TLAPS

-----------------------------------------------------------------------------
\* The warm-up of an agent's answer

Speaking == {"plan", "wait", "start", "speak"}
WarmType == [pc : {"none", "plan", "wait", "start", "speak", "done", "aborted"},
             line : 0 .. Lines, cancelled : BOOLEAN, started : BOOLEAN, ended : BOOLEAN]

Has(s, x) == \E j \in DOMAIN s : s[j] = x
StartOf(m) == [kind |-> "start", of |-> m]

\* The controller holds the handle of its active task, whose message was sent.
HandleInv ==
    /\ runner = active
    /\ active # NoAsk => active \in messaged
    /\ over \subseteq messaged
    /\ \A f \in injecting : f[1] \in messaged

\* A warm-up that nobody asked for did nothing.
FreshInv ==
    \A m \in Asks \ messaged : warm[m].pc = "none" /\ ~ warm[m].started /\ ~ warm[m].ended

\* What the active warm-up marks as started has its START, or is about to send it; and
\* a warm-up whose end was settled is the active one no more.
StartInv ==
    \A m \in Asks : m = active =>
        /\ ~ warm[m].ended
        /\ warm[m].started => warm[m].pc = "start" \/ Has(spoken, StartOf(m))

WarmInv == ClawWarmupTypeOK /\ HandleInv /\ FreshInv /\ StartInv /\ WarmupEndsWithAnswer

\* What the controller takes leaves its loop: the others stay as they were.
LEMMA FinishedFields ==
    ASSUME HandleInv, active \in Asks \cup {NoAsk}, NEW m \in Asks \cup {NoAsk},
           NEW tasks \in [Asks -> WarmType]
    PROVE  /\ Finished(m, tasks) \in [Asks -> WarmType]
           /\ \A n \in Asks :
                IF n = active /\ m \in {NoAsk, active}
                THEN Finished(m, tasks)[n].pc = "aborted"
                ELSE Finished(m, tasks)[n] = tasks[n]
<1>1. CASE active = NoAsk \/ (m # NoAsk /\ active # m)
  BY <1>1, ClawWarmupAssumption DEF Finished
<1>2. CASE ~ (active = NoAsk \/ (m # NoAsk /\ active # m))
  <2>1. active \in Asks /\ runner = active
    BY <1>2 DEF HandleInv
  <2>2. PICK r : r = [[[tasks[active] EXCEPT !.cancelled = TRUE]
                         EXCEPT !.ended = tasks[active].started] EXCEPT !.pc = "aborted"]
    OBVIOUS
  <2>3. r \in WarmType /\ r.pc = "aborted"
    BY <2>1, <2>2 DEF WarmType
  <2>4. Finished(m, tasks) = [tasks EXCEPT ![active] = r]
    BY <1>2, <2>1, <2>2 DEF Finished
  <2> QED
    BY <1>2, <2>1, <2>3, <2>4
<1> QED
  BY <1>1, <1>2

LEMMA WarmInitInv == ClawWarmupInit => WarmInv
  BY ClawWarmupAssumption DEF ClawWarmupInit, WarmInv, ClawWarmupTypeOK, HandleInv, FreshInv,
     StartInv, WarmupEndsWithAnswer

-----------------------------------------------------------------------------
\* What is said

LEMMA HasKept ==
    ASSUME NEW S, NEW s \in Seq(S), NEW t \in Seq(S), NEW x, Has(s, x)
    PROVE  Has(s \o t, x)
<1>1. PICK j \in DOMAIN s : s[j] = x
  BY DEF Has
<1>2. j \in DOMAIN (s \o t) /\ (s \o t)[j] = x
  BY <1>1
<1> QED
  BY <1>2 DEF Has

LEMMA HasAdded ==
    ASSUME NEW S, NEW s \in Seq(S), NEW t \in Seq(S), NEW x, Has(t, x)
    PROVE  Has(s \o t, x)
<1>1. PICK j \in DOMAIN t : t[j] = x
  BY DEF Has
<1>2. Len(s) + j \in DOMAIN (s \o t) /\ (s \o t)[Len(s) + j] = x
  BY <1>1
<1> QED
  BY <1>2 DEF Has

\* What follows s in s \o t comes from t.
LEMMA NewIsAdded ==
    ASSUME NEW S, NEW s \in Seq(S), NEW t \in Seq(S),
           NEW i \in Len(s) + 1 .. Len(s \o t)
    PROVE  Has(t, (s \o t)[i])
<1>1. i - Len(s) \in DOMAIN t /\ (s \o t)[i] = t[i - Len(s)]
  OBVIOUS
<1> QED
  BY <1>1 DEF Has

\* The START that an injected fragment sends, if it does.
Prefix(m, k, begins, tasks) ==
    IF begins \/ Opens(m, k, tasks) THEN <<StartOf(m)>> ELSE <<>>
Begins(m, k) == k = 1 /\ active = m /\ ~ warm[m].started /\ ~ warm[m].ended
MarkedTasks(m, k) ==
    [warm EXCEPT ![m].cancelled =
                     @ \/ (((k = 1 /\ active = m) \/ (k = Fragments /\ ~ (k = 1))) /\ active = m),
                 ![m].started = @ \/ Begins(m, k)]
TextOf(m) == <<[kind |-> "text", of |-> m]>>
Suffix(m, k) == IF k = Fragments THEN <<[kind |-> "finish", of |-> m]>> ELSE <<>>
Injected(m, k) == (Prefix(m, k, Begins(m, k), MarkedTasks(m, k)) \o TextOf(m)) \o Suffix(m, k)

AllOf(s, m) == \A j \in DOMAIN s : s[j].of = m

LEMMA PartsAreSounds ==
    ASSUME NEW m \in Asks, NEW k, NEW begins, NEW tasks
    PROVE  /\ Prefix(m, k, begins, tasks) \in Seq(Sounds) /\ AllOf(Prefix(m, k, begins, tasks), m)
           /\ TextOf(m) \in Seq(Sounds) /\ AllOf(TextOf(m), m)
           /\ Suffix(m, k) \in Seq(Sounds) /\ AllOf(Suffix(m, k), m)
           /\ begins \/ Opens(m, k, tasks) => Prefix(m, k, begins, tasks) = <<StartOf(m)>>
<1>1. \A kind \in {"start", "text", "finish"} :
          <<[kind |-> kind, of |-> m]>> \in Seq(Sounds) /\ AllOf(<<[kind |-> kind, of |-> m]>>, m)
  BY DEF Sounds, AllOf
<1>2. <<>> \in Seq(Sounds) /\ AllOf(<<>>, m)
  BY DEF AllOf
<1>3. \/ Prefix(m, k, begins, tasks) = <<[kind |-> "start", of |-> m]>>
      \/ Prefix(m, k, begins, tasks) = <<>>
  BY DEF Prefix, StartOf
<1>4. Suffix(m, k) = <<[kind |-> "finish", of |-> m]>> \/ Suffix(m, k) = <<>>
  BY DEF Suffix
<1>5. TextOf(m) = <<[kind |-> "text", of |-> m]>>
  BY DEF TextOf
<1> HIDE DEF AllOf
<1>6. Prefix(m, k, begins, tasks) \in Seq(Sounds) /\ AllOf(Prefix(m, k, begins, tasks), m)
  BY <1>1, <1>2, <1>3
<1>7. TextOf(m) \in Seq(Sounds) /\ AllOf(TextOf(m), m)
  BY <1>1, <1>5
<1>8. Suffix(m, k) \in Seq(Sounds) /\ AllOf(Suffix(m, k), m)
  BY <1>1, <1>2, <1>4
<1> QED
  BY <1>6, <1>7, <1>8 DEF Prefix

LEMMA InjectedSounds ==
    ASSUME NEW m \in Asks, NEW k
    PROVE  /\ Injected(m, k) \in Seq(Sounds)
           /\ \A x : Has(Injected(m, k), x) => x.of = m
           /\ Begins(m, k) \/ Opens(m, k, MarkedTasks(m, k)) => Has(Injected(m, k), StartOf(m))
<1>1. PICK pre : pre = Prefix(m, k, Begins(m, k), MarkedTasks(m, k))
  OBVIOUS
<1>2. PICK text : text = TextOf(m)
  OBVIOUS
<1>3. PICK suf : suf = Suffix(m, k)
  OBVIOUS
<1>4. Injected(m, k) = (pre \o text) \o suf
  BY <1>1, <1>2, <1>3 DEF Injected
<1>5. /\ pre \in Seq(Sounds) /\ AllOf(pre, m) /\ text \in Seq(Sounds) /\ AllOf(text, m)
      /\ suf \in Seq(Sounds) /\ AllOf(suf, m)
      /\ Begins(m, k) \/ Opens(m, k, MarkedTasks(m, k)) => pre = <<StartOf(m)>>
  BY <1>1, <1>2, <1>3, PartsAreSounds
<1>6. (pre \o text) \in Seq(Sounds) /\ AllOf(pre \o text, m)
  BY <1>5 DEF AllOf
<1>7. Injected(m, k) \in Seq(Sounds) /\ AllOf(Injected(m, k), m)
  BY <1>4, <1>5, <1>6 DEF AllOf
<1>8. ASSUME Begins(m, k) \/ Opens(m, k, MarkedTasks(m, k))
      PROVE  Has(Injected(m, k), StartOf(m))
  <2>1. Has(pre, StartOf(m))
    BY <1>5, <1>8 DEF Has
  <2>2. Has(pre \o text, StartOf(m))
    BY <1>5, <2>1, HasKept
  <2> QED
    BY <1>4, <1>5, <1>6, <2>2, HasKept
<1> QED
  BY <1>7, <1>8 DEF Has, AllOf

-----------------------------------------------------------------------------
\* What the actions do

LEMMA InjectFields ==
    ASSUME WarmInv, NEW f \in injecting, Inject(f[1], f[2])
    PROVE  \E m \in Asks, k \in 1 .. Fragments :
               /\ m \in messaged /\ messaged' = messaged /\ coming' = coming
               /\ injecting' \subseteq injecting
               /\ spoken' = spoken \o Injected(m, k)
               /\ opened' \subseteq opened \cup {m}
               /\ IF k = Fragments
                  THEN /\ over' = over \cup {m}
                       /\ warm' = Finished(m, MarkedTasks(m, k))
                       /\ active' = IF active = m THEN NoAsk ELSE active
                       /\ runner' = IF active = m THEN NoAsk ELSE runner
                  ELSE /\ over' = over /\ warm' = MarkedTasks(m, k)
                       /\ active' = active /\ runner' = runner
<1>1. f \in Asks \X (1 .. Fragments) /\ f[1] \in messaged
  BY DEF WarmInv, ClawWarmupTypeOK, HandleInv
<1>2. PICK m \in Asks, k \in 1 .. Fragments : m = f[1] /\ k = f[2]
  BY <1>1
<1>3. /\ m \in messaged /\ Inject(m, k)
  BY <1>1, <1>2
<1>4. spoken' = ((spoken \o Prefix(m, k, Begins(m, k), MarkedTasks(m, k))) \o TextOf(m))
                  \o Suffix(m, k)
  BY <1>3 DEF Inject, Prefix, Begins, MarkedTasks, StartOf, TextOf, Suffix
<1>5. spoken' = spoken \o Injected(m, k)
  <2>1. PICK a : a = Prefix(m, k, Begins(m, k), MarkedTasks(m, k))
    OBVIOUS
  <2>2. PICK b : b = TextOf(m)
    OBVIOUS
  <2>3. PICK c : c = Suffix(m, k)
    OBVIOUS
  <2>4. a \in Seq(Sounds) /\ b \in Seq(Sounds) /\ c \in Seq(Sounds)
    BY <2>1, <2>2, <2>3, PartsAreSounds
  <2>5. spoken \in Seq(Sounds) /\ (a \o b) \in Seq(Sounds)
    BY <2>4 DEF WarmInv, ClawWarmupTypeOK
  <2>6. spoken' = ((spoken \o a) \o b) \o c /\ Injected(m, k) = (a \o b) \o c
    BY <1>4, <2>1, <2>2, <2>3 DEF Injected
  <2>7. PICK d \in Seq(Sounds) : d = a \o b
    BY <2>5
  <2> HIDE DEF Sounds
  <2>8. (spoken \o a) \o b = spoken \o d
    BY <2>4, <2>5, <2>7, ConcatAssociative
  <2>9. (spoken \o d) \o c = spoken \o (d \o c)
    <3>1. d \in Seq(Sounds) /\ c \in Seq(Sounds) /\ spoken \in Seq(Sounds)
      BY <2>4, <2>5, <2>7
    <3>2. \A s, t, u \in Seq(Sounds) : (s \o t) \o u = s \o (t \o u)
      BY ConcatAssociative
    <3> QED
      BY <3>1, <3>2, Zenon
  <2> QED
    BY <2>6, <2>7, <2>8, <2>9
<1>6. messaged' = messaged /\ coming' = coming /\ injecting' \subseteq injecting
  BY <1>3 DEF Inject
<1>7. /\ opened' \subseteq opened \cup {m}
      /\ over' = IF k = Fragments THEN over \cup {m} ELSE over
  BY <1>3 DEF Inject
<1>8. ASSUME k = Fragments
      PROVE  /\ warm' = Finished(m, MarkedTasks(m, k))
             /\ active' = IF active = m THEN NoAsk ELSE active
             /\ runner' = IF active = m THEN NoAsk ELSE runner
  BY <1>3, <1>8 DEF Inject, MarkedTasks, Begins
<1>9. ASSUME k # Fragments
      PROVE  warm' = MarkedTasks(m, k) /\ active' = active /\ runner' = runner
  BY <1>3, <1>9 DEF Inject, MarkedTasks, Begins
<1>10. IF k = Fragments
       THEN /\ over' = over \cup {m}
            /\ warm' = Finished(m, MarkedTasks(m, k))
            /\ active' = IF active = m THEN NoAsk ELSE active
            /\ runner' = IF active = m THEN NoAsk ELSE runner
       ELSE /\ over' = over /\ warm' = MarkedTasks(m, k)
            /\ active' = active /\ runner' = runner
  BY <1>7, <1>8, <1>9
<1> QED
  BY <1>3, <1>5, <1>6, <1>7, <1>10

LEMMA MarkedFields ==
    ASSUME ClawWarmupTypeOK, NEW m \in Asks, NEW k
    PROVE  /\ MarkedTasks(m, k) \in [Asks -> WarmType]
           /\ \A n \in Asks :
                /\ MarkedTasks(m, k)[n].pc = warm[n].pc /\ MarkedTasks(m, k)[n].ended = warm[n].ended
                /\ n # m => MarkedTasks(m, k)[n] = warm[n]
           /\ MarkedTasks(m, k)[m].started = (warm[m].started \/ Begins(m, k))
<1> DEFINE b == Begins(m, k)
           c == ((k = 1 /\ active = m) \/ (k = Fragments /\ ~ (k = 1))) /\ active = m
<1>1. b \in BOOLEAN /\ c \in BOOLEAN
  BY DEF Begins
<1>2. MarkedTasks(m, k) = [warm EXCEPT ![m].cancelled = @ \/ c, ![m].started = @ \/ b]
  BY Zenon DEF MarkedTasks
<1> HIDE DEF b, c
<1>3. PICK x, y : x = (warm[m].cancelled \/ c) /\ y = (warm[m].started \/ b)
  OBVIOUS
<1>4. warm \in [Asks -> WarmType]
  BY DEF ClawWarmupTypeOK, WarmType
<1>5. x \in BOOLEAN /\ y \in BOOLEAN
  BY <1>1, <1>3, <1>4 DEF WarmType
<1>6. MarkedTasks(m, k) = [warm EXCEPT ![m].cancelled = x, ![m].started = y]
  BY <1>2, <1>3, <1>4
<1>7. PICK r : r = [[warm[m] EXCEPT !.cancelled = x] EXCEPT !.started = y]
  OBVIOUS
<1>8. MarkedTasks(m, k) = [warm EXCEPT ![m] = r]
  BY <1>4, <1>6, <1>7
<1>9. r \in WarmType /\ r.pc = warm[m].pc /\ r.ended = warm[m].ended /\ r.started = y
  BY <1>4, <1>5, <1>7 DEF WarmType
<1> QED
  BY <1>3, <1>4, <1>8, <1>9 DEF b

\* A step that changes one task by r, and appends to what was said at most.
LEMMA OneTaskStep ==
    ASSUME WarmInv, NEW m \in Asks, NEW r \in WarmType, warm' = [warm EXCEPT ![m] = r],
           warm[m].pc \in Speaking, r.ended = warm[m].ended,
           \E t \in Seq(Sounds) : spoken' = spoken \o t,
           r.started => r.pc = "start" \/ Has(spoken', StartOf(m)),
           UNCHANGED <<messaged, active, runner, coming, injecting, opened, over>>
    PROVE  WarmInv'
<1> USE DEF WarmInv, ClawWarmupTypeOK, HandleInv
<1>1. warm \in [Asks -> WarmType]
  BY DEF WarmType
<1>2. warm' \in [Asks -> WarmType] /\ warm'[m] = r /\ \A n \in Asks \ {m} : warm'[n] = warm[n]
  BY <1>1
<1>3. m = active /\ m \in messaged /\ m \notin over /\ ~ r.ended
  <2>1. m = active /\ m \notin over
    BY DEF WarmupEndsWithAnswer, Speaking
  <2>2. m # NoAsk
    BY ClawWarmupAssumption
  <2>3. m \in messaged
    BY <2>1, <2>2
  <2>4. ~ warm[m].ended
    BY <2>1 DEF StartInv
  <2> QED
    BY <2>1, <2>3, <2>4
<1>4. spoken' \in Seq(Sounds) /\ \A x : Has(spoken, x) => Has(spoken', x)
  BY HasKept
<1>5. ClawWarmupTypeOK'
  BY <1>2, <1>4 DEF WarmType
<1>6. HandleInv'
  OBVIOUS
<1>7. FreshInv'
  <2>1. \A n \in Asks \ messaged' : n \in Asks \ messaged /\ warm'[n] = warm[n]
    BY <1>2, <1>3
  <2> QED
    BY <2>1, Zenon DEF FreshInv
<1>8. StartInv'
  BY <1>2, <1>3, <1>4 DEF StartInv
<1>9. WarmupEndsWithAnswer'
  BY <1>2, <1>3 DEF WarmupEndsWithAnswer
<1> QED
  BY <1>5, <1>6, <1>7, <1>8, <1>9

LEMMA AskInv == ASSUME WarmInv, NEW m \in Asks, Ask(m) PROVE WarmInv'
<1> USE DEF WarmInv, ClawWarmupTypeOK, HandleInv
<1>1. /\ m \notin messaged /\ messaged' = messaged \cup {m} /\ active' = m /\ runner' = m
      /\ warm' = [Finished(NoAsk, warm) EXCEPT ![m].pc = "plan"]
      /\ UNCHANGED <<coming, injecting, opened, spoken, over>>
  BY DEF Ask
<1>2. warm \in [Asks -> WarmType]
  BY DEF WarmType
<1>3. PICK fin : fin = Finished(NoAsk, warm)
  OBVIOUS
<1>4. /\ fin \in [Asks -> WarmType]
      /\ \A n \in Asks : IF n = active THEN fin[n].pc = "aborted" ELSE fin[n] = warm[n]
  <2>1. /\ HandleInv /\ active \in Asks \cup {NoAsk}
        /\ NoAsk \in Asks \cup {NoAsk} /\ NoAsk \in {NoAsk, active}
    OBVIOUS
  <2> HIDE DEF WarmInv, HandleInv, ClawWarmupTypeOK
  <2> QED
    BY <1>2, <1>3, <2>1, FinishedFields
<1>5. m # active
  BY <1>1, ClawWarmupAssumption
<1>6. /\ warm' \in [Asks -> WarmType] /\ \A n \in Asks \ {m} : warm'[n] = fin[n]
      /\ warm'[m].pc = "plan" /\ ~ warm'[m].started /\ ~ warm'[m].ended
  <2>1. PICK r : r = [warm[m] EXCEPT !.pc = "plan"]
    OBVIOUS
  <2>2. r \in WarmType /\ r.pc = "plan" /\ ~ r.started /\ ~ r.ended
    BY <1>1, <1>2, <2>1 DEF WarmType, FreshInv
  <2>3. fin[m] = warm[m]
    BY <1>4, <1>5
  <2>4. warm' = [fin EXCEPT ![m] = r]
    BY <1>1, <1>3, <1>4, <2>1, <2>3
  <2> QED
    BY <1>4, <2>2, <2>4
<1>8. ClawWarmupTypeOK'
  BY <1>1, <1>6 DEF WarmType
<1>9. HandleInv'
  BY <1>1
<1>10. FreshInv'
  <2>1. \A n \in Asks \ messaged' : n \in Asks \ messaged /\ n # m /\ n # active
    BY <1>1, ClawWarmupAssumption
  <2>2. \A n \in Asks \ messaged' : n \in Asks \ messaged /\ warm'[n] = warm[n]
    BY <1>4, <1>6, <2>1
  <2> QED
    BY <2>2, Zenon DEF FreshInv
<1>11. StartInv'
  BY <1>1, <1>6 DEF StartInv
<1>12. WarmupEndsWithAnswer'
  BY <1>1, <1>4, <1>6, ClawWarmupAssumption DEF WarmupEndsWithAnswer
<1> QED
  BY <1>8, <1>9, <1>10, <1>11, <1>12

\* The loop of a warm-up.
LEMMA WarmTasksKept ==
    ASSUME WarmInv, NEW m \in Asks,
           Planned(m) \/ PlanCancelled(m) \/ LineDue(m) \/ LineStarts(m) \/ LineSpoken(m)
    PROVE  WarmInv'
<1> USE DEF Speaking
<1>1. warm \in [Asks -> WarmType] /\ spoken \in Seq(Sounds)
  BY DEF WarmInv, ClawWarmupTypeOK, WarmType
<1>2. /\ <<>> \in Seq(Sounds) /\ spoken = spoken \o <<>>
      /\ \A kind \in {"start", "line"} :
            /\ <<[kind |-> kind, of |-> m]>> \in Seq(Sounds)
            /\ Append(spoken, [kind |-> kind, of |-> m]) = spoken \o <<[kind |-> kind, of |-> m]>>
  BY <1>1 DEF Sounds
<1>3. ASSUME warm[m].pc \in Speaking
      PROVE  /\ m = active /\ ~ warm[m].ended
             /\ warm[m].started => warm[m].pc = "start" \/ Has(spoken, StartOf(m))
  BY <1>3 DEF WarmInv, WarmupEndsWithAnswer, StartInv
<1>4. CASE Planned(m) \/ PlanCancelled(m)
  <2>1. PICK to \in {"wait", "done"} : warm' = [warm EXCEPT ![m].pc = to]
    BY <1>4 DEF Planned, PlanCancelled
  <2>2. /\ warm[m].pc = "plan" /\ spoken' = spoken
        /\ UNCHANGED <<messaged, active, runner, coming, injecting, opened, over>>
    BY <1>4 DEF Planned, PlanCancelled
  <2>3. PICK r : r = [warm[m] EXCEPT !.pc = to]
    OBVIOUS
  <2>4. r \in WarmType /\ r.ended = warm[m].ended /\ r.started = warm[m].started
    BY <1>1, <2>3 DEF WarmType
  <2>5. warm' = [warm EXCEPT ![m] = r]
    BY <1>1, <2>1, <2>3
  <2> QED
    BY <1>2, <1>3, <2>2, <2>4, <2>5, OneTaskStep
<1>5. CASE LineDue(m)
  <2>1. PICK to \in {"speak", "start"} : to = IF warm[m].started \/ warm[m].ended THEN "speak" ELSE "start"
    OBVIOUS
  <2>2. warm' = [warm EXCEPT ![m].started = TRUE, ![m].line = @ + 1, ![m].pc = to]
    BY <1>5, <2>1 DEF LineDue
  <2>3. /\ warm[m].pc = "wait" /\ warm[m].line < Lines /\ spoken' = spoken
        /\ UNCHANGED <<messaged, active, runner, coming, injecting, opened, over>>
    BY <1>5 DEF LineDue
  <2>4. PICK line : line = warm[m].line + 1
    OBVIOUS
  <2>5. PICK r : r = [[[warm[m] EXCEPT !.started = TRUE] EXCEPT !.line = line] EXCEPT !.pc = to]
    OBVIOUS
  <2>6. warm[m] \in WarmType /\ line \in 0 .. Lines
    BY <1>1, <2>3, <2>4, ClawWarmupAssumption DEF WarmType
  <2>7. r \in WarmType /\ r.ended = warm[m].ended /\ r.pc = to
    BY <2>1, <2>5, <2>6 DEF WarmType
  <2>8. warm' = [warm EXCEPT ![m] = r]
    BY <1>1, <2>2, <2>4, <2>5
  <2>9. to = "start" \/ Has(spoken, StartOf(m))
    BY <1>3, <2>1, <2>3
  <2> QED
    BY <1>2, <2>3, <2>7, <2>8, <2>9, OneTaskStep
<1>6. CASE LineStarts(m)
  <2>1. /\ warm[m].pc = "start" /\ spoken' = spoken \o <<StartOf(m)>>
        /\ warm' = [warm EXCEPT ![m].pc = "speak"]
        /\ UNCHANGED <<messaged, active, runner, coming, injecting, opened, over>>
    BY <1>2, <1>6 DEF LineStarts, Say, StartOf
  <2>2. <<StartOf(m)>> \in Seq(Sounds) /\ Has(<<StartOf(m)>>, StartOf(m))
    BY DEF StartOf, Sounds, Has
  <2>3. Has(spoken', StartOf(m))
    BY <1>1, <2>1, <2>2, HasAdded
  <2>4. PICK r : r = [warm[m] EXCEPT !.pc = "speak"]
    OBVIOUS
  <2>5. r \in WarmType /\ r.ended = warm[m].ended
    BY <1>1, <2>4 DEF WarmType
  <2>6. warm' = [warm EXCEPT ![m] = r]
    BY <1>1, <2>1, <2>4
  <2> QED
    BY <2>1, <2>2, <2>3, <2>5, <2>6, OneTaskStep
<1>7. CASE LineSpoken(m)
  <2>1. /\ warm[m].pc = "speak" /\ warm' = [warm EXCEPT ![m].pc = "wait"]
        /\ spoken' = spoken \o <<[kind |-> "line", of |-> m]>>
        /\ UNCHANGED <<messaged, active, runner, coming, injecting, opened, over>>
    BY <1>2, <1>7 DEF LineSpoken, Say
  <2>2. PICK t \in Seq(Sounds) : spoken' = spoken \o t
    BY <1>2, <2>1
  <2>3. warm[m].started => Has(spoken', StartOf(m))
    BY <1>1, <1>3, <2>1, <2>2, HasKept
  <2>4. PICK r : r = [warm[m] EXCEPT !.pc = "wait"]
    OBVIOUS
  <2>5. r \in WarmType /\ r.ended = warm[m].ended /\ r.started = warm[m].started
    BY <1>1, <2>4 DEF WarmType
  <2>6. warm' = [warm EXCEPT ![m] = r]
    BY <1>1, <2>1, <2>4
  <2> QED
    BY <2>1, <2>2, <2>3, <2>5, <2>6, OneTaskStep
<1> QED
  BY <1>4, <1>5, <1>6, <1>7

LEMMA ArrivesInv == ASSUME WarmInv, NEW m \in Asks, FragmentArrives(m) PROVE WarmInv'
<1> USE DEF WarmInv, ClawWarmupTypeOK, HandleInv, FragmentArrives
<1>1. coming[m] \in 1 .. Fragments /\ coming' \in [Asks -> 1 .. Fragments + 1]
  BY ClawWarmupAssumption
<1>2. injecting' \subseteq Asks \X (1 .. Fragments) /\ \A f \in injecting' : f[1] \in messaged
  BY <1>1
<1>3. ClawWarmupTypeOK' /\ HandleInv'
  BY <1>1, <1>2
<1>4. FreshInv' /\ StartInv' /\ WarmupEndsWithAnswer'
  BY DEF FreshInv, StartInv, WarmupEndsWithAnswer
<1> QED
  BY <1>3, <1>4

LEMMA HelloInv == ASSUME WarmInv, HelloFinishes PROVE WarmInv'
<1> USE DEF WarmInv, ClawWarmupTypeOK, HandleInv
<1>1. /\ active # NoAsk /\ active' = NoAsk /\ runner' = NoAsk
      /\ warm' = Finished(NoAsk, warm)
      /\ UNCHANGED <<messaged, coming, injecting, opened, spoken, over>>
  BY DEF HelloFinishes
<1>2. warm \in [Asks -> WarmType]
  BY DEF WarmType
<1>3. /\ warm' \in [Asks -> WarmType]
      /\ \A n \in Asks : IF n = active THEN warm'[n].pc = "aborted" ELSE warm'[n] = warm[n]
  <2>1. /\ HandleInv /\ active \in Asks \cup {NoAsk}
        /\ NoAsk \in Asks \cup {NoAsk} /\ NoAsk \in {NoAsk, active}
    OBVIOUS
  <2> HIDE DEF WarmInv, HandleInv, ClawWarmupTypeOK
  <2> QED
    BY <1>1, <1>2, <2>1, FinishedFields
<1>4. ClawWarmupTypeOK' /\ HandleInv'
  BY <1>1, <1>3 DEF WarmType
<1>5. FreshInv'
  BY <1>1, <1>3 DEF FreshInv
<1>6. StartInv' /\ WarmupEndsWithAnswer'
  BY <1>1, <1>3, ClawWarmupAssumption DEF StartInv, WarmupEndsWithAnswer
<1> QED
  BY <1>4, <1>5, <1>6

LEMMA InjectInv == ASSUME WarmInv, NEW f \in injecting, Inject(f[1], f[2]) PROVE WarmInv'
<1> USE DEF WarmInv, ClawWarmupTypeOK, HandleInv
<1>1. PICK m \in Asks, k \in 1 .. Fragments :
               /\ m \in messaged /\ messaged' = messaged /\ coming' = coming
               /\ injecting' \subseteq injecting
               /\ spoken' = spoken \o Injected(m, k)
               /\ opened' \subseteq opened \cup {m}
               /\ IF k = Fragments
                  THEN /\ over' = over \cup {m}
                       /\ warm' = Finished(m, MarkedTasks(m, k))
                       /\ active' = IF active = m THEN NoAsk ELSE active
                       /\ runner' = IF active = m THEN NoAsk ELSE runner
                  ELSE /\ over' = over /\ warm' = MarkedTasks(m, k)
                       /\ active' = active /\ runner' = runner
  BY InjectFields
<1>2. PICK tasks : tasks = MarkedTasks(m, k)
  OBVIOUS
<1>3. /\ tasks \in [Asks -> WarmType]
      /\ \A n \in Asks : /\ tasks[n].pc = warm[n].pc /\ tasks[n].ended = warm[n].ended
                         /\ n # m => tasks[n] = warm[n]
      /\ tasks[m].started = (warm[m].started \/ Begins(m, k))
  BY <1>2, MarkedFields
<1>4. /\ spoken' \in Seq(Sounds) /\ \A x : Has(spoken, x) => Has(spoken', x)
      /\ Begins(m, k) => Has(spoken', StartOf(m))
  BY <1>1, InjectedSounds, HasKept, HasAdded
<1>5. CASE k = Fragments
  <2>1. /\ over' = over \cup {m} /\ warm' = Finished(m, tasks)
        /\ active' = IF active = m THEN NoAsk ELSE active
        /\ runner' = IF active = m THEN NoAsk ELSE runner
    BY <1>1, <1>2, <1>5
  <2>2. /\ warm' \in [Asks -> WarmType]
        /\ \A n \in Asks : IF n = active /\ m = active THEN warm'[n].pc = "aborted"
                           ELSE warm'[n] = tasks[n]
    BY <1>3, <2>1, FinishedFields, ClawWarmupAssumption
  <2>3. ClawWarmupTypeOK' /\ HandleInv'
    BY <1>1, <1>4, <2>1, <2>2 DEF WarmType
  <2>4. FreshInv'
    <3>1. \A n \in Asks \ messaged' : n \in Asks \ messaged /\ n # m /\ warm'[n] = warm[n]
      BY <1>1, <1>3, <2>2
    <3> QED
      BY <3>1, Zenon DEF FreshInv
  <2>5. StartInv'
    BY <1>3, <1>4, <2>1, <2>2, ClawWarmupAssumption DEF StartInv
  <2>6. WarmupEndsWithAnswer'
    BY <1>3, <2>1, <2>2 DEF WarmupEndsWithAnswer
  <2> QED
    BY <2>3, <2>4, <2>5, <2>6
<1>6. CASE k # Fragments
  <2>1. over' = over /\ warm' = tasks /\ active' = active /\ runner' = runner
    BY <1>1, <1>2, <1>6
  <2>2. ClawWarmupTypeOK' /\ HandleInv'
    BY <1>1, <1>3, <1>4, <2>1 DEF WarmType
  <2>3. FreshInv'
    BY <1>1, <1>3, <2>1 DEF FreshInv
  <2>4. StartInv'
    BY <1>3, <1>4, <2>1 DEF StartInv
  <2>5. WarmupEndsWithAnswer'
    BY <1>3, <2>1 DEF WarmupEndsWithAnswer
  <2> QED
    BY <2>2, <2>3, <2>4, <2>5
<1> QED
  BY <1>5, <1>6

LEMMA WarmNextInv == WarmInv /\ [ClawWarmupNext]_clawWarmupVars => WarmInv'
<1> SUFFICES ASSUME WarmInv, [ClawWarmupNext]_clawWarmupVars PROVE WarmInv'
  OBVIOUS
<1>1. CASE UNCHANGED clawWarmupVars
  BY <1>1 DEF clawWarmupVars, WarmInv, ClawWarmupTypeOK, HandleInv, FreshInv, StartInv,
     WarmupEndsWithAnswer
<1>2. CASE HelloFinishes
  BY <1>2, HelloInv
<1>3. CASE \E f \in injecting : Inject(f[1], f[2])
  BY <1>3, InjectInv
<1>4. CASE \E m \in Asks : Ask(m) \/ FragmentArrives(m)
  BY <1>4, AskInv, ArrivesInv
<1>5. CASE \E m \in Asks : Planned(m) \/ PlanCancelled(m) \/ LineDue(m) \/ LineStarts(m)
                           \/ LineSpoken(m)
  BY <1>5, WarmTasksKept
<1> QED
  BY <1>1, <1>2, <1>3, <1>4, <1>5 DEF ClawWarmupNext

\* The inductive invariant: the controller's handle is its active task's, and that task's
\* marks agree with what was handed to the TTS.
THEOREM WarmupInvariant == ClawWarmupSpec => []WarmInv
<1>1. WarmInv /\ [ClawWarmupNext]_clawWarmupVars => WarmInv'
  BY WarmNextInv
<1> QED
  BY <1>1, WarmInitInv, PTL DEF ClawWarmupSpec

\* Every variable of the warm-up keeps its type.
THEOREM WarmupTypeCorrect == ClawWarmupSpec => []ClawWarmupTypeOK
<1>1. WarmInv => ClawWarmupTypeOK
  BY DEF WarmInv
<1> QED
  BY <1>1, WarmupInvariant, PTL

\* No warm-up outlives its answer or another warm-up, for any number of messages, lines
\* and fragments, in whatever order the fragments are injected.
THEOREM WarmupIsEnded == ClawWarmupSpec => []WarmupEndsWithAnswer
<1>1. WarmInv => WarmupEndsWithAnswer
  BY DEF WarmInv
<1> QED
  BY <1>1, WarmupInvariant, PTL

\* Whichever fragment is injected first, the text of an answer comes after a START of its
\* message, unless the warm-up has marked its speech started and not sent the START yet.
THEOREM TextComesAfterStart == ClawWarmupSpec => TextAfterStart
<1> DEFINE Text(m) == [kind |-> "text", of |-> m]
           NewText(m) == \E i \in Len(spoken) + 1 .. Len(spoken') : spoken'[i] = Text(m)
           Started(m) == warm[m].pc = "start" \/ Has(spoken', StartOf(m))
           TextsBegan == \A m \in Asks : m \notin opened /\ NewText(m) => Started(m)
<1>1. ASSUME WarmInv, [ClawWarmupNext]_clawWarmupVars PROVE TextsBegan
  <2> SUFFICES ASSUME NEW m \in Asks, m \notin opened, NewText(m) PROVE Started(m)
    OBVIOUS
  <2>1. spoken \in Seq(Sounds)
    BY <1>1 DEF WarmInv, ClawWarmupTypeOK
  <2>2. spoken' # spoken /\ \A n \in Asks, kind \in {"start", "line"} : spoken' # Say(kind, n)
    BY <2>1 DEF Say, Sounds
  <2>3. PICK f \in injecting : Inject(f[1], f[2])
    BY <1>1, <2>2 DEF ClawWarmupNext, clawWarmupVars, Ask, Planned, PlanCancelled, LineDue,
       LineStarts, LineSpoken, FragmentArrives, HelloFinishes
  <2>4. PICK n \in Asks, k \in 1 .. Fragments : spoken' = spoken \o Injected(n, k)
    BY <1>1, <2>3, InjectFields
  <2>5. n = m
    <3>1. PICK i \in Len(spoken) + 1 .. Len(spoken') : spoken'[i] = Text(m)
      OBVIOUS
    <3>2. Injected(n, k) \in Seq(Sounds)
      BY InjectedSounds
    <3>3. Has(Injected(n, k), Text(m))
      BY <2>1, <2>4, <3>1, <3>2, NewIsAdded
    <3>4. Text(m).of = n
      BY <3>3, InjectedSounds
    <3> QED
      BY <3>4
  <2>6. CASE Begins(m, k) \/ Opens(m, k, MarkedTasks(m, k))
    <3>1. Has(Injected(m, k), StartOf(m)) /\ Injected(m, k) \in Seq(Sounds)
      BY <2>6, InjectedSounds
    <3> QED
      BY <2>1, <2>4, <2>5, <3>1, HasAdded
  <2>7. CASE ~ (Begins(m, k) \/ Opens(m, k, MarkedTasks(m, k)))
    <3>1. active = m /\ MarkedTasks(m, k)[m].started
      BY <2>7 DEF Opens
    <3>2. warm[m].started
      BY <1>1, <2>7, <3>1, MarkedFields DEF WarmInv
    <3>3. warm[m].pc = "start" \/ Has(spoken, StartOf(m))
      BY <1>1, <3>1, <3>2 DEF WarmInv, StartInv
    <3>4. Injected(m, k) \in Seq(Sounds)
      BY InjectedSounds
    <3> QED
      BY <2>1, <2>4, <2>5, <3>3, <3>4, HasKept
  <2> QED
    BY <2>6, <2>7
<1>2. WarmInv /\ [ClawWarmupNext]_clawWarmupVars
         => [\A m \in Asks :
               m \notin opened
               /\ (\E i \in Len(spoken) + 1 .. Len(spoken') :
                      spoken'[i] = [kind |-> "text", of |-> m])
                 => \/ warm[m].pc = "start"
                    \/ \E j \in DOMAIN spoken' :
                          spoken'[j] = [kind |-> "start", of |-> m]]_clawWarmupVars
  BY <1>1 DEF Has, StartOf
<1> QED
  BY <1>2, WarmupInvariant, PTL DEF ClawWarmupSpec, TextAfterStart

-----------------------------------------------------------------------------
\* Injected speech

\* Requests are named by the call that created them: who waits for one waits for its maker's.
RequestInv ==
    /\ pendingRequest # NoSpeaker => request[pendingRequest] = pendingRequest
    /\ \A s \in Speakers :
         /\ speaker[s] \in {"idle", "take"} => request[s] = NoSpeaker
         /\ speaker[s] \in {"send", "select", "wait", "finish", "woken"} => request[s] # NoSpeaker
         /\ request[s] # NoSpeaker => request[request[s]] = request[s]

\* What is being finished was made; once the slot is done with, it does not come back.
FinishInv ==
    \A f \in Finishers :
        /\ finishing[f].at = "no" <=> finishing[f].of = NoSpeaker
        /\ finishing[f].at # "no" => request[finishing[f].of] = finishing[f].of
        /\ finishing[f].at \in {"mark", "notify", "done"} => pendingRequest # finishing[f].of
        /\ finishing[f].at \in {"notify", "done"} =>
             finishing[f].of \in failed \cup answered

\* Each finisher runs once.
OnceInv ==
    /\ \A s \in Speakers :
         /\ speaker[s] \notin {"finish", "failed", "done"} => finishing[s].at = "no"
         /\ speaker[s] = "finish" => finishing[s].of = request[s]
    /\ \A d \in Readies :
         /\ readyMsg[d] = "sent" => finishing[d].at = "no"
         /\ finishing[d].at # "no" => finishing[d].of \in answered
    /\ \A e \in Resets : resetTask[e] # "done" => finishing[e].at = "no"

\* A call that was woken has an outcome.
WokenInv == \A s \in Speakers : speaker[s] = "woken" => request[s] \in failed \cup answered

SpeakInv == SpeakTypeOK /\ RequestInv /\ FinishInv /\ OnceInv /\ WokenInv /\ SpeakRequestIsKept

CallAt == {"idle", "take", "send", "select", "wait", "finish", "woken", "session", "ready",
           "queue", "speak", "goodbye", "done", "failed"}
AfterReady == {"session", "ready", "queue", "speak", "goodbye", "done"}
ToWait == {"send", "select", "wait"}
FinishType == [at : {"no", "slot", "mark", "notify", "done"}, of : Speakers \cup {NoSpeaker}]
PathType == [session : BOOLEAN, fresh : BOOLEAN, active : BOOLEAN, warm : BOOLEAN,
             stale : BOOLEAN, guard : BOOLEAN]

LEMMA SpeakInitInv == SpeakInit => SpeakInv
<1> SUFFICES ASSUME SpeakInit PROVE SpeakInv
  OBVIOUS
<1> USE SpeakAssumption DEF SpeakInit
<1>1. finishing \in [Finishers -> FinishType] /\ path \in PathType
  BY DEF FinishType, PathType
<1>2. SpeakTypeOK
  BY <1>1 DEF SpeakTypeOK, FinishType, PathType
<1>3. RequestInv
  BY DEF RequestInv
<1>4. FinishInv
  BY DEF FinishInv
<1>5. OnceInv
  BY DEF OnceInv, Finishers
<1>6. WokenInv
  BY DEF WokenInv
<1>7. SpeakRequestIsKept
  BY DEF SpeakRequestIsKept, SpeaksWhenReady, SlotIsAwaited
<1> QED
  BY <1>2, <1>3, <1>4, <1>5, <1>6, <1>7 DEF SpeakInv

LEMMA StepFields ==
    ASSUME SpeakTypeOK, NEW s \in Speakers, NEW to \in CallAt, Step(s, to)
    PROVE  /\ speaker' \in [Speakers -> CallAt] /\ speaker'[s] = to
           /\ \A u \in Speakers \ {s} : speaker'[u] = speaker[u]
  BY DEF SpeakTypeOK, CallAt, Step

LEMMA FinishesFields ==
    ASSUME SpeakTypeOK, NEW f \in Finishers, NEW r \in Speakers, Finishes(f, r)
    PROVE  /\ finishing' \in [Finishers -> FinishType]
           /\ finishing'[f].at = "slot" /\ finishing'[f].of = r
           /\ \A g \in Finishers \ {f} : finishing'[g] = finishing[g]
<1>1. finishing \in [Finishers -> FinishType] /\ [at |-> "slot", of |-> r] \in FinishType
  BY DEF SpeakTypeOK, FinishType
<1> QED
  BY <1>1 DEF Finishes

LEMMA AtFields ==
    ASSUME SpeakTypeOK, NEW f \in Finishers, NEW to \in {"mark", "notify", "done"},
           finishing' = [finishing EXCEPT ![f].at = to]
    PROVE  /\ finishing' \in [Finishers -> FinishType]
           /\ finishing'[f].at = to /\ finishing'[f].of = finishing[f].of
           /\ \A g \in Finishers \ {f} : finishing'[g] = finishing[g]
<1>1. finishing \in [Finishers -> FinishType]
  BY DEF SpeakTypeOK, FinishType
<1>2. PICK r : r = [finishing[f] EXCEPT !.at = to]
  OBVIOUS
<1>3. r \in FinishType /\ r.at = to /\ r.of = finishing[f].of
  BY <1>1, <1>2 DEF FinishType
<1>4. finishing' = [finishing EXCEPT ![f] = r]
  BY <1>1, <1>2
<1> QED
  BY <1>1, <1>3, <1>4

\* A call goes on, or what only the device and the resets see changes.
LEMMA CallGoesOn ==
    ASSUME SpeakInv, NEW s \in Speakers, NEW to \in CallAt \ {"woken", "finish"}, Step(s, to),
           UNCHANGED <<request, pendingRequest, finishing, failed, answered, readyMsg, resetTask>>,
           path' \in PathType,
           speaker[s] \notin {"finish", "failed", "done"},
           to \in {"idle", "take"} => request[s] = NoSpeaker,
           to \in ToWait => speaker[s] \in ToWait,
           speaker[s] \in ToWait => to \in ToWait,
           to \in AfterReady /\ request[s] # NoSpeaker => request[s] \in answered
    PROVE  SpeakInv'
<1> USE SpeakAssumption
<1>1. /\ speaker' \in [Speakers -> CallAt] /\ speaker'[s] = to
      /\ \A u \in Speakers \ {s} : speaker'[u] = speaker[u]
  BY StepFields DEF SpeakInv
<1>2. SpeakTypeOK'
  BY <1>1 DEF SpeakInv, SpeakTypeOK, CallAt, PathType
<1>3. RequestInv'
  BY <1>1 DEF SpeakInv, RequestInv, ToWait, CallAt
<1>4. FinishInv'
  BY DEF SpeakInv, FinishInv
<1>5. OnceInv'
  BY <1>1 DEF SpeakInv, OnceInv
<1>6. WokenInv'
  BY <1>1 DEF SpeakInv, WokenInv
<1>7. SpeaksWhenReady'
  BY <1>1 DEF SpeakInv, SpeakRequestIsKept, SpeaksWhenReady, AfterReady
<1>8. SlotIsAwaited'
  BY <1>1 DEF SpeakInv, SpeakRequestIsKept, SlotIsAwaited, ToWait
<1> QED
  BY <1>2, <1>3, <1>4, <1>5, <1>6, <1>7, <1>8 DEF SpeakInv, SpeakRequestIsKept

LEMMA DeviceGoesOn ==
    ASSUME SpeakInv, UNCHANGED <<speaker, request, pendingRequest, finishing, failed, answered>>,
           path' \in PathType, readyMsg' \in [Readies -> {"sent", "handled"}],
           resetTask' \in [Resets -> {"idle", "closed", "checked", "stale", "done"}],
           \A d \in Readies : readyMsg'[d] = "sent" => readyMsg[d] = "sent",
           \A e \in Resets : resetTask'[e] # "done" => resetTask[e] # "done"
    PROVE  SpeakInv'
<1>1. SpeakTypeOK'
  BY DEF SpeakInv, SpeakTypeOK, PathType
<1>2. RequestInv' /\ FinishInv' /\ WokenInv' /\ SpeaksWhenReady' /\ SlotIsAwaited'
  BY DEF SpeakInv, RequestInv, FinishInv, WokenInv, SpeakRequestIsKept, SpeaksWhenReady,
     SlotIsAwaited
<1>3. OnceInv'
  BY DEF SpeakInv, OnceInv
<1> QED
  BY <1>1, <1>2, <1>3 DEF SpeakInv, SpeakRequestIsKept

\* A request's end begins, by a call that gives up or could not send.
LEMMA CallGivesUp ==
    ASSUME SpeakInv, NEW s \in Speakers, speaker[s] \in {"send", "wait"}, Step(s, "finish"),
           Finishes(s, request[s]),
           UNCHANGED <<request, pendingRequest, failed, answered, readyMsg, resetTask, path>>
    PROVE  SpeakInv'
<1> USE SpeakAssumption
<1>0. s \in Finishers /\ request[s] \in Speakers /\ request[request[s]] = request[s]
  BY DEF SpeakInv, SpeakTypeOK, RequestInv, Finishers
<1>1. /\ speaker' \in [Speakers -> CallAt] /\ speaker'[s] = "finish"
      /\ \A u \in Speakers \ {s} : speaker'[u] = speaker[u]
  BY StepFields DEF SpeakInv, CallAt
<1>2. /\ finishing' \in [Finishers -> FinishType]
      /\ finishing'[s].at = "slot" /\ finishing'[s].of = request[s]
      /\ \A g \in Finishers \ {s} : finishing'[g] = finishing[g]
  BY <1>0, FinishesFields DEF SpeakInv
<1>3. SpeakTypeOK'
  BY <1>1, <1>2 DEF SpeakInv, SpeakTypeOK, CallAt, FinishType
<1>4. RequestInv'
  BY <1>1 DEF SpeakInv, RequestInv
<1>5. FinishInv'
  BY <1>0, <1>2 DEF SpeakInv, FinishInv
<1>6. OnceInv'
  BY <1>1, <1>2 DEF SpeakInv, OnceInv, Finishers
<1>7. WokenInv' /\ SpeaksWhenReady'
  BY <1>1 DEF SpeakInv, WokenInv, SpeakRequestIsKept, SpeaksWhenReady
<1>8. SlotIsAwaited'
  <2>1. finishing[s].of = NoSpeaker
    BY <1>0 DEF SpeakInv, OnceInv, FinishInv
  <2> QED
    BY <1>1, <1>2, <2>1 DEF SpeakInv, SpeakRequestIsKept, SlotIsAwaited
<1> QED
  BY <1>3, <1>4, <1>5, <1>6, <1>7, <1>8 DEF SpeakInv, SpeakRequestIsKept

\* What is pending is taken out of the slot, by a goodbye of the call or by a reset.
LEMMA PendingTaken ==
    ASSUME SpeakInv, NEW f \in Finishers, f \notin Readies, finishing[f].at = "no", TakePending(f),
           UNCHANGED <<request, failed, answered, readyMsg>>, path' \in PathType,
           speaker' \in [Speakers -> CallAt],
           \A s \in Speakers : s = f => speaker[s] = "goodbye" /\ speaker'[s] = "done",
           \A s \in Speakers : s # f => speaker'[s] = speaker[s],
           resetTask' \in [Resets -> {"idle", "closed", "checked", "stale", "done"}],
           \A e \in Resets : resetTask'[e] # "done" => e # f /\ resetTask[e] # "done"
    PROVE  SpeakInv'
<1> USE SpeakAssumption
<1>1. /\ pendingRequest' = NoSpeaker
      /\ finishing' \in [Finishers -> FinishType]
      /\ \A g \in Finishers \ {f} : finishing'[g] = finishing[g]
      /\ IF pendingRequest = NoSpeaker THEN finishing' = finishing
         ELSE finishing'[f].at = "slot" /\ finishing'[f].of = pendingRequest
  <2>1. CASE pendingRequest = NoSpeaker
    BY <2>1 DEF TakePending, SpeakInv, SpeakTypeOK, FinishType
  <2>2. CASE pendingRequest # NoSpeaker
    <3>1. pendingRequest \in Speakers /\ Finishes(f, pendingRequest) /\ pendingRequest' = NoSpeaker
      BY <2>2 DEF TakePending, SpeakInv, SpeakTypeOK
    <3> QED
      BY <2>2, <3>1, FinishesFields DEF SpeakInv
  <2> QED
    BY <2>1, <2>2
<1>2. finishing[f].of = NoSpeaker
  BY DEF SpeakInv, FinishInv
<1>3. SpeakTypeOK'
  BY <1>1 DEF SpeakInv, SpeakTypeOK, CallAt, FinishType, PathType
<1>4. RequestInv'
  BY <1>1 DEF SpeakInv, RequestInv
<1>5. FinishInv'
  BY <1>1, <1>2 DEF SpeakInv, FinishInv, RequestInv, SpeakTypeOK
<1>6. OnceInv'
  BY <1>1 DEF SpeakInv, OnceInv, Finishers
<1>7. WokenInv' /\ SpeaksWhenReady'
  BY DEF SpeakInv, WokenInv, SpeakRequestIsKept, SpeaksWhenReady
<1>8. SlotIsAwaited'
  BY <1>1, <1>2 DEF SpeakInv, SpeakRequestIsKept, SlotIsAwaited
<1> QED
  BY <1>3, <1>4, <1>5, <1>6, <1>7, <1>8 DEF SpeakInv, SpeakRequestIsKept

LEMMA ReadyInv == ASSUME SpeakInv, NEW d \in Readies, SpeakReady(d) PROVE SpeakInv'
<1> USE SpeakAssumption
<1>1. /\ readyMsg[d] = "sent" /\ readyMsg' \in [Readies -> {"sent", "handled"}]
      /\ readyMsg'[d] = "handled" /\ \A e \in Readies \ {d} : readyMsg'[e] = readyMsg[e]
      /\ UNCHANGED <<speaker, request, pendingRequest, failed, resetTask>>
  BY DEF SpeakReady, SpeakInv, SpeakTypeOK
<1>2. CASE UNCHANGED <<answered, path, finishing>>
  BY <1>1, <1>2, DeviceGoesOn DEF SpeakInv, SpeakTypeOK, PathType
<1>3. CASE ~ UNCHANGED <<answered, path, finishing>>
  <2>1. /\ pendingRequest # NoSpeaker /\ answered' = answered \cup {pendingRequest}
        /\ path' = [path EXCEPT !.warm = TRUE, !.stale = FALSE]
        /\ Finishes(d, pendingRequest)
    BY <1>3 DEF SpeakReady
  <2>2. d \in Finishers /\ pendingRequest \in Speakers /\ d \notin Speakers /\ d \notin Resets
    BY <2>1 DEF Finishers, SpeakInv, SpeakTypeOK
  <2>3. /\ finishing' \in [Finishers -> FinishType]
        /\ finishing'[d].at = "slot" /\ finishing'[d].of = pendingRequest
        /\ \A g \in Finishers \ {d} : finishing'[g] = finishing[g]
    BY <2>1, <2>2, FinishesFields DEF SpeakInv
  <2>4. path' \in PathType
    BY <2>1 DEF SpeakInv, SpeakTypeOK, PathType
  <2>5. SpeakTypeOK'
    BY <1>1, <2>1, <2>2, <2>3, <2>4 DEF SpeakInv, SpeakTypeOK, FinishType, PathType
  <2>6. RequestInv'
    BY <1>1 DEF SpeakInv, RequestInv
  <2>7. FinishInv'
    BY <1>1, <2>1, <2>2, <2>3 DEF SpeakInv, FinishInv, RequestInv
  <2>8. OnceInv'
    BY <1>1, <2>1, <2>2, <2>3 DEF SpeakInv, OnceInv, Finishers
  <2>9. WokenInv' /\ SpeaksWhenReady'
    BY <1>1, <2>1 DEF SpeakInv, WokenInv, SpeakRequestIsKept, SpeaksWhenReady
  <2>10. SlotIsAwaited'
    <3>1. finishing[d].of = NoSpeaker
      BY <1>1, <2>2 DEF SpeakInv, OnceInv, FinishInv
    <3> QED
      BY <1>1, <2>3, <3>1 DEF SpeakInv, SpeakRequestIsKept, SlotIsAwaited
  <2> QED
    BY <2>5, <2>6, <2>7, <2>8, <2>9, <2>10 DEF SpeakInv, SpeakRequestIsKept
<1> QED
  BY <1>2, <1>3

LEMMA FinishSlotInv == ASSUME SpeakInv, NEW f \in Finishers, FinishSlot(f) PROVE SpeakInv'
<1> USE SpeakAssumption
<1>1. PICK to \in {"mark", "notify"} : to = IF f \in Readies THEN "notify" ELSE "mark"
  OBVIOUS
<1>2. /\ finishing[f].at = "slot" /\ finishing' = [finishing EXCEPT ![f].at = to]
      /\ pendingRequest' = IF pendingRequest = finishing[f].of THEN NoSpeaker ELSE pendingRequest
      /\ UNCHANGED <<speaker, request, failed, answered, readyMsg, resetTask, path>>
  BY <1>1 DEF FinishSlot, Emptied
<1>3. /\ finishing' \in [Finishers -> FinishType]
      /\ finishing'[f].at = to /\ finishing'[f].of = finishing[f].of
      /\ \A g \in Finishers \ {f} : finishing'[g] = finishing[g]
  BY <1>2, AtFields DEF SpeakInv
<1>4. finishing[f].of # NoSpeaker /\ request[finishing[f].of] = finishing[f].of
  BY <1>2 DEF SpeakInv, FinishInv
<1>5. SpeakTypeOK'
  BY <1>2, <1>3 DEF SpeakInv, SpeakTypeOK, FinishType
<1>6. RequestInv'
  BY <1>2 DEF SpeakInv, RequestInv
<1>7. FinishInv'
  BY <1>1, <1>2, <1>3, <1>4 DEF SpeakInv, FinishInv, OnceInv
<1>8. OnceInv'
  BY <1>1, <1>2, <1>3 DEF SpeakInv, OnceInv, Finishers
<1>9. WokenInv' /\ SpeaksWhenReady'
  BY <1>2 DEF SpeakInv, WokenInv, SpeakRequestIsKept, SpeaksWhenReady
<1>10. SlotIsAwaited'
  <2>1. \A s \in Speakers : speaker[s] \in ToWait => s # f
    BY <1>2 DEF SpeakInv, OnceInv, ToWait
  <2> QED
    BY <1>2, <1>3, <2>1 DEF SpeakInv, SpeakRequestIsKept, SlotIsAwaited, ToWait
<1> QED
  BY <1>5, <1>6, <1>7, <1>8, <1>9, <1>10 DEF SpeakInv, SpeakRequestIsKept

LEMMA FinishMarkInv == ASSUME SpeakInv, NEW f \in Finishers, FinishMark(f) PROVE SpeakInv'
<1> USE SpeakAssumption
<1>1. /\ finishing[f].at = "mark" /\ finishing' = [finishing EXCEPT ![f].at = "notify"]
      /\ failed' = failed \cup {finishing[f].of}
      /\ UNCHANGED <<speaker, request, pendingRequest, answered, readyMsg, resetTask, path>>
  BY DEF FinishMark, Marked
<1>2. /\ finishing' \in [Finishers -> FinishType]
      /\ finishing'[f].at = "notify" /\ finishing'[f].of = finishing[f].of
      /\ \A g \in Finishers \ {f} : finishing'[g] = finishing[g]
  BY <1>1, AtFields DEF SpeakInv
<1>3. finishing[f].of \in Speakers
  BY <1>1 DEF SpeakInv, SpeakTypeOK, FinishInv
<1>4. SpeakTypeOK'
  BY <1>1, <1>2, <1>3 DEF SpeakInv, SpeakTypeOK, FinishType
<1>5. RequestInv'
  BY <1>1 DEF SpeakInv, RequestInv
<1>6. FinishInv'
  BY <1>1, <1>2, <1>3 DEF SpeakInv, FinishInv
<1>7. OnceInv'
  BY <1>1, <1>2 DEF SpeakInv, OnceInv, Finishers
<1>8. WokenInv' /\ SpeaksWhenReady'
  BY <1>1 DEF SpeakInv, WokenInv, SpeakRequestIsKept, SpeaksWhenReady
<1>9. SlotIsAwaited'
  BY <1>1, <1>2 DEF SpeakInv, SpeakRequestIsKept, SlotIsAwaited
<1> QED
  BY <1>4, <1>5, <1>6, <1>7, <1>8, <1>9 DEF SpeakInv, SpeakRequestIsKept

LEMMA FinishNotifyInv == ASSUME SpeakInv, NEW f \in Finishers, FinishNotify(f) PROVE SpeakInv'
<1> USE SpeakAssumption
<1>1. /\ finishing[f].at = "notify" /\ finishing' = [finishing EXCEPT ![f].at = "done"]
      /\ UNCHANGED <<request, pendingRequest, failed, answered, readyMsg, resetTask, path>>
  BY DEF FinishNotify
<1>2. /\ speaker' \in [Speakers -> CallAt]
      /\ \A s \in Speakers :
           \/ s = f /\ speaker[s] = "finish" /\ speaker'[s] = "failed"
           \/ speaker[s] = "wait" /\ request[s] = finishing[f].of /\ speaker'[s] = "woken"
           \/ ~ (s = f /\ speaker[s] = "finish") /\ speaker'[s] = speaker[s]
  BY DEF FinishNotify, SpeakInv, SpeakTypeOK, CallAt
<1>3. /\ finishing' \in [Finishers -> FinishType]
      /\ finishing'[f].at = "done" /\ finishing'[f].of = finishing[f].of
      /\ \A g \in Finishers \ {f} : finishing'[g] = finishing[g]
  BY <1>1, AtFields DEF SpeakInv
<1>4. /\ pendingRequest # finishing[f].of
      /\ finishing[f].of \in failed \cup answered
  BY <1>1 DEF SpeakInv, FinishInv
<1>5. SpeakTypeOK'
  BY <1>1, <1>2, <1>3 DEF SpeakInv, SpeakTypeOK, CallAt, FinishType
<1>6. RequestInv'
  BY <1>1, <1>2 DEF SpeakInv, RequestInv
<1>7. FinishInv'
  BY <1>1, <1>3 DEF SpeakInv, FinishInv
<1>8. OnceInv'
  BY <1>1, <1>2, <1>3 DEF SpeakInv, OnceInv, Finishers
<1>9. WokenInv'
  BY <1>1, <1>2, <1>4 DEF SpeakInv, WokenInv
<1>10. SpeaksWhenReady'
  BY <1>1, <1>2 DEF SpeakInv, SpeakRequestIsKept, SpeaksWhenReady
<1>11. SlotIsAwaited'
  <2>1. \A s \in Speakers : s = f /\ speaker[s] = "finish" => finishing[f].of = request[s]
    BY DEF SpeakInv, OnceInv
  <2>2. \A s \in Speakers : pendingRequest = s => request[s] = s
    BY DEF SpeakInv, SpeakRequestIsKept, SlotIsAwaited
  <2> QED
    BY <1>1, <1>2, <1>3, <1>4, <2>1, <2>2 DEF SpeakInv, SpeakRequestIsKept, SlotIsAwaited
<1> QED
  BY <1>5, <1>6, <1>7, <1>8, <1>9, <1>10, <1>11 DEF SpeakInv, SpeakRequestIsKept

LEMMA SpeakTakeInv == ASSUME SpeakInv, NEW s \in Speakers, SpeakTake(s) PROVE SpeakInv'
<1> USE SpeakAssumption
<1>1. PICK r \in Speakers : r = IF pendingRequest = NoSpeaker THEN s ELSE pendingRequest
  BY DEF SpeakInv, SpeakTypeOK
<1>2. PICK to \in {"send", "select"} : to = IF pendingRequest = NoSpeaker THEN "send" ELSE "select"
  OBVIOUS
<1>3. /\ speaker[s] = "take" /\ Step(s, to) /\ pendingRequest' = r
      /\ request' = [request EXCEPT ![s] = r]
      /\ UNCHANGED <<finishing, path, failed, answered, readyMsg, resetTask>>
  BY <1>1, <1>2 DEF SpeakTake, SpeakStays
<1>4. /\ speaker' \in [Speakers -> CallAt] /\ speaker'[s] = to
      /\ \A u \in Speakers \ {s} : speaker'[u] = speaker[u]
  BY <1>3, StepFields DEF SpeakInv, CallAt
<1>5. /\ request' \in [Speakers -> Speakers \cup {NoSpeaker}] /\ request'[s] = r
      /\ \A u \in Speakers \ {s} : request'[u] = request[u]
  BY <1>1, <1>3 DEF SpeakInv, SpeakTypeOK
<1>6. request[s] = NoSpeaker
  BY <1>3 DEF SpeakInv, RequestInv
<1>7. request'[r] = r /\ \A u \in Speakers : request[u] = u => request'[u] = u
  <2>1. \A u \in Speakers : request[u] = u => u # s
    BY <1>6
  <2> QED
    BY <1>1, <1>5, <1>6, <2>1 DEF SpeakInv, RequestInv
<1>8. SpeakTypeOK'
  BY <1>1, <1>3, <1>4, <1>5 DEF SpeakInv, SpeakTypeOK, CallAt
<1>9. RequestInv'
  <2>1. \A u \in Speakers : request[u] # NoSpeaker => request'[request[u]] = request[u]
    BY <1>7 DEF SpeakInv, RequestInv, SpeakTypeOK
  <2> QED
    BY <1>1, <1>3, <1>4, <1>5, <1>7, <2>1 DEF SpeakInv, RequestInv
<1>10. FinishInv'
  <2>1. \A f \in Finishers : finishing[f].at # "no" =>
           finishing[f].of # s /\ request'[finishing[f].of] = finishing[f].of
    BY <1>6, <1>7 DEF SpeakInv, FinishInv, SpeakTypeOK
  <2> QED
    BY <1>1, <1>3, <2>1 DEF SpeakInv, FinishInv
<1>11. OnceInv'
  BY <1>3, <1>4, <1>5 DEF SpeakInv, OnceInv
<1>12. WokenInv' /\ SpeaksWhenReady'
  BY <1>3, <1>4, <1>5 DEF SpeakInv, WokenInv, SpeakRequestIsKept, SpeaksWhenReady
<1>13. SlotIsAwaited'
  BY <1>1, <1>2, <1>3, <1>4, <1>5, <1>6 DEF SpeakInv, SpeakRequestIsKept, SlotIsAwaited
<1> QED
  BY <1>8, <1>9, <1>10, <1>11, <1>12, <1>13 DEF SpeakInv, SpeakRequestIsKept

LEMMA CallInv == ASSUME SpeakInv, NEW s \in Speakers, SpeakProgress(s) PROVE SpeakInv'
<1> USE SpeakAssumption
<1>1. /\ request[s] \in Speakers \cup {NoSpeaker} /\ path \in PathType
      /\ speaker[s] \in {"idle", "take"} => request[s] = NoSpeaker
      /\ speaker[s] = "woken" => request[s] \in failed \cup answered
      /\ speaker[s] \in AfterReady /\ request[s] # NoSpeaker => request[s] \in answered
  BY DEF SpeakInv, SpeakTypeOK, PathType, RequestInv, WokenInv, SpeakRequestIsKept,
     SpeaksWhenReady, AfterReady
<1>2. CASE SpeakBegin(s)
  BY <1>1, <1>2, CallGoesOn DEF SpeakBegin, SpeakStays, CallAt, ToWait
<1>3. CASE SpeakTake(s)
  BY <1>3, SpeakTakeInv
<1>4. CASE SpeakSend(s)
  <2>1. speaker[s] = "send" /\ UNCHANGED <<request, pendingRequest, path, failed, answered, readyMsg, resetTask>>
    BY <1>4 DEF SpeakSend, SpeakStays
  <2>2. CASE Step(s, "select") /\ UNCHANGED finishing
    BY <1>1, <2>1, <2>2, CallGoesOn DEF CallAt, ToWait, AfterReady
  <2>3. CASE Step(s, "finish") /\ Finishes(s, request[s])
    BY <2>1, <2>3, CallGivesUp
  <2> QED
    BY <1>4, <2>2, <2>3 DEF SpeakSend
<1>5. CASE SpeakSelect(s)
  BY <1>1, <1>5, CallGoesOn DEF SpeakSelect, SpeakStays, CallAt, ToWait, AfterReady
<1>6. CASE SpeakTimeout(s)
  BY <1>6, CallGivesUp DEF SpeakTimeout, SpeakStays
<1>7. CASE SpeakWoken(s)
  BY <1>1, <1>7, CallGoesOn DEF SpeakWoken, SpeakStays, CallAt, ToWait, AfterReady
<1>8. CASE SpeakSession(s)
  BY <1>1, <1>8, CallGoesOn DEF SpeakSession, SpeakStays, CallAt, ToWait, AfterReady
<1>9. CASE SpeakGuard(s)
  <2>1. path' \in PathType
    BY <1>1, <1>9 DEF SpeakGuard, PathType
  <2> QED
    BY <1>1, <1>9, <2>1, CallGoesOn DEF SpeakGuard, SpeakStays, CallAt, ToWait, AfterReady
<1>10. CASE SpeakQueue(s)
  <2>1. path' \in PathType
    BY <1>1, <1>10 DEF SpeakQueue, PathType
  <2> QED
    BY <1>1, <1>10, <2>1, CallGoesOn DEF SpeakQueue, SpeakStays, CallAt, ToWait, AfterReady
<1>11. CASE SpeechEnds(s)
  <2>1. path' \in PathType
    BY <1>1, <1>11 DEF SpeechEnds, PathType
  <2> QED
    BY <1>1, <1>11, <2>1, CallGoesOn DEF SpeechEnds, SpeakStays, CallAt, ToWait, AfterReady
<1>12. CASE SpeakGoodbye(s)
  <2>1. path' \in PathType
    BY <1>1, <1>12 DEF SpeakGoodbye, PathType
  <2>2. s \in Finishers /\ s \notin Readies /\ s \notin Resets /\ finishing[s].at = "no"
    BY <1>12 DEF SpeakGoodbye, SpeakInv, OnceInv, Finishers
  <2>3. /\ speaker' \in [Speakers -> CallAt] /\ speaker'[s] = "done"
        /\ \A u \in Speakers \ {s} : speaker'[u] = speaker[u]
    BY <1>12, StepFields DEF SpeakGoodbye, SpeakInv, CallAt
  <2>4. speaker[s] = "goodbye" /\ TakePending(s) /\ UNCHANGED <<request, failed, answered, readyMsg, resetTask>>
    BY <1>12 DEF SpeakGoodbye, SpeakStays
  <2>5. resetTask \in [Resets -> {"idle", "closed", "checked", "stale", "done"}]
    BY DEF SpeakInv, SpeakTypeOK
  <2> QED
    BY <2>1, <2>2, <2>3, <2>4, <2>5, PendingTaken
<1> QED
  BY <1>2, <1>3, <1>4, <1>5, <1>6, <1>7, <1>8, <1>9, <1>10, <1>11, <1>12 DEF SpeakProgress

LEMMA ResetInv ==
    ASSUME SpeakInv, NEW e \in Resets,
           \/ SessionCloses(e) \/ PeerGoodbye(e) \/ SpeakTransportReady(e) \/ TransportStale(e)
           \/ ResetTakes(e)
    PROVE  SpeakInv'
<1> USE SpeakAssumption
<1> DEFINE ResetAt == {"idle", "closed", "checked", "stale", "done"}
<1>1. resetTask \in [Resets -> ResetAt] /\ path \in PathType /\ readyMsg \in [Readies -> {"sent", "handled"}]
  BY DEF SpeakInv, SpeakTypeOK, PathType
<1>2. ASSUME NEW to \in ResetAt, ResetStep(e, to)
      PROVE  /\ resetTask' \in [Resets -> ResetAt] /\ resetTask'[e] = to
             /\ \A d \in Resets \ {e} : resetTask'[d] = resetTask[d]
  BY <1>1, <1>2 DEF ResetStep
<1>3. CASE SessionCloses(e)
  <2>1. path' \in PathType
    BY <1>1, <1>3 DEF SessionCloses, PathType
  <2> QED
    BY <1>1, <1>2, <1>3, <2>1, DeviceGoesOn DEF SessionCloses
<1>4. CASE PeerGoodbye(e)
  <2>1. path' \in PathType
    BY <1>1, <1>4 DEF PeerGoodbye, PathType
  <2> QED
    BY <1>1, <1>2, <1>4, <2>1, DeviceGoesOn DEF PeerGoodbye
<1>5. CASE SpeakTransportReady(e)
  BY <1>1, <1>2, <1>5, DeviceGoesOn DEF SpeakTransportReady
<1>6. CASE TransportStale(e)
  <2>1. path' \in PathType
    BY <1>1, <1>6 DEF TransportStale, PathType
  <2> QED
    BY <1>1, <1>2, <1>6, <2>1, DeviceGoesOn DEF TransportStale
<1>7. CASE ResetTakes(e)
  <2>1. path' \in PathType
    BY <1>1, <1>7 DEF ResetTakes, PathType
  <2>2. resetTask[e] # "done" /\ ResetStep(e, "done") /\ TakePending(e)
        /\ UNCHANGED <<speaker, request, failed, answered, readyMsg>>
    BY <1>7 DEF ResetTakes
  <2>3. /\ resetTask' \in [Resets -> ResetAt] /\ resetTask'[e] = "done"
        /\ \A d \in Resets \ {e} : resetTask'[d] = resetTask[d]
    BY <1>2, <2>2
  <2>4. e \in Finishers /\ e \notin Readies /\ e \notin Speakers /\ finishing[e].at = "no"
    BY <2>2 DEF Finishers, SpeakInv, OnceInv
  <2>5. speaker \in [Speakers -> CallAt]
    BY DEF SpeakInv, SpeakTypeOK, CallAt
  <2> QED
    BY <2>1, <2>2, <2>3, <2>4, <2>5, PendingTaken
<1> QED
  BY <1>3, <1>4, <1>5, <1>6, <1>7

LEMMA SpeakNextInv == SpeakInv /\ [SpeakNext]_speakVars => SpeakInv'
<1> SUFFICES ASSUME SpeakInv, [SpeakNext]_speakVars PROVE SpeakInv'
  OBVIOUS
<1>1. /\ path \in PathType /\ readyMsg \in [Readies -> {"sent", "handled"}]
      /\ resetTask \in [Resets -> {"idle", "closed", "checked", "stale", "done"}]
  BY DEF SpeakInv, SpeakTypeOK, PathType
<1>2. CASE UNCHANGED speakVars
  BY <1>1, <1>2, DeviceGoesOn DEF speakVars
<1>3. CASE SpeakHello
  <2>1. path' \in PathType
    BY <1>1, <1>3 DEF SpeakHello, PathType
  <2> QED
    BY <1>1, <1>3, <2>1, DeviceGoesOn DEF SpeakHello
<1>4. CASE \E s \in Speakers : SpeakProgress(s)
  BY <1>4, CallInv
<1>5. CASE \E f \in Finishers : FinishStep(f)
  BY <1>5, FinishSlotInv, FinishMarkInv, FinishNotifyInv DEF FinishStep
<1>6. CASE \E d \in Readies : SpeakReady(d)
  BY <1>6, ReadyInv
<1>7. CASE \E e \in Resets : \/ SessionCloses(e) \/ PeerGoodbye(e) \/ SpeakTransportReady(e)
                             \/ TransportStale(e) \/ ResetTakes(e)
  BY <1>7, ResetInv
<1> QED
  BY <1>2, <1>3, <1>4, <1>5, <1>6, <1>7 DEF SpeakNext

\* The inductive invariant: a request is named by its maker, finished once by each finisher,
\* and never back in the slot.
THEOREM SpeakInvariant == SpeakSpec => []SpeakInv
  BY SpeakInitInv, SpeakNextInv, PTL DEF SpeakSpec

\* Every variable of the speak path keeps its type.
THEOREM SpeakTypeCorrect == SpeakSpec => []SpeakTypeOK
<1>1. SpeakInv => SpeakTypeOK
  BY DEF SpeakInv
<1> QED
  BY <1>1, SpeakInvariant, PTL

\* A request to speak stays in its slot while its maker waits, and no call that waited
\* speaks before the device answered, for any number of calls, answers and resets.
THEOREM RequestsAreKept == SpeakSpec => []SpeakRequestIsKept
<1>1. SpeakInv => SpeakRequestIsKept
  BY DEF SpeakInv
<1> QED
  BY <1>1, SpeakInvariant, PTL

-----------------------------------------------------------------------------
\* The requests to a device

Pcs == {"idle", "register", "wait", "remove", "failed", "done"}
Asked == [of : Tasks, step : {1, 2}, id : Ids, era : 0 .. MaxResets]
Gots == [kind : {"none", "closed", "gone"}] \cup [kind : {"result", "error"}, req : Asked]
TaskType == [pc : Pcs, step : {1, 2}, id : Ids, era : 0 .. MaxResets, got : Gots]
TaskInv == task \in [Tasks -> TaskType]

\* The calls and refreshes that have taken a number.
Numbering == Calls \cup Refreshes
Begun(t) == t \in Numbering /\ task[t].pc # "idle"
Started == {t \in Numbering : Begun(t)}

\* The types, with the numbers counted: the counter of one transport is not used up.
TypeInv ==
    /\ initState \in {"Idle", "InFlight", "Ready"}
    /\ pending \in [Ids -> Tasks \cup {NoTask}]
    /\ nextId \in Int /\ 3 <= nextId /\ nextId <= 3 + Cardinality(Started)
    /\ TaskInv
    /\ asked \subseteq Asked
    /\ resets \in 0 .. MaxResets /\ mixed \in BOOLEAN

\* Initialisations use the numbers 1 and 2; every other task of a transport has a number
\* of its own from below the counter.
NumbersInv ==
    /\ \A t \in Tasks : task[t].era <= resets
    /\ \A t \in Inits : task[t].id = task[t].step
    /\ \A t \in Numbering :
          /\ task[t].step = 1
          /\ Begun(t) => task[t].id >= 3 /\ (task[t].era = resets => task[t].id < nextId)
          /\ ~ Begun(t) => task[t].id = 1
    /\ \A t, u \in Numbering :
          Begun(t) /\ Begun(u) /\ t # u => task[t].id # task[u].id \/ task[t].era # task[u].era

\* A request the device has not answered, or that the answer in a channel is about, is
\* the one its task is about, but for the two of an initialisation.
Told(r) == r.id >= 3 => r = Request(r.of) /\ Begun(r.of)
ToldInv ==
    /\ \A r \in asked : Told(r)
    /\ \A t \in Tasks : task[t].got.kind \in {"result", "error"} =>
          Told(task[t].got.req) /\ task[t].got.req.id = task[t].id

\* A task with an entry has no reply yet, and neither has one that has not begun; who
\* gives up in two steps initialises, and has heard what it gives up for.
OpenInv ==
    /\ \A i \in Ids : pending[i] # NoTask => task[pending[i]].got = NoReply
    /\ \A t \in Tasks : At(t, "idle") => task[t].got = NoReply
    /\ \A t \in Tasks : At(t, "failed") => t \in Inits /\ task[t].got # NoReply

\* A task that initialises has the runtime in flight, and it is the only one.
OneInit ==
    ~ mixed => \A t, u \in Inits : Running(t) =>
                   initState = "InFlight" /\ (Running(u) => t = u)

IInv == TypeInv /\ EntryIsLive /\ NumbersInv /\ ToldInv /\ OpenInv /\ OneInit

-----------------------------------------------------------------------------
(* What the steps do to the tasks                                          *)

\* Only t changes, and it is at pc with these fields.
Becomes(t, pc, step, id, era, got) ==
    /\ TaskInv'
    /\ \A u \in Tasks \ {t} : task'[u] = task[u]
    /\ task'[t].pc = pc /\ task'[t].step = step /\ task'[t].id = id
    /\ task'[t].era = era /\ task'[t].got = got

LEMMA NoReplyType == NoReply \in Gots /\ [kind |-> "closed"] \in Gots /\ [kind |-> "gone"] \in Gots
  BY DEF NoReply, Gots

LEMMA MoveBecomes ==
    ASSUME TaskInv, NEW t \in Tasks, NEW pc \in Pcs, Goto(t, pc)
    PROVE  Becomes(t, pc, task[t].step, task[t].id, task[t].era, task[t].got)
  BY DEF TaskInv, TaskType, Goto, Becomes

LEMMA InitBecomes ==
    ASSUME TaskInv, resets \in 0 .. MaxResets, NEW t \in Tasks,
           task' = [task EXCEPT ![t].pc = "register", ![t].era = resets]
    PROVE  Becomes(t, "register", task[t].step, task[t].id, resets, task[t].got)
  BY DEF TaskInv, TaskType, Becomes, Pcs

LEMMA NumberBecomes ==
    ASSUME TaskInv, resets \in 0 .. MaxResets, nextId \in Ids, NEW t \in Tasks, NEW pc \in Pcs,
           Numbered(t, pc)
    PROVE  Becomes(t, pc, task[t].step, nextId, resets, task[t].got)
  BY DEF TaskInv, TaskType, Becomes, Numbered

LEMMA SecondBecomes ==
    ASSUME TaskInv, 2 \in Ids, NEW t \in Tasks,
           task' = [task EXCEPT ![t].pc = "register", ![t].step = 2, ![t].id = 2, ![t].got = NoReply]
    PROVE  Becomes(t, "register", 2, 2, task[t].era, NoReply)
  BY NoReplyType DEF TaskInv, TaskType, Becomes, Pcs

\* A sender that leaves the table closes a channel without a reply, and changes no more.
ClosedBy(f, i, u) ==
    IF u = pending[i] /\ f[u].got = NoReply THEN [kind |-> "closed"] ELSE f[u].got

LEMMA DropCloses ==
    ASSUME NEW f \in [Tasks -> TaskType], NEW i \in Ids, pending \in [Ids -> Tasks \cup {NoTask}],
           NoTask \notin Tasks
    PROVE  /\ Drop(i, f) \in [Tasks -> TaskType]
           /\ \A u \in Tasks :
                 /\ Drop(i, f)[u].pc = f[u].pc /\ Drop(i, f)[u].step = f[u].step
                 /\ Drop(i, f)[u].id = f[u].id /\ Drop(i, f)[u].era = f[u].era
                 /\ Drop(i, f)[u].got = ClosedBy(f, i, u)
  <1>1. CASE pending[i] = NoTask
    BY <1>1 DEF Drop, ClosedBy
  <1>2. CASE pending[i] # NoTask
    <2> DEFINE w == pending[i]
               got == IF f[w].got = NoReply THEN [kind |-> "closed"] ELSE f[w].got
    <2>1. w \in Tasks
      BY <1>2
    <2>2. Drop(i, f) = [f EXCEPT ![w].got = got]
      BY <1>2 DEF Drop, Closing
    <2>3. got \in Gots
      BY <2>1, NoReplyType DEF TaskType
    <2>4. got = ClosedBy(f, i, w)
      BY DEF ClosedBy
    <2>5. \A u \in Tasks : u # w => f[u].got = ClosedBy(f, i, u)
      BY DEF ClosedBy
    <2> HIDE DEF w, got
    <2> QED
      BY <2>1, <2>2, <2>3, <2>4, <2>5 DEF TaskType
  <1> QED
    BY <1>1, <1>2

\* The sender that Register finds under its number is not its own.
LEMMA RegisterEffect ==
    ASSUME IInv, NoTask \notin Tasks, NEW t \in Tasks, Register(t)
    PROVE  /\ TaskInv'
           /\ \A u \in Tasks : /\ task'[u].step = task[u].step /\ task'[u].id = task[u].id
                               /\ task'[u].era = task[u].era
           /\ \A u \in Tasks \ {t} : /\ task'[u].pc = task[u].pc
                                     /\ task'[u].got = ClosedBy(task, task[t].id, u)
           /\ task'[t].pc \in {"wait", "remove"} /\ task'[t].got = NoReply
  <1> DEFINE i == task[t].id
             f(pc) == [task EXCEPT ![t].pc = pc, ![t].got = NoReply]
  <1>1. i \in Ids /\ pending[i] # t
    BY DEF IInv, TypeInv, TaskInv, TaskType, EntryIsLive, Register, At
  <1>2. PICK pc \in {"wait", "remove"} : task' = Drop(i, f(pc))
    BY DEF Register
  <1>3. /\ f(pc) \in [Tasks -> TaskType]
        /\ \A u \in Tasks \ {t} : f(pc)[u] = task[u]
        /\ f(pc)[t].pc = pc /\ f(pc)[t].got = NoReply
        /\ \A u \in Tasks : /\ f(pc)[u].step = task[u].step /\ f(pc)[u].id = task[u].id
                            /\ f(pc)[u].era = task[u].era
    BY NoReplyType DEF IInv, TypeInv, TaskInv, TaskType, Pcs
  <1>4. pending \in [Ids -> Tasks \cup {NoTask}]
    BY DEF IInv, TypeInv
  <1> HIDE DEF f
  <1>5. ClosedBy(f(pc), i, t) = NoReply
    BY <1>1, <1>3 DEF ClosedBy
  <1>6. \A u \in Tasks \ {t} : ClosedBy(f(pc), i, u) = ClosedBy(task, i, u)
    BY <1>3 DEF ClosedBy
  <1> QED
    BY <1>1, <1>2, <1>3, <1>4, <1>5, <1>6, DropCloses DEF TaskInv

LEMMA RemoveEffect ==
    ASSUME IInv, NoTask \notin Tasks, NEW t \in Tasks, Remove(t)
    PROVE  /\ TaskInv'
           /\ \A u \in Tasks : /\ task'[u].step = task[u].step /\ task'[u].id = task[u].id
                               /\ task'[u].era = task[u].era
           /\ \A u \in Tasks \ {t} : /\ task'[u].pc = task[u].pc
                                     /\ task'[u].got = ClosedBy(task, task[t].id, u)
           /\ task'[t].pc = Failed(t) /\ task'[t].got = [kind |-> "gone"]
  <1> DEFINE i == task[t].id
             f == [task EXCEPT ![t].pc = Failed(t), ![t].got = [kind |-> "gone"]]
  <1>1. i \in Ids
    BY DEF IInv, TypeInv, TaskInv, TaskType
  <1>2. task' = Drop(i, f)
    BY DEF Remove
  <1>3. Failed(t) \in Pcs
    BY DEF Failed, Pcs
  <1>4. /\ f \in [Tasks -> TaskType]
        /\ \A u \in Tasks \ {t} : f[u] = task[u]
        /\ f[t].pc = Failed(t) /\ f[t].got = [kind |-> "gone"]
        /\ \A u \in Tasks : /\ f[u].step = task[u].step /\ f[u].id = task[u].id
                            /\ f[u].era = task[u].era
    BY <1>3, NoReplyType DEF IInv, TypeInv, TaskInv, TaskType
  <1>5. pending \in [Ids -> Tasks \cup {NoTask}]
    BY DEF IInv, TypeInv
  <1> HIDE DEF f
  <1>6. ClosedBy(f, i, t) = [kind |-> "gone"]
    BY <1>4 DEF ClosedBy, NoReply
  <1>7. \A u \in Tasks \ {t} : ClosedBy(f, i, u) = ClosedBy(task, i, u)
    BY <1>4 DEF ClosedBy
  <1> QED
    BY <1>1, <1>2, <1>4, <1>5, <1>6, <1>7, DropCloses DEF TaskInv

\* The task registered under the number of an answer has no reply: it gets this one.
LEMMA AnswerEffect ==
    ASSUME IInv, NoTask \notin Tasks, NEW r \in asked, Answered(r)
    PROVE  \/ pending[r.id] = NoTask /\ UNCHANGED <<task, pending>>
           \/ \E t \in Tasks, kind \in {"result", "error"} :
                 /\ pending[r.id] = t /\ task[t].id = r.id /\ task[t].pc \in {"wait", "remove"}
                 /\ task[t].got = NoReply
                 /\ pending' = [pending EXCEPT ![r.id] = NoTask]
                 /\ Becomes(t, task[t].pc, task[t].step, task[t].id, task[t].era,
                            [kind |-> kind, req |-> r])
  <1>1. r \in Asked /\ r.id \in Ids
    BY DEF IInv, TypeInv, Asked
  <1>2. CASE pending[r.id] = NoTask
    <2>1. pending' = pending
      BY <1>1, <1>2 DEF Answered, Deliver, IInv, TypeInv
    <2> QED
      BY <1>2, <2>1 DEF Answered, Deliver
  <1>3. CASE pending[r.id] # NoTask
    <2> DEFINE t == pending[r.id]
    <2>1. t \in Tasks /\ task[t].id = r.id /\ task[t].pc \in {"wait", "remove"}
      BY <1>1, <1>3 DEF IInv, TypeInv, EntryIsLive
    <2>2. task[t].got = NoReply
      BY <1>1, <1>3 DEF IInv, OpenInv
    <2>3. PICK kind \in {"result", "error"} : Deliver(r, kind)
      BY DEF Answered
    <2> DEFINE got == [kind |-> kind, req |-> r]
    <2>4. task' = [task EXCEPT ![t].got = got]
      BY <1>3, <2>1, <2>2, <2>3 DEF Deliver, IInv, TypeInv, TaskInv, TaskType
    <2>5. got \in Gots
      BY <1>1 DEF Gots
    <2> HIDE DEF got
    <2>6. Becomes(t, task[t].pc, task[t].step, task[t].id, task[t].era, got)
      <3> HIDE DEF t
      <3> QED
        BY <2>1, <2>4, <2>5 DEF Becomes, IInv, TypeInv, TaskInv, TaskType
    <2> QED
      BY <1>3, <2>1, <2>2, <2>3, <2>6 DEF Deliver, got
  <1> QED
    BY <1>2, <1>3

-----------------------------------------------------------------------------
(* What keeps the invariant                                                *)

\* The counted numbers and the fields of calls and refreshes stay; initialisations may
\* go on to their second number.
Stays ==
    /\ TaskInv' /\ UNCHANGED <<nextId, resets>>
    /\ \A t \in Numbering : /\ task'[t].step = task[t].step /\ task'[t].id = task[t].id
                            /\ task'[t].era = task[t].era
                            /\ task'[t].pc = "idle" <=> task[t].pc = "idle"
    /\ \A t \in Inits : task'[t].id = task'[t].step /\ task'[t].era \in {task[t].era, resets}

LEMMA StaysKeeps ==
    ASSUME IInv, Stays
    PROVE  /\ NumbersInv' /\ Started' = Started
           /\ \A r : Told(r) => Told(r)'
  <1>1. \A t : Begun(t)' <=> Begun(t)
    BY DEF Stays, Begun
  <1>2. Started' = Started
    BY <1>1 DEF Started
  <1>3. NumbersInv'
    BY <1>1 DEF IInv, TypeInv, NumbersInv, Stays, Tasks, Numbering
  <1>4. ASSUME NEW r, Told(r)
        PROVE  Told(r)'
    BY <1>1, <1>4 DEF Told, Begun, Request, Stays
  <1> QED
    BY <1>2, <1>3, <1>4

LEMMA StaysTyped ==
    ASSUME IInv, Stays, initState' \in {"Idle", "InFlight", "Ready"},
           pending' \in [Ids -> Tasks \cup {NoTask}], asked' \subseteq Asked, mixed' \in BOOLEAN
    PROVE  TypeInv'
  BY StaysKeeps DEF IInv, TypeInv, Stays

\* A step in which no initialisation begins, and that leaves the state of the runtime.
LEMMA OneInitStays ==
    ASSUME OneInit, initState' = initState, mixed' = mixed,
           \A t \in Inits : Running(t)' => Running(t)
    PROVE  OneInit'
  BY DEF OneInit

\* A task that has begun goes on, without a new reply; it may not leave an entry behind.
LEMMA MoveKeeps ==
    ASSUME IInv, NEW t \in Tasks, NEW pc \in Pcs \ {"idle"}, Goto(t, pc),
           t \in Numbering => ~ At(t, "idle"), pc = "failed" => t \in Inits /\ task[t].got # NoReply,
           \A i \in Ids : pending[i] = t => pc \in {"wait", "remove"},
           initState' \in {"Idle", "InFlight", "Ready"}, mixed' \in BOOLEAN,
           UNCHANGED <<pending, nextId, asked, resets>>
    PROVE  TypeInv' /\ EntryIsLive' /\ NumbersInv' /\ ToldInv' /\ OpenInv'
  <1>1. Becomes(t, pc, task[t].step, task[t].id, task[t].era, task[t].got)
    BY MoveBecomes DEF IInv, TypeInv
  <1>2. Stays
    BY <1>1 DEF Becomes, Stays, IInv, NumbersInv, At, Numbering, Tasks
  <1>3. TypeInv' /\ NumbersInv'
    BY <1>2, StaysKeeps, StaysTyped DEF IInv, TypeInv
  <1>4. EntryIsLive'
    BY <1>1 DEF Becomes, IInv, TypeInv, EntryIsLive
  <1>5. ToldInv'
    BY <1>1, <1>2, StaysKeeps DEF Becomes, IInv, ToldInv
  <1>6. OpenInv'
    BY <1>1 DEF Becomes, IInv, TypeInv, OpenInv, At
  <1> QED
    BY <1>3, <1>4, <1>5, <1>6

\* A task that has a reply, or waits for nothing, has no entry.
LEMMA NoEntry ==
    ASSUME IInv, NEW t \in Tasks, task[t].got # NoReply \/ task[t].pc \notin {"wait", "remove"}
    PROVE  \A i \in Ids : pending[i] # t
  BY McpAssumption DEF IInv, EntryIsLive, OpenInv

\* A step of a task without an entry leaves the entries of the others as they are.
LEMMA UnlistedKeeps ==
    ASSUME IInv, NEW t \in Tasks, task[t].got # NoReply \/ task[t].pc \notin {"wait", "remove"},
           NEW pc, NEW step, NEW id, NEW era, NEW got, Becomes(t, pc, step, id, era, got),
           pc = "idle" => got = NoReply, pc = "failed" => t \in Inits /\ got # NoReply, pending' = pending
    PROVE  EntryIsLive' /\ OpenInv'
  <1>1. \A i \in Ids : pending[i] # t
    BY NoEntry
  <1>2. \A i \in Ids : pending[i] # NoTask =>
            pending[i] \in Tasks /\ task'[pending[i]] = task[pending[i]]
    BY <1>1 DEF Becomes, IInv, TypeInv
  <1>3. EntryIsLive'
    BY <1>2 DEF IInv, EntryIsLive
  <1>4. OpenInv'
    BY <1>2 DEF Becomes, IInv, OpenInv, At
  <1> QED
    BY <1>3, <1>4

LEMMA BeginInitKeeps ==
    ASSUME IInv, NEW t \in Tasks, BeginInit(t)
    PROVE  IInv'
  <1>1. Becomes(t, "register", task[t].step, task[t].id, resets, task[t].got)
    BY InitBecomes DEF BeginInit, IInv, TypeInv
  <1>2. t \in Inits /\ t \notin Numbering /\ At(t, "idle")
    BY McpAssumption DEF BeginInit, Numbering
  <1>3. Stays
    BY <1>1, <1>2 DEF Becomes, Stays, IInv, NumbersInv, BeginInit, Tasks, Numbering
  <1>4. TypeInv' /\ NumbersInv'
    BY <1>3, StaysKeeps, StaysTyped DEF IInv, TypeInv, BeginInit
  <1>5. EntryIsLive' /\ OpenInv'
    BY <1>1, <1>2, UnlistedKeeps DEF BeginInit, At
  <1>6. ToldInv'
    BY <1>1, <1>3, StaysKeeps DEF Becomes, IInv, ToldInv, BeginInit
  <1>7. OneInit'
    BY <1>1 DEF Becomes, IInv, OneInit, Running, BeginInit, Tasks
  <1> QED
    BY <1>4, <1>5, <1>6, <1>7 DEF IInv

LEMMA SkipInitKeeps ==
    ASSUME IInv, NEW t \in Tasks, SkipInit(t)
    PROVE  IInv'
  <1>1. t \in Inits /\ t \notin Numbering
    BY McpAssumption DEF SkipInit, Numbering
  <1>2. TypeInv' /\ EntryIsLive' /\ NumbersInv' /\ ToldInv' /\ OpenInv'
    BY <1>1, MoveKeeps, NoEntry DEF SkipInit, IInv, TypeInv, Pcs, At
  <1>3. Becomes(t, "done", task[t].step, task[t].id, task[t].era, task[t].got)
    BY MoveBecomes DEF SkipInit, IInv, TypeInv, Pcs
  <1>4. OneInit'
    BY <1>3, OneInitStays DEF SkipInit, IInv, Becomes, Running, Tasks
  <1> QED
    BY <1>2, <1>4 DEF IInv

\* There is a number left for a task that has not begun.
LEMMA NumberInIds ==
    ASSUME IInv, NEW t \in Numbering, At(t, "idle")
    PROVE  /\ nextId \in Ids /\ nextId >= 3
           /\ Cardinality(Started) \in Nat
           /\ Cardinality(Started \cup {t}) = Cardinality(Started) + 1
  <1> USE McpAssumption
  <1>1. /\ IsFiniteSet(Started) /\ Cardinality(Started) \in Nat
        /\ Cardinality(Started \cup {t}) = Cardinality(Started) + 1
        /\ Cardinality(Started) + 1 <= Cardinality(Tasks)
        /\ Cardinality(Tasks) \in Nat
    <2>1. Started \subseteq Tasks /\ t \in Tasks \ Started
      BY DEF Started, Begun, Numbering, Tasks, At
    <2>2. IsFiniteSet(Started) /\ IsFiniteSet(Started \cup {t})
      BY <2>1, FS_Subset, FS_AddElement
    <2>3. Cardinality(Started \cup {t}) = Cardinality(Started) + 1
      BY <2>1, <2>2, FS_AddElement
    <2>4. Cardinality(Started \cup {t}) <= Cardinality(Tasks)
      BY <2>1, <2>2, FS_Subset
    <2> QED
      BY <2>2, <2>3, <2>4, FS_CardinalityType
  <1>2. nextId \in Ids /\ nextId >= 3
    BY <1>1 DEF IInv, TypeInv, Ids
  <1> QED
    BY <1>1, <1>2

\* A call or a refresh takes the next number: no other task of the transport has it.
LEMMA NumberedKeeps ==
    ASSUME IInv, NEW t \in Numbering, At(t, "idle"), NEW pc \in {"register", "done"}, Numbered(t, pc)
    PROVE  IInv'
  <1> USE McpAssumption
  <1>1. /\ Cardinality(Started) \in Nat
        /\ Cardinality(Started \cup {t}) = Cardinality(Started) + 1
    BY NumberInIds
  <1>2. nextId \in Ids /\ nextId >= 3
    BY NumberInIds
  <1>3. Becomes(t, pc, 1, nextId, resets, NoReply)
    BY <1>2, NumberBecomes DEF IInv, TypeInv, NumbersInv, OpenInv, Pcs, Numbering, Tasks
  <1>4. \A u : Begun(u)' <=> Begun(u) \/ u = t
    BY <1>3 DEF Becomes, Begun, Numbering, Tasks
  <1>5. Started' = Started \cup {t}
    BY <1>4 DEF Started
  <1>6. TypeInv'
    BY <1>1, <1>3, <1>5 DEF IInv, TypeInv, Numbered, Becomes
  <1>7. t \in Tasks /\ ~ Begun(t) /\ t \notin Inits
    BY DEF Numbering, Tasks, Begun, At
  <1>8. NumbersInv'
    <2>1. \A u \in Tasks : task'[u].era <= resets'
      <3>1. resets \in Int /\ resets' = resets /\ \A u \in Tasks : task[u].era <= resets
        BY DEF IInv, TypeInv, NumbersInv, Numbered
      <3> QED
        BY <1>3, <3>1 DEF Becomes
    <2>2. \A u \in Inits : task'[u].id = task'[u].step
      BY <1>3, <1>7 DEF Becomes, IInv, NumbersInv, Tasks
    <2>3. \A u \in Numbering :
             /\ task'[u].step = 1
             /\ Begun(u)' => task'[u].id >= 3 /\ (task'[u].era = resets' => task'[u].id < nextId')
             /\ ~ Begun(u)' => task'[u].id = 1
      BY <1>2, <1>3, <1>4, <1>7 DEF Becomes, IInv, TypeInv, TaskInv, TaskType, Ids, NumbersInv,
           Numbered, Tasks, Numbering
    <2>4. \A u \in Numbering : Begun(u) /\ u # t =>
             task[u].id # nextId \/ task[u].era # resets
      BY DEF IInv, TypeInv, TaskInv, TaskType, NumbersInv, Ids, Tasks, Numbering
    <2>5. \A u, w \in Numbering : Begun(u)' /\ Begun(w)' /\ u # w =>
             task'[u].id # task'[w].id \/ task'[u].era # task'[w].era
      BY <1>3, <1>4, <2>4 DEF Becomes, IInv, NumbersInv, Numbering, Tasks
    <2> QED
      BY <2>1, <2>2, <2>3, <2>5 DEF NumbersInv
  <1>9. EntryIsLive' /\ OpenInv'
    BY <1>3, <1>7, UnlistedKeeps DEF Numbered, At
  <1>10. ToldInv'
    <2>1. ASSUME NEW r, Told(r)
          PROVE  Told(r)'
      BY <1>3, <1>4, <1>7, <2>1 DEF Told, Request, Becomes, Begun, Numbering, Tasks
    <2>2. \A r \in asked' : Told(r)'
      BY <2>1 DEF IInv, ToldInv, Numbered
    <2>3. task'[t].got.kind = "none"
      BY <1>3 DEF Becomes, NoReply
    <2>4. ASSUME NEW u \in Tasks, task'[u].got.kind \in {"result", "error"}
          PROVE  Told(task[u].got.req)' /\ task'[u].got.req.id = task'[u].id
      <3>1. task'[u] = task[u]
        BY <1>3, <2>3, <2>4 DEF Becomes
      <3>2. Told(task[u].got.req) /\ task[u].got.req.id = task[u].id
        BY <2>4, <3>1 DEF IInv, ToldInv
      <3> QED
        BY <2>1, <3>1, <3>2 DEF Told
    <2> QED
      BY <2>2, <2>4 DEF ToldInv
  <1>11. OneInit'
    BY <1>3, <1>7, OneInitStays DEF Becomes, IInv, Numbered, Running, Tasks
  <1> QED
    BY <1>6, <1>8, <1>9, <1>10, <1>11 DEF IInv

\* The moves of a task that leave the runtime as it is.
LEMMA ExpiresKeeps ==
    ASSUME IInv, NEW t \in Tasks, Expires(t)
    PROVE  IInv'
  <1>1. TypeInv' /\ EntryIsLive' /\ NumbersInv' /\ ToldInv' /\ OpenInv'
    BY MoveKeeps DEF Expires, IInv, TypeInv, Pcs, At
  <1>2. Becomes(t, "remove", task[t].step, task[t].id, task[t].era, task[t].got)
    BY MoveBecomes DEF Expires, IInv, TypeInv, Pcs
  <1>3. OneInit'
    BY <1>2, OneInitStays DEF Expires, IInv, Becomes, Running, At, Tasks
  <1> QED
    BY <1>1, <1>3 DEF IInv

\* Who has heard its answer has no entry.
LEMMA HeardHasNoEntry ==
    ASSUME IInv, NEW t \in Tasks, NEW kinds, Heard(t, kinds), "none" \notin kinds
    PROVE  task[t].got # NoReply /\ \A i \in Ids : pending[i] # t
  <1>1. task[t].got # NoReply
    BY DEF Heard, NoReply
  <1> QED
    BY <1>1, NoEntry

LEMMA EndsKeep ==
    ASSUME IInv, NEW t \in Tasks, CallDone(t) \/ Refused(t)
    PROVE  IInv'
  <1>1. PICK pc \in {"done", "failed"} : Goto(t, pc) /\ (pc = "failed" => t \in Inits)
    BY DEF CallDone, Refused, Failed
  <1>2. /\ At(t, "wait") /\ task[t].got # NoReply /\ \A i \in Ids : pending[i] # t
        /\ UNCHANGED <<initState, pending, nextId, asked, resets, mixed>>
    BY HeardHasNoEntry DEF CallDone, Refused, Heard
  <1>3. TypeInv' /\ EntryIsLive' /\ NumbersInv' /\ ToldInv' /\ OpenInv'
    BY <1>1, <1>2, MoveKeeps DEF IInv, TypeInv, Pcs, At
  <1>4. Becomes(t, pc, task[t].step, task[t].id, task[t].era, task[t].got)
    BY <1>1, MoveBecomes DEF IInv, TypeInv, Pcs
  <1>5. OneInit'
    BY <1>2, <1>4, OneInitStays DEF IInv, Becomes, Running, At, Tasks
  <1> QED
    BY <1>3, <1>5 DEF IInv

\* The end of an initialisation: it was the only one.
LEMMA InitEndKeeps ==
    ASSUME IInv, NEW t \in Tasks, SecondDone(t) \/ GiveUp(t)
    PROVE  IInv'
  <1>1. /\ Goto(t, "done") /\ initState' \in {"Idle", "Ready"} /\ Running(t)
        /\ UNCHANGED <<pending, nextId, asked, resets, mixed>> /\ ~ At(t, "idle")
    BY DEF SecondDone, GiveUp, Heard, At, Running
  <1>2. t \in Inits /\ \A i \in Ids : pending[i] # t
    <2>1. CASE SecondDone(t)
      BY <2>1, HeardHasNoEntry DEF SecondDone
    <2>2. CASE GiveUp(t)
      BY <2>2, NoEntry DEF GiveUp, IInv, OpenInv, At
    <2> QED
      BY <2>1, <2>2
  <1>3. TypeInv' /\ EntryIsLive' /\ NumbersInv' /\ ToldInv' /\ OpenInv'
    BY <1>1, <1>2, MoveKeeps DEF IInv, TypeInv, Pcs
  <1>4. Becomes(t, "done", task[t].step, task[t].id, task[t].era, task[t].got)
    BY <1>1, MoveBecomes DEF IInv, TypeInv, Pcs
  <1>5. OneInit'
    BY <1>1, <1>2, <1>4 DEF IInv, OneInit, Becomes, Running, Tasks
  <1> QED
    BY <1>3, <1>5 DEF IInv

LEMMA RefreshDoneKeeps ==
    ASSUME IInv, NEW t \in Tasks, RefreshDone(t)
    PROVE  IInv'
  <1>1. /\ t \notin Inits /\ At(t, "wait") /\ \A i \in Ids : pending[i] # t
        /\ Goto(t, "done") /\ initState' = "Ready" /\ mixed' = (mixed \/ initState = "InFlight")
    BY McpAssumption, HeardHasNoEntry DEF RefreshDone, Heard
  <1>2. TypeInv' /\ EntryIsLive' /\ NumbersInv' /\ ToldInv' /\ OpenInv'
    BY <1>1, MoveKeeps DEF RefreshDone, IInv, TypeInv, Pcs, At
  <1>3. Becomes(t, "done", task[t].step, task[t].id, task[t].era, task[t].got)
    BY <1>1, MoveBecomes DEF IInv, TypeInv, Pcs
  <1>4. OneInit'
    BY <1>1, <1>3 DEF IInv, OneInit, Becomes, Running, Tasks
  <1> QED
    BY <1>2, <1>4 DEF IInv

LEMMA TwoIsAnId == ASSUME NEW t \in Tasks PROVE 1 \in Ids /\ 2 \in Ids
  BY McpAssumption, FS_CardinalityType DEF Ids

LEMMA FirstDoneKeeps ==
    ASSUME IInv, NEW t \in Tasks, FirstDone(t)
    PROVE  IInv'
  <1>1. PICK pc \in {"register", "failed"}, step \in {1, 2}, got \in {task[t].got, NoReply} :
            /\ Becomes(t, pc, step, step, task[t].era, got)
            /\ got = NoReply \/ (got = task[t].got /\ step = task[t].id)
            /\ pc = "failed" => got # NoReply
    <2>1. task[t].id = task[t].step /\ task[t].step = 1
      BY DEF FirstDone, IInv, NumbersInv
    <2>2. CASE Goto(t, "failed")
      BY <2>1, <2>2, MoveBecomes, HeardHasNoEntry DEF IInv, TypeInv, Pcs, FirstDone
    <2>3. CASE ~ Goto(t, "failed")
      BY <2>1, <2>3, SecondBecomes, TwoIsAnId DEF FirstDone, IInv, TypeInv
    <2> QED
      BY <2>2, <2>3
  <1>2. /\ t \in Inits /\ t \notin Numbering /\ At(t, "wait") /\ task[t].got # NoReply
        /\ UNCHANGED <<initState, pending, nextId, asked, resets, mixed>>
    BY McpAssumption, HeardHasNoEntry DEF FirstDone, Heard, Numbering
  <1>3. Stays
    BY <1>1, <1>2 DEF Becomes, Stays, IInv, NumbersInv, Tasks, Numbering
  <1>4. TypeInv' /\ NumbersInv'
    BY <1>2, <1>3, StaysKeeps, StaysTyped DEF IInv, TypeInv
  <1>5. EntryIsLive' /\ OpenInv'
    BY <1>1, <1>2, UnlistedKeeps
  <1>6. ToldInv'
    <2>1. \A r : Told(r) => Told(r)'
      BY <1>3, StaysKeeps
    <2>2. \A r \in asked' : Told(r)'
      BY <1>2, <2>1 DEF IInv, ToldInv
    <2>3. ASSUME NEW u \in Tasks, task'[u].got.kind \in {"result", "error"}
          PROVE  Told(task[u].got.req)' /\ task'[u].got.req.id = task'[u].id
      <3>1. task'[u].got = task[u].got /\ task'[u].id = task[u].id
        BY <1>1, <2>3 DEF Becomes, NoReply
      <3>2. Told(task[u].got.req) /\ task[u].got.req.id = task[u].id
        BY <2>3, <3>1 DEF IInv, ToldInv
      <3> QED
        BY <2>1, <3>1, <3>2 DEF Told
    <2> QED
      BY <2>2, <2>3 DEF ToldInv
  <1>7. OneInit'
    BY <1>1, <1>2, OneInitStays DEF Becomes, IInv, Running, At, Tasks
  <1> QED
    BY <1>4, <1>5, <1>6, <1>7 DEF IInv

\* A number is registered: whoever had it has its channel closed.
LEMMA RegisterKeeps ==
    ASSUME IInv, NEW t \in Tasks, Register(t)
    PROVE  IInv'
  <1> USE McpAssumption
  <1> DEFINE i == task[t].id
  <1>1. /\ At(t, "register") /\ i \in Ids /\ pending \in [Ids -> Tasks \cup {NoTask}]
        /\ pending' = [pending EXCEPT ![i] = t]
        /\ UNCHANGED <<initState, nextId, resets, mixed>>
    BY DEF Register, IInv, TypeInv, TaskInv, TaskType
  <1>2. \A j \in Ids : pending[j] # t
    BY <1>1, NoEntry DEF At
  <1>3. Stays
    BY <1>1, RegisterEffect DEF Stays, IInv, NumbersInv, Numbering, Tasks, At
  <1>4. Request(t) \in Asked /\ Told(Request(t))
    <2>1. Request(t) \in Asked
      BY DEF Request, Asked, IInv, TypeInv, TaskInv, TaskType
    <2>2. ASSUME i >= 3 PROVE Begun(t)
      BY <1>1, <2>2 DEF Begun, At, IInv, TypeInv, TaskInv, TaskType, NumbersInv, Numbering, Tasks
    <2> QED
      BY <2>1, <2>2 DEF Told, Request
  <1>5. asked' \subseteq asked \cup {Request(t)}
    BY DEF Register
  <1>6. TypeInv' /\ NumbersInv'
    <2>1. pending' \in [Ids -> Tasks \cup {NoTask}] /\ asked' \subseteq Asked
      BY <1>1, <1>4, <1>5 DEF IInv, TypeInv
    <2> QED
      BY <1>1, <1>3, <2>1, StaysKeeps, StaysTyped DEF IInv, TypeInv
  <1>7. \A j \in Ids \ {i} : pending[j] # NoTask =>
            /\ pending[j] \in Tasks /\ pending[j] # t
            /\ task'[pending[j]].pc = task[pending[j]].pc
            /\ task'[pending[j]].id = j /\ task'[pending[j]].got = NoReply
    BY <1>1, <1>2, RegisterEffect DEF IInv, EntryIsLive, OpenInv, ClosedBy
  <1>8. EntryIsLive'
    BY <1>1, <1>7, RegisterEffect DEF IInv, EntryIsLive
  <1>9. ToldInv'
    <2>1. \A r : Told(r) => Told(r)'
      BY <1>3, StaysKeeps
    <2>2. \A r \in asked' : Told(r)'
      <3> DEFINE q == Request(t)
      <3>1. Told(q) /\ asked' \subseteq asked \cup {q}
        BY <1>4, <1>5
      <3> HIDE DEF q
      <3> QED
        BY <2>1, <3>1 DEF ToldInv, IInv
    <2>3. ASSUME NEW u \in Tasks, task'[u].got.kind \in {"result", "error"}
          PROVE  task'[u].got = task[u].got /\ task'[u].id = task[u].id
      BY <2>3, RegisterEffect DEF NoReply, ClosedBy
    <2> QED
      BY <2>1, <2>2, <2>3 DEF ToldInv, IInv
  <1>10. OpenInv'
    <2>1. \A j \in Ids : pending'[j] # NoTask => task'[pending'[j]].got = NoReply
      BY <1>1, <1>7, RegisterEffect
    <2>2. ASSUME NEW u \in Tasks, task'[u].pc \in {"idle", "failed"}
          PROVE  u # t /\ task[u].pc = task'[u].pc /\ pending[i] # u /\ task'[u].got = task[u].got
      BY <1>1, <2>2, RegisterEffect DEF IInv, EntryIsLive, ClosedBy
    <2> QED
      BY <2>1, <2>2 DEF OpenInv, IInv, At
  <1>11. OneInit'
    BY <1>1, RegisterEffect, OneInitStays DEF IInv, Running, At, Tasks
  <1> QED
    BY <1>6, <1>8, <1>9, <1>10, <1>11 DEF IInv

LEMMA RemoveKeeps ==
    ASSUME IInv, NEW t \in Tasks, Remove(t)
    PROVE  IInv'
  <1> USE McpAssumption
  <1> DEFINE i == task[t].id
  <1>1. /\ At(t, "remove") /\ i \in Ids /\ pending \in [Ids -> Tasks \cup {NoTask}]
        /\ pending' = [pending EXCEPT ![i] = NoTask]
        /\ UNCHANGED <<initState, nextId, asked, resets, mixed>>
    BY DEF Remove, IInv, TypeInv, TaskInv, TaskType
  <1>2. Failed(t) \in {"failed", "done"} /\ (Failed(t) = "failed" => t \in Inits)
    BY DEF Failed
  <1>3. Stays
    BY <1>1, <1>2, RemoveEffect DEF Stays, IInv, NumbersInv, Numbering, Tasks, At
  <1>4. TypeInv' /\ NumbersInv'
    BY <1>1, <1>3, StaysKeeps, StaysTyped DEF IInv, TypeInv
  <1>5. \A j \in Ids \ {i} : pending[j] # NoTask =>
            /\ pending[j] \in Tasks /\ pending[j] # t
            /\ task'[pending[j]].pc = task[pending[j]].pc
            /\ task'[pending[j]].id = j /\ task'[pending[j]].got = NoReply
    BY <1>1, RemoveEffect DEF IInv, EntryIsLive, OpenInv, ClosedBy
  <1>6. EntryIsLive'
    BY <1>1, <1>5 DEF IInv, EntryIsLive
  <1>7. ToldInv'
    <2>1. \A r : Told(r) => Told(r)'
      BY <1>3, StaysKeeps
    <2>2. ASSUME NEW u \in Tasks, task'[u].got.kind \in {"result", "error"}
          PROVE  task'[u].got = task[u].got /\ task'[u].id = task[u].id
      BY <2>2, RemoveEffect DEF ClosedBy
    <2> QED
      BY <1>1, <2>1, <2>2 DEF ToldInv, IInv
  <1>8. OpenInv'
    <2>1. \A j \in Ids : pending'[j] # NoTask => task'[pending'[j]].got = NoReply
      BY <1>1, <1>5
    <2>2. ASSUME NEW u \in Tasks \ {t}, task'[u].pc \in {"idle", "failed"}
          PROVE  task[u].pc = task'[u].pc /\ pending[i] # u /\ task'[u].got = task[u].got
      BY <1>1, <2>2, RemoveEffect DEF IInv, EntryIsLive, ClosedBy
    <2> QED
      BY <1>2, <2>1, <2>2, RemoveEffect DEF OpenInv, IInv, At, NoReply
  <1>9. OneInit'
    BY <1>1, RemoveEffect, OneInitStays DEF IInv, Running, At, Tasks
  <1> QED
    BY <1>4, <1>6, <1>7, <1>8, <1>9 DEF IInv

LEMMA AnsweredKeeps ==
    ASSUME IInv, NEW r \in asked, Answered(r)
    PROVE  IInv'
  <1> USE McpAssumption
  <1>1. /\ asked' = asked \ {r} /\ UNCHANGED <<initState, nextId, resets, mixed>>
        /\ r \in Asked /\ r.id \in Ids /\ Told(r)
    BY DEF Answered, IInv, TypeInv, Asked, ToldInv
  <1>2. CASE UNCHANGED <<task, pending>>
    <2>1. Stays
      BY <1>1, <1>2 DEF IInv, TypeInv, TaskInv, NumbersInv, Stays
    <2>2. TypeInv' /\ NumbersInv'
      BY <1>1, <1>2, <2>1, StaysTyped, StaysKeeps DEF IInv, TypeInv
    <2>3. EntryIsLive' /\ OpenInv' /\ OneInit'
      BY <1>1, <1>2 DEF IInv, EntryIsLive, OpenInv, OneInit, At, Running
    <2>4. ToldInv'
      BY <1>1, <1>2 DEF IInv, ToldInv, Told, Request, Begun
    <2> QED
      BY <2>2, <2>3, <2>4 DEF IInv
  <1>3. ASSUME NEW t \in Tasks, NEW kind \in {"result", "error"},
               pending[r.id] = t, task[t].id = r.id, task[t].pc \in {"wait", "remove"},
               pending' = [pending EXCEPT ![r.id] = NoTask],
               Becomes(t, task[t].pc, task[t].step, task[t].id, task[t].era,
                       [kind |-> kind, req |-> r])
        PROVE  IInv'
    <2>1. Stays
      BY <1>1, <1>3 DEF Becomes, Stays, IInv, NumbersInv, Numbering, Tasks
    <2>2. TypeInv' /\ NumbersInv'
      BY <1>1, <1>3, <2>1, StaysKeeps, StaysTyped DEF IInv, TypeInv
    <2>3. \A j \in Ids : pending'[j] # NoTask =>
              pending'[j] = pending[j] /\ pending[j] \in Tasks \ {t}
              /\ task'[pending[j]] = task[pending[j]]
      BY <1>1, <1>3 DEF Becomes, IInv, TypeInv, EntryIsLive
    <2>4. EntryIsLive'
      BY <2>3 DEF IInv, EntryIsLive
    <2>5. OpenInv'
      BY <1>3, <2>3 DEF IInv, OpenInv, Becomes, At
    <2>6. \A q : Told(q) => Told(q)'
      BY <2>1, StaysKeeps
    <2>7. ToldInv'
      BY <1>1, <1>3, <2>6 DEF IInv, ToldInv, Becomes
    <2>8. OneInit'
      BY <1>1, <1>3, OneInitStays DEF IInv, Becomes, Running, Tasks
    <2> QED
      BY <2>2, <2>4, <2>5, <2>7, <2>8 DEF IInv
  <1> QED
    BY <1>2, <1>3, AnswerEffect

\* The numbers start over: those that were taken belong to an earlier transport.
LEMMA TransportReadyKeeps ==
    ASSUME IInv, TransportReady
    PROVE  IInv'
  <1> USE McpAssumption
  <1>1. Cardinality(Started) \in Nat /\ Started' = Started
    <2>1. Started \subseteq Tasks
      BY DEF Started, Numbering, Tasks
    <2>2. Started' = Started
      BY DEF Started, Begun, TransportReady
    <2> QED
      BY <2>1, <2>2, FS_Subset, FS_CardinalityType
  <1>2. TypeInv'
    BY <1>1 DEF IInv, TypeInv, TaskInv, TransportReady
  <1>3. NumbersInv'
    BY DEF IInv, TypeInv, TaskInv, TaskType, NumbersInv, TransportReady, Begun, Tasks, Numbering
  <1>4. EntryIsLive' /\ OpenInv'
    BY DEF IInv, EntryIsLive, OpenInv, At, TransportReady
  <1>5. ToldInv'
    BY DEF IInv, ToldInv, Told, Request, Begun, TransportReady
  <1>6. OneInit'
    BY DEF IInv, OneInit, Running, TransportReady
  <1> QED
    BY <1>2, <1>3, <1>4, <1>5, <1>6 DEF IInv

-----------------------------------------------------------------------------
(* The invariant                                                           *)

LEMMA InitInv == ASSUME McpInit PROVE IInv
  <1> USE McpAssumption
  <1>1. /\ \A t \in Tasks : task[t] = [pc |-> "idle", step |-> 1, id |-> 1, era |-> 0, got |-> NoReply]
        /\ task \in [Tasks -> TaskType]
    <2>1. \A t \in Tasks : 1 \in Ids
      BY TwoIsAnId
    <2> QED
      BY <2>1, NoReplyType DEF McpInit, TaskType, Pcs
  <1>2. Started = {} /\ Cardinality(Started) = 0
    BY <1>1, FS_EmptySet DEF Started, Begun, Numbering, Tasks
  <1>3. TypeInv
    <2>1. nextId = 3 /\ 3 <= 3 + Cardinality(Started)
      BY <1>2 DEF McpInit
    <2>2. pending \in [Ids -> Tasks \cup {NoTask}] /\ asked \subseteq Asked
      BY DEF McpInit
    <2>3. initState = "Idle" /\ resets \in 0 .. MaxResets
      BY DEF McpInit
    <2>4. mixed \in BOOLEAN
      BY Zenon DEF McpInit
    <2> QED
      BY <1>1, <2>1, <2>2, <2>3, <2>4 DEF TypeInv, TaskInv
  <1>4. EntryIsLive /\ OpenInv /\ OneInit
    BY <1>1 DEF McpInit, EntryIsLive, OpenInv, OneInit, At, Running, Tasks
  <1>5. NumbersInv
    BY <1>1 DEF McpInit, NumbersInv, Begun, Tasks, Numbering
  <1>6. ToldInv
    BY <1>1 DEF McpInit, ToldInv, NoReply
  <1> QED
    BY <1>3, <1>4, <1>5, <1>6 DEF IInv

LEMMA StepInv == ASSUME IInv, [McpNext]_mcpVars PROVE IInv'
  <1>1. ASSUME NEW t \in Tasks, BeginCall(t) \/ BeginRefresh(t)
        PROVE  IInv'
    BY <1>1, NumberedKeeps DEF BeginCall, BeginRefresh, Numbering
  <1>2. ASSUME NEW t \in Tasks, SendAndWait(t)
        PROVE  IInv'
    BY <1>2, RegisterKeeps, ExpiresKeeps, RemoveKeeps DEF SendAndWait
  <1>3. ASSUME NEW t \in Tasks, Outcome(t)
        PROVE  IInv'
    BY <1>3, FirstDoneKeeps, InitEndKeeps, RefreshDoneKeeps, EndsKeep DEF Outcome
  <1>4. CASE UNCHANGED mcpVars
    BY <1>4 DEF mcpVars, IInv, TypeInv, TaskInv, EntryIsLive, NumbersInv, ToldInv, Told, OpenInv,
         OneInit, Begun, Started, Request, At, Running
  <1> QED
    BY <1>1, <1>2, <1>3, <1>4, BeginInitKeeps, SkipInitKeeps, AnsweredKeeps, TransportReadyKeeps
    DEF McpNext

\* The inductive invariant holds in every reachable state of the runtime.
THEOREM McpInvariant == McpSpec => []IInv
  <1>1. McpInit => IInv
    BY InitInv
  <1>2. IInv /\ [McpNext]_mcpVars => IInv'
    BY StepInv
  <1> QED
    BY <1>1, <1>2, PTL DEF McpSpec

LEMMA McpTypesHold == ASSUME IInv PROVE McpTypeOK
  <1> USE McpAssumption
  <1>1. Started \subseteq Tasks
    BY DEF Started, Numbering, Tasks
  <1>2. /\ Cardinality(Started) \in Nat /\ Cardinality(Tasks) \in Nat
        /\ Cardinality(Started) <= Cardinality(Tasks)
    BY <1>1, FS_Subset, FS_CardinalityType
  <1>3. nextId \in Ids \cup {3 + Cardinality(Tasks)}
    BY <1>2 DEF IInv, TypeInv, Ids
  <1>4. \A t \in Tasks : task[t].got.kind \in {"none", "closed", "gone", "result", "error"}
    BY DEF IInv, TypeInv, TaskInv, TaskType, Gots
  <1>5. \A t \in Tasks : 
          /\ task[t].pc \in {"idle", "register", "wait", "remove", "failed", "done"}
          /\ task[t].step \in {1, 2} /\ task[t].id \in Ids /\ task[t].era \in 0 .. MaxResets
    BY DEF IInv, TypeInv, TaskInv, TaskType, Pcs
  <1> QED
    BY <1>3, <1>4, <1>5 DEF IInv, TypeInv, McpTypeOK, Asked

\* Every value is of its type, and the counter of numbers stays within the bound that one
\* number for each task gives, for every number of tasks and transports.
THEOREM McpTypeCorrect == McpSpec => []McpTypeOK
  BY McpInvariant, McpTypesHold, PTL

\* The table leaks nothing, whatever times out, fails or comes late: an entry belongs to a
\* task that waits under its number or is about to remove it.
THEOREM EntriesAreLive == McpSpec => []EntryIsLive
  <1>1. IInv => EntryIsLive
    BY DEF IInv
  <1> QED
    BY <1>1, McpInvariant, PTL

\* On one transport, a call or a refresh is never handed the answer to another's request.
THEOREM AnswersAreOwn == McpSpec => []OwnAnswer
  <1>1. IInv => OwnAnswer
    <2> SUFFICES ASSUME IInv, NEW t \in Tasks, task[t].got.kind \in {"result", "error"},
                        task[t].id >= 3, task[t].got.req.era = task[t].era
                 PROVE  task[t].got.req = Request(t)
      BY DEF OwnAnswer, IInv, TypeInv, TaskInv, TaskType, Ids
    <2> DEFINE r == task[t].got.req
    <2>1. r \in Asked
      BY DEF IInv, TypeInv, TaskInv, TaskType, Gots
    <2>2. r.id = task[t].id /\ r = Request(r.of) /\ Begun(r.of)
      BY DEF IInv, ToldInv, Told
    <2>3. r.of \in Numbering /\ task[r.of].id = task[t].id /\ task[r.of].era = task[t].era
      BY <2>2 DEF Request, Begun
    <2>4. t \in Numbering /\ Begun(t)
      BY DEF IInv, TypeInv, TaskInv, TaskType, NumbersInv, Begun, Numbering, Tasks
    <2>5. r.of = t
      BY <2>2, <2>3, <2>4 DEF IInv, NumbersInv
    <2> QED
      BY <2>2, <2>5
  <1> QED
    BY <1>1, McpInvariant, PTL

\* However many hellos come, one initialisation runs at a time, unless a transport was
\* re-established or a refresh made the runtime ready during one.
THEOREM OneInitialises == McpSpec => []OneInitUnlessMixed
  <1>1. IInv => OneInitUnlessMixed
    <2> SUFFICES ASSUME IInv, ~ mixed PROVE Cardinality({t \in Inits : Running(t)}) <= 1
      BY DEF OneInitUnlessMixed, IInv, TypeInv
    <2> DEFINE R == {t \in Inits : Running(t)}
    <2>1. CASE R = {}
      BY <2>1, FS_EmptySet
    <2>2. ASSUME NEW t \in R PROVE R = {t}
      BY DEF IInv, OneInit
    <2>3. \A t : Cardinality({t}) = 1
      BY FS_Singleton
    <2> QED
      BY <2>1, <2>2, <2>3
  <1> QED
    BY <1>1, McpInvariant, PTL

-----------------------------------------------------------------------------
(* The table is one                                                        *)

Steps == {1, 2}

\* The request of t's current step is at pc with the reply got.
OutcomeOf(pc, got) ==
    IF pc \in {"idle", "register"} \/ (pc = "done" /\ got = NoReply) THEN "new"
    ELSE IF pc = "remove" \/ got.kind \in {"gone", "closed"} THEN "failed"
    ELSE IF got = NoReply THEN "open" ELSE "answered"

\* The request of step s, of a task at pc of this step with the reply got.
StateOf(s, step, pc, got) ==
    IF s < step THEN "answered" ELSE IF s > step THEN "new" ELSE OutcomeOf(pc, got)

Now == [u \in Tasks |-> [v \in Steps |-> StateOf(v, task[u].step, task[u].pc, task[u].got)]]

\* The outcomes and the holders that the refinement gives the table of RequestTable.
Outcomes == [r \in Requests |-> McpOutcome(r[1], r[2])]
Holders == [i \in Ids |-> IF pending[i] = NoTask THEN <<NoTask, 1>>
                         ELSE <<pending[i], task[pending[i]].step>>]

LEMMA RequestsAre ==
    /\ \A u \in Tasks, v \in Steps : <<u, v>> \in Requests
    /\ \A r \in Requests : \E u \in Tasks, v \in Steps : r = <<u, v>>
  BY DEF Requests, Steps

LEMMA OutcomesAre ==
    ASSUME TaskInv, TaskInv', NEW u \in Tasks, NEW v \in Steps
    PROVE  Outcomes[<<u, v>>] = Now[u][v] /\ Outcomes'[<<u, v>>] = Now'[u][v]
  <1>1. <<u, v>> \in Requests
    BY RequestsAre
  <1>2. Outcomes[<<u, v>>] = McpOutcome(u, v) /\ Outcomes'[<<u, v>>] = McpOutcome(u, v)'
    BY <1>1 DEF Outcomes
  <1>3. McpOutcome(u, v) = StateOf(v, task[u].step, task[u].pc, task[u].got)
    BY DEF StateOf, McpOutcome, OutcomeOf, Unasked, At, TaskInv, TaskType, Steps
  <1>4. McpOutcome(u, v)' = StateOf(v, task'[u].step, task'[u].pc, task'[u].got)
    BY DEF StateOf, McpOutcome, OutcomeOf, Unasked, At, TaskInv, TaskType, Steps
  <1> QED
    BY <1>2, <1>3, <1>4 DEF Now

\* What of a task stays as it was leaves its requests as they were.
LEMMA SameTask ==
    ASSUME NEW u \in Tasks, task'[u].step = task[u].step,
           OutcomeOf(task'[u].pc, task'[u].got) = OutcomeOf(task[u].pc, task[u].got)
    PROVE  \A v \in Steps : Now'[u][v] = Now[u][v]
  BY DEF Now, StateOf

\* A step that changes neither the outcomes nor the holders is none of the table's.
LEMMA Unseen ==
    ASSUME IInv, TaskInv', NEW t \in Tasks, \A i \in Ids : pending[i] # t, pending' = pending,
           \A u \in Tasks \ {t} : task'[u] = task[u], \A v \in Steps : Now'[t][v] = Now[t][v]
    PROVE  UNCHANGED Table!tableVars
  <1>1. \A u \in Tasks, v \in Steps : Now'[u][v] = Now[u][v]
    BY SameTask
  <1>2. \A r \in Requests : Outcomes'[r] = Outcomes[r]
    <2> SUFFICES ASSUME NEW u \in Tasks, NEW v \in Steps
                 PROVE  Outcomes'[<<u, v>>] = Outcomes[<<u, v>>]
      BY RequestsAre
    <2> QED
      BY <1>1, OutcomesAre DEF IInv, TypeInv
  <1>3. UNCHANGED Outcomes
    BY <1>2 DEF Outcomes
  <1>4. UNCHANGED Holders
    BY DEF Holders, IInv, TypeInv
  <1> QED
    BY <1>3, <1>4 DEF Table!tableVars, Outcomes, Holders

LEMMA UnseenTable ==
    ASSUME IInv, TaskInv', pending' = pending, \A u \in Tasks : task'[u].step = task[u].step,
           \A u \in Tasks, v \in Steps : Now'[u][v] = Now[u][v]
    PROVE  UNCHANGED Table!tableVars
  <1>1. \A r \in Requests : Outcomes'[r] = Outcomes[r]
    <2> SUFFICES ASSUME NEW u \in Tasks, NEW v \in Steps
                 PROVE  Outcomes'[<<u, v>>] = Outcomes[<<u, v>>]
      BY RequestsAre
    <2> QED
      BY OutcomesAre DEF IInv, TypeInv
  <1>2. UNCHANGED Outcomes
    BY <1>1 DEF Outcomes
  <1>3. UNCHANGED Holders
    BY DEF Holders, IInv, TypeInv
  <1> QED
    BY <1>2, <1>3 DEF Table!tableVars, Outcomes, Holders

LEMMA UnseenStep ==
    ASSUME IInv, NEW t \in Tasks, \A i \in Ids : pending[i] # t,
           NEW pc, NEW id, NEW era, NEW got, Becomes(t, pc, task[t].step, id, era, got),
           OutcomeOf(pc, got) = OutcomeOf(task[t].pc, task[t].got), pending' = pending
    PROVE  UNCHANGED Table!tableVars
  BY SameTask, Unseen DEF Becomes

\* The steps the table does not see.
LEMMA QuietSteps ==
    ASSUME IInv, NEW t \in Tasks,
           \/ BeginInit(t) \/ SkipInit(t) \/ BeginCall(t) \/ BeginRefresh(t)
           \/ FirstDone(t) \/ SecondDone(t) \/ RefreshDone(t) \/ CallDone(t)
           \/ Refused(t) \/ GiveUp(t)
    PROVE  UNCHANGED Table!tableVars
  <1> USE McpAssumption
  <1>1. ASSUME At(t, "idle"), NEW pc \in {"register", "done"}, NEW id, NEW era,
               Becomes(t, pc, task[t].step, id, era, task[t].got), pending' = pending
        PROVE  UNCHANGED Table!tableVars
    <2>1. task[t].got = NoReply /\ \A i \in Ids : pending[i] # t
      BY <1>1, NoEntry DEF IInv, OpenInv, At
    <2>2. OutcomeOf(pc, task[t].got) = OutcomeOf(task[t].pc, task[t].got)
      BY <1>1, <2>1 DEF OutcomeOf, At
    <2> QED
      BY <1>1, <2>1, <2>2, UnseenStep
  <1>2. ASSUME task[t].pc \in {"wait", "failed"}, NEW pc \in {"done", "failed"}, Goto(t, pc),
               task[t].got # NoReply, pending' = pending
        PROVE  UNCHANGED Table!tableVars
    <2>1. Becomes(t, pc, task[t].step, task[t].id, task[t].era, task[t].got)
      BY <1>2, MoveBecomes DEF IInv, TypeInv, Pcs
    <2>2. OutcomeOf(pc, task[t].got) = OutcomeOf(task[t].pc, task[t].got)
      BY <1>2 DEF OutcomeOf
    <2> QED
      BY <1>2, <2>1, <2>2, NoEntry, UnseenStep
  <1>3. CASE BeginInit(t)
    BY <1>1, <1>3, InitBecomes DEF BeginInit, IInv, TypeInv
  <1>4. CASE SkipInit(t)
    BY <1>1, <1>4, MoveBecomes DEF SkipInit, IInv, TypeInv, Pcs
  <1>5. CASE SecondDone(t) \/ RefreshDone(t) \/ CallDone(t)
    BY <1>2, <1>5, HeardHasNoEntry DEF SecondDone, RefreshDone, CallDone, Heard, At
  <1>6. CASE Refused(t)
    BY <1>2, <1>6, HeardHasNoEntry DEF Refused, Failed, Heard, At
  <1>7. CASE GiveUp(t)
    BY <1>2, <1>7 DEF GiveUp, IInv, OpenInv, At
  <1>8. CASE BeginCall(t) \/ BeginRefresh(t)
    <2>1. PICK pc \in {"register", "done"} : Numbered(t, pc) /\ At(t, "idle")
      BY <1>8 DEF BeginCall, BeginRefresh
    <2>2. nextId \in Ids
      BY <1>8, NumberInIds DEF BeginCall, BeginRefresh, Numbering
    <2> QED
      BY <1>1, <2>1, <2>2, NumberBecomes DEF IInv, TypeInv, Pcs, Numbered
  <1>9. CASE FirstDone(t)
    <2>1. CASE Goto(t, "failed")
      BY <1>2, <1>9, <2>1, HeardHasNoEntry DEF FirstDone, Heard, At
    <2>2. CASE ~ Goto(t, "failed")
      <3>1. Becomes(t, "register", 2, 2, task[t].era, NoReply)
        BY <1>9, <2>2, SecondBecomes, TwoIsAnId DEF FirstDone, IInv, TypeInv
      <3>2. /\ task[t].step = 1 /\ task[t].pc = "wait" /\ task[t].got.kind = "result"
            /\ task[t].got # NoReply /\ pending' = pending /\ \A i \in Ids : pending[i] # t
        BY <1>9, HeardHasNoEntry DEF FirstDone, Heard, At
      <3>3. TaskInv /\ TaskInv' /\ \A u \in Tasks \ {t} : task'[u] = task[u]
        BY <3>1 DEF Becomes, IInv, TypeInv
      <3>4. \A s \in Steps : Now'[t][s] = Now[t][s]
        <4>1. \A s \in Steps : StateOf(s, 1, "wait", task[t].got) = StateOf(s, 2, "register", NoReply)
          BY <3>2 DEF StateOf, OutcomeOf, Steps
        <4> QED
          BY <3>1, <3>2, <4>1 DEF Becomes, Now
      <3> QED
        BY <3>2, <3>3, <3>4, Unseen
    <2> QED
      BY <2>1, <2>2
  <1> QED
    BY <1>3, <1>4, <1>5, <1>6, <1>7, <1>8, <1>9


\* What becomes of the request of u's step v when it loses the number i.
CutNow(i, u, v) ==
    IF pending[i] = u /\ task[u].step = v /\ Now[u][v] = "open" THEN "failed" ELSE Now[u][v]

LEMMA CutIs ==
    ASSUME IInv, TaskInv', NEW i \in Ids, NEW u \in Tasks, NEW v \in Steps
    PROVE  Table!Cut(i, <<u, v>>) = CutNow(i, u, v)
  <1>1. Outcomes[<<u, v>>] = Now[u][v]
    BY OutcomesAre DEF IInv, TypeInv
  <1>2. <<u, v>> = Holders[i] <=> pending[i] = u /\ task[u].step = v
    BY McpAssumption DEF Holders
  <1> QED
    BY <1>1, <1>2 DEF Table!Cut, CutNow, Outcomes, Holders

\* What a number that changes hands makes of the holders.
LEMMA HoldersBecome ==
    ASSUME IInv, \A u \in Tasks : task'[u].step = task[u].step,
           NEW i \in Ids, NEW w \in Tasks \cup {NoTask}, pending' = [pending EXCEPT ![i] = w]
    PROVE  Holders' = [Holders EXCEPT ![i] = IF w = NoTask THEN <<NoTask, 1>>
                                             ELSE <<w, task[w].step>>]
  BY DEF Holders, IInv, TypeInv

\* The table's steps, in terms of the tasks and the entries.
LEMMA TableOpens ==
    ASSUME IInv, TaskInv', \A u \in Tasks : task'[u].step = task[u].step,
           NEW t \in Tasks, NEW s \in Steps, NEW i \in Ids, task[t].step = s,
           pending' = [pending EXCEPT ![i] = t],
           Now[t][s] = "new", Now'[t][s] \in {"open", "failed"},
           \A u \in Tasks, v \in Steps : u # t \/ v # s => Now'[u][v] = CutNow(i, u, v)
    PROVE  Table!Open(<<t, s>>)
  <1>1. Outcomes[<<t, s>>] = "new" /\ Outcomes'[<<t, s>>] \in {"open", "failed"}
    BY OutcomesAre DEF IInv, TypeInv
  <1>2. Holders' = [Holders EXCEPT ![i] = <<t, s>>]
    BY HoldersBecome, McpAssumption
  <1>3. ASSUME NEW r \in Requests \ {<<t, s>>}
        PROVE  Outcomes'[r] = Table!Cut(i, r)
    <2>1. PICK u \in Tasks, v \in Steps : r = <<u, v>>
      BY RequestsAre
    <2>2. u # t \/ v # s
      BY <1>3, <2>1
    <2>3. Outcomes'[<<u, v>>] = Now'[u][v]
      BY OutcomesAre DEF IInv, TypeInv
    <2> QED
      BY <2>1, <2>2, <2>3, CutIs
  <1> QED
    BY <1>1, <1>2, <1>3 DEF Table!Open, Outcomes, Holders

LEMMA ExpiresOne ==
    ASSUME IInv, TaskInv', \A u \in Tasks : task'[u].step = task[u].step, pending' = pending,
           NEW t \in Tasks, NEW s \in Steps, Now[t][s] = "open", Now'[t][s] = "failed",
           \A u \in Tasks, v \in Steps : u # t \/ v # s => Now'[u][v] = Now[u][v]
    PROVE  Table!Expire(<<t, s>>)
  <1>1. Outcomes[<<t, s>>] = "open" /\ Outcomes'[<<t, s>>] = "failed"
    BY OutcomesAre DEF IInv, TypeInv
  <1>2. Holders' = Holders
    BY DEF Holders, IInv, TypeInv
  <1>3. ASSUME NEW r \in Requests \ {<<t, s>>}
        PROVE  Outcomes'[r] = Outcomes[r]
    <2>1. PICK u \in Tasks, v \in Steps : r = <<u, v>>
      BY RequestsAre
    <2>2. u # t \/ v # s
      BY <1>3, <2>1
    <2> QED
      BY <2>1, <2>2, OutcomesAre DEF IInv, TypeInv
  <1> QED
    BY <1>1, <1>2, <1>3 DEF Table!Expire, Outcomes, Holders

LEMMA Releases ==
    ASSUME IInv, \A u \in Tasks : task'[u].step = task[u].step, NEW i \in Ids,
           pending[i] # NoTask, pending' = [pending EXCEPT ![i] = NoTask]
    PROVE  Table!Release(i)
  <1>1. Holders' = [Holders EXCEPT ![i] = <<NoTask, 1>>]
    BY HoldersBecome
  <1>2. Holders[i] # <<NoTask, 1>>
    BY DEF Holders
  <1>3. Holders'[i] = <<NoTask, 1>>
    BY <1>1 DEF Holders
  <1> QED
    BY <1>1, <1>2, <1>3 DEF Table!Release, Holders

LEMMA Frees ==
    ASSUME IInv, TaskInv', \A u \in Tasks : task'[u].step = task[u].step, NEW i \in Ids,
           pending[i] # NoTask, pending' = [pending EXCEPT ![i] = NoTask],
           \A u \in Tasks, v \in Steps : Now'[u][v] = CutNow(i, u, v)
    PROVE  Table!Free(i)
  <1>1. Table!Release(i)
    BY Releases
  <1>2. ASSUME NEW r \in Requests
        PROVE  Outcomes'[r] = Table!Cut(i, r)
    <2>1. PICK u \in Tasks, v \in Steps : r = <<u, v>>
      BY RequestsAre
    <2>2. Outcomes'[<<u, v>>] = Now'[u][v]
      BY OutcomesAre DEF IInv, TypeInv
    <2> QED
      BY <2>1, <2>2, CutIs
  <1> QED
    BY <1>1, <1>2 DEF Table!Free, Outcomes

LEMMA AnswersOne ==
    ASSUME IInv, TaskInv', \A u \in Tasks : task'[u].step = task[u].step,
           NEW i \in Ids, NEW t \in Tasks, NEW s \in Steps, task[t].step = s,
           pending[i] = t, pending' = [pending EXCEPT ![i] = NoTask],
           Now[t][s] = "open", Now'[t][s] = "answered",
           \A u \in Tasks, v \in Steps : u # t \/ v # s => Now'[u][v] = Now[u][v]
    PROVE  Table!Answer(i)
  <1>1. Table!Release(i)
    BY Releases, McpAssumption
  <1>2. Outcomes[<<t, s>>] = "open" /\ Outcomes'[<<t, s>>] = "answered" /\ Holders[i] = <<t, s>>
    BY OutcomesAre, McpAssumption DEF IInv, TypeInv, Holders
  <1>3. ASSUME NEW r \in Requests \ {<<t, s>>}
        PROVE  Outcomes'[r] = Outcomes[r]
    <2>1. PICK u \in Tasks, v \in Steps : r = <<u, v>>
      BY RequestsAre
    <2>2. u # t \/ v # s
      BY <1>3, <2>1
    <2> QED
      BY <2>1, <2>2, OutcomesAre DEF IInv, TypeInv
  <1> QED
    BY <1>1, <1>2, <1>3 DEF Table!Answer, Outcomes, Holders

\* What a step does to the request its task is about, and to the other one.
LEMMA NowIs ==
    ASSUME IInv, TaskInv', NEW u \in Tasks, task'[u].step = task[u].step
    PROVE  /\ task[u].step \in Steps
           /\ Now[u][task[u].step] = OutcomeOf(task[u].pc, task[u].got)
           /\ Now'[u][task[u].step] = OutcomeOf(task'[u].pc, task'[u].got)
           /\ \A v \in Steps : v # task[u].step => Now'[u][v] = Now[u][v]
  BY DEF Now, StateOf, Steps, IInv, TypeInv, TaskInv, TaskType

\* The request that loses a number is not open any more.
LEMMA CutOff ==
    ASSUME IInv, TaskInv', NEW i \in Ids, NEW u \in Tasks,
           task'[u].step = task[u].step, task'[u].pc = task[u].pc,
           task'[u].got = ClosedBy(task, i, u)
    PROVE  \A v \in Steps : Now'[u][v] = CutNow(i, u, v)
  <1>1. CASE u # pending[i]
    BY <1>1, SameTask DEF ClosedBy, CutNow
  <1>2. CASE u = pending[i]
    <2>1. task[u].got = NoReply /\ task[u].pc \in {"wait", "remove"}
      BY <1>2, McpAssumption DEF IInv, OpenInv, EntryIsLive
    <2>2. task'[u].got = [kind |-> "closed"]
      BY <1>2, <2>1 DEF ClosedBy
    <2>3. /\ OutcomeOf(task'[u].pc, task'[u].got) = "failed"
          /\ OutcomeOf(task[u].pc, task[u].got) \in {"open", "failed"}
      BY <2>1, <2>2 DEF OutcomeOf, NoReply
    <2> QED
      BY <1>2, <2>3, NowIs DEF CutNow
  <1> QED
    BY <1>1, <1>2

\* A request is opened, and the one that had its number cut off.
LEMMA RegisterOpens ==
    ASSUME IInv, NEW t \in Tasks, Register(t)
    PROVE  \E s \in Steps : Table!Open(<<t, s>>)
  <1> USE McpAssumption
  <1>1. PICK i \in Ids, s \in Steps : task[t].id = i /\ task[t].step = s
    BY DEF IInv, TypeInv, TaskInv, TaskType, Steps
  <1>2. At(t, "register") /\ pending' = [pending EXCEPT ![i] = t]
    BY <1>1 DEF Register
  <1>3. pending[i] # t
    BY <1>2, NoEntry DEF At
  <1>4. /\ TaskInv' /\ \A u \in Tasks : task'[u].step = task[u].step
        /\ task'[t].pc \in {"wait", "remove"} /\ task'[t].got = NoReply
    BY RegisterEffect
  <1>5. Now[t][s] = "new" /\ Now'[t][s] \in {"open", "failed"}
    BY <1>1, <1>2, <1>4, NowIs DEF OutcomeOf, At, NoReply
  <1>6. \A v \in Steps : v # s => Now'[t][v] = CutNow(i, t, v)
    BY <1>1, <1>3, <1>4, NowIs DEF CutNow
  <1>7. \A u \in Tasks \ {t}, v \in Steps : Now'[u][v] = CutNow(i, u, v)
    BY <1>1, <1>4, RegisterEffect, CutOff
  <1>8. \A u \in Tasks, v \in Steps : u # t \/ v # s => Now'[u][v] = CutNow(i, u, v)
    BY <1>6, <1>7
  <1>9. Table!Open(<<t, s>>)
    BY <1>1, <1>2, <1>4, <1>5, <1>8, TableOpens
  <1> QED
    BY <1>9

LEMMA ExpiresExpires ==
    ASSUME IInv, NEW t \in Tasks, Expires(t)
    PROVE  \E s \in Steps : Table!Expire(<<t, s>>)
  <1>1. PICK s \in Steps : task[t].step = s
    BY DEF IInv, TypeInv, TaskInv, TaskType, Steps
  <1>2. Becomes(t, "remove", s, task[t].id, task[t].era, task[t].got)
    BY <1>1, MoveBecomes DEF Expires, IInv, TypeInv, Pcs
  <1>3. Now[t][s] = "open" /\ Now'[t][s] = "failed"
    BY <1>1, <1>2, NowIs DEF Becomes, Expires, OutcomeOf, At, NoReply
  <1>4. \A u \in Tasks, v \in Steps : u # t \/ v # s => Now'[u][v] = Now[u][v]
    BY <1>1, <1>2, NowIs, SameTask DEF Becomes
  <1>5. Table!Expire(<<t, s>>)
    BY <1>1, <1>2, <1>3, <1>4, ExpiresOne DEF Becomes, Expires
  <1> QED
    BY <1>5

\* Whoever holds the number loses it.
LEMMA RemoveFrees ==
    ASSUME IInv, NEW t \in Tasks, Remove(t)
    PROVE  (\E i \in Ids : Table!Free(i)) \/ UNCHANGED Table!tableVars
  <1> USE McpAssumption
  <1>1. PICK i \in Ids : task[t].id = i
    BY DEF IInv, TypeInv, TaskInv, TaskType
  <1>2. At(t, "remove") /\ pending' = [pending EXCEPT ![i] = NoTask]
    BY <1>1 DEF Remove
  <1>3. /\ TaskInv' /\ \A u \in Tasks : task'[u].step = task[u].step
        /\ task'[t].pc = Failed(t) /\ task'[t].got = [kind |-> "gone"]
    BY RemoveEffect
  <1>4. OutcomeOf(task[t].pc, task[t].got) = "failed" /\ OutcomeOf(task'[t].pc, task'[t].got) = "failed"
    BY <1>2, <1>3 DEF OutcomeOf, At, Failed, NoReply
  <1>5. \A v \in Steps : Now'[t][v] = Now[t][v] /\ Now'[t][v] = CutNow(i, t, v)
    BY <1>3, <1>4, NowIs, SameTask DEF CutNow
  <1>6. \A u \in Tasks \ {t}, v \in Steps : Now'[u][v] = CutNow(i, u, v)
    BY <1>1, <1>3, RemoveEffect, CutOff
  <1>7. \A u \in Tasks, v \in Steps : Now'[u][v] = CutNow(i, u, v)
    BY <1>5, <1>6
  <1>8. CASE pending[i] # NoTask
    BY <1>2, <1>3, <1>7, <1>8, Frees
  <1>9. CASE pending[i] = NoTask
    <2>1. pending' = pending
      BY <1>2, <1>9 DEF IInv, TypeInv
    <2>2. \A u \in Tasks, v \in Steps : Now'[u][v] = Now[u][v]
      BY <1>7, <1>9 DEF CutNow
    <2> QED
      BY <1>3, <2>1, <2>2, UnseenTable
  <1> QED
    BY <1>8, <1>9

LEMMA AnsweredAnswers ==
    ASSUME IInv, NEW r \in asked, Answered(r)
    PROVE  (\E i \in Ids : Table!Answer(i) \/ Table!Free(i)) \/ UNCHANGED Table!tableVars
  <1> USE McpAssumption
  <1>1. r.id \in Ids
    BY DEF IInv, TypeInv, Asked
  <1>2. CASE UNCHANGED <<task, pending>>
    <2>1. TaskInv' /\ \A u \in Tasks, v \in Steps : Now'[u][v] = Now[u][v]
      BY <1>2 DEF Now, IInv, TypeInv, TaskInv
    <2> QED
      BY <1>2, <2>1, UnseenTable
  <1>3. ASSUME NEW t \in Tasks, NEW kind \in {"result", "error"},
               pending[r.id] = t, task[t].pc \in {"wait", "remove"}, task[t].got = NoReply,
               pending' = [pending EXCEPT ![r.id] = NoTask],
               Becomes(t, task[t].pc, task[t].step, task[t].id, task[t].era,
                       [kind |-> kind, req |-> r])
        PROVE  Table!Answer(r.id) \/ Table!Free(r.id)
    <2> DEFINE s == task[t].step
               got == [kind |-> kind, req |-> r]
    <2>1. TaskInv' /\ \A u \in Tasks : task'[u].step = task[u].step
      BY <1>3 DEF Becomes
    <2>2. \A u \in Tasks, v \in Steps : u # t \/ v # s => Now'[u][v] = Now[u][v]
      BY <1>3, NowIs, SameTask DEF Becomes
    <2>3. CASE task[t].pc = "wait"
      <3>1. OutcomeOf("wait", NoReply) = "open" /\ OutcomeOf("wait", got) = "answered"
        BY DEF OutcomeOf, NoReply
      <3>2. s \in Steps /\ Now[t][s] = "open" /\ Now'[t][s] = "answered"
        BY <1>3, <2>3, <3>1, NowIs DEF Becomes
      <3> QED
        BY <1>1, <1>3, <2>1, <2>2, <3>2, AnswersOne
    <2>4. CASE task[t].pc = "remove"
      <3>1. OutcomeOf("remove", NoReply) = "failed" /\ OutcomeOf("remove", got) = "failed"
        BY DEF OutcomeOf
      <3>2. s \in Steps /\ Now[t][s] = "failed" /\ Now'[t][s] = "failed"
        BY <1>3, <2>4, <3>1, NowIs DEF Becomes
      <3>3. \A u \in Tasks, v \in Steps : Now'[u][v] = CutNow(r.id, u, v)
        BY <1>3, <2>2, <3>2 DEF CutNow
      <3> QED
        BY <1>1, <1>3, <2>1, <3>3, Frees
    <2> QED
      BY <1>3, <2>3, <2>4
  <1> QED
    BY <1>1, <1>2, <1>3, AnswerEffect

\* The runtime's table is one in the sense of RequestTable: no answer is given to two
\* requests, a decided request is not decided again, and one that is cut off fails.
THEOREM TableIsOne == McpSpec => McpIsTable
  <1>1. McpInit => Table!TableInit
    <2> SUFFICES ASSUME McpInit PROVE Table!TableInit
      OBVIOUS
    <2>1. Holders = [n \in Ids |-> <<NoTask, 1>>]
      BY DEF McpInit, Holders
    <2>2. ASSUME NEW u \in Tasks, NEW v \in {1, 2}
          PROVE  McpOutcome(u, v) = "new"
      BY <2>2 DEF McpInit, McpOutcome, Unasked, At
    <2>3. Outcomes = [r \in Requests |-> "new"]
      BY <2>2 DEF Outcomes, Requests
    <2> QED
      BY <2>1, <2>3 DEF Table!TableInit, Outcomes, Holders
  <1>2. IInv /\ [McpNext]_mcpVars => [Table!TableNext]_(Table!tableVars)
    <2> SUFFICES ASSUME IInv, [McpNext]_mcpVars
                 PROVE  Table!TableNext \/ UNCHANGED Table!tableVars
      OBVIOUS
    <2>1. ASSUME NEW t \in Tasks, SendAndWait(t)
          PROVE  Table!TableNext \/ UNCHANGED Table!tableVars
      <3>1. \A s \in Steps : <<t, s>> \in Requests
        BY RequestsAre
      <3> QED
        BY <2>1, <3>1, RegisterOpens, ExpiresExpires, RemoveFrees DEF SendAndWait, Table!TableNext
    <2>2. ASSUME NEW r \in asked, Answered(r)
          PROVE  Table!TableNext \/ UNCHANGED Table!tableVars
      BY <2>2, AnsweredAnswers DEF Table!TableNext
    <2>3. ASSUME UNCHANGED <<task, pending>>
          PROVE  UNCHANGED Table!tableVars
      <3>1. TaskInv' /\ \A u \in Tasks, v \in Steps : Now'[u][v] = Now[u][v]
        BY <2>3 DEF Now, IInv, TypeInv, TaskInv
      <3> QED
        BY <2>3, <3>1, UnseenTable
    <2>4. CASE TransportReady \/ UNCHANGED mcpVars
      BY <2>3, <2>4 DEF TransportReady, mcpVars
    <2> QED
      BY <2>1, <2>2, <2>4, QuietSteps DEF McpNext, Outcome
  <1> QED
    BY <1>1, <1>2, McpInvariant, PTL DEF McpSpec, McpIsTable, Table!TableSpec

-----------------------------------------------------------------------------
\* The connections of an agent

Used == {c \in Conns : conn[c] # "new"}
Superseded(c) == \E d \in Conns : replaced[d] = c

\* Nobody is superseded, closed or in the mode before it comes; the entry is the latest
\* connection, and goes before its owner.
LinksFit ==
    /\ \A c \in Conns : conn[c] = "new" =>
           c \notin mode /\ c # current /\ ~ Superseded(c) /\ replaced[c] = NoConn
    /\ \A c \in closed : conn[c] = "gone" \/ Superseded(c)
    /\ current # NoConn => conn[current] \in {"copy", "open", "remove"} /\ ~ Superseded(current)
    /\ current = NoConn => ~ wanted

\* While nothing raced, who registers or removes the agent is in the entry, and so is an open
\* connection that was not superseded; the entry, or the one whose modes it is to have, is in
\* the mode that was told.
ModesFit ==
    /\ \A c \in Conns : conn[c] \in {"copy", "remove"} => current = c
    /\ \A c \in Conns : conn[c] = "open" /\ ~ Superseded(c) => current = c
    /\ \A c \in Conns : conn[c] = "copy" => c \notin mode /\ (replaced[c] \in mode <=> wanted)
    /\ \A c \in Conns : current = c /\ conn[c] # "copy" => (c \in mode <=> wanted)

\* A frame that was handed on and is not forgotten is within what a connection has of its
\* stream, and two handings are of two connections.
FramesFit ==
    \A m \in Messages \ finished, f \in 1 .. Frames :
        /\ emitted[m][f] > 0 => \E c \in Used : stream[c][m] >= f
        /\ emitted[m][f] > 1 => \E c, d \in Used : c # d

AgentInv == ClawAgentsTypeOK /\ LinksFit /\ (raced \/ ModesFit) /\ FramesFit

LEMMA AgentBegins == ClawAgentsInit => AgentInv
<1> SUFFICES ASSUME ClawAgentsInit PROVE AgentInv
  OBVIOUS
<1> USE ClawAgentsAssumption DEF ClawAgentsInit
<1>1. ClawAgentsTypeOK
  <2>1. -1 \in -1 .. Frames /\ 0 \in -1 .. Frames /\ 0 \in 0 .. Resends /\ 0 \in Nat
    OBVIOUS
  <2>2. stream \in [Conns -> [Messages -> -1 .. Frames]]
    BY <2>1
  <2>3. emitted \in [Messages -> [1 .. Frames -> Nat]]
    BY <2>1
  <2> QED
    BY <2>1, <2>2, <2>3 DEF ClawAgentsTypeOK
<1>2. LinksFit
  BY DEF LinksFit, Superseded
<1>3. ModesFit
  BY DEF ModesFit
<1>4. FramesFit
  BY DEF FramesFit
<1> QED
  BY <1>1, <1>2, <1>3, <1>4 DEF AgentInv

\* What a step that hands on nothing needs of the answers.
LEMMA FramesStay ==
    ASSUME FramesFit, Used \subseteq Used', UNCHANGED <<stream, emitted, finished>>
    PROVE  FramesFit'
  BY DEF FramesFit

LEMMA InsertInv == ASSUME AgentInv, NEW c \in Conns, AgentInsert(c) PROVE AgentInv'
<1> USE ClawAgentsAssumption DEF AgentInv
<1>1. /\ ClawAgentsTypeOK /\ LinksFit /\ FramesFit
      /\ conn[c] = "new" /\ conn' = [conn EXCEPT ![c] = "copy"]
      /\ replaced' = [replaced EXCEPT ![c] = current] /\ current' = c
      /\ UNCHANGED <<closed, mode, wanted, pendingIn, stream, sent, resent, emitted, finished>>
  BY DEF AgentInsert, answerVars
<1>2. ClawAgentsTypeOK'
  BY <1>1 DEF ClawAgentsTypeOK, AgentInsert
<1>3. \A d \in Conns : /\ conn'[d] = IF d = c THEN "copy" ELSE conn[d]
                       /\ replaced'[d] = IF d = c THEN current ELSE replaced[d]
  BY <1>1 DEF ClawAgentsTypeOK
<1>4. \A d \in Conns : Superseded(d)' <=> (d = current \/ \E e \in Conns \ {c} : replaced[e] = d)
  BY <1>3 DEF Superseded
<1>5. ~ Superseded(c)' /\ c \notin mode /\ c \notin closed /\ c # current
  BY <1>1, <1>4 DEF LinksFit, Superseded, ClawAgentsTypeOK
<1>6. LinksFit'
  <2>1. \A d \in Conns : conn'[d] = "new" =>
            d \notin mode' /\ d # current' /\ ~ Superseded(d)' /\ replaced'[d] = NoConn
    BY <1>1, <1>3, <1>4 DEF LinksFit, Superseded
  <2>2. \A d \in closed' : conn'[d] = "gone" \/ Superseded(d)'
    <3> SUFFICES ASSUME NEW d \in closed PROVE conn'[d] = "gone" \/ Superseded(d)'
      BY <1>1
    <3>1. d \in Conns /\ d # c /\ (conn[d] = "gone" \/ Superseded(d))
      BY <1>1, <1>5 DEF LinksFit, ClawAgentsTypeOK
    <3>2. ASSUME NEW e \in Conns, replaced[e] = d PROVE Superseded(d)'
      <4>1. e # c
        BY <1>1, <3>1, <3>2 DEF LinksFit
      <4> QED
        BY <1>3, <3>2, <4>1 DEF Superseded
    <3> QED
      BY <1>3, <3>1, <3>2 DEF Superseded
  <2> QED
    BY <1>1, <1>3, <1>5, <2>1, <2>2 DEF LinksFit
<1>7. raced' \/ ModesFit'
  <2> SUFFICES ASSUME ~ raced' PROVE ModesFit'
    OBVIOUS
  <2>1. ~ raced /\ ModesFit /\ \A d \in Conns : conn[d] \notin {"remove", "copy"}
    BY DEF AgentInsert, ClawAgentsTypeOK
  <2>2. \A d \in Conns \ {c} : conn'[d] \notin {"copy", "remove"}
    BY <1>3, <2>1
  <2>3. ASSUME NEW d \in Conns, conn'[d] = "open", ~ Superseded(d)' PROVE current' = d
    <3>1. d # c /\ conn[d] = "open" /\ d # current /\ current # d
      BY <1>3, <1>4, <2>3
    <3>2. Superseded(d)
      BY <2>1, <3>1 DEF ModesFit
    <3>3. PICK e \in Conns : replaced[e] = d
      BY <3>2 DEF Superseded
    <3>4. e # c
      BY <1>1, <3>3 DEF LinksFit
    <3> QED
      BY <1>4, <2>3, <3>3, <3>4
  <2>4. current \in mode <=> wanted
    <3>1. CASE current = NoConn
      BY <1>1, <3>1 DEF LinksFit, ClawAgentsTypeOK
    <3>2. CASE current # NoConn
      BY <1>1, <2>1, <3>2 DEF ModesFit, ClawAgentsTypeOK
    <3> QED
      BY <3>1, <3>2
  <2>5. c \notin mode' /\ (replaced'[c] \in mode' <=> wanted')
    BY <1>1, <1>3, <1>5, <2>4
  <2> QED
    BY <1>1, <1>3, <2>2, <2>3, <2>5 DEF ModesFit
<1>8. FramesFit'
  BY <1>1, <1>3, FramesStay DEF Used
<1> QED
  BY <1>2, <1>6, <1>7, <1>8

LEMMA CopyInv == ASSUME AgentInv, NEW c \in Conns, CopyModes(c) PROVE AgentInv'
<1> USE ClawAgentsAssumption DEF AgentInv
<1>1. /\ ClawAgentsTypeOK /\ LinksFit /\ FramesFit
      /\ conn[c] = "copy" /\ conn' = [conn EXCEPT ![c] = "open"]
      /\ mode' = IF replaced[c] \in mode THEN mode \cup {c} ELSE mode
      /\ closed' = closed \cup ({replaced[c]} \ {NoConn})
      /\ UNCHANGED <<replaced, current, wanted, raced, pendingIn, stream, sent, resent, emitted,
                     finished>>
  BY DEF CopyModes, answerVars
<1>2. ClawAgentsTypeOK'
  BY <1>1 DEF ClawAgentsTypeOK
<1>3. \A d \in Conns : conn'[d] = IF d = c THEN "open" ELSE conn[d]
  BY <1>1 DEF ClawAgentsTypeOK
<1>4. \A d : Superseded(d)' <=> Superseded(d)
  BY <1>1 DEF Superseded
<1>5. LinksFit'
  <2>1. \A d \in closed' : conn'[d] = "gone" \/ Superseded(d)'
    <3> SUFFICES ASSUME NEW d \in closed' PROVE conn'[d] = "gone" \/ Superseded(d)'
      OBVIOUS
    <3>1. CASE d \in closed
      BY <1>1, <1>3, <1>4, <3>1 DEF LinksFit, ClawAgentsTypeOK
    <3>2. CASE d = replaced[c]
      BY <1>4, <3>2 DEF Superseded
    <3> QED
      BY <1>1, <3>1, <3>2
  <2>2. \A d \in Conns : conn'[d] = "new" =>
            d \notin mode' /\ d # current' /\ ~ Superseded(d)' /\ replaced'[d] = NoConn
    BY <1>1, <1>3, <1>4 DEF LinksFit
  <2> QED
    BY <1>1, <1>3, <1>4, <2>1, <2>2 DEF LinksFit, ClawAgentsTypeOK
<1>6. raced' \/ ModesFit'
  <2> SUFFICES ASSUME ~ raced PROVE ModesFit'
    BY <1>1
  <2>1. ModesFit /\ current = c /\ \A d \in Conns : conn[d] \in {"copy", "remove"} => d = c
    BY <1>1 DEF ModesFit
  <2>2. c \notin mode /\ (replaced[c] \in mode <=> wanted)
    BY <1>1, <2>1 DEF ModesFit
  <2>3. c \in mode' <=> wanted'
    BY <1>1, <2>2
  <2>4. \A d \in Conns : conn'[d] \notin {"copy", "remove"}
    BY <1>3, <2>1
  <2>5. \A d \in Conns : conn'[d] = "open" /\ ~ Superseded(d)' => current' = d
    BY <1>1, <1>3, <1>4, <2>1 DEF ModesFit
  <2> QED
    BY <1>1, <2>1, <2>3, <2>4, <2>5 DEF ModesFit
<1>7. FramesFit'
  BY <1>1, <1>3, FramesStay DEF Used
<1> QED
  BY <1>2, <1>5, <1>6, <1>7

LEMMA CheckInv == ASSUME AgentInv, NEW c \in Conns, CheckCurrent(c) PROVE AgentInv'
<1> USE ClawAgentsAssumption DEF AgentInv
<1> DEFINE to == IF current = c THEN "remove" ELSE "close"
<1>1. /\ ClawAgentsTypeOK /\ LinksFit /\ FramesFit
      /\ conn[c] = "open" /\ conn' = [conn EXCEPT ![c] = to]
      /\ UNCHANGED <<replaced, current, closed, mode, wanted, raced, pendingIn, stream, sent,
                     resent, emitted, finished>>
  BY DEF CheckCurrent, answerVars
<1>2. ClawAgentsTypeOK'
  BY <1>1 DEF ClawAgentsTypeOK
<1>3. \A d \in Conns : conn'[d] = IF d = c THEN to ELSE conn[d]
  BY <1>1 DEF ClawAgentsTypeOK
<1>4. \A d : Superseded(d)' <=> Superseded(d)
  BY <1>1 DEF Superseded
<1>5. LinksFit'
  BY <1>1, <1>3, <1>4 DEF LinksFit, ClawAgentsTypeOK
<1>6. raced' \/ ModesFit'
  BY <1>1, <1>3, <1>4 DEF ModesFit
<1>7. FramesFit'
  BY <1>1, <1>3, FramesStay DEF Used
<1> QED
  BY <1>2, <1>5, <1>6, <1>7

LEMMA RemoveAgentInv == ASSUME AgentInv, NEW c \in Conns, RemoveAgent(c) PROVE AgentInv'
<1> USE ClawAgentsAssumption DEF AgentInv
<1>1. /\ ClawAgentsTypeOK /\ LinksFit /\ FramesFit
      /\ conn[c] = "remove" /\ conn' = [conn EXCEPT ![c] = "close"]
      /\ current' = NoConn /\ wanted' = FALSE
      /\ UNCHANGED <<replaced, closed, mode, raced, pendingIn, stream, sent, resent, emitted,
                     finished>>
  BY DEF RemoveAgent, answerVars
<1>2. ClawAgentsTypeOK'
  BY <1>1 DEF ClawAgentsTypeOK
<1>3. \A d \in Conns : conn'[d] = IF d = c THEN "close" ELSE conn[d]
  BY <1>1 DEF ClawAgentsTypeOK
<1>4. \A d : Superseded(d)' <=> Superseded(d)
  BY <1>1 DEF Superseded
<1>5. LinksFit'
  BY <1>1, <1>3, <1>4 DEF LinksFit, ClawAgentsTypeOK
<1>6. raced' \/ ModesFit'
  BY <1>1, <1>3, <1>4 DEF ModesFit
<1>7. FramesFit'
  BY <1>1, <1>3, FramesStay DEF Used
<1> QED
  BY <1>2, <1>5, <1>6, <1>7

LEMMA CloseAgentInv == ASSUME AgentInv, NEW c \in Conns, CloseAgent(c) PROVE AgentInv'
<1> USE ClawAgentsAssumption DEF AgentInv
<1>1. /\ ClawAgentsTypeOK /\ LinksFit /\ FramesFit
      /\ conn[c] = "close" /\ conn' = [conn EXCEPT ![c] = "gone"]
      /\ closed' = closed \cup {c}
      /\ UNCHANGED <<replaced, current, mode, wanted, raced, pendingIn, stream, sent, resent,
                     emitted, finished>>
  BY DEF CloseAgent, answerVars
<1>2. ClawAgentsTypeOK'
  BY <1>1 DEF ClawAgentsTypeOK
<1>3. \A d \in Conns : conn'[d] = IF d = c THEN "gone" ELSE conn[d]
  BY <1>1 DEF ClawAgentsTypeOK
<1>4. \A d : Superseded(d)' <=> Superseded(d)
  BY <1>1 DEF Superseded
<1>5. LinksFit'
  BY <1>1, <1>3, <1>4 DEF LinksFit, ClawAgentsTypeOK
<1>6. raced' \/ ModesFit'
  BY <1>1, <1>3, <1>4 DEF ModesFit
<1>7. FramesFit'
  BY <1>1, <1>3, FramesStay DEF Used
<1> QED
  BY <1>2, <1>5, <1>6, <1>7

LEMMA SetModeInv == ASSUME AgentInv, NEW on \in BOOLEAN, SetMode(on) PROVE AgentInv'
<1> USE ClawAgentsAssumption DEF AgentInv
<1>1. /\ ClawAgentsTypeOK /\ LinksFit /\ FramesFit
      /\ current \in Conns /\ wanted' = on
      /\ mode' = IF on THEN mode \cup {current} ELSE mode \ {current}
      /\ UNCHANGED <<conn, replaced, current, closed, pendingIn, stream, sent, resent, emitted,
                     finished>>
  BY DEF SetMode, answerVars, ClawAgentsTypeOK
<1>2. ClawAgentsTypeOK'
  BY <1>1 DEF ClawAgentsTypeOK, SetMode
<1>3. LinksFit'
  BY <1>1 DEF LinksFit, ClawAgentsTypeOK, Superseded
<1>4. raced' \/ ModesFit'
  <2> SUFFICES ASSUME ~ raced' PROVE ModesFit'
    OBVIOUS
  <2>1. ~ raced /\ ModesFit /\ conn[current] # "copy"
    BY DEF SetMode
  <2>2. \A c \in Conns : conn[c] # "copy"
    BY <2>1 DEF ModesFit
  <2> QED
    BY <1>1, <2>1, <2>2 DEF ModesFit, Superseded
<1>5. FramesFit'
  BY <1>1, FramesStay DEF Used
<1> QED
  BY <1>2, <1>3, <1>4, <1>5

LEMMA SendInv == ASSUME AgentInv, NEW m \in Messages, SendMessage(m) PROVE AgentInv'
<1> USE ClawAgentsAssumption DEF AgentInv
<1>1. /\ ClawAgentsTypeOK /\ LinksFit /\ FramesFit /\ current \in mode
      /\ \/ UNCHANGED <<mode, wanted, sent>>
         \/ mode' = mode \ {current} /\ wanted' = FALSE /\ sent' = [sent EXCEPT ![m] = -1]
      /\ UNCHANGED <<conn, replaced, current, closed, raced, stream, resent, emitted, finished>>
  BY DEF SendMessage
<1>2. ClawAgentsTypeOK'
  <2>1. -1 \in -1 .. Frames
    OBVIOUS
  <2>2. sent' \in [Messages -> -1 .. Frames]
    BY <1>1, <2>1 DEF ClawAgentsTypeOK
  <2>3. pendingIn' \in [Messages -> Conns \cup {NoConn}]
    BY <1>1 DEF ClawAgentsTypeOK, SendMessage
  <2>4. mode' \subseteq Conns /\ wanted' \in BOOLEAN
    BY <1>1 DEF ClawAgentsTypeOK
  <2> QED
    BY <1>1, <2>2, <2>3, <2>4 DEF ClawAgentsTypeOK
<1>3. LinksFit'
  BY <1>1 DEF LinksFit, ClawAgentsTypeOK, Superseded
<1>4. raced' \/ ModesFit'
  <2> SUFFICES ASSUME ~ raced PROVE ModesFit'
    BY <1>1
  <2>1. ModesFit /\ current \in Conns
    BY <1>1 DEF ClawAgentsTypeOK
  <2>2. \A c \in Conns : conn[c] # "copy"
    BY <1>1, <2>1 DEF ModesFit
  <2>3. CASE UNCHANGED <<mode, wanted>>
    BY <1>1, <2>1, <2>2, <2>3 DEF ModesFit, Superseded
  <2>4. CASE mode' = mode \ {current} /\ wanted' = FALSE
    BY <1>1, <2>1, <2>2, <2>4 DEF ModesFit, Superseded
  <2> QED
    BY <1>1, <2>3, <2>4
<1>5. FramesFit'
  BY <1>1, FramesStay DEF Used
<1> QED
  BY <1>2, <1>3, <1>4, <1>5

\* A frame over a connection that is read.
LEMMA FrameInv ==
    ASSUME AgentInv, NEW c \in Conns, NEW m \in Messages, NEW f \in 1 .. Frames, Frame(c, m, f),
           sent' \in [Messages -> -1 .. Frames], resent' \in 0 .. Resends
    PROVE  AgentInv'
<1> USE ClawAgentsAssumption DEF AgentInv
<1>1. /\ ClawAgentsTypeOK /\ LinksFit /\ (raced \/ ModesFit) /\ FramesFit /\ conn[c] = "open"
      /\ UNCHANGED <<conn, replaced, current, closed, mode, wanted, raced>>
  BY DEF Frame, Read, linkVars
<1>2. LinksFit' /\ (raced' \/ ModesFit') /\ Used' = Used
  BY <1>1 DEF LinksFit, ModesFit, Superseded, Used
<1>3. CASE UNCHANGED <<emitted, stream, pendingIn, finished>>
  <2>1. ClawAgentsTypeOK'
    BY <1>1, <1>3 DEF ClawAgentsTypeOK
  <2> QED
    BY <1>1, <1>2, <1>3, <2>1, FramesStay
<1>4. CASE ~ UNCHANGED <<emitted, stream, pendingIn, finished>>
  <2>1. /\ Fresh(c, m, f) /\ emitted' = [emitted EXCEPT ![m][f] = @ + 1]
        /\ \/ /\ f = Frames /\ stream' = [stream EXCEPT ![c][m] = -1]
              /\ pendingIn' = [pendingIn EXCEPT ![m] = IF @ = c THEN NoConn ELSE @]
              /\ finished' = finished \cup {m}
           \/ stream' = [stream EXCEPT ![c][m] = f] /\ UNCHANGED <<pendingIn, finished>>
    BY <1>4 DEF Frame, HandleFrame
  <2>2. f \in Nat /\ f >= 1 /\ stream[c][m] \in -1 .. Frames
    BY <1>1 DEF ClawAgentsTypeOK
  <2>3. \A n \in Messages, g \in 1 .. Frames :
            /\ emitted[n][g] \in Nat
            /\ emitted'[n][g] = IF n = m /\ g = f THEN emitted[n][g] + 1 ELSE emitted[n][g]
    <3>1. /\ emitted \in [Messages -> [1 .. Frames -> Nat]]
          /\ emitted' = [emitted EXCEPT ![m] = [emitted[m] EXCEPT ![f] = @ + 1]]
      BY <1>1, <2>1 DEF ClawAgentsTypeOK
    <3>2. \A n \in Messages, g \in 1 .. Frames : emitted[n][g] \in Nat
      BY <3>1
    <3>3. \A n \in Messages : n # m => emitted'[n] = emitted[n]
      BY <3>1
    <3>4. \A g \in 1 .. Frames : emitted'[m][g] = IF g = f THEN emitted[m][g] + 1 ELSE emitted[m][g]
      BY <3>1
    <3> QED
      BY <3>2, <3>3, <3>4
  <2>4. \A d \in Conns, n \in Messages :
            d # c \/ n # m => stream'[d][n] = stream[d][n]
    <3>1. PICK v \in -1 .. Frames : stream' = [stream EXCEPT ![c] = [stream[c] EXCEPT ![m] = v]]
      BY <2>1, <2>2
    <3>2. stream \in [Conns -> [Messages -> -1 .. Frames]]
      BY <1>1 DEF ClawAgentsTypeOK
    <3>3. \A d \in Conns \ {c} : stream'[d] = stream[d]
      BY <3>1, <3>2
    <3>4. \A n \in Messages \ {m} : stream'[c][n] = stream[c][n]
      BY <3>1, <3>2
    <3> QED
      BY <3>3, <3>4
  <2>5. ClawAgentsTypeOK'
    <3>1. emitted' \in [Messages -> [1 .. Frames -> Nat]]
      <4>1. emitted[m] \in [1 .. Frames -> Nat] /\ emitted[m][f] + 1 \in Nat
        BY <1>1, <2>3 DEF ClawAgentsTypeOK
      <4>2. [emitted[m] EXCEPT ![f] = @ + 1] \in [1 .. Frames -> Nat]
        BY <4>1
      <4>3. emitted' = [emitted EXCEPT ![m] = [emitted[m] EXCEPT ![f] = @ + 1]]
        BY <2>1
      <4> QED
        BY <1>1, <4>2, <4>3 DEF ClawAgentsTypeOK
    <3>2. stream' \in [Conns -> [Messages -> -1 .. Frames]]
      <4>1. PICK v \in -1 .. Frames : stream' = [stream EXCEPT ![c][m] = v]
        BY <2>1, <2>2
      <4>2. stream[c] \in [Messages -> -1 .. Frames]
        BY <1>1 DEF ClawAgentsTypeOK
      <4>3. [stream[c] EXCEPT ![m] = v] \in [Messages -> -1 .. Frames]
        BY <4>2
      <4>4. stream' = [stream EXCEPT ![c] = [stream[c] EXCEPT ![m] = v]]
        BY <4>1
      <4> QED
        BY <1>1, <4>3, <4>4 DEF ClawAgentsTypeOK
    <3>3. pendingIn' \in [Messages -> Conns \cup {NoConn}] /\ finished' \subseteq Messages
      BY <1>1, <2>1 DEF ClawAgentsTypeOK
    <3> QED
      BY <1>1, <3>1, <3>2, <3>3 DEF ClawAgentsTypeOK
  <2>6. FramesFit'
    <3> SUFFICES ASSUME NEW n \in Messages \ finished', NEW g \in 1 .. Frames
                 PROVE  /\ emitted'[n][g] > 0 => \E d \in Used' : stream'[d][n] >= g
                        /\ emitted'[n][g] > 1 => \E d, e \in Used' : d # e
      BY DEF FramesFit
    <3> n \in Messages \ finished
      BY <2>1
    <3>1. /\ emitted[n][g] \in Nat
          /\ emitted[n][g] > 0 => \E d \in Used : stream[d][n] >= g
          /\ emitted[n][g] > 1 => \E d, e \in Used : d # e
      BY <1>1, <2>3 DEF FramesFit
    <3>2. c \in Used
      BY <1>1 DEF Used
    <3>3. CASE n # m
      BY <1>2, <2>3, <2>4, <3>1, <3>3 DEF Used
    <3>4. CASE n = m
      <4>1. stream'[c][m] = f /\ (stream[c][m] <= 0 \/ f > stream[c][m])
        BY <1>1, <2>1, <3>1, <3>4 DEF ClawAgentsTypeOK, Fresh
      <4>2. emitted'[n][g] > 0 => \E d \in Used' : stream'[d][n] >= g
        <5> SUFFICES ASSUME emitted'[n][g] > 0 PROVE \E d \in Used : stream'[d][n] >= g
          BY <1>2
        <5>1. CASE g = f
          BY <2>2, <3>2, <3>4, <4>1, <5>1
        <5>2. CASE g # f
          <6>1. PICK d \in Used : stream[d][n] >= g
            BY <2>3, <3>1, <5>2
          <6>2. CASE d = c
            BY <2>2, <3>2, <3>4, <4>1, <6>1, <6>2
          <6>3. CASE d # c
            BY <2>4, <6>1, <6>3 DEF Used
          <6> QED
            BY <6>2, <6>3
        <5> QED
          BY <5>1, <5>2
      <4>3. emitted'[n][g] > 1 => \E d, e \in Used' : d # e
        <5> SUFFICES ASSUME emitted'[n][g] > 1 PROVE \E d, e \in Used : d # e
          BY <1>2
        <5>1. CASE emitted[n][g] > 1
          BY <3>1, <5>1
        <5>2. CASE ~ emitted[n][g] > 1
          <6>1. g = f /\ emitted[n][g] > 0
            BY <2>3, <3>1, <5>2
          <6>2. PICK d \in Used : stream[d][n] >= g
            BY <3>1, <6>1
          <6>3. d # c
            BY <2>2, <3>4, <4>1, <6>1, <6>2
          <6> QED
            BY <3>2, <6>3
        <5> QED
          BY <5>1, <5>2
      <4> QED
        BY <4>2, <4>3
    <3> QED
      BY <3>3, <3>4
  <2> QED
    BY <1>2, <2>5, <2>6
<1> QED
  BY <1>3, <1>4

LEMMA AgentKeeps == AgentInv /\ [ClawAgentsNext]_clawAgentsVars => AgentInv'
<1>1. ASSUME AgentInv, UNCHANGED clawAgentsVars PROVE AgentInv'
  BY <1>1 DEF AgentInv, ClawAgentsTypeOK, LinksFit, ModesFit, FramesFit, Superseded, Used,
     clawAgentsVars
<1>2. ASSUME AgentInv, NEW c \in Conns, NEW m \in Messages, NextFrame(c, m) PROVE AgentInv'
  <2>1. /\ sent[m] + 1 \in 1 .. Frames /\ Frame(c, m, sent[m] + 1)
        /\ sent' \in [Messages -> -1 .. Frames] /\ resent' \in 0 .. Resends
    BY <1>2, ClawAgentsAssumption DEF NextFrame, AgentInv, ClawAgentsTypeOK
  <2> QED
    BY <1>2, <2>1, FrameInv
<1>3. ASSUME AgentInv, NEW c \in Conns, NEW m \in Messages, SameFrame(c, m) PROVE AgentInv'
  <2>1. /\ sent' \in [Messages -> -1 .. Frames] /\ resent' \in 0 .. Resends
        /\ \E f \in 1 .. Frames : Frame(c, m, f)
    BY <1>3, ClawAgentsAssumption DEF SameFrame, AgentInv, ClawAgentsTypeOK
  <2> QED
    BY <1>3, <2>1, FrameInv
<1> QED
  BY <1>1, <1>2, <1>3, InsertInv, CopyInv, CheckInv, RemoveAgentInv, CloseAgentInv, SetModeInv,
     SendInv DEF ClawAgentsNext

LEMMA AgentsFollow == ASSUME AgentInv PROVE LatestAgentServes /\ FrameOnce
<1> USE ClawAgentsAssumption DEF AgentInv
<1>1. LatestAgentServes
  <2> SUFFICES ASSUME ~ raced, NEW c \in Conns, conn[c] = "open", ~ Superseded(c)
               PROVE  current = c /\ c \notin closed /\ (c \in mode <=> wanted)
    BY DEF LatestAgentServes, Superseded
  <2> QED
    BY DEF ModesFit, LinksFit
<1>2. FrameOnce
  <2> SUFFICES ASSUME NEW m \in Messages, NEW f \in 1 .. Frames, emitted[m][f] > 1, m \notin finished
               PROVE  Cardinality(Used) > 1
    BY DEF FrameOnce, Used
  <2>1. PICK c, d \in Used : c # d
    BY DEF FramesFit
  <2>2. IsFiniteSet({c, d}) /\ Cardinality({c, d}) = 2
    <3>1. {c, d} = {c} \cup {d} /\ d \notin {c}
      BY <2>1
    <3>2. IsFiniteSet({c}) /\ Cardinality({c}) = 1
      BY FS_Singleton
    <3>3. IsFiniteSet({c} \cup {d}) /\ Cardinality({c} \cup {d}) = 1 + 1
      BY <3>1, <3>2, FS_AddElement
    <3> QED
      BY <3>1, <3>3
  <2>3. IsFiniteSet(Used)
    BY FS_Subset DEF Used
  <2>4. Cardinality(Used) \in Nat /\ Cardinality({c, d}) <= Cardinality(Used)
    BY <2>3, FS_Subset, FS_CardinalityType
  <2> QED
    BY <2>2, <2>4
<1> QED
  BY <1>1, <1>2

-----------------------------------------------------------------------------
\* The notices for a device that is away

ReplayRecords == [pc : {"none", "copy", "speak", "pop", "end"}, copy : Seq(Notices), done : Nat,
                  round : 0 .. MaxRetry]

\* The bounds of a queue and of the rounds of a replay.
ReplayTypes ==
    /\ ClawOfflineTypeOK
    /\ \A r \in Replays : replay[r].pc = "none" => replay[r].round = 0
    /\ \A r \in Replays : replay[r].pc = "copy" => replay[r].round < MaxRetry

\* Who speaks has a beginning of the queue, and has spoken a beginning of that.
CopyBegins ==
    \A r \in Replays : InReplay(r) =>
        /\ replay[r].done <= Len(replay[r].copy) /\ Len(replay[r].copy) <= Len(offlineQ)
        /\ \A i \in 1 .. Len(replay[r].copy) : replay[r].copy[i] = offlineQ[i]

\* The replays that are past the place of a notice in the queue.
Past(r, i) == InReplay(r) /\ i <= replay[r].done

\* A notice in the queue was spoken by the replays that are past it, and by one if there is
\* one such replay.
HeardByPast ==
    \A i \in 1 .. Len(offlineQ) :
        /\ (\E r \in Replays : Past(r, i)) <=> heard[offlineQ[i]] > 0
        /\ (\A r, q \in Replays : Past(r, i) /\ Past(q, i) => r = q) => heard[offlineQ[i]] <= 1

\* The queue holds what was queued, once; what has left it was dropped or spoken, and not twice.
QueueHolds ==
    /\ \A i \in 1 .. Len(offlineQ) : offlineQ[i] \in queued
    /\ \A i, j \in 1 .. Len(offlineQ) : offlineQ[i] = offlineQ[j] => i = j
    /\ \A n \in Notices \ queued : heard[n] = 0
    /\ \A n \in queued : n \notin Elems(offlineQ) => (n \in dropped \/ heard[n] > 0) /\ heard[n] <= 1

NoticesFit == CopyBegins /\ HeardByPast /\ QueueHolds
OfflineInv == ReplayTypes /\ (overlap \/ NoticesFit)

LEMMA OfflineBegins == ClawOfflineInit => OfflineInv
<1> SUFFICES ASSUME ClawOfflineInit PROVE OfflineInv
  OBVIOUS
<1> USE ClawOfflineAssumption DEF ClawOfflineInit
<1>1. <<>> \in Seq(Notices) /\ Len(offlineQ) = 0
  OBVIOUS
<1>2. ReplayTypes
  <2>1. [pc |-> "none", copy |-> <<>>, done |-> 0, round |-> 0] \in ReplayRecords
    BY <1>1 DEF ReplayRecords
  <2>2. replay \in [Replays -> ReplayRecords]
    BY <2>1
  <2>3. heard \in [Notices -> Nat]
    OBVIOUS
  <2>4. offlineQ \in Seq(Notices) /\ Len(offlineQ) <= MaxQueue
    BY <1>1
  <2>5. ClawOfflineTypeOK
    BY <2>2, <2>3, <2>4 DEF ClawOfflineTypeOK, ReplayRecords
  <2>6. \A r \in Replays : replay[r].pc = "none" /\ replay[r].round = 0
    OBVIOUS
  <2> QED
    BY <2>5, <2>6 DEF ReplayTypes
<1>3. NoticesFit
  BY <1>1 DEF NoticesFit, CopyBegins, HeardByPast, QueueHolds, InReplay
<1> QED
  BY <1>2, <1>3 DEF OfflineInv

LEMMA ReplayFacts ==
    ASSUME ReplayTypes, NEW r \in Replays
    PROVE  /\ replay[r] \in ReplayRecords /\ replay[r].copy \in Seq(Notices)
           /\ replay[r].done \in Nat /\ Len(replay[r].copy) \in Nat
           /\ replay[r].round \in 0 .. MaxRetry
           /\ offlineQ \in Seq(Notices) /\ Len(offlineQ) \in Nat /\ Len(offlineQ) <= MaxQueue
           /\ replay \in [Replays -> ReplayRecords]
           /\ \A i \in 1 .. Len(offlineQ) : offlineQ[i] \in Notices
           /\ heard \in [Notices -> Nat]
  BY DEF ReplayTypes, ClawOfflineTypeOK, ReplayRecords

\* What is left of a queue without its first k.
LEMMA TailIs ==
    ASSUME NEW S, NEW q \in Seq(S), NEW k \in 0 .. Len(q)
    PROVE  /\ LastOf(Len(q) - k, q) \in Seq(S) /\ Len(LastOf(Len(q) - k, q)) = Len(q) - k
           /\ \A i \in 1 .. Len(q) - k : LastOf(Len(q) - k, q)[i] = q[i + k]
<1>1. LastOf(Len(q) - k, q) = SubSeq(q, k + 1, Len(q))
  BY DEF LastOf
<1>2. \A i \in k + 1 .. Len(q) : q[i] \in S
  OBVIOUS
<1>3. /\ SubSeq(q, k + 1, Len(q)) \in Seq(S)
      /\ Len(SubSeq(q, k + 1, Len(q))) = IF k + 1 <= Len(q) THEN Len(q) - (k + 1) + 1 ELSE 0
      /\ \A i \in 1 .. Len(q) - (k + 1) + 1 : SubSeq(q, k + 1, Len(q))[i] = q[k + 1 + i - 1]
  BY <1>2, SubSeqProperties
<1>4. Len(SubSeq(q, k + 1, Len(q))) = Len(q) - k
  BY <1>3
<1>5. \A i \in 1 .. Len(q) - k : SubSeq(q, k + 1, Len(q))[i] = q[i + k]
  BY <1>3
<1> QED
  BY <1>1, <1>3, <1>4, <1>5

\* The first k of a queue.
LEMMA HeadIs ==
    ASSUME NEW S, NEW q \in Seq(S), NEW k \in 0 .. Len(q)
    PROVE  Elems(SubSeq(q, 1, k)) = {q[i] : i \in 1 .. k}
<1>1. \A i \in 1 .. k : q[i] \in S
  OBVIOUS
<1>2. /\ SubSeq(q, 1, k) \in Seq(S)
      /\ Len(SubSeq(q, 1, k)) = IF 1 <= k THEN k - 1 + 1 ELSE 0
      /\ \A i \in 1 .. k - 1 + 1 : SubSeq(q, 1, k)[i] = q[1 + i - 1]
  BY <1>1, SubSeqProperties
<1>3. Len(SubSeq(q, 1, k)) = k /\ \A i \in 1 .. k : SubSeq(q, 1, k)[i] = q[i]
  BY <1>2
<1>4. DOMAIN SubSeq(q, 1, k) = 1 .. k
  BY <1>2, <1>3, LenProperties
<1> QED
  BY <1>3, <1>4 DEF Elems

LEMMA ElemsAre ==
    ASSUME NEW S, NEW q \in Seq(S)
    PROVE  Elems(q) = {q[i] : i \in 1 .. Len(q)}
  BY DEF Elems

\* The front of a queue goes that nobody is past, or that one replay has spoken and leaves.
LEMMA QueueShifts ==
    ASSUME ReplayTypes, NoticesFit, NEW k \in 0 .. Len(offlineQ),
           offlineQ' \in Seq(Notices), Len(offlineQ') = Len(offlineQ) - k,
           \A i \in 1 .. Len(offlineQ) - k : offlineQ'[i] = offlineQ[i + k],
           UNCHANGED <<queued, heard>>, dropped \subseteq dropped',
           \A i \in 1 .. k : (offlineQ[i] \in dropped' \/ heard[offlineQ[i]] > 0) /\ heard[offlineQ[i]] <= 1
    PROVE  QueueHolds'
<1>1. /\ offlineQ \in Seq(Notices) /\ heard \in [Notices -> Nat] /\ Len(offlineQ) \in Nat
  BY DEF ReplayTypes, ClawOfflineTypeOK
<1>2. QueueHolds
  BY DEF NoticesFit
<1>3. \A i \in 1 .. Len(offlineQ') : i + k \in 1 .. Len(offlineQ) /\ offlineQ'[i] = offlineQ[i + k]
  BY <1>1
<1>4. \A i, j \in 1 .. Len(offlineQ') : offlineQ'[i] = offlineQ'[j] => i = j
  <2> SUFFICES ASSUME NEW i \in 1 .. Len(offlineQ'), NEW j \in 1 .. Len(offlineQ'),
                      offlineQ'[i] = offlineQ'[j]
               PROVE  i = j
    OBVIOUS
  <2>1. i + k = j + k
    BY <1>2, <1>3 DEF QueueHolds
  <2> QED
    BY <1>1, <2>1
<1>5. \A n \in queued : n \notin Elems(offlineQ') => (n \in dropped' \/ heard[n] > 0) /\ heard[n] <= 1
  <2> SUFFICES ASSUME NEW n \in queued, n \notin Elems(offlineQ')
               PROVE  (n \in dropped' \/ heard[n] > 0) /\ heard[n] <= 1
    OBVIOUS
  <2>1. CASE n \notin Elems(offlineQ)
    BY <1>2, <2>1 DEF QueueHolds
  <2>2. CASE n \in Elems(offlineQ)
    <3>1. PICK i \in 1 .. Len(offlineQ) : offlineQ[i] = n
      BY <1>1, <2>2, ElemsAre
    <3>2. CASE i <= k
      BY <3>1, <3>2
    <3>3. CASE i > k
      <4>1. i - k \in 1 .. Len(offlineQ') /\ (i - k) + k = i
        BY <1>1, <3>3
      <4>2. offlineQ'[i - k] = n
        BY <1>3, <3>1, <4>1
      <4>3. n \in Elems(offlineQ')
        BY <4>1, <4>2, ElemsAre
      <4> QED
        BY <4>3
    <3> QED
      BY <3>2, <3>3
  <2> QED
    BY <2>1, <2>2
<1>6. \A i \in 1 .. Len(offlineQ') : offlineQ'[i] \in queued
  BY <1>2, <1>3 DEF QueueHolds
<1> QED
  BY <1>2, <1>4, <1>5, <1>6 DEF QueueHolds

LEMMA QueueNoticeInv == ASSUME OfflineInv, NEW n \in Notices, QueueNotice(n) PROVE OfflineInv'
<1> USE ClawOfflineAssumption DEF OfflineInv
<1> DEFINE q == Append(offlineQ, n)
           full == Len(q) > MaxQueue
<1>1. /\ n \notin queued /\ queued' = queued \cup {n} /\ UNCHANGED <<online, heard, replay>>
      /\ offlineQ' = IF full THEN LastOf(MaxQueue, q) ELSE q
      /\ dropped' = IF full THEN dropped \cup {q[1]} ELSE dropped
      /\ overlap' = (overlap \/ (full /\ \E r \in Replays : InReplay(r)))
  BY DEF QueueNotice
<1>2. /\ offlineQ \in Seq(Notices) /\ Len(offlineQ) \in Nat /\ Len(offlineQ) <= MaxQueue
      /\ heard \in [Notices -> Nat] /\ queued \subseteq Notices /\ dropped \subseteq Notices
      /\ overlap \in BOOLEAN /\ online \in BOOLEAN
  BY DEF ReplayTypes, ClawOfflineTypeOK
<1>3. /\ q \in Seq(Notices) /\ Len(q) = Len(offlineQ) + 1 /\ q[Len(offlineQ) + 1] = n
      /\ \A i \in 1 .. Len(offlineQ) : q[i] = offlineQ[i]
  BY <1>2, AppendProperties
<1> HIDE DEF q
<1>4. /\ q[1] \in Notices /\ MaxQueue \in Nat
      /\ full => MaxQueue = Len(q) - 1 /\ 1 \in 0 .. Len(q)
  BY <1>2, <1>3
<1>5. PICK k \in {0, 1} : /\ k = IF full THEN 1 ELSE 0
                          /\ offlineQ' \in Seq(Notices) /\ Len(offlineQ') = Len(q) - k
                          /\ \A i \in 1 .. Len(q) - k : offlineQ'[i] = q[i + k]
  <2>1. CASE full
    <3>1. /\ LastOf(Len(q) - 1, q) \in Seq(Notices) /\ Len(LastOf(Len(q) - 1, q)) = Len(q) - 1
          /\ \A i \in 1 .. Len(q) - 1 : LastOf(Len(q) - 1, q)[i] = q[i + 1]
      BY <1>3, <1>4, <2>1, TailIs
    <3> QED
      BY <1>1, <1>4, <2>1, <3>1
  <2>2. CASE ~ full
    BY <1>1, <1>3, <1>4, <2>2
  <2> QED
    BY <2>1, <2>2
<1>6. ReplayTypes'
  <2>1. ClawOfflineTypeOK'
    BY <1>1, <1>2, <1>3, <1>4, <1>5 DEF ReplayTypes, ClawOfflineTypeOK
  <2> QED
    BY <1>1, <2>1 DEF ReplayTypes
<1>7. overlap' \/ NoticesFit'
  <2> SUFFICES ASSUME ~ overlap' PROVE NoticesFit'
    OBVIOUS
  <2>1. NoticesFit /\ (full => \A r \in Replays : ~ InReplay(r))
    BY <1>1, <1>2
  <2>2. \A r \in Replays : InReplay(r)' <=> InReplay(r)
    BY <1>1 DEF InReplay
  <2>3. heard[n] = 0
    BY <1>1, <2>1 DEF NoticesFit, QueueHolds
  <2>4. CASE full
    <3>1. /\ k = 1 /\ Len(offlineQ') = Len(offlineQ)
          /\ \A i \in 1 .. Len(offlineQ') : offlineQ'[i] = q[i + 1]
          /\ Len(offlineQ) >= 1
      BY <1>2, <1>3, <1>4, <1>5, <2>4
    <3>2. \A i \in 1 .. Len(offlineQ) : heard[offlineQ[i]] = 0
      BY <1>2, <2>1, <2>4 DEF NoticesFit, HeardByPast, Past
    <3>3. \A i \in 1 .. Len(q) : heard[q[i]] = 0 /\ q[i] \in Notices
      BY <1>2, <1>3, <2>3, <3>2
    <3>4. \A i \in 1 .. Len(offlineQ') : heard[offlineQ'[i]] = 0
      BY <1>2, <1>3, <3>1, <3>3
    <3>5. CopyBegins' /\ HeardByPast'
      BY <1>1, <2>1, <2>2, <2>4, <3>4 DEF CopyBegins, HeardByPast, Past
    <3>6. \A i \in 1 .. Len(offlineQ) : offlineQ[i] \in queued /\ offlineQ[i] # n
      BY <1>1, <2>1 DEF NoticesFit, QueueHolds
    <3>7. \A i, j \in 1 .. Len(q) : q[i] = q[j] => i = j
      <4>1. \A i \in 1 .. Len(q) : i \in 1 .. Len(offlineQ) \/ i = Len(offlineQ) + 1
        BY <1>2, <1>3
      <4>2. \A i, j \in 1 .. Len(offlineQ) : offlineQ[i] = offlineQ[j] => i = j
        BY <2>1 DEF NoticesFit, QueueHolds
      <4> QED
        BY <1>3, <3>6, <4>1, <4>2
    <3>8. \A i \in 1 .. Len(offlineQ') : offlineQ'[i] \in queued'
      <4>1. \A i \in 1 .. Len(q) : q[i] \in queued'
        <5>1. \A i \in 1 .. Len(q) : i \in 1 .. Len(offlineQ) \/ i = Len(offlineQ) + 1
          BY <1>2, <1>3
        <5> QED
          BY <1>1, <1>3, <3>6, <5>1
      <4>2. \A i \in 1 .. Len(offlineQ') : i + 1 \in 1 .. Len(q)
        BY <1>2, <1>3, <3>1
      <4> QED
        BY <3>1, <4>1, <4>2
    <3>9. \A i, j \in 1 .. Len(offlineQ') : offlineQ'[i] = offlineQ'[j] => i = j
      <4> SUFFICES ASSUME NEW i \in 1 .. Len(offlineQ'), NEW j \in 1 .. Len(offlineQ'),
                          offlineQ'[i] = offlineQ'[j]
                   PROVE  i = j
        OBVIOUS
      <4>1. i + 1 \in 1 .. Len(q) /\ j + 1 \in 1 .. Len(q) /\ q[i + 1] = q[j + 1]
        BY <1>2, <1>3, <3>1
      <4>2. i + 1 = j + 1
        BY <3>7, <4>1
      <4> QED
        BY <1>2, <3>1, <4>2
    <3>10. ASSUME NEW m \in queued', m \notin Elems(offlineQ')
           PROVE  (m \in dropped' \/ heard'[m] > 0) /\ heard'[m] <= 1
      <4>1. CASE m \in Elems(q)
        <5>1. PICK i \in 1 .. Len(q) : q[i] = m
          BY <1>3, <4>1, ElemsAre
        <5>2. i = 1
          <6>1. ASSUME i > 1 PROVE FALSE
            <7>1. i - 1 \in 1 .. Len(offlineQ') /\ (i - 1) + 1 = i
              BY <1>2, <1>3, <3>1, <6>1
            <7>2. offlineQ'[i - 1] = m
              BY <3>1, <5>1, <7>1
            <7> QED
              BY <1>5, <3>10, <7>1, <7>2, ElemsAre
          <6> QED
            BY <6>1
        <5> QED
          BY <1>1, <2>4, <3>3, <5>1, <5>2
      <4>2. CASE m \notin Elems(q)
        <5>1. \A i \in 1 .. Len(q) : q[i] # m
          BY <1>3, <4>2, ElemsAre
        <5>2. m # n /\ m \notin Elems(offlineQ)
          BY <1>2, <1>3, <5>1, ElemsAre
        <5> QED
          BY <1>1, <2>1, <5>2 DEF NoticesFit, QueueHolds
      <4> QED
        BY <4>1, <4>2
    <3>11. QueueHolds'
      BY <1>1, <2>1, <3>8, <3>9, <3>10 DEF NoticesFit, QueueHolds
    <3> QED
      BY <3>5, <3>11 DEF NoticesFit
  <2>5. CASE ~ full
    <3>1. /\ offlineQ' = q /\ Len(offlineQ') = Len(offlineQ) + 1 /\ dropped' = dropped
          /\ \A i \in 1 .. Len(offlineQ) : offlineQ'[i] = offlineQ[i]
          /\ offlineQ'[Len(offlineQ) + 1] = n
      BY <1>1, <1>3, <2>5
    <3>2. \A i \in 1 .. Len(offlineQ') : i \in 1 .. Len(offlineQ) \/ i = Len(offlineQ) + 1
      BY <1>2, <3>1
    <3>3. \A r \in Replays : InReplay(r) => replay[r].done <= Len(offlineQ)
      <4> SUFFICES ASSUME NEW r \in Replays, InReplay(r) PROVE replay[r].done <= Len(offlineQ)
        OBVIOUS
      <4>1. /\ replay[r].done \in Nat /\ Len(replay[r].copy) \in Nat
            /\ replay[r].done <= Len(replay[r].copy) /\ Len(replay[r].copy) <= Len(offlineQ)
        BY <2>1, ReplayFacts DEF NoticesFit, CopyBegins
      <4> QED
        BY <1>2, <4>1
    <3>4. CopyBegins'
      <4> SUFFICES ASSUME NEW r \in Replays, InReplay(r)
                   PROVE  /\ replay[r].done <= Len(replay[r].copy)
                          /\ Len(replay[r].copy) <= Len(offlineQ')
                          /\ \A i \in 1 .. Len(replay[r].copy) : replay[r].copy[i] = offlineQ'[i]
        BY <1>1, <2>2 DEF CopyBegins
      <4>1. /\ replay[r].done <= Len(replay[r].copy) /\ Len(replay[r].copy) <= Len(offlineQ)
            /\ \A i \in 1 .. Len(replay[r].copy) : replay[r].copy[i] = offlineQ[i]
        BY <2>1 DEF NoticesFit, CopyBegins
      <4>2. Len(replay[r].copy) \in Nat
        BY ReplayFacts
      <4> QED
        BY <1>2, <3>1, <4>1, <4>2
    <3>5. HeardByPast'
      <4> SUFFICES ASSUME NEW i \in 1 .. Len(offlineQ')
                   PROVE  /\ (\E r \in Replays : Past(r, i)) <=> heard[offlineQ'[i]] > 0
                          /\ (\A r, p \in Replays : Past(r, i) /\ Past(p, i) => r = p) =>
                                 heard[offlineQ'[i]] <= 1
        BY <1>1, <2>2 DEF HeardByPast, Past
      <4>1. CASE i \in 1 .. Len(offlineQ)
        BY <2>1, <3>1, <4>1 DEF NoticesFit, HeardByPast
      <4>2. CASE i = Len(offlineQ) + 1
        <5>1. ASSUME NEW r \in Replays PROVE ~ Past(r, i)
          <6>1. replay[r].done \in Nat
            BY ReplayFacts
          <6> QED
            BY <1>2, <3>3, <4>2, <6>1 DEF Past
        <5> QED
          BY <2>3, <3>1, <4>2, <5>1
      <4> QED
        BY <3>2, <4>1, <4>2
    <3>6. QueueHolds'
      <4>1. \A i \in 1 .. Len(offlineQ) : offlineQ[i] \in queued /\ offlineQ[i] # n
        BY <1>1, <2>1 DEF NoticesFit, QueueHolds
      <4>2. \A i \in 1 .. Len(offlineQ') : offlineQ'[i] \in queued'
        BY <1>1, <3>1, <3>2, <4>1
      <4>3. \A i, j \in 1 .. Len(offlineQ') : offlineQ'[i] = offlineQ'[j] => i = j
        BY <2>1, <3>1, <3>2, <4>1 DEF NoticesFit, QueueHolds
      <4>4. ASSUME NEW m \in queued', m \notin Elems(offlineQ')
            PROVE  (m \in dropped' \/ heard'[m] > 0) /\ heard'[m] <= 1
        <5>1. \A i \in 1 .. Len(offlineQ') : offlineQ'[i] # m
          BY <1>5, <4>4, ElemsAre
        <5>2. m # n /\ m \notin Elems(offlineQ)
          BY <1>2, <3>1, <5>1, ElemsAre
        <5> QED
          BY <1>1, <2>1, <3>1, <5>2 DEF NoticesFit, QueueHolds
      <4> QED
        BY <1>1, <2>1, <4>2, <4>3, <4>4 DEF NoticesFit, QueueHolds
    <3> QED
      BY <3>4, <3>5, <3>6 DEF NoticesFit
  <2> QED
    BY <2>4, <2>5
<1> QED
  BY <1>6, <1>7

LEMMA ReplayBeginsInv == ASSUME OfflineInv, NEW r \in Replays, Hello(r) PROVE OfflineInv'
<1> USE ClawOfflineAssumption DEF OfflineInv
<1>1. /\ replay[r].pc = "none" /\ replay' = [replay EXCEPT ![r].pc = "copy"] /\ online' = TRUE
      /\ UNCHANGED <<offlineQ, queued, dropped, heard, overlap>>
  BY DEF Hello
<1>2. PICK s : s = [replay[r] EXCEPT !.pc = "copy"]
  OBVIOUS
<1>3. replay[r] \in ReplayRecords /\ replay \in [Replays -> ReplayRecords]
  BY ReplayFacts
<1>4. s \in ReplayRecords /\ s.pc = "copy" /\ s.round = replay[r].round
  BY <1>2, <1>3 DEF ReplayRecords
<1>5. replay' = [replay EXCEPT ![r] = s]
  BY <1>1, <1>2
<1>6. \A q \in Replays : replay'[q] = IF q = r THEN s ELSE replay[q]
  BY <1>3, <1>5
<1>7. ReplayTypes'
  <2>1. replay' \in [Replays -> ReplayRecords]
    BY <1>3, <1>4, <1>5
  <2>2. ClawOfflineTypeOK'
    BY <1>1, <2>1 DEF ReplayTypes, ClawOfflineTypeOK, ReplayRecords
  <2>3. replay[r].round = 0
    BY <1>1 DEF ReplayTypes
  <2> QED
    BY <1>4, <1>6, <2>2, <2>3 DEF ReplayTypes
<1>8. \A q \in Replays : (InReplay(q)' <=> InReplay(q)) /\ (InReplay(q) => replay'[q] = replay[q])
  BY <1>1, <1>4, <1>6 DEF InReplay
<1>9. NoticesFit => NoticesFit'
  BY <1>1, <1>8 DEF NoticesFit, CopyBegins, HeardByPast, Past, QueueHolds
<1> QED
  BY <1>1, <1>7, <1>9

\* A replay begins a round: what is too old goes while nobody else is in one.
LEMMA CopyQueueInv == ASSUME OfflineInv, NEW r \in Replays, CopyQueue(r) PROVE OfflineInv'
<1> USE ClawOfflineAssumption DEF OfflineInv
<1>1. PICK k \in 0 .. Len(offlineQ) :
         /\ replay[r].pc = "copy" /\ UNCHANGED <<online, queued, heard>>
         /\ offlineQ' = LastOf(Len(offlineQ) - k, offlineQ)
         /\ dropped' = dropped \cup Elems(SubSeq(offlineQ, 1, k))
         /\ overlap' = (overlap \/ (k > 0 /\ Others(r)))
         /\ replay' = [replay EXCEPT ![r].copy = offlineQ', ![r].done = 0, ![r].pc = "speak",
                                     ![r].round = @ + 1]
  BY DEF CopyQueue
<1>2. /\ replay[r] \in ReplayRecords /\ replay \in [Replays -> ReplayRecords]
      /\ offlineQ \in Seq(Notices) /\ Len(offlineQ) \in Nat /\ Len(offlineQ) <= MaxQueue
      /\ replay[r].round \in 0 .. MaxRetry /\ replay[r].round < MaxRetry
      /\ heard \in [Notices -> Nat]
  BY <1>1, ReplayFacts DEF ReplayTypes
<1>3. /\ offlineQ' \in Seq(Notices) /\ Len(offlineQ') = Len(offlineQ) - k
      /\ \A i \in 1 .. Len(offlineQ) - k : offlineQ'[i] = offlineQ[i + k]
  BY <1>1, <1>2, TailIs
<1>4. PICK s : s = [replay[r] EXCEPT !.copy = offlineQ', !.done = 0, !.pc = "speak", !.round = @ + 1]
  OBVIOUS
<1>5. replay[r].round + 1 \in 0 .. MaxRetry
  BY <1>2
<1>6. s \in ReplayRecords /\ s.pc = "speak" /\ s.copy = offlineQ' /\ s.done = 0
  BY <1>2, <1>3, <1>4, <1>5 DEF ReplayRecords
<1>7. replay' = [replay EXCEPT ![r] = s]
  BY <1>1, <1>4
<1>8. \A q \in Replays : replay'[q] = IF q = r THEN s ELSE replay[q]
  BY <1>2, <1>7
<1>9. Elems(SubSeq(offlineQ, 1, k)) = {offlineQ[i] : i \in 1 .. k}
  BY <1>2, HeadIs
<1>10. ReplayTypes'
  <2>1. replay' \in [Replays -> ReplayRecords]
    BY <1>2, <1>6, <1>7
  <2>2. \A i \in 1 .. k : offlineQ[i] \in Notices
    BY <1>2
  <2>3. dropped' \subseteq Notices /\ overlap' \in BOOLEAN
    <3>1. {offlineQ[i] : i \in 1 .. k} \subseteq Notices
      BY <2>2
    <3>2. dropped \subseteq Notices
      BY DEF ReplayTypes, ClawOfflineTypeOK
    <3>3. dropped' \subseteq Notices
      BY <1>1, <1>9, <3>1, <3>2
    <3>4. overlap' \in BOOLEAN
      BY <1>1
    <3> QED
      BY <3>3, <3>4
  <2>4. Len(offlineQ') <= MaxQueue
    BY <1>2, <1>3
  <2>5. ClawOfflineTypeOK'
    BY <1>1, <1>3, <2>1, <2>3, <2>4 DEF ReplayTypes, ClawOfflineTypeOK, ReplayRecords
  <2> QED
    BY <1>6, <1>8, <2>5 DEF ReplayTypes
<1>11. overlap' \/ NoticesFit'
  <2> SUFFICES ASSUME ~ overlap' PROVE NoticesFit'
    OBVIOUS
  <2>1. NoticesFit /\ (k > 0 => ~ Others(r))
    BY <1>1 DEF ReplayTypes, ClawOfflineTypeOK
  <2>2. ~ InReplay(r) /\ InReplay(r)'
    BY <1>1, <1>6, <1>8 DEF InReplay
  <2>3. \A q \in Replays \ {r} : (InReplay(q)' <=> InReplay(q)) /\ replay'[q] = replay[q]
    BY <1>8 DEF InReplay
  <2>4. k > 0 => \A q \in Replays : ~ InReplay(q)
    BY <2>1, <2>2 DEF Others
  <2>5. k = 0 => Len(offlineQ') = Len(offlineQ) /\ \A i \in 1 .. Len(offlineQ) : offlineQ'[i] = offlineQ[i]
    BY <1>2, <1>3
  <2>6. CopyBegins'
    <3>1. /\ replay'[r].done <= Len(replay'[r].copy) /\ Len(replay'[r].copy) <= Len(offlineQ')
          /\ \A i \in 1 .. Len(replay'[r].copy) : replay'[r].copy[i] = offlineQ'[i]
      BY <1>2, <1>3, <1>6, <1>8
    <3>2. ASSUME NEW q \in Replays \ {r}, InReplay(q)
          PROVE  /\ replay'[q].done <= Len(replay'[q].copy) /\ Len(replay'[q].copy) <= Len(offlineQ')
                 /\ \A i \in 1 .. Len(replay'[q].copy) : replay'[q].copy[i] = offlineQ'[i]
      <4>1. k = 0
        BY <2>4, <3>2
      <4>2. /\ replay[q].done <= Len(replay[q].copy) /\ Len(replay[q].copy) <= Len(offlineQ)
            /\ \A i \in 1 .. Len(replay[q].copy) : replay[q].copy[i] = offlineQ[i]
            /\ Len(replay[q].copy) \in Nat
        BY <2>1, <3>2, ReplayFacts DEF NoticesFit, CopyBegins
      <4> QED
        BY <1>2, <2>3, <2>5, <4>1, <4>2
    <3> QED
      BY <2>3, <3>1, <3>2 DEF CopyBegins
  <2>7. \A q \in Replays, i \in Nat \ {0} : Past(q, i)' <=> Past(q, i)
    BY <1>6, <1>8, <2>2, <2>3 DEF Past
  <2>8. k > 0 => \A i \in 1 .. Len(offlineQ) : heard[offlineQ[i]] = 0
    BY <1>2, <2>1, <2>4 DEF NoticesFit, HeardByPast, Past
  <2>9. HeardByPast'
    <3>1. CASE k > 0
      <4>1. \A i \in 1 .. Len(offlineQ') : i \in Nat \ {0} /\ heard[offlineQ'[i]] = 0
        <5> SUFFICES ASSUME NEW i \in 1 .. Len(offlineQ')
                     PROVE  i \in Nat \ {0} /\ heard[offlineQ'[i]] = 0
          OBVIOUS
        <5>1. i \in 1 .. Len(offlineQ) - k /\ i + k \in 1 .. Len(offlineQ)
          BY <1>2, <1>3
        <5>2. heard[offlineQ[i + k]] = 0
          BY <2>8, <3>1, <5>1
        <5>3. offlineQ'[i] = offlineQ[i + k]
          BY <1>3, <5>1
        <5> QED
          BY <5>2, <5>3
      <4>2. \A q \in Replays, i \in 1 .. Len(offlineQ') : ~ Past(q, i)'
        <5> SUFFICES ASSUME NEW q \in Replays, NEW i \in 1 .. Len(offlineQ') PROVE ~ Past(q, i)'
          OBVIOUS
        <5>1. ~ Past(q, i)
          BY <2>4, <3>1 DEF Past
        <5> QED
          BY <2>7, <4>1, <5>1
      <4> QED
        BY <1>1, <4>1, <4>2 DEF HeardByPast
    <3>2. CASE k = 0
      <4>1. \A i \in 1 .. Len(offlineQ') : i \in Nat \ {0} /\ offlineQ'[i] = offlineQ[i] /\ i \in 1 .. Len(offlineQ)
        BY <1>2, <2>5, <3>2
      <4> QED
        BY <1>1, <2>1, <2>7, <4>1 DEF NoticesFit, HeardByPast
    <3> QED
      BY <3>1, <3>2
  <2>10. QueueHolds'
    <3>1. \A i \in 1 .. k : (offlineQ[i] \in dropped' \/ heard[offlineQ[i]] > 0) /\ heard[offlineQ[i]] <= 1
      <4> SUFFICES ASSUME NEW i \in 1 .. k
                   PROVE  offlineQ[i] \in dropped' /\ heard[offlineQ[i]] <= 1
        OBVIOUS
      <4>1. k > 0 /\ i \in 1 .. Len(offlineQ)
        BY <1>2
      <4> QED
        BY <1>1, <1>9, <2>8, <4>1
    <3>2. dropped \subseteq dropped' /\ UNCHANGED <<queued, heard>>
      BY <1>1
    <3> QED
      BY <1>3, <2>1, <3>1, <3>2, QueueShifts
  <2> QED
    BY <2>6, <2>9, <2>10 DEF NoticesFit
<1> QED
  BY <1>10, <1>11

LEMMA SpeakNoticeInv == ASSUME OfflineInv, NEW r \in Replays, SpeakNotice(r) PROVE OfflineInv'
<1> USE ClawOfflineAssumption DEF OfflineInv
<1> DEFINE d == replay[r].done + 1
           n == replay[r].copy[d]
<1>1. /\ replay[r].pc = "speak" /\ replay[r].done < Len(replay[r].copy)
      /\ replay' = [replay EXCEPT ![r].done = @ + 1]
      /\ heard' = [heard EXCEPT ![n] = @ + 1]
      /\ UNCHANGED <<online, offlineQ, queued, dropped, overlap>>
  BY DEF SpeakNotice
<1>2. /\ replay[r] \in ReplayRecords /\ replay \in [Replays -> ReplayRecords]
      /\ offlineQ \in Seq(Notices) /\ Len(offlineQ) \in Nat
      /\ replay[r].copy \in Seq(Notices) /\ Len(replay[r].copy) \in Nat /\ replay[r].done \in Nat
      /\ heard \in [Notices -> Nat]
  BY ReplayFacts
<1>3. d \in 1 .. Len(replay[r].copy) /\ n \in Notices /\ d \in Nat
  BY <1>1, <1>2
<1> HIDE DEF n
<1>4. PICK s : s = [replay[r] EXCEPT !.done = @ + 1]
  OBVIOUS
<1>5. s \in ReplayRecords /\ s.pc = "speak" /\ s.copy = replay[r].copy /\ s.done = d
  BY <1>1, <1>2, <1>3, <1>4 DEF ReplayRecords
<1>6. replay' = [replay EXCEPT ![r] = s]
  BY <1>1, <1>4
<1>7. \A q \in Replays : replay'[q] = IF q = r THEN s ELSE replay[q]
  BY <1>2, <1>6
<1>8. \A m \in Notices : heard'[m] = IF m = n THEN heard[m] + 1 ELSE heard[m]
  BY <1>1, <1>2
<1>9. ReplayTypes'
  <2>1. replay' \in [Replays -> ReplayRecords]
    BY <1>2, <1>5, <1>6
  <2>2. heard' \in [Notices -> Nat]
    <3>1. heard[n] + 1 \in Nat
      BY <1>2, <1>3
    <3> QED
      BY <1>1, <1>2, <3>1
  <2>3. ClawOfflineTypeOK'
    BY <1>1, <2>1, <2>2 DEF ReplayTypes, ClawOfflineTypeOK, ReplayRecords
  <2> QED
    BY <1>5, <1>7, <2>3 DEF ReplayTypes
<1>10. overlap' \/ NoticesFit'
  <2> SUFFICES ASSUME ~ overlap PROVE NoticesFit'
    BY <1>1
  <2>1. NoticesFit
    OBVIOUS
  <2>2. InReplay(r) /\ \A q \in Replays : InReplay(q)' <=> InReplay(q)
    BY <1>1, <1>5, <1>7 DEF InReplay
  <2>3. /\ Len(replay[r].copy) <= Len(offlineQ) /\ d \in 1 .. Len(offlineQ)
        /\ n = offlineQ[d]
    <3>1. /\ Len(replay[r].copy) <= Len(offlineQ)
          /\ \A i \in 1 .. Len(replay[r].copy) : replay[r].copy[i] = offlineQ[i]
      BY <2>1, <2>2 DEF NoticesFit, CopyBegins
    <3> QED
      BY <1>2, <1>3, <3>1 DEF n
  <2>4. CopyBegins'
    BY <1>1, <1>3, <1>5, <1>7, <2>1, <2>2 DEF NoticesFit, CopyBegins
  <2>5. /\ \A q \in Replays \ {r}, i \in Nat : Past(q, i)' <=> Past(q, i)
        /\ \A i \in Nat : Past(r, i)' <=> i <= d
        /\ \A i \in Nat : Past(r, i) <=> i <= replay[r].done
    BY <1>5, <1>7, <2>2 DEF Past
  <2>6. \A i \in 1 .. Len(offlineQ) : offlineQ[i] = n => i = d
    BY <2>1, <2>3 DEF NoticesFit, QueueHolds
  <2>7. HeardByPast'
    <3> SUFFICES ASSUME NEW i \in 1 .. Len(offlineQ)
                 PROVE  /\ (\E q \in Replays : Past(q, i)') <=> heard'[offlineQ[i]] > 0
                        /\ (\A q, p \in Replays : Past(q, i)' /\ Past(p, i)' => q = p) =>
                               heard'[offlineQ[i]] <= 1
      BY <1>1 DEF HeardByPast
    <3>1. /\ offlineQ[i] \in Notices /\ heard[offlineQ[i]] \in Nat /\ i \in Nat
          /\ (\E q \in Replays : Past(q, i)) <=> heard[offlineQ[i]] > 0
          /\ (\A q, p \in Replays : Past(q, i) /\ Past(p, i) => q = p) => heard[offlineQ[i]] <= 1
      BY <1>2, <2>1 DEF NoticesFit, HeardByPast
    <3>2. CASE i # d
      <4>1. heard'[offlineQ[i]] = heard[offlineQ[i]]
        BY <1>8, <2>6, <3>1, <3>2
      <4>2. \A q \in Replays : Past(q, i)' <=> Past(q, i)
        BY <1>2, <2>5, <3>1, <3>2
      <4> QED
        BY <3>1, <4>1, <4>2
    <3>3. CASE i = d
      <4>1. heard'[offlineQ[i]] = heard[offlineQ[i]] + 1 /\ Past(r, i)' /\ ~ Past(r, i)
        BY <1>2, <1>8, <2>3, <2>5, <3>1, <3>3
      <4>2. ASSUME \A q, p \in Replays : Past(q, i)' /\ Past(p, i)' => q = p
            PROVE  heard[offlineQ[i]] = 0
        <5>1. \A q \in Replays : ~ Past(q, i)
          BY <2>5, <3>1, <4>1, <4>2
        <5> QED
          BY <3>1, <5>1
      <4> QED
        BY <3>1, <4>1, <4>2
    <3> QED
      BY <3>2, <3>3
  <2>8. QueueHolds'
    <3>1. n \in queued /\ n \in Elems(offlineQ)
      BY <1>2, <2>1, <2>3, ElemsAre DEF NoticesFit, QueueHolds
    <3>2. \A m \in Notices : m # n => heard'[m] = heard[m]
      BY <1>8
    <3>3. queued \subseteq Notices
      BY DEF ReplayTypes, ClawOfflineTypeOK
    <3> QED
      BY <1>1, <2>1, <3>1, <3>2, <3>3 DEF NoticesFit, QueueHolds
  <2> QED
    BY <2>4, <2>7, <2>8 DEF NoticesFit
<1> QED
  BY <1>9, <1>10

LEMMA SpeakEndsInv == ASSUME OfflineInv, NEW r \in Replays, SpeakEnds(r) PROVE OfflineInv'
<1> USE ClawOfflineAssumption DEF OfflineInv
<1>1. /\ replay[r].pc = "speak" /\ replay' = [replay EXCEPT ![r].pc = "pop"]
      /\ UNCHANGED <<online, offlineQ, queued, dropped, heard, overlap>>
  BY DEF SpeakEnds
<1>2. PICK s : s = [replay[r] EXCEPT !.pc = "pop"]
  OBVIOUS
<1>3. replay[r] \in ReplayRecords /\ replay \in [Replays -> ReplayRecords]
  BY ReplayFacts
<1>4. s \in ReplayRecords /\ s.pc = "pop" /\ s.copy = replay[r].copy /\ s.done = replay[r].done
  BY <1>2, <1>3 DEF ReplayRecords
<1>5. replay' = [replay EXCEPT ![r] = s]
  BY <1>1, <1>2
<1>6. \A q \in Replays : replay'[q] = IF q = r THEN s ELSE replay[q]
  BY <1>3, <1>5
<1>7. ReplayTypes'
  <2>1. replay' \in [Replays -> ReplayRecords]
    BY <1>3, <1>4, <1>5
  <2>2. ClawOfflineTypeOK'
    BY <1>1, <2>1 DEF ReplayTypes, ClawOfflineTypeOK, ReplayRecords
  <2> QED
    BY <1>4, <1>6, <2>2 DEF ReplayTypes
<1>8. \A q \in Replays : /\ InReplay(q)' <=> InReplay(q)
                         /\ replay'[q].copy = replay[q].copy /\ replay'[q].done = replay[q].done
  BY <1>1, <1>4, <1>6 DEF InReplay
<1>9. NoticesFit => NoticesFit'
  BY <1>1, <1>8 DEF NoticesFit, CopyBegins, HeardByPast, Past, QueueHolds
<1> QED
  BY <1>1, <1>7, <1>9

\* A replay takes from the front what it has spoken, alone or nothing.
LEMMA PopSpokenInv == ASSUME OfflineInv, NEW r \in Replays, PopSpoken(r) PROVE OfflineInv'
<1> USE ClawOfflineAssumption DEF OfflineInv
<1> DEFINE k == replay[r].done
           to == IF offlineQ' = <<>> \/ replay[r].round = MaxRetry THEN "end" ELSE "copy"
<1>1. /\ replay[r].pc = "pop" /\ offlineQ' = LeftAfter(k, offlineQ)
      /\ overlap' = (overlap \/ (k > 0 /\ Others(r)))
      /\ replay' = [replay EXCEPT ![r].pc = to]
      /\ UNCHANGED <<online, queued, dropped, heard>>
  BY DEF PopSpoken
<1>2. /\ replay[r] \in ReplayRecords /\ replay \in [Replays -> ReplayRecords]
      /\ offlineQ \in Seq(Notices) /\ Len(offlineQ) \in Nat /\ Len(offlineQ) <= MaxQueue
      /\ replay[r].round \in 0 .. MaxRetry /\ k \in Nat /\ heard \in [Notices -> Nat]
      /\ Len(replay[r].copy) \in Nat
  BY ReplayFacts
<1>3. /\ offlineQ' \in Seq(Notices) /\ Len(offlineQ') <= MaxQueue
      /\ k \in 0 .. Len(offlineQ) =>
             /\ Len(offlineQ') = Len(offlineQ) - k
             /\ \A i \in 1 .. Len(offlineQ) - k : offlineQ'[i] = offlineQ[i + k]
  <2>1. CASE k < Len(offlineQ)
    <3>1. offlineQ' = LastOf(Len(offlineQ) - k, offlineQ) /\ k \in 0 .. Len(offlineQ)
      BY <1>1, <1>2, <2>1 DEF LeftAfter
    <3>2. /\ offlineQ' \in Seq(Notices) /\ Len(offlineQ') = Len(offlineQ) - k
          /\ \A i \in 1 .. Len(offlineQ) - k : offlineQ'[i] = offlineQ[i + k]
      BY <1>2, <3>1, TailIs
    <3> QED
      BY <1>2, <3>2
  <2>2. CASE k >= Len(offlineQ) /\ k > 0
    <3>1. offlineQ' = <<>> /\ <<>> \in Seq(Notices) /\ Len(<<>>) = 0
      BY <1>1, <2>2, EmptySeq DEF LeftAfter
    <3> QED
      BY <1>2, <2>2, <3>1
  <2>3. CASE k >= Len(offlineQ) /\ k = 0
    <3>1. offlineQ' = offlineQ
      BY <1>1, <2>3 DEF LeftAfter
    <3> QED
      BY <1>2, <2>3, <3>1
  <2> QED
    BY <1>2, <2>1, <2>2, <2>3
<1>4. PICK s : s = [replay[r] EXCEPT !.pc = to]
  OBVIOUS
<1>5. /\ s \in ReplayRecords /\ s.pc \in {"end", "copy"} /\ s.round = replay[r].round
      /\ s.pc = "copy" => s.round # MaxRetry
  BY <1>2, <1>4 DEF ReplayRecords
<1>6. replay' = [replay EXCEPT ![r] = s]
  BY <1>1, <1>4
<1>7. \A q \in Replays : replay'[q] = IF q = r THEN s ELSE replay[q]
  BY <1>2, <1>6
<1>8. ReplayTypes'
  <2>1. replay' \in [Replays -> ReplayRecords]
    BY <1>2, <1>5, <1>6
  <2>2. overlap' \in BOOLEAN
    BY <1>1 DEF ReplayTypes, ClawOfflineTypeOK
  <2>3. ClawOfflineTypeOK'
    BY <1>1, <1>3, <2>1, <2>2 DEF ReplayTypes, ClawOfflineTypeOK, ReplayRecords
  <2>4. s.pc = "copy" => s.round < MaxRetry
    BY <1>2, <1>5
  <2> QED
    BY <1>5, <1>7, <2>3, <2>4 DEF ReplayTypes
<1>9. overlap' \/ NoticesFit'
  <2> SUFFICES ASSUME ~ overlap' PROVE NoticesFit'
    OBVIOUS
  <2>1. NoticesFit /\ (k > 0 => ~ Others(r))
    BY <1>1 DEF ReplayTypes, ClawOfflineTypeOK
  <2>2. InReplay(r) /\ ~ InReplay(r)'
    BY <1>1, <1>5, <1>7 DEF InReplay
  <2>3. \A q \in Replays \ {r} : /\ replay'[q] = replay[q] /\ (InReplay(q)' <=> InReplay(q))
                                 /\ k > 0 => ~ InReplay(q)
    BY <1>7, <2>1 DEF InReplay, Others
  <2>4. k \in 0 .. Len(offlineQ)
    BY <1>2, <2>1, <2>2 DEF NoticesFit, CopyBegins
  <2>5. /\ Len(offlineQ') = Len(offlineQ) - k
        /\ \A i \in 1 .. Len(offlineQ) - k : offlineQ'[i] = offlineQ[i + k]
    BY <1>3, <2>4
  <2>6. CopyBegins'
    <3> SUFFICES ASSUME NEW q \in Replays \ {r}, InReplay(q)
                 PROVE  /\ replay'[q].done <= Len(replay'[q].copy)
                        /\ Len(replay'[q].copy) <= Len(offlineQ')
                        /\ \A i \in 1 .. Len(replay'[q].copy) : replay'[q].copy[i] = offlineQ'[i]
      BY <2>2, <2>3 DEF CopyBegins
    <3>1. k = 0
      BY <1>2, <2>3
    <3>2. /\ replay[q].done <= Len(replay[q].copy) /\ Len(replay[q].copy) <= Len(offlineQ)
          /\ \A i \in 1 .. Len(replay[q].copy) : replay[q].copy[i] = offlineQ[i]
          /\ Len(replay[q].copy) \in Nat
      BY <2>1, ReplayFacts DEF NoticesFit, CopyBegins
    <3> QED
      BY <1>2, <2>3, <2>5, <3>1, <3>2
  <2>7. HeardByPast'
    <3> SUFFICES ASSUME NEW i \in 1 .. Len(offlineQ')
                 PROVE  /\ (\E q \in Replays : Past(q, i)') <=> heard[offlineQ'[i]] > 0
                        /\ (\A q, p \in Replays : Past(q, i)' /\ Past(p, i)' => q = p) =>
                               heard[offlineQ'[i]] <= 1
      BY <1>1 DEF HeardByPast
    <3>1. /\ i \in Nat /\ i >= 1 /\ i + k \in 1 .. Len(offlineQ) /\ offlineQ'[i] = offlineQ[i + k]
      <4>1. i \in 1 .. Len(offlineQ) - k
        BY <2>5
      <4>2. k \in Nat /\ Len(offlineQ) \in Nat
        BY <1>2
      <4> HIDE DEF k
      <4>3. i \in Nat /\ i >= 1 /\ i + k \in 1 .. Len(offlineQ)
        BY <4>1, <4>2
      <4> QED
        BY <2>5, <4>1, <4>3
    <3>2. ~ Past(r, i)' /\ ~ Past(r, i + k)
      BY <1>2, <2>2, <3>1 DEF Past
    <3>3. \A q \in Replays \ {r} : Past(q, i)' <=> Past(q, i + k)
      <4>1. CASE k = 0
        BY <2>3, <3>1, <4>1 DEF Past
      <4>2. CASE k > 0
        BY <2>3, <4>2 DEF Past
      <4> QED
        BY <1>2, <4>1, <4>2
    <3>4. \A q \in Replays : Past(q, i)' <=> Past(q, i + k)
      BY <3>2, <3>3
    <3>5. /\ (\E q \in Replays : Past(q, i + k)) <=> heard[offlineQ[i + k]] > 0
          /\ (\A q, p \in Replays : Past(q, i + k) /\ Past(p, i + k) => q = p) =>
                 heard[offlineQ[i + k]] <= 1
      BY <2>1, <3>1 DEF NoticesFit, HeardByPast
    <3> QED
      BY <3>1, <3>4, <3>5
  <2>8. QueueHolds'
    <3>1. \A i \in 1 .. k : (offlineQ[i] \in dropped' \/ heard[offlineQ[i]] > 0) /\ heard[offlineQ[i]] <= 1
      <4> SUFFICES ASSUME NEW i \in 1 .. k
                   PROVE  heard[offlineQ[i]] > 0 /\ heard[offlineQ[i]] <= 1
        OBVIOUS
      <4>1. k > 0 /\ i \in 1 .. Len(offlineQ) /\ Past(r, i)
        BY <1>2, <2>2, <2>4 DEF Past
      <4>2. \A q, p \in Replays : Past(q, i) /\ Past(p, i) => q = p
        BY <2>3, <4>1 DEF Past
      <4> QED
        BY <2>1, <4>1, <4>2 DEF NoticesFit, HeardByPast
    <3> QED
      BY <1>1, <1>3, <2>1, <2>4, <2>5, <3>1, QueueShifts
  <2> QED
    BY <2>6, <2>7, <2>8 DEF NoticesFit
<1> QED
  BY <1>8, <1>9

LEMMA OfflineKeeps == OfflineInv /\ [ClawOfflineNext]_clawOfflineVars => OfflineInv'
<1>1. ASSUME OfflineInv, DeviceLeaves \/ UNCHANGED clawOfflineVars PROVE OfflineInv'
  <2>1. online' \in BOOLEAN /\ UNCHANGED <<offlineQ, queued, dropped, heard, replay, overlap>>
    BY <1>1 DEF DeviceLeaves, clawOfflineVars, OfflineInv, ReplayTypes, ClawOfflineTypeOK
  <2>2. ReplayTypes'
    BY <1>1, <2>1 DEF OfflineInv, ReplayTypes, ClawOfflineTypeOK
  <2>3. NoticesFit => NoticesFit'
    BY <2>1 DEF NoticesFit, CopyBegins, HeardByPast, Past, QueueHolds, InReplay
  <2> QED
    BY <1>1, <2>1, <2>2, <2>3 DEF OfflineInv
<1> QED
  BY <1>1, QueueNoticeInv, ReplayBeginsInv, CopyQueueInv, SpeakNoticeInv, SpeakEndsInv, PopSpokenInv
  DEF ClawOfflineNext

LEMMA NoticesFollow == ASSUME OfflineInv PROVE NoticeSpokenOnce
<1> SUFFICES ASSUME ~ overlap, NEW n \in queued
             PROVE  /\ n \in Elems(offlineQ) \/ n \in dropped \/ heard[n] > 0
                    /\ heard[n] > 0 /\ n \in Elems(offlineQ) =>
                           \E r \in Replays : InReplay(r) /\
                               n \in Elems(SubSeq(replay[r].copy, 1, replay[r].done))
                    /\ (\A r, q \in Replays : InReplay(r) /\ InReplay(q) => r = q) => heard[n] <= 1
  BY DEF NoticeSpokenOnce
<1>1. NoticesFit /\ ReplayTypes /\ offlineQ \in Seq(Notices)
  BY DEF OfflineInv, ReplayTypes, ClawOfflineTypeOK
<1>2. CASE n \notin Elems(offlineQ)
  BY <1>1, <1>2 DEF NoticesFit, QueueHolds
<1>3. CASE n \in Elems(offlineQ)
  <2>1. PICK i \in 1 .. Len(offlineQ) : offlineQ[i] = n
    BY <1>1, <1>3, ElemsAre
  <2>2. /\ (\E r \in Replays : Past(r, i)) <=> heard[n] > 0
        /\ (\A r, q \in Replays : Past(r, i) /\ Past(q, i) => r = q) => heard[n] <= 1
    BY <1>1, <2>1 DEF NoticesFit, HeardByPast
  <2>3. ASSUME heard[n] > 0
        PROVE  \E r \in Replays : InReplay(r) /\
                   n \in Elems(SubSeq(replay[r].copy, 1, replay[r].done))
    <3>1. PICK r \in Replays : InReplay(r) /\ i <= replay[r].done
      BY <2>2, <2>3 DEF Past
    <3>2. /\ replay[r].copy \in Seq(Notices) /\ replay[r].done \in Nat
          /\ Len(replay[r].copy) \in Nat /\ replay[r].done <= Len(replay[r].copy)
          /\ \A j \in 1 .. Len(replay[r].copy) : replay[r].copy[j] = offlineQ[j]
      BY <1>1, <3>1, ReplayFacts DEF NoticesFit, CopyBegins
    <3>3. i \in 1 .. replay[r].done /\ replay[r].copy[i] = n
      BY <2>1, <3>1, <3>2
    <3>4. Elems(SubSeq(replay[r].copy, 1, replay[r].done)) = {replay[r].copy[j] : j \in 1 .. replay[r].done}
      BY <3>2, HeadIs
    <3> QED
      BY <3>1, <3>3, <3>4
  <2>4. ASSUME \A r, q \in Replays : InReplay(r) /\ InReplay(q) => r = q PROVE heard[n] <= 1
    BY <2>2, <2>4 DEF Past
  <2> QED
    BY <1>3, <2>3, <2>4
<1> QED
  BY <1>2, <1>3

-----------------------------------------------------------------------------
\* The answers of an agent

\* A state of the stream; what its texts are is left open.
StreamsOf(B) == [buffer : B, emitted : B, pending : B, delta : BOOLEAN, first : BOOLEAN, seq : Nat]
IsStream(st) == \E B : st \in StreamsOf(B)

SpeechInv ==
    /\ speech \in Texts /\ manner \in {"pieces", "growing", "snapshots"}
    /\ told \in 0 .. Len(speech) /\ frames \in 0 .. MaxSeq /\ alike \in BOOLEAN
    /\ IsStream(answer) /\ answer.seq \in 0 .. frames

LEMMA SpeechBounds == MaxText \in Nat /\ MaxSeq \in Nat
  BY ClawSpeechAssumption, Zenon

LEMMA TextLen == ASSUME NEW s \in Texts PROVE Len(s) \in Nat
<1>1. PICK n \in 1 .. MaxText : s \in [1 .. n -> Letters \cup Pauses]
  BY Zenon DEF Texts
<1>2. n \in Nat
  BY SpeechBounds
<1>3. s \in Seq(Letters \cup Pauses)
  BY <1>1, <1>2
<1> QED
  BY <1>3

LEMMA SnapshotIs == ASSUME NEW st, IsStream(st), NEW s PROVE IsStream(Snapshot(st, s))
<1>1. PICK B : st \in StreamsOf(B)
  BY DEF IsStream
<1>2. PICK c : c = Normal(IF st.emitted # <<>> /\ StartsWith(s, st.emitted) THEN Beyond(s, st.emitted) ELSE s)
  OBVIOUS
<1>3. Snapshot(st, s) = IF s = <<>> THEN st ELSE [st EXCEPT !.pending = <<>>, !.buffer = c]
  BY <1>2 DEF Snapshot
<1>4. [st EXCEPT !.pending = <<>>, !.buffer = c] \in StreamsOf(B \cup {c, <<>>})
  BY <1>1 DEF StreamsOf
<1> QED
  BY <1>1, <1>3, <1>4 DEF IsStream

LEMMA WaitsIs == ASSUME NEW st, IsStream(st), NEW p PROVE IsStream([st EXCEPT !.pending = p])
<1>1. PICK B : st \in StreamsOf(B)
  BY DEF IsStream
<1>2. [st EXCEPT !.pending = p] \in StreamsOf(B \cup {p})
  BY <1>1 DEF StreamsOf
<1> QED
  BY <1>2 DEF IsStream

LEMMA GoesOnIs ==
    ASSUME NEW st, IsStream(st)
    PROVE  IsStream([st EXCEPT !.delta = TRUE]) /\ IsStream([st EXCEPT !.delta = TRUE, !.pending = <<>>])
<1>1. PICK B : st \in StreamsOf(B)
  BY DEF IsStream
<1>2. /\ [st EXCEPT !.delta = TRUE] \in StreamsOf(B)
      /\ [st EXCEPT !.delta = TRUE, !.pending = <<>>] \in StreamsOf(B \cup {<<>>})
  BY <1>1 DEF StreamsOf
<1> QED
  BY <1>2 DEF IsStream

LEMMA NewStIs == ASSUME NEW st, NEW more PROVE New(st, more).st = st
  BY DEF New

LEMMA AtEndIs ==
    ASSUME NEW st, IsStream(st), NEW done \in BOOLEAN PROVE IsStream(AtEnd(st, done).st)
<1>1. CASE done
  <2>1. AtEnd(st, done).st = [st EXCEPT !.pending = <<>>]
    BY <1>1, NewStIs DEF AtEnd
  <2> QED
    BY <2>1, WaitsIs
<1>2. CASE ~ done
  <2>1. AtEnd(st, done).st = st
    BY <1>2, NewStIs DEF AtEnd
  <2> QED
    BY <2>1
<1> QED
  BY <1>1, <1>2

LEMMA IncrementalIs ==
    ASSUME NEW st, IsStream(st), NEW s, NEW done \in BOOLEAN
    PROVE  IsStream(Incremental(st, s, done).st)
<1> DEFINE known == Accounted(st)
           grown == IF Len(s) >= Len(st.pending) THEN s ELSE st.pending
<1>1. CASE s = <<>>
  <2>1. Incremental(st, s, done) = IF ~ st.delta THEN AtEnd(st, done) ELSE New(st, <<>>)
    BY <1>1 DEF Incremental
  <2> QED
    BY <2>1, AtEndIs, NewStIs
<1>2. CASE s # <<>> /\ (st.delta \/ known # <<>>)
  <2>1. Incremental(st, s, done).st = [st EXCEPT !.delta = TRUE]
    BY <1>2, NewStIs DEF Incremental
  <2> QED
    BY <2>1, GoesOnIs
<1>3. CASE s # <<>> /\ ~ (st.delta \/ known # <<>>) /\ st.pending = <<>>
  <2>1. Incremental(st, s, done) = AtEnd([st EXCEPT !.pending = s], done)
    BY <1>3 DEF Incremental
  <2> QED
    BY <2>1, AtEndIs, WaitsIs
<1>4. CASE s # <<>> /\ ~ (st.delta \/ known # <<>>) /\ st.pending # <<>> /\ Growth(st.pending, s)
  <2>1. Incremental(st, s, done) = AtEnd([st EXCEPT !.pending = IF Len(s) >= Len(@) THEN s ELSE @], done)
    BY <1>4 DEF Incremental
  <2>2. [st EXCEPT !.pending = IF Len(s) >= Len(@) THEN s ELSE @] = [st EXCEPT !.pending = grown]
    OBVIOUS
  <2> QED
    BY <2>1, <2>2, AtEndIs, WaitsIs
<1>5. CASE s # <<>> /\ ~ (st.delta \/ known # <<>>) /\ st.pending # <<>> /\ ~ Growth(st.pending, s)
  <2>1. Incremental(st, s, done).st = [st EXCEPT !.delta = TRUE, !.pending = <<>>]
    BY <1>5, NewStIs DEF Incremental
  <2> QED
    BY <2>1, GoesOnIs
<1> QED
  BY <1>1, <1>2, <1>3, <1>4, <1>5

LEMMA ResponseIs ==
    ASSUME SpeechInv, NEW n \in Nat, NEW s, NEW snapshot \in BOOLEAN, NEW done \in BOOLEAN,
           frames <= n, HandleResponse(n, s, snapshot, done)
    PROVE  IsStream(answer') /\ answer'.seq \in 0 .. n
<1> DEFINE news == IF snapshot THEN New(Snapshot(answer, s), <<>>) ELSE Incremental(answer, s, done)
<1>1. IsStream(answer) /\ answer.seq \in 0 .. n
  BY SpeechBounds DEF SpeechInv
<1>2. IsStream(news.st)
  BY <1>1, SnapshotIs, IncrementalIs, NewStIs
<1> HIDE DEF news
<1>3. CASE answer' = answer
  BY <1>1, <1>3
<1>4. CASE answer' # answer
  <2>1. PICK open, cut : answer' = [news.st EXCEPT !.seq = n, !.buffer = open,
                                                   !.emitted = Normal(@ \o Seqs!FlattenSeq(cut)),
                                                   !.first = @ /\ cut = <<>>]
    BY <1>4 DEF HandleResponse, news
  <2>2. PICK B : news.st \in StreamsOf(B)
    BY <1>2 DEF IsStream
  <2>3. PICK g : g = Normal(news.st.emitted \o Seqs!FlattenSeq(cut))
    OBVIOUS
  <2>4. PICK o : o = [news.st EXCEPT !.seq = n, !.buffer = open, !.emitted = g,
                                    !.first = @ /\ cut = <<>>]
    OBVIOUS
  <2>5. o \in StreamsOf(B \cup {open, g}) /\ o.seq = n
    BY <2>2, <2>4 DEF StreamsOf
  <2>6. answer' = o
    BY <2>1, <2>3, <2>4
  <2> QED
    BY <2>5, <2>6 DEF IsStream
<1> QED
  BY <1>3, <1>4

LEMMA SpeechBegins == ClawSpeechInit => SpeechInv
<1> SUFFICES ASSUME ClawSpeechInit PROVE SpeechInv
  OBVIOUS
<1>1. IsStream(answer) /\ answer.seq = 0
  <2>1. answer \in StreamsOf({<<>>}) /\ answer.seq = 0
    BY DEF ClawSpeechInit, Unstarted, StreamsOf
  <2> QED
    BY <2>1 DEF IsStream
<1>2. speech \in Texts /\ Len(speech) \in Nat
  BY TextLen DEF ClawSpeechInit
<1>3. manner \in {"pieces", "growing", "snapshots"} /\ told = 0 /\ frames = 0 /\ alike = FALSE
  BY DEF ClawSpeechInit
<1>4. 0 \in 0 .. Len(speech) /\ 0 \in 0 .. MaxSeq /\ 0 \in 0 .. 0
  BY <1>2, SpeechBounds
<1> QED
  BY <1>1, <1>2, <1>3, <1>4 DEF SpeechInv

LEMMA AnswerFrameInv ==
    ASSUME SpeechInv, NEW upto \in 0 .. Len(speech), NEW done \in BOOLEAN, AnswerFrame(upto, done)
    PROVE  SpeechInv'
<1> DEFINE n == frames + 1
           mark == manner = "snapshots" /\ ~ done
<1>1. /\ frames \in Nat /\ frames < MaxSeq /\ frames' = n /\ told' = upto
      /\ UNCHANGED <<speech, manner>>
      /\ HandleResponse(n, Content(upto), mark, done)
      /\ alike' \in BOOLEAN
  BY SpeechBounds DEF AnswerFrame, SpeechInv
<1>2. n \in Nat /\ frames <= n /\ n \in 0 .. MaxSeq /\ mark \in BOOLEAN
  BY <1>1, SpeechBounds
<1>3. IsStream(answer') /\ answer'.seq \in 0 .. n
  BY <1>1, <1>2, ResponseIs
<1> QED
  BY <1>1, <1>2, <1>3 DEF SpeechInv

LEMMA SpeechKeeps == SpeechInv /\ [ClawSpeechNext]_clawSpeechVars => SpeechInv'
<1> SUFFICES ASSUME SpeechInv, [ClawSpeechNext]_clawSpeechVars PROVE SpeechInv'
  OBVIOUS
<1>0. Len(speech) \in Nat /\ told \in 0 .. Len(speech)
  BY TextLen DEF SpeechInv
<1>1. ASSUME NEW upto \in told + 1 .. Len(speech), AnswerFrame(upto, FALSE) PROVE SpeechInv'
  <2>1. upto \in 0 .. Len(speech)
    BY <1>0
  <2> QED
    BY <1>1, <2>1, AnswerFrameInv
<1>2. CASE AgentEnds
  <2>1. Len(speech) \in 0 .. Len(speech)
    BY <1>0
  <2>2. AnswerFrame(Len(speech), TRUE) \/ AnswerFrame(told, TRUE)
    BY <1>2 DEF AgentEnds
  <2> QED
    BY <1>0, <2>1, <2>2, AnswerFrameInv
<1>3. CASE FrameAgain
  <2>1. frames \in Nat /\ frames <= frames
    BY SpeechBounds DEF SpeechInv
  <2>2. IsStream(answer') /\ answer'.seq \in 0 .. frames
    BY <1>3, <2>1, ResponseIs DEF FrameAgain
  <2> QED
    BY <1>3, <2>2 DEF SpeechInv, FrameAgain
<1>4. CASE UNCHANGED clawSpeechVars
  BY <1>4 DEF SpeechInv, clawSpeechVars, IsStream
<1> QED
  BY <1>1, <1>2, <1>3, <1>4 DEF ClawSpeechNext, AgentSpeaks

LEMMA SpeechTypesHold == ASSUME SpeechInv PROVE ClawSpeechTypeOK
<1>1. answer.delta \in BOOLEAN /\ answer.first \in BOOLEAN
  BY DEF SpeechInv, IsStream, StreamsOf
<1> QED
  BY <1>1 DEF SpeechInv, ClawSpeechTypeOK

-----------------------------------------------------------------------------
\* The composition

\* The invariant of the part that runs.
PartInv ==
    /\ part = "mcp" => IInv
    /\ part = "speak" => SpeakInv
    /\ part = "warmup" => WarmInv
    /\ part = "agents" => AgentInv
    /\ part = "offline" => OfflineInv
    /\ part = "answers" => SpeechInv

LEMMA PartBegins == ConversationInit => PartInv
BY InitInv, SpeakInitInv, WarmInitInv, AgentBegins, OfflineBegins, SpeechBegins
DEF ConversationInit, PartInv

LEMMA PartKeeps == PartInv /\ [ConversationNext]_conversationVars => PartInv'
<1> SUFFICES ASSUME PartInv, [ConversationNext]_conversationVars PROVE PartInv'
  OBVIOUS
<1>1. /\ part' = part
      /\ part = "mcp" => [McpNext]_mcpVars
      /\ part = "speak" => [SpeakNext]_speakVars
      /\ part = "warmup" => [ClawWarmupNext]_clawWarmupVars
      /\ part = "agents" => [ClawAgentsNext]_clawAgentsVars
      /\ part = "offline" => [ClawOfflineNext]_clawOfflineVars
      /\ part = "answers" => [ClawSpeechNext]_clawSpeechVars
  BY DEF ConversationNext, conversationVars, notMcp, notSpeak, notWarmup, notClaw, clawVars
<1>2. part = "mcp" => IInv'
  BY <1>1, StepInv DEF PartInv
<1>3. part = "speak" => SpeakInv'
  BY <1>1, SpeakNextInv DEF PartInv
<1>4. part = "warmup" => WarmInv'
  BY <1>1, WarmNextInv DEF PartInv
<1>5. part = "agents" => AgentInv'
  BY <1>1, AgentKeeps DEF PartInv
<1>6. part = "offline" => OfflineInv'
  BY <1>1, OfflineKeeps DEF PartInv
<1>7. part = "answers" => SpeechInv'
  BY <1>1, SpeechKeeps DEF PartInv
<1> QED
  BY <1>1, <1>2, <1>3, <1>4, <1>5, <1>6, <1>7 DEF PartInv

\* The invariants of the parts of a conversation, beside each other.
THEOREM PartInvariant == ConversationSpec => []PartInv
BY PartBegins, PartKeeps, PTL DEF ConversationSpec

\* The latest connection of an agent serves its devices, in the mode they were told, however
\* older ones end, and a frame that comes twice is spoken once (xiaozhi-openclaw manager.rs).
THEOREM LatestServes == ConversationSpec => [](part = "agents" => LatestAgentServes /\ FrameOnce)
<1>1. PartInv => (part = "agents" => LatestAgentServes /\ FrameOnce)
  BY AgentsFollow DEF PartInv
<1> QED
  BY <1>1, PartInvariant, PTL

\* A notice for a device that is away is in the queue, spoken or dropped, and spoken once, for
\* every number of notices and hellos and every size of the queue.
THEOREM NoticesAreSpoken == ConversationSpec => [](part = "offline" => NoticeSpokenOnce)
<1>1. PartInv => (part = "offline" => NoticeSpokenOnce)
  BY NoticesFollow DEF PartInv
<1> QED
  BY <1>1, PartInvariant, PTL

\* Types of the part of a conversation that runs.
THEOREM ConversationTypesCorrect == ConversationSpec => []ConversationTypeOK
<1>1. PartInv => ConversationTypeOK
  <2> SUFFICES ASSUME PartInv PROVE ConversationTypeOK
    OBVIOUS
  <2>1. part = "mcp" => McpTypeOK
    BY McpTypesHold DEF PartInv
  <2>2. part = "speak" => SpeakTypeOK
    BY DEF PartInv, SpeakInv
  <2>3. part = "warmup" => ClawWarmupTypeOK
    BY DEF PartInv, WarmInv
  <2>4. part = "agents" => ClawAgentsTypeOK
    BY DEF PartInv, AgentInv
  <2>5. part = "offline" => ClawOfflineTypeOK
    BY DEF PartInv, OfflineInv, ReplayTypes
  <2>6. part = "answers" => ClawSpeechTypeOK
    BY SpeechTypesHold DEF PartInv
  <2> QED
    BY <2>1, <2>2, <2>3, <2>4, <2>5, <2>6 DEF ConversationTypeOK
<1> QED
  BY <1>1, PartInvariant, PTL
=============================================================================
