--------------------------- MODULE DialogueProofs ---------------------------
(***************************************************************************)
(* An interrupt of the speech is never left pending, the counter of texts  *)
(* is what is in the queue and in work, and the on_end of every text that  *)
(* was sent is at one place or was called once: for any number of turns,   *)
(* callers and frames.  A session that is told to listen does listen: for  *)
(* any number of empty recognitions, waits, tasks and queued texts.        *)
(***************************************************************************)
EXTENDS MCDialogue, FiniteSetTheorems, SequenceTheorems, TLAPS

-----------------------------------------------------------------------------
\* The pending interrupt

CallerPcs == {"idle", "post", "wait", "finish", "done"}

\* The invariant needs no more of the types than where a caller can be.
IInv ==
    /\ caller \in [Callers -> CallerPcs]
    /\ PendingStopHasOwner

\* Whoever looks at the pending interrupt takes it.
LEMMA FinishTakesPending ==
    ASSUME FinishPending
    PROVE  pend' = NoPend /\ ~ pend'.set
  BY DEF FinishPending, NoPend

\* The worker, the turns and the playing of the queue touch neither the pending
\* interrupt nor the callers.
LEMMA OthersKeepInterrupts ==
    ASSUME \/ Worker \/ MarkDue
           \/ PopStale \/ PopMark \/ PopTimed \/ SendFrame \/ MarkActive \/ SendStart
           \/ SendStop \/ DispatchMark
           \/ \E t \in Turns : Speak(t) \/ Drained(t)
    PROVE  UNCHANGED <<pend, caller>>
  <1>1. CASE Worker
    BY <1>1 DEF Worker, TakeStale, TakeText, SynthesisFails, FirstFrame, EnqueueStart,
                EnqueueSentence, EnqueueFrame, EnqueueEnd, stopVars
  <1>2. CASE MarkDue
    BY <1>2 DEF MarkDue, stopVars
  <1>3. CASE PopStale \/ PopMark \/ PopTimed
    BY <1>3 DEF PopStale, PopMark, PopTimed, Pop, stopVars
  <1>4. CASE SendFrame \/ MarkActive \/ SendStart \/ SendStop \/ DispatchMark
    BY <1>4 DEF SendFrame, MarkActive, SendStart, SendStop, DispatchMark, stopVars
  <1>5. CASE \E t \in Turns : Speak(t) \/ Drained(t)
    BY <1>5 DEF Speak, TakeSeq, CheckDropped, Stamp, SendText, CountJob, EndTurn, Drained,
                stopVars
  <1> QED
    BY <1>1, <1>2, <1>3, <1>4, <1>5

LEMMA InitIInv == Init => IInv
  BY DEF Init, IInv, CallerPcs, PendingStopHasOwner, NoPend

\* A step of a caller that is on its way keeps it one, until it has taken the
\* pending interrupt itself.
LEMMA StepIInv == IInv /\ [Next]_vars => IInv'
  <1> SUFFICES ASSUME IInv, [Next]_vars
               PROVE  IInv'
    OBVIOUS
  <1> USE DEF IInv, CallerPcs, PendingStopHasOwner
  <1>1. CASE UNCHANGED <<pend, caller>>
    BY <1>1
  <1>2. CASE Interrupted
    <2>1. ~ pend'.set
      BY <1>2, FinishTakesPending DEF Interrupted
    <2>2. caller' \in [Callers -> CallerPcs]
      BY <1>2 DEF Interrupted
    <2> QED
      BY <2>1, <2>2
  <1>3. ASSUME NEW c \in Callers, NEW send \in BOOLEAN, BeginInterrupt(c, send)
        PROVE  IInv'
    <2>1. caller' = [caller EXCEPT ![c] = "post"]
      BY <1>3 DEF BeginInterrupt
    <2> QED
      BY <2>1
  <1>4. ASSUME NEW c \in Callers, PostInterrupt(c) \/ WaitTimeout(c)
        PROVE  IInv'
    <2>1. /\ pend' = pend
          /\ \/ caller' = [caller EXCEPT ![c] = "wait"]
             \/ caller' = [caller EXCEPT ![c] = "finish"]
      BY <1>4 DEF PostInterrupt, WaitTimeout, stopVars
    <2> QED
      BY <2>1
  <1>5. ASSUME NEW c \in Callers, FinishInterrupt(c)
        PROVE  IInv'
    <2>1. ~ pend'.set
      BY <1>5, FinishTakesPending DEF FinishInterrupt
    <2>2. caller' \in [Callers -> CallerPcs]
      BY <1>5 DEF FinishInterrupt
    <2> QED
      BY <2>1, <2>2
  <1>6. CASE UNCHANGED vars
    BY <1>6, <1>1 DEF vars, stopVars
  <1> QED
    BY <1>1, <1>2, <1>3, <1>4, <1>5, <1>6, OthersKeepInterrupts
    DEF Next, Sender, Interrupt

\* PendingStopHasOwner: an interrupt that is recorded is always finished by one of
\* its callers or by the sender, for any number of turns, callers and frames.
THEOREM PendingStopIsFinished == Spec => []PendingStopHasOwner
  <1>1. IInv => PendingStopHasOwner
    BY DEF IInv
  <1> QED
    BY <1>1, InitIInv, StepIInv, PTL DEF Spec

-----------------------------------------------------------------------------
\* The texts and their on_ends

\* The places of a sequence that hold something of M.
Count(s, M) == Cardinality({i \in DOMAIN s : s[i] \in M})

\* A turn that has not sent its text, and those that have.
Early == {"idle", "check", "stamp", "send"}
Sent == {t \in Turns : turn[t] \notin Early}

TextType == [text : Turns, gen : Nat]
TextsOf(t) == {x \in TextType : x.text = t}
EndsOf(t) == {e \in ElemType : e.kind = "end" /\ e.text = t}

\* Where the on_end of a turn's text is, and where it should be.
InWork(t) == IF worker.text = t THEN 1 ELSE 0
Total(t) == ended[t] + Count(ttsq, TextsOf(t)) + InWork(t)
              + Count(queue, EndsOf(t)) + Count(delayed, EndsOf(t)) + Count(ready, EndsOf(t))
Due(t) == IF t \in lost \/ turn[t] \in Early THEN 0 ELSE 1
Accounted == \A t \in Turns : Total(t) = Due(t)

\* The worker rests, or has a text.
WorkerInv == IF worker.pc = "idle" THEN worker.text = "none" ELSE worker.text \in Turns

\* A text is forgotten by its turn or after it was sent.
LostInv == \A t \in lost : turn[t] \notin Early

\* How many texts are in the queue and in work, were sent, and are not counted yet.
Texts == Len(ttsq) + Busy
SentTurns == Cardinality(Sent)
NotCounted == Cardinality(Uncounted)

\* There is a turn for each text in the queue and in work.
SentInv == Texts <= SentTurns

\* The counter is what is in the queue and in work, less what is not counted yet.
JobsInv ==
    jobs = IF Texts - NotCounted >= 0 THEN Texts - NotCounted ELSE Texts - NotCounted + Width

TurnInv == TypeOK /\ WorkerInv /\ LostInv /\ SentInv /\ JobsInv /\ Accounted


-----------------------------------------------------------------------------
\* Counting what a sequence holds

LEMMA CountIsNat ==
    ASSUME NEW S, NEW s \in Seq(S), NEW M
    PROVE  IsFiniteSet({i \in DOMAIN s : s[i] \in M}) /\ Count(s, M) \in Nat
<1>1. IsFiniteSet(1 .. Len(s)) /\ DOMAIN s = 1 .. Len(s)
  BY FS_Interval
<1>2. {i \in DOMAIN s : s[i] \in M} \subseteq 1 .. Len(s)
  BY <1>1
<1> QED
  BY <1>1, <1>2, FS_Subset, FS_CardinalityType DEF Count

LEMMA CountEmpty == ASSUME NEW M PROVE Count(<<>>, M) = 0
<1>1. {i \in DOMAIN <<>> : <<>>[i] \in M} = {}
  OBVIOUS
<1> QED
  BY <1>1, FS_EmptySet DEF Count

LEMMA CountAppend ==
    ASSUME NEW S, NEW s \in Seq(S), NEW e \in S, NEW M
    PROVE  Count(Append(s, e), M) = Count(s, M) + (IF e \in M THEN 1 ELSE 0)
<1> DEFINE I == {i \in DOMAIN s : s[i] \in M}
           J == {i \in DOMAIN Append(s, e) : Append(s, e)[i] \in M}
<1>1. IsFiniteSet(I) /\ Cardinality(I) \in Nat /\ Count(s, M) = Cardinality(I)
  BY CountIsNat, FS_CardinalityType DEF Count
<1>2. Len(s) + 1 \notin I
  OBVIOUS
<1>3. J = IF e \in M THEN I \cup {Len(s) + 1} ELSE I
  OBVIOUS
<1>4. Count(Append(s, e), M) = Cardinality(J)
  BY DEF Count
<1> HIDE DEF I, J
<1>5. Cardinality(I \cup {Len(s) + 1}) = Cardinality(I) + 1
  BY <1>1, <1>2, FS_AddElement
<1> QED
  BY <1>1, <1>3, <1>4, <1>5

LEMMA CountTail ==
    ASSUME NEW S, NEW s \in Seq(S), s # <<>>, NEW M
    PROVE  /\ Count(s, M) = Count(Tail(s), M) + (IF Head(s) \in M THEN 1 ELSE 0)
           /\ Count(s, M) \in Nat /\ Count(Tail(s), M) \in Nat
<1> DEFINE I == {i \in DOMAIN s : s[i] \in M}
           J == {i \in DOMAIN Tail(s) : Tail(s)[i] \in M}
           f == [j \in J |-> j + 1]
<1>0. Tail(s) \in Seq(S) /\ Len(s) \in Nat \ {0} /\ Len(Tail(s)) = Len(s) - 1 /\ Head(s) = s[1]
  OBVIOUS
<1>1. IsFiniteSet(I) /\ Cardinality(I) \in Nat /\ Count(s, M) = Cardinality(I)
  BY CountIsNat, FS_CardinalityType DEF Count
<1>2. IsFiniteSet(J) /\ Cardinality(J) \in Nat /\ Count(Tail(s), M) = Cardinality(J)
  BY <1>0, CountIsNat, FS_CardinalityType DEF Count
<1>3. \A j \in 1 .. Len(s) - 1 : Tail(s)[j] = s[j + 1]
  OBVIOUS
<1>4. J = {j \in 1 .. Len(s) - 1 : s[j + 1] \in M} /\ I = {i \in 1 .. Len(s) : s[i] \in M}
  BY <1>0, <1>3
<1>5. f \in Bijection(J, I \ {1})
  <2>1. f \in [J -> I \ {1}]
    BY <1>0, <1>4
  <2>2. \A a, b \in J : f[a] = f[b] => a = b
    BY <1>4
  <2>3. \A i \in I \ {1} : \E j \in J : f[j] = i
    <3> TAKE i \in I \ {1}
    <3>1. i - 1 \in J /\ (i - 1) + 1 = i
      BY <1>0, <1>4
    <3> QED
      BY <3>1
  <2> QED
    BY <2>1, <2>2, <2>3 DEF Bijection, Injection, Surjection, IsInjective
<1>6. Cardinality(J) = Cardinality(I \ {1})
  <2>1. ExistsBijection(J, I \ {1})
    BY <1>5 DEF ExistsBijection
  <2> HIDE DEF I, J
  <2> QED
    BY <1>2, <2>1, FS_Bijection
<1>7. 1 \in I <=> Head(s) \in M
  BY <1>0
<1> HIDE DEF I, J, f
<1>8. Cardinality(I) = Cardinality(I \ {1}) + (IF Head(s) \in M THEN 1 ELSE 0)
  <2>1. CASE 1 \in I
    <3>1. Cardinality(I \ {1}) = Cardinality(I) - 1
      BY <1>1, <2>1, FS_RemoveElement
    <3> QED
      BY <1>1, <1>7, <2>1, <3>1
  <2>2. CASE 1 \notin I
    <3>1. I \ {1} = I
      BY <2>2
    <3>2. Cardinality(I \ {1}) = Cardinality(I)
      BY <3>1, Zenon
    <3> QED
      BY <1>1, <1>7, <2>2, <3>2
  <2> QED
    BY <2>1, <2>2
<1> QED
  BY <1>1, <1>2, <1>6, <1>8

\* Whose on_end travels with a sequence of elements.
LEMMA CarriedIsCounted ==
    ASSUME NEW s \in Seq(ElemType), NEW t \in Turns
    PROVE  t \in Carried(s) <=> Count(s, EndsOf(t)) >= 1
<1> DEFINE I == {i \in DOMAIN s : s[i] \in EndsOf(t)}
<1>1. IsFiniteSet(I) /\ Cardinality(I) \in Nat /\ Count(s, EndsOf(t)) = Cardinality(I)
  BY CountIsNat, FS_CardinalityType DEF Count
<1>2. \A i \in DOMAIN s : s[i] \in ElemType
  OBVIOUS
<1>3. t \in Carried(s) <=> I # {}
  BY <1>2 DEF Carried, EndsOf
<1> HIDE DEF I
<1>4. Cardinality(I) = 0 <=> I = {}
  BY <1>1, FS_EmptySet
<1> QED
  BY <1>1, <1>3, <1>4

LEMMA CarriedByOne ==
    ASSUME NEW e \in ElemType, NEW t \in Turns
    PROVE  t \in Carried(<<e>>) <=> e \in EndsOf(t)
<1>1. DOMAIN <<e>> = {1} /\ <<e>>[1] = e
  OBVIOUS
<1> QED
  BY <1>1 DEF Carried, EndsOf

\* The counter wraps around at most once.
LEMMA ModBelow == ASSUME NEW n \in Nat, NEW w \in Nat, n < w PROVE n % w = n
  BY SMT

LEMMA ModAbove == ASSUME NEW n \in Nat, NEW w \in Nat, w <= n, n < 2 * w PROVE n % w = n - w
  BY SMT

-----------------------------------------------------------------------------
\* What is in the invariant

LEMMA TurnTypes ==
    TurnInv => /\ turn \in [Turns -> {"idle", "check", "stamp", "send", "count", "drain", "stop",
                                      "late", "done", "gave_up"}]
               /\ item \in [Turns -> Nat] /\ seq \in Nat /\ dropped \in 0 .. seq /\ gen \in Nat
               /\ jobs \in 0 .. Width - 1 /\ ttsq \in Seq(TextType)
               /\ worker \in [pc : {"idle", "synth", "start", "sentence", "frames"},
                              text : Turns \cup {"none"}, frames : 0 .. MaxFrames, seen : Nat]
               /\ queue \in Seq(ElemType) /\ delayed \in Seq(ElemType) /\ ready \in Seq(ElemType)
               /\ ended \in [Turns -> Nat] /\ lost \in SUBSET Turns
  BY DEF TurnInv, TypeOK, TextType

\* The counts of a text's places are numbers.
LEMMA CountsAreNat ==
    ASSUME TurnInv, NEW t \in Turns
    PROVE  /\ ended[t] \in Nat /\ Count(ttsq, TextsOf(t)) \in Nat /\ InWork(t) \in Nat
           /\ Count(queue, EndsOf(t)) \in Nat /\ Count(delayed, EndsOf(t)) \in Nat
           /\ Count(ready, EndsOf(t)) \in Nat
  BY TurnTypes, CountIsNat DEF InWork

\* Where the on_end of a text is after a step.
LEMMA TotalNext ==
    ASSUME NEW t \in Turns
    PROVE  Total(t)' = ended'[t] + Count(ttsq', TextsOf(t)) + (IF worker'.text = t THEN 1 ELSE 0)
                         + Count(queue', EndsOf(t)) + Count(delayed', EndsOf(t)) + Count(ready', EndsOf(t))
  BY DEF Total, InWork, Count, TextsOf, EndsOf

\* An element that is enqueued.
LEMMA EnqueueFields ==
    ASSUME TurnInv, NEW kind \in {"start", "begin", "frame", "end", "stop"}, NEW t \in Turns,
           NEW seen \in Nat, Enqueue(kind, t, seen)
    PROVE  /\ \E e \in ElemType : /\ e.kind = kind /\ e.text = t /\ queue' = Append(queue, e)
           /\ queue' \in Seq(ElemType) /\ UNCHANGED <<delayed, ready, sender>>
           /\ \A u \in Turns : Count(queue', EndsOf(u)) = Count(queue, EndsOf(u))
                                 + (IF kind = "end" /\ u = t THEN 1 ELSE 0)
<1>1. PICK g \in seen .. gen : queue' = Append(queue, [kind |-> kind, text |-> t, gen |-> g])
  BY DEF Enqueue
<1>2. PICK e : e = [kind |-> kind, text |-> t, gen |-> g]
  OBVIOUS
<1>3. g \in Nat
  BY TurnTypes
<1>4. e \in ElemType /\ e.kind = kind /\ e.text = t
  BY <1>2, <1>3 DEF ElemType
<1>5. queue' = Append(queue, e) /\ UNCHANGED <<delayed, ready, sender>>
  BY <1>1, <1>2 DEF Enqueue
<1>6. \A u \in Turns : e \in EndsOf(u) <=> kind = "end" /\ u = t
  BY <1>4 DEF EndsOf
<1>7. queue' \in Seq(ElemType)
  BY <1>4, <1>5, TurnTypes
<1>8. ASSUME NEW u \in Turns
      PROVE  Count(queue', EndsOf(u)) = Count(queue, EndsOf(u)) + (IF kind = "end" /\ u = t THEN 1 ELSE 0)
  <2>1. Count(queue', EndsOf(u)) = Count(queue, EndsOf(u)) + (IF e \in EndsOf(u) THEN 1 ELSE 0)
    BY <1>4, <1>5, TurnTypes, CountAppend
  <2> QED
    BY <1>6, <2>1
<1> QED
  BY <1>4, <1>5, <1>7, <1>8

\* How often the on_end of each turn's text was called.
LEMMA CallFields ==
    ASSUME TurnInv, NEW T, Call(T)
    PROVE  /\ ended' \in [Turns -> Nat]
           /\ \A t \in Turns : ended'[t] = ended[t] + (IF t \in T THEN 1 ELSE 0)
  BY TurnTypes DEF Call

\* An element that leaves a queue.
LEMMA HeadLeaves ==
    ASSUME NEW s \in Seq(ElemType), s # <<>>
    PROVE  /\ Head(s) \in ElemType /\ Tail(s) \in Seq(ElemType)
           /\ \A t \in Turns :
                /\ Count(s, EndsOf(t)) = Count(Tail(s), EndsOf(t)) + (IF t \in Carried(<<Head(s)>>) THEN 1 ELSE 0)
                /\ Head(s) \in EndsOf(t) <=> t \in Carried(<<Head(s)>>)
                /\ Count(Tail(s), EndsOf(t)) \in Nat
<1>1. Head(s) \in ElemType /\ Tail(s) \in Seq(ElemType)
  OBVIOUS
<1>2. ASSUME NEW t \in Turns
      PROVE  /\ Count(s, EndsOf(t)) = Count(Tail(s), EndsOf(t)) + (IF t \in Carried(<<Head(s)>>) THEN 1 ELSE 0)
             /\ Head(s) \in EndsOf(t) <=> t \in Carried(<<Head(s)>>)
             /\ Count(Tail(s), EndsOf(t)) \in Nat
  <2>1. t \in Carried(<<Head(s)>>) <=> Head(s) \in EndsOf(t)
    BY <1>1, CarriedByOne
  <2>2. /\ Count(s, EndsOf(t)) = Count(Tail(s), EndsOf(t)) + (IF Head(s) \in EndsOf(t) THEN 1 ELSE 0)
        /\ Count(Tail(s), EndsOf(t)) \in Nat
    BY CountTail
  <2> QED
    BY <2>1, <2>2
<1> QED
  BY <1>1, <1>2

\* A text that leaves its queue.
LEMMA TextLeaves ==
    ASSUME TurnInv, ttsq # <<>>
    PROVE  /\ Head(ttsq).text \in Turns /\ Tail(ttsq) \in Seq(TextType) /\ Len(Tail(ttsq)) = Len(ttsq) - 1
           /\ Len(ttsq) \in Nat
           /\ \A t \in Turns : Count(ttsq, TextsOf(t)) = Count(Tail(ttsq), TextsOf(t))
                                 + (IF t = Head(ttsq).text THEN 1 ELSE 0)
<1>1. ttsq \in Seq(TextType)
  BY TurnTypes
<1>2. Head(ttsq) \in TextType /\ Tail(ttsq) \in Seq(TextType) /\ Len(Tail(ttsq)) = Len(ttsq) - 1
      /\ Len(ttsq) \in Nat
  BY <1>1
<1>3. \A t \in Turns : Head(ttsq) \in TextsOf(t) <=> t = Head(ttsq).text
  BY <1>2 DEF TextsOf
<1>4. \A t \in Turns : Count(ttsq, TextsOf(t)) = Count(Tail(ttsq), TextsOf(t))
                                 + (IF Head(ttsq) \in TextsOf(t) THEN 1 ELSE 0)
  BY <1>1, CountTail
<1>5. Head(ttsq).text \in Turns
  BY <1>2 DEF TextType
<1> QED
  BY <1>2, <1>3, <1>4, <1>5

-----------------------------------------------------------------------------
\* What a step must keep

\* The turns are finitely many, and so are those that sent their text.
LEMMA TurnCounts ==
    /\ Cardinality(Turns) \in Nat /\ IsFiniteSet(Sent) /\ IsFiniteSet(Uncounted)
    /\ Cardinality(Sent) \in Nat /\ Cardinality(Sent) <= Cardinality(Turns)
    /\ Cardinality(Uncounted) \in Nat /\ Cardinality(Uncounted) <= Cardinality(Turns)
<1>1. IsFiniteSet(Turns) /\ Cardinality(Turns) \in Nat
  BY TtsAssumption, FS_CardinalityType
<1>2. Sent \subseteq Turns /\ Uncounted \subseteq Turns
  BY DEF Sent, Uncounted
<1> QED
  BY <1>1, <1>2, FS_Subset, FS_CardinalityType

\* The numbers that the counter of jobs goes by.
JobNumbers(j, w, n, texts, sent, uncounted) ==
    /\ w > 2 * n /\ texts <= sent /\ sent <= n /\ uncounted <= n /\ j \in 0 .. w - 1
    /\ j = IF texts - uncounted >= 0 THEN texts - uncounted ELSE texts - uncounted + w

LEMMA TurnNumbers ==
    ASSUME TurnInv
    PROVE  \E n \in Nat, w \in Nat, texts \in Nat, sent \in Nat, uncounted \in Nat, j \in Nat :
               /\ w = Width /\ texts = Texts /\ sent = SentTurns /\ uncounted = NotCounted /\ j = jobs
               /\ n = Cardinality(Turns)
               /\ JobNumbers(j, w, n, texts, sent, uncounted)
<1>1. Cardinality(Turns) \in Nat /\ Width \in Nat /\ Width > 2 * Cardinality(Turns)
  BY TurnCounts, TtsAssumption
<1>2. Texts \in Nat
  <2>1. Len(ttsq) \in Nat
    BY TurnTypes
  <2>2. Busy \in {0, 1}
    BY DEF Busy
  <2> QED
    BY <2>1, <2>2 DEF Texts
<1>3. /\ SentTurns \in Nat /\ SentTurns <= Cardinality(Turns)
      /\ NotCounted \in Nat /\ NotCounted <= Cardinality(Turns)
  BY TurnCounts DEF SentTurns, NotCounted
<1>4. jobs \in 0 .. Width - 1
  BY TurnTypes
<1>5. jobs \in Nat
  BY <1>1, <1>4
<1>6. Texts <= SentTurns
  BY DEF TurnInv, SentInv
<1>7. jobs = IF Texts - NotCounted >= 0 THEN Texts - NotCounted ELSE Texts - NotCounted + Width
  BY DEF TurnInv, JobsInv
<1> QED
  BY <1>1, <1>2, <1>3, <1>4, <1>5, <1>6, <1>7 DEF JobNumbers

\* A counter that holds a number above or below zero counts down, and up.
LEMMA CountDown ==
    ASSUME NEW w \in Nat, NEW n \in Nat, w > 2 * n, NEW due \in Int, due <= n, due >= 0 - n,
           NEW j \in Nat, j = IF due >= 0 THEN due ELSE due + w
    PROVE  (j + w - 1) % w = IF due - 1 >= 0 THEN due - 1 ELSE due - 1 + w
<1>1. CASE due >= 1
  <2>1. PICK m \in Nat : m = j + w - 1
    BY <1>1
  <2>2. m % w = m - w
    BY <1>1, <2>1, ModAbove
  <2> QED
    BY <1>1, <2>1, <2>2
<1>2. CASE due = 0
  <2>1. j + w - 1 \in Nat /\ j + w - 1 < w
    BY <1>2
  <2>2. (j + w - 1) % w = j + w - 1
    BY <2>1, ModBelow
  <2> QED
    BY <1>2, <2>2
<1>3. CASE due < 0
  <2>1. j = due + w /\ j >= 1
    BY <1>3
  <2>2. PICK m \in Nat : m = j + w - 1
    BY <2>1
  <2>3. w <= m /\ m < 2 * w
    BY <1>3, <2>1, <2>2
  <2>4. m % w = m - w
    BY <2>3, ModAbove
  <2> QED
    BY <1>3, <2>1, <2>2, <2>4
<1> QED
  BY <1>1, <1>2, <1>3

LEMMA CountUp ==
    ASSUME NEW w \in Nat, NEW n \in Nat, w > 2 * n, NEW due \in Int, due < n, due >= 0 - n,
           NEW j \in Nat, j = IF due >= 0 THEN due ELSE due + w
    PROVE  (j + 1) % w = IF due + 1 >= 0 THEN due + 1 ELSE due + 1 + w
<1>1. CASE due = 0 - 1
  <2>1. j + 1 = w
    BY <1>1
  <2>2. w % w = w - w
    BY ModAbove
  <2> QED
    BY <1>1, <2>1, <2>2
<1>2. CASE due # 0 - 1
  <2>1. j + 1 \in Nat /\ j + 1 < w
    BY <1>2
  <2>2. (j + 1) % w = j + 1
    BY <2>1, ModBelow
  <2> QED
    BY <1>2, <2>2
<1> QED
  BY <1>1, <1>2

\* What the counter of jobs is to be: the same if what is due is the same.
LEMMA JobsStay ==
    ASSUME TurnInv, jobs' = jobs, Texts' = Texts, Uncounted' = Uncounted, Sent \subseteq Sent'
    PROVE  JobsInv' /\ SentInv'
<1>1. Sent' \subseteq Turns
  BY DEF Sent
<1>2. IsFiniteSet(Sent')
  BY <1>1, TtsAssumption, FS_Subset
<1>3. Cardinality(Sent) <= Cardinality(Sent') /\ Cardinality(Sent') \in Nat /\ Cardinality(Sent) \in Nat
  BY <1>2, FS_Subset, FS_CardinalityType
<1>4. SentInv'
  <2>1. PICK sent \in Nat, texts \in Nat : sent = SentTurns /\ texts = Texts /\ texts <= sent
    BY TurnNumbers DEF JobNumbers
  <2>2. sent <= SentTurns' /\ SentTurns' \in Nat
    BY <1>3, <2>1 DEF SentTurns
  <2> QED
    BY <2>1, <2>2 DEF SentInv
<1>5. NotCounted' = NotCounted
  BY Zenon DEF NotCounted
<1>6. JobsInv'
  BY <1>5 DEF TurnInv, JobsInv
<1> QED
  BY <1>4, <1>6

\* A job is done: one text less is due.
LEMMA JobLess ==
    ASSUME TurnInv, jobs' = (jobs + Width - 1) % Width, Texts' = Texts - 1, turn' = turn
    PROVE  JobsInv' /\ SentInv' /\ jobs' \in 0 .. Width - 1
<1>1. Uncounted' = Uncounted /\ Sent' = Sent
  BY DEF Uncounted, Sent
<1>2. PICK n \in Nat, w \in Nat, texts \in Nat, sent \in Nat, uncounted \in Nat, j \in Nat :
         /\ w = Width /\ texts = Texts /\ sent = SentTurns /\ uncounted = NotCounted /\ j = jobs
         /\ n = Cardinality(Turns)
         /\ JobNumbers(j, w, n, texts, sent, uncounted)
  BY TurnNumbers
<1>3. NotCounted' = uncounted /\ SentTurns' = sent
  BY <1>1, <1>2, Zenon DEF NotCounted, SentTurns
<1>4. Texts' = texts - 1 /\ jobs' = (j + w - 1) % w
  BY <1>2
<1>5. PICK due \in Int : due = texts - uncounted
  OBVIOUS
<1>6. /\ w > 2 * n /\ due <= n /\ due >= 0 - n /\ j \in 0 .. w - 1 /\ texts <= sent
      /\ j = IF due >= 0 THEN due ELSE due + w
  BY <1>2, <1>5 DEF JobNumbers
<1>7. (j + w - 1) % w = IF due - 1 >= 0 THEN due - 1 ELSE due - 1 + w
  BY <1>6, CountDown
<1>8. Texts' - NotCounted' = due - 1
  BY <1>3, <1>4, <1>5
<1>9. JobsInv'
  BY <1>2, <1>4, <1>7, <1>8 DEF JobsInv
<1>10. SentInv'
  BY <1>3, <1>4, <1>6 DEF SentInv
<1>11. jobs' \in 0 .. w - 1
  BY <1>4, <1>6, <1>7
<1> QED
  BY <1>2, <1>9, <1>10, <1>11

\* A text is sent: it is due, and not counted.
LEMMA JobSent ==
    ASSUME TurnInv, NEW t \in Turns, turn[t] = "send", turn' = [turn EXCEPT ![t] = "count"],
           jobs' = jobs, Texts' = Texts + 1
    PROVE  JobsInv' /\ SentInv'
<1>0. turn'[t] = "count" /\ \A u \in Turns \ {t} : turn'[u] = turn[u]
  BY TurnTypes
<1>1. Uncounted' = Uncounted \cup {t} /\ t \notin Uncounted /\ Sent' = Sent \cup {t} /\ t \notin Sent
  BY <1>0 DEF Uncounted, Sent, Early
<1>2. /\ Cardinality(Uncounted \cup {t}) = Cardinality(Uncounted) + 1
      /\ Cardinality(Sent \cup {t}) = Cardinality(Sent) + 1
  BY <1>1, TurnCounts, FS_AddElement
<1>3. NotCounted' = NotCounted + 1 /\ SentTurns' = SentTurns + 1
  BY <1>1, <1>2, Zenon DEF NotCounted, SentTurns
<1>4. PICK n \in Nat, w \in Nat, texts \in Nat, sent \in Nat, uncounted \in Nat, j \in Nat :
         /\ w = Width /\ texts = Texts /\ sent = SentTurns /\ uncounted = NotCounted /\ j = jobs
         /\ n = Cardinality(Turns)
         /\ JobNumbers(j, w, n, texts, sent, uncounted)
  BY TurnNumbers
<1>5. Texts' = texts + 1 /\ NotCounted' = uncounted + 1 /\ SentTurns' = sent + 1 /\ jobs' = j
  BY <1>3, <1>4
<1>6. Texts' - NotCounted' = texts - uncounted
  BY <1>5
<1>7. j = (IF texts - uncounted >= 0 THEN texts - uncounted ELSE texts - uncounted + w) /\ texts <= sent
  BY <1>4 DEF JobNumbers
<1>8. JobsInv'
  BY <1>4, <1>5, <1>6, <1>7 DEF JobsInv
<1>9. SentInv'
  BY <1>5, <1>7 DEF SentInv
<1> QED
  BY <1>8, <1>9

\* A text is counted.
LEMMA JobCounted ==
    ASSUME TurnInv, NEW t \in Turns, turn[t] = "count", turn' = [turn EXCEPT ![t] = "drain"],
           jobs' = (jobs + 1) % Width, Texts' = Texts
    PROVE  JobsInv' /\ SentInv' /\ jobs' \in 0 .. Width - 1
<1>0. turn'[t] = "drain" /\ \A u \in Turns \ {t} : turn'[u] = turn[u]
  BY TurnTypes
<1>1. Uncounted' = Uncounted \ {t} /\ t \in Uncounted /\ Sent' = Sent
  BY <1>0 DEF Uncounted, Sent, Early
<1>2. Cardinality(Uncounted \ {t}) = Cardinality(Uncounted) - 1
  BY <1>1, TurnCounts, FS_RemoveElement
<1>3. NotCounted' = NotCounted - 1 /\ SentTurns' = SentTurns
  BY <1>1, <1>2, Zenon DEF NotCounted, SentTurns
<1>4. PICK n \in Nat, w \in Nat, texts \in Nat, sent \in Nat, uncounted \in Nat, j \in Nat :
         /\ w = Width /\ texts = Texts /\ sent = SentTurns /\ uncounted = NotCounted /\ j = jobs
         /\ n = Cardinality(Turns)
         /\ JobNumbers(j, w, n, texts, sent, uncounted)
  BY TurnNumbers
<1>5. Texts' = texts /\ NotCounted' = uncounted - 1 /\ SentTurns' = sent /\ jobs' = (j + 1) % w
  BY <1>3, <1>4
<1>6. NotCounted' \in Nat
  <2>1. Uncounted' \subseteq Turns
    BY DEF Uncounted
  <2> QED
    BY <2>1, TtsAssumption, FS_Subset, FS_CardinalityType DEF NotCounted
<1>7. uncounted >= 1
  BY <1>5, <1>6
<1>8. PICK due \in Int : due = texts - uncounted
  OBVIOUS
<1>9. /\ w > 2 * n /\ due < n /\ due >= 0 - n /\ j \in 0 .. w - 1 /\ texts <= sent
      /\ j = IF due >= 0 THEN due ELSE due + w
  BY <1>4, <1>7, <1>8 DEF JobNumbers
<1>10. (j + 1) % w = IF due + 1 >= 0 THEN due + 1 ELSE due + 1 + w
  BY <1>9, CountUp
<1>11. Texts' - NotCounted' = due + 1
  BY <1>5, <1>8
<1>12. JobsInv'
  BY <1>4, <1>5, <1>10, <1>11 DEF JobsInv
<1>13. SentInv'
  BY <1>5, <1>9 DEF SentInv
<1>14. jobs' \in 0 .. w - 1
  BY <1>5, <1>9, <1>10
<1> QED
  BY <1>4, <1>12, <1>13, <1>14

-----------------------------------------------------------------------------
\* The types

\* Whoever takes the pending interrupt leaves Booleans.
LEMMA FinishTypes ==
    ASSUME TypeOK, FinishPending \/ \E send \in BOOLEAN : Finish(send) /\ UNCHANGED pend
    PROVE  pend' \in [set : BOOLEAN, send : BOOLEAN] /\ active' \in BOOLEAN /\ wire' \in BOOLEAN
<1>1. pend' \in [set : BOOLEAN, send : BOOLEAN]
  <2>1. pend \in [set : BOOLEAN, send : BOOLEAN]
    BY DEF TypeOK
  <2>2. pend' = NoPend \/ pend' = pend
    BY DEF FinishPending
  <2>3. NoPend \in [set : BOOLEAN, send : BOOLEAN]
    BY DEF NoPend
  <2> QED
    BY <2>1, <2>2, <2>3, Zenon
<1>2. active \in BOOLEAN /\ wire \in BOOLEAN
  BY DEF TypeOK
<1>3. active' \in BOOLEAN /\ wire' \in BOOLEAN
  BY <1>2, Zenon DEF FinishPending, Finish
<1> QED
  BY <1>1, <1>3

LEMMA SpeakTypes ==
    ASSUME TurnInv, NEW t \in Turns, Speak(t) \/ Drained(t)
    PROVE  TypeOK'
<1>1. CASE TakeSeq(t) \/ Stamp(t) \/ Drained(t)
  <2>1. /\ turn' \in [Turns -> {"idle", "check", "stamp", "send", "count", "drain", "stop",
                                "late", "done", "gave_up"}]
        /\ item' \in [Turns -> Nat] /\ seq' \in Nat /\ dropped' \in 0 .. seq' /\ gen' \in Nat
    <3>1. CASE TakeSeq(t)
      <4>1. seq + 1 \in Nat /\ dropped \in 0 .. seq + 1
        BY TurnTypes
      <4> QED
        BY <3>1, <4>1, TurnTypes DEF TakeSeq
    <3>2. CASE Stamp(t)
      BY <3>2, TurnTypes DEF Stamp
    <3>3. CASE Drained(t)
      BY <3>3, TurnTypes DEF Drained
    <3> QED
      BY <1>1, <3>1, <3>2, <3>3
  <2> QED
    BY <1>1, <2>1 DEF TurnInv, TypeOK, TakeSeq, Stamp, Drained, playVars, stopVars
<1>5. CASE CheckDropped(t)
  <2>1. /\ turn' \in [Turns -> {"idle", "check", "stamp", "send", "count", "drain", "stop",
                                "late", "done", "gave_up"}]
        /\ item' \in [Turns -> Nat] /\ lost' \in SUBSET Turns
    BY <1>5, TurnTypes DEF CheckDropped
  <2> QED
    BY <1>5, <2>1 DEF TurnInv, TypeOK, CheckDropped, playVars, stopVars
<1>2. CASE SendText(t)
  BY <1>2 DEF TurnInv, TypeOK, SendText, playVars, stopVars
<1>3. CASE CountJob(t)
  <2>1. (jobs + 1) % Width \in 0 .. Width - 1
    BY TtsAssumption DEF TurnInv, TypeOK
  <2> QED
    BY <1>3, <2>1 DEF TurnInv, TypeOK, CountJob, playVars, stopVars
<1>4. CASE EndTurn(t)
  <2>1. queue' \in Seq(ElemType) /\ UNCHANGED <<delayed, ready, sender>>
    BY <1>4, EnqueueFields, TurnTypes DEF EndTurn
  <2> QED
    BY <1>4, <2>1 DEF TurnInv, TypeOK, EndTurn, stopVars
<1> QED
  BY <1>1, <1>2, <1>3, <1>4, <1>5 DEF Speak

LEMMA JobDoneTypes ==
    ASSUME TurnInv, JobDone
    PROVE  /\ jobs' \in 0 .. Width - 1
           /\ worker' \in [pc : {"idle", "synth", "start", "sentence", "frames"},
                           text : Turns \cup {"none"}, frames : 0 .. MaxFrames, seen : Nat]
<1>1. (jobs + Width - 1) % Width \in 0 .. Width - 1
  BY TtsAssumption DEF TurnInv, TypeOK
<1> QED
  BY <1>1, TtsAssumption DEF JobDone, Resting

LEMMA WorkerTypes ==
    ASSUME TurnInv, Worker
    PROVE  TypeOK'
<1>1. CASE TakeStale
  <2>1. Tail(ttsq) \in Seq(TextType)
    BY <1>1, TextLeaves DEF TakeStale
  <2>2. ended' \in [Turns -> Nat]
    BY <1>1, CallFields DEF TakeStale
  <2> QED
    BY <1>1, <2>1, <2>2, JobDoneTypes
    DEF TurnInv, TypeOK, TakeStale, TextType, turnVars, playVars, stopVars
<1>2. CASE TakeText
  <2>1. Tail(ttsq) \in Seq(TextType) /\ Head(ttsq).text \in Turns
    BY <1>2, TextLeaves DEF TakeText
  <2>2. worker' \in [pc : {"idle", "synth", "start", "sentence", "frames"},
                     text : Turns \cup {"none"}, frames : 0 .. MaxFrames, seen : Nat]
    BY <1>2, <2>1, TurnTypes, TtsAssumption DEF TakeText
  <2> QED
    BY <1>2, <2>1, <2>2 DEF TurnInv, TypeOK, TakeText, TextType, turnVars, playVars, stopVars
<1>3. CASE SynthesisFails
  <2>1. worker.text \in Turns
    BY <1>3 DEF TurnInv, WorkerInv, SynthesisFails
  <2> QED
    BY <1>3, <2>1, JobDoneTypes DEF TurnInv, TypeOK, SynthesisFails, turnVars, playVars, stopVars
<1>4. CASE FirstFrame
  <2>1. worker' \in [pc : {"idle", "synth", "start", "sentence", "frames"},
                     text : Turns \cup {"none"}, frames : 0 .. MaxFrames, seen : Nat]
    BY <1>4, TurnTypes DEF FirstFrame
  <2> QED
    BY <1>4, <2>1 DEF TurnInv, TypeOK, FirstFrame, turnVars, playVars, stopVars
<1>5. CASE EnqueueStart \/ EnqueueSentence \/ EnqueueFrame
  <2>1. worker.text \in Turns /\ worker.seen \in Nat
    BY <1>5, TurnTypes DEF TurnInv, WorkerInv, EnqueueStart, EnqueueSentence, EnqueueFrame
  <2>2. queue' \in Seq(ElemType) /\ UNCHANGED <<delayed, ready, sender>>
    <3>1. CASE EnqueueStart
      BY <2>1, <3>1, EnqueueFields DEF EnqueueStart
    <3>2. CASE EnqueueSentence
      BY <2>1, <3>2, EnqueueFields DEF EnqueueSentence
    <3>3. CASE EnqueueFrame
      BY <2>1, <3>3, EnqueueFields DEF EnqueueFrame
    <3> QED
      BY <1>5, <3>1, <3>2, <3>3
  <2>3. worker' \in [pc : {"idle", "synth", "start", "sentence", "frames"},
                     text : Turns \cup {"none"}, frames : 0 .. MaxFrames, seen : Nat]
    <3>1. CASE EnqueueStart \/ EnqueueSentence
      BY <1>5, <3>1, TurnTypes DEF EnqueueStart, EnqueueSentence
    <3>2. CASE EnqueueFrame
      <4>1. worker.frames \in 0 .. MaxFrames /\ worker.frames > 0
        BY <3>2, TurnTypes DEF EnqueueFrame
      <4>2. PICK n : n = worker.frames - 1
        OBVIOUS
      <4>3. n \in 0 .. MaxFrames
        BY <4>1, <4>2, TtsAssumption
      <4>4. worker' = [worker EXCEPT !.frames = n, !.seen = gen]
        BY <3>2, <4>2 DEF EnqueueFrame
      <4> QED
        BY <4>3, <4>4, TurnTypes
    <3> QED
      BY <1>5, <3>1, <3>2
  <2> QED
    BY <1>5, <2>2, <2>3
    DEF TurnInv, TypeOK, EnqueueStart, EnqueueSentence, EnqueueFrame, turnVars, stopVars
<1>6. CASE EnqueueEnd
  <2>1. worker.text \in Turns /\ worker.seen \in Nat
    BY <1>6, TurnTypes DEF TurnInv, WorkerInv, EnqueueEnd
  <2>2. queue' \in Seq(ElemType) /\ UNCHANGED <<delayed, ready, sender>>
    BY <1>6, <2>1, EnqueueFields DEF EnqueueEnd
  <2> QED
    BY <1>6, <2>2, JobDoneTypes DEF TurnInv, TypeOK, EnqueueEnd, turnVars, stopVars
<1> QED
  BY <1>1, <1>2, <1>3, <1>4, <1>5, <1>6 DEF Worker

LEMMA SenderTypes ==
    ASSUME TurnInv, Sender \/ MarkDue
    PROVE  TypeOK'
<1>1. queue \in Seq(ElemType) /\ delayed \in Seq(ElemType) /\ ready \in Seq(ElemType)
  BY TurnTypes
<1>2. CASE PopStale
  <2>1. Tail(queue) \in Seq(ElemType)
    BY <1>1, <1>2, HeadLeaves DEF PopStale
  <2>2. ended' \in [Turns -> Nat]
    BY <1>2, CallFields DEF PopStale
  <2> QED
    BY <1>2, <2>1, <2>2 DEF TurnInv, TypeOK, PopStale, turnVars, stopVars
<1>3. CASE PopMark
  <2>1. Tail(queue) \in Seq(ElemType) /\ Head(queue) \in ElemType
    BY <1>1, <1>3, HeadLeaves DEF PopMark, Pop
  <2>2. Append(delayed, Head(queue)) \in Seq(ElemType)
    BY <1>1, <2>1
  <2> QED
    BY <1>3, <2>1, <2>2 DEF TurnInv, TypeOK, PopMark, Pop, turnVars, stopVars
<1>4. CASE PopTimed
  <2>1. Tail(queue) \in Seq(ElemType)
    BY <1>1, <1>4, HeadLeaves DEF PopTimed, Pop
  <2> QED
    BY <1>4, <2>1 DEF TurnInv, TypeOK, PopTimed, Pop, turnVars, stopVars
<1>5. CASE SendFrame \/ MarkActive \/ SendStart
  BY <1>5 DEF TurnInv, TypeOK, SendFrame, MarkActive, SendStart, turnVars, stopVars
<1>6. CASE SendStop
  <2>1. pend' \in [set : BOOLEAN, send : BOOLEAN] /\ active' \in BOOLEAN /\ wire' \in BOOLEAN
    BY <1>6, FinishTypes DEF TurnInv, SendStop
  <2> QED
    BY <1>6, <2>1 DEF TurnInv, TypeOK, SendStop, turnVars
<1>7. CASE DispatchMark
  <2>1. Tail(ready) \in Seq(ElemType)
    BY <1>1, <1>7, HeadLeaves DEF DispatchMark
  <2>2. ended' \in [Turns -> Nat]
    BY <1>7, CallFields DEF DispatchMark
  <2> QED
    BY <1>7, <2>1, <2>2 DEF TurnInv, TypeOK, DispatchMark, turnVars, stopVars
<1>8. CASE Interrupted
  <2>1. pend' \in [set : BOOLEAN, send : BOOLEAN] /\ active' \in BOOLEAN /\ wire' \in BOOLEAN
    BY <1>8, FinishTypes DEF TurnInv, Interrupted
  <2>2. ended' \in [Turns -> Nat]
    BY <1>8, CallFields DEF Interrupted
  <2>3. caller' \in [Callers -> {"idle", "post", "wait", "finish", "done"}]
    BY <1>8 DEF TurnInv, TypeOK, Interrupted
  <2>4. <<>> \in Seq(ElemType) /\ <<>> \in Seq(Callers) /\ Len(<<>>) = 0
    OBVIOUS
  <2> QED
    BY <1>8, <2>1, <2>2, <2>3, <2>4 DEF TurnInv, TypeOK, Interrupted, turnVars
<1>9. CASE MarkDue
  <2>1. Tail(delayed) \in Seq(ElemType) /\ Head(delayed) \in ElemType
    BY <1>1, <1>9, HeadLeaves DEF MarkDue
  <2>2. ready' \in Seq(ElemType)
    <3>1. Append(ready, Head(delayed)) \in Seq(ElemType)
      BY <1>1, <2>1
    <3>2. ready' = Append(ready, Head(delayed)) \/ ready' = ready
      BY <1>9 DEF MarkDue
    <3> QED
      BY <1>1, <3>1, <3>2
  <2>3. ended' \in [Turns -> Nat]
    BY <1>9, CallFields, TurnTypes DEF MarkDue
  <2> QED
    BY <1>9, <2>1, <2>2, <2>3 DEF TurnInv, TypeOK, MarkDue, turnVars, stopVars
<1> QED
  BY <1>2, <1>3, <1>4, <1>5, <1>6, <1>7, <1>8, <1>9 DEF Sender

LEMMA CallerTypes ==
    ASSUME TurnInv, NEW c \in Callers, Interrupt(c) \/ \E send \in BOOLEAN : BeginInterrupt(c, send)
    PROVE  TypeOK'
<1>1. CASE PostInterrupt(c)
  <2>1. irq' \in Seq(Callers) /\ Len(irq') <= 1
    <3>1. <<c>> \in Seq(Callers) /\ Len(<<c>>) <= 1
      OBVIOUS
    <3>2. irq' = <<c>> \/ irq' = irq
      BY <1>1 DEF PostInterrupt
    <3>3. irq \in Seq(Callers) /\ Len(irq) <= 1
      BY DEF TurnInv, TypeOK
    <3> QED
      BY <3>1, <3>2, <3>3, Zenon
  <2> QED
    BY <1>1, <2>1 DEF TurnInv, TypeOK, PostInterrupt, turnVars, playVars, stopVars
<1>2. CASE WaitTimeout(c)
  BY <1>2 DEF TurnInv, TypeOK, WaitTimeout, turnVars, playVars, stopVars
<1>3. CASE FinishInterrupt(c)
  <2>1. pend' \in [set : BOOLEAN, send : BOOLEAN] /\ active' \in BOOLEAN /\ wire' \in BOOLEAN
    BY <1>3, FinishTypes DEF TurnInv, FinishInterrupt
  <2> QED
    BY <1>3, <2>1 DEF TurnInv, TypeOK, FinishInterrupt, turnVars, playVars
<1>4. ASSUME NEW send \in BOOLEAN, BeginInterrupt(c, send) PROVE TypeOK'
  <2>1. pend' \in [set : BOOLEAN, send : BOOLEAN]
    <3>1. pend \in [set : BOOLEAN, send : BOOLEAN]
      BY DEF TurnInv, TypeOK
    <3>2. pend.send \/ send \in BOOLEAN
      BY <3>1
    <3> QED
      BY <1>4, <3>2 DEF BeginInterrupt
  <2> QED
    BY <1>4, <2>1 DEF TurnInv, TypeOK, BeginInterrupt, turnVars, playVars
<1> QED
  BY <1>1, <1>2, <1>3, <1>4 DEF Interrupt

-----------------------------------------------------------------------------
\* Where the on_end of a text is

\* What the invariant says of a turn, and what it must say after a step.
LEMMA AccountedNow ==
    ASSUME TurnInv, NEW t \in Turns
    PROVE  ended[t] + Count(ttsq, TextsOf(t)) + InWork(t) + Count(queue, EndsOf(t))
             + Count(delayed, EndsOf(t)) + Count(ready, EndsOf(t))
             = IF t \in lost \/ turn[t] \in Early THEN 0 ELSE 1
  BY DEF TurnInv, Accounted, Total, Due

LEMMA AccountedNext ==
    ASSUME \A t \in Turns :
               ended'[t] + Count(ttsq', TextsOf(t)) + (IF worker'.text = t THEN 1 ELSE 0)
                 + Count(queue', EndsOf(t)) + Count(delayed', EndsOf(t)) + Count(ready', EndsOf(t))
                 = IF t \in lost' \/ turn'[t] \in Early THEN 0 ELSE 1
    PROVE  Accounted'
<1>1. ASSUME NEW t \in Turns PROVE (Total(t) = Due(t))'
  <2>1. Total(t)' = IF t \in lost' \/ turn'[t] \in Early THEN 0 ELSE 1
    BY TotalNext
  <2>2. Due(t)' = IF t \in lost' \/ turn'[t] \in Early THEN 0 ELSE 1
    BY DEF Due, Early
  <2> QED
    BY <2>1, <2>2
<1> QED
  BY <1>1 DEF Accounted

\* A step that moves no text, no on_end, and no turn past its text.
LEMMA NothingMoves ==
    ASSUME TurnInv, ended' = ended, ttsq' = ttsq, jobs' = jobs, delayed' = delayed, ready' = ready,
           \A t \in Turns : Count(queue', EndsOf(t)) = Count(queue, EndsOf(t)),
           worker'.text = worker.text, worker'.pc = "idle" <=> worker.pc = "idle",
           \A t \in lost' : turn'[t] \notin Early,
           \A t \in Turns : /\ turn'[t] = "count" <=> turn[t] = "count"
                            /\ turn'[t] \in Early => turn[t] \in Early
                            /\ (t \in lost' \/ turn'[t] \in Early) <=> (t \in lost \/ turn[t] \in Early)
    PROVE  WorkerInv' /\ LostInv' /\ SentInv' /\ JobsInv' /\ Accounted'
<1>1. WorkerInv'
  BY DEF TurnInv, WorkerInv
<1>2. LostInv'
  BY DEF LostInv, Early
<1>3. SentInv' /\ JobsInv'
  <2>1. Texts' = Texts
    BY DEF Texts, Busy
  <2>2. Uncounted' = Uncounted /\ Sent \subseteq Sent'
    BY DEF Uncounted, Sent, Early
  <2> QED
    BY <2>1, <2>2, JobsStay
<1>4. Accounted'
  <2>1. ASSUME NEW t \in Turns
        PROVE  ended'[t] + Count(ttsq', TextsOf(t)) + (IF worker'.text = t THEN 1 ELSE 0)
                 + Count(queue', EndsOf(t)) + Count(delayed', EndsOf(t)) + Count(ready', EndsOf(t))
                 = IF t \in lost' \/ turn'[t] \in Early THEN 0 ELSE 1
    <3>1. /\ ended'[t] = ended[t] /\ Count(ttsq', TextsOf(t)) = Count(ttsq, TextsOf(t))
          /\ Count(delayed', EndsOf(t)) = Count(delayed, EndsOf(t))
          /\ Count(ready', EndsOf(t)) = Count(ready, EndsOf(t))
          /\ Count(queue', EndsOf(t)) = Count(queue, EndsOf(t))
          /\ (IF worker'.text = t THEN 1 ELSE 0) = InWork(t)
      BY DEF InWork
    <3>2. (IF t \in lost' \/ turn'[t] \in Early THEN 0 ELSE 1)
            = (IF t \in lost \/ turn[t] \in Early THEN 0 ELSE 1)
      OBVIOUS
    <3> QED
      BY <3>1, <3>2, AccountedNow
  <2> QED
    BY <2>1, AccountedNext
<1> QED
  BY <1>1, <1>2, <1>3, <1>4

\* A step that moves the on_end of texts from one place to another.
LEMMA OnEndMoves ==
    ASSUME TurnInv, UNCHANGED <<turn, lost>>,
           \A t \in Turns :
               ended'[t] + Count(ttsq', TextsOf(t)) + (IF worker'.text = t THEN 1 ELSE 0)
                 + Count(queue', EndsOf(t)) + Count(delayed', EndsOf(t)) + Count(ready', EndsOf(t))
               = ended[t] + Count(ttsq, TextsOf(t)) + InWork(t)
                 + Count(queue, EndsOf(t)) + Count(delayed, EndsOf(t)) + Count(ready, EndsOf(t))
    PROVE  LostInv' /\ Accounted'
<1>1. LostInv'
  BY DEF TurnInv, LostInv, Early
<1>2. Accounted'
  <2>1. ASSUME NEW t \in Turns
        PROVE  ended'[t] + Count(ttsq', TextsOf(t)) + (IF worker'.text = t THEN 1 ELSE 0)
                 + Count(queue', EndsOf(t)) + Count(delayed', EndsOf(t)) + Count(ready', EndsOf(t))
                 = IF t \in lost' \/ turn'[t] \in Early THEN 0 ELSE 1
    <3>1. (IF t \in lost' \/ turn'[t] \in Early THEN 0 ELSE 1)
            = (IF t \in lost \/ turn[t] \in Early THEN 0 ELSE 1)
      OBVIOUS
    <3> QED
      BY <3>1, AccountedNow
  <2> QED
    BY <2>1, AccountedNext
<1> QED
  BY <1>1, <1>2

-----------------------------------------------------------------------------
\* The steps of a turn

LEMMA QuietTurnKeeps ==
    ASSUME TurnInv, NEW t \in Turns, TakeSeq(t) \/ CheckDropped(t) \/ Stamp(t) \/ Drained(t) \/ EndTurn(t)
    PROVE  WorkerInv' /\ LostInv' /\ SentInv' /\ JobsInv' /\ Accounted'
<1>1. /\ ended' = ended /\ ttsq' = ttsq /\ jobs' = jobs /\ delayed' = delayed /\ ready' = ready
      /\ worker' = worker
  BY DEF TakeSeq, CheckDropped, Stamp, Drained, EndTurn, Enqueue, playVars
<1>2. \A u \in Turns : Count(queue', EndsOf(u)) = Count(queue, EndsOf(u))
  <2>1. CASE EndTurn(t)
    <3>1. Enqueue("stop", t, item[t]) /\ item[t] \in Nat
      BY <2>1, TurnTypes DEF EndTurn
    <3>2. \A u \in Turns : Count(queue', EndsOf(u)) = Count(queue, EndsOf(u)) + 0
      BY <3>1, EnqueueFields
    <3> QED
      BY <3>2, CountsAreNat
  <2>2. CASE queue' = queue
    BY <2>2
  <2> QED
    BY <2>1, <2>2 DEF TakeSeq, CheckDropped, Stamp, Drained, playVars
<1>3. /\ \A u \in Turns \ {t} : turn'[u] = turn[u]
      /\ turn \in [Turns -> {"idle", "check", "stamp", "send", "count", "drain", "stop",
                             "late", "done", "gave_up"}]
  BY TurnTypes DEF TakeSeq, CheckDropped, Stamp, Drained, EndTurn
<1>4. /\ turn[t] # "count" /\ turn'[t] # "count"
      /\ turn'[t] \in Early => turn[t] \in Early
      /\ \/ lost' = lost /\ (turn'[t] \in Early <=> turn[t] \in Early)
         \/ lost' = lost \cup {t} /\ turn[t] \in Early /\ turn'[t] \notin Early
  BY TurnTypes DEF TakeSeq, CheckDropped, Stamp, Drained, EndTurn, Early
<1>5. \A u \in lost : u \in Turns /\ turn[u] \notin Early
  BY TurnTypes DEF TurnInv, LostInv
<1>6. \A u \in lost' : turn'[u] \notin Early
  BY <1>3, <1>4, <1>5
<1>7. \A u \in Turns : /\ turn'[u] = "count" <=> turn[u] = "count"
                       /\ turn'[u] \in Early => turn[u] \in Early
                       /\ (u \in lost' \/ turn'[u] \in Early) <=> (u \in lost \/ turn[u] \in Early)
  BY <1>3, <1>4
<1>8. worker'.text = worker.text /\ (worker'.pc = "idle" <=> worker.pc = "idle")
  BY <1>1
<1> QED
  BY <1>1, <1>2, <1>6, <1>7, <1>8, NothingMoves

LEMMA SendTextKeeps ==
    ASSUME TurnInv, NEW t \in Turns, SendText(t)
    PROVE  WorkerInv' /\ LostInv' /\ SentInv' /\ JobsInv' /\ Accounted'
<1>1. /\ turn[t] = "send" /\ turn' = [turn EXCEPT ![t] = "count"] /\ jobs' = jobs /\ worker' = worker
      /\ ended' = ended /\ queue' = queue /\ delayed' = delayed /\ ready' = ready /\ lost' = lost
  BY DEF SendText, playVars
<1>2. PICK x : x = [text |-> t, gen |-> item[t]]
  OBVIOUS
<1>3. x \in TextType /\ x.text = t /\ ttsq' = Append(ttsq, x) /\ ttsq \in Seq(TextType)
  BY <1>2, TurnTypes DEF SendText, TextType
<1>4. turn'[t] = "count" /\ (\A u \in Turns \ {t} : turn'[u] = turn[u])
  BY <1>1, TurnTypes
<1>5. WorkerInv' /\ LostInv'
  BY <1>1, <1>4, TurnTypes DEF TurnInv, WorkerInv, LostInv, Early
<1>6. Texts' = Texts + 1
  <2>1. Len(ttsq') = Len(ttsq) + 1 /\ Len(ttsq) \in Nat
    BY <1>3
  <2>2. Busy' = Busy /\ Busy \in {0, 1}
    BY <1>1 DEF Busy
  <2> QED
    BY <2>1, <2>2 DEF Texts
<1>7. SentInv' /\ JobsInv'
  BY <1>1, <1>6, JobSent
<1>8. Accounted'
  <2>1. ASSUME NEW u \in Turns
        PROVE  ended'[u] + Count(ttsq', TextsOf(u)) + (IF worker'.text = u THEN 1 ELSE 0)
                 + Count(queue', EndsOf(u)) + Count(delayed', EndsOf(u)) + Count(ready', EndsOf(u))
                 = IF u \in lost' \/ turn'[u] \in Early THEN 0 ELSE 1
    <3>1. Count(ttsq', TextsOf(u)) = Count(ttsq, TextsOf(u)) + (IF u = t THEN 1 ELSE 0)
      <4>1. x \in TextsOf(u) <=> u = t
        BY <1>3 DEF TextsOf
      <4> QED
        BY <1>3, <4>1, CountAppend
    <3>2. (IF u \in lost' \/ turn'[u] \in Early THEN 0 ELSE 1)
            = (IF u \in lost \/ turn[u] \in Early THEN 0 ELSE 1) + (IF u = t THEN 1 ELSE 0)
      BY <1>1, <1>4 DEF TurnInv, LostInv, Early
    <3>3. (IF worker'.text = u THEN 1 ELSE 0) = InWork(u)
      BY <1>1 DEF InWork
    <3> QED
      BY <1>1, <3>1, <3>2, <3>3, AccountedNow, CountsAreNat
  <2> QED
    BY <2>1, AccountedNext
<1> QED
  BY <1>5, <1>7, <1>8

LEMMA CountJobKeeps ==
    ASSUME TurnInv, NEW t \in Turns, CountJob(t)
    PROVE  WorkerInv' /\ LostInv' /\ SentInv' /\ JobsInv' /\ Accounted'
<1>1. /\ turn[t] = "count" /\ turn' = [turn EXCEPT ![t] = "drain"] /\ jobs' = (jobs + 1) % Width
      /\ ttsq' = ttsq /\ worker' = worker /\ ended' = ended /\ queue' = queue /\ delayed' = delayed
      /\ ready' = ready /\ lost' = lost
  BY DEF CountJob, playVars
<1>2. turn'[t] = "drain" /\ (\A u \in Turns \ {t} : turn'[u] = turn[u])
  BY <1>1, TurnTypes
<1>3. WorkerInv' /\ LostInv'
  BY <1>1, <1>2, TurnTypes DEF TurnInv, WorkerInv, LostInv, Early
<1>4. Texts' = Texts
  BY <1>1 DEF Texts, Busy
<1>5. SentInv' /\ JobsInv'
  BY <1>1, <1>4, JobCounted
<1>6. Accounted'
  <2>1. ASSUME NEW u \in Turns
        PROVE  ended'[u] + Count(ttsq', TextsOf(u)) + (IF worker'.text = u THEN 1 ELSE 0)
                 + Count(queue', EndsOf(u)) + Count(delayed', EndsOf(u)) + Count(ready', EndsOf(u))
                 = IF u \in lost' \/ turn'[u] \in Early THEN 0 ELSE 1
    <3>1. (IF u \in lost' \/ turn'[u] \in Early THEN 0 ELSE 1)
            = (IF u \in lost \/ turn[u] \in Early THEN 0 ELSE 1)
      BY <1>1, <1>2 DEF Early
    <3>2. (IF worker'.text = u THEN 1 ELSE 0) = InWork(u)
      BY <1>1 DEF InWork
    <3> QED
      BY <1>1, <3>1, <3>2, AccountedNow
  <2> QED
    BY <2>1, AccountedNext
<1> QED
  BY <1>3, <1>5, <1>6

-----------------------------------------------------------------------------
\* The steps of the worker

\* A text more or less is in the queue, or in work.
LEMMA TextsNext ==
    ASSUME TurnInv, ttsq # <<>>, ttsq' = Tail(ttsq), worker.pc = "idle"
    PROVE  /\ worker'.pc = "idle" => Texts' = Texts - 1
           /\ worker'.pc # "idle" => Texts' = Texts
<1>1. Len(ttsq') = Len(ttsq) - 1 /\ Len(ttsq) \in Nat
  BY TextLeaves
<1>2. Busy = 0 /\ Busy' = IF worker'.pc = "idle" THEN 0 ELSE 1
  BY DEF Busy
<1>3. PICK n \in Nat : n = Len(ttsq)
  BY <1>1
<1>4. Texts = n
  BY <1>2, <1>3 DEF Texts
<1>5. Texts' = (n - 1) + Busy'
  BY <1>1, <1>3, Zenon DEF Texts
<1>6. Busy' = IF worker'.pc = "idle" THEN 0 ELSE 1
  BY <1>2
<1> QED
  BY <1>4, <1>5, <1>6

LEMMA TakeStaleKeeps ==
    ASSUME TurnInv, TakeStale
    PROVE  WorkerInv' /\ LostInv' /\ SentInv' /\ JobsInv' /\ Accounted'
<1>1. /\ worker.pc = "idle" /\ worker' = Resting /\ ttsq # <<>> /\ ttsq' = Tail(ttsq)
      /\ jobs' = (jobs + Width - 1) % Width
      /\ UNCHANGED <<turn, lost>> /\ queue' = queue /\ delayed' = delayed /\ ready' = ready
      /\ Call({Head(ttsq).text})
  BY DEF TakeStale, JobDone, turnVars, playVars
<1>2. worker.text = "none" /\ worker'.text = "none" /\ worker'.pc = "idle"
  BY <1>1 DEF TurnInv, WorkerInv, Resting
<1>3. WorkerInv'
  BY <1>2 DEF WorkerInv
<1>4. SentInv' /\ JobsInv'
  BY <1>1, <1>2, TextsNext, JobLess
<1>5. LostInv' /\ Accounted'
  <2>1. ASSUME NEW t \in Turns
        PROVE  ended'[t] + Count(ttsq', TextsOf(t)) + (IF worker'.text = t THEN 1 ELSE 0)
                 + Count(queue', EndsOf(t)) + Count(delayed', EndsOf(t)) + Count(ready', EndsOf(t))
               = ended[t] + Count(ttsq, TextsOf(t)) + InWork(t)
                 + Count(queue, EndsOf(t)) + Count(delayed, EndsOf(t)) + Count(ready, EndsOf(t))
    <3>0. PICK h \in {0, 1} : h = IF t = Head(ttsq).text THEN 1 ELSE 0
      OBVIOUS
    <3>1. ended'[t] = ended[t] + h
      BY <1>1, <3>0, CallFields
    <3>2. PICK m \in Nat : m = Count(ttsq', TextsOf(t)) /\ Count(ttsq, TextsOf(t)) = m + h
      <4>1. Tail(ttsq) \in Seq(TextType)
        BY <1>1, TextLeaves
      <4> QED
        BY <1>1, <3>0, <4>1, TextLeaves, CountIsNat
    <3>3. (IF worker'.text = t THEN 1 ELSE 0) = InWork(t)
      BY <1>2 DEF InWork
    <3> QED
      BY <1>1, <3>1, <3>2, <3>3, CountsAreNat
  <2> QED
    BY <1>1, <2>1, OnEndMoves
<1> QED
  BY <1>3, <1>4, <1>5

LEMMA TakeTextKeeps ==
    ASSUME TurnInv, TakeText
    PROVE  WorkerInv' /\ LostInv' /\ SentInv' /\ JobsInv' /\ Accounted'
<1>1. /\ worker.pc = "idle" /\ ttsq # <<>> /\ ttsq' = Tail(ttsq) /\ jobs' = jobs /\ ended' = ended
      /\ UNCHANGED <<turn, lost>> /\ queue' = queue /\ delayed' = delayed /\ ready' = ready
      /\ worker'.pc = "synth" /\ worker'.text = Head(ttsq).text
  BY DEF TakeText, turnVars, playVars
<1>2. worker.text = "none" /\ Head(ttsq).text \in Turns
  BY <1>1, TextLeaves DEF TurnInv, WorkerInv
<1>3. WorkerInv'
  BY <1>1, <1>2 DEF WorkerInv
<1>4. SentInv' /\ JobsInv'
  <2>1. Texts' = Texts
    BY <1>1, TextsNext
  <2>2. Uncounted' = Uncounted /\ Sent \subseteq Sent'
    BY <1>1 DEF Uncounted, Sent, Early
  <2> QED
    BY <1>1, <2>1, <2>2, JobsStay
<1>5. LostInv' /\ Accounted'
  <2>1. ASSUME NEW t \in Turns
        PROVE  ended'[t] + Count(ttsq', TextsOf(t)) + (IF worker'.text = t THEN 1 ELSE 0)
                 + Count(queue', EndsOf(t)) + Count(delayed', EndsOf(t)) + Count(ready', EndsOf(t))
               = ended[t] + Count(ttsq, TextsOf(t)) + InWork(t)
                 + Count(queue, EndsOf(t)) + Count(delayed, EndsOf(t)) + Count(ready, EndsOf(t))
    <3>0. PICK h \in {0, 1} : h = IF t = Head(ttsq).text THEN 1 ELSE 0
      OBVIOUS
    <3>1. PICK m \in Nat : m = Count(ttsq', TextsOf(t)) /\ Count(ttsq, TextsOf(t)) = m + h
      <4>1. Tail(ttsq) \in Seq(TextType)
        BY <1>1, TextLeaves
      <4> QED
        BY <1>1, <3>0, <4>1, TextLeaves, CountIsNat
    <3>2. InWork(t) = 0 /\ (IF worker'.text = t THEN 1 ELSE 0) = h
      BY <1>1, <1>2, <3>0, TtsAssumption DEF InWork
    <3>3. /\ ended'[t] = ended[t] /\ Count(queue', EndsOf(t)) = Count(queue, EndsOf(t))
          /\ Count(delayed', EndsOf(t)) = Count(delayed, EndsOf(t))
          /\ Count(ready', EndsOf(t)) = Count(ready, EndsOf(t))
      BY <1>1
    <3> QED
      BY <3>1, <3>2, <3>3, CountsAreNat
  <2> QED
    BY <1>1, <2>1, OnEndMoves
<1> QED
  BY <1>3, <1>4, <1>5

\* What the worker does with the text it has.
LEMMA WorkerAtWork ==
    ASSUME TurnInv, worker.pc # "idle"
    PROVE  worker.text \in Turns /\ worker.seen \in Nat /\ Texts \in Nat /\ Texts = Len(ttsq) + 1
<1>1. Len(ttsq) \in Nat /\ Busy = 1
  BY TurnTypes DEF Busy
<1> QED
  BY <1>1, TurnTypes DEF TurnInv, WorkerInv, Texts

LEMMA QuietWorkerKeeps ==
    ASSUME TurnInv, FirstFrame \/ EnqueueStart \/ EnqueueSentence \/ EnqueueFrame
    PROVE  WorkerInv' /\ LostInv' /\ SentInv' /\ JobsInv' /\ Accounted'
<1>1. /\ ended' = ended /\ ttsq' = ttsq /\ jobs' = jobs /\ UNCHANGED <<turn, lost>>
      /\ worker.pc # "idle"
  BY DEF FirstFrame, EnqueueStart, EnqueueSentence, EnqueueFrame, turnVars
<1>2. worker'.text = worker.text /\ worker'.pc # "idle"
  BY TurnTypes DEF FirstFrame, EnqueueStart, EnqueueSentence, EnqueueFrame
<1>3. /\ delayed' = delayed /\ ready' = ready
      /\ \A u \in Turns : Count(queue', EndsOf(u)) = Count(queue, EndsOf(u))
  <2>1. worker.text \in Turns /\ worker.seen \in Nat
    BY <1>1, WorkerAtWork
  <2>2. CASE FirstFrame
    BY <2>2 DEF FirstFrame, playVars
  <2>3. ASSUME NEW kind \in {"start", "begin", "frame"}, Enqueue(kind, worker.text, worker.seen)
        PROVE  /\ delayed' = delayed /\ ready' = ready
               /\ \A u \in Turns : Count(queue', EndsOf(u)) = Count(queue, EndsOf(u))
    <3>1. \A u \in Turns : Count(queue', EndsOf(u)) = Count(queue, EndsOf(u)) + 0
      BY <2>1, <2>3, EnqueueFields
    <3> QED
      BY <2>3, <3>1, CountsAreNat DEF Enqueue
  <2> QED
    BY <2>2, <2>3 DEF EnqueueStart, EnqueueSentence, EnqueueFrame
<1>4. /\ \A t \in lost' : turn'[t] \notin Early
      /\ \A t \in Turns : /\ turn'[t] = "count" <=> turn[t] = "count"
                          /\ turn'[t] \in Early => turn[t] \in Early
                          /\ (t \in lost' \/ turn'[t] \in Early) <=> (t \in lost \/ turn[t] \in Early)
  BY <1>1 DEF TurnInv, LostInv
<1>5. worker'.pc = "idle" <=> worker.pc = "idle"
  BY <1>1, <1>2
<1> QED
  BY <1>1, <1>2, <1>3, <1>4, <1>5, NothingMoves

\* A text whose work is over.
LEMMA WorkIsOver ==
    ASSUME TurnInv, worker.pc # "idle", JobDone, ttsq' = ttsq, turn' = turn
    PROVE  WorkerInv' /\ SentInv' /\ JobsInv' /\ worker'.text = "none"
<1>1. worker'.pc = "idle" /\ worker'.text = "none" /\ jobs' = (jobs + Width - 1) % Width
  BY DEF JobDone, Resting
<1>2. Texts' = Texts - 1
  <2>1. Texts = Len(ttsq) + 1 /\ Len(ttsq) \in Nat
    BY WorkerAtWork, TurnTypes
  <2>2. Texts' = Len(ttsq) + 0
    BY <1>1 DEF Texts, Busy
  <2> QED
    BY <2>1, <2>2
<1> QED
  BY <1>1, <1>2, JobLess DEF WorkerInv

LEMMA SynthesisFailsKeeps ==
    ASSUME TurnInv, SynthesisFails
    PROVE  WorkerInv' /\ LostInv' /\ SentInv' /\ JobsInv' /\ Accounted'
<1>1. /\ worker.pc # "idle" /\ JobDone /\ ttsq' = ttsq /\ turn' = turn /\ ended' = ended
      /\ queue' = queue /\ delayed' = delayed /\ ready' = ready /\ lost' = lost \cup {worker.text}
  BY DEF SynthesisFails, turnVars, playVars
<1>2. WorkerInv' /\ SentInv' /\ JobsInv' /\ worker'.text = "none"
  BY <1>1, WorkIsOver
<1>3. worker.text \in Turns
  BY <1>1, WorkerAtWork
<1>4. InWork(worker.text) = 1
  BY DEF InWork
<1>5. worker.text \notin lost /\ turn[worker.text] \notin Early
  BY <1>3, <1>4, AccountedNow, CountsAreNat
<1>6. LostInv'
  BY <1>1, <1>5 DEF TurnInv, LostInv, Early
<1>7. Accounted'
  <2>1. ASSUME NEW t \in Turns
        PROVE  ended'[t] + Count(ttsq', TextsOf(t)) + (IF worker'.text = t THEN 1 ELSE 0)
                 + Count(queue', EndsOf(t)) + Count(delayed', EndsOf(t)) + Count(ready', EndsOf(t))
                 = IF t \in lost' \/ turn'[t] \in Early THEN 0 ELSE 1
    <3>1. (IF worker'.text = t THEN 1 ELSE 0) = 0 /\ InWork(t) = IF t = worker.text THEN 1 ELSE 0
      BY <1>2, TtsAssumption DEF InWork
    <3>2. (IF t \in lost \/ turn[t] \in Early THEN 0 ELSE 1)
            = (IF t \in lost' \/ turn'[t] \in Early THEN 0 ELSE 1) + (IF t = worker.text THEN 1 ELSE 0)
      BY <1>1, <1>5
    <3> QED
      BY <1>1, <3>1, <3>2, AccountedNow, CountsAreNat
  <2> QED
    BY <2>1, AccountedNext
<1> QED
  BY <1>2, <1>6, <1>7

LEMMA EnqueueEndKeeps ==
    ASSUME TurnInv, EnqueueEnd
    PROVE  WorkerInv' /\ LostInv' /\ SentInv' /\ JobsInv' /\ Accounted'
<1>1. /\ worker.pc # "idle" /\ JobDone /\ ttsq' = ttsq /\ UNCHANGED <<turn, lost>> /\ ended' = ended
      /\ Enqueue("end", worker.text, worker.seen)
  BY DEF EnqueueEnd, turnVars
<1>2. WorkerInv' /\ SentInv' /\ JobsInv' /\ worker'.text = "none"
  BY <1>1, WorkIsOver
<1>3. worker.text \in Turns /\ worker.seen \in Nat
  BY <1>1, WorkerAtWork
<1>4. /\ delayed' = delayed /\ ready' = ready
      /\ \A u \in Turns : Count(queue', EndsOf(u)) = Count(queue, EndsOf(u))
                            + (IF u = worker.text THEN 1 ELSE 0)
  BY <1>1, <1>3, EnqueueFields
<1>5. ASSUME NEW t \in Turns
      PROVE  ended'[t] + Count(ttsq', TextsOf(t)) + (IF worker'.text = t THEN 1 ELSE 0)
               + Count(queue', EndsOf(t)) + Count(delayed', EndsOf(t)) + Count(ready', EndsOf(t))
             = ended[t] + Count(ttsq, TextsOf(t)) + InWork(t)
               + Count(queue, EndsOf(t)) + Count(delayed, EndsOf(t)) + Count(ready, EndsOf(t))
  <2>1. (IF worker'.text = t THEN 1 ELSE 0) = 0 /\ InWork(t) = IF t = worker.text THEN 1 ELSE 0
    BY <1>2, TtsAssumption DEF InWork
  <2> QED
    BY <1>1, <1>4, <2>1, CountsAreNat
<1>6. LostInv' /\ Accounted'
  BY <1>1, <1>5, OnEndMoves
<1> QED
  BY <1>2, <1>6

-----------------------------------------------------------------------------
\* The steps of the sender, of the delay task and of the callers

\* A step that leaves the turns, the texts and the worker alone.
LEMMA WorkStays ==
    ASSUME TurnInv, UNCHANGED <<turn, lost>>, ttsq' = ttsq, jobs' = jobs, worker' = worker
    PROVE  /\ WorkerInv' /\ SentInv' /\ JobsInv'
           /\ \A t \in Turns : /\ (IF worker'.text = t THEN 1 ELSE 0) = InWork(t)
                               /\ Count(ttsq', TextsOf(t)) = Count(ttsq, TextsOf(t))
<1>1. WorkerInv'
  BY DEF TurnInv, WorkerInv
<1>2. Texts' = Texts
  BY DEF Texts, Busy
<1>3. Uncounted' = Uncounted /\ Sent \subseteq Sent'
  BY DEF Uncounted, Sent, Early
<1>4. SentInv' /\ JobsInv'
  BY <1>2, <1>3, JobsStay
<1> QED
  BY <1>1, <1>4 DEF InWork

\* A step that moves on_ends between the queues, or calls them.
LEMMA QueuesMove ==
    ASSUME TurnInv, UNCHANGED <<turn, lost>>, ttsq' = ttsq, jobs' = jobs, worker' = worker,
           \A t \in Turns :
               \E e \in Nat, q \in Nat, d \in Nat, r \in Nat :
                   /\ e = ended'[t] /\ q = Count(queue', EndsOf(t)) /\ d = Count(delayed', EndsOf(t))
                   /\ r = Count(ready', EndsOf(t))
                   /\ e + q + d + r = ended[t] + Count(queue, EndsOf(t)) + Count(delayed, EndsOf(t))
                                        + Count(ready, EndsOf(t))
    PROVE  WorkerInv' /\ LostInv' /\ SentInv' /\ JobsInv' /\ Accounted'
<1>1. WorkerInv' /\ SentInv' /\ JobsInv'
  BY WorkStays
<1>2. ASSUME NEW t \in Turns
      PROVE  ended'[t] + Count(ttsq', TextsOf(t)) + (IF worker'.text = t THEN 1 ELSE 0)
               + Count(queue', EndsOf(t)) + Count(delayed', EndsOf(t)) + Count(ready', EndsOf(t))
             = ended[t] + Count(ttsq, TextsOf(t)) + InWork(t)
               + Count(queue, EndsOf(t)) + Count(delayed, EndsOf(t)) + Count(ready, EndsOf(t))
  <2>1. PICK e \in Nat, q \in Nat, d \in Nat, r \in Nat :
           /\ e = ended'[t] /\ q = Count(queue', EndsOf(t)) /\ d = Count(delayed', EndsOf(t))
           /\ r = Count(ready', EndsOf(t))
           /\ e + q + d + r = ended[t] + Count(queue, EndsOf(t)) + Count(delayed, EndsOf(t))
                                + Count(ready, EndsOf(t))
    OBVIOUS
  <2>2. /\ (IF worker'.text = t THEN 1 ELSE 0) = InWork(t)
        /\ Count(ttsq', TextsOf(t)) = Count(ttsq, TextsOf(t))
    BY WorkStays
  <2> QED
    BY <2>1, <2>2, CountsAreNat
<1>3. LostInv' /\ Accounted'
  BY <1>2, OnEndMoves
<1> QED
  BY <1>1, <1>3

LEMMA PopKeeps ==
    ASSUME TurnInv, PopStale \/ PopMark \/ PopTimed
    PROVE  WorkerInv' /\ LostInv' /\ SentInv' /\ JobsInv' /\ Accounted'
<1>1. /\ UNCHANGED <<turn, lost>> /\ ttsq' = ttsq /\ jobs' = jobs /\ worker' = worker /\ ready' = ready
      /\ queue # <<>> /\ queue' = Tail(queue)
  BY DEF PopStale, PopMark, PopTimed, Pop, turnVars
<1>2. queue \in Seq(ElemType) /\ delayed \in Seq(ElemType)
  BY TurnTypes
<1>3. Head(queue) \in ElemType
  BY <1>1, <1>2, HeadLeaves
<1>4. ASSUME NEW t \in Turns
      PROVE  \E e \in Nat, q \in Nat, d \in Nat, r \in Nat :
                 /\ e = ended'[t] /\ q = Count(queue', EndsOf(t)) /\ d = Count(delayed', EndsOf(t))
                 /\ r = Count(ready', EndsOf(t))
                 /\ e + q + d + r = ended[t] + Count(queue, EndsOf(t)) + Count(delayed, EndsOf(t))
                                      + Count(ready, EndsOf(t))
  <2>1. PICK h \in {0, 1} : h = IF t \in Carried(<<Head(queue)>>) THEN 1 ELSE 0
    OBVIOUS
  <2>2. PICK q \in Nat : q = Count(queue', EndsOf(t)) /\ Count(queue, EndsOf(t)) = q + h
    BY <1>1, <1>2, <2>1, HeadLeaves
  <2>3. PICK r \in Nat : r = Count(ready', EndsOf(t)) /\ Count(ready, EndsOf(t)) = r
    BY <1>1, CountsAreNat
  <2>4. CASE PopStale
    <3>1. ended'[t] = ended[t] + h /\ delayed' = delayed
      BY <2>1, <2>4, CallFields DEF PopStale
    <3>2. PICK e \in Nat, d \in Nat : /\ e = ended'[t] /\ d = Count(delayed', EndsOf(t))
                                      /\ ended[t] + h = e /\ Count(delayed, EndsOf(t)) = d
      BY <2>1, <3>1, CountsAreNat
    <3> QED
      BY <2>2, <2>3, <3>1, <3>2, CountsAreNat
  <2>5. CASE PopMark
    <3>1. ended' = ended /\ delayed' = Append(delayed, Head(queue))
      BY <2>5 DEF PopMark, Pop
    <3>2. Head(queue) \in EndsOf(t) <=> t \in Carried(<<Head(queue)>>)
      BY <1>1, <1>2, HeadLeaves
    <3>3. Count(delayed', EndsOf(t)) = Count(delayed, EndsOf(t)) + h
      BY <1>2, <1>3, <2>1, <3>1, <3>2, CountAppend
    <3>4. PICK e \in Nat, d \in Nat : /\ e = ended'[t] /\ d = Count(delayed, EndsOf(t))
                                      /\ ended[t] = e /\ Count(delayed', EndsOf(t)) = d + h
      BY <3>1, <3>3, CountsAreNat
    <3> QED
      BY <2>2, <2>3, <3>4
  <2>6. CASE PopTimed
    <3>1. ended' = ended /\ delayed' = delayed /\ Head(queue).kind \in {"frame", "stop", "start"}
      BY <2>6 DEF PopTimed, Pop
    <3>2. Head(queue) \notin EndsOf(t)
      BY <3>1 DEF EndsOf
    <3>3. h = 0
      BY <1>1, <1>2, <2>1, <3>2, HeadLeaves
    <3>4. PICK e \in Nat, d \in Nat : /\ e = ended'[t] /\ d = Count(delayed', EndsOf(t))
                                      /\ ended[t] = e /\ Count(delayed, EndsOf(t)) = d
      BY <3>1, CountsAreNat
    <3> QED
      BY <2>2, <2>3, <3>3, <3>4
  <2> QED
    BY <2>4, <2>5, <2>6
<1> QED
  BY <1>1, <1>4, QueuesMove

LEMMA DispatchMarkKeeps ==
    ASSUME TurnInv, DispatchMark
    PROVE  WorkerInv' /\ LostInv' /\ SentInv' /\ JobsInv' /\ Accounted'
<1>1. /\ UNCHANGED <<turn, lost>> /\ ttsq' = ttsq /\ jobs' = jobs /\ worker' = worker
      /\ queue' = queue /\ delayed' = delayed
      /\ ready # <<>> /\ ready' = Tail(ready) /\ Call(Carried(<<Head(ready)>>))
  BY DEF DispatchMark, turnVars
<1>2. ready \in Seq(ElemType)
  BY TurnTypes
<1>3. ASSUME NEW t \in Turns
      PROVE  \E e \in Nat, q \in Nat, d \in Nat, r \in Nat :
                 /\ e = ended'[t] /\ q = Count(queue', EndsOf(t)) /\ d = Count(delayed', EndsOf(t))
                 /\ r = Count(ready', EndsOf(t))
                 /\ e + q + d + r = ended[t] + Count(queue, EndsOf(t)) + Count(delayed, EndsOf(t))
                                      + Count(ready, EndsOf(t))
  <2>1. PICK h \in {0, 1} : h = IF t \in Carried(<<Head(ready)>>) THEN 1 ELSE 0
    OBVIOUS
  <2>2. PICK r \in Nat : r = Count(ready', EndsOf(t)) /\ Count(ready, EndsOf(t)) = r + h
    BY <1>1, <1>2, <2>1, HeadLeaves
  <2>3. ended'[t] = ended[t] + h
    BY <1>1, <2>1, CallFields
  <2>4. PICK e \in Nat, q \in Nat, d \in Nat :
           /\ e = ended[t] /\ ended'[t] = e + h /\ q = Count(queue', EndsOf(t))
           /\ d = Count(delayed', EndsOf(t)) /\ Count(queue, EndsOf(t)) = q /\ Count(delayed, EndsOf(t)) = d
    BY <1>1, <2>3, CountsAreNat
  <2>5. PICK f \in Nat : f = e + h
    BY <2>1
  <2>6. /\ f = ended'[t] /\ f + q + d + r = e + q + d + (r + h)
    BY <2>4, <2>5
  <2>7. e + q + d + (r + h) = ended[t] + Count(queue, EndsOf(t)) + Count(delayed, EndsOf(t))
                                + Count(ready, EndsOf(t))
    BY <2>2, <2>4
  <2> QED
    BY <2>2, <2>4, <2>6, <2>7
<1> QED
  BY <1>1, <1>3, QueuesMove

\* The on_end of a text is at one place at most.
LEMMA OnePlace ==
    ASSUME TurnInv, NEW t \in Turns
    PROVE  Count(queue, EndsOf(t)) + Count(ready, EndsOf(t)) <= 1
  BY AccountedNow, CountsAreNat

LEMMA InterruptedKeeps ==
    ASSUME TurnInv, Interrupted
    PROVE  WorkerInv' /\ LostInv' /\ SentInv' /\ JobsInv' /\ Accounted'
<1>1. /\ UNCHANGED <<turn, lost>> /\ ttsq' = ttsq /\ jobs' = jobs /\ worker' = worker
      /\ queue' = <<>> /\ ready' = <<>> /\ delayed' = delayed
      /\ Call(Carried(queue) \cup Carried(ready))
  BY DEF Interrupted, turnVars
<1>2. queue \in Seq(ElemType) /\ ready \in Seq(ElemType)
  BY TurnTypes
<1>3. ASSUME NEW t \in Turns
      PROVE  \E e \in Nat, q \in Nat, d \in Nat, r \in Nat :
                 /\ e = ended'[t] /\ q = Count(queue', EndsOf(t)) /\ d = Count(delayed', EndsOf(t))
                 /\ r = Count(ready', EndsOf(t))
                 /\ e + q + d + r = ended[t] + Count(queue, EndsOf(t)) + Count(delayed, EndsOf(t))
                                      + Count(ready, EndsOf(t))
  <2>1. PICK e \in Nat, q \in Nat, d \in Nat, r \in Nat :
           /\ e = ended[t] /\ q = Count(queue, EndsOf(t)) /\ d = Count(delayed, EndsOf(t))
           /\ r = Count(ready, EndsOf(t))
    BY CountsAreNat
  <2>2. q + r <= 1
    BY <2>1, OnePlace
  <2>3. t \in Carried(queue) \cup Carried(ready) <=> q >= 1 \/ r >= 1
    BY <1>2, <2>1, CarriedIsCounted
  <2>4. ended'[t] = e + q + r
    BY <1>1, <2>1, <2>2, <2>3, CallFields
  <2>5. Count(queue', EndsOf(t)) = 0 /\ Count(ready', EndsOf(t)) = 0 /\ Count(delayed', EndsOf(t)) = d
    BY <1>1, <2>1, CountEmpty
  <2> QED
    BY <2>1, <2>4, <2>5
<1> QED
  BY <1>1, <1>3, QueuesMove

LEMMA MarkDueKeeps ==
    ASSUME TurnInv, MarkDue
    PROVE  WorkerInv' /\ LostInv' /\ SentInv' /\ JobsInv' /\ Accounted'
<1>1. /\ UNCHANGED <<turn, lost>> /\ ttsq' = ttsq /\ jobs' = jobs /\ worker' = worker
      /\ queue' = queue /\ delayed # <<>> /\ delayed' = Tail(delayed)
      /\ \/ ready' = Append(ready, Head(delayed)) /\ ended' = ended
         \/ ready' = ready /\ Call(Carried(<<Head(delayed)>>))
  BY DEF MarkDue, turnVars
<1>2. delayed \in Seq(ElemType) /\ ready \in Seq(ElemType)
  BY TurnTypes
<1>3. Head(delayed) \in ElemType
  BY <1>1, <1>2, HeadLeaves
<1>4. ASSUME NEW t \in Turns
      PROVE  \E e \in Nat, q \in Nat, d \in Nat, r \in Nat :
                 /\ e = ended'[t] /\ q = Count(queue', EndsOf(t)) /\ d = Count(delayed', EndsOf(t))
                 /\ r = Count(ready', EndsOf(t))
                 /\ e + q + d + r = ended[t] + Count(queue, EndsOf(t)) + Count(delayed, EndsOf(t))
                                      + Count(ready, EndsOf(t))
  <2>1. PICK h \in {0, 1} : h = IF t \in Carried(<<Head(delayed)>>) THEN 1 ELSE 0
    OBVIOUS
  <2>2. PICK d \in Nat : d = Count(delayed', EndsOf(t)) /\ Count(delayed, EndsOf(t)) = d + h
    BY <1>1, <1>2, <2>1, HeadLeaves
  <2>3. PICK e \in Nat, q \in Nat, r \in Nat :
           /\ e = ended[t] /\ q = Count(queue', EndsOf(t)) /\ Count(queue, EndsOf(t)) = q
           /\ r = Count(ready, EndsOf(t))
    BY <1>1, CountsAreNat
  <2>4. CASE ready' = Append(ready, Head(delayed)) /\ ended' = ended
    <3>1. Head(delayed) \in EndsOf(t) <=> t \in Carried(<<Head(delayed)>>)
      BY <1>1, <1>2, HeadLeaves
    <3>2. Count(ready', EndsOf(t)) = Count(ready, EndsOf(t)) + h
      BY <1>2, <1>3, <2>1, <2>4, <3>1, CountAppend
    <3>3. Count(ready', EndsOf(t)) = r + h /\ ended'[t] = e
      BY <2>3, <2>4, <3>2
    <3> QED
      BY <2>2, <2>3, <3>3
  <2>5. CASE ready' = ready /\ Call(Carried(<<Head(delayed)>>))
    <3>1. ended'[t] = ended[t] + h
      BY <2>1, <2>5, CallFields
    <3>2. Count(ready', EndsOf(t)) = r /\ ended'[t] = e + h
      BY <2>3, <2>5, <3>1
    <3> QED
      BY <2>2, <2>3, <3>2
  <2> QED
    BY <1>1, <2>4, <2>5
<1> QED
  BY <1>1, <1>4, QueuesMove

\* What neither the turns' texts nor their on_ends have to do with.
LEMMA OthersKeep ==
    ASSUME TurnInv, UNCHANGED <<turn, jobs, ttsq, worker, queue, delayed, ready, ended, lost>>
    PROVE  WorkerInv' /\ LostInv' /\ SentInv' /\ JobsInv' /\ Accounted'
<1>1. ASSUME NEW t \in Turns
      PROVE  \E e \in Nat, q \in Nat, d \in Nat, r \in Nat :
                 /\ e = ended'[t] /\ q = Count(queue', EndsOf(t)) /\ d = Count(delayed', EndsOf(t))
                 /\ r = Count(ready', EndsOf(t))
                 /\ e + q + d + r = ended[t] + Count(queue, EndsOf(t)) + Count(delayed, EndsOf(t))
                                      + Count(ready, EndsOf(t))
  BY CountsAreNat
<1> QED
  BY <1>1, QueuesMove

-----------------------------------------------------------------------------
\* The invariant

LEMMA InitTurnInv == Init => TurnInv
<1> SUFFICES ASSUME Init PROVE TurnInv
  OBVIOUS
<1>1. TypeOK
  <2>1. /\ turn \in [Turns -> {"idle", "check", "stamp", "send", "count", "drain", "stop",
                               "late", "done", "gave_up"}]
        /\ item \in [Turns -> Nat] /\ ended \in [Turns -> Nat]
        /\ caller \in [Callers -> {"idle", "post", "wait", "finish", "done"}]
    BY DEF Init
  <2>2. seq \in Nat /\ dropped \in 0 .. seq /\ gen \in Nat /\ lost \in SUBSET Turns
    BY DEF Init
  <2>3. jobs \in 0 .. Width - 1
    BY TtsAssumption, TurnCounts DEF Init
  <2>4. worker \in [pc : {"idle", "synth", "start", "sentence", "frames"},
                    text : Turns \cup {"none"}, frames : 0 .. MaxFrames, seen : Nat]
    BY TtsAssumption DEF Init, Resting
  <2>5. /\ ttsq \in Seq([text : Turns, gen : Nat])
        /\ queue \in Seq(ElemType) /\ delayed \in Seq(ElemType) /\ ready \in Seq(ElemType)
        /\ irq \in Seq(Callers) /\ Len(irq) <= 1
    BY DEF Init
  <2>6. /\ sender \in {"loop", "frame", "grace", "mark", "start"}
        /\ pend \in [set : BOOLEAN, send : BOOLEAN] /\ active \in BOOLEAN /\ wire \in BOOLEAN
    BY DEF Init, NoPend
  <2> QED
    BY <2>1, <2>2, <2>3, <2>4, <2>5, <2>6 DEF TypeOK
<1>2. WorkerInv /\ LostInv
  BY DEF Init, WorkerInv, LostInv, Resting
<1>3. Texts = 0
  BY DEF Init, Texts, Busy, Resting
<1>4. SentTurns = 0 /\ NotCounted = 0
  <2>1. Sent = {} /\ Uncounted = {}
    BY DEF Init, Sent, Early, Uncounted
  <2> QED
    BY <2>1, FS_EmptySet DEF SentTurns, NotCounted
<1>5. SentInv /\ JobsInv
  BY <1>3, <1>4 DEF Init, SentInv, JobsInv
<1>6. Accounted
  <2>1. ASSUME NEW t \in Turns PROVE Total(t) = Due(t)
    <3>1. Count(<<>>, TextsOf(t)) = 0 /\ Count(<<>>, EndsOf(t)) = 0
      BY CountEmpty
    <3>2. InWork(t) = 0 /\ ended[t] = 0
      BY TtsAssumption DEF Init, InWork, Resting
    <3>3. ttsq = <<>> /\ queue = <<>> /\ delayed = <<>> /\ ready = <<>>
      BY DEF Init
    <3>4. Due(t) = 0
      BY DEF Init, Due, Early
    <3> QED
      BY <3>1, <3>2, <3>3, <3>4 DEF Total
  <2> QED
    BY <2>1 DEF Accounted
<1> QED
  BY <1>1, <1>2, <1>5, <1>6 DEF TurnInv

LEMMA StepTurnInv == TurnInv /\ [Next]_vars => TurnInv'
<1> SUFFICES ASSUME TurnInv, [Next]_vars PROVE TurnInv'
  OBVIOUS
<1>1. ASSUME NEW t \in Turns, Speak(t) \/ Drained(t) PROVE TurnInv'
  <2>1. TypeOK'
    BY <1>1, SpeakTypes
  <2>2. WorkerInv' /\ LostInv' /\ SentInv' /\ JobsInv' /\ Accounted'
    BY <1>1, QuietTurnKeeps, SendTextKeeps, CountJobKeeps DEF Speak
  <2> QED
    BY <2>1, <2>2 DEF TurnInv
<1>2. CASE Worker
  <2>1. TypeOK'
    BY <1>2, WorkerTypes
  <2>2. WorkerInv' /\ LostInv' /\ SentInv' /\ JobsInv' /\ Accounted'
    BY <1>2, TakeStaleKeeps, TakeTextKeeps, QuietWorkerKeeps, SynthesisFailsKeeps, EnqueueEndKeeps
    DEF Worker
  <2> QED
    BY <2>1, <2>2 DEF TurnInv
<1>3. CASE Sender \/ MarkDue
  <2>1. TypeOK'
    BY <1>3, SenderTypes
  <2>2. CASE SendFrame \/ MarkActive \/ SendStart \/ SendStop
    <3>1. UNCHANGED <<turn, jobs, ttsq, worker, queue, delayed, ready, ended, lost>>
      BY <2>2 DEF SendFrame, MarkActive, SendStart, SendStop, turnVars
    <3> QED
      BY <2>1, <3>1, OthersKeep DEF TurnInv
  <2>3. CASE ~ (SendFrame \/ MarkActive \/ SendStart \/ SendStop)
    <3>1. WorkerInv' /\ LostInv' /\ SentInv' /\ JobsInv' /\ Accounted'
      BY <1>3, <2>3, PopKeeps, DispatchMarkKeeps, InterruptedKeeps, MarkDueKeeps DEF Sender
    <3> QED
      BY <2>1, <3>1 DEF TurnInv
  <2> QED
    BY <2>2, <2>3
<1>4. ASSUME NEW c \in Callers, Interrupt(c) \/ \E send \in BOOLEAN : BeginInterrupt(c, send)
      PROVE  TurnInv'
  <2>1. TypeOK'
    BY <1>4, CallerTypes
  <2>2. UNCHANGED <<turn, jobs, ttsq, worker, queue, delayed, ready, ended, lost>>
    BY <1>4 DEF Interrupt, PostInterrupt, WaitTimeout, FinishInterrupt, BeginInterrupt, turnVars,
                playVars
  <2> QED
    BY <2>1, <2>2, OthersKeep DEF TurnInv
<1>5. CASE UNCHANGED vars
  <2>1. TypeOK'
    BY <1>5 DEF TurnInv, TypeOK, vars, turnVars, playVars, stopVars
  <2>2. UNCHANGED <<turn, jobs, ttsq, worker, queue, delayed, ready, ended, lost>>
    BY <1>5 DEF vars, turnVars, playVars, stopVars
  <2> QED
    BY <2>1, <2>2, OthersKeep DEF TurnInv
<1> QED
  BY <1>1, <1>2, <1>3, <1>4, <1>5 DEF Next

-----------------------------------------------------------------------------
\* What follows

LEMMA TurnInvBalances == TurnInv => JobsBalanced
<1> SUFFICES ASSUME TurnInv PROVE JobsBalanced
  OBVIOUS
<1>1. PICK n \in Nat, w \in Nat, texts \in Nat, sent \in Nat, uncounted \in Nat, j \in Nat :
         /\ w = Width /\ texts = Texts /\ sent = SentTurns /\ uncounted = NotCounted /\ j = jobs
         /\ n = Cardinality(Turns)
         /\ JobNumbers(j, w, n, texts, sent, uncounted)
  BY TurnNumbers
<1>2. PICK m \in Nat : m = j + uncounted
  OBVIOUS
<1>3. m % w = texts
  <2>1. CASE texts - uncounted >= 0
    <3>1. m = texts /\ m < w
      BY <1>1, <1>2, <2>1 DEF JobNumbers
    <3> QED
      BY <3>1, ModBelow
  <2>2. CASE texts - uncounted < 0
    <3>1. m = texts + w /\ texts < w
      BY <1>1, <1>2, <2>2 DEF JobNumbers
    <3>2. w <= m /\ m < 2 * w
      BY <3>1
    <3>3. m % w = m - w
      BY <3>2, ModAbove
    <3> QED
      BY <3>1, <3>3
  <2> QED
    BY <2>1, <2>2
<1>4. m = jobs + Cardinality(Uncounted)
  BY <1>1, <1>2 DEF NotCounted
<1>5. texts = Len(ttsq) + Busy
  BY <1>1 DEF Texts
<1> QED
  BY <1>1, <1>3, <1>4, <1>5 DEF JobsBalanced

LEMMA TurnInvAccounts == TurnInv => OnEndAccounted
<1> SUFFICES ASSUME TurnInv, NEW t \in Turns
             PROVE  ended[t] + Places(t) =
                      IF t \in lost \/ turn[t] \in {"idle", "check", "stamp", "send"} THEN 0 ELSE 1
  BY DEF OnEndAccounted
<1>1. ASSUME NEW s \in Seq(ElemType)
      PROVE  Cardinality({i \in DOMAIN s : s[i].kind = "end" /\ s[i].text = t}) = Count(s, EndsOf(t))
  <2>1. \A i \in DOMAIN s : s[i] \in ElemType
    OBVIOUS
  <2>2. {i \in DOMAIN s : s[i].kind = "end" /\ s[i].text = t} = {i \in DOMAIN s : s[i] \in EndsOf(t)}
    BY <2>1 DEF EndsOf
  <2> QED
    BY <2>2, Zenon DEF Count
<1>2. Cardinality({i \in DOMAIN ttsq : ttsq[i].text = t}) = Count(ttsq, TextsOf(t))
  <2>1. \A i \in DOMAIN ttsq : ttsq[i] \in TextType
    BY TurnTypes
  <2>2. {i \in DOMAIN ttsq : ttsq[i].text = t} = {i \in DOMAIN ttsq : ttsq[i] \in TextsOf(t)}
    BY <2>1 DEF TextsOf
  <2> QED
    BY <2>2, Zenon DEF Count
<1>3. /\ Cardinality({i \in DOMAIN queue : queue[i].kind = "end" /\ queue[i].text = t}) = Count(queue, EndsOf(t))
      /\ Cardinality({i \in DOMAIN delayed : delayed[i].kind = "end" /\ delayed[i].text = t})
           = Count(delayed, EndsOf(t))
      /\ Cardinality({i \in DOMAIN ready : ready[i].kind = "end" /\ ready[i].text = t}) = Count(ready, EndsOf(t))
  BY <1>1, TurnTypes
<1>4. Places(t) = Count(ttsq, TextsOf(t)) + InWork(t) + Count(queue, EndsOf(t))
                    + Count(delayed, EndsOf(t)) + Count(ready, EndsOf(t))
  BY <1>2, <1>3, Zenon DEF Places, InWork
<1>5. ended[t] + Places(t) = IF t \in lost \/ turn[t] \in Early THEN 0 ELSE 1
  <2>1. PICK e \in Nat, q \in Nat, d \in Nat, r \in Nat, x \in Nat, k \in Nat :
           /\ e = ended[t] /\ x = Count(ttsq, TextsOf(t)) /\ k = InWork(t)
           /\ q = Count(queue, EndsOf(t)) /\ d = Count(delayed, EndsOf(t)) /\ r = Count(ready, EndsOf(t))
    BY CountsAreNat
  <2>2. e + x + k + q + d + r = IF t \in lost \/ turn[t] \in Early THEN 0 ELSE 1
    BY <2>1, AccountedNow
  <2>3. Places(t) = x + k + q + d + r
    BY <1>4, <2>1
  <2> QED
    BY <2>1, <2>2, <2>3
<1> QED
  BY <1>5 DEF Early

\* The on_end of every text is where it should be, the counter of jobs with it: the invariant of
\* the turns, the worker, the sender, the delay task and the callers together.
THEOREM TurnInvariant == Spec => []TurnInv
  BY InitTurnInv, StepTurnInv, PTL DEF Spec

\* TurnsAreAccounted: whatever interrupts the turns of a session, and however the worker, the sender
\* and the delay task interleave with them, no interrupt stays pending, pending_tts_jobs counts the
\* texts, and each text's on_end is on its way, called once, or lost with its synthesis.
THEOREM TurnsAccounted == DialogueSpec => []TurnsAreAccounted
<1> DEFINE Inv == part = "turns" => IInv /\ TurnInv
<1>1. DialogueInit => Inv
  BY InitIInv, InitTurnInv DEF DialogueInit
<1>2. Inv /\ [DialogueNext]_dialogueVars => Inv'
  <2> SUFFICES ASSUME Inv, [DialogueNext]_dialogueVars, part' = "turns" PROVE IInv' /\ TurnInv'
    OBVIOUS
  <2>1. part = "turns" /\ [Next]_vars
    BY DEF DialogueNext, dialogueVars
  <2> QED
    BY <2>1, StepIInv, StepTurnInv
<1>3. Inv => TurnsAreAccounted
  BY TurnInvBalances, TurnInvAccounts DEF IInv, TurnsAreAccounted
<1> QED
  BY <1>1, <1>2, <1>3, PTL DEF DialogueSpec

-----------------------------------------------------------------------------
\* The listening of a session

StateRecords == [phase : {"idle", "listening", "processing", "speaking"},
                 mode : {"auto", "realtime"}, playing : BOOLEAN, spoken : BOOLEAN,
                 clock : {"off", "runs", "paused"}, pending : BOOLEAN, later : {"none", "auto"}]
PipeRecords == [open : BOOLEAN, stop : BOOLEAN, marked : BOOLEAN]
EarRecords == [pc : {"off", "await", "top", "lock"}, current : BOOLEAN,
               rec : {"none", "open", "heard"} \cup Ended,
               empty : 0 .. MaxEmpty - 1, waits : 0 .. MaxWaits - 1]
OutRecords == [speech : {"none", "due", "plays", "cut"}, tasks : [TaskNames -> 0 .. MaxSpawned],
               queued : 0 .. JobCap, busy : BOOLEAN]
PriorRecords == [detect : BOOLEAN, pre : BOOLEAN]

FlowTypes ==
    /\ state \in StateRecords /\ pipe \in PipeRecords /\ live \in BOOLEAN
    /\ ear \in EarRecords /\ stale \in BOOLEAN
    /\ out \in OutRecords /\ prior \in PriorRecords

\* A greeting that plays is being said, or its end is about to be told; who greeted remembers.
GreetingEnds == state.playing => /\ state.spoken
                                 /\ out.speech # "none" \/ out.tasks["idle"] > 0

\* A session that speaks has speech that plays, or its end is about to be told.
SpeakingEnds == state.phase = "speaking" => Sounds \/ out.tasks["idle"] > 0

\* Speech that plays in a session that listens or processes on its own has the task that
\* takes the session into Speaking.
PlayingIsFollowed ==
    (out.speech = "plays" /\ state.phase \in {"listening", "processing"} /\ state.mode = "auto")
        => out.tasks["speaking"] > 0

\* A listen start that was put off waits for the end of some speech.
PutOffWaits ==
    state.later # "none" => out.speech # "none" \/ out.tasks["idle"] > 0 \/ out.tasks["resume"] > 0

\* A realtime listening that is held has its loop, and the loop its listen start; only a
\* realtime loop loses its start and goes on.
HeldHasLoop == live => state.mode = "realtime" /\ ear.pc # "off" /\ ear.current
OwnStart == (ear.pc # "off" /\ ~ ear.current) => state.mode = "realtime"

\* A session that listens on its own has its loop, or what the loop heard is on its way.
AutoHasLoop ==
    (state.phase = "listening" /\ state.mode = "auto" /\ ear.pc = "off")
        => out.queued > 0 \/ out.busy \/ out.speech # "none" \/ out.tasks["speaking"] > 0

\* Who waits for no outcome has none, and a recognition that gave no text is not marked.
OpenIsUnmarked == ear.rec = "open" => ear.pc = "await" /\ ~ pipe.marked

\* The clock of a session that listens was started, and stands still only while something heard
\* is on its way.
ClockRuns ==
    (/\ state.phase = "listening" /\ ~ state.spoken /\ state.clock # "runs"
     /\ ear.rec = "open" \/ ear.pc \in {"top", "lock"})
        => \/ out.queued > 0 \/ out.busy \/ out.speech # "none"
           \/ out.tasks["speaking"] > 0 \/ out.tasks["window"] > 0

ClockIsSet == state.phase = "listening" => state.clock # "off"

FlowGoes ==
    /\ GreetingEnds /\ SpeakingEnds /\ PlayingIsFollowed /\ PutOffWaits
    /\ HeldHasLoop /\ OwnStart /\ AutoHasLoop /\ OpenIsUnmarked /\ ClockRuns
    /\ ClockIsSet

ListenInv == FlowTypes /\ (odd = {} => FlowGoes)

\* The records that steps make, and what their fields are.
LEMMA NoLoopIsEar == NoLoop \in EarRecords /\ NoLoop.pc = "off" /\ NoLoop.rec = "none"
                     /\ NoLoop.current = FALSE
<1>1. 0 \in 0 .. MaxEmpty - 1 /\ 0 \in 0 .. MaxWaits - 1
  BY ListenAssumption
<1> QED
  BY <1>1 DEF NoLoop, EarRecords

LEMMA TaskLess ==
    ASSUME NEW o \in OutRecords, NEW k \in TaskNames, o.tasks[k] > 0,
           NEW p, p = [o EXCEPT !.tasks[k] = @ - 1]
    PROVE  /\ p \in OutRecords
           /\ p.speech = o.speech /\ p.queued = o.queued /\ p.busy = o.busy
           /\ p.tasks[k] = o.tasks[k] - 1
           /\ \A j \in TaskNames \ {k} : p.tasks[j] = o.tasks[j]
<1>1. p = [speech |-> o.speech, tasks |-> [o.tasks EXCEPT ![k] = @ - 1], queued |-> o.queued,
           busy |-> o.busy]
  BY DEF OutRecords
<1>2. o.tasks[k] - 1 \in 0 .. MaxSpawned
  BY ListenAssumption DEF OutRecords
<1>3. [o.tasks EXCEPT ![k] = @ - 1] \in [TaskNames -> 0 .. MaxSpawned]
  BY <1>2 DEF OutRecords
<1> QED
  BY <1>1, <1>3 DEF OutRecords

LEMMA TaskMore ==
    ASSUME NEW o \in OutRecords, NEW k \in TaskNames, o.tasks[k] < MaxSpawned
    PROVE  /\ Plus(o, k) \in OutRecords
           /\ Plus(o, k).speech = o.speech /\ Plus(o, k).queued = o.queued
           /\ Plus(o, k).busy = o.busy
           /\ Plus(o, k).tasks[k] = o.tasks[k] + 1
           /\ \A j \in TaskNames \ {k} : Plus(o, k).tasks[j] = o.tasks[j]
<1>1. Plus(o, k) = [speech |-> o.speech, tasks |-> [o.tasks EXCEPT ![k] = @ + 1],
                    queued |-> o.queued, busy |-> o.busy]
  BY DEF OutRecords, Plus
<1>2. o.tasks[k] + 1 \in 0 .. MaxSpawned
  BY ListenAssumption DEF OutRecords
<1>3. [o.tasks EXCEPT ![k] = @ + 1] \in [TaskNames -> 0 .. MaxSpawned]
  BY <1>2 DEF OutRecords
<1> QED
  BY <1>1, <1>3 DEF OutRecords

LEMMA SpeechSet ==
    ASSUME NEW o \in OutRecords, NEW x \in {"none", "due", "plays", "cut"},
           NEW p, p = [o EXCEPT !.speech = x]
    PROVE  /\ p \in OutRecords
           /\ p.speech = x /\ p.queued = o.queued /\ p.busy = o.busy /\ p.tasks = o.tasks
  BY DEF OutRecords

LEMMA InterruptedOut ==
    ASSUME NEW o \in OutRecords, o.tasks["idle"] = 0, o.tasks["window"] = 0
    PROVE  LET i == FlowInterrupted(o) IN
           /\ i \in OutRecords
           /\ i.speech = "none" /\ i.queued = o.queued /\ i.busy = o.busy
           /\ i.tasks["window"] = 1
           /\ i.tasks["idle"] = IF Sounds THEN 1 ELSE 0
           /\ i.tasks["speaking"] = o.tasks["speaking"] /\ i.tasks["resume"] = o.tasks["resume"]
<1> DEFINE w == Plus(o, "window")
<1>1. MaxSpawned \in Nat /\ MaxSpawned >= 1 /\ "window" \in TaskNames /\ "idle" \in TaskNames
      /\ "speaking" \in TaskNames /\ "resume" \in TaskNames
  BY ListenAssumption DEF TaskNames
<1>2. /\ w \in OutRecords /\ w.queued = o.queued /\ w.busy = o.busy
      /\ w.tasks["window"] = 1 /\ w.tasks["idle"] = 0
      /\ w.tasks["speaking"] = o.tasks["speaking"] /\ w.tasks["resume"] = o.tasks["resume"]
  BY <1>1, TaskMore
<1> HIDE DEF w
<1>3. CASE Sounds
  <2> DEFINE v == Plus(w, "idle")
  <2>1. /\ v \in OutRecords /\ v.queued = o.queued /\ v.busy = o.busy
        /\ v.tasks["window"] = 1 /\ v.tasks["idle"] = 1
        /\ v.tasks["speaking"] = o.tasks["speaking"] /\ v.tasks["resume"] = o.tasks["resume"]
    BY <1>1, <1>2, TaskMore
  <2>2. FlowInterrupted(o) = [v EXCEPT !.speech = "none"]
    BY <1>3 DEF FlowInterrupted, w
  <2> HIDE DEF v
  <2> QED
    BY <1>3, <2>1, <2>2, SpeechSet
<1>4. CASE ~ Sounds
  <2>1. FlowInterrupted(o) = [w EXCEPT !.speech = "none"]
    BY <1>4 DEF FlowInterrupted, w
  <2> QED
    BY <1>2, <1>4, <2>1, SpeechSet
<1> QED
  BY <1>3, <1>4

\* What the queue may take changes nothing else.
LEMMA EnqueuedOut ==
    ASSUME NEW o \in OutRecords
    PROVE  /\ Enqueued(o) \in OutRecords
           /\ Enqueued(o).speech = o.speech /\ Enqueued(o).tasks = o.tasks
           /\ Enqueued(o).busy = o.busy /\ Enqueued(o).queued > 0
  BY ListenAssumption DEF Enqueued, OutRecords

\* The loop goes on with other counts.
LEMMA AgainEar ==
    ASSUME ear \in EarRecords, NEW e \in 0 .. MaxEmpty - 1, NEW w \in 0 .. MaxWaits - 1,
           Again(e, w)
    PROVE  /\ ear' \in EarRecords /\ ear'.pc = "top"
           /\ ear'.current = ear.current /\ ear'.rec = ear.rec /\ stale' = stale
<1>1. ear' = [pc |-> "top", current |-> ear.current, rec |-> ear.rec, empty |-> e, waits |-> w]
  BY DEF Again, EarRecords
<1> QED
  BY <1>1 DEF EarRecords, Again

\* A recovery falls idle, with a hint to say.
LEMMA RecoveryOut ==
    ASSUME FlowTypes, NEW cut \in BOOLEAN, Recovery(cut)
    PROVE  /\ state' \in StateRecords /\ state'.phase = "idle" /\ state'.mode = state.mode
           /\ state'.playing = state.playing /\ state'.spoken = state.spoken
           /\ state'.later = state.later
           /\ pipe' \in PipeRecords /\ ear' = NoLoop /\ stale' \in BOOLEAN
           /\ out' \in OutRecords /\ out'.tasks = out.tasks /\ out'.speech # "none"
           /\ odd' = {} => odd = {} /\ ~ live
<1>1. /\ state' \in StateRecords /\ state'.phase = "idle" /\ state'.mode = state.mode
      /\ state'.playing = state.playing /\ state'.spoken = state.spoken
      /\ state'.later = state.later
  BY DEF Recovery, FlowTypes, StateRecords
<1>2. pipe' \in PipeRecords /\ stale' \in BOOLEAN
  BY DEF Recovery, FlowTypes, PipeRecords, Left
<1>3. \E x \in {"due", "plays", "cut"} :
         out' = [speech |-> x, tasks |-> out.tasks, queued |-> out.queued, busy |-> FALSE]
  <2>1. \E x \in {"due", "plays", "cut"} : out' = [out EXCEPT !.speech = x, !.busy = FALSE]
    BY DEF Recovery, FlowTypes, OutRecords
  <2> QED
    BY <2>1 DEF FlowTypes, OutRecords
<1>4. out' \in OutRecords /\ out'.tasks = out.tasks /\ out'.speech # "none"
  BY <1>3 DEF FlowTypes, OutRecords
<1> QED
  BY <1>1, <1>2, <1>4 DEF Recovery, Odd

\* An answer is spoken, or there is none and the session recovers.
LEMMA AnswerInv == ASSUME FlowTypes, Answer PROVE FlowTypes' /\ (FlowGoes /\ odd' = {} => FlowGoes')
<1>1. CASE Recovery(FALSE) /\ ~ Sounds /\ UNCHANGED <<live, prior, watchdog>>
  <2>1. FlowTypes'
    BY <1>1, RecoveryOut, NoLoopIsEar DEF FlowTypes
  <2>2. ASSUME FlowGoes, odd' = {} PROVE FlowGoes'
    BY <1>1, <2>2, RecoveryOut, NoLoopIsEar
       DEF FlowGoes, GreetingEnds, SpeakingEnds, PlayingIsFollowed, PutOffWaits, HeldHasLoop,
           OwnStart, AutoHasLoop, OpenIsUnmarked, ClockRuns, ClockIsSet, Sounds
  <2> QED
    BY <2>1, <2>2
<1>2. CASE /\ out' = [out EXCEPT !.busy = FALSE, !.speech = IF @ = "none" THEN "due" ELSE @]
           /\ UNCHANGED <<state, pipe, ear, stale, odd, live, prior, watchdog>>
  <2>1. \E x \in {"due", "plays", "cut"} :
           /\ out' = [speech |-> x, tasks |-> out.tasks, queued |-> out.queued, busy |-> FALSE]
           /\ out.speech # "none" => x = out.speech
           /\ out.speech = "none" => x = "due"
    BY <1>2 DEF FlowTypes, OutRecords
  <2>2. FlowTypes'
    BY <1>2, <2>1 DEF FlowTypes, OutRecords
  <2>3. ASSUME FlowGoes PROVE FlowGoes'
    BY <1>2, <2>1, <2>3
       DEF FlowGoes, GreetingEnds, SpeakingEnds, PlayingIsFollowed, PutOffWaits, HeldHasLoop,
           OwnStart, AutoHasLoop, OpenIsUnmarked, ClockRuns, ClockIsSet, Sounds
  <2> QED
    BY <2>2, <2>3
<1> QED
  BY <1>1, <1>2 DEF Answer

\* The queue of texts is worked off.
LEMMA JobInv == ASSUME FlowTypes, Job PROVE FlowTypes' /\ (FlowGoes /\ odd' = {} => FlowGoes')
<1>1. out' = [speech |-> out.speech, tasks |-> out.tasks, queued |-> out.queued - 1, busy |-> TRUE]
  BY DEF Job, FlowTypes, OutRecords
<1>2. out' \in OutRecords
  <2>1. out.queued - 1 \in 0 .. JobCap
    BY ListenAssumption DEF Job, FlowTypes, OutRecords
  <2> QED
    BY <1>1, <2>1 DEF FlowTypes, OutRecords
<1>3. state' \in StateRecords /\ state'.phase \in {state.phase, "processing"}
      /\ (state'.phase # state.phase => state.phase = "listening")
      /\ \A f \in {"mode", "playing", "spoken", "clock", "later"} : state'[f] = state[f]
  BY DEF Job, FlowTypes, StateRecords
<1>4. FlowTypes'
  BY <1>2, <1>3 DEF Job, FlowTypes
<1>5. ASSUME FlowGoes PROVE FlowGoes'
  BY <1>1, <1>3, <1>5
     DEF Job, FlowGoes, GreetingEnds, SpeakingEnds, PlayingIsFollowed, PutOffWaits, HeldHasLoop,
         OwnStart, AutoHasLoop, OpenIsUnmarked, ClockRuns, ClockIsSet, Sounds
<1> QED
  BY <1>4, <1>5

\* Speech begins to play and leaves its task.
LEMMA SpeaksInv == ASSUME FlowTypes, Speaks PROVE FlowTypes' /\ (FlowGoes /\ odd' = {} => FlowGoes')
<1>1. out' = [Plus(out, "speaking") EXCEPT !.speech = "plays"]
  BY DEF Speaks
<1>2. /\ Plus(out, "speaking") \in OutRecords
      /\ Plus(out, "speaking").queued = out.queued /\ Plus(out, "speaking").busy = out.busy
      /\ Plus(out, "speaking").tasks["speaking"] > 0
      /\ \A j \in TaskNames \ {"speaking"} : Plus(out, "speaking").tasks[j] = out.tasks[j]
  BY TaskMore, ListenAssumption DEF Speaks, Room, FlowTypes, OutRecords, TaskNames
<1>3. /\ out' \in OutRecords /\ out'.speech = "plays"
      /\ out'.queued = out.queued /\ out'.busy = out.busy
      /\ out'.tasks["speaking"] > 0
      /\ \A j \in TaskNames \ {"speaking"} : out'.tasks[j] = out.tasks[j]
  BY <1>1, <1>2, SpeechSet
<1>4. FlowTypes'
  BY <1>3 DEF Speaks, FlowTypes
<1>5. ASSUME FlowGoes PROVE FlowGoes'
  BY <1>3, <1>5
     DEF Speaks, FlowGoes, GreetingEnds, SpeakingEnds, PlayingIsFollowed, PutOffWaits, HeldHasLoop,
         OwnStart, AutoHasLoop, OpenIsUnmarked, ClockRuns, ClockIsSet, Sounds, TaskNames
<1> QED
  BY <1>4, <1>5

\* Speech ends, and leaves the tasks that tell of it.
LEMMA SpeechEndsInv ==
    ASSUME FlowTypes, SpeechEnds PROVE FlowTypes' /\ (FlowGoes /\ odd' = {} => FlowGoes')
<1>1. out \in OutRecords /\ out.tasks["idle"] = 0 /\ out.tasks["window"] = 0 /\ Sounds
  BY DEF SpeechEnds, Room, FlowTypes, Sounds
<1>2. /\ out' \in OutRecords /\ out'.speech = "none"
      /\ out'.queued = out.queued /\ out'.busy = out.busy
      /\ out'.tasks["window"] = 1 /\ out'.tasks["idle"] = 1
      /\ out'.tasks["speaking"] = out.tasks["speaking"]
      /\ out'.tasks["resume"] = out.tasks["resume"]
  BY <1>1, InterruptedOut DEF SpeechEnds
<1>3. FlowTypes'
  BY <1>2 DEF SpeechEnds, FlowTypes
<1>4. ASSUME FlowGoes PROVE FlowGoes'
  BY <1>2, <1>4
     DEF SpeechEnds, FlowGoes, GreetingEnds, SpeakingEnds, PlayingIsFollowed, PutOffWaits,
         HeldHasLoop, OwnStart, AutoHasLoop, OpenIsUnmarked, ClockRuns, ClockIsSet, Sounds
<1> QED
  BY <1>3, <1>4

\* The tasks that speech leaves, each with what it does to the session.
LEMMA TaskSpeakingInv ==
    ASSUME FlowTypes, TaskSpeaking PROVE FlowTypes' /\ (FlowGoes /\ odd' = {} => FlowGoes')
<1>1. /\ out' \in OutRecords
      /\ out'.speech = out.speech /\ out'.queued = out.queued /\ out'.busy = out.busy
      /\ \A j \in TaskNames \ {"speaking"} : out'.tasks[j] = out.tasks[j]
  <2>0. out' = [out EXCEPT !.tasks["speaking"] = @ - 1]
    BY DEF TaskSpeaking
  <2>1. out \in OutRecords /\ "speaking" \in TaskNames /\ out.tasks["speaking"] > 0
    BY DEF TaskSpeaking, Runs, FlowTypes, TaskNames
  <2> QED
    BY <2>0, <2>1, TaskLess
<1>2. /\ state' \in StateRecords /\ state'.phase = "speaking"
      /\ \A f \in {"mode", "playing", "spoken", "later"} : state'[f] = state[f]
  BY DEF TaskSpeaking, Paused, FlowTypes, StateRecords
<1>3. FlowTypes'
  BY <1>1, <1>2 DEF TaskSpeaking, FlowTypes
<1>4. ASSUME FlowGoes, odd' = {} PROVE FlowGoes'
  BY <1>1, <1>2, <1>4
     DEF TaskSpeaking, Odd, FlowGoes, GreetingEnds, SpeakingEnds, PlayingIsFollowed, PutOffWaits,
         HeldHasLoop, OwnStart, AutoHasLoop, OpenIsUnmarked, ClockRuns, ClockIsSet, Sounds,
         TaskNames
<1> QED
  BY <1>3, <1>4

LEMMA TaskIdleInv ==
    ASSUME FlowTypes, TaskIdle PROVE FlowTypes' /\ (FlowGoes /\ odd' = {} => FlowGoes')
<1>1. /\ Plus(out, "resume") \in OutRecords
      /\ Plus(out, "resume").speech = out.speech /\ Plus(out, "resume").queued = out.queued
      /\ Plus(out, "resume").busy = out.busy
      /\ Plus(out, "resume").tasks["resume"] > 0
      /\ \A j \in TaskNames \ {"resume"} : Plus(out, "resume").tasks[j] = out.tasks[j]
  BY TaskMore DEF TaskIdle, FlowTypes, TaskNames, OutRecords
<1>2. /\ out' \in OutRecords
      /\ out'.speech = out.speech /\ out'.queued = out.queued /\ out'.busy = out.busy
      /\ out'.tasks["resume"] > 0
      /\ \A j \in {"speaking", "window"} : out'.tasks[j] = out.tasks[j]
  BY <1>1, TaskLess DEF TaskIdle, Runs, TaskNames
<1>3. /\ state' \in StateRecords /\ state'.playing = FALSE
      /\ state'.phase = IF state.phase = "speaking" THEN "idle" ELSE state.phase
      /\ \A f \in {"mode", "spoken", "clock", "later"} : state'[f] = state[f]
  BY DEF TaskIdle, FlowTypes, StateRecords
<1>4. FlowTypes'
  BY <1>2, <1>3 DEF TaskIdle, FlowTypes
<1>5. ASSUME FlowGoes PROVE FlowGoes'
  BY <1>2, <1>3, <1>5
     DEF TaskIdle, FlowGoes, GreetingEnds, SpeakingEnds, PlayingIsFollowed, PutOffWaits,
         HeldHasLoop, OwnStart, AutoHasLoop, OpenIsUnmarked, ClockRuns, ClockIsSet, Sounds,
         FlowTypes, StateRecords
<1> QED
  BY <1>4, <1>5

LEMMA TaskWindowInv ==
    ASSUME FlowTypes, TaskWindow PROVE FlowTypes' /\ (FlowGoes /\ odd' = {} => FlowGoes')
<1>1. /\ out' \in OutRecords
      /\ out'.speech = out.speech /\ out'.queued = out.queued /\ out'.busy = out.busy
      /\ \A j \in TaskNames \ {"window"} : out'.tasks[j] = out.tasks[j]
  <2>1. out \in OutRecords /\ "window" \in TaskNames /\ out.tasks["window"] > 0
    BY DEF TaskWindow, Runs, FlowTypes, TaskNames
  <2> QED
    BY <2>1, TaskLess DEF TaskWindow
<1>2. /\ state' = [state EXCEPT !.clock = "runs", !.pending = FALSE]
      /\ pipe' = [pipe EXCEPT !.stop = FALSE]
  BY DEF TaskWindow, Window
<1>3. /\ state' \in StateRecords /\ state'.clock = "runs"
      /\ \A f \in {"mode", "playing", "spoken", "phase", "later"} : state'[f] = state[f]
      /\ pipe' \in PipeRecords /\ pipe'.marked = pipe.marked
  BY <1>2 DEF FlowTypes, StateRecords, PipeRecords
<1>4. FlowTypes'
  BY <1>1, <1>3 DEF TaskWindow, FlowTypes
<1>5. ASSUME FlowGoes PROVE FlowGoes'
  BY <1>1, <1>3, <1>5
     DEF TaskWindow, FlowGoes, GreetingEnds, SpeakingEnds, PlayingIsFollowed, PutOffWaits,
         HeldHasLoop, OwnStart, AutoHasLoop, OpenIsUnmarked, ClockRuns, ClockIsSet, Sounds,
         TaskNames
<1> QED
  BY <1>4, <1>5

\* Recognised text is queued; a realtime loop goes on, another leaves.
LEMMA LoopTextInv ==
    ASSUME FlowTypes, LoopText PROVE FlowTypes' /\ (FlowGoes /\ odd' = {} => FlowGoes')
<1>1. /\ out' \in OutRecords /\ out'.speech = out.speech /\ out'.tasks = out.tasks
      /\ out'.queued > 0
  BY EnqueuedOut DEF LoopText, FlowTypes
<1>2. UNCHANGED <<state, pipe, live, prior, stale>> /\ ear.current /\ (odd' = {} => odd = {})
  BY DEF LoopText, LoopGot, Leaves, Odd
<1>3. CASE state.mode = "realtime"
  <2>1. ear' = [pc |-> "top", current |-> ear.current, rec |-> ear.rec, empty |-> 0, waits |-> 0]
    BY <1>3 DEF LoopText, FlowTypes, EarRecords
  <2>2. ear' \in EarRecords /\ ear'.pc = "top" /\ ear'.current = ear.current /\ ear'.rec = "text"
    BY <2>1, ListenAssumption DEF FlowTypes, EarRecords, LoopText, LoopGot
  <2>3. FlowTypes'
    BY <1>1, <1>2, <2>2 DEF FlowTypes
  <2>4. ASSUME FlowGoes, odd' = {} PROVE FlowGoes'
    BY <1>1, <1>2, <2>2, <2>4
       DEF FlowGoes, GreetingEnds, SpeakingEnds, PlayingIsFollowed, PutOffWaits, HeldHasLoop,
           OwnStart, AutoHasLoop, OpenIsUnmarked, ClockRuns, ClockIsSet, Sounds
  <2> QED
    BY <2>3, <2>4
<1>4. CASE state.mode # "realtime"
  <2>1. ear' = NoLoop
    BY <1>4 DEF LoopText, Leaves
  <2>2. FlowTypes'
    BY <1>1, <1>2, <2>1, NoLoopIsEar DEF FlowTypes
  <2>3. ASSUME FlowGoes, odd' = {} PROVE FlowGoes'
    BY <1>1, <1>2, <1>4, <2>1, <2>3, NoLoopIsEar
       DEF FlowGoes, GreetingEnds, SpeakingEnds, PlayingIsFollowed, PutOffWaits, HeldHasLoop,
           OwnStart, AutoHasLoop, OpenIsUnmarked, ClockRuns, ClockIsSet, Sounds
  <2> QED
    BY <2>2, <2>3
<1> QED
  BY <1>3, <1>4

\* What a loop that gives up comes to: it is not over a greeting.
LEMMA GivesUpInv ==
    ASSUME FlowTypes, ~ state.playing, GivesUp, UNCHANGED <<live, prior>>
    PROVE  FlowTypes' /\ (FlowGoes /\ odd' = {} => FlowGoes')
<1>1. Recovery(TRUE)
  BY DEF GivesUp
<1>2. FlowTypes'
  BY <1>1, RecoveryOut, NoLoopIsEar DEF FlowTypes
<1>3. ASSUME FlowGoes, odd' = {} PROVE FlowGoes'
  BY <1>1, <1>3, RecoveryOut, NoLoopIsEar
     DEF FlowGoes, GreetingEnds, SpeakingEnds, PlayingIsFollowed, PutOffWaits, HeldHasLoop,
         OwnStart, AutoHasLoop, OpenIsUnmarked, ClockRuns, ClockIsSet, Sounds
<1> QED
  BY <1>2, <1>3

\* A recognition without text: the loop goes on, or has had enough of them.
LEMMA LoopEmptyInv ==
    ASSUME FlowTypes, LoopEmpty PROVE FlowTypes' /\ (FlowGoes /\ odd' = {} => FlowGoes')
<1>1. /\ ear \in EarRecords /\ ear.empty \in 0 .. MaxEmpty - 1 /\ ear.waits \in 0 .. MaxWaits - 1
      /\ {MaxEmpty, MaxWaits} \subseteq Nat \ {0}
      /\ UNCHANGED <<live, prior, watchdog>>
      /\ ear.pc = "await" /\ ear.rec \in {"empty", "error"} /\ ear.current
  BY ListenAssumption DEF FlowTypes, EarRecords, LoopEmpty, LoopGot
<1>2. CASE state.playing /\ Again(ear.empty, 0) /\ UNCHANGED <<state, pipe, out, odd>>
  <2>1. /\ ear' \in EarRecords /\ ear'.pc = "top" /\ ear'.current = ear.current
        /\ ear'.rec = ear.rec /\ stale' = stale
    <3>1. ear.empty \in 0 .. MaxEmpty - 1 /\ 0 \in 0 .. MaxWaits - 1
      BY <1>1
    <3> QED
      BY <1>1, <1>2, <3>1, AgainEar
  <2>2. FlowTypes'
    BY <1>1, <1>2, <2>1 DEF FlowTypes
  <2>3. ASSUME FlowGoes PROVE FlowGoes'
    BY <1>1, <1>2, <2>1, <2>3
       DEF FlowGoes, GreetingEnds, SpeakingEnds, PlayingIsFollowed, PutOffWaits, HeldHasLoop,
           OwnStart, AutoHasLoop, OpenIsUnmarked, ClockRuns, ClockIsSet, Sounds
  <2> QED
    BY <2>2, <2>3
<1>3. ASSUME NEW n \in {ear.empty + 1, 1}, n < MaxEmpty, ~ state.playing, Allowed, Again(n, 0),
             pipe' = [pipe EXCEPT !.stop = FALSE], state' = Resumed(state), UNCHANGED <<out, odd>>
      PROVE  FlowTypes' /\ (FlowGoes /\ odd' = {} => FlowGoes')
  <2>1. /\ ear' \in EarRecords /\ ear'.pc = "top" /\ ear'.current = ear.current
        /\ ear'.rec = ear.rec /\ stale' = stale
    <3>1. n \in 0 .. MaxEmpty - 1 /\ 0 \in 0 .. MaxWaits - 1
      BY <1>1, <1>3
    <3> QED
      BY <1>1, <1>3, <3>1, AgainEar
  <2>2. /\ state' \in StateRecords /\ (state.clock = "paused" => state'.clock = "runs")
        /\ (state.clock # "paused" => state'.clock = state.clock)
        /\ \A f \in {"mode", "playing", "spoken", "phase", "later"} : state'[f] = state[f]
        /\ pipe' \in PipeRecords /\ pipe'.marked = pipe.marked
    BY <1>3 DEF Resumed, FlowTypes, StateRecords, PipeRecords
  <2>3. FlowTypes'
    BY <1>1, <1>3, <2>1, <2>2 DEF FlowTypes
  <2>4. ASSUME FlowGoes PROVE FlowGoes'
    BY <1>1, <1>3, <2>1, <2>2, <2>4
       DEF FlowGoes, GreetingEnds, SpeakingEnds, PlayingIsFollowed, PutOffWaits, HeldHasLoop,
           OwnStart, AutoHasLoop, OpenIsUnmarked, ClockRuns, ClockIsSet, Sounds, FlowTypes,
           StateRecords
  <2> QED
    BY <2>3, <2>4
<1>4. ASSUME NEW n \in {ear.empty + 1, 1}, n < MaxEmpty, ~ state.playing, ~ Allowed,
             ear.waits + 1 < MaxWaits, Again(n, ear.waits + 1), UNCHANGED <<state, pipe, out, odd>>
      PROVE  FlowTypes' /\ (FlowGoes /\ odd' = {} => FlowGoes')
  <2>1. /\ ear' \in EarRecords /\ ear'.pc = "top" /\ ear'.current = ear.current
        /\ ear'.rec = ear.rec /\ stale' = stale
    <3>1. n \in 0 .. MaxEmpty - 1 /\ ear.waits + 1 \in 0 .. MaxWaits - 1
      BY <1>1, <1>4
    <3> QED
      BY <1>1, <1>4, <3>1, AgainEar
  <2>2. state.phase # "listening"
    BY <1>4 DEF Allowed
  <2>3. FlowTypes'
    BY <1>1, <1>4, <2>1 DEF FlowTypes
  <2>4. ASSUME FlowGoes PROVE FlowGoes'
    BY <1>1, <1>4, <2>1, <2>2, <2>4
       DEF FlowGoes, GreetingEnds, SpeakingEnds, PlayingIsFollowed, PutOffWaits, HeldHasLoop,
           OwnStart, AutoHasLoop, OpenIsUnmarked, ClockRuns, ClockIsSet, Sounds
  <2> QED
    BY <2>3, <2>4
<1> QED
  BY <1>1, <1>2, <1>3, <1>4, GivesUpInv DEF LoopEmpty

LEMMA LoopGivesUpInv ==
    ASSUME FlowTypes, LoopGivesUp PROVE FlowTypes' /\ (FlowGoes /\ odd' = {} => FlowGoes')
<1>1. CASE GivesUp
  BY <1>1, GivesUpInv DEF LoopGivesUp
<1>2. CASE UNCHANGED <<state, pipe, ear, stale, out, odd>>
  BY <1>2
     DEF LoopGivesUp, FlowTypes, FlowGoes, GreetingEnds, SpeakingEnds, PlayingIsFollowed,
         PutOffWaits, HeldHasLoop, OwnStart, AutoHasLoop, OpenIsUnmarked, ClockRuns, ClockIsSet,
         Sounds
<1> QED
  BY <1>1, <1>2 DEF LoopGivesUp

\* What only the audio, the buffers and the marks hear of.
LEMMA AudioInv ==
    ASSUME FlowTypes, Audio PROVE FlowTypes' /\ (FlowGoes /\ odd' = {} => FlowGoes')
<1>1. prior' \in PriorRecords
  BY DEF FlowTypes, Audio, PriorRecords
<1>2. FlowTypes'
  BY <1>1 DEF FlowTypes, Audio
<1>3. ASSUME FlowGoes, odd' = {} PROVE FlowGoes'
  BY <1>1, <1>3
     DEF Audio, FlowTypes, PriorRecords, FlowGoes, GreetingEnds, SpeakingEnds, PlayingIsFollowed,
         PutOffWaits, HeldHasLoop, OwnStart, AutoHasLoop, OpenIsUnmarked, ClockRuns, ClockIsSet,
         Sounds
<1> QED
  BY <1>2, <1>3

LEMMA SilenceInv ==
    ASSUME FlowTypes, Silence PROVE FlowTypes' /\ (FlowGoes /\ odd' = {} => FlowGoes')
<1>1. pipe' \in PipeRecords
  BY DEF FlowTypes, Silence, PipeRecords, Silenced
<1>2. FlowTypes'
  BY <1>1 DEF FlowTypes, Silence, Silenced
<1>3. ASSUME FlowGoes, odd' = {} PROVE FlowGoes'
  BY <1>1, <1>3
     DEF Silence, Silenced, FlowTypes, PipeRecords, FlowGoes, GreetingEnds, SpeakingEnds,
         PlayingIsFollowed, PutOffWaits, HeldHasLoop, OwnStart, AutoHasLoop, OpenIsUnmarked,
         ClockRuns, ClockIsSet, Sounds
<1> QED
  BY <1>2, <1>3

LEMMA ListenFailsInv ==
    ASSUME FlowTypes, ListenFails PROVE FlowTypes' /\ (FlowGoes /\ odd' = {} => FlowGoes')
<1>1. FlowTypes'
  BY DEF FlowTypes, ListenFails, Closes
<1>2. ASSUME FlowGoes, odd' = {} PROVE FlowGoes'
  BY <1>2
     DEF ListenFails, Closes, FlowTypes, FlowGoes, GreetingEnds, SpeakingEnds, PlayingIsFollowed,
         PutOffWaits, HeldHasLoop, OwnStart, AutoHasLoop, OpenIsUnmarked, ClockRuns, ClockIsSet,
         Sounds
<1> QED
  BY <1>1, <1>2

LEMMA ListenStopInv ==
    ASSUME FlowTypes, ListenStop PROVE FlowTypes' /\ (FlowGoes /\ odd' = {} => FlowGoes')
<1>1. ear' \in EarRecords
  BY DEF FlowTypes, ListenStop, EarRecords, Silenced
<1>2. pipe' \in PipeRecords
  BY DEF FlowTypes, ListenStop, PipeRecords, Silenced
<1>3. FlowTypes'
  BY <1>1, <1>2 DEF FlowTypes, ListenStop, Silenced
<1>4. ASSUME FlowGoes, odd' = {} PROVE FlowGoes'
  BY <1>1, <1>2, <1>4
     DEF ListenStop, Silenced, FlowTypes, EarRecords, PipeRecords, FlowGoes, GreetingEnds,
         SpeakingEnds, PlayingIsFollowed, PutOffWaits, HeldHasLoop, OwnStart, AutoHasLoop,
         OpenIsUnmarked, ClockRuns, ClockIsSet, Sounds
<1> QED
  BY <1>3, <1>4

LEMMA FirstTextInv ==
    ASSUME FlowTypes, FirstText PROVE FlowTypes' /\ (FlowGoes /\ odd' = {} => FlowGoes')
<1>1. ear' \in EarRecords
  BY DEF FlowTypes, FirstText, EarRecords, Paused, Ended
<1>2. pipe' \in PipeRecords
  BY DEF FlowTypes, FirstText, PipeRecords, Paused, Ended
<1>3. state' \in StateRecords
  BY DEF FlowTypes, FirstText, StateRecords, Paused, Ended
<1>4. FlowTypes'
  BY <1>1, <1>2, <1>3 DEF FlowTypes, FirstText, Paused, Ended
<1>5. ASSUME FlowGoes, odd' = {} PROVE FlowGoes'
  BY <1>1, <1>2, <1>3, <1>5
     DEF FirstText, Paused, Ended, FlowTypes, EarRecords, PipeRecords, StateRecords, FlowGoes,
         GreetingEnds, SpeakingEnds, PlayingIsFollowed, PutOffWaits, HeldHasLoop, OwnStart,
         AutoHasLoop, OpenIsUnmarked, ClockRuns, ClockIsSet, Sounds
<1> QED
  BY <1>4, <1>5

LEMMA LateTextInv ==
    ASSUME FlowTypes, LateText PROVE FlowTypes' /\ (FlowGoes /\ odd' = {} => FlowGoes')
<1>1. pipe' \in PipeRecords
  BY DEF FlowTypes, LateText, PipeRecords, Paused, Odd
<1>2. state' \in StateRecords
  BY DEF FlowTypes, LateText, StateRecords, Paused, Odd
<1>3. FlowTypes'
  BY <1>1, <1>2 DEF FlowTypes, LateText, Paused, Odd
<1>4. ASSUME FlowGoes, odd' = {} PROVE FlowGoes'
  BY <1>1, <1>2, <1>4
     DEF LateText, Paused, Odd, FlowTypes, PipeRecords, StateRecords, FlowGoes, GreetingEnds,
         SpeakingEnds, PlayingIsFollowed, PutOffWaits, HeldHasLoop, OwnStart, AutoHasLoop,
         OpenIsUnmarked, ClockRuns, ClockIsSet, Sounds
<1> QED
  BY <1>3, <1>4

LEMMA StaleEndsInv ==
    ASSUME FlowTypes, StaleEnds PROVE FlowTypes' /\ (FlowGoes /\ odd' = {} => FlowGoes')
<1>1. FlowTypes'
  BY DEF FlowTypes, StaleEnds
<1>2. ASSUME FlowGoes, odd' = {} PROVE FlowGoes'
  BY <1>2
     DEF StaleEnds, FlowTypes, FlowGoes, GreetingEnds, SpeakingEnds, PlayingIsFollowed, PutOffWaits,
         HeldHasLoop, OwnStart, AutoHasLoop, OpenIsUnmarked, ClockRuns, ClockIsSet, Sounds
<1> QED
  BY <1>1, <1>2

\* The loop is over, or goes on with a new recognition.
LEMMA LoopOverInv ==
    ASSUME FlowTypes, LoopOver PROVE FlowTypes' /\ (FlowGoes /\ odd' = {} => FlowGoes')
<1>1. FlowTypes'
  BY NoLoopIsEar DEF FlowTypes, LoopOver, Leaves
<1>2. ASSUME FlowGoes, odd' = {} PROVE FlowGoes'
  BY NoLoopIsEar, <1>2
     DEF LoopOver, Leaves, FlowTypes, FlowGoes, GreetingEnds, SpeakingEnds, PlayingIsFollowed,
         PutOffWaits, HeldHasLoop, OwnStart, AutoHasLoop, OpenIsUnmarked, ClockRuns, ClockIsSet,
         Sounds
<1> QED
  BY <1>1, <1>2

LEMMA LoopClosesInv ==
    ASSUME FlowTypes, LoopCloses PROVE FlowTypes' /\ (FlowGoes /\ odd' = {} => FlowGoes')
<1>1. FlowTypes'
  BY DEF FlowTypes, LoopCloses, Closes, LoopGot
<1>2. ASSUME FlowGoes, odd' = {} PROVE FlowGoes'
  BY <1>2
     DEF LoopCloses, Closes, LoopGot, FlowTypes, FlowGoes, GreetingEnds, SpeakingEnds,
         PlayingIsFollowed, PutOffWaits, HeldHasLoop, OwnStart, AutoHasLoop, OpenIsUnmarked,
         ClockRuns, ClockIsSet, Sounds
<1> QED
  BY <1>1, <1>2

LEMMA LoopTopInv ==
    ASSUME FlowTypes, LoopTop PROVE FlowTypes' /\ (FlowGoes /\ odd' = {} => FlowGoes')
<1>1. ear' \in EarRecords
  BY NoLoopIsEar DEF FlowTypes, LoopTop, EarRecords, Leaves
<1>2. FlowTypes'
  BY <1>1, NoLoopIsEar DEF FlowTypes, LoopTop, Leaves
<1>3. ASSUME FlowGoes, odd' = {} PROVE FlowGoes'
  BY <1>1, NoLoopIsEar, <1>3
     DEF LoopTop, Leaves, FlowTypes, EarRecords, FlowGoes, GreetingEnds, SpeakingEnds,
         PlayingIsFollowed, PutOffWaits, HeldHasLoop, OwnStart, AutoHasLoop, OpenIsUnmarked,
         ClockRuns, ClockIsSet, Sounds
<1> QED
  BY <1>2, <1>3

LEMMA WatchLooksInv ==
    ASSUME FlowTypes, WatchLooks PROVE FlowTypes' /\ (FlowGoes /\ odd' = {} => FlowGoes')
<1>1. state' \in StateRecords
  BY DEF FlowTypes, WatchLooks, StateRecords, Closes
<1>2. FlowTypes'
  BY <1>1 DEF FlowTypes, WatchLooks, Closes
<1>3. ASSUME FlowGoes, odd' = {} PROVE FlowGoes'
  BY <1>1, <1>3
     DEF WatchLooks, Closes, FlowTypes, StateRecords, FlowGoes, GreetingEnds, SpeakingEnds,
         PlayingIsFollowed, PutOffWaits, HeldHasLoop, OwnStart, AutoHasLoop, OpenIsUnmarked,
         ClockRuns, ClockIsSet, Sounds
<1> QED
  BY <1>2, <1>3

LEMMA LoopRestartInv ==
    ASSUME FlowTypes, LoopRestart PROVE FlowTypes' /\ (FlowGoes /\ odd' = {} => FlowGoes')
<1>1. ear.pc = "lock" /\ UNCHANGED <<state, live, out, prior, watchdog>> /\ stale' = stale
  BY DEF LoopRestart, Leaves
<1>2. CASE pipe' = Restarted /\ ear' = [ear EXCEPT !.pc = "await", !.rec = "open"] /\ odd' = odd
  <2>1. ear' = [pc |-> "await", current |-> ear.current, rec |-> "open", empty |-> ear.empty,
                waits |-> ear.waits]
    BY <1>2 DEF FlowTypes, EarRecords
  <2>2. ear' \in EarRecords /\ ear'.pc = "await" /\ ear'.current = ear.current /\ ear'.rec = "open"
    BY <2>1 DEF FlowTypes, EarRecords
  <2>3. pipe' \in PipeRecords /\ ~ pipe'.marked
    BY <1>2 DEF Restarted, PipeRecords
  <2>4. FlowTypes'
    BY <1>1, <2>2, <2>3 DEF FlowTypes
  <2>5. ASSUME FlowGoes PROVE FlowGoes'
    BY <1>1, <1>2, <2>2, <2>3, <2>5
       DEF FlowGoes, GreetingEnds, SpeakingEnds, PlayingIsFollowed, PutOffWaits, HeldHasLoop,
           OwnStart, AutoHasLoop, OpenIsUnmarked, ClockRuns, ClockIsSet, Sounds
  <2> QED
    BY <1>2, <2>4, <2>5
<1>3. CASE pipe' = [Restarted EXCEPT !.open = FALSE] /\ Leaves /\ Odd("no recognition")
  BY <1>1, <1>3, NoLoopIsEar DEF Leaves, Odd, Restarted, PipeRecords, FlowTypes
<1> QED
  BY <1>2, <1>3 DEF LoopRestart

\* The clock of the silence, and what the recognition tells.
LEMMA WatchActsInv ==
    ASSUME FlowTypes, WatchActs PROVE FlowTypes' /\ (FlowGoes /\ odd' = {} => FlowGoes')
<1>1. /\ state' \in StateRecords
      /\ \A f \in {"phase", "mode", "playing", "spoken", "clock", "later"} : state'[f] = state[f]
  BY DEF WatchActs, FlowTypes, StateRecords
<1>2. pipe' \in PipeRecords /\ pipe'.marked = pipe.marked
  BY DEF WatchActs, Silenced, FlowTypes, PipeRecords
<1>3. UNCHANGED <<live, ear, stale, out, prior, odd>>
  BY DEF WatchActs
<1>4. FlowTypes'
  BY <1>1, <1>2, <1>3 DEF FlowTypes
<1>5. ASSUME FlowGoes PROVE FlowGoes'
  BY <1>1, <1>2, <1>3, <1>5
     DEF FlowGoes, GreetingEnds, SpeakingEnds, PlayingIsFollowed, PutOffWaits, HeldHasLoop,
         OwnStart, AutoHasLoop, OpenIsUnmarked, ClockRuns, ClockIsSet, Sounds
<1> QED
  BY <1>4, <1>5

LEMMA RecEndsInv ==
    ASSUME FlowTypes, NEW how \in Ended, RecEnds(how)
    PROVE  FlowTypes' /\ (FlowGoes /\ odd' = {} => FlowGoes')
<1>1. /\ ear' \in EarRecords /\ ear'.rec = how /\ how # "open"
      /\ \A f \in {"pc", "current"} : ear'[f] = ear[f]
  BY DEF RecEnds, FlowTypes, EarRecords, Ended
<1>2. FlowTypes'
  BY <1>1 DEF RecEnds, FlowTypes
<1>3. ASSUME FlowGoes PROVE FlowGoes'
  BY <1>1, <1>3
     DEF RecEnds, FlowGoes, GreetingEnds, SpeakingEnds, PlayingIsFollowed, PutOffWaits, HeldHasLoop,
         OwnStart, AutoHasLoop, OpenIsUnmarked, ClockRuns, ClockIsSet, Sounds
<1> QED
  BY <1>2, <1>3

LEMMA DebouncedInv ==
    ASSUME FlowTypes, Debounced PROVE FlowTypes' /\ (FlowGoes /\ odd' = {} => FlowGoes')
<1>1. /\ out' \in OutRecords /\ out'.speech = out.speech /\ out'.tasks = out.tasks
      /\ out'.busy = out.busy /\ (out.queued > 0 => out'.queued > 0)
  BY EnqueuedOut DEF Debounced, FlowTypes
<1>2. prior' \in PriorRecords
  BY DEF Debounced, FlowTypes, PriorRecords
<1>3. FlowTypes'
  BY <1>1, <1>2 DEF Debounced, FlowTypes
<1>4. ASSUME FlowGoes PROVE FlowGoes'
  BY <1>1, <1>4
     DEF Debounced, FlowGoes, GreetingEnds, SpeakingEnds, PlayingIsFollowed, PutOffWaits,
         HeldHasLoop, OwnStart, AutoHasLoop, OpenIsUnmarked, ClockRuns, ClockIsSet, Sounds
<1> QED
  BY <1>3, <1>4

\* Records of the session that differ in a few fields.
Phases == {"idle", "listening", "processing", "speaking"}

LEMMA StateStopped ==
    ASSUME NEW s \in StateRecords, NEW u, u = [s EXCEPT !.playing = FALSE, !.phase = "idle"]
    PROVE  /\ u \in StateRecords /\ u.phase = "idle" /\ u.playing = FALSE
           /\ \A f \in {"mode", "spoken", "clock", "later"} : u[f] = s[f]
  BY DEF StateRecords

LEMMA StateGreeted ==
    ASSUME NEW s \in StateRecords
    PROVE  /\ Welcome(s) \in StateRecords
           /\ Welcome(s).playing = TRUE /\ Welcome(s).spoken = TRUE
           /\ \A f \in {"phase", "mode", "clock", "later"} : Welcome(s)[f] = s[f]
  BY DEF StateRecords, Welcome

LEMMA StateInPhase ==
    ASSUME NEW s \in StateRecords, NEW p \in Phases, NEW u, u = [s EXCEPT !.phase = p]
    PROVE  /\ u \in StateRecords /\ u.phase = p
           /\ \A f \in {"mode", "playing", "spoken", "clock", "later"} : u[f] = s[f]
  BY DEF StateRecords, Phases

LEMMA StateTimed ==
    ASSUME NEW s \in StateRecords
    PROVE  /\ Window(s) \in StateRecords /\ Window(s).clock = "runs"
           /\ \A f \in {"phase", "mode", "playing", "spoken", "later"} : Window(s)[f] = s[f]
  BY DEF StateRecords, Window

\* A listen start, with the tasks that are left in o, on a session whose mode it is to be m.
LEMMA ListensInv ==
    ASSUME FlowTypes, NEW m \in {"auto", "realtime"}, NEW o \in OutRecords,
           o.speech = out.speech, o.queued = out.queued, o.busy = out.busy,
           \A k \in {"speaking", "idle", "window"} : o.tasks[k] = out.tasks[k],
           NEW later \in {"none", "auto"},
           \/ later = "none"
           \/ later = state.later /\ o.tasks = out.tasks,
           NEW beaten \in {FALSE, m = "realtime"}, ~ NotNow(m), Listens(m, o, later, beaten)
    PROVE  FlowTypes' /\ (FlowGoes /\ odd' = {} => FlowGoes')
<1> DEFINE stopped == Output /\ ~ (m = "realtime" /\ state.playing)
           resting == IF stopped /\ m # "realtime" THEN "idle" ELSE state.phase
<1>1. /\ Room /\ out.tasks["idle"] = 0 /\ out.tasks["window"] = 0 /\ out.tasks["resume"] = 0
      /\ o.tasks["idle"] = 0 /\ o.tasks["window"] = 0
  BY DEF Listens, Room
<1>2. /\ out' \in OutRecords /\ out'.queued = out.queued /\ out'.busy = out.busy
      /\ out'.tasks["speaking"] = out.tasks["speaking"]
      /\ out'.tasks["resume"] = o.tasks["resume"]
      /\ stopped => /\ out'.speech = "none" /\ out'.tasks["window"] = 1
                    /\ out'.tasks["idle"] = IF Sounds THEN 1 ELSE 0
      /\ ~ stopped => /\ out'.speech = out.speech /\ out'.tasks["window"] = 0
                      /\ out'.tasks["idle"] = 0
  <2>1. CASE stopped
    <3>1. out' = FlowInterrupted(o)
      BY <2>1 DEF Listens
    <3> QED
      BY <1>1, <2>1, <3>1, InterruptedOut
  <2>2. CASE ~ stopped
    <3>1. out' = o
      BY <2>2 DEF Listens
    <3> QED
      BY <1>1, <2>2, <3>1
  <2> QED
    BY <2>1, <2>2
<1>3. /\ state' \in StateRecords /\ state'.mode = m /\ state'.later = later
      /\ state'.spoken = state.spoken
      /\ state'.playing = (state.playing /\ ~ stopped)
      /\ beaten => state'.phase \in {state.phase, "idle"} /\ state'.clock = state.clock
                   /\ (stopped => state'.phase = "idle")
      /\ ~ beaten => state'.phase = "listening"
  <2> DEFINE s == [state EXCEPT !.mode = m, !.later = later, !.playing = @ /\ ~ stopped,
                                !.phase = IF stopped /\ m # "realtime" THEN "idle" ELSE @]
  <2>1. /\ state \in StateRecords /\ (state.playing /\ ~ stopped) \in BOOLEAN
        /\ resting \in Phases
    BY DEF FlowTypes, StateRecords, Phases
  <2>2. /\ s \in StateRecords /\ s.phase = resting /\ s.playing = (state.playing /\ ~ stopped)
        /\ s.mode = m /\ s.later = later /\ s.spoken = state.spoken /\ s.clock = state.clock
    <3>1. PICK y \in BOOLEAN : y = (state.playing /\ ~ stopped)
      BY <2>1
    <3>2. PICK p \in Phases : p = resting
      BY <2>1
    <3>3. PICK u : u = [state EXCEPT !.mode = m, !.later = later, !.playing = y, !.phase = p]
      OBVIOUS
    <3>4. u = s
      BY <3>1, <3>2, <3>3
    <3> HIDE DEF s, resting, stopped
    <3>5. /\ u \in StateRecords /\ u.phase = p /\ u.playing = y /\ u.mode = m /\ u.later = later
          /\ \A f \in {"spoken", "clock", "pending"} : u[f] = state[f]
      <4>1. state \in StateRecords
        BY <2>1
      <4> QED
        BY <3>1, <3>2, <3>3, <4>1 DEF StateRecords, Phases
    <3> QED
      BY <3>1, <3>2, <3>4, <3>5
  <2>3. /\ beaten => state' = [s EXCEPT !.phase = IF stopped THEN "idle" ELSE @]
        /\ ~ beaten => \/ state' = Window([s EXCEPT !.phase = "listening"])
                       \/ state' = [s EXCEPT !.phase = "listening"]
    BY DEF Listens
  <2>4. resting \in {state.phase, "idle"}
    OBVIOUS
  <2> HIDE DEF s, resting
  <2>5. CASE beaten
    <3>1. PICK p \in Phases : /\ state' = [s EXCEPT !.phase = p]
                              /\ p \in {state.phase, "idle"} /\ (stopped => p = "idle")
      BY <2>1, <2>2, <2>3, <2>4, <2>5 DEF Phases
    <3> QED
      BY <2>2, <2>5, <3>1, StateInPhase
  <2>6. CASE ~ beaten
    <3>1. PICK u : u = [s EXCEPT !.phase = "listening"]
      OBVIOUS
    <3>2. /\ u \in StateRecords /\ u.phase = "listening"
          /\ \A f \in {"mode", "playing", "spoken", "clock", "later"} : u[f] = s[f]
      BY <2>2, <3>1, StateInPhase DEF Phases
    <3>3. state' = u \/ state' = Window(u)
      BY <2>3, <2>6, <3>1
    <3> QED
      BY <2>2, <2>6, <3>2, <3>3, StateTimed
  <2> QED
    BY <2>5, <2>6
<1>4. /\ ear' \in EarRecords /\ pipe' \in PipeRecords /\ ~ pipe'.marked
      /\ beaten => ear' = NoLoop /\ ~ live' /\ m = "realtime"
      /\ ~ beaten => /\ ear'.pc = "await" /\ ear'.current /\ ear'.rec = "open"
                     /\ live' = (m = "realtime" \/ (live /\ ~ stopped))
  <2>1. CASE beaten
    BY <2>1, NoLoopIsEar DEF Listens, Restarted, PipeRecords
  <2>2. CASE ~ beaten
    <3>1. ear' = [pc |-> "await", current |-> TRUE, rec |-> "open", empty |-> 0, waits |-> 0]
      BY <2>2 DEF Listens, NoLoop
    <3>2. 0 \in 0 .. MaxEmpty - 1 /\ 0 \in 0 .. MaxWaits - 1
      BY ListenAssumption
    <3>3. ear' \in EarRecords /\ ear'.pc = "await" /\ ear'.current /\ ear'.rec = "open"
      BY <3>1, <3>2 DEF EarRecords, Ended
    <3>4. pipe' = Restarted /\ live' = (m = "realtime" \/ (live /\ ~ stopped))
      BY <2>2 DEF Listens
    <3>5. pipe' \in PipeRecords /\ ~ pipe'.marked
      BY <3>4 DEF Restarted, PipeRecords
    <3> QED
      BY <2>2, <3>3, <3>4, <3>5
  <2> QED
    BY <2>1, <2>2
<1>5. stale' \in BOOLEAN /\ prior' \in PriorRecords /\ live' \in BOOLEAN
  BY <1>4 DEF Listens, Left, FlowTypes, FlowDrained, PriorRecords
<1>6. FlowTypes'
  BY <1>2, <1>3, <1>4, <1>5 DEF FlowTypes
<1>7. odd' = {} => /\ odd = {}
                   /\ state'.phase = "listening" => state'.clock = "runs"
                   /\ live' => m = "realtime"
  BY DEF Listens, Odd
<1>8. stopped <=> (Output /\ ~ (m = "realtime" /\ state.playing))
  OBVIOUS
<1> HIDE DEF stopped, resting
<1>9. ASSUME FlowGoes, odd' = {} PROVE FlowGoes'
  <2>1. GreetingEnds' /\ SpeakingEnds'
    BY <1>1, <1>2, <1>3, <1>8, <1>9 DEF FlowGoes, GreetingEnds, SpeakingEnds, Sounds, Output
  <2>2. PlayingIsFollowed' /\ AutoHasLoop'
    BY <1>1, <1>2, <1>3, <1>4, <1>8, <1>9
       DEF FlowGoes, PlayingIsFollowed, AutoHasLoop, Sounds, Output, NotNow
  <2>3. PutOffWaits'
    BY <1>1, <1>2, <1>3, <1>8, <1>9 DEF FlowGoes, PutOffWaits, SpeakingEnds, Sounds, Output
  <2>4. HeldHasLoop' /\ OwnStart' /\ OpenIsUnmarked' /\ ClockRuns' /\ ClockIsSet'
    BY <1>3, <1>4, <1>7, <1>9, NoLoopIsEar
       DEF HeldHasLoop, OwnStart, OpenIsUnmarked, ClockRuns, ClockIsSet
  <2> QED
    BY <2>1, <2>2, <2>3, <2>4 DEF FlowGoes
<1> QED
  BY <1>6, <1>9

LEMMA DrainedIsPrior == FlowDrained \in PriorRecords
  BY DEF FlowDrained, PriorRecords

LEMMA ListenStartInv ==
    ASSUME FlowTypes, NEW m \in {"auto", "realtime"}, ListenStart(m)
    PROVE  FlowTypes' /\ (FlowGoes /\ odd' = {} => FlowGoes')
<1>1. CASE Ignored(m)
  <2>1. prior' \in PriorRecords
    <3>1. prior' = FlowDrained
      BY <1>1 DEF ListenStart
    <3> QED
      BY <3>1, DrainedIsPrior
  <2>2. UNCHANGED <<pipe, live, ear, stale, out, watchdog, odd>>
    BY <1>1 DEF ListenStart
  <2>3. /\ state' \in StateRecords
        /\ \A f \in {"phase", "mode", "playing", "spoken", "clock"} : state'[f] = state[f]
        /\ state'.later = state.later \/ Output
    BY <1>1 DEF ListenStart, Ignored, NotNow, FlowTypes, StateRecords
  <2>4. FlowTypes'
    BY <2>1, <2>2, <2>3 DEF FlowTypes
  <2>5. ASSUME FlowGoes PROVE FlowGoes'
    BY <2>2, <2>3, <2>5
       DEF FlowGoes, GreetingEnds, SpeakingEnds, PlayingIsFollowed, PutOffWaits, HeldHasLoop,
           OwnStart, AutoHasLoop, OpenIsUnmarked, ClockRuns, ClockIsSet, Sounds, Output
  <2> QED
    BY <2>4, <2>5
<1>2. CASE ~ Ignored(m)
  <2>1. PICK beaten \in {FALSE, m = "realtime"} : Listens(m, out, state.later, beaten)
    BY <1>2 DEF ListenStart
  <2>2. out \in OutRecords /\ state.later \in {"none", "auto"} /\ ~ NotNow(m)
    BY <1>2 DEF Ignored, FlowTypes, StateRecords
  <2> QED
    BY <2>1, <2>2, ListensInv
<1> QED
  BY <1>1, <1>2

LEMMA TaskResumeInv ==
    ASSUME FlowTypes, TaskResume PROVE FlowTypes' /\ (FlowGoes /\ odd' = {} => FlowGoes')
<1> DEFINE o == [out EXCEPT !.tasks["resume"] = @ - 1]
<1>1. out \in OutRecords /\ "resume" \in TaskNames /\ out.tasks["resume"] > 0
  BY DEF TaskResume, Runs, FlowTypes, TaskNames
<1>2. /\ o \in OutRecords /\ o.speech = out.speech /\ o.queued = out.queued /\ o.busy = out.busy
      /\ \A j \in TaskNames \ {"resume"} : o.tasks[j] = out.tasks[j]
  BY <1>1, TaskLess
<1>3. \A j \in {"speaking", "idle", "window"} : o.tasks[j] = out.tasks[j]
  BY <1>2 DEF TaskNames
<1>4. \/ /\ out' = o /\ UNCHANGED <<state, pipe, live, ear, stale, odd>>
         /\ prior' \in {prior, FlowDrained}
         /\ state.playing \/ state.later = "none" \/ Ignored(state.later)
      \/ ~ Ignored(state.later) /\ state.later # "none" /\ Listens(state.later, o, "none", FALSE)
  BY DEF TaskResume
<1> HIDE DEF o
<1>5. CASE /\ out' = o /\ UNCHANGED <<state, pipe, live, ear, stale, odd>>
           /\ prior' \in {prior, FlowDrained}
           /\ state.playing \/ state.later = "none" \/ Ignored(state.later)
  <2>1. FlowTypes'
    BY <1>2, <1>5, DrainedIsPrior DEF FlowTypes
  <2>2. state.later \in {"none", "auto"}
    BY DEF FlowTypes, StateRecords
  <2>3. ASSUME FlowGoes PROVE FlowGoes'
    BY <1>2, <1>3, <1>5, <2>2, <2>3
       DEF FlowGoes, GreetingEnds, SpeakingEnds, PlayingIsFollowed, PutOffWaits, HeldHasLoop,
           OwnStart, AutoHasLoop, OpenIsUnmarked, ClockRuns, ClockIsSet, Sounds, Output, Ignored,
           NotNow
  <2> QED
    BY <2>1, <2>3
<1>6. CASE ~ Ignored(state.later) /\ state.later # "none"
           /\ Listens(state.later, o, "none", FALSE)
  <2>1. state.later \in {"auto", "realtime"} /\ ~ NotNow(state.later)
    BY <1>6 DEF FlowTypes, StateRecords, Ignored
  <2> QED
    BY <1>2, <1>3, <1>6, <2>1, ListensInv
<1> QED
  BY <1>4, <1>5, <1>6

\* What a stop of the speech makes of the session, a greeting aside.
LEMMA StoppedFields ==
    ASSUME FlowTypes, NEW s \in StateRecords, NEW o, Stopped(s, o), prior' \in PriorRecords,
           o \in OutRecords
    PROVE  FlowTypes' /\ state' = s /\ out' = o /\ ear' = NoLoop /\ ~ live' /\ Room
  BY NoLoopIsEar DEF Stopped, Silenced, FlowTypes, PipeRecords, Left

\* An interrupt, with nothing greeted, keeps what waits for the end of the speech, unless it
\* cuts off speech that has not started.
LEMMA InterruptKeeps ==
    ASSUME FlowTypes, Room, NEW o, o = FlowInterrupted(out)
    PROVE  /\ o \in OutRecords /\ o.speech = "none"
           /\ o.queued = out.queued /\ o.busy = out.busy
           /\ o.tasks["window"] = 1
           /\ o.tasks["idle"] = IF Sounds THEN 1 ELSE 0
           /\ o.tasks["speaking"] = out.tasks["speaking"]
           /\ o.tasks["resume"] = 0
           /\ out.tasks["idle"] = 0
  BY InterruptedOut DEF FlowTypes, Room

LEMMA AbortsInv ==
    ASSUME FlowTypes, NEW explicit \in BOOLEAN, Aborts(explicit)
    PROVE  FlowTypes' /\ (FlowGoes /\ odd' = {} => FlowGoes')
<1>1. prior' \in PriorRecords
  BY DEF Aborts, FlowTypes, PriorRecords
<1>2. CASE state.playing /\ ~ explicit
  <2>1. UNCHANGED <<state, pipe, live, ear, stale, out, odd>>
    BY <1>2 DEF Aborts
  <2> QED
    BY <1>1, <2>1
       DEF FlowTypes, FlowGoes, GreetingEnds, SpeakingEnds, PlayingIsFollowed, PutOffWaits,
           HeldHasLoop, OwnStart, AutoHasLoop, OpenIsUnmarked, ClockRuns, ClockIsSet, Sounds
<1>3. CASE ~ (state.playing /\ ~ explicit) /\ state.mode # "realtime"
  <2>1. Stopped([state EXCEPT !.playing = FALSE, !.phase = "idle"], FlowInterrupted(out)) /\ CutShort
    BY <1>3 DEF Aborts
  <2>2. Room
    BY <2>1 DEF Stopped
  <2>3. PICK s \in StateRecords :
           /\ s = [state EXCEPT !.playing = FALSE, !.phase = "idle"]
           /\ s.phase = "idle" /\ s.playing = FALSE /\ s.later = state.later
    BY StateStopped DEF FlowTypes
  <2>4. FlowTypes' /\ state' = s /\ out' = FlowInterrupted(out) /\ ear' = NoLoop /\ ~ live'
    BY <1>1, <2>1, <2>2, <2>3, StoppedFields, InterruptKeeps
  <2>5. /\ out'.tasks["idle"] = IF Sounds THEN 1 ELSE 0
        /\ odd' = {} => odd = {} /\ (out.speech = "due" => state.later = "none")
        /\ out.tasks["idle"] = 0 /\ out.tasks["resume"] = 0
    BY <2>1, <2>2, <2>4, InterruptKeeps DEF CutShort, Odd, Room
  <2>6. /\ state'.phase = "idle" /\ state'.playing = FALSE /\ state'.later = state.later
        /\ ear'.rec = "none" /\ ear'.pc = "off" /\ ~ live'
    BY <2>3, <2>4, NoLoopIsEar
  <2>7. out.speech \in {"none", "due", "plays", "cut"}
    BY DEF FlowTypes, OutRecords
  <2>8. ASSUME FlowGoes, odd' = {} PROVE FlowGoes'
    BY <2>5, <2>6, <2>7, <2>8
       DEF FlowGoes, GreetingEnds, SpeakingEnds, PlayingIsFollowed, PutOffWaits, HeldHasLoop,
           OwnStart, AutoHasLoop, OpenIsUnmarked, ClockRuns, ClockIsSet, Sounds
  <2> QED
    BY <2>4, <2>8
<1>4. CASE ~ (state.playing /\ ~ explicit) /\ state.mode = "realtime"
  <2>1. /\ Room /\ out' = FlowInterrupted(out) /\ state' = [state EXCEPT !.playing = FALSE]
        /\ UNCHANGED <<pipe, live, ear, stale>> /\ CutShort
    BY <1>4 DEF Aborts
  <2>2. /\ state' \in StateRecords /\ ~ state'.playing
        /\ \A f \in {"phase", "mode", "spoken", "clock", "later"} : state'[f] = state[f]
    BY <2>1 DEF FlowTypes, StateRecords
  <2>3. FlowTypes'
    BY <1>1, <2>1, <2>2, InterruptKeeps DEF FlowTypes
  <2>4. /\ out'.speech = "none" /\ out'.queued = out.queued /\ out'.busy = out.busy
        /\ out'.tasks["window"] = 1 /\ out'.tasks["idle"] = IF Sounds THEN 1 ELSE 0
        /\ odd' = {} => odd = {} /\ (out.speech = "due" => state.later = "none")
        /\ out.tasks["idle"] = 0 /\ out.tasks["resume"] = 0
    BY <2>1, InterruptKeeps DEF CutShort, Odd, Room
  <2>5. out.speech \in {"none", "due", "plays", "cut"}
    BY DEF FlowTypes, OutRecords
  <2>6. ASSUME FlowGoes, odd' = {} PROVE FlowGoes'
    BY <1>4, <2>1, <2>2, <2>4, <2>5, <2>6
       DEF FlowGoes, GreetingEnds, SpeakingEnds, PlayingIsFollowed, PutOffWaits, HeldHasLoop,
           OwnStart, AutoHasLoop, OpenIsUnmarked, ClockRuns, ClockIsSet, Sounds
  <2> QED
    BY <2>3, <2>6
<1> QED
  BY <1>2, <1>3, <1>4

LEMMA GreetedOut ==
    ASSUME NEW o \in OutRecords
    PROVE  /\ Greeted(o) \in OutRecords /\ Greeted(o).speech # "none"
           /\ o.speech # "none" => Greeted(o).speech = o.speech
           /\ o.speech = "none" => Greeted(o).speech = "due"
           /\ Greeted(o).queued = o.queued /\ Greeted(o).busy = o.busy
           /\ Greeted(o).tasks = o.tasks
  BY DEF Greeted, OutRecords

LEMMA DetectsInv ==
    ASSUME FlowTypes, NEW wake \in BOOLEAN, Detects(wake)
    PROVE  FlowTypes' /\ (FlowGoes /\ odd' = {} => FlowGoes')
<1>1. prior' \in PriorRecords
  BY DEF Detects, FlowTypes, PriorRecords
<1> DEFINE greets == Action(wake) = "welcome"
           stops == Action(wake) # "silent" /\ Output
           S(s) == IF greets THEN Welcome(s) ELSE s
           O(o) == IF greets THEN Greeted(o) ELSE o
<1>2. state \in StateRecords /\ out \in OutRecords
  BY DEF FlowTypes
<1>3. \A s \in StateRecords :
         /\ S(s) \in StateRecords
         /\ greets => S(s).playing /\ S(s).spoken
         /\ ~ greets => S(s).playing = s.playing /\ S(s).spoken = s.spoken
         /\ \A f \in {"phase", "mode", "clock", "later"} : S(s)[f] = s[f]
  BY StateGreeted
<1>4. \A o \in OutRecords :
         /\ O(o) \in OutRecords
         /\ greets => O(o).speech # "none" /\ (o.speech = "none" => O(o).speech = "due")
         /\ o.speech # "none" \/ ~ greets => O(o).speech = o.speech
         /\ O(o).queued = o.queued /\ O(o).busy = o.busy /\ O(o).tasks = o.tasks
  BY GreetedOut
<1>5. CASE stops
  <2>1. /\ Stopped(S([state EXCEPT !.playing = FALSE, !.phase = "idle"]), O(FlowInterrupted(out)))
        /\ CutShort
    BY <1>5 DEF Detects
  <2>2. Room
    BY <2>1 DEF Stopped
  <2>3. PICK s \in StateRecords :
           /\ s = [state EXCEPT !.playing = FALSE, !.phase = "idle"]
           /\ s.phase = "idle" /\ s.playing = FALSE /\ s.later = state.later
    BY <1>2, StateStopped
  <2>4. PICK o \in OutRecords :
           /\ o = FlowInterrupted(out) /\ o.speech = "none"
           /\ o.queued = out.queued /\ o.busy = out.busy
           /\ o.tasks["idle"] = IF Sounds THEN 1 ELSE 0
           /\ o.tasks["speaking"] = out.tasks["speaking"] /\ o.tasks["resume"] = 0
           /\ out.tasks["idle"] = 0
    BY <2>2, InterruptKeeps
  <2>5. S(s) \in StateRecords /\ O(o) \in OutRecords /\ Stopped(S(s), O(o))
    BY <1>3, <1>4, <2>1, <2>3, <2>4
  <2> HIDE DEF greets, S, O
  <2>6. FlowTypes' /\ state' = S(s) /\ out' = O(o) /\ ear' = NoLoop /\ ~ live'
    BY <1>1, <2>5, StoppedFields
  <2>7. /\ state'.phase = "idle" /\ state'.later = state.later
        /\ state'.playing => greets /\ state'.spoken
        /\ greets => out'.speech = "due"
        /\ out'.tasks["idle"] = IF Sounds THEN 1 ELSE 0
        /\ out.tasks["resume"] = 0 /\ out.tasks["idle"] = 0
    BY <1>3, <1>4, <2>2, <2>3, <2>4, <2>6 DEF Room
  <2>8. /\ odd' = {} => odd = {} /\ (out.speech = "due" => state.later = "none")
        /\ ear'.rec = "none" /\ ear'.pc = "off" /\ ~ live'
        /\ out.speech \in {"none", "due", "plays", "cut"}
    BY <1>2, <2>1, <2>6, NoLoopIsEar DEF CutShort, Odd, OutRecords
  <2>9. ASSUME FlowGoes, odd' = {} PROVE FlowGoes'
    BY <2>7, <2>8, <2>9
       DEF FlowGoes, GreetingEnds, SpeakingEnds, PlayingIsFollowed, PutOffWaits, HeldHasLoop,
           OwnStart, AutoHasLoop, OpenIsUnmarked, ClockRuns, ClockIsSet, Sounds
  <2> QED
    BY <2>6, <2>9
<1>6. CASE ~ stops
  <2>1. state' = S(state) /\ out' = O(out) /\ UNCHANGED <<pipe, live, ear, stale, odd>>
    BY <1>6 DEF Detects
  <2>2. greets => out.speech \in {"none", "due"}
    BY <1>2, <1>6 DEF Output, Sounds, OutRecords
  <2> HIDE DEF greets, S, O
  <2>3. /\ state' \in StateRecords /\ out' \in OutRecords
        /\ \A f \in {"phase", "mode", "clock", "later"} : state'[f] = state[f]
        /\ state'.playing => (greets /\ state'.spoken) \/ (state.playing /\ state'.spoken = state.spoken)
        /\ ~ state'.spoken => ~ state.spoken
        /\ out'.speech = out.speech \/ (out.speech = "none" /\ out'.speech = "due")
        /\ greets => out'.speech # "none"
        /\ out'.queued = out.queued /\ out'.busy = out.busy /\ out'.tasks = out.tasks
    BY <1>2, <1>3, <1>4, <2>1, <2>2
  <2>4. FlowTypes'
    BY <1>1, <2>1, <2>3 DEF FlowTypes
  <2>5. ASSUME FlowGoes PROVE FlowGoes'
    BY <2>1, <2>3, <2>5
       DEF FlowGoes, GreetingEnds, SpeakingEnds, PlayingIsFollowed, PutOffWaits, HeldHasLoop,
           OwnStart, AutoHasLoop, OpenIsUnmarked, ClockRuns, ClockIsSet, Sounds
  <2> QED
    BY <2>4, <2>5
<1> QED
  BY <1>5, <1>6

LEMMA ListenBegins == ListenFlowInit => ListenInv
<1> SUFFICES ASSUME ListenFlowInit PROVE ListenInv
  OBVIOUS
<1>1. state \in StateRecords /\ pipe \in PipeRecords
  BY DEF ListenFlowInit, StateRecords, PipeRecords
<1>2. ear \in EarRecords
  BY NoLoopIsEar DEF ListenFlowInit
<1>3. out \in OutRecords
  <2>1. [k \in TaskNames |-> 0] \in [TaskNames -> 0 .. MaxSpawned] /\ 0 \in 0 .. JobCap
    BY ListenAssumption
  <2> QED
    BY <2>1 DEF ListenFlowInit, OutRecords
<1>4. prior \in PriorRecords
  BY DEF ListenFlowInit, PriorRecords
<1>5. FlowTypes
  BY <1>1, <1>2, <1>3, <1>4 DEF ListenFlowInit, FlowTypes
<1>6. FlowGoes
  BY NoLoopIsEar
     DEF ListenFlowInit, FlowGoes, GreetingEnds, SpeakingEnds, PlayingIsFollowed, PutOffWaits,
         HeldHasLoop, OwnStart, AutoHasLoop, OpenIsUnmarked, ClockRuns, ClockIsSet
<1> QED
  BY <1>5, <1>6 DEF ListenInv

LEMMA OddStays == ASSUME ListenFlowNext PROVE odd' = {} => odd = {}
  BY
     DEF ListenFlowNext, Audio, Silence, ListenStart, Listens, ListenFails, ListenStop, Aborts,
         Detects, CutShort, Debounced, Job, Answer, Recovery, Speaks, SpeechEnds, TaskSpeaking,
         TaskIdle, TaskWindow, TaskResume, FirstText, LateText, StaleEnds, RecEnds, LoopOver,
         LoopCloses, LoopText, LoopEmpty, GivesUp, LoopGivesUp, LoopTop, LoopRestart, WatchLooks,
         WatchActs, Odd

LEMMA ListenStep == ListenInv /\ [ListenFlowNext]_listenFlowVars => ListenInv'
<1> SUFFICES ASSUME ListenInv, [ListenFlowNext]_listenFlowVars PROVE ListenInv'
  OBVIOUS
<1>1. CASE UNCHANGED listenFlowVars
  BY <1>1
     DEF listenFlowVars, ListenInv, FlowTypes, FlowGoes, GreetingEnds, SpeakingEnds,
         PlayingIsFollowed, PutOffWaits, HeldHasLoop, OwnStart, AutoHasLoop, OpenIsUnmarked,
         ClockRuns, ClockIsSet, Sounds
<1>2. CASE ListenFlowNext
  <2>1. FlowTypes
    BY DEF ListenInv
  <2>2. FlowTypes' /\ (FlowGoes /\ odd' = {} => FlowGoes')
    BY <1>2, <2>1, AudioInv, SilenceInv, ListenStartInv, ListenFailsInv, ListenStopInv, AbortsInv,
       DetectsInv, DebouncedInv, JobInv, AnswerInv, SpeaksInv, SpeechEndsInv, TaskSpeakingInv,
       TaskIdleInv, TaskWindowInv, TaskResumeInv, FirstTextInv, LateTextInv, StaleEndsInv,
       RecEndsInv, LoopOverInv, LoopClosesInv, LoopTextInv, LoopEmptyInv, LoopGivesUpInv,
       LoopTopInv, LoopRestartInv, WatchLooksInv, WatchActsInv DEF ListenFlowNext
  <2>3. odd' = {} => odd = {}
    BY <1>2, OddStays
  <2> QED
    BY <2>2, <2>3 DEF ListenInv
<1> QED
  BY <1>1, <1>2

\* A session that is told to listen does, while nothing odd has happened.
LEMMA ListenGoesOn == ListenInv => ListenIsWhole
<1> SUFFICES ASSUME ListenInv, odd = {}
             PROVE  ListensToSomething /\ HeldIsHeard /\ SilenceIsTimed /\ PutOffIsResumed
  BY DEF ListenIsWhole
<1>1. FlowTypes /\ FlowGoes
  BY DEF ListenInv
<1>2. Still => /\ out.speech = "none" /\ out.queued = 0 /\ ~ out.busy
               /\ out.tasks["idle"] = 0 /\ out.tasks["resume"] = 0
               /\ out.tasks["speaking"] = 0 /\ out.tasks["window"] = 0
  BY DEF Still, TaskNames
<1> QED
  BY <1>1, <1>2
     DEF FlowGoes, GreetingEnds, SpeakingEnds, PlayingIsFollowed, PutOffWaits, HeldHasLoop,
         OwnStart, AutoHasLoop, OpenIsUnmarked, ClockRuns, ClockIsSet, ListensToSomething,
         HeldIsHeard, SilenceIsTimed, PutOffIsResumed, Counts, Output, Sounds

LEMMA FlowTypesHold == FlowTypes => ListenFlowTypeOK
<1> SUFFICES ASSUME FlowTypes PROVE ListenFlowTypeOK
  OBVIOUS
<1>1. ear.empty < MaxEmpty /\ ear.waits < MaxWaits
  BY ListenAssumption DEF FlowTypes, EarRecords
<1> QED
  BY <1>1 DEF FlowTypes, StateRecords, PipeRecords, EarRecords, OutRecords, PriorRecords,
     ListenFlowTypeOK, Ended

\* The listening of a session: types, and what every part of it waits for.
THEOREM ListenInvariant == ListenFlowSpec => []ListenInv
<1> QED
  BY ListenBegins, ListenStep, PTL DEF ListenFlowSpec

\* Types of the listening, for any bound on its tasks and any limits of its loop.
THEOREM ListenTypeCorrect == ListenFlowSpec => []ListenFlowTypeOK
<1>1. ListenInv => ListenFlowTypeOK
  BY FlowTypesHold DEF ListenInv
<1> QED
  BY <1>1, ListenInvariant, PTL

\* SessionListens: in a session that nothing disturbed, every listen start that was let in has its
\* loop and its clock, none that was put off is forgotten, and no greeting or speaking outlasts its
\* speech, for any number of recognitions, empty results, waits, tasks and texts
\* (session.rs:2110, asr_manager.rs:178).
THEOREM SessionIsHeard == DialogueSpec => []SessionListens
<1> DEFINE Inv == part = "listen" => ListenInv
<1>1. DialogueInit => Inv
  BY ListenBegins DEF DialogueInit
<1>2. Inv /\ [DialogueNext]_dialogueVars => Inv'
  <2> SUFFICES ASSUME Inv, [DialogueNext]_dialogueVars, part' = "listen" PROVE ListenInv'
    OBVIOUS
  <2>1. part = "listen" /\ [ListenFlowNext]_listenFlowVars
    BY DEF DialogueNext, dialogueVars
  <2> QED
    BY <2>1, ListenStep
<1>3. Inv => SessionListens
  BY ListenGoesOn DEF SessionListens
<1> QED
  BY <1>1, <1>2, <1>3, PTL DEF DialogueSpec

\* Types of the turns and of the listening, for every value of the constants.
THEOREM DialogueTypeCorrect == DialogueSpec => []DialogueTypeOK
<1> DEFINE Inv == /\ part = "turns" => IInv /\ TurnInv
                  /\ part = "listen" => ListenInv
<1>1. DialogueInit => Inv
  BY InitIInv, InitTurnInv, ListenBegins DEF DialogueInit
<1>2. Inv /\ [DialogueNext]_dialogueVars => Inv'
  <2> SUFFICES ASSUME Inv, [DialogueNext]_dialogueVars PROVE Inv'
    OBVIOUS
  <2>1. /\ part' = part
        /\ part = "turns" => [Next]_vars
        /\ part = "listen" => [ListenFlowNext]_listenFlowVars
    BY DEF DialogueNext, dialogueVars
  <2>2. part' = "turns" => (IInv /\ TurnInv)'
    BY <2>1, StepIInv, StepTurnInv
  <2>3. part' = "listen" => ListenInv'
    BY <2>1, ListenStep
  <2> QED
    BY <2>2, <2>3
<1>3. Inv => DialogueTypeOK
  BY FlowTypesHold DEF DialogueTypeOK, TurnInv, ListenInv
<1> QED
  BY <1>1, <1>2, <1>3, PTL DEF DialogueSpec
=============================================================================
