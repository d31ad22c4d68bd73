----------------------------- MODULE ClawWarmup -----------------------------
(***************************************************************************)
(* The warm-up of an OpenClaw answer and the answer itself, on their way   *)
(* into the TTS of one device.  A message to the agent starts a warm-up    *)
(* task, which speaks short lines at fixed times until the answer comes;   *)
(* each fragment of the answer is injected by a task of its own, under the *)
(* session mutex, so that fragments may overtake each other.               *)
(*                                                                         *)
(* The controller's methods run under one mutex: each is a step.  The plan *)
(* of a warm-up (lines from the LLM) is its number of lines.               *)
(***************************************************************************)
EXTENDS Integers, Sequences, FiniteSets

CONSTANTS Asks,       \* messages to the agent, asked one after the other
          NoAsk,      \* none
          Lines,      \* bound: lines of a warm-up plan
          Fragments   \* bound: fragments of an answer, the last one ends it

ASSUME ClawWarmupAssumption ==
    IsFiniteSet(Asks) /\ NoAsk \notin Asks /\ Lines \in Nat /\ Fragments \in Nat \ {0}

VARIABLES
    messaged,     \* messages sent to the agent
    active,    \* the message of the controller's active task, or NoAsk
    runner,    \* the message whose task's handle the controller holds, or NoAsk
    warm,      \* the warm-up task of each message
    coming,    \* fragments the agent has still to send
    injecting, \* fragments handed to the response handler and not yet injected
    opened,    \* openclaw_stream_started, by message
    spoken,    \* what was handed to the TTS, in order
    over       \* messages whose last fragment was injected

clawWarmupVars == <<messaged, active, runner, warm, coming, injecting, opened, spoken, over>>

Say(kind, m) == Append(spoken, [kind |-> kind, of |-> m])

ClawWarmupInit ==
    /\ messaged = {} /\ active = NoAsk /\ runner = NoAsk
    /\ warm = [m \in Asks |-> [pc |-> "none", line |-> 0, cancelled |-> FALSE,
                               started |-> FALSE, ended |-> FALSE]]
    /\ coming = [m \in Asks |-> 1] /\ injecting = {} /\ opened = {} /\ spoken = <<>> /\ over = {}

-----------------------------------------------------------------------------

\* A variant: the runner is left to its token.
FinishedByToken(m, tasks) ==
    IF active = NoAsk \/ (m # NoAsk /\ active # m) THEN tasks
    ELSE [tasks EXCEPT ![active].cancelled = TRUE, ![active].ended = tasks[active].started]

\* finish: the active task is taken and cancelled, its runner aborted.
Finished(m, tasks) ==
    IF active = NoAsk \/ (m # NoAsk /\ active # m) THEN tasks
    ELSE [tasks EXCEPT ![active].cancelled = TRUE,
                       ![active].ended = tasks[active].started,
                       ![active].pc = IF runner = active THEN "aborted" ELSE @]

\* try_route_openclaw under the session mutex: the message goes to the agent and its
\* warm-up replaces an older one.
Ask(m) ==
    /\ m \notin messaged /\ messaged' = messaged \cup {m}
    /\ active' = m /\ runner' = m
    /\ warm' = [Finished(NoAsk, warm) EXCEPT ![m].pc = "plan"]
    /\ UNCHANGED <<coming, injecting, opened, spoken, over>>

\* The plan is there, or it failed or the task was cancelled before, which ends it.
Planned(m) ==
    /\ warm[m].pc = "plan"
    /\ \/ warm' = [warm EXCEPT ![m].pc = "wait"]
       \/ warm' = [warm EXCEPT ![m].pc = "done"]
    /\ UNCHANGED <<messaged, active, runner, coming, injecting, opened, spoken, over>>

PlanCancelled(m) ==
    /\ warm[m].pc = "plan" /\ warm[m].cancelled
    /\ warm' = [warm EXCEPT ![m].pc = "done"]
    /\ UNCHANGED <<messaged, active, runner, coming, injecting, opened, spoken, over>>

\* A variant: the loop runs one line past the plan.
LineDuePastPlan(m) ==
    /\ warm[m].pc = "wait" /\ warm[m].line <= Lines
    /\ warm' = [warm EXCEPT ![m].started = TRUE, ![m].line = @ + 1,
                            ![m].pc = IF warm[m].started \/ warm[m].ended THEN "speak"
                                      ELSE "start"]
    /\ UNCHANGED <<messaged, active, runner, coming, injecting, opened, spoken, over>>

\* run_warmup_task waits for the time of the next line with the parent of the token
\* that cancel sets, which nobody cancels.  Its first line marks the speech started.
LineDue(m) ==
    /\ warm[m].pc = "wait" /\ warm[m].line < Lines
    /\ warm' = [warm EXCEPT ![m].started = TRUE, ![m].line = @ + 1,
                            ![m].pc = IF warm[m].started \/ warm[m].ended THEN "speak"
                                      ELSE "start"]
    /\ UNCHANGED <<messaged, active, runner, coming, injecting, opened, spoken, over>>

LineStarts(m) ==
    /\ warm[m].pc = "start"
    /\ spoken' = Say("start", m)
    /\ warm' = [warm EXCEPT ![m].pc = "speak"]
    /\ UNCHANGED <<messaged, active, runner, coming, injecting, opened, over>>

LineSpoken(m) ==
    /\ warm[m].pc = "speak"
    /\ spoken' = Say("line", m)
    /\ warm' = [warm EXCEPT ![m].pc = "wait"]
    /\ UNCHANGED <<messaged, active, runner, coming, injecting, opened, over>>

\* The response handler spawns a task for each fragment it is handed.
FragmentArrives(m) ==
    /\ m \in messaged /\ coming[m] <= Fragments
    /\ injecting' = injecting \cup {<<m, coming[m]>>}
    /\ coming' = [coming EXCEPT ![m] = @ + 1]
    /\ UNCHANGED <<messaged, active, runner, warm, opened, spoken, over>>

\* A variant: only the first fragment opens the stream.
OpensIfFirst(m, k, tasks) ==
    k = 1 /\ m \notin opened /\ ~ (active = m /\ tasks[m].started)

\* Whether a fragment sends the START: whichever comes first does, unless the warm-up
\* has started the speech.
Opens(m, k, tasks) == m \notin opened /\ ~ (active = m /\ tasks[m].started)

\* inject_openclaw_response.  The first fragment (is_start) cancels the warm-up and
\* marks its speech started; the stream is opened with a START unless the warm-up has
\* started the speech; the last fragment ends the turn, the stream and the warm-up.
Inject(m, k) ==
    LET first  == k = 1
        last   == k = Fragments
        has    == active = m
        begins == first /\ has /\ ~ warm[m].started /\ ~ warm[m].ended
        cancel == (first /\ has) \/ (last /\ ~ first)
        tasks  == [warm EXCEPT ![m].cancelled = @ \/ (cancel /\ has),
                               ![m].started = @ \/ begins]
        prefix == IF begins \/ Opens(m, k, tasks) THEN <<[kind |-> "start", of |-> m]>> ELSE <<>>
        suffix == IF last THEN <<[kind |-> "finish", of |-> m]>> ELSE <<>>
    IN  /\ <<m, k>> \in injecting /\ injecting' = injecting \ {<<m, k>>}
        /\ spoken' = spoken \o prefix \o <<[kind |-> "text", of |-> m]>> \o suffix
        /\ opened' = IF last THEN opened \ {m} ELSE opened \cup {m}
        /\ over' = IF last THEN over \cup {m} ELSE over
        /\ IF last
           THEN /\ warm' = Finished(m, tasks)
                /\ active' = IF has THEN NoAsk ELSE active
                /\ runner' = IF has THEN NoAsk ELSE runner
           ELSE warm' = tasks /\ UNCHANGED <<active, runner>>
        /\ UNCHANGED <<messaged, coming>>

\* reset_openclaw_mode_on_hello spawns a finish of whatever is active then.
HelloFinishes ==
    /\ active # NoAsk
    /\ warm' = Finished(NoAsk, warm)
    /\ active' = NoAsk /\ runner' = NoAsk
    /\ UNCHANGED <<messaged, coming, injecting, opened, spoken, over>>

ClawWarmupNext ==
    \/ \E m \in Asks : \/ Ask(m) \/ Planned(m) \/ PlanCancelled(m) \/ LineDue(m)
                       \/ LineStarts(m) \/ LineSpoken(m) \/ FragmentArrives(m)
    \/ \E f \in injecting : Inject(f[1], f[2])
    \/ HelloFinishes

ClawWarmupSpec == ClawWarmupInit /\ [][ClawWarmupNext]_clawWarmupVars

-----------------------------------------------------------------------------

Sounds == [kind : {"start", "line", "text", "finish"}, of : Asks]

ClawWarmupTypeOK ==
    /\ messaged \subseteq Asks /\ active \in Asks \cup {NoAsk} /\ runner \in Asks \cup {NoAsk}
    /\ warm \in [Asks -> [pc : {"none", "plan", "wait", "start", "speak", "done", "aborted"},
                          line : 0 .. Lines, cancelled : BOOLEAN, started : BOOLEAN,
                          ended : BOOLEAN]]
    /\ coming \in [Asks -> 1 .. Fragments + 1] /\ injecting \subseteq Asks \X (1 .. Fragments)
    /\ opened \subseteq Asks /\ over \subseteq Asks
    /\ spoken \in Seq(Sounds)

\* No warm-up outlives its answer or another warm-up: once the last fragment was
\* injected, and once another message was asked, its task speaks no more lines.  The
\* token does not see to that, the abort of the handle does.
WarmupEndsWithAnswer ==
    \A m \in Asks : warm[m].pc \in {"plan", "wait", "start", "speak"} =>
        m = runner /\ m = active /\ m \notin over

\* Whichever fragment of an answer is injected first, its text comes after a START of
\* the message, also when the warm-up was cancelled, replaced or ended meanwhile.  The
\* one exception is a warm-up that has marked its speech started and not yet sent the START.
TextAfterStart ==
    [][\A m \in Asks :
          m \notin opened
          /\ (\E i \in Len(spoken) + 1 .. Len(spoken') : spoken'[i] = [kind |-> "text", of |-> m])
            => \/ warm[m].pc = "start"
               \/ \E j \in DOMAIN spoken' : spoken'[j] = [kind |-> "start", of |-> m]]_clawWarmupVars

=============================================================================
