----------------------------- MODULE MCDialogue ------------------------------
(***************************************************************************)
(* A session listens, and its speaking turns share the session's TTS.      *)
(* Each has the other as its environment; they share no state here: a      *)
(* behaviour picks one part and runs it, and the other holds nothing.      *)
(***************************************************************************)
EXTENDS TtsTurn, ListenFlow, TLC

VARIABLE part

dialogueVars == <<part, vars, listenFlowVars>>

\* What the variables of a part that does not run hold.
Nothing == "nothing"

TurnsRests == turn = Nothing /\ item = Nothing /\ seq = Nothing /\ dropped = Nothing /\
    jobs = Nothing /\ ttsq = Nothing /\ worker = Nothing /\ gen = Nothing /\ queue = Nothing /\
    delayed = Nothing /\ ready = Nothing /\ sender = Nothing /\ irq = Nothing /\ pend = Nothing /\
    active = Nothing /\ wire = Nothing /\ caller = Nothing /\ ended = Nothing /\ lost = Nothing
ListenFlowRests == state = Nothing /\ pipe = Nothing /\ live = Nothing /\ ear = Nothing /\
    stale = Nothing /\ out = Nothing /\ prior = Nothing /\ watchdog = Nothing /\ odd = Nothing

DialogueInit ==
    /\ part \in {"turns", "listen"}
    /\ IF part = "turns" THEN Init ELSE TurnsRests
    /\ IF part = "listen" THEN ListenFlowInit ELSE ListenFlowRests

DialogueNext ==
    /\ UNCHANGED part
    /\ \/ part = "turns" /\ Next /\ UNCHANGED listenFlowVars
       \/ part = "listen" /\ ListenFlowNext /\ UNCHANGED vars

DialogueSpec == DialogueInit /\ [][DialogueNext]_dialogueVars

\* The property of listening says nothing of what follows a disturbance.
Undisturbed == part = "listen" => odd = {}

\* The types of the part that runs.
DialogueTypeOK ==
    /\ part = "turns" => TypeOK
    /\ part = "listen" => ListenFlowTypeOK

\* The turns that share a session's TTS leave no interrupt pending, count their texts and are told
\* of their end once.
TurnsAreAccounted == part = "turns" => PendingStopHasOwner /\ JobsBalanced /\ OnEndAccounted

\* A session that is told to listen does listen, until it is told to stop or its time is over,
\* whatever speech, greeting or earlier listening is still on its way.
SessionListens == part = "listen" => ListenIsWhole

Symmetry == Permutations(Turns) \cup Permutations(Callers)
=============================================================================
