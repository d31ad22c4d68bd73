--------------------------- MODULE MCConversation ---------------------------
(***************************************************************************)
(* The parts of a conversation that wait for a device, for a peer's answer *)
(* or for each other: the MCP session of a device, the speak path, the     *)
(* warm-up before an agent's answer, the agents' sockets, the notices for  *)
(* devices that are away and the agents' answers.  They share no state: a  *)
(* behaviour picks one part and runs it, for interleaving them would reach *)
(* no state of a part that the part alone does not reach.                  *)
(***************************************************************************)
EXTENDS DeviceMcp, SpeakPath, ClawWarmup, ClawAgents, ClawOffline, ClawSpeech

CONSTANT MaxBegun  \* bound: tasks that talk to the device's MCP

VARIABLE part

clawVars == <<clawAgentsVars, clawOfflineVars, clawSpeechVars>>
notMcp == <<part, speakVars, clawWarmupVars, clawVars>>
notSpeak == <<part, mcpVars, clawWarmupVars, clawVars>>
notWarmup == <<part, mcpVars, speakVars, clawVars>>
notClaw == <<part, mcpVars, speakVars, clawWarmupVars>>
conversationVars == <<part, mcpVars, speakVars, clawWarmupVars, clawVars>>

\* What the variables of an agent's part that does not run hold.
Nothing == "nothing"

ClawAgentsRests == conn = Nothing /\ replaced = Nothing /\ current = Nothing /\ closed = Nothing /\
    mode = Nothing /\ wanted = Nothing /\ pendingIn = Nothing /\ stream = Nothing /\
    sent = Nothing /\ resent = Nothing /\ emitted = Nothing /\ finished = Nothing /\ raced = Nothing
ClawOfflineRests == online = Nothing /\ offlineQ = Nothing /\ queued = Nothing /\
    dropped = Nothing /\ heard = Nothing /\ replay = Nothing /\ overlap = Nothing
ClawSpeechRests == speech = Nothing /\ manner = Nothing /\ told = Nothing /\ frames = Nothing /\
    answer = Nothing /\ handedOn = Nothing /\ alike = Nothing

ConversationInit ==
    /\ part \in {"mcp", "speak", "warmup", "agents", "offline", "answers"}
    /\ McpInit /\ SpeakInit /\ ClawWarmupInit
    /\ IF part = "agents" THEN ClawAgentsInit ELSE ClawAgentsRests
    /\ IF part = "offline" THEN ClawOfflineInit ELSE ClawOfflineRests
    /\ IF part = "answers" THEN ClawSpeechInit ELSE ClawSpeechRests
    /\ part # "speak" => path.session  \* one way for a part to rest while another runs

ConversationNext ==
    \/ /\ part = "mcp" /\ McpNext /\ UNCHANGED notMcp
       /\ Cardinality({t \in Tasks : task'[t].pc # "idle"}) <= MaxBegun
    \/ part = "speak" /\ SpeakNext /\ UNCHANGED notSpeak
    \/ part = "warmup" /\ ClawWarmupNext /\ UNCHANGED notWarmup
    \/ /\ UNCHANGED notClaw
       /\ \/ part = "agents" /\ ClawAgentsNext /\ UNCHANGED <<clawOfflineVars, clawSpeechVars>>
          \/ part = "offline" /\ ClawOfflineNext /\ UNCHANGED <<clawAgentsVars, clawSpeechVars>>
          \/ part = "answers" /\ ClawSpeechNext /\ UNCHANGED <<clawAgentsVars, clawOfflineVars>>

\* The fairness of each part, for the part that runs.
ConversationSpec ==
    /\ ConversationInit /\ [][ConversationNext]_conversationVars
    /\ \A t \in Tasks : WF_mcpVars(part = "mcp" /\ McpProgress(t) /\ UNCHANGED notMcp)
    /\ \A s \in Speakers : WF_speakVars(part = "speak" /\ SpeakProgress(s) /\ UNCHANGED notSpeak)
    /\ \A f \in Finishers : WF_speakVars(part = "speak" /\ FinishStep(f) /\ UNCHANGED notSpeak)

\* The types of the part that runs.
ConversationTypeOK ==
    /\ part = "mcp" => McpTypeOK
    /\ part = "speak" => SpeakTypeOK
    /\ part = "warmup" => ClawWarmupTypeOK
    /\ part = "agents" => ClawAgentsTypeOK
    /\ part = "offline" => ClawOfflineTypeOK
    /\ part = "answers" => ClawSpeechTypeOK

\* What agents say is spoken once: by the latest socket of the agent, each frame and each notice
\* once, every word of an answer once and in order.
AgentsAreHeard ==
    /\ part = "agents" => LatestAgentServes /\ FrameOnce
    /\ part = "offline" => NoticeSpokenOnce
    /\ part = "answers" => AnswerIsSpoken
=============================================================================
