----------------------------- MODULE ClawAgents -----------------------------
(***************************************************************************)
(* OpenClawManager and the connections of one agent: an agent connects,    *)
(* replaces its older connection, and disconnects; a device that talks to  *)
(* it enters and leaves the OpenClaw mode and sends messages; the agent    *)
(* streams its answer in numbered frames, some of them twice, over any of  *)
(* its connections that is still read.                                     *)
(*                                                                         *)
(* One device and one agent.  A frame stands for the sentences it          *)
(* completes; how the text is cut into sentences is left out.              *)
(***************************************************************************)
EXTENDS Integers, FiniteSets

CONSTANTS Conns,     \* connections of the agent, each used once
          NoConn,    \* no connection
          Messages,  \* messages of the device
          Frames,    \* bound: frames of an answer; the last one says done
          Resends    \* bound: frames the agent sends again

ASSUME ClawAgentsAssumption ==
    /\ IsFiniteSet(Conns) /\ NoConn \notin Conns /\ IsFiniteSet(Messages)
    /\ Frames \in Nat \ {0} /\ Resends \in Nat

VARIABLES
    conn,      \* where each connection is in handle_openclaw_socket
    replaced,  \* the session its registration found
    current,   \* the agent's entry in agent_sessions, or NoConn
    closed,    \* sessions with the flag closed
    mode,      \* sessions in which the device is in OpenClaw mode
    wanted,    \* what the device last asked for, and was told
    pendingIn, \* message |-> the session that tracks it as pending, or NoConn
    stream,    \* session and message |-> last_seq of the stream, or -1
    sent,      \* frames the agent has sent of each answer; -1 if it did not get the message
    resent,    \* frames it has sent again
    emitted,   \* how often each frame was handed to the response handler
    finished,  \* answers whose done frame was handled
    raced      \* a change of mode, or a replacement, fell between two steps of another

clawAgentsVars == <<conn, replaced, current, closed, mode, wanted, pendingIn, stream,
                    sent, resent, emitted, finished, raced>>
linkVars == <<conn, replaced, current, closed, mode, wanted, raced>>
answerVars == <<pendingIn, stream, sent, resent, emitted, finished>>

ClawAgentsInit ==
    /\ conn = [c \in Conns |-> "new"] /\ replaced = [c \in Conns |-> NoConn]
    /\ current = NoConn /\ closed = {} /\ mode = {} /\ wanted = FALSE
    /\ pendingIn = [m \in Messages |-> NoConn]
    /\ stream = [c \in Conns |-> [m \in Messages |-> -1]]
    /\ sent = [m \in Messages |-> 0] /\ resent = 0
    /\ emitted = [m \in Messages |-> [f \in 1 .. Frames |-> 0]]
    /\ finished = {} /\ raced = FALSE

-----------------------------------------------------------------------------

\* register_agent_connection: the new session is in the map before it has the modes
\* of the old one.
AgentInsert(c) ==
    /\ conn[c] = "new" /\ conn' = [conn EXCEPT ![c] = "copy"]
    /\ replaced' = [replaced EXCEPT ![c] = current]
    /\ current' = c
    /\ raced' = (raced \/ \E d \in Conns : conn[d] = "remove" \/ conn[d] = "copy")
    /\ UNCHANGED <<closed, mode, wanted, answerVars>>

\* A variant: the modes stay behind.
CopyNoModes(c) ==
    /\ conn[c] = "copy" /\ conn' = [conn EXCEPT ![c] = "open"]
    /\ closed' = closed \cup ({replaced[c]} \ {NoConn})
    /\ UNCHANGED <<replaced, current, mode, wanted, raced, answerVars>>

CopyModes(c) ==
    /\ conn[c] = "copy" /\ conn' = [conn EXCEPT ![c] = "open"]
    /\ mode' = IF replaced[c] \in mode THEN mode \cup {c} ELSE mode
    /\ closed' = closed \cup ({replaced[c]} \ {NoConn})
    /\ UNCHANGED <<replaced, current, wanted, raced, answerVars>>

\* A variant: whoever disconnects unregisters the agent.
CheckNothing(c) ==
    /\ conn[c] = "open"
    /\ conn' = [conn EXCEPT ![c] = "remove"]
    /\ UNCHANGED <<replaced, current, closed, mode, wanted, raced, answerVars>>

\* unregister_agent_connection compares the entry, lets it go, and removes it by key.
CheckCurrent(c) ==
    /\ conn[c] = "open"
    /\ conn' = [conn EXCEPT ![c] = IF current = c THEN "remove" ELSE "close"]
    /\ UNCHANGED <<replaced, current, closed, mode, wanted, raced, answerVars>>

RemoveAgent(c) ==
    /\ conn[c] = "remove" /\ conn' = [conn EXCEPT ![c] = "close"]
    /\ current' = NoConn /\ wanted' = FALSE
    /\ UNCHANGED <<replaced, closed, mode, raced, answerVars>>

CloseAgent(c) ==
    /\ conn[c] = "close" /\ conn' = [conn EXCEPT ![c] = "gone"]
    /\ closed' = closed \cup {c}
    /\ UNCHANGED <<replaced, current, mode, wanted, raced, answerVars>>

\* enter_mode and exit_mode act on the session the map holds.
SetMode(on) ==
    /\ current # NoConn
    /\ mode' = IF on THEN mode \cup {current} ELSE mode \ {current}
    /\ wanted' = on
    /\ raced' = (raced \/ conn[current] = "copy")
    /\ UNCHANGED <<conn, replaced, current, closed, answerVars>>

\* try_route_openclaw, send_message: the message is tracked before it is sent, and
\* stays tracked when its writer has ended with the socket; the mode is left then.
SendMessage(m) ==
    /\ current \in mode /\ pendingIn[m] = NoConn
    /\ pendingIn' = [pendingIn EXCEPT ![m] = current]
    /\ \/ UNCHANGED <<mode, wanted, sent>>
       \/ mode' = mode \ {current} /\ wanted' = FALSE /\ sent' = [sent EXCEPT ![m] = -1]
    /\ UNCHANGED <<conn, replaced, current, closed, raced, stream, resent, emitted, finished>>

Read(c) == conn[c] = "open"

\* A frame is routed by the device it names, by its stream, or by the message tracked
\* in the session it came over; else it is dropped.
Routed(c, m) ==
    \/ stream[c][m] >= 0 \/ pendingIn[m] = c

\* A variant: numbers are not compared.
FreshAlways(c, m, f) == TRUE
Fresh(c, m, f) == stream[c][m] <= 0 \/ f > stream[c][m]

\* handle_response of a frame: one that is not newer than the stream is ignored, the
\* done frame removes the stream and the tracked message.
HandleFrame(c, m, f) ==
    IF ~ Fresh(c, m, f) THEN UNCHANGED <<emitted, stream, pendingIn, finished>>
    ELSE /\ emitted' = [emitted EXCEPT ![m][f] = @ + 1]
         /\ IF f = Frames
            THEN /\ stream' = [stream EXCEPT ![c][m] = -1]
                 /\ pendingIn' = [pendingIn EXCEPT ![m] = IF @ = c THEN NoConn ELSE @]
                 /\ finished' = finished \cup {m}
            ELSE /\ stream' = [stream EXCEPT ![c][m] = f]
                 /\ UNCHANGED <<pendingIn, finished>>

\* The agent answers over a connection that is read; it may or may not name the device.
Frame(c, m, f) ==
    /\ Read(c)
    /\ \/ HandleFrame(c, m, f)
       \/ ~ Routed(c, m) /\ UNCHANGED <<emitted, stream, pendingIn, finished>>
    /\ UNCHANGED linkVars

NextFrame(c, m) ==
    /\ pendingIn[m] # NoConn \/ sent[m] > 0
    /\ sent[m] \in 0 .. Frames - 1 /\ sent' = [sent EXCEPT ![m] = @ + 1]
    /\ Frame(c, m, sent[m] + 1)
    /\ UNCHANGED resent

SameFrame(c, m) ==
    /\ resent < Resends /\ resent' = resent + 1
    /\ \E f \in 1 .. sent[m] : Frame(c, m, f)
    /\ UNCHANGED sent

ClawAgentsNext ==
    \/ \E c \in Conns : \/ AgentInsert(c) \/ CopyModes(c)
                        \/ CheckCurrent(c) \/ RemoveAgent(c) \/ CloseAgent(c)
    \/ \E on \in BOOLEAN : SetMode(on)
    \/ \E m \in Messages : SendMessage(m)
    \/ \E c \in Conns, m \in Messages : NextFrame(c, m) \/ SameFrame(c, m)

ClawAgentsSpec == ClawAgentsInit /\ [][ClawAgentsNext]_clawAgentsVars

-----------------------------------------------------------------------------

ClawAgentsTypeOK ==
    /\ conn \in [Conns -> {"new", "copy", "open", "remove", "close", "gone"}]
    /\ replaced \in [Conns -> Conns \cup {NoConn}] /\ current \in Conns \cup {NoConn}
    /\ closed \subseteq Conns /\ mode \subseteq Conns
    /\ wanted \in BOOLEAN /\ raced \in BOOLEAN
    /\ pendingIn \in [Messages -> Conns \cup {NoConn}]
    /\ stream \in [Conns -> [Messages -> -1 .. Frames]]
    /\ sent \in [Messages -> -1 .. Frames] /\ resent \in 0 .. Resends
    /\ emitted \in [Messages -> [1 .. Frames -> Nat]] /\ finished \subseteq Messages

\* A connection that ends late does not take away the one that replaced it, nor its
\* modes: the latest connection is registered, is not closed, and is in the mode the
\* device was told, however older ones are torn down.  Only a replacement, or a change of
\* mode, between two steps of another registration or removal breaks it.
LatestAgentServes ==
    raced \/ \A c \in Conns : conn[c] = "open" /\ (\A d \in Conns : replaced[d] # c) =>
                 current = c /\ c \notin closed /\ (c \in mode <=> wanted)

\* A frame that comes twice is spoken once.  It is spoken again only when the answer
\* was done, which forgets its numbers, or over another connection of the agent.
FrameOnce ==
    \A m \in Messages, f \in 1 .. Frames :
        emitted[m][f] > 1 => m \in finished \/ Cardinality({c \in Conns : conn[c] # "new"}) > 1
=============================================================================
