------------------------------ MODULE LlmStream ------------------------------
(***************************************************************************)
(* One language model of xiaozhi-llm and the turns it answers, one after   *)
(* the other.  OpenAI's answer is read line by line as it arrives, its     *)
(* tool calls are put together from their fragments and told at the end.   *)
(* Coze and Dify read the whole body and then its events; they keep the    *)
(* conversation the service gave a session, and Coze asks again without    *)
(* its connector or the conversation when a request is refused.  The       *)
(* reader (llm_manager) takes the answer from a channel.                   *)
(*                                                                         *)
(* The services are the environment.                                       *)
(***************************************************************************)
EXTENDS Integers, Sequences, SequencesExt

CONSTANTS MaxTurns,   \* bound: turns of the session
          MaxWords,   \* bound: pieces of text of an answer
          MaxArgs,    \* bound: fragments of the arguments of its tool call
          ChanCap     \* capacity of the channel

ASSUME LlmStreamAssumption == {MaxTurns, MaxWords, MaxArgs} \subseteq Nat /\ ChanCap \in Nat \ {0}

LlmTurns == 1 .. MaxTurns
None == 0

VARIABLES
    model,   \* "openai", "coze" or "dify"
    plan,    \* of the service: [connector, expires, named]: does it refuse the connector, does a
             \* conversation expire, does it name its events in a line of their own
    asked,    \* the state of each turn
    conv     \* the conversation kept for the session, or None; they are numbered by their turns

llmStreamVars == <<model, plan, asked, conv>>

Unanswered == [at |-> "idle", tries |-> <<>>, had |-> None, with |-> None, reader |-> "on",
           said |-> 0, args |-> 0, state |-> "none", body |-> <<>>, seen |-> FALSE,
           call |-> [name |-> FALSE, args |-> 0],
           chan |-> <<>>, heard |-> <<>>, odd |-> {}]

LlmStreamInit ==
    /\ model \in {"openai", "coze", "dify"}
    /\ plan \in [connector : BOOLEAN, expires : BOOLEAN, named : BOOLEAN]
    /\ model # "coze" => plan.connector /\ plan.named
    /\ model = "openai" => ~ plan.expires
    /\ asked = [t \in LlmTurns |-> Unanswered]
    /\ conv = None

Word(i) == [is |-> "word", i |-> i]
CallOf(n) == [is |-> "call", i |-> n]
WholeText(n) == [is |-> "whole", i |-> n]
Error == [is |-> "error", i |-> 0]

MayAsk(t) == asked[t].at = "idle" /\ \A s \in LlmTurns : s < t => asked[s].at = "over" \/ asked[s].reader = "left"

\* The task waits for room in the channel; a reader that has left makes it go on at once.
Sends(t, msg) ==
    IF asked[t].reader = "left" THEN asked[t].chan
    ELSE Append(asked[t].chan, msg)
ChanRoom(t) == asked[t].reader = "left" \/ Len(asked[t].chan) < ChanCap

\* try_send: what finds the channel full is dropped.
Tries(t, msg) == IF ChanRoom(t) THEN Sends(t, msg) ELSE asked[t].chan
Missed(t) == IF ChanRoom(t) THEN asked[t].odd ELSE asked[t].odd \cup {"full"}

-----------------------------------------------------------------------------
\* OpenAI

AsksOpenAi(t) ==
    /\ MayAsk(t) /\ model = "openai"
    /\ \E ok \in BOOLEAN :
           asked' = [asked EXCEPT ![t].at = IF ok THEN "reading" ELSE "over",
                                ![t].odd = IF ok THEN @ ELSE {"refused"},
                                ![t].state = IF ok THEN "words" ELSE @]
    /\ UNCHANGED <<model, plan, conv>>

\* A line of the body is there: a piece of text.  One that a chunk cut inside a character is
\* spoiled, since each chunk is decoded on its own.
OpenAiWord(t) ==
    /\ model = "openai" /\ asked[t].at = "reading" /\ asked[t].state = "words" /\ asked[t].said < MaxWords
    /\ ChanRoom(t)
    /\ \E spoiled \in BOOLEAN :
           asked' = [asked EXCEPT ![t].said = @ + 1,
                                ![t].chan = Sends(t, Word(IF spoiled THEN 0 ELSE asked[t].said + 1)),
                                ![t].odd = IF spoiled THEN @ \cup {"spoiled"} ELSE @]
    /\ UNCHANGED <<model, plan, conv>>

\* A variant: a fragment replaces the one before.
MergedCallLast(call, fragment) ==
    IF fragment = 0 THEN [call EXCEPT !.name = TRUE] ELSE [call EXCEPT !.args = 1]

\* merge_delta: the first fragment names the call, the others are appended to its arguments.
MergedCall(call, fragment) ==
    IF fragment = 0 THEN [call EXCEPT !.name = TRUE] ELSE [call EXCEPT !.args = @ + 1]

OpenAiFragment(t) ==
    /\ model = "openai" /\ asked[t].at = "reading" /\ asked[t].args < MaxArgs + 1
    /\ asked' = [asked EXCEPT ![t].state = "args", ![t].args = @ + 1,
                            ![t].call = MergedCall(@, asked[t].args)]
    /\ UNCHANGED <<model, plan, conv>>

\* [DONE], or the end of the body without it; a connection that breaks ends the answer as well,
\* and what there is of a call is told.
OpenAiEnds(t) ==
    /\ model = "openai" /\ asked[t].at = "reading"
    /\ asked[t].call.name => ChanRoom(t)
    /\ \E broken \in BOOLEAN :
           asked' = [asked EXCEPT ![t].at = "over",
                                ![t].chan = IF asked[t].call.name THEN Sends(t, CallOf(asked[t].call.args)) ELSE @,
                                ![t].odd = IF broken THEN @ \cup {"broken"} ELSE @]
    /\ UNCHANGED <<model, plan, conv>>

-----------------------------------------------------------------------------
\* Coze and Dify: asking

\* build_request_bodies: with and without the connector, with and without the conversation.
Body(connector, with) == [connector |-> connector, with |-> with]
\* A variant: the conversation is never given up.
BodiesInConversation ==
    IF model = "dify" THEN <<Body(FALSE, conv)>> ELSE <<Body(TRUE, conv), Body(FALSE, conv)>>

Bodies ==
    IF model = "dify" THEN <<Body(FALSE, conv)>>
    ELSE <<Body(TRUE, conv), Body(FALSE, conv)>>
         \o (IF conv = None THEN <<>> ELSE <<Body(TRUE, None), Body(FALSE, None)>>)

AsksBody(t) ==
    /\ MayAsk(t) /\ model \in {"coze", "dify"}
    /\ asked' = [asked EXCEPT ![t].at = "asking", ![t].tries = Bodies, ![t].had = conv]
    /\ UNCHANGED <<model, plan, conv>>

\* The service refuses a connector it does not know and a conversation that has expired.
Accepts(ask) == (ask.connector => plan.connector) /\ (ask.with # None => ~ plan.expires)

\* The next body is tried after any failure; when none is left the reader is told.
AskFails(t) ==
    /\ asked[t].at = "asking"
    /\ \E why \in {"refused", "trouble"} :
           /\ why = "refused" => ~ Accepts(Head(asked[t].tries))
           /\ asked' = [asked EXCEPT
                  ![t].tries = Tail(@),
                  ![t].odd = IF why = "trouble" THEN @ \cup {"trouble"} ELSE @,
                  ![t].at = IF Len(asked[t].tries) = 1 THEN "over" ELSE @,
                  ![t].chan = IF Len(asked[t].tries) = 1 THEN Tries(t, Error) ELSE @]
    /\ UNCHANGED <<model, plan, conv>>

\* The body is read to its end before its events are looked at; the service says the words of
\* the answer, all of it once more (Coze), and that the answer is finished or failed.
BodyComes(t) ==
    /\ asked[t].at = "asking" /\ Accepts(Head(asked[t].tries))
    /\ \E n \in 0 .. MaxWords, end \in {"finished", "failed"} :
           asked' = [asked EXCEPT
               ![t].at = "telling", ![t].said = n, ![t].with = Head(asked[t].tries).with, ![t].state = end,
               ![t].body = [i \in 1 .. n |-> Word(i)]
                           \o (IF model = "coze" /\ end = "finished" /\ n > 0 THEN <<WholeText(n)>> ELSE <<>>)
                           \o <<[is |-> end, i |-> 0]>>]
    /\ UNCHANGED <<model, plan, conv>>

\* A body of Dify's that breaks off is taken for an empty one.
BodyBreaks(t) ==
    /\ model = "dify" /\ asked[t].at = "asking" /\ Accepts(Head(asked[t].tries))
    /\ asked' = [asked EXCEPT ![t].at = "over", ![t].odd = @ \cup {"broken"}]
    /\ UNCHANGED <<model, plan, conv>>

-----------------------------------------------------------------------------
\* Coze and Dify: the events

HasEvents(t) == asked[t].at = "telling" /\ asked[t].body # <<>>
Event(t) == Head(asked[t].body)

\* The service names the conversation with each event: the one it was asked in, or a new one.
KeepsConversation(t) == conv' = IF asked[t].with = None THEN t ELSE asked[t].with

\* A stream that does not name its events in lines of their own gives each the name "message".
NamedEvent(t) == IF plan.named THEN Event(t).is ELSE "other"

CozeTells(t, msg) ==
    asked' = [asked EXCEPT ![t].body = Tail(@), ![t].chan = Tries(t, msg), ![t].odd = Missed(t), ![t].seen = TRUE]

CozeDelta(t) == NamedEvent(t) = "word" /\ CozeTells(t, Event(t))

\* The whole answer is told only if no word of it was.
CozeCompleted(t) ==
    /\ NamedEvent(t) = "whole"
    /\ IF asked[t].seen THEN asked' = [asked EXCEPT ![t].body = Tail(@)] ELSE CozeTells(t, Event(t))

CozeFinished(t) ==
    /\ NamedEvent(t) = "finished"
    /\ asked' = [asked EXCEPT ![t].body = <<>>, ![t].at = "over"]

CozeFailed(t) ==
    /\ NamedEvent(t) = "failed"
    /\ asked' = [asked EXCEPT ![t].body = <<>>, ![t].at = "over", ![t].chan = Tries(t, Error), ![t].odd = Missed(t)]

\* Any other event tells its text; the end comes with the end of the body.
CozeOther(t) ==
    /\ NamedEvent(t) = "other"
    /\ IF Event(t).is \in {"word", "whole"}
       THEN asked' = [asked EXCEPT ![t].body = Tail(@), ![t].chan = Tries(t, Event(t)),
                                 ![t].odd = Missed(t) \cup {"unnamed"}, ![t].seen = TRUE]
       ELSE asked' = [asked EXCEPT ![t].body = Tail(@), ![t].odd = @ \cup {"unnamed"}, ![t].at = "over"]

CozeEvent(t) ==
    /\ model = "coze" /\ HasEvents(t) /\ KeepsConversation(t)
    /\ CozeDelta(t) \/ CozeCompleted(t) \/ CozeFinished(t) \/ CozeFailed(t) \/ CozeOther(t)
    /\ UNCHANGED <<model, plan>>

\* Dify waits for room, and only an error is dropped.
DifyEvent(t) ==
    /\ model = "dify" /\ HasEvents(t) /\ KeepsConversation(t)
    /\ \/ /\ Event(t).is = "word" /\ ChanRoom(t)
          /\ asked' = [asked EXCEPT ![t].body = Tail(@), ![t].chan = Sends(t, Event(t))]
       \/ /\ Event(t).is = "finished"
          /\ asked' = [asked EXCEPT ![t].body = <<>>, ![t].at = "over"]
       \/ /\ Event(t).is = "failed"
          /\ asked' = [asked EXCEPT ![t].body = <<>>, ![t].at = "over", ![t].chan = Tries(t, Error), ![t].odd = Missed(t)]
    /\ UNCHANGED <<model, plan>>

-----------------------------------------------------------------------------
\* The reader (llm_manager)

HearsAnswer(t) ==
    /\ asked[t].chan # <<>> /\ asked[t].reader = "on"
    /\ asked' = [asked EXCEPT ![t].chan = Tail(@), ![t].heard = Append(@, Head(asked[t].chan))]
    /\ UNCHANGED <<model, plan, conv>>

\* The turn is cancelled: the receiver is dropped.
LeavesAnswer(t) ==
    /\ asked[t].reader = "on" /\ asked[t].at \in {"reading", "telling"}
    /\ asked' = [asked EXCEPT ![t].reader = "left", ![t].chan = <<>>]
    /\ UNCHANGED <<model, plan, conv>>

-----------------------------------------------------------------------------
LlmStreamNext ==
    \E t \in LlmTurns :
        \/ AsksOpenAi(t) \/ OpenAiWord(t) \/ OpenAiFragment(t) \/ OpenAiEnds(t)
        \/ AsksBody(t) \/ AskFails(t) \/ BodyComes(t) \/ BodyBreaks(t)
        \/ CozeEvent(t) \/ DifyEvent(t)
        \/ HearsAnswer(t) \/ LeavesAnswer(t)

LlmStreamSpec == LlmStreamInit /\ [][LlmStreamNext]_llmStreamVars

-----------------------------------------------------------------------------
LlmStreamTypeOK ==
    /\ model \in {"openai", "coze", "dify"}
    /\ plan \in [connector : BOOLEAN, expires : BOOLEAN, named : BOOLEAN]
    /\ conv \in LlmTurns \cup {None}
    /\ \A t \in LlmTurns :
           /\ asked[t].at \in {"idle", "asking", "reading", "telling", "over"}
           /\ asked[t].reader \in {"on", "left"}
           /\ asked[t].said \in 0 .. MaxWords /\ asked[t].args \in 0 .. MaxArgs + 1
           /\ Len(asked[t].chan) <= ChanCap
           /\ asked[t].odd \subseteq {"refused", "trouble", "spoiled", "broken", "full", "unnamed"}

\* What the reader has when the turn is over: what it heard and what is still in the channel.
AnswerOf(t) == asked[t].heard \o asked[t].chan
Stays(t) == asked[t].at = "over" /\ asked[t].reader = "on"

\* The answer q begins with the first n words, in order, and says no other.
WordsFirst(q, n) ==
    /\ n <= Len(q)
    /\ \A i \in DOMAIN q : IF i <= n THEN q[i] = Word(i) ELSE q[i].is \notin {"word", "whole"}

\* A reader that stays has every word of the answer once and in order, the whole of a call after
\* its words, and an error if the service failed.  Excused are an answer that broke off, a piece
\* that a chunk cut inside a character, a channel of Coze that was full, and events without names.
AnswerIsHeard ==
    \A t \in LlmTurns :
        Stays(t) /\ asked[t].odd \subseteq {"trouble"} =>
            /\ WordsFirst(AnswerOf(t), asked[t].said)
            /\ asked[t].args > 0 => Contains(AnswerOf(t), CallOf(asked[t].args - 1))
            /\ asked[t].state = "failed" => Last(AnswerOf(t)) = Error

\* Coze tells of a failure only when the service did not accept the plainest request or there was
\* trouble; a conversation that expired or a connector costs a request, not the turn.
PlainIsTried ==
    \A t \in LlmTurns :
        model = "coze" /\ asked[t].at = "over" /\ asked[t].state = "none" => "trouble" \in asked[t].odd

\* A turn goes on with the conversation that was kept when it was asked, unless a request with it
\* failed: the service may have let it expire.
ConversationGoesOn ==
    \A t \in LlmTurns :
        asked[t].at \in {"telling", "over"} /\ asked[t].state # "none" /\ asked[t].with # asked[t].had =>
            plan.expires \/ "trouble" \in asked[t].odd

\* An answer is heard as it is said, whatever can be asked for is, in the conversation it belongs to.
AnswersAreWhole == AnswerIsHeard /\ PlainIsTried /\ ConversationGoesOn
=============================================================================
