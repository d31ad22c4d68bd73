--------------------------- MODULE DialogueMemory ---------------------------
(***************************************************************************)
(* What one device's conversation leaves behind, in three places that are  *)
(* written one after the other: the dialogue of the session, the memory    *)
(* of its agent and the chat history of the console.  A turn builds its    *)
(* request from the dialogue, runs the model's tool calls on a copy of it, *)
(* and keeps the reply; meanwhile the device may come back and resume an   *)
(* old session from the history, the session may end, and the console may  *)
(* delete rows or give the device to another account.                      *)
(*                                                                         *)
(* A text is a number and the reply to it has the same number.  Jobs of    *)
(* the chat queue run one at a time (ChatTurn has the queue, the phases    *)
(* and the abort flag); speech, prompts and tool results are left out.     *)
(***************************************************************************)
EXTENDS Integers, Sequences, FiniteSets, SequencesExt

CONSTANTS Talks,      \* session ids
          Personas,   \* agents the device may be given
          Holders,    \* accounts the device may belong to
          MaxAsked,   \* bound: texts the user says
          MaxHands,   \* bound: owners the device is given
          MaxCalls,   \* bound: calls in one answer of the model
          ToolRounds  \* MAX_TOOL_ROUNDS

ASSUME MemoryAssumption == ToolRounds \in Nat \ {0} /\ MaxCalls \in Nat /\ MaxAsked \in Nat

NoTalk == 0
Unheld == 0     \* the device belongs to nobody

VARIABLES
    talk,       \* session_id of the session, NoTalk when there is none
    persona,    \* agent_id of the session
    dialogue,   \* state.dialogue
    memories,   \* what the memory service has of each agent
    entries,    \* rows of chat_messages, as they were saved: [role, text, talk, user, gone]
    holder,     \* the owner of the device
    asked,      \* texts said so far
    inquiry,    \* the turn: [pc, text, request, round, left, stops, bare, talk, persona]
    resume,     \* a restore: [pc, talk, copy]
    unsaved,    \* messages whose save failed
    apart,      \* messages that are in the history only, and not in the dialogue since
    strayed,    \* what makes the three places differ
    tenure      \* when the device came to its owner: [rows, times]

memoryVars == <<talk, persona, dialogue, memories, entries, holder, asked, inquiry, resume, unsaved,
                apart, strayed, tenure>>

Message(role, n) == [role |-> role, text |-> n]
Prompt == Message("system", 0)
FirstPersona == CHOOSE p \in Personas : TRUE   \* the agent the device starts with
FirstHolder == CHOOSE u \in Holders : TRUE
NoAsk == [pc |-> "wait", text |-> 0, request |-> <<>>, round |-> 0, left |-> 0, stops |-> FALSE,
          bare |-> FALSE, talk |-> NoTalk, persona |-> FirstPersona]
NoResume == [pc |-> "none", talk |-> NoTalk, copy |-> <<>>]

MemoryInit ==
    /\ talk = NoTalk /\ persona = FirstPersona /\ dialogue = <<>>
    /\ memories = [p \in Personas |-> {}]
    /\ entries = <<>> /\ holder = FirstHolder
    /\ asked = 0 /\ inquiry = NoAsk /\ resume = NoResume
    /\ unsaved = {} /\ apart = {} /\ strayed = {} /\ tenure = [rows |-> 0, times |-> 0]

Plain(row) == Message(row.role, row.text)
Live(row) == ~ row.gone
\* list_session_dialogue: what was said in a session, oldest first.
SavedOf(s) == {i \in DOMAIN entries : entries[i].talk = s}
LiveOf(s) == {i \in SavedOf(s) : Live(entries[i])}
Nth(rows, k) == CHOOSE i \in rows : Cardinality({j \in rows : j <= i}) = k
DialogueOf(s) == [k \in 1 .. Cardinality(LiveOf(s)) |-> Plain(entries[Nth(LiveOf(s), k)])]

-----------------------------------------------------------------------------
\* Saving a message: a failure is only logged.  The console fills in who owns the device.

Row(m, s) == [role |-> m.role, text |-> m.text, talk |-> s, user |-> holder, gone |-> FALSE]
Stored(m, s) == entries' = Append(entries, Row(m, s))
Saves(m, s) ==
    \/ Stored(m, s) /\ UNCHANGED unsaved
    \/ unsaved' = unsaved \cup {m} /\ UNCHANGED entries

\* add_message of the memory service: an error is ignored.
Remembers(p, m) ==
    \/ memories' = [memories EXCEPT ![p] = @ \cup {m}] /\ UNCHANGED strayed
    \/ strayed' = strayed \cup {"unheard"} /\ UNCHANGED memories

-----------------------------------------------------------------------------
\* A turn

\* prepare_chat_turn saves what was heard before anything else; a speaker who is not known, or
\* an agent that takes the text, ends the turn without the dialogue hearing of it.
HearAside ==
    /\ inquiry.pc = "wait" /\ talk # NoTalk /\ asked < MaxAsked
    /\ asked' = asked + 1
    /\ LET m == Message("user", asked')
       IN  Saves(m, talk) /\ apart' = apart \cup {m}
    /\ UNCHANGED <<talk, persona, dialogue, memories, holder, inquiry, resume, strayed, tenure>>

\* build_llm_request: the prompt, with what is remembered and found of the matter, and the dialogue.
RequestFor(d) == <<Prompt>> \o d
HearAsk ==
    /\ inquiry.pc = "wait" /\ talk # NoTalk /\ asked < MaxAsked
    /\ asked' = asked + 1
    /\ LET m == Message("user", asked')
       IN  /\ Saves(m, talk)
           /\ dialogue' = Append(dialogue, m)
           /\ Remembers(persona, m)
    /\ \E pc \in {"round", "stream"} :
          inquiry' = [NoAsk EXCEPT !.pc = pc, !.text = asked', !.request = RequestFor(dialogue'),
                               !.bare = (pc = "stream")]
    /\ UNCHANGED <<talk, persona, holder, resume, apart, tenure>>

InquiryGoes(pc) == inquiry' = [inquiry EXCEPT !.pc = pc]
KeepsAll == UNCHANGED <<talk, persona, dialogue, memories, entries, holder, asked, resume, unsaved,
                        apart, strayed, tenure>>

\* A round of handle_llm_request_sync.  The last round does not run its calls.
AnswersRound ==
    /\ inquiry.pc = "round"
    /\ \/ InquiryGoes("reply") /\ inquiry.round < ToolRounds
       \/ InquiryGoes("stream")                      \* no text, an abort, or no round left
       \/ /\ inquiry.round = 0 /\ ToolRounds > 1   \* the hint to use the tools
          /\ inquiry' = [inquiry EXCEPT !.round = 1, !.request = Append(@, Prompt)]
       \/ \E calls \in 1 .. MaxCalls :
             /\ inquiry.round + 1 < ToolRounds
             /\ inquiry' = [inquiry EXCEPT !.pc = "calls", !.left = calls,
                                   !.request = Append(@, Message("calls", calls))]
    /\ KeepsAll

\* What a call gives: a text, which is the error's when it failed, or audio for the player.  A call
\* of a shared server that fails is made a second time (execute_tool after invoke_tool_raw).
ToolResults == {"text", "audio", "unplayable"}
TakesSpeech(result) == result = "audio"

\* A call has run, whatever it gave: its result answers it.  The rest of the calls run even when
\* one of them has taken over the speech and stops the model.
CallRan(stops) ==
    [inquiry EXCEPT !.request = Append(@, Message("tool", inquiry.left)),
                !.left = @ - 1, !.stops = @ \/ stops]
RunCall ==
    /\ inquiry.pc = "calls" /\ inquiry.left > 0
    /\ \E result \in ToolResults : inquiry' = CallRan(TakesSpeech(result))
    /\ KeepsAll

\* clear_conversation_history: the memory service may fail unheard.
NoDialogue == <<>>
ClearsDialogue ==
    /\ inquiry.pc = "calls" /\ inquiry.left > 0 /\ talk # NoTalk
    /\ inquiry' = CallRan(FALSE)
    /\ \/ memories' = [memories EXCEPT ![persona] = {}] /\ UNCHANGED strayed
       \/ UNCHANGED memories /\ strayed' = strayed \cup {"forget"}
    /\ dialogue' = NoDialogue
    /\ apart' = apart \cup ToSet(dialogue)
    /\ UNCHANGED <<talk, persona, entries, holder, asked, resume, unsaved, tenure>>

\* Another role or agent: a call or the console has the session reload it, and a session that
\* starts has it anyway.
Switches ==
    /\ \E p \in Personas \ {persona} : persona' = p
    /\ strayed' = strayed \cup (IF inquiry.pc # "wait" THEN {"switched"} ELSE {})
                           \cup (IF memories[persona] # {} THEN {"swapped"} ELSE {})
    /\ UNCHANGED <<talk, dialogue, memories, entries, holder, asked, inquiry, resume, unsaved,
                   apart, tenure>>

CallsDone ==
    /\ inquiry.pc = "calls" /\ inquiry.left = 0
    /\ inquiry' = IF inquiry.stops THEN NoAsk ELSE [inquiry EXCEPT !.pc = "round", !.round = @ + 1]
    /\ KeepsAll

\* run_streaming_llm_turn: without tools an empty answer is no reply; after the tools a phrase
\* stands for it.
Streams ==
    /\ inquiry.pc = "stream"
    /\ \/ InquiryGoes("reply")
       \/ inquiry.bare /\ inquiry' = NoAsk
    /\ KeepsAll

\* An error of the model: a phrase that only the history has.
ModelFails ==
    /\ inquiry.pc = "round"
    /\ LET m == Message("assistant", inquiry.text)
       IN  /\ IF talk = NoTalk THEN UNCHANGED <<entries, unsaved>> ELSE Saves(m, talk)
           /\ apart' = apart \cup {m}
    /\ inquiry' = NoAsk
    /\ UNCHANGED <<talk, persona, dialogue, memories, holder, asked, resume, strayed, tenure>>

\* persist_assistant_reply: the reply joins the dialogue under the mutex, whichever session that
\* is by now, and what it was then is what the memory and the history are told.
JoinsDialogue(m) == dialogue' = Append(dialogue, m)
ReplyJoins ==
    /\ inquiry.pc = "reply"
    /\ IF talk = NoTalk THEN inquiry' = NoAsk /\ UNCHANGED dialogue
       ELSE /\ JoinsDialogue(Message("assistant", inquiry.text))
            /\ inquiry' = [inquiry EXCEPT !.pc = "keep", !.talk = talk, !.persona = persona]
    /\ UNCHANGED <<talk, persona, memories, entries, holder, asked, resume, unsaved, apart,
                   strayed, tenure>>

KeepsAt(m) == Saves(m, inquiry.talk)
ReplyIsKept ==
    /\ inquiry.pc = "keep"
    /\ LET m == Message("assistant", inquiry.text)
       IN  Remembers(inquiry.persona, m) /\ KeepsAt(m)
    /\ inquiry' = NoAsk
    /\ UNCHANGED <<talk, persona, dialogue, holder, asked, resume, apart, tenure>>

-----------------------------------------------------------------------------
\* The session comes, goes, and is resumed

\* query_chat_messages: an account is shown what was saved as its own, and all of its devices.
Shown(u) == {i \in DOMAIN entries : Live(entries[i]) /\ u \in {entries[i].user, holder}}
\* query_chat_sessions: the sessions they were said in, which the account may have resumed.
ShownTalks == UNION {{entries[i].talk : i \in Shown(u)} : u \in Holders}
FreshTalks == {s \in Talks : \A i \in DOMAIN entries : entries[i].talk # s}

InFlight == inquiry.pc # "wait"
Strays(what, when) == strayed' = IF when THEN strayed \cup {what} ELSE strayed

Resumes(s) == resume = NoResume /\ resume' = [NoResume EXCEPT !.pc = "due", !.talk = s]

\* A hello without a session starts one, with a new id or with one the device wants resumed.
SessionStarts ==
    /\ talk = NoTalk /\ dialogue' = <<>>
    /\ \/ talk' \in FreshTalks /\ UNCHANGED resume
       \/ talk' \in ShownTalks /\ Resumes(talk')
    /\ UNCHANGED <<persona, memories, entries, holder, asked, inquiry, unsaved, apart, strayed,
                   tenure>>

\* A hello of a device that has a session keeps it, and resumes another after that.
SessionResumes ==
    /\ talk # NoTalk
    /\ \E s \in ShownTalks : Resumes(s)
    /\ UNCHANGED <<talk, persona, dialogue, memories, entries, holder, asked, inquiry, unsaved,
                   apart, strayed, tenure>>

SessionEnds ==
    /\ talk # NoTalk
    /\ talk' = NoTalk /\ dialogue' = <<>>
    /\ Strays("moved", InFlight)
    /\ UNCHANGED <<persona, memories, entries, holder, asked, inquiry, resume, unsaved, apart,
                   tenure>>

\* restore_dialogue_from_history: a history that fails is an empty one, and restores nothing.
Fetches ==
    /\ resume.pc = "due"
    /\ \E copy \in {DialogueOf(resume.talk), <<>>} :
          /\ resume' = IF copy = <<>> THEN NoResume
                       ELSE [resume EXCEPT !.pc = "fetched", !.copy = copy]
          /\ Strays("unfetched", copy # DialogueOf(resume.talk))
    /\ UNCHANGED <<talk, persona, dialogue, memories, entries, holder, asked, inquiry, unsaved,
                   apart, tenure>>

Restored == /\ talk' = resume.talk /\ dialogue' = resume.copy
Restores ==
    /\ resume.pc = "fetched" /\ resume' = NoResume
    /\ IF talk = NoTalk THEN UNCHANGED <<talk, dialogue, apart>>
       ELSE Restored /\ apart' = apart \ ToSet(resume.copy)
    /\ Strays("moved", InFlight \/ DialogueOf(resume.talk) # resume.copy)
    /\ UNCHANGED <<persona, memories, entries, holder, asked, inquiry, unsaved, tenure>>

-----------------------------------------------------------------------------
\* The console

\* delete_chat_message takes only what was saved as the account's own.
MayDelete(u, i) == entries[i].user = u
DeletesShown(u) ==
    /\ \E i \in Shown(u) : MayDelete(u, i) /\ entries' = [entries EXCEPT ![i].gone = TRUE]
    /\ UNCHANGED <<talk, persona, dialogue, memories, holder, asked, inquiry, resume, unsaved,
                   apart, strayed, tenure>>

\* The device goes to another account, with the rows it has.
ChangesHands ==
    /\ \E u \in Holders \cup {Unheld} : u # holder /\ holder' = u
    /\ tenure.times < MaxHands /\ tenure' = [rows |-> Len(entries), times |-> tenure.times + 1]
    /\ UNCHANGED <<talk, persona, dialogue, memories, entries, asked, inquiry, resume, unsaved,
                   apart, strayed>>

MemoryNext ==
    \/ HearAside \/ HearAsk \/ AnswersRound \/ RunCall \/ ClearsDialogue \/ Switches \/ CallsDone
    \/ Streams \/ ModelFails \/ ReplyJoins \/ ReplyIsKept
    \/ SessionStarts \/ SessionResumes \/ SessionEnds \/ Fetches \/ Restores
    \/ ChangesHands \/ (\E u \in Holders : DeletesShown(u))

MemorySpec == MemoryInit /\ [][MemoryNext]_memoryVars

-----------------------------------------------------------------------------
Utterances == 1 .. MaxAsked
SaidMessages == [role : {"user", "assistant"}, text : Utterances]

\* The types of the variables.
MemoryTypeOK ==
    /\ talk \in Talks \cup {NoTalk} /\ persona \in Personas
    /\ dialogue \in Seq(SaidMessages)
    /\ memories \in [Personas -> SUBSET SaidMessages]
    /\ entries \in Seq([role : {"user", "assistant"}, text : Utterances, talk : Talks,
                        user : Holders \cup {Unheld}, gone : BOOLEAN])
    /\ holder \in Holders \cup {Unheld} /\ asked \in 0 .. MaxAsked
    /\ tenure.rows \in 0 .. Len(entries) /\ tenure.times \in 0 .. MaxHands
    /\ inquiry.pc \in {"wait", "round", "calls", "stream", "reply", "keep"}
    /\ inquiry.round \in 0 .. ToolRounds
    /\ resume.pc \in {"none", "due", "fetched"} /\ resume.talk \in Talks \cup {NoTalk}
    /\ unsaved \subseteq SaidMessages /\ apart \subseteq SaidMessages
    /\ strayed \subseteq {"moved", "unfetched", "switched", "swapped", "forget", "unheard"}

\* What the model is asked is whole: it opens with the prompt, the last text of the user in it is
\* the one that is to be answered, and each of its calls has its result, in its place.
RequestIsWhole ==
    LET r == inquiry.request
        results(i) == {j \in DOMAIN r : /\ j > i /\ r[j].role = "tool"
                                        /\ \A k \in i + 1 .. j : r[k].role = "tool"}
    IN  inquiry.pc \in {"round", "stream"} =>
           /\ r[1] = Prompt
           /\ \E i \in DOMAIN r : /\ r[i] = Message("user", inquiry.text)
                                  /\ \A j \in i + 1 .. Len(r) : r[j].role # "user"
           /\ \A i \in DOMAIN r : r[i].role = "calls" => Cardinality(results(i)) = r[i].text
           /\ Cardinality({i \in DOMAIN r : r[i].role = "calls"}) <= ToolRounds - 1

\* What the session remembers is what the console keeps of it, in the same order, however often
\* it was resumed: but for saves that failed, the reply that is being saved, rows the console
\* deleted, and what is in the history alone, which the dialogue has again only when a session is
\* resumed: a text that was cleared, went to an agent, or is the phrase for an error.  Nothing is
\* promised once a session was replaced under a turn, or its history could not be read.
PlainOf(rows) == {Plain(entries[i]) : i \in rows}
BeingSaved == IF inquiry.pc = "keep" THEN {Message("assistant", inquiry.text)} ELSE {}
DialogueIsHistory ==
    talk # NoTalk /\ strayed \cap {"moved", "unfetched"} = {} =>
        /\ ToSet(dialogue) \subseteq PlainOf(SavedOf(talk)) \cup unsaved \cup BeingSaved
        /\ \A a, b \in SavedOf(talk), i, j \in DOMAIN dialogue :
               Plain(entries[a]) = dialogue[i] /\ Plain(entries[b]) = dialogue[j] => (a < b <=> i < j)
        /\ resume.pc = "none" => PlainOf(LiveOf(talk)) \subseteq ToSet(dialogue) \cup apart
        /\ ToSet(dialogue) \cap apart = {}

\* A reply comes after its question, unless the question was cleared away, lost in saving, or
\* deleted, or the session was replaced between them.
ReplyFollowsQuestion ==
    LET m(i) == Message("user", dialogue[i].text)
        deleted == {Plain(entries[i]) : i \in {j \in DOMAIN entries : entries[j].gone}}
    IN  "moved" \notin strayed =>
           \A i \in DOMAIN dialogue :
              dialogue[i].role = "assistant" /\ m(i) \notin apart \cup unsaved \cup deleted =>
                 \E j \in 1 .. i - 1 : dialogue[j] = m(i)

\* The memory has a question and its reply with the same agent, unless the agent changed between
\* them, and nothing of what was cleared, unless the service failed or another agent was told it.
MemoryIsOfOneAgent ==
    /\ strayed \cap {"moved", "switched"} = {} =>
          \A p, q \in Personas, n \in Utterances :
             Message("user", n) \in memories[p] /\ Message("assistant", n) \in memories[q] => p = q
    /\ strayed \cap {"moved", "forget", "switched", "swapped"} = {} =>
          \A p \in Personas : memories[p] \cap apart = {}

\* What was saved since the device came to an account is its own: it may delete what it is shown.
ShownIsOwn == \A u \in Holders : \A i \in Shown(u) : i > tenure.rows /\ u = holder => MayDelete(u, i)

DialogueIsRemembered ==
    RequestIsWhole /\ DialogueIsHistory /\ ReplyFollowsQuestion /\ MemoryIsOfOneAgent /\ ShownIsOwn
=============================================================================
