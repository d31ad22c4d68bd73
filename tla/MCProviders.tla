----------------------------- MODULE MCProviders -----------------------------
(***************************************************************************)
(* The providers of a session: the pools they are taken from, one          *)
(* recognizer, one language model and one synthesizer at work, and the     *)
(* provider of a knowledge base that the console keeps its documents at.   *)
(* They share no state here: a behaviour picks one part and runs it, and   *)
(* the providers that do not run hold nothing.                             *)
(***************************************************************************)
EXTENDS MCResourcePool, AsrStream, LlmStream, TtsStream, KnowledgeSync

VARIABLE part

providersVars == <<part, vars, asrVars, llmStreamVars, ttsStreamVars, syncVars>>

\* What the variables of a provider that does not run hold; the pools are always there.
Nothing == "nothing"

AsrRests == service = Nothing /\ task = Nothing /\ reader = Nothing /\ guard = Nothing /\
    cached = Nothing /\ line = Nothing /\ asrWire = Nothing /\ results = Nothing /\ faults = Nothing
LlmStreamRests == model = Nothing /\ plan = Nothing /\ asked = Nothing /\ conv = Nothing
TtsStreamRests == engine = Nothing /\ format = Nothing /\ granted = Nothing /\ timbre = Nothing /\
    kept = Nothing /\ talk = Nothing /\ changes = Nothing
SyncRests == provider = Nothing /\ base = Nothing /\ doc = Nothing /\ job = Nothing /\
    copy = Nothing /\ datasets = Nothing /\ everSynced = Nothing

ProvidersInit ==
    /\ part \in {"pools", "recognize", "answer", "speak", "knowledge"}
    /\ Init
    /\ part # "pools" => want = [s \in Sessions |-> [p \in Pools |-> k1]]
    /\ IF part = "recognize" THEN AsrInit ELSE AsrRests
    /\ IF part = "answer" THEN LlmStreamInit ELSE LlmStreamRests
    /\ IF part = "speak" THEN TtsStreamInit ELSE TtsStreamRests
    /\ IF part = "knowledge" THEN SyncInit ELSE SyncRests
    \* the voices come with the format that needs no decoder
    /\ part = "speak" /\ engine = "doubao_ws" /\ format # "opus" =>
           /\ granted = [f \in Families |-> IF f = "icl1" THEN "icl10" ELSE "tts10"]
           /\ timbre = [family |-> "tts1", model |-> "none", resource |-> "none"]

\* A provider may be done; the pools never are.
ProvidersNext ==
    /\ UNCHANGED part
    /\ \/ part = "pools" /\ Next /\ UNCHANGED <<asrVars, llmStreamVars, ttsStreamVars, syncVars>>
       \/ part = "recognize" /\ AsrNext /\ UNCHANGED <<vars, llmStreamVars, ttsStreamVars, syncVars>>
       \/ part = "answer" /\ LlmStreamNext /\ UNCHANGED <<vars, asrVars, ttsStreamVars, syncVars>>
       \/ part = "speak" /\ TtsStreamNext /\ UNCHANGED <<vars, asrVars, llmStreamVars, syncVars>>
       \/ part = "knowledge" /\ SyncNext /\ UNCHANGED <<vars, asrVars, llmStreamVars, ttsStreamVars>>
       \/ part # "pools" /\ UNCHANGED <<vars, asrVars, llmStreamVars, ttsStreamVars, syncVars>>

ProvidersSpec == ProvidersInit /\ [][ProvidersNext]_providersVars

\* The turns of OpenAI share nothing; a second speech and a change of voice come with the format
\* that needs no decoder, the decoders with one speech; once the voice was changed a text has one
\* piece of audio.  One deletion, or synchronisation of a whole knowledge base, beside the jobs of
\* its documents is enough; at weknora, whose jobs take more steps, a deletion beside two of them.
ProvidersBounds ==
    /\ part = "answer" /\ model = "openai" => asked[2].at = "idle"
    /\ part = "speak" /\ format # "opus" => talk[2].at = "idle" /\ changes = 0
    /\ part = "speak" /\ changes > 0 => \A s \in Speeches : talk[s].pieces <= 1
    /\ part = "knowledge" => Cardinality({j \in Jobs : job[j].kind \in {"base", "delete"}}) <= 1
    /\ part = "knowledge" /\ provider = "weknora" => job[MaxJobs].kind \in {"none", "delete"}

\* The types of the parts.
ProvidersTypeOK ==
    /\ TypeOK
    /\ part = "recognize" => AsrTypeOK
    /\ part = "answer" => LlmStreamTypeOK
    /\ part = "speak" => TtsStreamTypeOK
    /\ part = "knowledge" => SyncTypeOK

\* What is said while a recognizer listens is recognized once, by the turn it was said to,
\* whatever becomes of the connection.
SpeechIsRecognized == part = "recognize" => AsrIsOne

\* What a language model answers is heard, whole and in order, whatever the service refuses.
ModelAnswers == part = "answer" => AnswersAreWhole

\* What a synthesizer is asked to say is heard to its last byte.
TextIsSpoken == part = "speak" => SpeechIsWhole

\* A document is never lost between the console and the provider.
DocumentsAreKept == part = "knowledge" => KeepsACopy /\ SyncedIsThere
=============================================================================
