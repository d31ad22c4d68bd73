------------------------------ MODULE TtsStream ------------------------------
(***************************************************************************)
(* One speech synthesizer of xiaozhi-tts and the texts it speaks, one      *)
(* after the other.  A provider asks its service and hands what comes back *)
(* to a channel: doubao on a web socket waits for the first audio, and     *)
(* asks again with another resource when the service refuses that of the   *)
(* voice; xiaozhi and edge ask in a task of their own; qwen reads an event *)
(* stream; the others collect the answer first.  What is not opus goes     *)
(* through a bridge into a decoder of its own thread, which cuts it into   *)
(* frames for the device.                                                  *)
(*                                                                         *)
(* The services are the environment.  Each voice of doubao is granted one  *)
(* resource, which only the service knows.                                 *)
(***************************************************************************)
EXTENDS Integers, Sequences, SequencesExt

CONSTANTS Speeches,   \* bound: the texts, numbered in the order they are spoken
          FrameSize,  \* samples of a frame
          Sizes,      \* bound: bytes of a piece of audio
          MaxPieces,  \* bound: pieces of audio of a text
          RawCap,     \* capacity of the provider's channel
          OutCap,     \* capacity of the channel of frames
          MaxVoices,  \* bound: changes of the voice
          NoModel     \* nothing is cached

ASSUME TtsStreamAssumption ==
    /\ Speeches = 1 .. Len(SetToSeq(Speeches))
    /\ {FrameSize, MaxPieces, RawCap, OutCap} \subseteq Nat \ {0}
    /\ Sizes \subseteq Nat \ {0} /\ MaxVoices \in Nat

VARIABLES
    engine,   \* the provider's kind
    format,   \* of the audio it asks for
    granted,  \* the resource each voice is granted
    timbre,   \* the configured voice, model and resource
    kept,     \* cached_model: the attempt that answered last, or NoModel
    talk,     \* the state of each text
    changes   \* bound

ttsStreamVars == <<engine, format, granted, timbre, kept, talk, changes>>

-----------------------------------------------------------------------------
\* Which resource and model a voice is asked with

Families == {"tts1", "tts2", "icl1"}  \* infer_doubao_voice_family never says icl2
Models == {"none", "tts11", "standard", "icl10", "icl20"}
Resources == {"tts10", "tts20", "icl10", "icl20"}
Attempt == [resource : Resources, request : Models]
Ask(resource, request) == [resource |-> resource, request |-> request]

\* A 2.0 voice never asks with the model of 1.0.
Upgraded(family, model) == IF family = "tts2" /\ model = "tts11" THEN "standard" ELSE model

\* What the model means for the voice.
Resolved(family, model) ==
    CASE Upgraded(family, model) = "none" ->
             [tts1 |-> Ask("tts10", "tts11"), tts2 |-> Ask("tts20", "none"),
              icl1 |-> Ask("icl10", "none")][family]
      [] Upgraded(family, model) = "tts11" -> Ask("tts10", "tts11")
      [] Upgraded(family, model) = "standard" ->
             Ask("tts20", IF family = "tts2" THEN "none" ELSE "standard")
      [] Upgraded(family, model) = "icl10" -> Ask("icl10", "none")
      [] OTHER -> Ask("icl20", "standard")

\* The pairs that are refused; a 2.0 voice is not kept from the resources of clones.
RefusedPair(family, model) ==
    LET resource == Resolved(family, model).resource
    IN \/ family = "icl1" /\ resource # "icl10"
       \/ family = "tts1" /\ resource # "tts10"

\* A variant: the other resource is only for voices of 2.0.
FallbackOfTwo(family, ask) == IF ask.resource = "tts20" /\ family # "icl1" THEN <<Ask("tts10", "tts11")>> ELSE <<>>

\* The other public resource, for a voice that is no clone.
Fallback(family, ask) ==
    IF family = "icl1" THEN <<>>
    ELSE CASE ask.resource = "tts10" -> <<Ask("tts20", "standard")>>
           [] ask.resource = "tts20" -> <<Ask("tts10", "tts11")>>
           [] OTHER -> <<>>

\* An attempt is in the list once, at its first place.
Pushed(attempts, ask) == IF Contains(attempts, ask) THEN attempts ELSE Append(attempts, ask)

\* What a voice is asked with after what comes first: its configured resource, its own, the other.
OwnAttempts(set, first) ==
    LET ask == Resolved(set.family, set.model)
        configured == IF set.resource = "none" THEN first
                      ELSE Pushed(first, [ask EXCEPT !.resource = set.resource])
        own == Pushed(configured, ask)
        other == Fallback(set.family, ask)
    IN IF other = <<>> THEN own ELSE Pushed(own, Head(other))

\* The cached attempt comes first, once.
Attempts(set) == OwnAttempts(set, IF kept = NoModel THEN <<>> ELSE <<kept>>)

-----------------------------------------------------------------------------
\* What the providers may get of a service that is asked for the whole audio: all of it, a part
\* that passes for all, or nothing

MinimaxGets == {"all", "failed"}
ZhipuGets == {"all", "failed"}
CosyVoiceGets == {"all", "failed"}
OpenAiGets == {"all", "failed"}
DoubaoHttpGets == {"all", "failed", "part"}  \* an event whose JSON or base64 cannot be read is skipped
QwenWholeGets == {"all", "failed"}
XunfeiGets == {"all", "failed", "part"}   \* a socket that ends before the last status ends the audio
OfflineGets == {"all", "failed", "part"}  \* as xunfei; a close message too
EdgeGets == {"all", "silent"}             \* asks in a task of its own: an error is only logged

Gets(e) ==
    CASE e = "minimax" -> MinimaxGets [] e = "zhipu" -> ZhipuGets
      [] e = "cosyvoice" -> CosyVoiceGets [] e = "openai" -> OpenAiGets
      [] e = "doubao_http" -> DoubaoHttpGets [] e = "qwen_whole" -> QwenWholeGets
      [] e = "xunfei" -> XunfeiGets [] e = "offline" -> OfflineGets
      [] e = "edge" -> EdgeGets

Streaming == {"doubao_ws", "xiaozhi", "qwen"}
Collecting == {"minimax", "zhipu", "cosyvoice", "openai", "doubao_http", "qwen_whole", "xunfei", "offline", "edge"}

\* What each asks for, as far as it is configured.
Formats(e) ==
    CASE e \in {"qwen", "qwen_whole", "offline"} -> {"pcm"}
      [] e \in {"edge", "doubao_http"} -> {"mp3"}
      [] e = "xiaozhi" -> {"opus", "pcm"}
      [] OTHER -> {"opus", "pcm", "wav", "mp3"}

\* The bytes of a piece of audio; a piece of opus is a frame.
PieceSizes == IF format = "opus" THEN {1} ELSE Sizes

\* Edge and OpenAI ask for an empty text too.
Skips(e) == e \notin {"edge", "openai"}

Silent == [at |-> "idle", tries |-> <<>>, set |-> NoModel, pump |-> "none", pieces |-> 0, got |-> 0,
           raw |-> <<>>, pipe |-> <<>>, rest |-> 0, decoder |-> "off", out |-> 0, heard |-> 0,
           cut |-> FALSE, why |-> "none"]

TtsStreamInit ==
    /\ engine \in Streaming \cup Collecting
    /\ format \in Formats(engine)
    /\ granted \in [Families -> Resources]
    /\ timbre \in [family : Families, model : Models, resource : {"none", "tts20"}]
    /\ engine = "doubao_ws" =>
           /\ granted["icl1"] = "icl10" /\ {granted["tts1"], granted["tts2"]} \subseteq {"tts10", "tts20"}
    /\ engine # "doubao_ws" =>
           /\ granted = [f \in Families |-> "tts10"]
           /\ timbre = [family |-> "tts1", model |-> "none", resource |-> "none"]
    /\ kept = NoModel
    /\ talk = [s \in Speeches |-> Silent]
    /\ changes = 0

-----------------------------------------------------------------------------
\* The voice

\* apply_voice_config: another voice or model of the same provider, in between or while it speaks;
\* what answered the old voice is forgotten.
AppliesVoice ==
    /\ engine = "doubao_ws" /\ changes < MaxVoices /\ changes' = changes + 1
    /\ \E family \in Families, model \in {timbre.model, "none"} :
           timbre' = [timbre EXCEPT !.family = family, !.model = model]
    /\ kept' = NoModel
    /\ UNCHANGED <<engine, format, granted, talk>>

-----------------------------------------------------------------------------
\* Asking

\* The worker speaks one text after the other; what an earlier one left behind may still run.
MaySpeak(s) ==
    /\ talk[s].at = "idle"
    /\ \A p \in Speeches : p < s => talk[p].at \in {"heard", "failed", "left"}

\* What is not opus goes through a decoder.
Opened(rec) == [rec EXCEPT !.at = "open", !.decoder = IF format = "opus" THEN "off" ELSE "on"]

\* Nothing is asked for an empty text: the channel is closed already.
SpeaksNothing(s) ==
    /\ MaySpeak(s) /\ Skips(engine)
    /\ talk' = [talk EXCEPT ![s] = [Opened(@) EXCEPT !.pump = "done"]]
    /\ UNCHANGED <<engine, format, granted, timbre, kept, changes>>

FailsText(s, why) == talk' = [talk EXCEPT ![s].at = "failed", ![s].why = why, ![s].tries = <<>>]

\* The configuration and the list of attempts are read before the service is asked.
AsksDoubao(s) ==
    /\ MaySpeak(s) /\ engine = "doubao_ws"
    /\ IF RefusedPair(timbre.family, timbre.model) THEN FailsText(s, "refused")
       ELSE talk' = [talk EXCEPT ![s].at = "trying", ![s].set = timbre, ![s].tries = Attempts(timbre)]
    /\ UNCHANGED <<engine, format, granted, timbre, kept, changes>>

Suits(s) == Head(talk[s].tries).resource = granted[talk[s].set.family]

\* The service says the resource is not granted: the next one is tried, if there is one.
Mismatches(s) ==
    /\ talk[s].at = "trying" /\ ~ Suits(s)
    /\ IF Len(talk[s].tries) = 1 THEN FailsText(s, "mismatch")
       ELSE talk' = [talk EXCEPT ![s].tries = Tail(@)]
    /\ UNCHANGED <<engine, format, granted, timbre, kept, changes>>

\* No connection, an error of another kind, or an end without any audio.
Troubled(s) ==
    /\ talk[s].at = "trying"
    /\ FailsText(s, "trouble")
    /\ UNCHANGED <<engine, format, granted, timbre, kept, changes>>

\* The first audio: the attempt is cached, whatever the voice is by now, and the text is open.
FirstSpeech(s) ==
    /\ talk[s].at = "trying" /\ Suits(s)
    /\ kept' = Head(talk[s].tries)
    /\ \E n \in PieceSizes :
           talk' = [talk EXCEPT ![s] = [Opened(@) EXCEPT !.tries = <<>>, !.pump = "on",
                                                         !.pieces = 1, !.got = n, !.raw = <<n>>]]
    /\ UNCHANGED <<engine, format, granted, timbre, changes>>

\* xiaozhi connects in a task of its own; qwen is open once the service answers.
OpensStream(s) ==
    /\ MaySpeak(s) /\ engine \in {"xiaozhi", "qwen"}
    /\ \/ talk' = [talk EXCEPT ![s] = [Opened(@) EXCEPT !.pump = "on"]]
       \/ engine = "qwen" /\ FailsText(s, "trouble")
       \/ engine = "xiaozhi" /\ talk' = [talk EXCEPT ![s] = [Opened(@) EXCEPT !.pump = "lost", !.cut = TRUE]]
    /\ UNCHANGED <<engine, format, granted, timbre, kept, changes>>

\* The whole audio, or what passes for it, is one piece.
AsksWhole(s) ==
    /\ MaySpeak(s) /\ engine \in Collecting
    /\ \E what \in Gets(engine) :
           CASE what = "failed" -> FailsText(s, "trouble")
             [] what = "silent" ->
                    talk' = [talk EXCEPT ![s] = [Opened(@) EXCEPT !.pump = "lost", !.cut = TRUE]]
             [] OTHER ->
                    \E n \in PieceSizes :
                        talk' = [talk EXCEPT ![s] = [Opened(@) EXCEPT !.pump = "done", !.pieces = 1,
                                                         !.got = n, !.raw = <<n>>, !.cut = what = "part"]]
    /\ UNCHANGED <<engine, format, granted, timbre, kept, changes>>

-----------------------------------------------------------------------------
\* Reading a stream

\* Who holds the receiving end: the reader of the frames, or the bridge as long as the decoder reads.
Received(rec) == IF rec.decoder = "off" THEN rec.at = "open" ELSE rec.decoder = "on"

\* A piece of audio waits for room; with nobody to receive it, it is dropped and the reading goes on.
Piece(s) ==
    /\ talk[s].pump = "on" /\ talk[s].pieces < MaxPieces
    /\ IF Received(talk[s]) THEN
           /\ Len(talk[s].raw) < RawCap
           /\ \E n \in PieceSizes :
                  talk' = [talk EXCEPT ![s].raw = Append(@, n), ![s].got = @ + n, ![s].pieces = @ + 1]
       ELSE talk' = [talk EXCEPT ![s].pieces = @ + 1]
    /\ UNCHANGED <<engine, format, granted, timbre, kept, changes>>

Stops(s, cut) == talk' = [talk EXCEPT ![s].pump = IF cut THEN "lost" ELSE "done", ![s].cut = @ \/ cut]

\* doubao: the session is finished, the audio has a negative sequence, or the socket closes.  An
\* error, a frame that cannot be parsed or a broken socket end it as well, and nobody is told.
DoubaoFinishes == {"finished", "negative", "closed"}
DoubaoCuts == {"error", "garbled", "broken"}
DoubaoEnds(s) == engine = "doubao_ws" /\ \E how \in DoubaoFinishes \cup DoubaoCuts : Stops(s, how \in DoubaoCuts)

\* xiaozhi: the service says stop or closes; a broken socket is logged.
XiaozhiEnds(s) == engine = "xiaozhi" /\ \E cut \in BOOLEAN : Stops(s, cut)

\* qwen: the body ends, or breaks; a code other than success, JSON or base64 that cannot be read
\* end it and are logged.
QwenCuts == {"code", "json", "base64", "broken"}
QwenSseEnds(s) == engine = "qwen" /\ \E how \in QwenCuts \cup {"closed"} : Stops(s, how \in QwenCuts)

StreamEnds(s) ==
    /\ talk[s].pump = "on"
    /\ DoubaoEnds(s) \/ XiaozhiEnds(s) \/ QwenSseEnds(s)
    /\ UNCHANGED <<engine, format, granted, timbre, kept, changes>>

-----------------------------------------------------------------------------
\* The bridge and the decoder

\* The bridge passes on what comes, as long as the decoder reads; its own queue has no end.
Bridges(s) ==
    /\ talk[s].decoder # "off" /\ talk[s].raw # <<>>
    /\ talk' = [talk EXCEPT ![s].raw = Tail(@),
                            ![s].pipe = IF talk[s].decoder = "on" THEN Append(@, Head(talk[s].raw)) ELSE @]
    /\ UNCHANGED <<engine, format, granted, timbre, kept, changes>>

\* Units of a frame in what the decoder holds: bytes of 16 bit samples, or samples.
Bytes == format \in {"pcm", "wav"}
FrameUnits == IF Bytes THEN 2 * FrameSize ELSE FrameSize

\* A WAV is decoded when all of it is there.
Complete(rec) == rec.pump # "on" /\ rec.raw = <<>> /\ rec.pipe = <<>>
FrameReady(rec) == rec.rest >= FrameUnits /\ (format = "wav" => Complete(rec))

TakesPiece(s) ==
    /\ talk[s].decoder = "on" /\ talk[s].pipe # <<>>
    /\ ~ FrameReady(talk[s])
    /\ talk' = [talk EXCEPT ![s].pipe = Tail(@), ![s].rest = @ + Head(talk[s].pipe)]
    /\ UNCHANGED <<engine, format, granted, timbre, kept, changes>>

\* Each frame waits for room; when the reader is gone the decoder gives up.
Emits(s, rest) ==
    IF talk[s].at = "left" THEN talk' = [talk EXCEPT ![s].decoder = "broken", ![s].pipe = <<>>]
    ELSE /\ talk[s].out < OutCap
         /\ talk' = [talk EXCEPT ![s].out = @ + 1, ![s].rest = rest]

\* A WAV of an odd length is refused; its header is taken for granted here.
OddWav(rec) == format = "wav" /\ Complete(rec) /\ rec.got % 2 = 1 /\ rec.rest = rec.got

EmitsFrame(s) ==
    /\ talk[s].decoder = "on" /\ FrameReady(talk[s]) /\ ~ OddWav(talk[s])
    /\ Emits(s, talk[s].rest - FrameUnits)
    /\ UNCHANGED <<engine, format, granted, timbre, kept, changes>>

\* A variant: what is left when the audio ends is thrown away.
NeverPadded(rec) == FALSE

\* What is left is filled up with silence; half a sample is not.
Padded(rec) == rec.rest >= IF Bytes THEN 2 ELSE 1

EmitsTail(s) ==
    /\ talk[s].decoder = "on" /\ Complete(talk[s]) /\ ~ FrameReady(talk[s]) /\ ~ OddWav(talk[s])
    /\ Padded(talk[s]) /\ Emits(s, 0)
    /\ UNCHANGED <<engine, format, granted, timbre, kept, changes>>

DecoderEnds(s) ==
    /\ talk[s].decoder = "on" /\ Complete(talk[s]) /\ ~ FrameReady(talk[s])
    /\ ~ Padded(talk[s]) /\ ~ OddWav(talk[s])
    /\ talk' = [talk EXCEPT ![s].decoder = "done", ![s].rest = 0]
    /\ UNCHANGED <<engine, format, granted, timbre, kept, changes>>

\* An odd WAV, an MP3 that cannot be decoded, an unknown format: the frames end there.
DecoderBreaks(s) ==
    /\ talk[s].decoder = "on"
    /\ \/ OddWav(talk[s])
       \/ format = "mp3" /\ talk[s].pipe # <<>>
    /\ talk' = [talk EXCEPT ![s].decoder = "broken", ![s].pipe = <<>>, ![s].rest = 0, ![s].cut = TRUE]
    /\ UNCHANGED <<engine, format, granted, timbre, kept, changes>>

-----------------------------------------------------------------------------
\* The reader (handle_tts)

HearsFrame(s) ==
    /\ talk[s].at = "open"
    /\ IF format = "opus" THEN talk[s].raw # <<>> /\ talk' = [talk EXCEPT ![s].raw = Tail(@), ![s].heard = @ + 1]
       ELSE talk[s].out > 0 /\ talk' = [talk EXCEPT ![s].out = @ - 1, ![s].heard = @ + 1]
    /\ UNCHANGED <<engine, format, granted, timbre, kept, changes>>

\* The channel is closed and empty.
HearsEnd(s) ==
    /\ talk[s].at = "open" /\ talk[s].out = 0
    /\ IF format = "opus" THEN talk[s].pump # "on" /\ talk[s].raw = <<>>
       ELSE talk[s].decoder \in {"done", "broken"}
    /\ talk' = [talk EXCEPT ![s].at = "heard"]
    /\ UNCHANGED <<engine, format, granted, timbre, kept, changes>>

\* The session is aborted: the reader leaves after the frame it has.
LeavesSpeech(s) ==
    /\ talk[s].at = "open" /\ talk[s].heard > 0
    /\ talk' = [talk EXCEPT ![s].at = "left", ![s].out = 0, ![s].raw = IF format = "opus" THEN <<>> ELSE @]
    /\ UNCHANGED <<engine, format, granted, timbre, kept, changes>>

-----------------------------------------------------------------------------
TtsStreamNext ==
    \/ AppliesVoice
    \/ \E s \in Speeches :
           \/ SpeaksNothing(s) \/ AsksDoubao(s) \/ Mismatches(s) \/ Troubled(s) \/ FirstSpeech(s)
           \/ OpensStream(s) \/ AsksWhole(s) \/ Piece(s) \/ StreamEnds(s)
           \/ Bridges(s) \/ TakesPiece(s) \/ EmitsFrame(s) \/ EmitsTail(s)
           \/ DecoderEnds(s) \/ DecoderBreaks(s)
           \/ HearsFrame(s) \/ HearsEnd(s) \/ LeavesSpeech(s)

TtsStreamSpec == TtsStreamInit /\ [][TtsStreamNext]_ttsStreamVars

-----------------------------------------------------------------------------
TtsStreamTypeOK ==
    /\ engine \in Streaming \cup Collecting /\ format \in Formats(engine)
    /\ granted \in [Families -> Resources]
    /\ timbre \in [family : Families, model : Models, resource : {"none", "tts20"}]
    /\ kept \in Attempt \cup {NoModel}
    /\ changes \in 0 .. MaxVoices
    /\ \A s \in Speeches :
           /\ talk[s].at \in {"idle", "trying", "open", "heard", "left", "failed"}
           /\ talk[s].pump \in {"none", "on", "done", "lost"}
           /\ talk[s].decoder \in {"off", "on", "done", "broken"}
           /\ Len(talk[s].raw) <= RawCap /\ talk[s].out \in 0 .. OutCap
           /\ talk[s].pieces \in 0 .. MaxPieces
           /\ talk[s].cut \in BOOLEAN

\* The frames that a piece of audio of n units makes: every whole sample is in one of them.
FramesOf(n) == ((IF Bytes THEN n \div 2 ELSE n) + FrameSize - 1) \div FrameSize

\* A reader that comes to the end of a text that was not cut short has heard all the service
\* said: through the channels, the bridge and the decoder, whose last frame is filled up, no
\* sample is lost and none is heard twice (audio_decoder.rs, doubao_v3_ws.rs).
AllIsHeard ==
    \A s \in Speeches :
        talk[s].at = "heard" /\ ~ talk[s].cut =>
            talk[s].heard = IF format = "opus" THEN talk[s].pieces ELSE FramesOf(talk[s].got)

\* A public voice is never refused for its resource, whichever of the two the service grants it
\* and whatever the cache kept of another voice: the other one is tried before the text fails
\* (synthesize_stream).  A 2.0 voice with a model of clones has no such fallback.
FallsBack ==
    \A s \in Speeches :
        talk[s].at = "failed" /\ talk[s].why = "mismatch" =>
            Resolved(talk[s].set.family, talk[s].set.model).resource \in {"icl10", "icl20"}

\* All that is said is heard, and a voice with a resource speaks.
SpeechIsWhole == AllIsHeard /\ FallsBack
=============================================================================
