------------------------------ MODULE ClawSpeech ------------------------------
(***************************************************************************)
(* How the frames of an agent's answer become the sentences that are       *)
(* spoken (handle_response of xiaozhi-openclaw and stream.rs).  An agent   *)
(* sends its text in pieces, or each time all of it so far, or as marked   *)
(* snapshots; the stream finds out which by comparing what comes with what *)
(* it has, speaks whole sentences as soon as they are there and the rest   *)
(* with the last frame.  A frame may come twice with the same number.      *)
(*                                                                         *)
(* A text is a sequence of letters, pauses and full stops: words, blanks   *)
(* and marks that normalize_openclaw_speech_text removes are left out.     *)
(***************************************************************************)
EXTENDS Integers, Sequences
Seqs == INSTANCE SequencesExt

CONSTANTS Letters,  \* the words of a text
          MaxText,  \* bound: length of a text
          MaxSeq    \* bound: frames of an answer

ASSUME ClawSpeechAssumption ==
    /\ {MaxText, MaxSeq} \subseteq Nat /\ Letters \cap {",", "."} = {}

VARIABLES
    speech,    \* of the agent: what it has to say
    manner,  \* "pieces", "growing" or "snapshots"
    told,    \* how much of the text its frames have told
    frames,  \* frames sent so far; a frame has its number
    answer,  \* ResponseStreamState
    handedOn,  \* what was handed on, in order: [text, start, end]
    alike    \* ghost: a piece looked like the beginning of what was said, or the other way round

clawSpeechVars == <<speech, manner, told, frames, answer, handedOn, alike>>

Pauses == {",", "."}
Texts == UNION {[1 .. n -> Letters \cup Pauses] : n \in 1 .. MaxText}

-----------------------------------------------------------------------------
\* stream.rs: the functions on texts

\* A text never begins with a mark, and a comma never follows one.
Normal(s) ==
    Seqs!FoldLeft(LAMBDA out, c : IF c \in Pauses /\ out = <<>> THEN out
                             ELSE IF c = "," /\ Seqs!Last(out) \in Pauses THEN out
                             ELSE Append(out, c),
             <<>>, s)

\* The words alone.
Key(s) == SelectSeq(s, LAMBDA c : c \notin Pauses)

\* Where the words of a prefix of n words end in a text: at the next word, marks skipped.
NextWord(s, n) ==
    LET later == {i \in DOMAIN s : s[i] \notin Pauses /\ Len(Key(SubSeq(s, 1, i))) > n}
    IN IF later = {} THEN Len(s) + 1 ELSE CHOOSE i \in later : \A j \in later : i <= j

\* trim_openclaw_canonical_prefix: what comes after the prefix, as far as words count.
StartsWith(s, prefix) == Seqs!IsPrefix(Key(prefix), Key(s))
Beyond(s, prefix) ==
    CASE Key(prefix) = <<>> -> s
      [] Key(prefix) # <<>> /\ Key(s) = Key(prefix) -> <<>>
      [] OTHER -> SubSeq(s, NextWord(s, Len(Key(prefix))), Len(s))

\* is_openclaw_canonical_growth
Growth(s, t) ==
    /\ Key(s) # <<>> /\ Key(t) # <<>>
    /\ Seqs!IsPrefix(Key(s), Key(t)) \/ Seqs!IsPrefix(Key(t), Key(s))

\* extract_openclaw_sentences: each ends in a full stop; commas after it are skipped.
Sentences(s) ==
    LET step(acc, c) ==
            IF c = "." THEN [acc EXCEPT !.done = Append(@, Append(acc.open, c)), !.open = <<>>]
            ELSE IF c = "," /\ acc.open = <<>> THEN acc
            ELSE [acc EXCEPT !.open = Append(@, c)]
        all == Seqs!FoldLeft(step, [done |-> <<>>, open |-> <<>>], Normal(s))
    IN all

-----------------------------------------------------------------------------
\* ResponseStreamState

Unstarted == [buffer |-> <<>>, emitted |-> <<>>, pending |-> <<>>, delta |-> FALSE, first |-> TRUE, seq |-> 0]

Accounted(st) == Normal(st.emitted \o st.buffer)

\* apply_snapshot_content: the buffer becomes what the snapshot has beyond what was spoken.
Snapshot(st, s) ==
    IF s = <<>> THEN st
    ELSE [st EXCEPT !.pending = <<>>,
                    !.buffer = Normal(IF st.emitted # <<>> /\ StartsWith(s, st.emitted)
                                      THEN Beyond(s, st.emitted) ELSE s)]

\* The result of to_incremental_content: the new state and what is new.
New(st, more) == [st |-> st, more |-> more]
AtEnd(st, done) == IF done THEN New([st EXCEPT !.pending = <<>>], st.pending) ELSE New(st, <<>>)

\* A variant: what is not the beginning of a longer text is dropped with what waits.
IncrementalDrops(st, s, done) ==
    CASE s = <<>> -> IF ~ st.delta THEN AtEnd(st, done) ELSE New(st, <<>>)
      [] s # <<>> /\ (st.delta \/ Accounted(st) # <<>>) ->
             New([st EXCEPT !.delta = TRUE],
                 IF Accounted(st) # <<>> /\ StartsWith(s, Accounted(st)) THEN Beyond(s, Accounted(st)) ELSE s)
      [] OTHER -> AtEnd([st EXCEPT !.pending = s], done)

\* Nothing spoken yet: a first text waits, for the next one shows whether it grows (each frame has
\* all of the text) or goes on (each has a piece).  From then on what is known is taken off.
Incremental(st, s, done) ==
    CASE s = <<>> -> IF ~ st.delta THEN AtEnd(st, done) ELSE New(st, <<>>)
      [] s # <<>> /\ (st.delta \/ Accounted(st) # <<>>) ->
             New([st EXCEPT !.delta = TRUE],
                 IF Accounted(st) # <<>> /\ StartsWith(s, Accounted(st)) THEN Beyond(s, Accounted(st)) ELSE s)
      [] s # <<>> /\ ~ st.delta /\ Accounted(st) = <<>> /\ st.pending = <<>> ->
             AtEnd([st EXCEPT !.pending = s], done)
      [] s # <<>> /\ ~ st.delta /\ Accounted(st) = <<>> /\ st.pending # <<>> /\ Growth(st.pending, s) ->
             AtEnd([st EXCEPT !.pending = IF Len(s) >= Len(@) THEN s ELSE @], done)
      [] OTHER -> New([st EXCEPT !.delta = TRUE, !.pending = <<>>], Normal(st.pending \o s))

-----------------------------------------------------------------------------
ClawSpeechInit ==
    /\ speech \in {s \in Texts : Normal(s) = s}
    /\ manner \in {"pieces", "growing", "snapshots"}
    /\ told = 0 /\ frames = 0 /\ answer = Unstarted /\ handedOn = <<>> /\ alike = FALSE

Said(what, start, end) == [text |-> what, start |-> start, end |-> end]
AnswerEnded == handedOn # <<>> /\ Seqs!Last(handedOn).end

\* handle_response with a frame of number seq, normal content s: a snapshot is only kept; otherwise
\* the whole sentences of the buffer are handed on, and with the last frame the rest.
HandleResponse(seq, s, snapshot, done) ==
    LET news == IF snapshot THEN New(Snapshot(answer, s), <<>>) ELSE Incremental(answer, s, done)
        buffer == Normal(news.st.buffer \o news.more)
        cut == IF snapshot THEN [done |-> <<>>, open |-> news.st.buffer] ELSE Sentences(buffer)
        handed == [i \in DOMAIN cut.done |-> Said(cut.done[i], answer.first /\ i = 1, FALSE)]
        final == Said(cut.open, answer.first /\ cut.done = <<>>, TRUE)
    IN IF seq <= answer.seq THEN UNCHANGED <<answer, handedOn>>
       ELSE /\ handedOn' = handedOn \o handed \o IF done THEN <<final>> ELSE <<>>
            /\ answer' = [news.st EXCEPT !.seq = seq, !.buffer = cut.open,
                                         !.emitted = Normal(@ \o Seqs!FlattenSeq(cut.done)),
                                         !.first = @ /\ cut.done = <<>>]

\* What the agent sends of its text: a piece, or all of it so far.
Content(upto) == Normal(IF manner = "pieces" THEN SubSeq(speech, told + 1, upto) ELSE SubSeq(speech, 1, upto))
LooksAlike(s) == manner = "pieces" /\ told > 0 /\ Growth(SubSeq(speech, 1, told), s)

AnswerFrame(upto, done) ==
    /\ ~ AnswerEnded /\ frames < MaxSeq
    /\ frames' = frames + 1 /\ told' = upto
    /\ alike' = (alike \/ LooksAlike(Content(upto)))
    /\ HandleResponse(frames + 1, Content(upto), manner = "snapshots" /\ ~ done, done)
    /\ UNCHANGED <<speech, manner>>

\* The agent tells more of its text; its last frame brings the rest of it, or nothing.
AgentSpeaks == \E upto \in told + 1 .. Len(speech) : AnswerFrame(upto, FALSE)
AgentEnds == \/ told < Len(speech) /\ AnswerFrame(Len(speech), TRUE)
             \/ told = Len(speech) /\ manner # "snapshots" /\ AnswerFrame(told, TRUE)

\* The last frame comes twice, or late.
FrameAgain ==
    /\ frames > 0 /\ ~ AnswerEnded
    /\ HandleResponse(frames, Content(told), FALSE, FALSE)
    /\ UNCHANGED <<speech, manner, told, frames, alike>>

ClawSpeechNext == AgentSpeaks \/ AgentEnds \/ FrameAgain

ClawSpeechSpec == ClawSpeechInit /\ [][ClawSpeechNext]_clawSpeechVars

-----------------------------------------------------------------------------
ClawSpeechTypeOK ==
    /\ speech \in Texts /\ manner \in {"pieces", "growing", "snapshots"}
    /\ told \in 0 .. Len(speech) /\ frames \in 0 .. MaxSeq
    /\ answer.seq \in 0 .. frames /\ {answer.delta, answer.first, alike} \subseteq BOOLEAN

SpokenText == Seqs!FlattenSeq([i \in DOMAIN handedOn |-> handedOn[i].text])

\* However the agent sends its text, every word of it is spoken once and in order, whatever frames
\* come twice; only a piece that looks like the beginning of the text before it is taken for the
\* text itself (stream.rs).
EveryWordOnce == AnswerEnded /\ ~ alike => Key(SpokenText) = Key(speech)

\* Until then what was spoken is a beginning of it.
NoWordEarly == ~ alike => Seqs!IsPrefix(Key(SpokenText), Key(speech))

\* The answer has one start, its first sentence, and one end.
OneStart ==
    /\ \A i \in DOMAIN handedOn : handedOn[i].start <=> i = 1
    /\ \A i \in DOMAIN handedOn : handedOn[i].end => i = Len(handedOn)

AnswerIsSpoken == EveryWordOnce /\ NoWordEarly /\ OneStart
=============================================================================
