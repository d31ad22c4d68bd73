---------------------------- MODULE MediaPlayer ----------------------------
(***************************************************************************)
(* The media player of a device: one runtime behind a mutex, the playback  *)
(* task it last spawned, and whoever controls it: the LLM's tools and the  *)
(* realtime gate on one side, the session that comes and goes on the other.*)
(* Each method is a sequence of locked steps; the task reads the pause and *)
(* attachment flags between its frames, and waits on a Notify that wakes   *)
(* only a task that already waits.  A replaced or stopped task is aborted  *)
(* at its next await.  Titles, sources and decoding are left out.          *)
(***************************************************************************)
EXTENDS Integers, FiniteSets

CONSTANTS Playbacks,       \* playback tasks, in the order they are spawned
          NoPlay,      \* none
          Users,       \* those who control the player
          Playlist,    \* length of the playlist
          TrackFrames,      \* bound: frames of a track
          MaxControls  \* bound: controls used

ASSUME MediaAssumption == /\ Playlist \in Nat \ {0} /\ TrackFrames \in Nat \ {0}
                          /\ NoPlay \notin Playbacks /\ MaxControls \in Nat

VARIABLES
    media,     \* the runtime: [status, index, paused, attached, resume, reason, task]
    play,      \* each task: [pc, index, left, cancelled]
    user,      \* the step each user is at: [pc, index]
    controls,  \* controls used
    late       \* frames each task sent since the flags last changed, while they forbade it

mediaVars == <<media, play, user, controls, late>>

Alive(t) == play[t].pc \notin {"new", "aborted", "end"}

MediaInit ==
    /\ media = [status |-> "idle", index |-> 0, paused |-> FALSE, attached |-> TRUE,
                resume |-> FALSE, reason |-> "none", task |-> NoPlay]
    /\ play = [t \in Playbacks |-> [pc |-> "new", index |-> 0, left |-> 0, cancelled |-> FALSE]]
    /\ user = [u \in Users |-> [pc |-> "idle", index |-> 0]]
    /\ controls = 0 /\ late = [t \in Playbacks |-> 0]

-----------------------------------------------------------------------------
(* The playback task: run_playlist_from, run_opus_playback_loop            *)

TaskAt(t, at) == play' = [play EXCEPT ![t].pc = at]

\* The next track is current and playing, whatever the pause flag says.
StartTrack(t) ==
    /\ play[t].pc = "track"
    /\ media' = [media EXCEPT !.index = play[t].index, !.status = "playing"]
    /\ play' = [play EXCEPT ![t].pc = "attach", ![t].left = TrackFrames + 1]
    /\ UNCHANGED <<user, controls, late>>

\* A variant: a held frame is sent without looking at the flag.
TakeFrameAnyway(t) ==
    /\ play[t].pc = "frame"
    /\ TaskAt(t, IF play[t].left = 0 THEN "track_end" ELSE "attach")
    /\ UNCHANGED <<media, user, controls, late>>

\* A frame is there, or the track is over; a paused one holds it.
TakeFrame(t) ==
    /\ play[t].pc = "frame"
    /\ TaskAt(t, IF play[t].left = 0 THEN "track_end"
                 ELSE IF media.paused THEN "held" ELSE "attach")
    /\ UNCHANGED <<media, user, controls, late>>

\* It begins to wait for resume_notify.  What woke it is not looked at again.
Park(t) ==
    /\ play[t].pc = "held"
    /\ TaskAt(t, "parked")
    /\ UNCHANGED <<media, user, controls, late>>

\* wait_for_playback_attachment, before the first frame and before each.
Attachment(t) ==
    /\ play[t].pc = "attach"
    /\ TaskAt(t, IF media.attached THEN "send" ELSE "stray")
    /\ UNCHANGED <<media, user, controls, late>>

AwaitAttachment(t) ==
    /\ play[t].pc = "stray"
    /\ TaskAt(t, "detached")
    /\ UNCHANGED <<media, user, controls, late>>

\* The frame goes out, or the START before the first; without a channel the track ends.
\* A task aborted meanwhile sends what it was sending.
SendFrame(t) ==
    /\ play[t].pc = "send"
    /\ late' = [late EXCEPT ![t] = IF play[t].left <= TrackFrames /\ (media.paused \/ ~ media.attached)
                                    THEN @ + 1 ELSE @]
    /\ \E sent \in BOOLEAN :
         play' = [play EXCEPT ![t].left = @ - 1,
                              ![t].pc = IF play[t].cancelled THEN "aborted"
                                        ELSE IF sent \/ play[t].left > TrackFrames THEN "frame"
                                        ELSE "last"]
    /\ UNCHANGED <<media, user, controls>>

\* A variant: the bound of the playlist is off by one.
TrackEndsPastLast(t) ==
    /\ play[t].pc \in {"track_end", "last"}
    /\ IF play[t].pc = "track_end" /\ play[t].index < Playlist
       THEN /\ play' = [play EXCEPT ![t].pc = "track", ![t].index = @ + 1]
            /\ UNCHANGED media
       ELSE TaskAt(t, "end") /\ media' = [media EXCEPT !.status = "idle"]
    /\ UNCHANGED <<user, controls, late>>

\* The next track of the playlist, or the end: idle, whatever plays by now.
TrackEnds(t) ==
    /\ play[t].pc \in {"track_end", "last"}
    /\ IF play[t].pc = "track_end" /\ play[t].index + 1 < Playlist
       THEN /\ play' = [play EXCEPT ![t].pc = "track", ![t].index = @ + 1]
            /\ UNCHANGED media
       ELSE TaskAt(t, "end") /\ media' = [media EXCEPT !.status = "idle"]
    /\ UNCHANGED <<user, controls, late>>

-----------------------------------------------------------------------------
(* The controls                                                            *)

UserAt(u, at) == user' = [user EXCEPT ![u].pc = at]

\* What a control may start from.
Control(u) == user[u].pc = "idle" /\ controls < MaxControls /\ controls' = controls + 1

\* Pause flag and attachment as they are after a control; the frames sent against them
\* are counted anew.
Flags(m) == media' = m /\ late' = [t \in Playbacks |-> 0]

Woken(from) == [t \in Playbacks |-> IF play[t].pc = from THEN [play[t] EXCEPT !.pc = "attach"]
                                ELSE play[t]]

\* pause by the user, suspend by an interruption.
Pause(u) ==
    /\ Control(u) /\ media.status = "playing"
    /\ \E reason \in {"user", "interrupt"} :
         Flags([media EXCEPT !.paused = TRUE, !.status = "paused", !.reason = reason,
                             !.resume = @ /\ reason = "interrupt"])
    /\ UNCHANGED <<play, user>>

Unpaused == [media EXCEPT !.paused = FALSE, !.status = "playing", !.reason = "none",
                          !.resume = FALSE]

\* resume_if_interrupted_pause, after enqueue_current.
ResumeInterrupted(u) ==
    /\ Control(u) /\ media.status = "paused" /\ media.reason = "interrupt"
    /\ media.task # NoPlay
    /\ Flags(Unpaused) /\ play' = Woken("parked")
    /\ UNCHANGED user

\* stop_internal: the last token is cancelled and the last task aborted.
Stopped(t, at) ==
    IF t = NoPlay THEN play
    ELSE [play EXCEPT ![t].cancelled = TRUE,
                      ![t].pc = IF @ \in {"send", "end"} THEN @ ELSE at]

StopInternal ==
    /\ Flags([media EXCEPT !.paused = FALSE, !.resume = FALSE, !.reason = "none",
                           !.task = NoPlay, !.status = "stopped"])
    /\ play' = Stopped(media.task, "aborted")

Stop(u) == Control(u) /\ StopInternal /\ UNCHANGED user

\* play_url, play_mcp_resource, play_inline_audio; next and prev wrap around.
ReplacePlaylist(u) ==
    /\ Control(u)
    /\ \E i \in {0, (media.index + 1) % Playlist, (media.index + Playlist - 1) % Playlist} :
         user' = [user EXCEPT ![u] = [pc |-> "stop", index |-> i]]
    /\ UNCHANGED <<media, play, late>>

ReplaceStops(u) ==
    /\ user[u].pc = "stop"
    /\ StopInternal /\ UserAt(u, "spawn") /\ UNCHANGED controls

\* The other half, after begin_exclusive_media_playback: the task replaces whatever a
\* second user may have spawned in between.
ReplaceSpawns(u) ==
    /\ user[u].pc = "spawn" /\ UserAt(u, "idle")
    /\ \E t \in Playbacks :
         /\ play[t].pc = "new"
         /\ play' = [play EXCEPT ![t] = [pc |-> "track", index |-> user[u].index, left |-> 0,
                                         cancelled |-> FALSE]]
         /\ Flags([media EXCEPT !.index = user[u].index, !.status = "playing", !.task = t,
                                !.paused = FALSE, !.attached = TRUE])
    /\ UNCHANGED controls

\* recover_playback reads the status first, and acts on what it read.
ResumePlayback(u) ==
    /\ Control(u) /\ UserAt(u, "recover")
    /\ UNCHANGED <<media, play, late>>

RecoverReads(u) ==
    /\ user[u].pc = "recover"
    /\ user' = [user EXCEPT ![u] = [pc |-> IF media.status = "paused" THEN "unpause" ELSE "stop",
                                    index |-> media.index]]
    /\ UNCHANGED <<media, play, late, controls>>

Unpause(u) ==
    /\ user[u].pc = "unpause" /\ UserAt(u, "idle")
    /\ Flags(Unpaused) /\ play' = Woken("parked")
    /\ UNCHANGED controls

\* The session goes: what plays is paused, to be resumed.
DetachSession(u) ==
    /\ Control(u) /\ media.attached
    /\ Flags(IF media.status = "playing"
             THEN [media EXCEPT !.attached = FALSE, !.paused = TRUE, !.status = "paused",
                                !.resume = TRUE]
             ELSE [media EXCEPT !.attached = FALSE])
    /\ play' = Woken("detached")
    /\ UNCHANGED user

AttachSession(u) ==
    /\ Control(u)
    /\ Flags([media EXCEPT !.attached = TRUE]) /\ play' = Woken("detached")
    /\ UserAt(u, "attached")

AttachResumes(u) ==
    /\ user[u].pc = "attached"
    /\ UserAt(u, IF media.resume THEN "recover" ELSE "idle")
    /\ UNCHANGED <<media, play, late, controls>>

-----------------------------------------------------------------------------

PlayStep(t) == \/ StartTrack(t) \/ TakeFrame(t) \/ Park(t) \/ Attachment(t)
               \/ AwaitAttachment(t) \/ SendFrame(t) \/ TrackEnds(t)

UserStep(u) == \/ Pause(u) \/ ResumeInterrupted(u) \/ Stop(u) \/ ReplacePlaylist(u) \/ ReplaceStops(u)
               \/ ReplaceSpawns(u) \/ ResumePlayback(u) \/ RecoverReads(u) \/ Unpause(u)
               \/ DetachSession(u) \/ AttachSession(u) \/ AttachResumes(u)

MediaNext == (\E t \in Playbacks : PlayStep(t)) \/ (\E u \in Users : UserStep(u))

MediaSpec == MediaInit /\ [][MediaNext]_mediaVars

-----------------------------------------------------------------------------

MediaTypeOK ==
    /\ media \in [status : {"idle", "playing", "paused", "stopped"}, index : 0 .. Playlist - 1,
                  paused : BOOLEAN, attached : BOOLEAN, resume : BOOLEAN,
                  reason : {"none", "user", "interrupt"}, task : Playbacks \cup {NoPlay}]
    /\ play \in [Playbacks -> [pc : {"new", "track", "attach", "stray", "detached", "send", "frame",
                                 "held", "parked", "track_end", "last", "end", "aborted"},
                           index : 0 .. Playlist - 1, left : 0 .. TrackFrames + 1, cancelled : BOOLEAN]]
    /\ user \in [Users -> [pc : {"idle", "stop", "spawn", "recover", "unpause", "attached"},
                           index : 0 .. Playlist - 1]]
    /\ controls \in 0 .. MaxControls /\ late \in [Playbacks -> Nat]

\* A playback task, replaced ones included, sends at most the frame it had in hand after
\* the player was paused or the session left.
SilentWhenHeld == \A t \in Playbacks : late[t] <= 1
=============================================================================
