----------------------------- MODULE DeviceProofs -----------------------------
(***************************************************************************)
(* For any number of connections, messages and handlers: a device is       *)
(* reached over its latest connection, and known to be gone when it is.    *)
(* For any number of playback tasks, users and tracks: a player that is    *)
(* held sends at most the frame in hand.  For any number of texts, starts, *)
(* aborts and barge-ins: no turn of a chat leaves its session in           *)
(* Processing.  Each part has an inductive invariant of its own; a         *)
(* behaviour of the platform runs one part.                                *)
(***************************************************************************)
EXTENDS MCPlatform, FiniteSetTheorems, SequenceTheorems, WellFoundedInduction, TLAPS

-----------------------------------------------------------------------------
\* The media player

MediaType == [status : {"idle", "playing", "paused", "stopped"}, index : 0 .. Playlist - 1,
              paused : BOOLEAN, attached : BOOLEAN, resume : BOOLEAN,
              reason : {"none", "user", "interrupt"}, task : Playbacks \cup {NoPlay}]
PlayAt == {"new", "track", "attach", "stray", "detached", "send", "frame", "held", "parked",
           "track_end", "last", "end", "aborted"}
PlayType == [pc : PlayAt, index : 0 .. Playlist - 1, left : 0 .. TrackFrames + 1,
             cancelled : BOOLEAN]
UserType == [pc : {"idle", "stop", "spawn", "recover", "unpause", "attached"}, index : 0 .. Playlist - 1]

\* On its way to a send, a task has something left to send.
OnTheWay == {"attach", "stray", "detached", "held", "parked", "send"}
LeftInv == \A t \in Playbacks : play[t].pc \in OnTheWay => play[t].left >= 1

\* A task that has sent its frame while the flags forbid it is not about to send another.
Forbidden == media.paused \/ ~ media.attached
HeldInv ==
    \A t \in Playbacks :
        /\ late[t] <= 1
        /\ late[t] = 1 /\ Forbidden =>
             /\ play[t].pc = "send" => play[t].left > TrackFrames
             /\ play[t].pc = "attach" /\ media.attached => play[t].left > TrackFrames

MediaInv == MediaTypeOK /\ LeftInv /\ HeldInv

LEMMA MediaInitInv == MediaInit => MediaInv
<1> SUFFICES ASSUME MediaInit PROVE MediaInv
  OBVIOUS
<1> USE MediaAssumption DEF MediaInit
<1>1. MediaTypeOK
  BY DEF MediaTypeOK
<1>2. LeftInv /\ HeldInv
  BY DEF LeftInv, HeldInv, OnTheWay, Forbidden
<1> QED
  BY <1>1, <1>2 DEF MediaInv

\* The flags change: the frames are counted anew.
LEMMA FlagsInv ==
    ASSUME MediaInv, NEW m \in MediaType, Flags(m), play' \in [Playbacks -> PlayType], LeftInv',
           user' \in [Users -> UserType], controls' \in 0 .. MaxControls
    PROVE  MediaInv'
<1>1. media' = m /\ late' = [t \in Playbacks |-> 0]
  BY DEF Flags
<1>2. MediaTypeOK'
  BY <1>1 DEF MediaTypeOK, MediaType, PlayType, PlayAt, UserType
<1>3. HeldInv'
  BY <1>1 DEF HeldInv
<1> QED
  BY <1>2, <1>3 DEF MediaInv

\* A user decides something.
LEMMA UserDecidesInv ==
    ASSUME MediaInv, UNCHANGED <<media, play, late>>, user' \in [Users -> UserType],
           controls' \in 0 .. MaxControls
    PROVE  MediaInv'
<1>1. MediaTypeOK'
  BY DEF MediaInv, MediaTypeOK, UserType
<1>2. LeftInv' /\ HeldInv'
  BY DEF MediaInv, LeftInv, HeldInv, Forbidden
<1> QED
  BY <1>1, <1>2 DEF MediaInv

\* A playback task goes on.
LEMMA PlayGoesOnInv ==
    ASSUME MediaInv, NEW t \in Playbacks, NEW r \in PlayType, play' = [play EXCEPT ![t] = r],
           media' \in MediaType, media'.paused = media.paused, media'.attached = media.attached,
           r.pc \in OnTheWay => r.left >= 1,
           late' = late,
           late[t] = 1 /\ Forbidden => /\ r.pc = "send" => r.left > TrackFrames
                                       /\ r.pc = "attach" /\ media.attached => r.left > TrackFrames,
           UNCHANGED <<user, controls>>
    PROVE  MediaInv'
<1>1. play \in [Playbacks -> PlayType]
  BY DEF MediaInv, MediaTypeOK, PlayType, PlayAt
<1>2. play' \in [Playbacks -> PlayType] /\ play'[t] = r /\ \A u \in Playbacks \ {t} : play'[u] = play[u]
  BY <1>1
<1>3. MediaTypeOK'
  BY <1>2 DEF MediaInv, MediaTypeOK, MediaType, PlayType, PlayAt
<1>4. LeftInv'
  BY <1>2 DEF MediaInv, LeftInv
<1>5. Forbidden' <=> Forbidden
  BY DEF Forbidden
<1>6. HeldInv'
  BY <1>2, <1>5 DEF MediaInv, HeldInv
<1> QED
  BY <1>3, <1>4, <1>6 DEF MediaInv

LEMMA TaskAtFields ==
    ASSUME MediaInv, NEW t \in Playbacks, NEW at \in PlayAt, TaskAt(t, at)
    PROVE  \E r \in PlayType : /\ play' = [play EXCEPT ![t] = r]
                               /\ r.pc = at /\ r.left = play[t].left
<1>1. play \in [Playbacks -> PlayType]
  BY DEF MediaInv, MediaTypeOK, PlayType, PlayAt
<1>2. PICK r : r = [play[t] EXCEPT !.pc = at]
  OBVIOUS
<1>3. r \in PlayType /\ r.pc = at /\ r.left = play[t].left
  BY <1>1, <1>2 DEF PlayType
<1>4. play' = [play EXCEPT ![t] = r]
  BY <1>1, <1>2 DEF TaskAt
<1> QED
  BY <1>3, <1>4

LEMMA PlayStepInv == ASSUME MediaInv, NEW t \in Playbacks, PlayStep(t) PROVE MediaInv'
<1> USE MediaAssumption
<1>1. play \in [Playbacks -> PlayType] /\ media \in MediaType /\ late \in [Playbacks -> Nat]
  BY DEF MediaInv, MediaTypeOK, PlayType, PlayAt, MediaType
<1>2. /\ play[t].left \in 0 .. TrackFrames + 1
      /\ play[t].pc \in OnTheWay => play[t].left >= 1
      /\ late[t] <= 1
      /\ late[t] = 1 /\ Forbidden =>
             /\ play[t].pc = "send" => play[t].left > TrackFrames
             /\ play[t].pc = "attach" /\ media.attached => play[t].left > TrackFrames
  BY <1>1 DEF MediaInv, LeftInv, HeldInv, PlayType
<1>3. CASE StartTrack(t)
  <2>1. /\ media' = [media EXCEPT !.index = play[t].index, !.status = "playing"]
        /\ play' = [play EXCEPT ![t].pc = "attach", ![t].left = TrackFrames + 1]
        /\ UNCHANGED <<user, controls, late>>
    BY <1>3 DEF StartTrack
  <2>2. media' \in MediaType /\ media'.paused = media.paused /\ media'.attached = media.attached
    BY <1>1, <2>1 DEF MediaType, PlayType
  <2>3. PICK r : r = [[play[t] EXCEPT !.pc = "attach"] EXCEPT !.left = TrackFrames + 1]
    OBVIOUS
  <2>4. play[t] \in PlayType /\ TrackFrames + 1 \in 0 .. TrackFrames + 1 /\ TrackFrames + 1 > TrackFrames
    BY <1>1
  <2>5. r \in PlayType /\ r.pc = "attach" /\ r.left = TrackFrames + 1
    <3>1. PICK n \in 0 .. TrackFrames + 1 : n = TrackFrames + 1
      BY <2>4
    <3>2. r = [[play[t] EXCEPT !.pc = "attach"] EXCEPT !.left = n]
      BY <2>3, <3>1
    <3>3. r \in PlayType /\ r.pc = "attach" /\ r.left = n
      BY <2>4, <3>2 DEF PlayType, PlayAt
    <3> QED
      BY <3>1, <3>3
  <2>6. play' = [play EXCEPT ![t] = r]
    BY <1>1, <2>1, <2>3
  <2>7. r.left >= 1 /\ r.left > TrackFrames /\ r.pc # "send"
    BY <2>4, <2>5
  <2>8. late' = late /\ UNCHANGED <<user, controls>>
    BY <2>1
  <2>9. late[t] = 1 /\ Forbidden => /\ r.pc = "send" => r.left > TrackFrames
                                    /\ r.pc = "attach" /\ media.attached => r.left > TrackFrames
    BY <2>7
  <2>10. r.pc \in OnTheWay => r.left >= 1
    BY <2>7
  <2>11. r \in PlayType
    BY <2>5
  <2> QED
    BY <2>2, <2>6, <2>8, <2>9, <2>10, <2>11, PlayGoesOnInv
<1>4. CASE TakeFrame(t)
  <2>1. PICK at \in {"track_end", "held", "attach"} :
           at = IF play[t].left = 0 THEN "track_end" ELSE IF media.paused THEN "held" ELSE "attach"
    OBVIOUS
  <2>2. TaskAt(t, at) /\ UNCHANGED <<media, user, controls, late>>
    BY <1>4, <2>1 DEF TakeFrame
  <2>3. PICK r \in PlayType : play' = [play EXCEPT ![t] = r] /\ r.pc = at /\ r.left = play[t].left
    BY <2>2, TaskAtFields DEF PlayAt
  <2>4. r.pc \in OnTheWay => r.left >= 1
    BY <1>2, <2>1, <2>3 DEF OnTheWay
  <2>5. ~ (r.pc = "attach" /\ Forbidden /\ media.attached) /\ r.pc # "send"
    BY <2>1, <2>3 DEF Forbidden
  <2> QED
    BY <1>1, <2>2, <2>3, <2>4, <2>5, PlayGoesOnInv
<1>5. CASE Park(t)
  <2>1. play[t].pc = "held" /\ TaskAt(t, "parked") /\ UNCHANGED <<media, user, controls, late>>
    BY <1>5 DEF Park
  <2>2. PICK r \in PlayType : play' = [play EXCEPT ![t] = r] /\ r.pc = "parked" /\ r.left = play[t].left
    BY <2>1, TaskAtFields DEF PlayAt
  <2> QED
    BY <1>1, <1>2, <2>1, <2>2, PlayGoesOnInv DEF OnTheWay
<1>6. CASE Attachment(t)
  <2>1. PICK at \in {"send", "stray"} : at = IF media.attached THEN "send" ELSE "stray"
    OBVIOUS
  <2>2. play[t].pc = "attach" /\ TaskAt(t, at) /\ UNCHANGED <<media, user, controls, late>>
    BY <1>6, <2>1 DEF Attachment
  <2>3. PICK r \in PlayType : play' = [play EXCEPT ![t] = r] /\ r.pc = at /\ r.left = play[t].left
    BY <2>2, TaskAtFields DEF PlayAt
  <2>4. late[t] = 1 /\ Forbidden => (r.pc = "send" => r.left > TrackFrames)
    BY <1>2, <2>1, <2>2, <2>3
  <2>5. r.left >= 1 /\ r.pc # "attach"
    BY <1>2, <2>1, <2>2, <2>3 DEF OnTheWay
  <2> QED
    BY <1>1, <2>2, <2>3, <2>4, <2>5, PlayGoesOnInv
<1>7. CASE AwaitAttachment(t)
  <2>1. play[t].pc = "stray" /\ TaskAt(t, "detached") /\ UNCHANGED <<media, user, controls, late>>
    BY <1>7 DEF AwaitAttachment
  <2>2. PICK r \in PlayType : play' = [play EXCEPT ![t] = r] /\ r.pc = "detached" /\ r.left = play[t].left
    BY <2>1, TaskAtFields DEF PlayAt
  <2> QED
    BY <1>1, <1>2, <2>1, <2>2, PlayGoesOnInv DEF OnTheWay
<1>8. CASE SendFrame(t)
  <2>1. PICK at \in {"aborted", "frame", "last"} :
           play' = [play EXCEPT ![t].left = @ - 1, ![t].pc = at]
    BY <1>8 DEF SendFrame
  <2>2. /\ play[t].pc = "send" /\ UNCHANGED <<media, user, controls>>
        /\ late' = [late EXCEPT ![t] = IF play[t].left <= TrackFrames /\ (media.paused \/ ~ media.attached)
                                       THEN @ + 1 ELSE @]
    BY <1>8 DEF SendFrame
  <2>3. PICK r : r = [[play[t] EXCEPT !.left = @ - 1] EXCEPT !.pc = at]
    OBVIOUS
  <2>4. play[t].left - 1 \in 0 .. TrackFrames + 1
    BY <1>2, <2>2 DEF OnTheWay
  <2>5. r \in PlayType /\ r.pc = at
    BY <1>1, <2>3, <2>4 DEF PlayType, PlayAt
  <2>6. play' = [play EXCEPT ![t] = r]
    BY <1>1, <2>1, <2>3
  <2>7. /\ play' \in [Playbacks -> PlayType] /\ play'[t].pc = at
        /\ \A u \in Playbacks \ {t} : play'[u] = play[u]
    BY <1>1, <2>5, <2>6
  <2>8. /\ late' \in [Playbacks -> Nat] /\ late'[t] <= 1
        /\ \A u \in Playbacks \ {t} : late'[u] = late[u]
    BY <1>1, <1>2, <2>2 DEF Forbidden
  <2>9. MediaTypeOK'
    BY <2>2, <2>7, <2>8 DEF MediaInv, MediaTypeOK, PlayType, PlayAt
  <2>10. LeftInv'
    BY <2>7 DEF MediaInv, LeftInv, OnTheWay
  <2>11. HeldInv'
    BY <2>2, <2>7, <2>8 DEF MediaInv, HeldInv, Forbidden
  <2> QED
    BY <2>9, <2>10, <2>11 DEF MediaInv
<1>9. CASE TrackEnds(t)
  <2>1. CASE play[t].pc = "track_end" /\ play[t].index + 1 < Playlist
    <3>1. /\ play' = [play EXCEPT ![t].pc = "track", ![t].index = @ + 1]
          /\ UNCHANGED <<media, user, controls, late>>
      BY <1>9, <2>1 DEF TrackEnds
    <3>2. play[t] \in PlayType /\ play[t].index \in 0 .. Playlist - 1
      BY <1>1 DEF PlayType
    <3>3. PICK i \in 0 .. Playlist - 1 : i = play[t].index + 1
      BY <2>1, <3>2
    <3>4. PICK r : r = [[play[t] EXCEPT !.pc = "track"] EXCEPT !.index = i]
      OBVIOUS
    <3>5. r \in PlayType /\ r.pc = "track"
      BY <3>2, <3>4 DEF PlayType, PlayAt
    <3>6. play' = [play EXCEPT ![t] = r]
      BY <1>1, <3>1, <3>3, <3>4
    <3> QED
      BY <1>1, <3>1, <3>5, <3>6, PlayGoesOnInv DEF OnTheWay
  <2>2. CASE ~ (play[t].pc = "track_end" /\ play[t].index + 1 < Playlist)
    <3>1. /\ TaskAt(t, "end") /\ media' = [media EXCEPT !.status = "idle"]
          /\ UNCHANGED <<user, controls, late>>
      BY <1>9, <2>2 DEF TrackEnds
    <3>2. PICK r \in PlayType : play' = [play EXCEPT ![t] = r] /\ r.pc = "end"
      BY <3>1, TaskAtFields DEF PlayAt
    <3>3. media' \in MediaType /\ media'.paused = media.paused /\ media'.attached = media.attached
      BY <1>1, <3>1 DEF MediaType
    <3> QED
      BY <3>1, <3>2, <3>3, PlayGoesOnInv DEF OnTheWay
  <2> QED
    BY <2>1, <2>2
<1> QED
  BY <1>3, <1>4, <1>5, <1>6, <1>7, <1>8, <1>9 DEF PlayStep

LEMMA WokenFields ==
    ASSUME MediaInv, NEW from \in {"parked", "detached"}, play' = Woken(from)
    PROVE  play' \in [Playbacks -> PlayType] /\ LeftInv'
<1>1. play \in [Playbacks -> PlayType]
  BY DEF MediaInv, MediaTypeOK, PlayType, PlayAt
<1>2. \A t \in Playbacks : [play[t] EXCEPT !.pc = "attach"] \in PlayType
                           /\ [play[t] EXCEPT !.pc = "attach"].left = play[t].left
  BY <1>1 DEF PlayType, PlayAt
<1>3. play' \in [Playbacks -> PlayType]
  BY <1>1, <1>2 DEF Woken
<1>4. \A t \in Playbacks : play'[t] = play[t] \/ (play[t].pc = from /\ play'[t].left = play[t].left)
  BY <1>1, <1>2 DEF Woken
<1> QED
  BY <1>3, <1>4 DEF MediaInv, LeftInv, OnTheWay

LEMMA StoppedFields ==
    ASSUME MediaInv, play' = Stopped(media.task, "aborted")
    PROVE  play' \in [Playbacks -> PlayType] /\ LeftInv'
<1>1. play \in [Playbacks -> PlayType] /\ media.task \in Playbacks \cup {NoPlay}
  BY DEF MediaInv, MediaTypeOK, PlayType, PlayAt
<1>2. CASE media.task = NoPlay
  BY <1>1, <1>2 DEF Stopped, MediaInv, LeftInv
<1>3. CASE media.task # NoPlay
  <2>1. PICK t \in Playbacks : t = media.task
    BY <1>1, <1>3
  <2>2. PICK at : at = IF play[t].pc \in {"send", "end"} THEN play[t].pc ELSE "aborted"
    OBVIOUS
  <2>3. at \in PlayAt
    BY <2>2 DEF PlayAt
  <2>4. PICK r : r = [[play[t] EXCEPT !.cancelled = TRUE] EXCEPT !.pc = at]
    OBVIOUS
  <2>5. r \in PlayType /\ r.pc = at /\ r.left = play[t].left
    BY <1>1, <2>3, <2>4 DEF PlayType
  <2>6. play' = [play EXCEPT ![t].cancelled = TRUE, ![t].pc = at]
    BY <1>1, <1>3, <2>1, <2>2 DEF Stopped
  <2>7. play' = [play EXCEPT ![t] = r]
    BY <1>1, <2>4, <2>6
  <2>8. play' \in [Playbacks -> PlayType] /\ play'[t] = r /\ \A u \in Playbacks \ {t} : play'[u] = play[u]
    BY <1>1, <2>5, <2>7
  <2> QED
    BY <2>2, <2>5, <2>8 DEF MediaInv, LeftInv, OnTheWay
<1> QED
  BY <1>2, <1>3

LEMMA UserStepInv == ASSUME MediaInv, NEW u \in Users, UserStep(u) PROVE MediaInv'
<1> USE MediaAssumption
<1>1. /\ play \in [Playbacks -> PlayType] /\ media \in MediaType /\ user \in [Users -> UserType]
      /\ controls \in 0 .. MaxControls /\ LeftInv
  BY DEF MediaInv, MediaTypeOK, PlayType, PlayAt, MediaType, UserType
<1>2. ASSUME Control(u) PROVE controls' \in 0 .. MaxControls
  BY <1>1, <1>2 DEF Control
<1>3. ASSUME NEW at \in {"idle", "spawn", "recover", "attached"}, UserAt(u, at)
      PROVE  user' \in [Users -> UserType]
  BY <1>1, <1>3 DEF UserAt, UserType
<1>4. CASE Pause(u)
  <2>1. PICK reason \in {"user", "interrupt"} :
         Flags([media EXCEPT !.paused = TRUE, !.status = "paused", !.reason = reason,
                             !.resume = @ /\ reason = "interrupt"])
    BY <1>4 DEF Pause
  <2>2. PICK b \in BOOLEAN : b = (media.resume /\ reason = "interrupt")
    OBVIOUS
  <2>3. PICK m : m = [media EXCEPT !.paused = TRUE, !.status = "paused", !.reason = reason, !.resume = b]
    OBVIOUS
  <2>4. m \in MediaType
    BY <1>1, <2>3 DEF MediaType
  <2>5. Flags(m)
    BY <2>1, <2>2, <2>3
  <2>6. Control(u) /\ play' = play /\ user' = user
    BY <1>4 DEF Pause
  <2>7. LeftInv'
    BY <1>1, <2>6 DEF LeftInv
  <2> QED
    BY <1>1, <1>2, <2>4, <2>5, <2>6, <2>7, FlagsInv
<1>5. Unpaused \in MediaType
  BY <1>1 DEF Unpaused, MediaType
<1>6. CASE ResumeInterrupted(u)
  <2>1. Control(u) /\ Flags(Unpaused) /\ play' = Woken("parked") /\ user' = user
    BY <1>6 DEF ResumeInterrupted
  <2> QED
    BY <1>1, <1>2, <1>5, <2>1, WokenFields, FlagsInv
<1>7. ASSUME StopInternal, user' \in [Users -> UserType], controls' \in 0 .. MaxControls PROVE MediaInv'
  <2>1. PICK m : m = [media EXCEPT !.paused = FALSE, !.resume = FALSE, !.reason = "none",
                           !.task = NoPlay, !.status = "stopped"]
    OBVIOUS
  <2>2. m \in MediaType /\ Flags(m)
    BY <1>1, <1>7, <2>1 DEF StopInternal, MediaType
  <2>3. play' = Stopped(media.task, "aborted")
    BY <1>7 DEF StopInternal
  <2> QED
    BY <1>7, <2>2, <2>3, StoppedFields, FlagsInv
<1>8. CASE Stop(u)
  BY <1>1, <1>2, <1>7, <1>8 DEF Stop
<1>9. CASE ReplacePlaylist(u)
  <2>1. PICK i \in {0, (media.index + 1) % Playlist, (media.index + Playlist - 1) % Playlist} :
         user' = [user EXCEPT ![u] = [pc |-> "stop", index |-> i]]
    BY <1>9 DEF ReplacePlaylist
  <2>2. media.index \in 0 .. Playlist - 1
    BY <1>1 DEF MediaType
  <2>3. \A n \in Nat : n % Playlist \in 0 .. Playlist - 1
    OBVIOUS
  <2>4. i \in 0 .. Playlist - 1
    BY <2>1, <2>2, <2>3
  <2>5. user' \in [Users -> UserType]
    BY <1>1, <2>1, <2>4 DEF UserType
  <2> QED
    BY <1>2, <1>9, <2>5, UserDecidesInv DEF ReplacePlaylist
<1>10. CASE ReplaceStops(u)
  BY <1>1, <1>3, <1>7, <1>10 DEF ReplaceStops
<1>11. CASE ReplaceSpawns(u)
  <2>1. PICK t \in Playbacks :
         /\ play' = [play EXCEPT ![t] = [pc |-> "track", index |-> user[u].index, left |-> 0,
                                         cancelled |-> FALSE]]
         /\ Flags([media EXCEPT !.index = user[u].index, !.status = "playing", !.task = t,
                                !.paused = FALSE, !.attached = TRUE])
    BY <1>11 DEF ReplaceSpawns
  <2>2. UserAt(u, "idle") /\ controls' = controls
    BY <1>11 DEF ReplaceSpawns
  <2>3. user[u].index \in 0 .. Playlist - 1
    BY <1>1 DEF UserType
  <2>4. PICK m : m = [media EXCEPT !.index = user[u].index, !.status = "playing", !.task = t,
                                !.paused = FALSE, !.attached = TRUE]
    OBVIOUS
  <2>5. m \in MediaType /\ Flags(m)
    BY <1>1, <2>1, <2>3, <2>4 DEF MediaType
  <2>6. PICK r : r = [pc |-> "track", index |-> user[u].index, left |-> 0, cancelled |-> FALSE]
    OBVIOUS
  <2>7. r \in PlayType /\ r.pc = "track"
    BY <2>3, <2>6 DEF PlayType, PlayAt
  <2>8. play' \in [Playbacks -> PlayType] /\ play'[t] = r /\ \A v \in Playbacks \ {t} : play'[v] = play[v]
    BY <1>1, <2>1, <2>6, <2>7
  <2>9. LeftInv'
    BY <1>1, <2>7, <2>8 DEF LeftInv, OnTheWay
  <2> QED
    BY <1>1, <1>3, <2>2, <2>5, <2>8, <2>9, FlagsInv
<1>12. CASE ResumePlayback(u)
  BY <1>2, <1>3, <1>12, UserDecidesInv DEF ResumePlayback
<1>13. CASE RecoverReads(u)
  <2>1. PICK at \in {"unpause", "stop"} : user' = [user EXCEPT ![u] = [pc |-> at, index |-> media.index]]
    BY <1>13 DEF RecoverReads
  <2>2. media.index \in 0 .. Playlist - 1
    BY <1>1 DEF MediaType
  <2>3. user' \in [Users -> UserType]
    BY <1>1, <2>1, <2>2 DEF UserType
  <2> QED
    BY <1>1, <1>13, <2>3, UserDecidesInv DEF RecoverReads
<1>14. CASE Unpause(u)
  <2>1. UserAt(u, "idle") /\ Flags(Unpaused) /\ play' = Woken("parked") /\ controls' = controls
    BY <1>14 DEF Unpause
  <2> QED
    BY <1>1, <1>3, <1>5, <2>1, WokenFields, FlagsInv
<1>15. CASE DetachSession(u)
  <2>1. PICK m : m = IF media.status = "playing"
             THEN [media EXCEPT !.attached = FALSE, !.paused = TRUE, !.status = "paused",
                                !.resume = TRUE]
             ELSE [media EXCEPT !.attached = FALSE]
    OBVIOUS
  <2>2. m \in MediaType
    BY <1>1, <2>1 DEF MediaType
  <2>3. Control(u) /\ Flags(m) /\ play' = Woken("detached") /\ user' = user
    BY <1>15, <2>1 DEF DetachSession
  <2> QED
    BY <1>1, <1>2, <2>2, <2>3, WokenFields, FlagsInv
<1>16. CASE AttachSession(u)
  <2>1. [media EXCEPT !.attached = TRUE] \in MediaType
    BY <1>1 DEF MediaType
  <2>2. Control(u) /\ Flags([media EXCEPT !.attached = TRUE]) /\ play' = Woken("detached") /\ UserAt(u, "attached")
    BY <1>16 DEF AttachSession
  <2> QED
    BY <1>2, <1>3, <2>1, <2>2, WokenFields, FlagsInv
<1>17. CASE AttachResumes(u)
  <2>1. PICK at \in {"recover", "idle"} : UserAt(u, at)
    BY <1>17 DEF AttachResumes
  <2> QED
    BY <1>1, <1>3, <1>17, <2>1, UserDecidesInv DEF AttachResumes
<1> QED
  BY <1>4, <1>6, <1>8, <1>9, <1>10, <1>11, <1>12, <1>13, <1>14, <1>15, <1>16, <1>17 DEF UserStep

LEMMA MediaNextInv == MediaInv /\ [MediaNext]_mediaVars => MediaInv'
<1> SUFFICES ASSUME MediaInv, [MediaNext]_mediaVars PROVE MediaInv'
  OBVIOUS
<1>1. CASE UNCHANGED mediaVars
  BY <1>1, UserDecidesInv DEF mediaVars, MediaInv, MediaTypeOK, UserType
<1>2. CASE \E t \in Playbacks : PlayStep(t)
  BY <1>2, PlayStepInv
<1>3. CASE \E u \in Users : UserStep(u)
  BY <1>3, UserStepInv
<1> QED
  BY <1>1, <1>2, <1>3 DEF MediaNext

-----------------------------------------------------------------------------
\* A device's web sockets

WebStates == {"none", "find", "insert", "register", "serve", "unregister", "empty", "remove", "report",
              "forget", "done"}
WebType == [pc : WebStates, ctr : 0 .. MaxLinks, mine : 0 .. MaxLinks, mgr : 0 .. MaxLinks,
            open : BOOLEAN, recv : BOOLEAN, send : BOOLEAN]

\* A counter has counted the connections that have come, at most.
WebInv ==
    /\ web \in [Links -> WebType] /\ counter \in 0 .. MaxLinks /\ managers \in 0 .. MaxLinks
    /\ count \in [Links -> 0 .. MaxLinks] /\ hub \in [Links -> [Links -> 0 .. MaxLinks]]
    /\ reports \in [online : Nat, offline : Nat]
    /\ \A s \in Links : IsAt(s, "none") => \A c \in Links : count[c] < s
    /\ \A s \in Active : /\ web[s].ctr \in Links /\ web[s].mine \in 1 .. count[web[s].ctr]
                         /\ ~ IsAt(s, "find") => web[s].mgr \in Links

\* The connections that are there have numbers of their own, and an endpoint each.
CounterInv ==
    "recount" \notin odd =>
        /\ \A s \in Active : web[s].ctr = counter
        /\ \A s, t \in Active : web[s].mine = web[t].mine => s = t
        /\ \A s \in Active : IsAt(s, "serve") => hub[web[s].mgr][web[s].mine] = s

\* A connection that is alone: its number is the last one, the hubs are empty but for its
\* endpoint, and the manager is gone once it has been removed.
Empty == \A m, n \in Links : hub[m][n] = 0
AloneInv ==
    odd = {} =>
        /\ \A s, t \in Active : s = t
        /\ Active = {} => managers = 0 /\ counter = 0 /\ Empty
        /\ \A s \in Active :
              /\ IsCurrent(s)
              /\ web[s].pc \in {"report", "forget"} => managers = 0
              /\ web[s].pc \notin {"serve", "unregister"} => Empty
              /\ \A m, n \in Links : hub[m][n] # 0 => m = web[s].mgr /\ n = web[s].mine

\* What was last reported of the device, and so what the console shows when no report is under way.
Present == \E s \in Active : web[s].pc \in {"serve", "unregister", "empty", "remove", "report"}
ShownInv ==
    odd = {} =>
        LET kind == IF Present THEN "online" ELSE "offline"
        IN  \/ reports = [online |-> 0, offline |-> 0] /\ shown = kind
            \/ reports = [[online |-> 0, offline |-> 0] EXCEPT ![kind] = 1]

AccessInv == WebInv /\ CounterInv /\ AloneInv /\ ShownInv

LEMMA AccessBegins == AccessInit => AccessInv
<1> SUFFICES ASSUME AccessInit PROVE AccessInv
  OBVIOUS
<1> USE WsAccessAssumption DEF AccessInit
<1>1. NoLink \in WebType /\ NoLink.pc = "none"
  BY DEF NoLink, WebType, WebStates
<1>2. \A s \in Links : IsAt(s, "none")
  BY <1>1 DEF IsAt
<1>3. Active = {}
  BY <1>1 DEF Active
<1>4. WebInv
  BY <1>1, <1>3 DEF WebInv, Links
<1>5. CounterInv /\ AloneInv
  BY <1>3 DEF CounterInv, AloneInv, Empty
<1>6. ShownInv
  BY <1>3 DEF ShownInv, Present
<1> QED
  BY <1>4, <1>5, <1>6 DEF AccessInv

\* A step that opens, closes or drains a connection changes nothing of this.
LEMMA ConnectionStands ==
    ASSUME AccessInv, web' \in [Links -> WebType],
           \A s \in Links : /\ web'[s].pc = web[s].pc /\ web'[s].ctr = web[s].ctr
                            /\ web'[s].mine = web[s].mine /\ web'[s].mgr = web[s].mgr,
           UNCHANGED <<managers, hub, counter, count, odd, reports, shown>>
    PROVE  AccessInv'
<1>1. Active' = Active
  BY DEF Active
<1>2. \A s \in Links : \A at : IsAt(s, at)' <=> IsAt(s, at)
  BY DEF IsAt
<1>3. \A s \in Active : s \in Links
  BY DEF Active
<1>4. WebInv'
  BY <1>1, <1>2, <1>3 DEF AccessInv, WebInv
<1>5. CounterInv'
  BY <1>1, <1>2, <1>3 DEF AccessInv, CounterInv
<1>6. AloneInv'
  BY <1>1, <1>3 DEF AccessInv, AloneInv, Empty, IsCurrent
<1>7. Present' <=> Present
  BY <1>1, <1>3 DEF Present
<1>8. ShownInv'
  BY <1>7 DEF AccessInv, ShownInv
<1> QED
  BY <1>4, <1>5, <1>6, <1>8 DEF AccessInv

\* One connection goes on; what the others are stays.
LEMMA LinkGoes ==
    ASSUME AccessInv, NEW s \in Links, NEW pc \in WebStates, WebGoes(s, pc)
    PROVE  /\ web' \in [Links -> WebType] /\ web'[s].pc = pc /\ web'[s].ctr = web[s].ctr
           /\ web'[s].mine = web[s].mine /\ web'[s].mgr = web[s].mgr
           /\ \A t \in Links \ {s} : web'[t] = web[t]
           /\ pc \notin {"none", "done"} /\ s \in Active => Active' = Active
           /\ pc = "done" => Active' = Active \ {s}
<1>1. web \in [Links -> WebType] /\ web' = [web EXCEPT ![s].pc = pc]
  BY DEF AccessInv, WebInv, WebGoes
<1>2. /\ web' \in [Links -> WebType] /\ web'[s].pc = pc /\ web'[s].ctr = web[s].ctr
      /\ web'[s].mine = web[s].mine /\ web'[s].mgr = web[s].mgr
      /\ \A t \in Links \ {s} : web'[t] = web[t]
  BY <1>1 DEF WebType
<1> QED
  BY <1>2 DEF Active

LEMMA SmallSteps ==
    ASSUME AccessInv,
           \/ \E s \in Links : Receives(s) \/ HangsUp(s) \/ ReceiverEnds(s) \/ SenderSends(s) \/ SenderEnds(s)
           \/ \E m \in Links : Speaks(m)
    PROVE  AccessInv'
<1> USE DEF AsIs, NoReport
<1>1. web \in [Links -> WebType]
  BY DEF AccessInv, WebInv
<1>2. ASSUME NEW s \in Links,
             Receives(s) \/ HangsUp(s) \/ ReceiverEnds(s) \/ SenderSends(s) \/ SenderEnds(s)
      PROVE  AccessInv'
  <2>1. UNCHANGED <<managers, hub, counter, count, odd, reports, shown>>
    BY <1>2 DEF Receives, HangsUp, ReceiverEnds, SenderSends, SenderEnds
  <2>2. \/ web' = web \/ web' = [web EXCEPT ![s].recv = FALSE] \/ web' = [web EXCEPT ![s].open = FALSE]
        \/ web' = [web EXCEPT ![s].send = SendWorks(s)] \/ web' = [web EXCEPT ![s].send = FALSE]
    BY <1>2 DEF Receives, HangsUp, ReceiverEnds, SenderSends, SenderEnds
  <2>3. SendWorks(s) \in BOOLEAN
    BY <1>1 DEF SendWorks, IsCurrent, WebType
  <2>4. /\ web' \in [Links -> WebType]
        /\ \A t \in Links : /\ web'[t].pc = web[t].pc /\ web'[t].ctr = web[t].ctr
                            /\ web'[t].mine = web[t].mine /\ web'[t].mgr = web[t].mgr
    <3>1. CASE web' = web
      BY <1>1, <3>1
    <3>2. CASE web' = [web EXCEPT ![s].recv = FALSE]
      BY <1>1, <3>2 DEF WebType
    <3>3. CASE web' = [web EXCEPT ![s].open = FALSE]
      BY <1>1, <3>3 DEF WebType
    <3>4. ASSUME NEW b \in BOOLEAN, web' = [web EXCEPT ![s].send = b]
          PROVE  /\ web' \in [Links -> WebType]
                 /\ \A t \in Links : /\ web'[t].pc = web[t].pc /\ web'[t].ctr = web[t].ctr
                                     /\ web'[t].mine = web[t].mine /\ web'[t].mgr = web[t].mgr
      BY <1>1, <3>4 DEF WebType
    <3> QED
      BY <2>2, <2>3, <3>1, <3>2, <3>3, <3>4
  <2> QED
    BY <2>1, <2>4, ConnectionStands
<1>3. ASSUME NEW m \in Links, Speaks(m)
      PROVE  AccessInv'
  BY <1>1, <1>3, ConnectionStands DEF Speaks
<1> QED
  BY <1>2, <1>3

LEMMA ConnectsKeepsInv ==
    ASSUME AccessInv, NEW s \in Links, ConnectWeb(s)
    PROVE  AccessInv'
<1> USE WsAccessAssumption
<1> DEFINE c == IF counter = 0 THEN s ELSE counter
           new == [NoLink EXCEPT !.pc = "find", !.ctr = c, !.mine = count[c] + 1, !.open = TRUE]
<1>1. /\ IsAt(s, "none") /\ \A t \in 1 .. s - 1 : ~ IsAt(t, "none")
      /\ counter' = c /\ count' = [count EXCEPT ![c] = count[c] + 1] /\ web' = [web EXCEPT ![s] = new]
      /\ odd' = IF Active = {} THEN odd ELSE odd \cup {"overlap"}
      /\ UNCHANGED <<managers, hub, reports, shown>>
  BY DEF ConnectWeb, NextNumber, NoReport
<1>2. c \in Links
  BY DEF AccessInv, WebInv, Links
<1> HIDE DEF c
<1>3. /\ count[c] \in Nat /\ count[c] < s /\ s <= MaxLinks /\ s >= 1 /\ s \in Int
      /\ c \in 0 .. MaxLinks /\ count[c] + 1 \in 0 .. MaxLinks
      /\ count \in [Links -> 0 .. MaxLinks] /\ \A d \in Links : count[d] \in Nat
  <2>1. count \in [Links -> 0 .. MaxLinks] /\ \A d \in Links : count[d] \in 0 .. MaxLinks
    BY DEF AccessInv, WebInv
  <2>2. count[c] < s /\ s \in 1 .. MaxLinks /\ c \in 1 .. MaxLinks
    BY <1>1, <1>2 DEF AccessInv, WebInv, Links
  <2> QED
    BY <1>2, <2>1, <2>2
<1>4. /\ new \in WebType /\ new.pc = "find" /\ new.ctr = c /\ new.mine = count[c] + 1
  <2>1. NoLink \in WebType
    BY DEF NoLink, WebType, WebStates
  <2>2. "find" \in WebStates
    BY DEF WebStates
  <2> QED
    BY <1>3, <2>1, <2>2 DEF WebType
<1> HIDE DEF new
<1>5. web' \in [Links -> WebType] /\ web'[s] = new /\ \A t \in Links \ {s} : web'[t] = web[t]
  BY <1>1, <1>4 DEF AccessInv, WebInv
<1>6. Active' = Active \cup {s} /\ s \notin Active /\ Active \subseteq Links
  BY <1>1, <1>4, <1>5 DEF Active, IsAt
<1>7. /\ count' \in [Links -> 0 .. MaxLinks] /\ count'[c] = count[c] + 1
      /\ \A d \in Links \ {c} : count'[d] = count[d]
  BY <1>1, <1>2, <1>3
<1>8. ASSUME NEW t \in Links, IsAt(t, "none")', NEW d \in Links
      PROVE  count'[d] < t
  <2>1. t # s /\ IsAt(t, "none")
    BY <1>4, <1>5, <1>8 DEF IsAt
  <2>2. ~ (t \in 1 .. s - 1)
    BY <1>1, <2>1
  <2>3. t > s /\ t \in Int
    BY <1>3, <2>1, <2>2 DEF Links
  <2>4. count[d] < t /\ count[d] \in Int
    BY <2>1 DEF AccessInv, WebInv
  <2> QED
    BY <1>3, <1>7, <2>3, <2>4
<1>9. ASSUME NEW t \in Active'
      PROVE  /\ web'[t].ctr \in Links /\ web'[t].mine \in 1 .. count'[web'[t].ctr]
             /\ ~ IsAt(t, "find")' => web'[t].mgr \in Links
  <2>1. CASE t = s
    BY <1>2, <1>3, <1>4, <1>5, <1>7, <2>1 DEF IsAt
  <2>2. CASE t # s
    <3>1. t \in Active /\ web'[t] = web[t]
      BY <1>5, <1>6, <1>9, <2>2
    <3>2. web[t].ctr \in Links /\ web[t].mine \in 1 .. count[web[t].ctr] /\ (~ IsAt(t, "find") => web[t].mgr \in Links)
      BY <3>1 DEF AccessInv, WebInv
    <3>3. count'[web[t].ctr] >= count[web[t].ctr] /\ count'[web[t].ctr] \in Nat /\ count[web[t].ctr] \in Nat
      <4>1. \A d \in Links : count'[d] = count[d] \/ count'[d] = count[d] + 1
        BY <1>7
      <4>2. \A d \in Links : count[d] \in Nat
        BY <1>3
      <4> QED
        BY <3>2, <4>1, <4>2
    <3> QED
      BY <3>1, <3>2, <3>3 DEF IsAt
  <2> QED
    BY <2>1, <2>2
<1>10. WebInv'
  BY <1>1, <1>3, <1>5, <1>7, <1>8, <1>9 DEF AccessInv, WebInv
<1>11. CounterInv'
  <2> SUFFICES ASSUME "recount" \notin odd'
               PROVE  /\ \A t \in Active' : web'[t].ctr = c
                      /\ \A t, u \in Active' : web'[t].mine = web'[u].mine => t = u
                      /\ \A t \in Active' : IsAt(t, "serve")' => hub[web'[t].mgr][web'[t].mine] = t
    BY <1>1 DEF CounterInv
  <2>1. "recount" \notin odd
    BY <1>1
  <2>2. \A t \in Active : /\ web[t].ctr = counter /\ web[t].ctr \in Links /\ web[t].mine \in 1 .. count[web[t].ctr]
                          /\ IsAt(t, "serve") => hub[web[t].mgr][web[t].mine] = t
    BY <2>1 DEF AccessInv, CounterInv, WebInv
  <2>3. \A t \in Active : counter = c /\ web[t].ctr = c
    BY <1>2, <2>2 DEF c, Links
  <2>4. \A t \in Active : web'[t] = web[t] /\ t # s /\ web'[t].ctr = c /\ web[t].mine \in 1 .. count[c]
    BY <1>5, <1>6, <2>2, <2>3
  <2>5. \A t \in Active : web'[t].mine # web'[s].mine
    BY <1>3, <1>4, <1>5, <2>4
  <2>6. \A t, u \in Active : web[t].mine = web[u].mine => t = u
    BY <2>1 DEF AccessInv, CounterInv
  <2> QED
    BY <1>4, <1>5, <1>6, <2>2, <2>4, <2>5, <2>6 DEF IsAt
<1>12. ASSUME odd' = {}
       PROVE  odd = {} /\ Active = {} /\ managers = 0 /\ Empty /\ ~ Present /\ Active' = {s}
  <2>1. odd = {} /\ Active = {}
    BY <1>1, <1>12
  <2> QED
    BY <1>6, <2>1 DEF AccessInv, AloneInv, Present
<1>13. AloneInv'
  <2> SUFFICES ASSUME odd' = {}
               PROVE  /\ IsCurrent(s)' /\ Empty'
    BY <1>4, <1>5, <1>12 DEF AloneInv, Empty
  <2> QED
    BY <1>1, <1>4, <1>5, <1>7, <1>12 DEF IsCurrent, Empty
<1>14. ShownInv'
  <2>1. odd' = {} => ~ Present'
    BY <1>4, <1>5, <1>12 DEF Present
  <2> QED
    BY <1>1, <1>12, <2>1 DEF AccessInv, ShownInv
<1> QED
  BY <1>10, <1>11, <1>13, <1>14 DEF AccessInv

\* What the fields of a connection that goes on say of it and the others.
LEMMA GoingOnStands ==
    ASSUME AccessInv, NEW s \in Active, NEW pc \in WebStates, pc \notin {"none", "find", "serve"},
           WebGoes(s, pc), web[s].pc # "find",
           UNCHANGED <<count, hub>>, managers' \in 0 .. MaxLinks, counter' \in 0 .. MaxLinks,
           reports' \in [online : Nat, offline : Nat]
    PROVE  WebInv'
<1>1. s \in Links
  BY DEF Active
<1>2. /\ web' \in [Links -> WebType] /\ web'[s].pc = pc /\ web'[s].ctr = web[s].ctr
      /\ web'[s].mine = web[s].mine /\ web'[s].mgr = web[s].mgr
      /\ \A t \in Links \ {s} : web'[t] = web[t]
  BY <1>1, LinkGoes
<1>3. \A t \in Links : IsAt(t, "none")' => IsAt(t, "none")
  BY <1>2 DEF IsAt
<1>4. \A t \in Active' : t \in Active
  BY <1>1, <1>2 DEF Active
<1>5. \A t \in Active' : /\ web'[t].ctr = web[t].ctr /\ web'[t].mine = web[t].mine /\ web'[t].mgr = web[t].mgr
                         /\ ~ IsAt(t, "find")' => ~ IsAt(t, "find")
  BY <1>2, <1>4 DEF Active, IsAt
<1>6. \A t \in Active' : /\ web'[t].ctr \in Links /\ web'[t].mine \in 1 .. count'[web'[t].ctr]
                         /\ ~ IsAt(t, "find")' => web'[t].mgr \in Links
  BY <1>4, <1>5 DEF AccessInv, WebInv
<1> QED
  BY <1>2, <1>3, <1>6 DEF AccessInv, WebInv

LEMMA FindKeepsInv ==
    ASSUME AccessInv, NEW s \in Links, FindManagerFor(s)
    PROVE  AccessInv'
<1> USE DEF AsIs, NoReport
<1> DEFINE pc == IF managers = 0 THEN "insert" ELSE "register"
           mgr == IF managers = 0 THEN s ELSE managers
<1>1. /\ IsAt(s, "find") /\ web' = [web EXCEPT ![s].pc = pc, ![s].mgr = mgr]
      /\ UNCHANGED <<managers, hub, counter, count, odd, reports, shown>>
  BY DEF FindManagerFor
<1>2. mgr \in Links /\ pc \in {"insert", "register"}
  BY DEF AccessInv, WebInv, Links
<1> HIDE DEF mgr, pc
<1>3. /\ web' \in [Links -> WebType] /\ web'[s].pc = pc /\ web'[s].mgr = mgr /\ web'[s].ctr = web[s].ctr
      /\ web'[s].mine = web[s].mine /\ \A t \in Links \ {s} : web'[t] = web[t]
  <2>1. web \in [Links -> WebType] /\ mgr \in 0 .. MaxLinks /\ pc \in WebStates
    BY <1>2 DEF AccessInv, WebInv, Links, WebStates
  <2> QED
    BY <1>1, <2>1 DEF WebType
<1>4. Active' = Active /\ s \in Active /\ Active \subseteq Links
  BY <1>1, <1>2, <1>3 DEF Active, IsAt
<1>5. \A t \in Links : (IsAt(t, "none")' => IsAt(t, "none")) /\ (IsAt(t, "serve")' => IsAt(t, "serve") /\ t # s)
  BY <1>2, <1>3 DEF IsAt
<1>6. \A t \in Links : web'[t].ctr = web[t].ctr /\ web'[t].mine = web[t].mine /\ (t # s => web'[t] = web[t])
  BY <1>3
<1>7. \A t \in Active : ~ IsAt(t, "find")' => web'[t].mgr \in Links
  BY <1>2, <1>3, <1>4 DEF AccessInv, WebInv, IsAt
<1>8. WebInv'
  BY <1>1, <1>3, <1>4, <1>5, <1>6, <1>7 DEF AccessInv, WebInv
<1>9. CounterInv'
  <2> SUFFICES ASSUME "recount" \notin odd
               PROVE  /\ \A t \in Active : web'[t].ctr = counter
                      /\ \A t, u \in Active : web'[t].mine = web'[u].mine => t = u
                      /\ \A t \in Active : IsAt(t, "serve")' => hub[web'[t].mgr][web'[t].mine] = t
    BY <1>1, <1>4 DEF CounterInv
  <2>1. /\ \A t \in Active : web[t].ctr = counter
        /\ \A t, u \in Active : web[t].mine = web[u].mine => t = u
        /\ \A t \in Active : IsAt(t, "serve") => hub[web[t].mgr][web[t].mine] = t
    BY DEF AccessInv, CounterInv
  <2> QED
    BY <1>4, <1>5, <1>6, <2>1
<1>10. AloneInv'
  <2> SUFFICES ASSUME odd = {}
               PROVE  (\A t, u \in Active : t = u) /\ Empty /\ IsCurrent(s)'
    BY <1>1, <1>2, <1>3, <1>4 DEF AloneInv, Empty
  <2>1. (\A t, u \in Active : t = u) /\ Empty /\ IsCurrent(s)
    BY <1>1, <1>4 DEF AccessInv, AloneInv, IsAt
  <2>2. IsCurrent(s)'
    BY <1>1, <1>3, <2>1 DEF IsCurrent
  <2> QED
    BY <2>1, <2>2
<1>11. Present' <=> Present
  BY <1>1, <1>2, <1>3, <1>4 DEF Present, IsAt
<1>12. ShownInv'
  BY <1>1, <1>11 DEF AccessInv, ShownInv
<1> QED
  BY <1>8, <1>9, <1>10, <1>12 DEF AccessInv

LEMMA InsertManagerKeepsInv ==
    ASSUME AccessInv, NEW s \in Links, InsertManagerOf(s)
    PROVE  AccessInv'
<1> USE DEF AsIs, NoReport
<1>1. /\ IsAt(s, "insert") /\ WebGoes(s, "register") /\ managers' = web[s].mgr
      /\ UNCHANGED <<hub, counter, count, odd, reports, shown>>
  BY DEF InsertManagerOf
<1>2. s \in Active /\ web[s].pc = "insert" /\ "register" \in WebStates /\ Active \subseteq Links
  BY <1>1 DEF Active, IsAt, WebStates
<1>3. /\ web' \in [Links -> WebType] /\ web'[s].pc = "register" /\ web'[s].ctr = web[s].ctr
      /\ web'[s].mine = web[s].mine /\ web'[s].mgr = web[s].mgr
      /\ (\A t \in Links \ {s} : web'[t] = web[t]) /\ Active' = Active
  BY <1>1, <1>2, LinkGoes
<1>4. managers' \in 0 .. MaxLinks /\ counter' \in 0 .. MaxLinks /\ reports' \in [online : Nat, offline : Nat]
  BY <1>1 DEF AccessInv, WebInv, WebType
<1>5. WebInv'
  BY <1>1, <1>2, <1>4, GoingOnStands
<1>6. CounterInv'
  BY <1>1, <1>2, <1>3 DEF AccessInv, CounterInv, IsAt
<1>7. AloneInv'
  BY <1>1, <1>2, <1>3 DEF AccessInv, AloneInv, Empty, IsCurrent
<1>8. Present' <=> Present
  BY <1>2, <1>3 DEF Present
<1>9. ShownInv'
  BY <1>1, <1>8 DEF AccessInv, ShownInv
<1> QED
  BY <1>5, <1>6, <1>7, <1>9 DEF AccessInv

\* The two kinds of report
LEMMA Reporting ==
    ASSUME AccessInv, NEW kind \in {"online", "offline"}, Report(kind),
           odd' = {} => (Present' <=> kind = "online")
    PROVE  ShownInv' /\ reports' \in [online : Nat, offline : Nat] /\ (odd' = {} => odd = {})
           /\ ("recount" \notin odd' => "recount" \notin odd)
<1>1. reports \in [online : Nat, offline : Nat] /\ reports' = [reports EXCEPT ![kind] = @ + 1]
  BY DEF AccessInv, WebInv, Report
<1>2. reports' \in [online : Nat, offline : Nat]
  <2>1. CASE kind = "online"
    BY <1>1, <2>1
  <2>2. CASE kind = "offline"
    BY <1>1, <2>2
  <2> QED
    BY <2>1, <2>2
<1>3. odd' = {} => odd = {} /\ reports.online + reports.offline = 0
  BY DEF Report
<1>4. ASSUME odd' = {}
      PROVE  reports' = [[online |-> 0, offline |-> 0] EXCEPT ![kind] = 1]
  <2>1. reports = [online |-> 0, offline |-> 0]
    BY <1>1, <1>3, <1>4
  <2>2. CASE kind = "online"
    BY <1>1, <2>1, <2>2
  <2>3. CASE kind = "offline"
    BY <1>1, <2>1, <2>3
  <2> QED
    BY <2>2, <2>3
<1>5. odd' = {} => kind = (IF Present' THEN "online" ELSE "offline")
  OBVIOUS
<1>6. ShownInv'
  BY <1>4, <1>5 DEF ShownInv
<1> QED
  BY <1>2, <1>3, <1>6 DEF Report

LEMMA RegisterKeepsInv ==
    ASSUME AccessInv, NEW s \in Links, RegisterEndpoint(s)
    PROVE  AccessInv'
<1>1. /\ IsAt(s, "register") /\ hub' = [hub EXCEPT ![web[s].mgr][web[s].mine] = s]
      /\ web' = [web EXCEPT ![s].pc = "serve", ![s].recv = TRUE, ![s].send = TRUE]
      /\ Report("online") /\ UNCHANGED <<managers, channel, counter, count>>
  BY DEF RegisterEndpoint
<1>2. s \in Active /\ web[s].pc = "register" /\ Active \subseteq Links
  BY <1>1 DEF Active, IsAt
<1>3. /\ web' \in [Links -> WebType] /\ web'[s].pc = "serve" /\ web'[s].ctr = web[s].ctr
      /\ web'[s].mine = web[s].mine /\ web'[s].mgr = web[s].mgr
      /\ (\A t \in Links \ {s} : web'[t] = web[t])
  <2>1. web \in [Links -> WebType] /\ "serve" \in WebStates
    BY DEF AccessInv, WebInv, WebStates
  <2> QED
    BY <1>1, <2>1 DEF WebType
<1>4. Active' = Active
  BY <1>2, <1>3 DEF Active
<1>5. web[s].mgr \in Links /\ web[s].mine \in Links
  <2>1. web[s].mine \in 1 .. count[web[s].ctr] /\ web[s].ctr \in Links /\ web[s].mgr \in Links
    BY <1>2 DEF AccessInv, WebInv, IsAt
  <2>2. count[web[s].ctr] \in 0 .. MaxLinks
    BY <2>1 DEF AccessInv, WebInv
  <2> QED
    BY <2>1, <2>2, WsAccessAssumption DEF Links
<1>6. /\ hub' \in [Links -> [Links -> 0 .. MaxLinks]] /\ hub'[web[s].mgr][web[s].mine] = s
      /\ \A m, n \in Links : m # web[s].mgr \/ n # web[s].mine => hub'[m][n] = hub[m][n]
  <2>1. hub \in [Links -> [Links -> 0 .. MaxLinks]] /\ s \in 0 .. MaxLinks
    BY DEF AccessInv, WebInv, Links
  <2> QED
    BY <1>1, <1>5, <2>1
<1>7. Present'
  BY <1>2, <1>3, <1>4 DEF Present
<1>8. ShownInv' /\ reports' \in [online : Nat, offline : Nat] /\ (odd' = {} => odd = {})
      /\ ("recount" \notin odd' => "recount" \notin odd)
  BY <1>1, <1>7, Reporting
<1>9. \A t \in Active : /\ web'[t].ctr = web[t].ctr /\ web'[t].mine = web[t].mine /\ web'[t].mgr = web[t].mgr
                        /\ t # s => web'[t] = web[t]
  BY <1>2, <1>3
<1>10. WebInv'
  <2>1. \A t \in Links : IsAt(t, "none")' => IsAt(t, "none")
    BY <1>3 DEF IsAt
  <2>2. \A t \in Active' : /\ web'[t].ctr \in Links /\ web'[t].mine \in 1 .. count'[web'[t].ctr]
                           /\ ~ IsAt(t, "find")' => web'[t].mgr \in Links
    <3>1. \A t \in Active : /\ web[t].ctr \in Links /\ web[t].mine \in 1 .. count[web[t].ctr]
                            /\ web[t].pc # "find" => web[t].mgr \in Links
      BY DEF AccessInv, WebInv, IsAt
    <3> QED
      BY <1>1, <1>4, <1>5, <1>9, <3>1 DEF IsAt
  <2> QED
    BY <1>1, <1>3, <1>6, <1>8, <2>1, <2>2 DEF AccessInv, WebInv
<1>11. CounterInv'
  <2> SUFFICES ASSUME "recount" \notin odd
               PROVE  /\ \A t \in Active : web'[t].ctr = counter
                      /\ \A t, u \in Active : web'[t].mine = web'[u].mine => t = u
                      /\ \A t \in Active : IsAt(t, "serve")' => hub'[web'[t].mgr][web'[t].mine] = t
    BY <1>1, <1>4, <1>8 DEF CounterInv
  <2>1. /\ \A t \in Active : web[t].ctr = counter
        /\ \A t, u \in Active : web[t].mine = web[u].mine => t = u
        /\ \A t \in Active : IsAt(t, "serve") => hub[web[t].mgr][web[t].mine] = t
    BY DEF AccessInv, CounterInv
  <2>2. ASSUME NEW t \in Active, t # s, IsAt(t, "serve")
        PROVE  hub'[web[t].mgr][web[t].mine] = t
    <3>1. web[t].mine # web[s].mine
      BY <1>2, <2>1, <2>2
    <3>2. web[t].mgr \in Links /\ web[t].ctr \in Links /\ web[t].mine \in 1 .. count[web[t].ctr]
      BY <2>2 DEF AccessInv, WebInv, IsAt
    <3>3. count[web[t].ctr] \in 0 .. MaxLinks
      BY <3>2 DEF AccessInv, WebInv
    <3>4. web[t].mine \in Links
      BY <3>2, <3>3, WsAccessAssumption DEF Links
    <3> QED
      BY <1>6, <2>1, <2>2, <3>1, <3>2, <3>4
  <2> QED
    BY <1>2, <1>3, <1>6, <1>9, <2>1, <2>2 DEF IsAt
<1>12. AloneInv'
  <2> SUFFICES ASSUME odd = {}
               PROVE  /\ \A t, u \in Active : t = u
                      /\ \A t \in Active : /\ IsCurrent(t)' /\ t = s
                      /\ \A m, n \in Links : hub'[m][n] # 0 => m = web[s].mgr /\ n = web[s].mine
    BY <1>1, <1>2, <1>3, <1>4, <1>8 DEF AloneInv
  <2>1. (\A t, u \in Active : t = u) /\ Empty /\ IsCurrent(s)
    BY <1>2 DEF AccessInv, AloneInv
  <2>2. IsCurrent(s)'
    BY <1>1, <1>3, <2>1 DEF IsCurrent
  <2> QED
    BY <1>2, <1>6, <2>1, <2>2 DEF Empty
<1> QED
  BY <1>8, <1>10, <1>11, <1>12 DEF AccessInv

LEMMA JoinedKeepsInv ==
    ASSUME AccessInv, NEW s \in Links, Joined(s)
    PROVE  AccessInv'
<1> USE DEF AsIs, NoReport
<1> DEFINE pc == IF IsCurrent(s) THEN "unregister" ELSE "done"
<1>1. /\ IsAt(s, "serve") /\ WebGoes(s, pc)
      /\ UNCHANGED <<managers, hub, counter, count, odd, reports, shown>>
  BY DEF Joined
<1>2. /\ s \in Active /\ web[s].pc = "serve" /\ pc \in WebStates /\ Active \subseteq Links
      /\ pc \in {"unregister", "done"} /\ (IsCurrent(s) => pc = "unregister")
  BY <1>1 DEF Active, IsAt, WebStates
<1> HIDE DEF pc
<1>3. /\ web' \in [Links -> WebType] /\ web'[s].pc = pc /\ web'[s].ctr = web[s].ctr
      /\ web'[s].mine = web[s].mine /\ web'[s].mgr = web[s].mgr
      /\ (\A t \in Links \ {s} : web'[t] = web[t])
      /\ (pc = "unregister" => Active' = Active) /\ (pc = "done" => Active' = Active \ {s})
  BY <1>1, <1>2, LinkGoes
<1>4. WebInv'
  <2>1. managers' \in 0 .. MaxLinks /\ counter' \in 0 .. MaxLinks /\ reports' \in [online : Nat, offline : Nat]
    BY <1>1 DEF AccessInv, WebInv
  <2> QED
    BY <1>1, <1>2, <2>1, GoingOnStands
<1>5. Active' \subseteq Active
  BY <1>2, <1>3
<1>6. CounterInv'
  BY <1>1, <1>2, <1>3, <1>5 DEF AccessInv, CounterInv, IsAt
<1>7. odd = {} => pc = "unregister"
  BY <1>2 DEF AccessInv, AloneInv
<1>8. AloneInv'
  BY <1>1, <1>2, <1>3, <1>7 DEF AccessInv, AloneInv, Empty, IsCurrent
<1>9. odd = {} => (Present' <=> Present)
  BY <1>2, <1>3, <1>7 DEF Present
<1>10. ShownInv'
  BY <1>1, <1>9 DEF AccessInv, ShownInv
<1> QED
  BY <1>4, <1>6, <1>8, <1>10 DEF AccessInv

LEMMA UnregisterKeepsInv ==
    ASSUME AccessInv, NEW s \in Links, UnregisterEndpoint(s)
    PROVE  AccessInv'
<1> USE DEF AsIs, NoReport
<1>1. /\ IsAt(s, "unregister") /\ WebGoes(s, "empty") /\ hub' = [hub EXCEPT ![web[s].mgr][web[s].mine] = 0]
      /\ UNCHANGED <<managers, counter, count, odd, reports, shown>>
  BY DEF UnregisterEndpoint
<1>2. s \in Active /\ web[s].pc = "unregister" /\ "empty" \in WebStates /\ Active \subseteq Links
  BY <1>1 DEF Active, IsAt, WebStates
<1>3. /\ web' \in [Links -> WebType] /\ web'[s].pc = "empty" /\ web'[s].ctr = web[s].ctr
      /\ web'[s].mine = web[s].mine /\ web'[s].mgr = web[s].mgr
      /\ (\A t \in Links \ {s} : web'[t] = web[t]) /\ Active' = Active
  BY <1>1, <1>2, LinkGoes
<1>4. \A t \in Active : ~ IsAt(t, "find") => web[t].mgr \in Links /\ web[t].mine \in Links
  <2> SUFFICES ASSUME NEW t \in Active, ~ IsAt(t, "find") PROVE web[t].mgr \in Links /\ web[t].mine \in Links
    OBVIOUS
  <2>1. web[t].mgr \in Links /\ web[t].ctr \in Links /\ web[t].mine \in 1 .. count[web[t].ctr]
    BY DEF AccessInv, WebInv
  <2>2. count[web[t].ctr] \in 0 .. MaxLinks
    BY <2>1 DEF AccessInv, WebInv
  <2> QED
    BY <2>1, <2>2, WsAccessAssumption DEF Links
<1>5. web[s].mgr \in Links /\ web[s].mine \in Links
  BY <1>2, <1>4 DEF IsAt
<1>6. /\ hub' \in [Links -> [Links -> 0 .. MaxLinks]] /\ hub'[web[s].mgr][web[s].mine] = 0
      /\ \A m, n \in Links : m # web[s].mgr \/ n # web[s].mine => hub'[m][n] = hub[m][n]
  <2>1. hub \in [Links -> [Links -> 0 .. MaxLinks]] /\ 0 \in 0 .. MaxLinks
    BY WsAccessAssumption DEF AccessInv, WebInv
  <2> QED
    BY <1>1, <1>5, <2>1
<1>7. \A t \in Active : /\ web'[t].ctr = web[t].ctr /\ web'[t].mine = web[t].mine /\ web'[t].mgr = web[t].mgr
                        /\ t # s => web'[t] = web[t]
  BY <1>2, <1>3
<1>8. WebInv'
  <2>1. \A t \in Links : IsAt(t, "none")' => IsAt(t, "none")
    BY <1>3 DEF IsAt
  <2>2. \A t \in Active' : /\ web'[t].ctr \in Links /\ web'[t].mine \in 1 .. count'[web'[t].ctr]
                           /\ ~ IsAt(t, "find")' => web'[t].mgr \in Links
    BY <1>1, <1>3, <1>5, <1>7 DEF AccessInv, WebInv, IsAt
  <2> QED
    BY <1>1, <1>3, <1>6, <2>1, <2>2 DEF AccessInv, WebInv
<1>9. CounterInv'
  <2> SUFFICES ASSUME "recount" \notin odd
               PROVE  /\ \A t \in Active : web'[t].ctr = counter
                      /\ \A t, u \in Active : web'[t].mine = web'[u].mine => t = u
                      /\ \A t \in Active : IsAt(t, "serve")' => hub'[web'[t].mgr][web'[t].mine] = t
    BY <1>1, <1>3 DEF CounterInv
  <2>1. /\ \A t \in Active : web[t].ctr = counter
        /\ \A t, u \in Active : web[t].mine = web[u].mine => t = u
        /\ \A t \in Active : IsAt(t, "serve") => hub[web[t].mgr][web[t].mine] = t
    BY DEF AccessInv, CounterInv
  <2>2. ASSUME NEW t \in Active, t # s, IsAt(t, "serve")
        PROVE  hub'[web[t].mgr][web[t].mine] = t
    <3>1. web[t].mine # web[s].mine
      BY <1>2, <2>1, <2>2
    <3>2. web[t].mgr \in Links /\ web[t].mine \in Links
      BY <1>4, <2>2 DEF IsAt
    <3> QED
      BY <1>6, <2>1, <2>2, <3>1, <3>2
  <2> QED
    BY <1>2, <1>3, <1>7, <2>1, <2>2 DEF IsAt
<1>10. AloneInv'
  <2> SUFFICES ASSUME odd = {}
               PROVE  /\ \A t, u \in Active : t = u
                      /\ \A t \in Active : /\ IsCurrent(t)' /\ t = s
                      /\ \A m, n \in Links : hub'[m][n] = 0
    BY <1>1, <1>2, <1>3 DEF AloneInv, Empty
  <2>1. /\ (\A t, u \in Active : t = u) /\ IsCurrent(s)
        /\ \A m, n \in Links : hub[m][n] # 0 => m = web[s].mgr /\ n = web[s].mine
    BY <1>2 DEF AccessInv, AloneInv
  <2>2. IsCurrent(s)'
    BY <1>1, <1>3, <2>1 DEF IsCurrent
  <2> QED
    BY <1>2, <1>6, <2>1, <2>2
<1>11. Present' <=> Present
  BY <1>2, <1>3 DEF Present
<1>12. ShownInv'
  BY <1>1, <1>11 DEF AccessInv, ShownInv
<1> QED
  BY <1>8, <1>9, <1>10, <1>12 DEF AccessInv

LEMMA LooksKeepsInv ==
    ASSUME AccessInv, NEW s \in Links, LooksEmpty(s)
    PROVE  AccessInv'
<1> USE DEF AsIs, NoReport
<1> DEFINE pc == IF \A n \in Links : hub[web[s].mgr][n] = 0 THEN "remove" ELSE "forget"
<1>1. /\ IsAt(s, "empty") /\ WebGoes(s, pc)
      /\ UNCHANGED <<managers, hub, counter, count, odd, reports, shown>>
  BY DEF LooksEmpty
<1>2. /\ s \in Active /\ web[s].pc = "empty" /\ pc \in WebStates /\ pc \in {"remove", "forget"}
      /\ Active \subseteq Links
  BY <1>1 DEF Active, IsAt, WebStates
<1>3. odd = {} => pc = "remove"
  <2>1. web[s].mgr \in Links
    BY <1>2 DEF AccessInv, WebInv, IsAt
  <2>2. odd = {} => Empty
    BY <1>2 DEF AccessInv, AloneInv
  <2> QED
    BY <2>1, <2>2 DEF Empty
<1> HIDE DEF pc
<1>4. /\ web' \in [Links -> WebType] /\ web'[s].pc = pc /\ web'[s].ctr = web[s].ctr
      /\ web'[s].mine = web[s].mine /\ web'[s].mgr = web[s].mgr
      /\ (\A t \in Links \ {s} : web'[t] = web[t]) /\ Active' = Active
  BY <1>1, <1>2, LinkGoes
<1>5. WebInv'
  <2>1. managers' \in 0 .. MaxLinks /\ counter' \in 0 .. MaxLinks /\ reports' \in [online : Nat, offline : Nat]
    BY <1>1 DEF AccessInv, WebInv
  <2> QED
    BY <1>1, <1>2, <2>1, GoingOnStands
<1>6. CounterInv'
  BY <1>1, <1>2, <1>4 DEF AccessInv, CounterInv, IsAt
<1>7. AloneInv'
  BY <1>1, <1>2, <1>3, <1>4 DEF AccessInv, AloneInv, Empty, IsCurrent
<1>8. odd = {} => (Present' <=> Present)
  BY <1>2, <1>3, <1>4 DEF Present
<1>9. ShownInv'
  BY <1>1, <1>8 DEF AccessInv, ShownInv
<1> QED
  BY <1>5, <1>6, <1>7, <1>9 DEF AccessInv

LEMMA RemoveKeepsInv ==
    ASSUME AccessInv, NEW s \in Links, RemoveManager(s)
    PROVE  AccessInv'
<1> USE DEF AsIs, NoReport
<1>1. /\ IsAt(s, "remove") /\ WebGoes(s, "report") /\ managers' = 0
      /\ UNCHANGED <<hub, counter, count, odd, reports, shown>>
  BY DEF RemoveManager
<1>2. s \in Active /\ web[s].pc = "remove" /\ "report" \in WebStates /\ Active \subseteq Links
  BY <1>1 DEF Active, IsAt, WebStates
<1>3. /\ web' \in [Links -> WebType] /\ web'[s].pc = "report" /\ web'[s].ctr = web[s].ctr
      /\ web'[s].mine = web[s].mine /\ web'[s].mgr = web[s].mgr
      /\ (\A t \in Links \ {s} : web'[t] = web[t]) /\ Active' = Active
  BY <1>1, <1>2, LinkGoes
<1>4. WebInv'
  <2>1. managers' \in 0 .. MaxLinks /\ counter' \in 0 .. MaxLinks /\ reports' \in [online : Nat, offline : Nat]
    BY <1>1, WsAccessAssumption DEF AccessInv, WebInv
  <2> QED
    BY <1>1, <1>2, <2>1, GoingOnStands
<1>5. CounterInv'
  BY <1>1, <1>2, <1>3 DEF AccessInv, CounterInv, IsAt
<1>6. AloneInv'
  BY <1>1, <1>2, <1>3 DEF AccessInv, AloneInv, Empty, IsCurrent
<1>7. Present' <=> Present
  BY <1>2, <1>3 DEF Present
<1>8. ShownInv'
  BY <1>1, <1>7 DEF AccessInv, ShownInv
<1> QED
  BY <1>4, <1>5, <1>6, <1>8 DEF AccessInv

LEMMA OfflineKeepsInv ==
    ASSUME AccessInv, NEW s \in Links, ReportOffline(s)
    PROVE  AccessInv'
<1>1. /\ IsAt(s, "report") /\ WebGoes(s, "forget") /\ Report("offline")
      /\ UNCHANGED <<managers, hub, channel, counter, count>>
  BY DEF ReportOffline
<1>2. s \in Active /\ web[s].pc = "report" /\ "forget" \in WebStates /\ Active \subseteq Links
  BY <1>1 DEF Active, IsAt, WebStates
<1>3. /\ web' \in [Links -> WebType] /\ web'[s].pc = "forget" /\ web'[s].ctr = web[s].ctr
      /\ web'[s].mine = web[s].mine /\ web'[s].mgr = web[s].mgr
      /\ (\A t \in Links \ {s} : web'[t] = web[t]) /\ Active' = Active
  BY <1>1, <1>2, LinkGoes
<1>4. odd' = {} => odd = {}
  BY <1>1 DEF Report
<1>5. odd' = {} => ~ Present'
  BY <1>2, <1>3, <1>4 DEF AccessInv, AloneInv, Present
<1>6. ShownInv' /\ reports' \in [online : Nat, offline : Nat] /\ ("recount" \notin odd' => "recount" \notin odd)
  BY <1>1, <1>5, Reporting
<1>7. WebInv'
  <2>1. managers' \in 0 .. MaxLinks /\ counter' \in 0 .. MaxLinks
    BY <1>1 DEF AccessInv, WebInv
  <2> QED
    BY <1>1, <1>2, <1>6, <2>1, GoingOnStands
<1>8. CounterInv'
  BY <1>1, <1>2, <1>3, <1>6 DEF AccessInv, CounterInv, IsAt
<1>9. AloneInv'
  BY <1>1, <1>2, <1>3, <1>4 DEF AccessInv, AloneInv, Empty, IsCurrent
<1> QED
  BY <1>6, <1>7, <1>8, <1>9 DEF AccessInv

\* A counter that is dropped while nothing is recounted is nobody's any more.
LEMMA ForgetKeepsInv ==
    ASSUME AccessInv, NEW s \in Links, ForgetCounter(s)
    PROVE  AccessInv'
<1> USE DEF NoReport
<1>1. /\ IsAt(s, "forget") /\ WebGoes(s, "done") /\ counter' = 0
      /\ odd' = IF \E t \in Active \ {s} : web[t].ctr = counter THEN odd \cup {"recount"} ELSE odd
      /\ UNCHANGED <<count, managers, hub, reports, shown>>
  BY DEF ForgetCounter, DropCounter
<1>2. s \in Active /\ web[s].pc = "forget" /\ "done" \in WebStates /\ Active \subseteq Links
  BY <1>1 DEF Active, IsAt, WebStates
<1>3. /\ web' \in [Links -> WebType] /\ web'[s].pc = "done" /\ web'[s].ctr = web[s].ctr
      /\ web'[s].mine = web[s].mine /\ web'[s].mgr = web[s].mgr
      /\ (\A t \in Links \ {s} : web'[t] = web[t]) /\ Active' = Active \ {s}
  BY <1>1, <1>2, LinkGoes
<1>4. WebInv'
  <2>1. managers' \in 0 .. MaxLinks /\ counter' \in 0 .. MaxLinks /\ reports' \in [online : Nat, offline : Nat]
    BY <1>1, WsAccessAssumption DEF AccessInv, WebInv
  <2> QED
    BY <1>1, <1>2, <2>1, GoingOnStands
<1>5. "recount" \notin odd' => Active' = {}
  <2> SUFFICES ASSUME "recount" \notin odd', NEW t \in Active \ {s} PROVE FALSE
    BY <1>3
  <2>1. "recount" \notin odd /\ web[t].ctr # counter
    BY <1>1
  <2> QED
    BY <2>1 DEF AccessInv, CounterInv
<1>6. CounterInv'
  BY <1>5 DEF CounterInv
<1>7. odd' = {} => odd = {} /\ managers = 0 /\ Empty /\ Active' = {} /\ ~ Present /\ ~ Present'
  <2> SUFFICES ASSUME odd' = {} PROVE odd = {} /\ managers = 0 /\ Empty /\ Active' = {} /\ ~ Present /\ ~ Present'
    OBVIOUS
  <2>1. odd = {} /\ Active' = {}
    BY <1>1, <1>5
  <2>2. managers = 0 /\ Empty /\ \A t \in Active : t = s
    BY <1>2, <2>1 DEF AccessInv, AloneInv
  <2> QED
    BY <1>2, <2>1, <2>2 DEF Present
<1>8. AloneInv'
  BY <1>1, <1>7 DEF AloneInv, Empty
<1>9. ShownInv'
  BY <1>1, <1>7 DEF AccessInv, ShownInv
<1> QED
  BY <1>4, <1>6, <1>8, <1>9 DEF AccessInv

LEMMA ReportedKeepsInv ==
    ASSUME AccessInv, NEW kind \in {"online", "offline"}, Reported(kind)
    PROVE  AccessInv'
<1>1. /\ reports[kind] > 0 /\ reports' = [reports EXCEPT ![kind] = reports[kind] - 1]
      /\ \/ shown' = kind /\ odd' = odd
         \/ odd' = odd \cup {"untold"}
      /\ UNCHANGED <<web, counter, count, managers, hub>>
  BY DEF Reported
<1>2. reports \in [online : Nat, offline : Nat]
  BY DEF AccessInv, WebInv
<1>3. reports' \in [online : Nat, offline : Nat]
  <2>1. CASE kind = "online"
    BY <1>1, <1>2, <2>1
  <2>2. CASE kind = "offline"
    BY <1>1, <1>2, <2>2
  <2> QED
    BY <2>1, <2>2
<1>4. Active' = Active /\ (Present' <=> Present) /\ \A s \in Links : \A at : IsAt(s, at)' <=> IsAt(s, at)
  BY <1>1 DEF Active, Present, IsAt
<1>5. (odd' = {} => odd = {} /\ shown' = kind) /\ ("recount" \notin odd' => "recount" \notin odd)
  BY <1>1
<1>6. WebInv'
  <2>1. \A s \in Links : IsAt(s, "none")' => \A c \in Links : count'[c] < s
    BY <1>1, <1>4 DEF AccessInv, WebInv
  <2>2. \A s \in Active' : /\ web'[s].ctr \in Links /\ web'[s].mine \in 1 .. count'[web'[s].ctr]
                           /\ ~ IsAt(s, "find")' => web'[s].mgr \in Links
    BY <1>1, <1>4 DEF AccessInv, WebInv, Active
  <2>3. /\ web' \in [Links -> WebType] /\ counter' \in 0 .. MaxLinks /\ managers' \in 0 .. MaxLinks
        /\ count' \in [Links -> 0 .. MaxLinks] /\ hub' \in [Links -> [Links -> 0 .. MaxLinks]]
    BY <1>1 DEF AccessInv, WebInv
  <2> QED
    BY <1>3, <2>1, <2>2, <2>3 DEF WebInv
<1>7. CounterInv'
  BY <1>1, <1>4, <1>5 DEF AccessInv, CounterInv, IsAt
<1>8. AloneInv'
  BY <1>1, <1>4, <1>5 DEF AccessInv, AloneInv, Empty, IsCurrent
<1>9. ShownInv'
  <2> DEFINE now == IF Present THEN "online" ELSE "offline"
  <2> SUFFICES ASSUME odd' = {} PROVE reports' = [online |-> 0, offline |-> 0] /\ shown' = now
    BY <1>4 DEF ShownInv
  <2>1. \/ reports = [online |-> 0, offline |-> 0]
        \/ reports = [[online |-> 0, offline |-> 0] EXCEPT ![now] = 1]
    BY <1>5 DEF AccessInv, ShownInv
  <2>2. now \in {"online", "offline"}
    OBVIOUS
  <2> HIDE DEF now
  <2>3. kind = now
    <3>1. CASE kind = "online"
      BY <1>1, <2>1, <2>2, <3>1
    <3>2. CASE kind = "offline"
      BY <1>1, <2>1, <2>2, <3>2
    <3> QED
      BY <3>1, <3>2
  <2>4. reports' = [online |-> 0, offline |-> 0]
    <3>1. reports = [[online |-> 0, offline |-> 0] EXCEPT ![kind] = 1]
      <4>1. [online |-> 0, offline |-> 0][kind] = 0
        BY kind = "online" \/ kind = "offline"
      <4> QED
        BY <1>1, <2>1, <2>3, <4>1
    <3>2. CASE kind = "online"
      <4>1. reports = [online |-> 1, offline |-> 0]
        BY <3>1, <3>2
      <4>2. reports' = [reports EXCEPT !["online"] = reports["online"] - 1]
        BY <1>1, <3>2
      <4>3. reports'.online = 0 /\ reports'.offline = 0
        BY <1>2, <4>1, <4>2
      <4> QED
        BY <1>3, <4>3
    <3>3. CASE kind = "offline"
      <4>1. reports = [online |-> 0, offline |-> 1]
        BY <3>1, <3>3
      <4>2. reports' = [reports EXCEPT !["offline"] = reports["offline"] - 1]
        BY <1>1, <3>3
      <4>3. reports'.online = 0 /\ reports'.offline = 0
        BY <1>2, <4>1, <4>2
      <4> QED
        BY <1>3, <4>3
    <3> QED
      BY <3>2, <3>3
  <2> QED
    BY <1>5, <2>3, <2>4
<1> QED
  BY <1>6, <1>7, <1>8, <1>9 DEF AccessInv

LEMMA AccessStep ==
    ASSUME AccessInv, [AccessNext]_accessVars
    PROVE  AccessInv'
<1>1. CASE AccessNext
  BY <1>1, ConnectsKeepsInv, SmallSteps, FindKeepsInv, InsertManagerKeepsInv, RegisterKeepsInv, JoinedKeepsInv,
     UnregisterKeepsInv, LooksKeepsInv, RemoveKeepsInv, OfflineKeepsInv, ForgetKeepsInv, ReportedKeepsInv
     DEF AccessNext, LinkStep
<1>2. CASE UNCHANGED accessVars
  <2>1. web \in [Links -> WebType]
    BY DEF AccessInv, WebInv
  <2> QED
    BY <1>2, <2>1, ConnectionStands DEF accessVars
<1> QED
  BY <1>1, <1>2

LEMMA HeardAndGone == AccessInv => LatestIsHeard /\ GoneIsOffline
<1> SUFFICES ASSUME AccessInv PROVE LatestIsHeard /\ GoneIsOffline
  OBVIOUS
<1>1. LatestIsHeard
  <2>1. \A s \in Links : IsAt(s, "serve") => s \in Active
    BY DEF IsAt, Active
  <2> QED
    BY <2>1 DEF LatestIsHeard, AccessInv, CounterInv
<1>2. GoneIsOffline
  <2> SUFFICES ASSUME Active = {}, reports.online + reports.offline = 0, odd = {}
               PROVE  managers = 0 /\ counter = 0 /\ shown = "offline" /\ Empty
    BY DEF GoneIsOffline, Empty
  <2>1. managers = 0 /\ counter = 0 /\ Empty
    BY DEF AccessInv, AloneInv
  <2>2. ~ Present
    BY DEF Present
  <2>3. \/ reports = [online |-> 0, offline |-> 0] /\ shown = "offline"
        \/ reports = [[online |-> 0, offline |-> 0] EXCEPT !["offline"] = 1]
    BY <2>2 DEF AccessInv, ShownInv
  <2> QED
    BY <2>1, <2>3
<1> QED
  BY <1>1, <1>2

-----------------------------------------------------------------------------
\* A device's MQTT transport

HandlerStates == {"idle", "manager", "insert_manager", "ensure", "insert", "mark", "rotate", "renew"}
HandlerType == [pc : HandlerStates, kind : {"message", "hello", "online", "wake"},
                mgr : 0 .. MaxTransports, tr : 0 .. MaxTransports]
EntryType == [tr : 0 .. MaxTransports, mgr : 0 .. MaxTransports, udp : 0 .. MaxTransports, online : BOOLEAN]
DestroyType == [pc : {"no", "remove", "unregister", "shutdown", "clean"}, mgr : 0 .. MaxTransports]
TransportType ==
    /\ handler \in [Handlers -> HandlerType] /\ entry \in EntryType
    /\ endpoint \in [Transports -> 0 .. MaxTransports] /\ registry \in 0 .. MaxTransports
    /\ made \in [tr : 0 .. MaxTransports, mgr : 0 .. MaxTransports, conn : 0 .. MaxTransports]
    /\ outLoop \in [Transports -> {"none", "run", "ended", "failed"}]
    /\ destroy \in [Destroyers -> DestroyType]

\* One handler at a time, and none beside a destruction.
OneAtATime ==
    /\ \A g, h \in Handlers : handler[g].pc # "idle" /\ handler[h].pc # "idle" => g = h
    /\ Handling => ~ Destroying

\* Endpoint tr is that of manager mgr, and there is no other.
OnlyEndpoint(mgr, tr) ==
    /\ mgr \in Transports /\ endpoint[mgr] = tr
    /\ \A m \in Transports \ {mgr} : endpoint[m] = 0

\* How far a handler has come with the transport it makes or uses.
HandlerHolds(h) ==
    /\ handler[h].pc = "insert_manager" => handler[h].mgr \in Transports /\ entry.tr = 0
    /\ handler[h].pc = "ensure" => handler[h].mgr \in Transports /\ registry = handler[h].mgr
    /\ handler[h].pc = "insert" => /\ entry.tr = 0 /\ registry = handler[h].mgr
                                   /\ handler[h].tr \in Transports /\ outLoop[handler[h].tr] = "run"
                                   /\ OnlyEndpoint(handler[h].mgr, handler[h].tr)
    /\ handler[h].pc \in {"mark", "rotate", "renew"} => entry.tr # 0
    /\ handler[h].pc = "renew" => conns = {}

\* An entry is one transport throughout; without one there is no endpoint, unless a handler
\* has yet to insert the entry or a destruction has yet to unregister the endpoint.
EntryHolds ==
    /\ entry.tr # 0 =>
          /\ registry = entry.mgr /\ OnlyEndpoint(entry.mgr, entry.tr)
          /\ outLoop[entry.tr] = "run" \/ destroy[entry.tr].pc = "remove"
          /\ entry.udp # 0 => conns = {entry.udp} \/ \E h \in Handlers : handler[h].pc = "renew"
    /\ entry.tr = 0 =>
          \/ \E h \in Handlers : handler[h].pc = "insert"
          \/ \E d \in Destroyers : destroy[d].pc = "unregister"
          \/ \A m \in Transports : endpoint[m] = 0

\* A destruction has a reason for as long as it lasts: the device is not online, its loop has
\* failed, or there is nothing left to destroy.
DestroyerHolds(d) ==
    /\ destroy[d].pc = "unregister" => OnlyEndpoint(destroy[d].mgr, endpoint[destroy[d].mgr])
    /\ destroy[d].pc \in {"unregister", "shutdown", "clean"} => entry.tr = 0
    /\ destroy[d].pc # "no" => ~ life.online \/ (d \in Transports /\ (outLoop[d] = "failed" \/ entry.tr = 0))

\* A device that is online has an entry that says so, once its message is handled.
OnlineHolds ==
    life.online =>
        /\ ~ Handling => entry.tr # 0 \/ \E k \in Transports : outLoop[k] = "failed"
        /\ entry.tr # 0 /\ (\A h \in Handlers : handler[h].pc \in {"idle", "rotate", "renew"}
                                                \/ handler[h].kind = "wake")
              => entry.online

MqttHolds ==
    /\ OneAtATime /\ EntryHolds /\ OnlineHolds
    /\ \A h \in Handlers : HandlerHolds(h)
    /\ \A d \in Destroyers : DestroyerHolds(d)

\* Each event is swept at most once.
SweptOnce ==
    /\ messages \in Nat /\ DOMAIN sweep = Events
    /\ \A e \in Events : sweep[e].pc = "sleep" => e <= messages
    /\ \A e \in Events : destroy[0 - e].pc # "no" => e <= messages /\ sweep[e].pc \in {"destroys", "over"}

MqttInv == TransportType /\ SweptOnce /\ (~ overlapped => MqttHolds)

\* What a destruction is of: a transport, the checker, or an event, and not two of them.
LEMMA WhoDestroys ==
    /\ Transports \subseteq Destroyers /\ Checker \in Destroyers \ Transports
    /\ \A e \in Events : 0 - e \in Destroyers \ Transports
    /\ \A k \in Transports : k # Checker /\ k # 0 /\ k \in 0 .. MaxTransports
    /\ \A e, f \in Events : 0 - e = 0 - f => e = f
BY MqttAssumption DEF Transports, Events, Checker, Destroyers

LEMMA MqttBegins == MqttInit => MqttInv
<1> SUFFICES ASSUME MqttInit PROVE MqttInv
  OBVIOUS
<1> USE MqttAssumption DEF MqttInit
<1>1. Idle \in HandlerType /\ Idle.pc = "idle"
  BY DEF Idle, HandlerType, HandlerStates
<1>2. NoEntry \in EntryType /\ NoEntry.tr = 0
  BY DEF NoEntry, EntryType
<1>3. [pc |-> "no", mgr |-> 0] \in DestroyType
  BY DEF DestroyType
<1>4. TransportType
  BY <1>1, <1>2, <1>3 DEF TransportType
<1>5. \A h \in Handlers : handler[h].pc = "idle"
  BY <1>1
<1>6. \A d \in Destroyers : destroy[d].pc = "no"
  OBVIOUS
<1>7. OneAtATime /\ \A h \in Handlers : HandlerHolds(h)
  BY <1>5, <1>6 DEF OneAtATime, Handling, HandlerHolds
<1>8. EntryHolds /\ OnlineHolds
  BY <1>2 DEF EntryHolds, OnlineHolds
<1>9. \A d \in Destroyers : DestroyerHolds(d)
  BY <1>6 DEF DestroyerHolds
<1>10. SweptOnce
  BY <1>6, WhoDestroys DEF SweptOnce
<1> QED
  BY <1>4, <1>7, <1>8, <1>9, <1>10 DEF MqttInv, MqttHolds

LEMMA TransportTypeStep ==
    ASSUME TransportType, MqttNext
    PROVE  TransportType'
<1> USE MqttAssumption
<1>1. ASSUME NEW h \in Handlers, HandlerStep(h)
      PROVE  TransportType'
  <2>1. handler[h] \in HandlerType /\ handler[h].mgr \in 0 .. MaxTransports /\ handler[h].tr \in 0 .. MaxTransports
    BY DEF TransportType, HandlerType
  <2>2. Idle \in HandlerType /\ 0 \in 0 .. MaxTransports
    BY DEF Idle, HandlerType, HandlerStates
  <2>3. \A k \in 0 .. MaxTransports : k < MaxTransports => k + 1 \in 0 .. MaxTransports
    OBVIOUS
  <2>4. /\ \A pc \in HandlerStates : [handler[h] EXCEPT !.pc = pc] \in HandlerType
        /\ \A pc \in HandlerStates, m \in 0 .. MaxTransports :
              /\ [handler[h] EXCEPT !.pc = pc, !.mgr = m] \in HandlerType
              /\ [handler[h] EXCEPT !.pc = pc, !.tr = m] \in HandlerType
              /\ [handler[h] EXCEPT !.pc = pc, !.mgr = 0, !.tr = 0] \in HandlerType
    BY <2>1, <2>2 DEF HandlerType
  <2>5. {"idle", "manager", "insert_manager", "ensure", "insert", "mark", "rotate", "renew"} \subseteq HandlerStates
    BY DEF HandlerStates
  <2>6. CASE Receive(h)
    <3>1. PICK kind \in {"message", "hello", "online", "wake"} :
              handler' = [handler EXCEPT ![h] = [Idle EXCEPT !.pc = "manager", !.kind = kind]]
      BY <2>6 DEF Receive
    <3>2. [Idle EXCEPT !.pc = "manager", !.kind = kind] \in HandlerType
      BY <2>2, <2>5 DEF HandlerType
    <3>3. UNCHANGED <<destroy, entry, endpoint, registry, made, outLoop>>
      BY <2>6 DEF Receive
    <3> QED
      BY <3>1, <3>2, <3>3 DEF TransportType
  <2>7. CASE FindManager(h)
    <3>1. UNCHANGED <<entry, endpoint, registry, outLoop, destroy>>
      BY <2>7 DEF FindManager, HandlerOnly
    <3>2. CASE registry # 0
      <4>1. handler' = [handler EXCEPT ![h] = [handler[h] EXCEPT !.pc = "ensure", !.mgr = registry]] /\ made' = made
        BY <2>7, <3>2 DEF FindManager
      <4>2. [handler[h] EXCEPT !.pc = "ensure", !.mgr = registry] \in HandlerType
        BY <2>4, <2>5 DEF TransportType
      <4> QED
        BY <3>1, <4>1, <4>2 DEF TransportType
    <3>3. CASE registry = 0
      <4>1. /\ made.mgr < MaxTransports /\ made' = [made EXCEPT !.mgr = made.mgr + 1]
            /\ handler' = [handler EXCEPT ![h] = [handler[h] EXCEPT !.pc = "insert_manager", !.mgr = made.mgr + 1]]
        BY <2>7, <3>3 DEF FindManager
      <4>2. made.mgr + 1 \in 0 .. MaxTransports
        BY <2>3, <4>1 DEF TransportType
      <4>3. [handler[h] EXCEPT !.pc = "insert_manager", !.mgr = made.mgr + 1] \in HandlerType
        BY <2>4, <2>5, <4>2
      <4> QED
        BY <3>1, <4>1, <4>2, <4>3 DEF TransportType
    <3> QED
      BY <3>2, <3>3
  <2>8. CASE InsertManager(h)
    <3>1. /\ handler' = [handler EXCEPT ![h] = [handler[h] EXCEPT !.pc = "ensure"]] /\ registry' = handler[h].mgr
          /\ UNCHANGED <<entry, endpoint, made, outLoop, destroy>>
      BY <2>8 DEF InsertManager, HandlerAt, HandlerOnly
    <3>2. [handler[h] EXCEPT !.pc = "ensure"] \in HandlerType
      BY <2>4, <2>5
    <3> QED
      BY <2>1, <3>1, <3>2 DEF TransportType
  <2>9. CASE EnsureSession(h)
    <3>1. UNCHANGED <<entry, registry, destroy>>
      BY <2>9 DEF EnsureSession, HandlerOnly
    <3>2. CASE entry.tr # 0
      <4>1. /\ handler' = [handler EXCEPT ![h] = [handler[h] EXCEPT !.pc = "mark", !.mgr = 0, !.tr = 0]]
            /\ UNCHANGED <<made, endpoint, outLoop>>
        BY <2>9, <3>2 DEF EnsureSession, HandlerMarks
      <4>2. [handler[h] EXCEPT !.pc = "mark", !.mgr = 0, !.tr = 0] \in HandlerType
        BY <2>2, <2>4, <2>5
      <4> QED
        BY <3>1, <4>1, <4>2 DEF TransportType
    <3>3. CASE entry.tr = 0
      <4>1. /\ made.tr < MaxTransports /\ made' = [made EXCEPT !.tr = made.tr + 1]
            /\ handler' = [handler EXCEPT ![h] = [handler[h] EXCEPT !.pc = "insert", !.tr = made.tr + 1]]
            /\ endpoint' = [endpoint EXCEPT ![handler[h].mgr] = made.tr + 1]
            /\ outLoop' = [outLoop EXCEPT ![made.tr + 1] = "run"]
        BY <2>9, <3>3 DEF EnsureSession
      <4>2. made.tr + 1 \in 0 .. MaxTransports
        BY <2>3, <4>1 DEF TransportType
      <4>3. [handler[h] EXCEPT !.pc = "insert", !.tr = made.tr + 1] \in HandlerType
        BY <2>4, <2>5, <4>2
      <4> QED
        BY <3>1, <4>1, <4>2, <4>3 DEF TransportType
    <3> QED
      BY <3>2, <3>3
  <2>10. CASE InsertSession(h)
    <3>1. /\ handler' = [handler EXCEPT ![h] = [handler[h] EXCEPT !.pc = "mark", !.mgr = 0, !.tr = 0]]
          /\ entry' = [tr |-> handler[h].tr, mgr |-> handler[h].mgr, udp |-> 0, online |-> TRUE]
          /\ UNCHANGED <<endpoint, registry, made, outLoop, destroy>>
      BY <2>10 DEF InsertSession, HandlerMarks, HandlerOnly
    <3>2. [handler[h] EXCEPT !.pc = "mark", !.mgr = 0, !.tr = 0] \in HandlerType
      BY <2>2, <2>4, <2>5
    <3>3. entry' \in EntryType
      BY <2>1, <2>2, <3>1 DEF EntryType
    <3> QED
      BY <3>1, <3>2, <3>3 DEF TransportType
  <2>11. CASE MarkOnline(h)
    <3>1. /\ entry' = entry \/ entry' = [entry EXCEPT !.online = TRUE]
          /\ UNCHANGED <<endpoint, registry, made, outLoop, destroy>>
      BY <2>11 DEF MarkOnline, HandlerOnly
    <3>2. \/ handler' = [handler EXCEPT ![h] = [handler[h] EXCEPT !.pc = "rotate"]]
          \/ handler' = [handler EXCEPT ![h] = Idle]
      BY <2>11 DEF MarkOnline
    <3>3. [handler[h] EXCEPT !.pc = "rotate"] \in HandlerType
      BY <2>4, <2>5
    <3>4. entry' \in EntryType
      BY <3>1 DEF TransportType, EntryType
    <3> QED
      BY <2>2, <3>1, <3>2, <3>3, <3>4 DEF TransportType
  <2>12. CASE MarkStale(h)
    <3>1. /\ handler' = [handler EXCEPT ![h] = [handler[h] EXCEPT !.pc = "renew"]]
          /\ UNCHANGED <<entry, endpoint, registry, made, outLoop, destroy>>
      BY <2>12 DEF MarkStale, HandlerAt, HandlerOnly
    <3>2. [handler[h] EXCEPT !.pc = "renew"] \in HandlerType
      BY <2>4, <2>5
    <3> QED
      BY <3>1, <3>2 DEF TransportType
  <2>13. CASE NewConn(h)
    <3>1. /\ made.conn < MaxTransports /\ made' = [made EXCEPT !.conn = made.conn + 1]
          /\ entry' = entry \/ entry' = [entry EXCEPT !.udp = made.conn + 1]
          /\ handler' = [handler EXCEPT ![h] = Idle]
          /\ UNCHANGED <<endpoint, registry, outLoop, destroy>>
      BY <2>13 DEF NewConn, HandlerOnly
    <3>2. made.conn + 1 \in 0 .. MaxTransports
      BY <2>3, <3>1 DEF TransportType
    <3>3. entry' \in EntryType
      BY <3>1, <3>2 DEF TransportType, EntryType
    <3> QED
      BY <2>2, <3>1, <3>2, <3>3 DEF TransportType
  <2> QED
    BY <1>1, <2>6, <2>7, <2>8, <2>9, <2>10, <2>11, <2>12, <2>13 DEF HandlerStep
<1>2. ASSUME NEW e \in Events, Offline(e)
      PROVE  TransportType'
  <2>1. /\ entry' = entry \/ entry' = [entry EXCEPT !.online = FALSE]
        /\ UNCHANGED <<handler, endpoint, registry, made, outLoop, destroy>>
    BY <1>2 DEF Offline
  <2>2. entry' \in EntryType
    BY <2>1 DEF TransportType, EntryType
  <2> QED
    BY <2>1, <2>2 DEF TransportType
<1>3. ASSUME NEW e \in Events, Sweep(e)
      PROVE  TransportType'
  <2>1. /\ UNCHANGED <<handler, entry, endpoint, registry, made, outLoop>>
        /\ destroy' = [destroy EXCEPT ![0 - e].pc = IF SweepHolds(e) THEN "remove" ELSE destroy[0 - e].pc]
    BY <1>3 DEF Sweep
  <2>2. 0 - e \in Destroyers
    BY WhoDestroys
  <2>3. destroy' \in [Destroyers -> DestroyType]
    BY <2>1, <2>2 DEF TransportType, DestroyType
  <2> QED
    BY <2>1, <2>3 DEF TransportType
<1>4. ASSUME NEW d \in Destroyers, StartDestroy(d)
      PROVE  destroy' \in [Destroyers -> DestroyType]
  <2>1. [pc |-> "remove", mgr |-> 0] \in DestroyType
    BY DEF DestroyType
  <2> QED
    BY <1>4, <2>1 DEF StartDestroy, TransportType
<1>5. ASSUME NEW k \in Transports, LoopEnds(k)
      PROVE  TransportType'
  <2>1. destroy' \in [Destroyers -> DestroyType]
    BY <1>4, <1>5, WhoDestroys DEF LoopEnds
  <2> QED
    BY <1>5, <2>1 DEF LoopEnds, TransportType
<1>6. CASE CheckIdle
  <2>1. destroy' \in [Destroyers -> DestroyType]
    BY <1>4, <1>6, WhoDestroys DEF CheckIdle
  <2> QED
    BY <1>6, <2>1 DEF CheckIdle, TransportType
<1>7. ASSUME NEW d \in Destroyers, DestroyStep(d)
      PROVE  TransportType'
  <2>1. NoEntry \in EntryType /\ entry.mgr \in 0 .. MaxTransports /\ 0 \in 0 .. MaxTransports
    BY DEF NoEntry, EntryType, TransportType
  <2>2. \A m \in 0 .. MaxTransports, pc \in {"no", "unregister", "clean"} : [pc |-> pc, mgr |-> m] \in DestroyType
    BY DEF DestroyType
  <2>3. \A pc \in {"shutdown", "clean"} : [destroy[d] EXCEPT !.pc = pc] \in DestroyType
    BY DEF DestroyType, TransportType
  <2>4. CASE RemoveEntry(d)
    BY <2>1, <2>2, <2>4 DEF RemoveEntry, DestroyOnly, TransportType
  <2>5. CASE Unregister(d)
    BY <2>1, <2>3, <2>5 DEF Unregister, DestroyOnly, TransportType
  <2>6. CASE Shutdown(d)
    BY <2>1, <2>3, <2>6 DEF Shutdown, DestroyOnly, TransportType
  <2>7. CASE CleanUp(d)
    BY <2>1, <2>2, <2>7 DEF CleanUp, DestroyOnly, TransportType
  <2> QED
    BY <1>7, <2>4, <2>5, <2>6, <2>7 DEF DestroyStep
<1> QED
  BY <1>1, <1>2, <1>3, <1>5, <1>6, <1>7 DEF MqttNext

LEMMA SweptOnceStep ==
    ASSUME TransportType, SweptOnce, MqttNext
    PROVE  SweptOnce'
<1>1. ASSUME messages' = messages \/ messages' = messages + 1, DOMAIN sweep' = Events,
             \A e \in Events : \/ sweep'[e] = sweep[e] \/ sweep'[e].pc = "over"
                               \/ e = messages' /\ messages' = messages + 1,
             \A e \in Events : destroy[0 - e].pc = "no" => destroy'[0 - e].pc = "no"
      PROVE  SweptOnce'
  <2>1. messages' \in Nat /\ messages <= messages' /\ messages \in Nat
    BY <1>1 DEF SweptOnce
  <2>2. ASSUME NEW e \in Events
        PROVE  /\ sweep'[e].pc = "sleep" => e <= messages'
               /\ destroy'[0 - e].pc # "no" => e <= messages' /\ sweep'[e].pc \in {"destroys", "over"}
    <3>1. e \in Int
      BY DEF Events
    <3> QED
      BY <1>1, <2>1, <3>1 DEF SweptOnce
  <2> QED
    BY <1>1, <2>1, <2>2 DEF SweptOnce
<1>2. ASSUME NEW f PROVE  /\ DOMAIN Aborted(f) = Events
                           /\ \A e \in Events : Aborted(f)[e] = sweep[e] \/ Aborted(f)[e].pc = "over"
  BY DEF Aborted, SweptOnce
<1>3. ASSUME NEW d \in Destroyers, \A e \in Events : d # 0 - e, NEW new, destroy' = [destroy EXCEPT ![d] = new]
      PROVE  \A e \in Events : destroy[0 - e].pc = "no" => destroy'[0 - e].pc = "no"
  BY <1>3, WhoDestroys DEF TransportType
<1>4. ASSUME NEW h \in Handlers, HandlerStep(h)
      PROVE  SweptOnce'
  <2>1. CASE Receive(h)
    BY <1>1, <1>2, <2>1 DEF Receive, SweptOnce
  <2>2. CASE ~ Receive(h)
    <3>1. UNCHANGED <<messages, sweep, destroy>>
      BY <1>4, <2>2 DEF HandlerStep, FindManager, InsertManager, EnsureSession, InsertSession, MarkOnline,
                        MarkStale, NewConn, HandlerOnly
    <3> QED
      BY <1>1, <3>1 DEF SweptOnce
  <2> QED
    BY <2>1, <2>2
<1>5. ASSUME NEW e \in Events, Offline(e)
      PROVE  SweptOnce'
  <2>1. messages' = messages + 1 /\ e = messages' /\ destroy' = destroy
    BY <1>5 DEF Offline
  <2>2. \/ sweep' = sweep
        \/ \E v : sweep' = [Aborted(life.handle) EXCEPT ![e] = [pc |-> "sleep", version |-> v]]
    BY <1>5 DEF Offline
  <2>3. DOMAIN sweep' = Events /\ \A f \in Events : sweep'[f] = sweep[f] \/ sweep'[f].pc = "over" \/ f = e
    BY <1>2, <2>2 DEF SweptOnce
  <2> QED
    BY <1>1, <2>1, <2>3
<1>6. ASSUME NEW e \in Events, Sweep(e)
      PROVE  SweptOnce'
  <2>1. sweep[e].pc = "sleep" /\ messages' = messages
    BY <1>6 DEF Sweep
  <2>2. CASE SweepHolds(e)
    <3>1. /\ sweep' = [sweep EXCEPT ![e] = [pc |-> "destroys", version |-> 0]]
          /\ destroy' = [destroy EXCEPT ![0 - e].pc = "remove"]
      BY <1>6, <2>2 DEF Sweep
    <3>2. sweep'[e].pc = "destroys" /\ DOMAIN sweep' = Events
          /\ \A f \in Events \ {e} : sweep'[f] = sweep[f] /\ destroy'[0 - f] = destroy[0 - f]
      BY <3>1, WhoDestroys DEF SweptOnce, TransportType
    <3> QED
      BY <2>1, <3>2 DEF SweptOnce
  <2>3. CASE ~ SweepHolds(e)
    <3>1. /\ sweep' = [sweep EXCEPT ![e] = [pc |-> "over", version |-> 0]]
          /\ destroy' = [destroy EXCEPT ![0 - e].pc = destroy[0 - e].pc]
      BY <1>6, <2>3 DEF Sweep
    <3>2. \A f \in Events : destroy[0 - f].pc = "no" => destroy'[0 - f].pc = "no"
      BY <3>1, WhoDestroys DEF TransportType, DestroyType
    <3> QED
      BY <1>1, <2>1, <3>1, <3>2 DEF SweptOnce
  <2> QED
    BY <2>2, <2>3
<1>7. ASSUME NEW k \in Transports, LoopEnds(k)
      PROVE  SweptOnce'
  <2>1. UNCHANGED <<messages, sweep>> /\ destroy' = [destroy EXCEPT ![k] = [pc |-> "remove", mgr |-> 0]]
    BY <1>7 DEF LoopEnds, StartDestroy
  <2>2. k \in Destroyers /\ \A e \in Events : k # 0 - e
    BY WhoDestroys
  <2>3. \A e \in Events : destroy[0 - e].pc = "no" => destroy'[0 - e].pc = "no"
    BY <1>3, <2>1, <2>2
  <2> QED
    BY <1>1, <2>1, <2>3 DEF SweptOnce
<1>8. CASE CheckIdle
  <2>1. UNCHANGED <<messages, sweep>> /\ destroy' = [destroy EXCEPT ![Checker] = [pc |-> "remove", mgr |-> 0]]
    BY <1>8 DEF CheckIdle, StartDestroy
  <2>2. Checker \in Destroyers /\ \A e \in Events : Checker # 0 - e
    BY WhoDestroys DEF Checker, Events
  <2>3. \A e \in Events : destroy[0 - e].pc = "no" => destroy'[0 - e].pc = "no"
    BY <1>3, <2>1, <2>2
  <2> QED
    BY <1>1, <2>1, <2>3 DEF SweptOnce
<1>9. ASSUME NEW d \in Destroyers, DestroyStep(d)
      PROVE  SweptOnce'
  <2>1. destroy[d].pc # "no" /\ UNCHANGED <<messages, sweep>>
        /\ \A c \in Destroyers \ {d} : destroy'[c] = destroy[c]
    BY <1>9 DEF DestroyStep, RemoveEntry, Unregister, Shutdown, CleanUp, DestroyOnly, TransportType
  <2>2. \A e \in Events : destroy[0 - e].pc = "no" => destroy'[0 - e].pc = "no"
    BY <2>1, WhoDestroys
  <2> QED
    BY <1>1, <2>1, <2>2 DEF SweptOnce
<1> QED
  BY <1>4, <1>5, <1>6, <1>7, <1>8, <1>9 DEF MqttNext

\* A handler's own step: it is alone, and stays so.
LEMMA HandlerAlone ==
    ASSUME TransportType, MqttHolds, NEW h \in Handlers, handler[h].pc # "idle", NEW new,
           handler' = [handler EXCEPT ![h] = new], UNCHANGED destroy
    PROVE  /\ handler'[h] = new /\ OneAtATime'
           /\ \A g \in Handlers \ {h} : handler'[g].pc = "idle" /\ handler[g].pc = "idle"
           /\ \A d \in Destroyers : destroy[d].pc = "no"
           /\ \A d \in Destroyers : DestroyerHolds(d)'
<1>1. handler \in [Handlers -> HandlerType]
  BY DEF TransportType
<1>2. \A g \in Handlers \ {h} : handler[g].pc = "idle"
  BY DEF MqttHolds, OneAtATime
<1>3. \A d \in Destroyers : destroy[d].pc = "no"
  BY DEF MqttHolds, OneAtATime, Handling, Destroying
<1>4. handler'[h] = new /\ \A g \in Handlers \ {h} : handler'[g] = handler[g]
  BY <1>1
<1>5. OneAtATime'
  BY <1>2, <1>3, <1>4 DEF OneAtATime, Destroying
<1>6. \A d \in Destroyers : DestroyerHolds(d)'
  BY <1>3 DEF DestroyerHolds
<1> QED
  BY <1>2, <1>3, <1>4, <1>5, <1>6

LEMMA ReceiveHolds ==
    ASSUME TransportType, MqttHolds, NEW h \in Handlers, Receive(h), ~ overlapped'
    PROVE  MqttHolds'
<1>1. ~ Handling /\ ~ Destroying /\ UNCHANGED <<destroy, entry, endpoint, registry, made, outLoop, conns>>
  BY DEF Receive
<1>2. PICK kind \in {"message", "hello", "online", "wake"} :
          /\ handler' = [handler EXCEPT ![h] = [Idle EXCEPT !.pc = "manager", !.kind = kind]]
          /\ kind = "wake" => UNCHANGED life
  BY DEF Receive
<1>3. /\ handler'[h].pc = "manager" /\ handler'[h].kind = kind
      /\ \A g \in Handlers \ {h} : handler'[g] = handler[g] /\ handler[g].pc = "idle"
      /\ \A g \in Handlers : handler[g].pc = "idle"
  BY <1>1, <1>2 DEF TransportType, Idle, Handling
<1>4. \A d \in Destroyers : destroy[d].pc = "no" /\ destroy'[d].pc = "no"
  BY <1>1 DEF Destroying
<1>5. OneAtATime'
  BY <1>3, <1>4 DEF OneAtATime, Destroying
<1>6. EntryHolds'
  BY <1>1, <1>3 DEF MqttHolds, EntryHolds, OnlyEndpoint
<1>7. \A g \in Handlers : HandlerHolds(g)'
  BY <1>3 DEF HandlerHolds
<1>8. \A d \in Destroyers : DestroyerHolds(d)'
  BY <1>4 DEF DestroyerHolds
<1>9. Handling'
  BY <1>3 DEF Handling
<1>10. OnlineHolds'
  <2>1. CASE kind = "wake"
    BY <1>1, <1>2, <1>3, <1>9, <2>1 DEF MqttHolds, OnlineHolds
  <2>2. CASE kind # "wake"
    BY <1>3, <1>9, <2>2 DEF OnlineHolds
  <2> QED
    BY <2>1, <2>2
<1> QED
  BY <1>5, <1>6, <1>7, <1>8, <1>10 DEF MqttHolds

LEMMA FindManagerHolds ==
    ASSUME TransportType, MqttHolds, NEW h \in Handlers, FindManager(h), ~ overlapped'
    PROVE  MqttHolds'
<1>1. /\ handler[h].pc = "manager" /\ UNCHANGED <<entry, endpoint, registry, outLoop, conns, destroy, life>>
  BY DEF FindManager, HandlerOnly
<1>2. PICK pc \in {"ensure", "insert_manager"}, m \in 0 .. MaxTransports :
          /\ handler' = [handler EXCEPT ![h] = [handler[h] EXCEPT !.pc = pc, !.mgr = m]]
          /\ m \in Transports
          /\ pc = "ensure" => m = registry
          /\ pc = "insert_manager" => registry = 0
  <2>1. registry \in 0 .. MaxTransports /\ made.mgr \in 0 .. MaxTransports /\ MaxTransports \in Nat
    BY MqttAssumption DEF TransportType
  <2>2. CASE registry # 0
    <3>1. handler' = [handler EXCEPT ![h] = [handler[h] EXCEPT !.pc = "ensure", !.mgr = registry]]
      BY <2>2 DEF FindManager
    <3>2. registry \in Transports
      BY <2>1, <2>2 DEF Transports
    <3> QED
      BY <2>1, <3>1, <3>2
  <2>3. CASE registry = 0
    <3>1. made.mgr + 1 \in 0 .. MaxTransports /\ made.mgr + 1 \in Transports
      BY <2>1, <2>3 DEF FindManager, Transports
    <3>2. handler' = [handler EXCEPT ![h] = [handler[h] EXCEPT !.pc = "insert_manager", !.mgr = made.mgr + 1]]
      BY <2>3 DEF FindManager
    <3> QED
      BY <2>3, <3>1, <3>2
  <2> QED
    BY <2>2, <2>3
<1> DEFINE new == [handler[h] EXCEPT !.pc = pc, !.mgr = m]
<1>3. new.pc = pc /\ new.mgr = m /\ new.kind = handler[h].kind
  BY DEF TransportType, HandlerType
<1> HIDE DEF new
<1>4. /\ handler'[h] = new /\ OneAtATime'
      /\ \A g \in Handlers \ {h} : handler'[g].pc = "idle" /\ handler[g].pc = "idle"
      /\ \A d \in Destroyers : destroy[d].pc = "no"
      /\ \A d \in Destroyers : DestroyerHolds(d)'
  BY <1>1, <1>2, HandlerAlone DEF new
<1>5. pc = "insert_manager" => entry.tr = 0
  <2>1. entry.tr # 0 => registry \in Transports
    BY DEF MqttHolds, EntryHolds, OnlyEndpoint
  <2> QED
    BY <1>2, <2>1, WhoDestroys
<1>6. \A g \in Handlers : HandlerHolds(g)'
  BY <1>1, <1>2, <1>3, <1>4, <1>5 DEF HandlerHolds
<1>7. \A g \in Handlers : handler[g].pc # "insert" /\ handler[g].pc # "renew"
  BY <1>1, <1>4
<1>8. EntryHolds'
  BY <1>1, <1>7 DEF MqttHolds, EntryHolds, OnlyEndpoint
<1>9. Handling'
  BY <1>2, <1>3, <1>4 DEF Handling
<1>10. OnlineHolds'
  BY <1>1, <1>2, <1>3, <1>4, <1>9 DEF MqttHolds, OnlineHolds
<1> QED
  BY <1>4, <1>6, <1>8, <1>10 DEF MqttHolds

LEMMA InsertManagerHolds ==
    ASSUME TransportType, MqttHolds, NEW h \in Handlers, InsertManager(h), ~ overlapped'
    PROVE  MqttHolds'
<1> DEFINE new == [handler[h] EXCEPT !.pc = "ensure"]
<1>1. /\ handler[h].pc = "insert_manager" /\ handler' = [handler EXCEPT ![h] = new] /\ registry' = handler[h].mgr
      /\ UNCHANGED <<entry, endpoint, outLoop, conns, destroy, life>>
  BY DEF InsertManager, HandlerAt, HandlerOnly
<1>2. new.pc = "ensure" /\ new.mgr = handler[h].mgr /\ new.kind = handler[h].kind
  BY DEF TransportType, HandlerType
<1> HIDE DEF new
<1>3. /\ handler'[h] = new /\ OneAtATime'
      /\ \A g \in Handlers \ {h} : handler'[g].pc = "idle" /\ handler[g].pc = "idle"
      /\ \A d \in Destroyers : destroy[d].pc = "no"
      /\ \A d \in Destroyers : DestroyerHolds(d)'
  BY <1>1, HandlerAlone
<1>4. handler[h].mgr \in Transports /\ entry.tr = 0
  BY <1>1 DEF MqttHolds, HandlerHolds
<1>5. \A g \in Handlers : HandlerHolds(g)'
  BY <1>1, <1>2, <1>3, <1>4 DEF HandlerHolds
<1>6. EntryHolds'
  BY <1>1, <1>3, <1>4 DEF MqttHolds, EntryHolds
<1>7. Handling'
  BY <1>2, <1>3 DEF Handling
<1>8. OnlineHolds'
  BY <1>1, <1>4, <1>7 DEF OnlineHolds
<1> QED
  BY <1>3, <1>5, <1>6, <1>8 DEF MqttHolds

LEMMA EnsureSessionHolds ==
    ASSUME TransportType, MqttHolds, NEW h \in Handlers, EnsureSession(h), ~ overlapped'
    PROVE  MqttHolds'
<1>1. handler[h].pc = "ensure" /\ UNCHANGED <<entry, registry, conns, destroy, life>>
  BY DEF EnsureSession, HandlerOnly
<1>2. handler[h].mgr \in Transports /\ registry = handler[h].mgr
  BY <1>1 DEF MqttHolds, HandlerHolds
<1>3. CASE entry.tr # 0
  <2> DEFINE new == [handler[h] EXCEPT !.pc = "mark", !.mgr = 0, !.tr = 0]
  <2>1. handler' = [handler EXCEPT ![h] = new] /\ UNCHANGED <<endpoint, outLoop>>
    BY <1>3 DEF EnsureSession, HandlerMarks
  <2>2. new.pc = "mark" /\ new.kind = handler[h].kind
    BY DEF TransportType, HandlerType
  <2> HIDE DEF new
  <2>3. /\ handler'[h] = new /\ OneAtATime'
        /\ \A g \in Handlers \ {h} : handler'[g].pc = "idle" /\ handler[g].pc = "idle"
        /\ \A d \in Destroyers : destroy[d].pc = "no"
        /\ \A d \in Destroyers : DestroyerHolds(d)'
    BY <1>1, <2>1, HandlerAlone
  <2>4. \A g \in Handlers : HandlerHolds(g)'
    BY <1>1, <1>3, <2>2, <2>3 DEF HandlerHolds
  <2>5. \A g \in Handlers : handler[g].pc # "insert" /\ handler[g].pc # "renew"
    BY <1>1, <2>3
  <2>6. EntryHolds'
    BY <1>1, <1>3, <2>1, <2>5 DEF MqttHolds, EntryHolds, OnlyEndpoint
  <2>7. Handling'
    BY <2>2, <2>3 DEF Handling
  <2>8. OnlineHolds'
    BY <1>1, <1>3, <2>1, <2>2, <2>3, <2>7 DEF MqttHolds, OnlineHolds
  <2> QED
    BY <2>3, <2>4, <2>6, <2>8 DEF MqttHolds
<1>4. CASE entry.tr = 0
  <2>1. PICK tr \in Transports :
            /\ handler' = [handler EXCEPT ![h] = [handler[h] EXCEPT !.pc = "insert", !.tr = tr]]
            /\ endpoint' = [endpoint EXCEPT ![handler[h].mgr] = tr] /\ outLoop' = [outLoop EXCEPT ![tr] = "run"]
    <3>1. made.tr + 1 \in Transports
      BY <1>4, MqttAssumption DEF EnsureSession, TransportType, Transports
    <3>2. /\ handler' = [handler EXCEPT ![h] = [handler[h] EXCEPT !.pc = "insert", !.tr = made.tr + 1]]
          /\ endpoint' = [endpoint EXCEPT ![handler[h].mgr] = made.tr + 1]
          /\ outLoop' = [outLoop EXCEPT ![made.tr + 1] = "run"]
      BY <1>4 DEF EnsureSession
    <3> QED
      BY <3>1, <3>2
  <2> DEFINE new == [handler[h] EXCEPT !.pc = "insert", !.tr = tr]
  <2>3. new.pc = "insert" /\ new.tr = tr /\ new.mgr = handler[h].mgr /\ new.kind = handler[h].kind
    BY DEF TransportType, HandlerType
  <2> HIDE DEF new
  <2>4. /\ handler'[h] = new /\ OneAtATime'
        /\ \A g \in Handlers \ {h} : handler'[g].pc = "idle" /\ handler[g].pc = "idle"
        /\ \A d \in Destroyers : destroy[d].pc = "no"
        /\ \A d \in Destroyers : DestroyerHolds(d)'
    BY <1>1, <2>1, HandlerAlone DEF new
  <2>5. \A m \in Transports : endpoint[m] = 0
    BY <1>1, <1>4, <2>4 DEF MqttHolds, EntryHolds
  <2>6. /\ endpoint'[handler[h].mgr] = tr /\ outLoop'[tr] = "run"
        /\ \A m \in Transports \ {handler[h].mgr} : endpoint'[m] = 0
    BY <1>2, <2>1, <2>5 DEF TransportType
  <2>7. \A g \in Handlers : HandlerHolds(g)'
    BY <1>1, <1>2, <1>4, <2>3, <2>4, <2>6 DEF HandlerHolds, OnlyEndpoint
  <2>8. EntryHolds'
    BY <1>1, <1>4, <2>3, <2>4 DEF EntryHolds
  <2>9. Handling'
    BY <2>3, <2>4 DEF Handling
  <2>10. OnlineHolds'
    BY <1>1, <1>4, <2>9 DEF OnlineHolds
  <2> QED
    BY <2>4, <2>7, <2>8, <2>10 DEF MqttHolds
<1> QED
  BY <1>3, <1>4

LEMMA InsertSessionHolds ==
    ASSUME TransportType, MqttHolds, NEW h \in Handlers, InsertSession(h), ~ overlapped'
    PROVE  MqttHolds'
<1> DEFINE new == [handler[h] EXCEPT !.pc = "mark", !.mgr = 0, !.tr = 0]
<1>1. /\ handler[h].pc = "insert" /\ handler' = [handler EXCEPT ![h] = new]
      /\ entry' = [tr |-> handler[h].tr, mgr |-> handler[h].mgr, udp |-> 0, online |-> TRUE]
      /\ UNCHANGED <<endpoint, registry, outLoop, conns, destroy, life>>
  BY DEF InsertSession, HandlerMarks, HandlerOnly
<1>2. new.pc = "mark"
  BY DEF TransportType, HandlerType
<1> HIDE DEF new
<1>3. /\ handler'[h] = new /\ OneAtATime'
      /\ \A g \in Handlers \ {h} : handler'[g].pc = "idle" /\ handler[g].pc = "idle"
      /\ \A d \in Destroyers : destroy[d].pc = "no"
      /\ \A d \in Destroyers : DestroyerHolds(d)'
  BY <1>1, HandlerAlone
<1>4. /\ registry = handler[h].mgr /\ handler[h].tr \in Transports /\ outLoop[handler[h].tr] = "run"
      /\ OnlyEndpoint(handler[h].mgr, handler[h].tr)
  BY <1>1 DEF MqttHolds, HandlerHolds
<1>5. entry'.tr = handler[h].tr /\ entry'.mgr = handler[h].mgr /\ entry'.udp = 0 /\ entry'.online = TRUE /\ entry'.tr # 0
  BY <1>1, <1>4, WhoDestroys
<1>6. \A g \in Handlers : HandlerHolds(g)'
  BY <1>2, <1>3, <1>5 DEF HandlerHolds
<1>7. EntryHolds'
  BY <1>1, <1>4, <1>5 DEF EntryHolds, OnlyEndpoint
<1>8. OnlineHolds'
  BY <1>5 DEF OnlineHolds
<1> QED
  BY <1>3, <1>6, <1>7, <1>8 DEF MqttHolds

LEMMA MarkOnlineHolds ==
    ASSUME TransportType, MqttHolds, NEW h \in Handlers, MarkOnline(h), ~ overlapped'
    PROVE  MqttHolds'
<1>1. /\ handler[h].pc = "mark" /\ UNCHANGED <<endpoint, registry, outLoop, conns, destroy, life>>
      /\ entry' = IF entry.tr = 0 \/ handler[h].kind = "wake" THEN entry ELSE [entry EXCEPT !.online = TRUE]
  BY DEF MarkOnline, HandlerOnly
<1>2. PICK new : /\ handler' = [handler EXCEPT ![h] = new] /\ new.pc \in {"idle", "rotate"}
                 /\ new.pc = "rotate" => handler[h].kind = "hello"
  <2>1. CASE handler[h].kind = "hello"
    <3>1. handler' = [handler EXCEPT ![h] = [handler[h] EXCEPT !.pc = "rotate"]]
      BY <2>1 DEF MarkOnline
    <3>2. [handler[h] EXCEPT !.pc = "rotate"].pc = "rotate"
      BY DEF TransportType, HandlerType
    <3> QED
      BY <2>1, <3>1, <3>2
  <2>2. CASE handler[h].kind # "hello"
    <3>1. handler' = [handler EXCEPT ![h] = Idle] /\ Idle.pc = "idle"
      BY <2>2 DEF MarkOnline, Idle
    <3> QED
      BY <3>1
  <2> QED
    BY <2>1, <2>2
<1>3. /\ handler'[h] = new /\ OneAtATime'
      /\ \A g \in Handlers \ {h} : handler'[g].pc = "idle" /\ handler[g].pc = "idle"
      /\ \A d \in Destroyers : destroy[d].pc = "no"
      /\ \A d \in Destroyers : DestroyerHolds(d)'
  BY <1>1, <1>2, HandlerAlone
<1>4. entry.tr # 0
  BY <1>1 DEF MqttHolds, HandlerHolds
<1>5. /\ entry'.tr = entry.tr /\ entry'.mgr = entry.mgr /\ entry'.udp = entry.udp
      /\ IF handler[h].kind = "wake" THEN entry'.online = entry.online ELSE entry'.online = TRUE
  BY <1>1, <1>4 DEF TransportType, EntryType
<1>6. \A g \in Handlers : HandlerHolds(g)'
  BY <1>2, <1>3, <1>4, <1>5 DEF HandlerHolds
<1>7. \A g \in Handlers : handler[g].pc # "renew"
  BY <1>1, <1>3
<1>8. EntryHolds'
  BY <1>1, <1>4, <1>5, <1>7 DEF MqttHolds, EntryHolds, OnlyEndpoint
<1>9. OnlineHolds'
  <2>1. CASE handler[h].kind = "wake"
    BY <1>1, <1>3, <1>4, <1>5, <2>1 DEF MqttHolds, OnlineHolds
  <2>2. CASE handler[h].kind # "wake"
    BY <1>4, <1>5, <2>2 DEF OnlineHolds
  <2> QED
    BY <2>1, <2>2
<1> QED
  BY <1>3, <1>6, <1>8, <1>9 DEF MqttHolds

LEMMA MarkStaleHolds ==
    ASSUME TransportType, MqttHolds, NEW h \in Handlers, MarkStale(h), ~ overlapped'
    PROVE  MqttHolds'
<1> DEFINE new == [handler[h] EXCEPT !.pc = "renew"]
<1>1. /\ handler[h].pc = "rotate" /\ handler' = [handler EXCEPT ![h] = new] /\ conns' = {}
      /\ UNCHANGED <<entry, endpoint, registry, outLoop, destroy, life>>
  BY DEF MarkStale, HandlerAt, HandlerOnly
<1>2. new.pc = "renew"
  BY DEF TransportType, HandlerType
<1> HIDE DEF new
<1>3. /\ handler'[h] = new /\ OneAtATime'
      /\ \A g \in Handlers \ {h} : handler'[g].pc = "idle" /\ handler[g].pc = "idle"
      /\ \A d \in Destroyers : destroy[d].pc = "no"
      /\ \A d \in Destroyers : DestroyerHolds(d)'
  BY <1>1, HandlerAlone
<1>4. entry.tr # 0
  BY <1>1 DEF MqttHolds, HandlerHolds
<1>5. \A g \in Handlers : HandlerHolds(g)'
  BY <1>1, <1>2, <1>3, <1>4 DEF HandlerHolds
<1>6. EntryHolds'
  BY <1>1, <1>2, <1>3, <1>4 DEF MqttHolds, EntryHolds, OnlyEndpoint
<1>7. OnlineHolds'
  BY <1>1, <1>3, <1>4 DEF MqttHolds, OnlineHolds
<1> QED
  BY <1>3, <1>5, <1>6, <1>7 DEF MqttHolds

LEMMA NewConnHolds ==
    ASSUME TransportType, MqttHolds, NEW h \in Handlers, NewConn(h), ~ overlapped'
    PROVE  MqttHolds'
<1>1. /\ handler[h].pc = "renew" /\ handler' = [handler EXCEPT ![h] = Idle] /\ conns' = conns \cup {made.conn + 1}
      /\ entry' = IF entry.tr = 0 THEN entry ELSE [entry EXCEPT !.udp = made.conn + 1]
      /\ UNCHANGED <<endpoint, registry, outLoop, destroy, life>>
  BY DEF NewConn, HandlerOnly
<1>2. Idle.pc = "idle"
  BY DEF Idle
<1>3. /\ handler'[h] = Idle /\ OneAtATime'
      /\ \A g \in Handlers \ {h} : handler'[g].pc = "idle" /\ handler[g].pc = "idle"
      /\ \A d \in Destroyers : destroy[d].pc = "no"
      /\ \A d \in Destroyers : DestroyerHolds(d)'
  BY <1>1, HandlerAlone
<1>4. entry.tr # 0 /\ conns = {}
  BY <1>1 DEF MqttHolds, HandlerHolds
<1>5. /\ entry'.tr = entry.tr /\ entry'.mgr = entry.mgr /\ entry'.udp = made.conn + 1
      /\ entry'.online = entry.online /\ conns' = {made.conn + 1}
  BY <1>1, <1>4 DEF TransportType, EntryType
<1>6. \A g \in Handlers : HandlerHolds(g)'
  BY <1>2, <1>3 DEF HandlerHolds
<1>7. EntryHolds'
  BY <1>1, <1>4, <1>5 DEF MqttHolds, EntryHolds, OnlyEndpoint
<1>8. OnlineHolds'
  BY <1>1, <1>3, <1>4, <1>5 DEF MqttHolds, OnlineHolds
<1> QED
  BY <1>3, <1>6, <1>7, <1>8 DEF MqttHolds

LEMMA OfflineHolds ==
    ASSUME TransportType, MqttHolds, NEW e \in Events, Offline(e), ~ overlapped'
    PROVE  MqttHolds'
<1>1. /\ UNCHANGED <<handler, endpoint, registry, outLoop, conns, destroy>>
      /\ \/ UNCHANGED <<life, entry>>
         \/ life'.online = FALSE /\ (entry' = entry \/ entry' = [entry EXCEPT !.online = FALSE])
  BY DEF Offline
<1>2. /\ entry'.tr = entry.tr /\ entry'.mgr = entry.mgr /\ entry'.udp = entry.udp
      /\ life'.online => life.online /\ entry'.online = entry.online
  BY <1>1 DEF TransportType, EntryType
<1>3. OneAtATime'
  BY <1>1 DEF MqttHolds, OneAtATime, Handling, Destroying
<1>4. EntryHolds'
  BY <1>1, <1>2 DEF MqttHolds, EntryHolds, OnlyEndpoint
<1>5. OnlineHolds'
  BY <1>1, <1>2 DEF MqttHolds, OnlineHolds, Handling
<1>6. \A h \in Handlers : HandlerHolds(h)'
  BY <1>1, <1>2 DEF MqttHolds, HandlerHolds, OnlyEndpoint
<1>7. \A d \in Destroyers : DestroyerHolds(d)'
  BY <1>1, <1>2 DEF MqttHolds, DestroyerHolds, OnlyEndpoint
<1> QED
  BY <1>3, <1>4, <1>5, <1>6, <1>7 DEF MqttHolds

\* A destruction begins while no message is handled, for one of its reasons.
LEMMA DestructionBegins ==
    ASSUME TransportType, MqttHolds, NEW d \in Destroyers, ~ Handling, NEW new,
           destroy' = [destroy EXCEPT ![d] = new], destroy[d].pc = "no", new.pc = "remove",
           UNCHANGED <<handler, entry, endpoint, registry, conns, life>>,
           outLoop' = outLoop \/ (d \in Transports /\ outLoop' = [outLoop EXCEPT ![d] = "failed"])
                              \/ (d \in Transports /\ entry.tr # d /\ outLoop' = [outLoop EXCEPT ![d] = "ended"]
                                  /\ outLoop[d] = "run"),
           ~ life.online \/ (d \in Transports /\ (outLoop'[d] = "failed" \/ entry.tr = 0))
    PROVE  MqttHolds'
<1>1. destroy'[d] = new /\ \A c \in Destroyers \ {d} : destroy'[c] = destroy[c]
  BY DEF TransportType
<1>2. \A h \in Handlers : handler[h].pc = "idle" /\ handler'[h].pc = "idle"
  BY DEF Handling
<1>3. OneAtATime' /\ ~ Handling'
  BY <1>2 DEF OneAtATime, Handling
<1>4. \A k \in Transports : /\ k # d => outLoop'[k] = outLoop[k]
                            /\ outLoop[k] = "failed" => outLoop'[k] = "failed"
  BY DEF TransportType
<1>5. entry.tr # 0 => entry.tr \in Transports
  BY MqttAssumption DEF TransportType, EntryType, Transports
<1>6. EntryHolds'
  <2>1. entry.tr # 0 => outLoop'[entry.tr] = "run" \/ destroy'[entry.tr].pc = "remove"
    BY <1>1, <1>4, <1>5, WhoDestroys DEF MqttHolds, EntryHolds
  <2>2. \A c \in Destroyers : destroy[c].pc = "unregister" => destroy'[c].pc = "unregister"
    BY <1>1
  <2> QED
    BY <2>1, <2>2 DEF MqttHolds, EntryHolds, OnlyEndpoint
<1>7. OnlineHolds'
  BY <1>2, <1>3, <1>4 DEF MqttHolds, OnlineHolds, Handling
<1>8. \A h \in Handlers : HandlerHolds(h)'
  BY <1>2 DEF HandlerHolds
<1>9. ASSUME NEW c \in Destroyers PROVE DestroyerHolds(c)'
  <2>1. CASE c = d
    BY <1>1, <2>1 DEF DestroyerHolds
  <2>2. CASE c # d
    BY <1>1, <1>4, <2>2 DEF MqttHolds, DestroyerHolds, OnlyEndpoint
  <2> QED
    BY <2>1, <2>2
<1> QED
  BY <1>3, <1>6, <1>7, <1>8, <1>9 DEF MqttHolds

LEMMA SweepHoldsInv ==
    ASSUME TransportType, SweptOnce, MqttHolds, NEW e \in Events, Sweep(e), ~ overlapped'
    PROVE  MqttHolds'
<1>1. UNCHANGED <<handler, entry, endpoint, registry, outLoop, conns, life>>
  BY DEF Sweep
<1>2. CASE SweepHolds(e) /\ destroy[0 - e].pc = "no"
  <2> DEFINE new == [destroy[0 - e] EXCEPT !.pc = "remove"]
  <2>1. destroy' = [destroy EXCEPT ![0 - e] = new] /\ ~ Handling /\ ~ life.online
    BY <1>2 DEF Sweep, SweepHolds
  <2>2. new.pc = "remove" /\ 0 - e \in Destroyers
    BY WhoDestroys DEF TransportType, DestroyType
  <2> HIDE DEF new
  <2> QED
    BY <1>1, <1>2, <2>1, <2>2, DestructionBegins
<1>3. CASE ~ SweepHolds(e)
  <2>1. destroy' = destroy
    BY <1>3, WhoDestroys DEF Sweep, TransportType, DestroyType
  <2> QED
    BY <1>1, <2>1 DEF MqttHolds, OneAtATime, Handling, Destroying, EntryHolds, OnlineHolds, HandlerHolds,
                      DestroyerHolds, OnlyEndpoint
<1>4. destroy[0 - e].pc = "no"
  BY DEF Sweep, SweptOnce
<1> QED
  BY <1>2, <1>3, <1>4

LEMMA LoopEndsHolds ==
    ASSUME TransportType, MqttHolds, NEW k \in Transports, LoopEnds(k), ~ overlapped'
    PROVE  MqttHolds'
<1> DEFINE new == [pc |-> "remove", mgr |-> 0]
<1>1. /\ outLoop[k] = "run" /\ destroy[k].pc = "no" /\ destroy' = [destroy EXCEPT ![k] = new]
      /\ outLoop' = [outLoop EXCEPT ![k] = IF entry.tr = k THEN "failed" ELSE "ended"]
      /\ UNCHANGED <<handler, entry, endpoint, registry, conns, life>>
  BY DEF LoopEnds, StartDestroy
<1>2. ~ Handling /\ entry.tr \in {0, k}
  BY WhoDestroys DEF LoopEnds, StartDestroy
<1>3. new.pc = "remove"
  OBVIOUS
<1> HIDE DEF new
<1>4. CASE entry.tr = k
  <2>1. outLoop' = [outLoop EXCEPT ![k] = "failed"] /\ outLoop'[k] = "failed"
    BY <1>1, <1>4 DEF TransportType
  <2> QED
    BY <1>1, <1>2, <1>3, <2>1, WhoDestroys, DestructionBegins
<1>5. CASE entry.tr # k
  <2>1. outLoop' = [outLoop EXCEPT ![k] = "ended"] /\ entry.tr = 0
    BY <1>1, <1>2, <1>5
  <2> QED
    BY <1>1, <1>2, <1>3, <1>5, <2>1, WhoDestroys, DestructionBegins
<1> QED
  BY <1>4, <1>5

LEMMA CheckIdleHolds ==
    ASSUME TransportType, MqttHolds, CheckIdle, ~ overlapped'
    PROVE  MqttHolds'
<1> DEFINE new == [pc |-> "remove", mgr |-> 0]
<1>1. /\ entry.tr # 0 /\ ~ entry.online /\ destroy[Checker].pc = "no" /\ destroy' = [destroy EXCEPT ![Checker] = new]
      /\ UNCHANGED <<handler, entry, endpoint, registry, outLoop, conns, life>>
  BY DEF CheckIdle, StartDestroy
<1>2. ~ Handling
  BY DEF CheckIdle, StartDestroy
<1>3. ~ life.online
  BY <1>1, <1>2 DEF MqttHolds, OnlineHolds, Handling
<1>4. new.pc = "remove"
  OBVIOUS
<1> HIDE DEF new
<1> QED
  BY <1>1, <1>2, <1>3, <1>4, WhoDestroys, DestructionBegins

\* The steps of a destruction: no message is handled meanwhile.
LEMMA DestroyerAlone ==
    ASSUME TransportType, MqttHolds, NEW d \in Destroyers, destroy[d].pc # "no", NEW new,
           destroy' = [destroy EXCEPT ![d] = new], UNCHANGED handler
    PROVE  /\ destroy'[d] = new /\ \A c \in Destroyers \ {d} : destroy'[c] = destroy[c]
           /\ ~ Handling /\ ~ Handling' /\ OneAtATime'
           /\ \A h \in Handlers : handler[h].pc = "idle" /\ handler'[h].pc = "idle"
           /\ \A h \in Handlers : HandlerHolds(h)'
<1>1. destroy'[d] = new /\ \A c \in Destroyers \ {d} : destroy'[c] = destroy[c]
  BY DEF TransportType
<1>2. ~ Handling
  BY DEF MqttHolds, OneAtATime, Destroying
<1>3. \A h \in Handlers : handler[h].pc = "idle" /\ handler'[h].pc = "idle"
  BY <1>2 DEF Handling
<1> QED
  BY <1>1, <1>2, <1>3 DEF Handling, OneAtATime, HandlerHolds

LEMMA RemoveEntryHolds ==
    ASSUME TransportType, MqttHolds, NEW d \in Destroyers, RemoveEntry(d), ~ overlapped'
    PROVE  MqttHolds'
<1> DEFINE new == IF entry.tr = 0 THEN [pc |-> "clean", mgr |-> 0] ELSE [pc |-> "unregister", mgr |-> entry.mgr]
<1>1. /\ destroy[d].pc = "remove" /\ destroy' = [destroy EXCEPT ![d] = new] /\ entry' = NoEntry
      /\ UNCHANGED <<handler, endpoint, registry, outLoop, conns, life>>
  BY DEF RemoveEntry, DestroyOnly
<1>2. /\ entry.tr = 0 => new.pc = "clean"
      /\ entry.tr # 0 => new.pc = "unregister" /\ new.mgr = entry.mgr
  OBVIOUS
<1> HIDE DEF new
<1>3. /\ destroy'[d] = new /\ \A c \in Destroyers \ {d} : destroy'[c] = destroy[c]
      /\ ~ Handling /\ ~ Handling' /\ OneAtATime'
      /\ \A h \in Handlers : handler[h].pc = "idle" /\ handler'[h].pc = "idle"
      /\ \A h \in Handlers : HandlerHolds(h)'
  BY <1>1, DestroyerAlone
<1>4. entry'.tr = 0
  BY <1>1 DEF NoEntry
<1>5. EntryHolds'
  <2>1. CASE entry.tr # 0
    BY <1>2, <1>3, <1>4, <2>1 DEF EntryHolds
  <2>2. CASE entry.tr = 0
    BY <1>1, <1>2, <1>3, <1>4, <2>2 DEF MqttHolds, EntryHolds
  <2> QED
    BY <2>1, <2>2
<1>6. OnlineHolds'
  BY <1>1, <1>3, <1>4 DEF MqttHolds, OnlineHolds, DestroyerHolds
<1>7. ASSUME NEW c \in Destroyers PROVE DestroyerHolds(c)'
  <2>1. CASE c = d
    <3>1. entry.tr # 0 => OnlyEndpoint(entry.mgr, entry.tr)
      BY DEF MqttHolds, EntryHolds
    <3> QED
      BY <1>1, <1>2, <1>3, <1>4, <2>1, <3>1 DEF MqttHolds, DestroyerHolds, OnlyEndpoint
  <2>2. CASE c # d
    BY <1>1, <1>3, <1>4, <2>2 DEF MqttHolds, DestroyerHolds, OnlyEndpoint
  <2> QED
    BY <2>1, <2>2
<1> QED
  BY <1>3, <1>5, <1>6, <1>7 DEF MqttHolds

LEMMA UnregisterHolds ==
    ASSUME TransportType, MqttHolds, NEW d \in Destroyers, Unregister(d), ~ overlapped'
    PROVE  MqttHolds'
<1> DEFINE new == [destroy[d] EXCEPT !.pc = "shutdown"]
<1>1. /\ destroy[d].pc = "unregister" /\ destroy' = [destroy EXCEPT ![d] = new]
      /\ endpoint' = [endpoint EXCEPT ![destroy[d].mgr] = 0]
      /\ UNCHANGED <<handler, entry, registry, outLoop, conns, life>>
  BY DEF Unregister, DestroyOnly
<1>2. new.pc = "shutdown" /\ new.mgr = destroy[d].mgr
  BY DEF TransportType, DestroyType
<1> HIDE DEF new
<1>3. /\ destroy'[d] = new /\ \A c \in Destroyers \ {d} : destroy'[c] = destroy[c]
      /\ ~ Handling /\ ~ Handling' /\ OneAtATime'
      /\ \A h \in Handlers : handler[h].pc = "idle" /\ handler'[h].pc = "idle"
      /\ \A h \in Handlers : HandlerHolds(h)'
  BY <1>1, DestroyerAlone
<1>4. entry.tr = 0 /\ \A m \in Transports : endpoint'[m] = 0
  BY <1>1 DEF MqttHolds, DestroyerHolds, OnlyEndpoint, TransportType
<1>5. EntryHolds'
  BY <1>1, <1>4 DEF EntryHolds
<1>6. OnlineHolds'
  BY <1>1, <1>3, <1>4 DEF MqttHolds, OnlineHolds
<1>7. ASSUME NEW c \in Destroyers PROVE DestroyerHolds(c)'
  <2>1. CASE c = d
    BY <1>1, <1>2, <1>3, <1>4, <2>1 DEF MqttHolds, DestroyerHolds
  <2>2. CASE c # d
    BY <1>1, <1>3, <1>4, <2>2 DEF MqttHolds, DestroyerHolds, OnlyEndpoint
  <2> QED
    BY <2>1, <2>2
<1> QED
  BY <1>3, <1>5, <1>6, <1>7 DEF MqttHolds

LEMMA ShutdownHolds ==
    ASSUME TransportType, MqttHolds, NEW d \in Destroyers, Shutdown(d), ~ overlapped'
    PROVE  MqttHolds'
<1> DEFINE new == [destroy[d] EXCEPT !.pc = "clean"]
<1>1. /\ destroy[d].pc = "shutdown" /\ destroy' = [destroy EXCEPT ![d] = new]
      /\ UNCHANGED <<handler, entry, endpoint, outLoop, conns, life>>
  BY DEF Shutdown, DestroyOnly
<1>2. new.pc = "clean"
  BY DEF TransportType, DestroyType
<1> HIDE DEF new
<1>3. /\ destroy'[d] = new /\ \A c \in Destroyers \ {d} : destroy'[c] = destroy[c]
      /\ ~ Handling /\ ~ Handling' /\ OneAtATime'
      /\ \A h \in Handlers : handler[h].pc = "idle" /\ handler'[h].pc = "idle"
      /\ \A h \in Handlers : HandlerHolds(h)'
  BY <1>1, DestroyerAlone
<1>4. entry.tr = 0
  BY <1>1 DEF MqttHolds, DestroyerHolds
<1>5. \A c \in Destroyers : destroy[c].pc = "unregister" => destroy'[c].pc = "unregister"
  BY <1>1, <1>3
<1>6. EntryHolds'
  BY <1>1, <1>3, <1>4, <1>5 DEF MqttHolds, EntryHolds
<1>7. OnlineHolds'
  BY <1>1, <1>3, <1>4 DEF MqttHolds, OnlineHolds
<1>8. ASSUME NEW c \in Destroyers PROVE DestroyerHolds(c)'
  <2>1. CASE c = d
    BY <1>1, <1>2, <1>3, <1>4, <2>1 DEF MqttHolds, DestroyerHolds
  <2>2. CASE c # d
    BY <1>1, <1>3, <2>2 DEF MqttHolds, DestroyerHolds, OnlyEndpoint
  <2> QED
    BY <2>1, <2>2
<1> QED
  BY <1>3, <1>6, <1>7, <1>8 DEF MqttHolds

LEMMA CleanUpHolds ==
    ASSUME TransportType, MqttHolds, NEW d \in Destroyers, CleanUp(d), ~ overlapped'
    PROVE  MqttHolds'
<1> DEFINE new == [pc |-> "no", mgr |-> 0]
<1>1. /\ destroy[d].pc = "clean" /\ destroy' = [destroy EXCEPT ![d] = new] /\ (entry' = NoEntry \/ entry' = entry)
      /\ UNCHANGED <<handler, endpoint, registry, outLoop, life>>
  BY DEF CleanUp, DestroyOnly
<1>2. new.pc = "no"
  OBVIOUS
<1> HIDE DEF new
<1>3. /\ destroy'[d] = new /\ \A c \in Destroyers \ {d} : destroy'[c] = destroy[c]
      /\ ~ Handling /\ ~ Handling' /\ OneAtATime'
      /\ \A h \in Handlers : handler[h].pc = "idle" /\ handler'[h].pc = "idle"
      /\ \A h \in Handlers : HandlerHolds(h)'
  BY <1>1, DestroyerAlone
<1>4. entry.tr = 0 /\ entry'.tr = 0
  BY <1>1 DEF MqttHolds, DestroyerHolds, NoEntry
<1>5. \A c \in Destroyers : destroy[c].pc = "unregister" => destroy'[c].pc = "unregister"
  BY <1>1, <1>3
<1>6. EntryHolds'
  BY <1>1, <1>3, <1>4, <1>5 DEF MqttHolds, EntryHolds
<1>7. OnlineHolds'
  BY <1>1, <1>3, <1>4 DEF MqttHolds, OnlineHolds
<1>8. ASSUME NEW c \in Destroyers PROVE DestroyerHolds(c)'
  <2>1. CASE c = d
    BY <1>2, <1>3, <2>1 DEF DestroyerHolds
  <2>2. CASE c # d
    BY <1>1, <1>3, <1>4, <2>2 DEF MqttHolds, DestroyerHolds, OnlyEndpoint
  <2> QED
    BY <2>1, <2>2
<1> QED
  BY <1>3, <1>6, <1>7, <1>8 DEF MqttHolds

LEMMA MqttStep ==
    ASSUME MqttInv, [MqttNext]_mqttVars
    PROVE  MqttInv'
<1>1. CASE UNCHANGED mqttVars
  BY <1>1 DEF mqttVars, MqttInv, TransportType, SweptOnce, MqttHolds, OneAtATime, Handling, Destroying, EntryHolds,
              OnlineHolds, HandlerHolds, DestroyerHolds, OnlyEndpoint
<1>2. CASE MqttNext
  <2>1. TransportType /\ SweptOnce /\ TransportType' /\ SweptOnce'
    BY <1>2, TransportTypeStep, SweptOnceStep DEF MqttInv
  <2>2. overlapped => overlapped'
    BY <1>2 DEF MqttNext, HandlerStep, Receive, FindManager, InsertManager, EnsureSession, InsertSession,
                MarkOnline, MarkStale, NewConn, HandlerOnly, Offline, Sweep, LoopEnds, CheckIdle, StartDestroy,
                DestroyStep, RemoveEntry, Unregister, Shutdown, CleanUp, DestroyOnly
  <2>3. ASSUME ~ overlapped' PROVE MqttHolds'
    <3>1. MqttHolds
      BY <2>2, <2>3 DEF MqttInv
    <3> QED
      BY <1>2, <2>1, <2>3, <3>1, ReceiveHolds, FindManagerHolds, InsertManagerHolds, EnsureSessionHolds,
         InsertSessionHolds, MarkOnlineHolds, MarkStaleHolds, NewConnHolds, OfflineHolds, SweepHoldsInv,
         LoopEndsHolds, CheckIdleHolds, RemoveEntryHolds, UnregisterHolds, ShutdownHolds, CleanUpHolds
         DEF MqttNext, HandlerStep, DestroyStep
  <2> QED
    BY <2>1, <2>3 DEF MqttInv
<1> QED
  BY <1>1, <1>2

LEMMA QuietIsWhole == MqttInv => QuietDeviceIsWhole /\ OnlineHasTransport
<1> SUFFICES ASSUME MqttInv, Quiet, ~ overlapped
             PROVE  /\ Whole
                    /\ life.online => entry.tr # 0 \/ \E k \in Transports : outLoop[k] = "failed"
  BY DEF QuietDeviceIsWhole, OnlineHasTransport
<1>1. MqttHolds /\ TransportType
  BY DEF MqttInv
<1>2. /\ \A h \in Handlers : handler[h].pc = "idle"
      /\ \A d \in Destroyers : destroy[d].pc = "no"
  BY DEF Quiet, Handling, Destroying
<1>3. entry.tr # 0 => entry.tr \in Transports
  BY MqttAssumption DEF TransportType, EntryType, Transports, MqttInv
<1>4. Whole
  BY <1>1, <1>2, <1>3, WhoDestroys DEF Whole, MqttHolds, EntryHolds, OnlyEndpoint
<1>5. life.online => entry.tr # 0 \/ \E k \in Transports : outLoop[k] = "failed"
  BY <1>1 DEF MqttHolds, OnlineHolds, Quiet
<1> QED
  BY <1>4, <1>5

-----------------------------------------------------------------------------
\* One part runs, and its invariant is kept

\* Whatever else the platform does, the part that runs moves by its own steps.
LEMMA PlatformSteps ==
    ASSUME [PlatformNext]_platformVars
    PROVE  /\ part' = part
           /\ part = "media" => [MediaNext]_mediaVars
           /\ part = "web" => [AccessNext]_accessVars
           /\ part = "mqtt" => [MqttNext]_mqttVars
<1>1. CASE UNCHANGED platformVars
  BY <1>1 DEF platformVars, deviceVars, sharedVars, consoleVars
<1>2. CASE PlatformNext
  BY <1>2 DEF PlatformNext, deviceVars, sharedVars, consoleVars
<1> QED
  BY <1>1, <1>2

\* The media player: types, a frame to send on the way to every send, and no second frame.
THEOREM MediaInvariant == MediaSpec => []MediaInv
<1>1. MediaInit => MediaInv
  BY MediaInitInv
<1>2. MediaInv /\ [MediaNext]_mediaVars => MediaInv'
  BY MediaNextInv
<1> QED
  BY <1>1, <1>2, PTL DEF MediaSpec

\* A device's web sockets: types, the numbers of the connections that are there, what one that is
\* alone leaves, and what was last reported.
THEOREM AccessInvariant == AccessSpec => []AccessInv
<1>1. AccessInit => AccessInv
  BY AccessBegins
<1>2. AccessInv /\ [AccessNext]_accessVars => AccessInv'
  BY AccessStep
<1> QED
  BY <1>1, <1>2, PTL DEF AccessSpec

\* A device's MQTT transport: types, one handler at a time, what the entry, the endpoint, the loop
\* and the connection are at each step of a handler or a destruction, and why a destruction runs.
THEOREM MqttInvariant == MqttSpec => []MqttInv
<1>1. MqttInit => MqttInv
  BY MqttBegins
<1>2. MqttInv /\ [MqttNext]_mqttVars => MqttInv'
  BY MqttStep
<1> QED
  BY <1>1, <1>2, PTL DEF MqttSpec

\* A player that was paused or whose session left sends at most the frame it had in hand,
\* for any number of tasks, users and tracks.
THEOREM PlayerSilent == PlatformSpec => []PlayerIsSilent
<1> DEFINE Inv == part = "media" => MediaInv
<1>1. PlatformInit => Inv
  BY MediaInitInv DEF PlatformInit
<1>2. Inv /\ [PlatformNext]_platformVars => Inv'
  BY PlatformSteps, MediaNextInv
<1>3. Inv => PlayerIsSilent
  BY DEF MediaInv, HeldInv, SilentWhenHeld, PlayerIsSilent
<1> QED
  BY <1>1, <1>2, <1>3, PTL DEF PlatformSpec

\* For any number of handlers, transports, messages and web sockets: a device that has connected is
\* reached over its latest connection, and one that has gone is not taken for present.
THEOREM DevicesReached == PlatformSpec => []DevicesAreReached
<1> DEFINE Inv == (part = "mqtt" => MqttInv) /\ (part = "web" => AccessInv)
<1>1. PlatformInit => Inv
  BY MqttBegins, AccessBegins DEF PlatformInit
<1>2. Inv /\ [PlatformNext]_platformVars => Inv'
  BY PlatformSteps, MqttStep, AccessStep
<1>3. Inv => DevicesAreReached
  BY QuietIsWhole, HeardAndGone DEF DevicesAreReached
<1> QED
  BY <1>1, <1>2, <1>3, PTL DEF PlatformSpec

-----------------------------------------------------------------------------
\* The turns of a chat

TurnPlaces == {"wait", "prepare", "clear", "asked", "tools", "fallback", "stream", "chunks",
               "text", "finish", "ensure", "phase", "recover"}
TurnRecords == [pc : TurnPlaces, text : Nat, left : Nat, bare : BOOLEAN]

ChatTypes ==
    /\ phase \in {"idle", "listening", "processing", "speaking"}
    /\ listenMode \in {"auto", "realtime"}
    /\ {realtime, abort, loop, deferred, speaking} \subseteq BOOLEAN
    /\ queue \in Seq(1 .. said) /\ Len(queue) <= QueueCap
    /\ turn \in TurnRecords
    /\ tasks \in [TaskKinds -> Nat]
    /\ said \in 0 .. MaxTexts

\* Speech that plays in a session that has not followed it into Speaking yet has the task
\* that will take the session there.
SpeechIsFollowed == (phase \in {"listening", "processing"} /\ speaking) => tasks["speaking"] > 0

\* A session is in Processing because a turn runs, or leaves it by such a task.
ProcessingHasTurn == (phase = "processing" /\ turn = NoTurn) => tasks["speaking"] > 0

ChatInv == ChatTypes /\ SpeechIsFollowed /\ ProcessingHasTurn

LEMMA NoTurnWaits == NoTurn \in TurnRecords /\ NoTurn.pc = "wait"
  BY DEF NoTurn, TurnRecords, TurnPlaces

LEMMA ChatBegins == ChatInit => ChatInv
<1> SUFFICES ASSUME ChatInit PROVE ChatInv
  OBVIOUS
<1>1. tasks \in [TaskKinds -> Nat] /\ turn \in TurnRecords
  BY NoTurnWaits DEF ChatInit
<1>2. queue \in Seq(1 .. said) /\ Len(queue) <= QueueCap /\ said \in 0 .. MaxTexts
  BY ChatAssumption DEF ChatInit
<1> QED
  BY <1>1, <1>2 DEF ChatInit, ChatInv, ChatTypes, SpeechIsFollowed, ProcessingHasTurn

\* One more task to a kind, or one less of a kind that has one.
LEMMA SpawnCounts ==
    ASSUME tasks \in [TaskKinds -> Nat], NEW k \in TaskKinds
    PROVE  /\ Spawn(k) \in [TaskKinds -> Nat]
           /\ \A j \in TaskKinds : Spawn(k)[j] >= tasks[j]
           /\ Spawn(k)[k] > 0
           /\ tasks[k] > 0 => Ran(k) \in [TaskKinds -> Nat]
           /\ \A j \in TaskKinds \ {k} : Ran(k)[j] = tasks[j]
  BY DEF Spawn, Ran

\* The stop of speech that a step cuts off adds to the tasks.
LEMMA StopCounts ==
    ASSUME NEW T \in [TaskKinds -> Nat]
    PROVE  WithStop(T) \in [TaskKinds -> Nat] /\ WithStop(T)["speaking"] = T["speaking"]
  BY DEF WithStop, TaskKinds

\* A turn goes on in another place.
LEMMA TurnGoes ==
    ASSUME turn \in TurnRecords, NEW pc \in TurnPlaces \ {"wait"}, Goes(pc)
    PROVE  turn' \in TurnRecords /\ turn' # NoTurn
  BY DEF Goes, TurnRecords, NoTurn

\* What a step of the turn alone has to show.
LEMMA TurnAlone ==
    ASSUME ChatInv, turn' \in TurnRecords,
           UNCHANGED <<listenVars, phase, queue, speaking, tasks>>,
           abort' \in BOOLEAN, loop' \in BOOLEAN,
           (turn' = NoTurn /\ phase = "processing") => speaking
    PROVE  ChatInv'
  BY DEF ChatInv, ChatTypes, SpeechIsFollowed, ProcessingHasTurn, listenVars

\* What a recovery has to show: the session is idle.
LEMMA Recovered ==
    ASSUME ChatInv, NEW apology, Recovery(apology), turn' \in TurnRecords,
           UNCHANGED <<listenVars, abort, queue, speaking, tasks>>
    PROVE  ChatInv'
  BY DEF ChatInv, ChatTypes, SpeechIsFollowed, ProcessingHasTurn, listenVars, Recovery

LEMMA EnqueueBounds ==
    ASSUME ChatTypes, Enqueue
    PROVE  said' \in 0 .. MaxTexts /\ queue' \in Seq(1 .. said') /\ Len(queue') <= QueueCap
<1>1. said' \in 1 .. MaxTexts /\ said' = said + 1 /\ queue \in Seq(1 .. said')
  BY ChatAssumption DEF ChatTypes, Enqueue
<1>2. CASE Len(queue) < QueueCap
  BY <1>1, <1>2, ChatAssumption DEF ChatTypes, Enqueue
<1>3. CASE ~ (Len(queue) < QueueCap)
  BY <1>1, <1>3 DEF ChatTypes, Enqueue
<1> QED
  BY <1>2, <1>3

LEMMA HeardInv == ASSUME ChatInv, Hears \/ Types PROVE ChatInv'
<1>1. Enqueue /\ loop' \in BOOLEAN
      /\ UNCHANGED <<phase, listenMode, realtime, abort, deferred, turn, speaking, tasks>>
  BY DEF Hears, Types, ChatInv, ChatTypes
<1> QED
  BY <1>1, EnqueueBounds DEF ChatInv, ChatTypes, SpeechIsFollowed, ProcessingHasTurn

LEMMA TakeInv == ASSUME ChatInv, Take PROVE ChatInv'
<1>1. Head(queue) \in 1 .. said /\ Tail(queue) \in Seq(1 .. said) /\ Len(Tail(queue)) <= QueueCap
  BY ChatAssumption DEF ChatInv, ChatTypes, Take
<1>2. turn' \in TurnRecords /\ turn'.pc = "prepare"
  <2>1. turn' = [pc |-> "prepare", text |-> Head(queue), left |-> Rounds, bare |-> FALSE]
    BY DEF Take, NoTurn
  <2>2. Head(queue) \in Nat /\ Rounds \in Nat
    BY <1>1, ChatAssumption DEF ChatInv, ChatTypes
  <2> QED
    BY <2>1, <2>2 DEF TurnRecords, TurnPlaces
<1>3. turn' # NoTurn
  BY <1>2, NoTurnWaits
<1>4. phase' \in {"idle", "listening", "processing", "speaking"}
      /\ (phase' \in {"listening", "processing"} => phase \in {"listening", "processing"})
  BY DEF Take, ChatInv, ChatTypes
<1> QED
  BY <1>1, <1>2, <1>3, <1>4
     DEF ChatInv, ChatTypes, SpeechIsFollowed, ProcessingHasTurn, Take, listenVars

LEMMA PrepareInv == ASSUME ChatInv, Prepare PROVE ChatInv'
<1>1. CASE turn' = NoTurn /\ Recovery(Sentence)
  BY <1>1, NoTurnWaits, Recovered DEF Prepare
<1>2. CASE (Goes("clear") \/ Goes("ensure")) /\ UNCHANGED <<phase, loop>>
  <2>1. turn' \in TurnRecords /\ turn' # NoTurn
    BY <1>2, TurnGoes DEF ChatInv, ChatTypes, TurnPlaces
  <2> QED
    BY <1>2, <2>1, TurnAlone DEF Prepare, ChatInv, ChatTypes
<1> QED
  BY <1>1, <1>2 DEF Prepare

\* The places a turn goes through between its preparation and its last look.
LEMMA WorkerInv ==
    ASSUME ChatInv, ClearAbort \/ ToolRound \/ SpeakText \/ OpenStream \/ Chunk \/ CloseStream
    PROVE  ChatInv'
<1>1. turn \in TurnRecords /\ turn.left \in Nat
  BY DEF ChatInv, ChatTypes, TurnRecords
<1>2. turn' \in TurnRecords /\ turn'.pc # "wait"
  <2>1. CASE ClearAbort
    BY <1>1, <2>1 DEF ClearAbort, Goes, TurnRecords, TurnPlaces
  <2>2. CASE ToolRound
    BY <1>1, <2>2 DEF ToolRound, Goes, TurnRecords, TurnPlaces
  <2>3. CASE SpeakText
    BY <1>1, <2>3 DEF SpeakText, Goes, TurnRecords, TurnPlaces
  <2>4. CASE OpenStream
    BY <1>1, <2>4, ChatAssumption DEF OpenStream, TurnRecords, TurnPlaces
  <2>5. CASE Chunk
    <3>1. turn.left - 1 \in Nat /\ turn.pc = "chunks"
      BY <1>1, <2>5 DEF Chunk
    <3>2. turn' = [pc |-> turn.pc, text |-> turn.text, left |-> turn.left - 1, bare |-> FALSE]
      BY <1>1, <2>5 DEF Chunk, TurnRecords
    <3> QED
      BY <1>1, <3>1, <3>2 DEF TurnRecords
  <2>6. CASE CloseStream
    BY <1>1, <2>6 DEF CloseStream, Goes, TurnRecords, TurnPlaces
  <2> QED
    BY <2>1, <2>2, <2>3, <2>4, <2>5, <2>6
<1>3. turn' # NoTurn
  BY <1>2, NoTurnWaits
<1>4. /\ abort' \in BOOLEAN /\ loop' \in BOOLEAN
      /\ UNCHANGED <<listenVars, phase, queue, speaking, tasks>>
  BY DEF ChatInv, ChatTypes, ClearAbort, ToolRound, SpeakText, OpenStream, Chunk, CloseStream
<1> QED
  BY <1>2, <1>3, <1>4, TurnAlone

\* The last look: a turn that leaves a session in Processing leaves speech that plays.
LEMMA EnsureInv == ASSUME ChatInv, Ensure PROVE ChatInv'
<1>1. /\ abort' \in BOOLEAN /\ loop' \in BOOLEAN
      /\ UNCHANGED <<listenVars, phase, queue, speaking, tasks>>
  BY DEF ChatInv, ChatTypes, Ensure
<1>2. CASE turn' = NoTurn
  BY <1>1, <1>2, NoTurnWaits, TurnAlone DEF Ensure, Goes, ChatInv, ChatTypes, TurnRecords
<1>3. CASE turn' # NoTurn
  <2>1. Goes("phase") \/ Goes("recover")
    BY <1>3 DEF Ensure
  <2>2. turn' \in TurnRecords
    BY <2>1, TurnGoes DEF ChatInv, ChatTypes, TurnPlaces
  <2> QED
    BY <1>1, <1>3, <2>2, TurnAlone
<1> QED
  BY <1>2, <1>3

LEMMA PlaysInv == ASSUME ChatInv, Plays PROVE ChatInv'
<1>1. tasks' \in [TaskKinds -> Nat] /\ tasks'["speaking"] >= tasks["speaking"]
      /\ tasks["speaking"] \in Nat /\ tasks'["speaking"] \in Nat
  BY SpawnCounts DEF Plays, ChatInv, ChatTypes, TaskKinds
<1>2. speaking' \in BOOLEAN /\ (speaking' => speaking \/ tasks'["speaking"] > 0)
  BY SpawnCounts DEF Plays, ChatInv, ChatTypes, TaskKinds
<1> QED
  BY <1>1, <1>2 DEF ChatInv, ChatTypes, SpeechIsFollowed, ProcessingHasTurn, Plays, listenVars

LEMMA PhaseTasksInv == ASSUME ChatInv, StartsSpeaking \/ EndsSpeaking PROVE ChatInv'
<1>1. CASE StartsSpeaking
  BY <1>1, SpawnCounts
     DEF ChatInv, ChatTypes, SpeechIsFollowed, ProcessingHasTurn, StartsSpeaking, listenVars,
         TaskKinds
<1>2. CASE EndsSpeaking
  <2>1. tasks' \in [TaskKinds -> Nat] /\ tasks'["speaking"] = tasks["speaking"]
    BY <1>2 DEF EndsSpeaking, Ran, ChatInv, ChatTypes, TaskKinds
  <2> QED
    BY <1>2, <2>1
       DEF ChatInv, ChatTypes, SpeechIsFollowed, ProcessingHasTurn, EndsSpeaking, listenVars
<1> QED
  BY <1>1, <1>2

\* A listen start that is not put off stops what plays.
LEMMA ListenPhase ==
    ASSUME ChatInv, NEW m \in {"auto", "realtime"}, NEW heard \in BOOLEAN, NEW kept \in BOOLEAN,
           Listen(m, heard, kept)
    PROVE  /\ phase' \in {"idle", "listening", "processing", "speaking"}
           /\ listenMode' \in {"auto", "realtime"}
           /\ {realtime', abort', loop', deferred', speaking'} \subseteq BOOLEAN
           /\ phase' = "processing" => phase = "processing"
           /\ speaking' => speaking /\ phase' = phase
  BY DEF Listen, ChatInv, ChatTypes

LEMMA ListenInv ==
    ASSUME ChatInv,
           \/ \E m \in {"auto", "realtime"}, heard \in BOOLEAN : ListenStart(m, heard)
           \/ Resume
    PROVE  ChatInv'
<1>1. UNCHANGED <<queue, turn, said>>
  BY DEF ListenStart, Resume
<1>2. /\ phase' \in {"idle", "listening", "processing", "speaking"}
      /\ listenMode' \in {"auto", "realtime"}
      /\ {realtime', abort', loop', deferred', speaking'} \subseteq BOOLEAN
      /\ phase' = "processing" => phase = "processing"
      /\ speaking' => speaking /\ phase' = phase
  BY ListenPhase DEF ListenStart, Resume, ChatInv, ChatTypes
<1>3. tasks' \in [TaskKinds -> Nat] /\ tasks'["speaking"] = tasks["speaking"]
  <2>1. CASE \E m \in {"auto", "realtime"}, heard \in BOOLEAN : ListenStart(m, heard)
    BY <2>1, StopCounts DEF ListenStart, ChatInv, ChatTypes
  <2>2. CASE Resume
    <3>1. Ran("resume") \in [TaskKinds -> Nat] /\ Ran("resume")["speaking"] = tasks["speaking"]
      BY <2>2, SpawnCounts DEF Resume, ChatInv, ChatTypes, TaskKinds
    <3> QED
      BY <2>2, <3>1, StopCounts DEF Resume
  <2> QED
    BY <2>1, <2>2
<1> QED
  BY <1>1, <1>2, <1>3 DEF ChatInv, ChatTypes, SpeechIsFollowed, ProcessingHasTurn

LEMMA StopInv == ASSUME ChatInv, ListenStop \/ Abort \/ BargeIn PROVE ChatInv'
<1>1. CASE ListenStop
  BY <1>1 DEF ChatInv, ChatTypes, SpeechIsFollowed, ProcessingHasTurn, ListenStop
<1>2. CASE Abort
  <2>1. tasks' \in [TaskKinds -> Nat] /\ tasks'["speaking"] = tasks["speaking"]
    BY <1>2 DEF Abort, Interrupted, Spawn, ChatInv, ChatTypes, TaskKinds
  <2> QED
    BY <1>2, <2>1
       DEF ChatInv, ChatTypes, SpeechIsFollowed, ProcessingHasTurn, Abort, Interrupted
<1>3. CASE BargeIn
  BY <1>3 DEF ChatInv, ChatTypes, SpeechIsFollowed, ProcessingHasTurn, BargeIn
<1> QED
  BY <1>1, <1>2, <1>3

LEMMA ChatStep == ChatInv /\ [ChatNext]_chatVars => ChatInv'
<1> SUFFICES ASSUME ChatInv, [ChatNext]_chatVars PROVE ChatInv'
  OBVIOUS
<1>1. CASE UNCHANGED chatVars
  BY <1>1 DEF chatVars, ChatInv, ChatTypes, SpeechIsFollowed, ProcessingHasTurn
<1>2. CASE HearsNothing
  BY <1>2, Recovered DEF HearsNothing, ChatInv, ChatTypes
<1>3. CASE Recover
  BY <1>3, NoTurnWaits, Recovered DEF Recover
<1> QED
  BY <1>1, <1>2, <1>3, HeardInv, TakeInv, PrepareInv, WorkerInv, EnsureInv, PlaysInv,
     PhaseTasksInv, ListenInv, StopInv DEF ChatNext

LEMMA ChatTypesHold == ChatTypes => ChatTypeOK
  BY DEF ChatTypes, ChatTypeOK, TurnRecords, TurnPlaces

\* With nothing on its way, only a turn keeps a session in Processing.
LEMMA QuietIsNotProcessing == ChatInv => NoTurnLeftProcessing
  BY DEF ChatInv, ProcessingHasTurn, NoTurnLeftProcessing, TaskKinds

\* The chat of a session: types, and who takes it out of Processing.
THEOREM ChatInvariant == ChatSpec => []ChatInv
<1> QED
  BY ChatBegins, ChatStep, PTL DEF ChatSpec

\* Types of the chat, for any capacity of its queue and any number of pieces and rounds.
THEOREM ChatTypeCorrect == ChatSpec => []ChatTypeOK
<1>1. ChatInv => ChatTypeOK
  BY ChatTypesHold DEF ChatInv
<1> QED
  BY <1>1, ChatInvariant, PTL

\* A step of the platform that runs a chat is a step of the chat.
LEMMA ChatSteps ==
    ASSUME [PlatformNext]_platformVars
    PROVE  part' = part /\ (part = "chat" => [ChatNext]_chatVars)
<1>1. CASE UNCHANGED platformVars
  BY <1>1 DEF platformVars, deviceVars, sharedVars, consoleVars
<1>2. CASE PlatformNext
  BY <1>2 DEF PlatformNext, deviceVars, sharedVars, consoleVars
<1> QED
  BY <1>1, <1>2

\* No turn leaves its session in Processing when all is quiet, for any number of texts, starts,
\* aborts and barge-ins (chat_queue.rs:68, manager.rs:2297): the chat's half of TurnsAreDone.
THEOREM TurnsEnd == PlatformSpec => [](part = "chat" => NoTurnLeftProcessing)
<1> DEFINE Inv == part = "chat" => ChatInv
<1>1. PlatformInit => Inv
  BY ChatBegins DEF PlatformInit
<1>2. Inv /\ [PlatformNext]_platformVars => Inv'
  BY ChatSteps, ChatStep
<1>3. Inv => (part = "chat" => NoTurnLeftProcessing)
  BY QuietIsNotProcessing
<1> QED
  BY <1>1, <1>2, <1>3, PTL DEF PlatformSpec
=============================================================================
