---------------------------- MODULE ClawOffline -----------------------------
(***************************************************************************)
(* The offline queue of one device: a notice for a device that has no      *)
(* ChatManager is queued, and each hello spawns a task that replays the    *)
(* queue: it copies it, speaks the copy one by one, then removes as many   *)
(* entries from the front as it has spoken, and retries what is left.      *)
(*                                                                         *)
(* The answers of an OpenClaw agent would be queued too when no response   *)
(* handler were set; app.rs:111 always sets one, which takes an answer for *)
(* a device without a manager as delivered.  So the queue holds notices.   *)
(***************************************************************************)
EXTENDS Integers, Sequences, FiniteSets

CONSTANTS Notices,   \* notices, each queued once
          Replays,   \* replay tasks, one for each hello
          MaxQueue,  \* MAX_OFFLINE_MESSAGES
          MaxRetry   \* bound: rounds of a replay (MAX_RETRY)

ASSUME ClawOfflineAssumption ==
    /\ IsFiniteSet(Notices) /\ IsFiniteSet(Replays)
    /\ MaxQueue \in Nat \ {0} /\ MaxRetry \in Nat \ {0}

VARIABLES
    online,   \* the device has a ChatManager
    offlineQ, \* offline_queue of the device
    queued,   \* notices queued so far
    dropped,  \* notices dropped as too old or too many
    heard,    \* how often each notice was spoken
    replay,   \* where each replay is in replay_offline_messages
    overlap   \* something other than an append changed the queue during a replay

clawOfflineVars == <<online, offlineQ, queued, dropped, heard, replay, overlap>>

ClawOfflineInit ==
    /\ online = FALSE /\ offlineQ = <<>> /\ queued = {} /\ dropped = {}
    /\ heard = [n \in Notices |-> 0]
    /\ replay = [r \in Replays |-> [pc |-> "none", copy |-> <<>>, done |-> 0, round |-> 0]]
    /\ overlap = FALSE

InReplay(r) == replay[r].pc \in {"speak", "pop"}
Others(r) == \E q \in Replays \ {r} : InReplay(q)
LastOf(n, s) == SubSeq(s, Len(s) - n + 1, Len(s))
Elems(s) == {s[i] : i \in DOMAIN s}

-----------------------------------------------------------------------------

\* inject_message of the HTTP and bridge handlers: no manager, so the notice is queued,
\* and the oldest ones go when there are too many.
QueueNotice(n) ==
    /\ ~ online /\ n \notin queued /\ queued' = queued \cup {n}
    /\ LET q == Append(offlineQ, n)
           full == Len(q) > MaxQueue
       IN  /\ offlineQ' = IF full THEN LastOf(MaxQueue, q) ELSE q
           /\ dropped' = IF full THEN dropped \cup {q[1]} ELSE dropped
           /\ overlap' = (overlap \/ (full /\ \E r \in Replays : InReplay(r)))
    /\ UNCHANGED <<online, heard, replay>>

\* The manager of a device goes with its session, and comes with a hello, which spawns
\* a replay.
DeviceLeaves ==
    /\ online /\ online' = FALSE
    /\ UNCHANGED <<offlineQ, queued, dropped, heard, replay, overlap>>

Hello(r) ==
    /\ replay[r].pc = "none" /\ replay' = [replay EXCEPT ![r].pc = "copy"]
    /\ online' = TRUE
    /\ UNCHANGED <<offlineQ, queued, dropped, heard, overlap>>

\* The queue without what is too old (the front) is copied.
CopyQueue(r) ==
    /\ replay[r].pc = "copy"
    /\ \E old \in 0 .. Len(offlineQ) :
        /\ offlineQ' = LastOf(Len(offlineQ) - old, offlineQ)
        /\ dropped' = dropped \cup Elems(SubSeq(offlineQ, 1, old))
        /\ overlap' = (overlap \/ (old > 0 /\ Others(r)))
        /\ replay' = [replay EXCEPT ![r].copy = offlineQ', ![r].done = 0, ![r].pc = "speak",
                                    ![r].round = @ + 1]
    /\ UNCHANGED <<online, queued, heard>>

\* inject_message speaks the next of the copy, or fails, which ends the round.
SpeakNotice(r) ==
    /\ replay[r].pc = "speak" /\ replay[r].done < Len(replay[r].copy)
    /\ replay' = [replay EXCEPT ![r].done = @ + 1]
    /\ heard' = [heard EXCEPT ![replay[r].copy[replay[r].done + 1]] = @ + 1]
    /\ UNCHANGED <<online, offlineQ, queued, dropped, overlap>>

SpeakEnds(r) ==
    /\ replay[r].pc = "speak"
    /\ replay' = [replay EXCEPT ![r].pc = "pop"]
    /\ UNCHANGED <<online, offlineQ, queued, dropped, heard, overlap>>

\* A variant: the whole queue is removed once something was spoken.
LeftAfterAll(n, q) == IF n > 0 THEN <<>> ELSE q

\* As many as were spoken are removed from the front.
LeftAfter(n, q) == IF n >= Len(q) THEN (IF n > 0 THEN <<>> ELSE q) ELSE LastOf(Len(q) - n, q)

PopSpoken(r) ==
    /\ replay[r].pc = "pop"
    /\ offlineQ' = LeftAfter(replay[r].done, offlineQ)
    /\ overlap' = (overlap \/ (replay[r].done > 0 /\ Others(r)))
    /\ replay' = [replay EXCEPT ![r].pc = IF offlineQ' = <<>> \/ replay[r].round = MaxRetry
                                          THEN "end" ELSE "copy"]
    /\ UNCHANGED <<online, queued, dropped, heard>>

ClawOfflineNext ==
    \/ \E n \in Notices : QueueNotice(n)
    \/ DeviceLeaves
    \/ \E r \in Replays : Hello(r) \/ CopyQueue(r) \/ SpeakNotice(r) \/ SpeakEnds(r) \/ PopSpoken(r)

ClawOfflineSpec == ClawOfflineInit /\ [][ClawOfflineNext]_clawOfflineVars

-----------------------------------------------------------------------------

ClawOfflineTypeOK ==
    /\ online \in BOOLEAN /\ overlap \in BOOLEAN
    /\ offlineQ \in Seq(Notices) /\ Len(offlineQ) <= MaxQueue
    /\ queued \subseteq Notices /\ dropped \subseteq Notices
    /\ heard \in [Notices -> Nat]
    /\ replay \in [Replays -> [pc : {"none", "copy", "speak", "pop", "end"},
                               copy : Seq(Notices), done : Nat, round : 0 .. MaxRetry]]

\* Removing by count removes what was spoken: a notice is in the queue, was spoken or was
\* dropped as too old or too many, and is spoken once, although notices are queued while a
\* replay speaks.  It takes a second replay, or a drop, during the first to lose
\* one unheard or to repeat one.
NoticeSpokenOnce ==
    overlap \/ \A n \in queued :
        LET begun == \E r \in Replays : InReplay(r) /\ n \in Elems(SubSeq(replay[r].copy, 1, replay[r].done))
        IN  /\ n \in Elems(offlineQ) \/ n \in dropped \/ heard[n] > 0
            /\ heard[n] > 0 /\ n \in Elems(offlineQ) => begun
            /\ (\A r, q \in Replays : InReplay(r) /\ InReplay(q) => r = q) => heard[n] <= 1
=============================================================================
