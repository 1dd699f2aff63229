---------------------------- MODULE StompHearing ----------------------------
(***************************************************************************)
(* Which tone a StompStation PRO is heard to play: the window's record of   *)
(* it (crates/tonepush-gui/src/audition.rs, Hearing), the worker that plays *)
(* and puts back (pro.rs), and what passes between the two threads: the     *)
(* commands, the events, and the key still wanted, which both may read and  *)
(* write at any time.                                                       *)
(*                                                                          *)
(* What playing a tone does to the pedal's buffer is StompWorker.  Here the *)
(* worker takes time over an audition, the window goes through what was     *)
(* said since the last frame one event after the other, and a key stands    *)
(* for a tone.                                                              *)
(***************************************************************************)
EXTENDS Naturals, Sequences

CONSTANTS
    MaxKeys,      \* bound: auditions asked for
    MaxOther,     \* bound: other commands sent
    MaxTroubles,  \* bound: commands the pedal refuses, or that lose the session
    MaxVanish     \* bound: tones that leave the library on their way

ASSUME HearingAssumption ==
    MaxKeys \in Nat /\ MaxOther \in Nat /\ MaxTroubles \in Nat /\ MaxVanish \in Nat

Keys == 1..MaxKeys
None == 0

Commands == [kind : {"Audition"}, key : Keys]
                \cup [kind : {"EndAudition", "KeepAudition", "SelectPreset", "SavePreset",
                              "Connect", "Disconnect"}, key : {None}]
Events == [kind : {"Auditioning"}, key : Keys \cup {None}]
                \cup [kind : {"AuditionFailed"}, key : Keys]
                \cup [kind : {"Connected", "Disconnected"}, key : {None}]

VARIABLES
    queue, events,          \* commands to the worker, events to the window
    batch,                  \* the events a frame has taken up, 0 between two frames
    told,                   \* those of them it has gone through for what plays
    wanted,                 \* the audition still wanted
    device,                 \* the worker: whether it holds a session
    plays,                  \* the worker: the audition it has set something aside for
    begun,                  \* the worker: the audition being written
    online,                 \* the panel: whether a pedal is connected
    heard, withdrawn,       \* the window: the tone asked for, the one given up on
    aside,                  \* the window: whether it knows what was set aside
    auditioning,            \* the window: what the worker last said plays
    asked, others, troubles, vanished, \* counters of the bounds
    unsaid,                 \* ghost: the worker ended an audition and said nothing of it since
    stuck                   \* ghost: the pedal refused to end what plays

worker == <<device, plays, begun>>
window == <<online, heard, withdrawn, aside, auditioning>>
bounds == <<asked, others, troubles, vanished>>
ghosts == <<unsaid, stuck>>
frame == <<batch, told>>
vars == <<queue, events, frame, wanted, worker, window, bounds, ghosts>>

TypeOK ==
    /\ queue \in Seq(Commands) /\ events \in Seq(Events)
    /\ batch \in 0..Len(events) /\ told \in 0..batch
    /\ wanted \in 0..MaxKeys /\ plays \in 0..MaxKeys /\ begun \in 0..MaxKeys
    /\ heard \in 0..MaxKeys /\ withdrawn \in 0..MaxKeys /\ auditioning \in 0..MaxKeys
    /\ device \in BOOLEAN /\ online \in BOOLEAN /\ aside \in BOOLEAN /\ unsaid \in BOOLEAN
    /\ stuck \in BOOLEAN
    /\ asked \in 0..MaxKeys /\ others \in 0..MaxOther
    /\ troubles \in 0..MaxTroubles /\ vanished \in 0..MaxVanish

Init ==
    /\ queue = <<>> /\ events = <<>> /\ batch = 0 /\ told = 0 /\ wanted = None
    /\ device = FALSE /\ plays = None /\ begun = None
    /\ online = FALSE /\ heard = None /\ withdrawn = None /\ aside = FALSE /\ auditioning = None
    /\ asked = 0 /\ others = 0 /\ troubles = 0 /\ vanished = 0
    /\ unsaid = FALSE /\ stuck = FALSE

Cmd(kind) == [kind |-> kind, key |-> None]
Evt(kind, key) == [kind |-> kind, key |-> key]
Loading == heard # None /\ heard # auditioning

----------------------------------------------------------------------------
(* The window's hands, between two frames                                   *)

\* Mutant: the counter is read once it has moved on.
WantsNext(key) == key + 1

\* Mutant: the newest tone is sent and the one before it still wanted.
WantsFirst(key) == IF wanted = None THEN key ELSE wanted

\* Panel::audition
Wants(key) == key

\* A click on a tone: begin_hearing.
Click ==
    /\ batch = 0 /\ online /\ asked < MaxKeys /\ asked' = asked + 1
    /\ wanted' = Wants(asked')
    /\ queue' = Append(queue, [kind |-> "Audition", key |-> asked'])
    /\ aside' = (aside \/ (heard = None /\ auditioning = None))
    /\ heard' = asked' /\ withdrawn' = None
    /\ UNCHANGED <<events, frame, worker, online, auditioning, others, troubles, vanished, ghosts>>

Sends(kind) ==
    /\ batch = 0 /\ others < MaxOther /\ others' = others + 1
    /\ queue' = Append(queue, Cmd(kind))
    /\ UNCHANGED <<events, frame, worker, online, withdrawn, auditioning, asked, troubles,
                   vanished, ghosts>>

PutBack ==
    /\ heard # None \/ auditioning # None
    /\ Sends("EndAudition") /\ wanted' = None
    /\ heard' = None /\ aside' = FALSE

KeepHeard ==
    /\ heard # None /\ heard = auditioning
    /\ Sends("KeepAudition")
    /\ heard' = None /\ aside' = FALSE
    /\ UNCHANGED wanted

Ask(kind) ==
    /\ kind \in {"SelectPreset", "SavePreset", "Disconnect"} /\ online
    /\ Sends(kind) /\ UNCHANGED <<wanted, heard, aside>>

\* The window looks for a pedal when it has none and no look is in flight.
AskConnect ==
    /\ batch = 0 /\ ~online
    /\ \A i \in DOMAIN queue : queue[i].kind # "Connect"
    /\ \A i \in DOMAIN events : events[i].kind # "Connected"
    /\ queue' = Append(queue, Cmd("Connect"))
    /\ UNCHANGED <<events, frame, wanted, worker, window, bounds, ghosts>>

\* What the window holds of a hearing, and whether it sends an EndAudition.
Here == [wanted |-> wanted, heard |-> heard, withdrawn |-> withdrawn, aside |-> aside,
         auditioning |-> auditioning, ends |-> FALSE]

End(w) == [w EXCEPT !.wanted = None, !.ends = TRUE]
Forget(w) == [w EXCEPT !.heard = None, !.aside = FALSE]

\* withdraw_heard: not played if the worker has not come to it; what plays is put back.
Withdraws(w) ==
    LET passed == [w EXCEPT !.wanted = IF @ = w.heard THEN None ELSE @, !.withdrawn = w.heard]
    IN Forget(IF w.auditioning # None THEN End(passed) ELSE passed)

\* Mutant: an audition over is the end of whatever was asked for since.
AuditionEventForgets(w, key) ==
    LET now == [w EXCEPT !.auditioning = key]
        back == IF key # None /\ key = w.withdrawn /\ w.heard = None
                THEN End([now EXCEPT !.withdrawn = None]) ELSE now
    IN IF key = None THEN Forget(back) ELSE back

\* audition_event
AuditionEvent(w, key) ==
    LET now == [w EXCEPT !.auditioning = key]
        back == IF key # None /\ key = w.withdrawn /\ w.heard = None
                THEN End([now EXCEPT !.withdrawn = None]) ELSE now
    IN IF key = None /\ (w.heard = None \/ w.heard = w.auditioning) THEN Forget(back) ELSE back

\* audition_failed
AuditionFailed(w, key) ==
    IF w.heard # key THEN w
    ELSE [w EXCEPT !.heard = None, !.aside = @ /\ w.auditioning # None]

\* settle_hearing, for a pedal that has gone.
Settled(w) ==
    IF w.heard # None /\ w.heard # w.auditioning /\ ~online THEN Withdraws(w) ELSE w

Becomes(w) ==
    /\ wanted' = w.wanted /\ heard' = w.heard /\ withdrawn' = w.withdrawn
    /\ aside' = w.aside /\ auditioning' = w.auditioning
    /\ queue' = IF w.ends THEN Append(queue, Cmd("EndAudition")) ELSE queue
    /\ UNCHANGED <<online, worker, asked, others, troubles, ghosts>>

\* Among the first n events the session was opened, or lost, and that was the last of it.
Opened(n) == \E i \in 1..n : /\ events[i].kind = "Connected"
                             /\ \A j \in i..n : events[j].kind # "Disconnected"
Closed(n) == \E i \in 1..n : /\ events[i].kind = "Disconnected"
                             /\ \A j \in i..n : events[j].kind # "Connected"

\* A frame takes up events that arrived since the last, first for the session.
Draw ==
    /\ batch = 0 /\ batch' \in 1..Len(events)
    /\ online' = (Opened(batch') \/ (online /\ ~Closed(batch')))
    /\ UNCHANGED <<queue, events, told, wanted, worker, heard, withdrawn, aside, auditioning,
                   bounds, ghosts>>

\* The next of them that says what plays.
Hear ==
    /\ \E i \in (told + 1)..batch :
           /\ events[i].kind = "Auditioning"
           /\ \A j \in (told + 1)..(i - 1) : events[j].kind # "Auditioning"
           /\ Becomes(AuditionEvent(Here, events[i].key)) /\ told' = i
    /\ UNCHANGED <<events, batch, vanished>>

\* After the last of these the failures, and what can no longer arrive.
Settle ==
    /\ batch > 0 /\ \A i \in (told + 1)..batch : events[i].kind # "Auditioning"
    /\ LET failed == \E i \in 1..batch : events[i] = Evt("AuditionFailed", heard)
       IN Becomes(Settled(IF failed THEN AuditionFailed(Here, heard) ELSE Here))
    /\ events' = SubSeq(events, batch + 1, Len(events)) /\ batch' = 0 /\ told' = 0
    /\ UNCHANGED vanished

Frame == Draw \/ Hear \/ Settle

\* The tone on its way leaves the library: settle_hearing.
Vanish ==
    /\ batch = 0 /\ Loading /\ vanished < MaxVanish /\ vanished' = vanished + 1
    /\ Becomes(Withdraws(Here)) /\ UNCHANGED <<events, frame>>

----------------------------------------------------------------------------
(* The worker                                                               *)

Handles(kind) ==
    /\ begun = None /\ queue # <<>> /\ Head(queue).kind = kind
    /\ queue' = Tail(queue)
    /\ UNCHANGED <<frame, wanted, window, asked, others, vanished>>

Says(said) == events' = events \o said
Plays(key) == Evt("Auditioning", key)
Fine == UNCHANGED <<device, troubles>>
Trouble == troubles < MaxTroubles /\ troubles' = troubles + 1
Refused == Trouble /\ UNCHANGED device
Lost == Trouble /\ device' = FALSE

\* An audition ended with nothing said of it.
Silently == plays' = None /\ stuck' = FALSE /\ unsaid' = (unsaid \/ plays # None)
Aloud == plays' = None /\ stuck' = FALSE /\ unsaid' = FALSE
\* The pedal refused to end it.
Stays == stuck' = (plays # None) /\ UNCHANGED <<plays, events, unsaid>>

\* The editor has not moved on.
StillWanted(key) == wanted = key

PassOver ==
    /\ Handles("Audition") /\ ~StillWanted(Head(queue).key)
    /\ UNCHANGED <<events, worker, troubles, ghosts>>

Begin ==
    /\ Handles("Audition") /\ StillWanted(Head(queue).key)
    /\ begun' = Head(queue).key
    /\ UNCHANGED <<events, device, plays, troubles, ghosts>>

\* The audition begun is written, or fails: what it set aside is back, but after a loss.
Finish ==
    /\ begun # None /\ begun' = None
    /\ LET failure == <<Evt("AuditionFailed", begun), Plays(None)>>
       IN \/ device /\ Fine /\ plays' = begun /\ Says(<<Plays(begun)>>) /\ unsaid' = FALSE /\ stuck' = FALSE
          \/ ~device /\ Fine /\ Aloud /\ Says(failure)
          \/ device /\ Refused /\ Aloud /\ Says(failure)
          \/ device /\ Lost /\ Aloud /\ Says(Append(failure, Evt("Disconnected", None)))
    /\ UNCHANGED <<queue, frame, wanted, window, asked, others, vanished>>

EndAudition ==
    /\ Handles("EndAudition")
    /\ \/ device /\ Fine /\ Aloud /\ Says(<<Plays(None)>>)
       \* Refused while writing back; or once written back, reading the pedal again.
       \/ device /\ Refused /\ Stays
       \/ device /\ Refused /\ Silently /\ UNCHANGED events
       \/ device /\ Lost /\ Silently /\ Says(<<Evt("Disconnected", None)>>)
       \/ ~device /\ Fine /\ UNCHANGED <<plays, events, ghosts>>
    /\ UNCHANGED begun

KeepAudition ==
    /\ Handles("KeepAudition")
    /\ \/ Fine /\ Aloud /\ Says(<<Plays(None)>>)
       \/ device /\ Refused /\ Stays
       \/ device /\ Lost /\ Silently /\ Says(<<Evt("Disconnected", None)>>)
    /\ UNCHANGED begun

SelectPreset ==
    /\ Handles("SelectPreset")
    /\ \/ (Fine \/ (device /\ Refused)) /\ Aloud /\ Says(<<Plays(None)>>)
       \/ device /\ Refused /\ plays # None /\ Stays
       \/ device /\ Lost /\ Aloud /\ Says(<<Plays(None), Evt("Disconnected", None)>>)
       \/ device /\ Lost /\ Silently /\ Says(<<Evt("Disconnected", None)>>)
    /\ UNCHANGED begun

SavePreset ==
    /\ Handles("SavePreset")
    /\ LET said == IF plays = None THEN <<>> ELSE <<Plays(None)>>
           Ended == plays' = None /\ stuck' = FALSE /\ unsaid' = (unsaid /\ plays = None)
       IN \/ device /\ (Fine \/ Refused) /\ Ended /\ Says(said)
          \/ device /\ Refused /\ plays # None /\ Stays
          \/ device /\ Lost /\ Ended /\ Says(Append(said, Evt("Disconnected", None)))
          \/ device /\ Lost /\ Silently /\ Says(<<Evt("Disconnected", None)>>)
          \/ ~device /\ Fine /\ UNCHANGED <<plays, events, ghosts>>
    /\ UNCHANGED begun

Disconnect ==
    /\ Handles("Disconnect")
    /\ \/ device' = FALSE /\ UNCHANGED troubles /\ Silently /\ Says(<<Evt("Disconnected", None)>>)
       \/ device /\ Refused /\ plays # None /\ Stays
    /\ UNCHANGED begun

\* A session opened clears the audition of the one before; or no pedal is found.
Connect ==
    /\ Handles("Connect")
    /\ \/ device' = TRUE /\ Says(<<Evt("Connected", None)>>) /\ Silently
       \/ UNCHANGED <<device, events, plays, ghosts>>
    /\ UNCHANGED <<begun, troubles>>

Work ==
    \/ PassOver \/ Begin \/ Finish \/ EndAudition \/ KeepAudition
    \/ SelectPreset \/ SavePreset \/ Disconnect \/ Connect

Next ==
    \/ Click \/ PutBack \/ KeepHeard \/ AskConnect \/ Vanish
    \/ \E kind \in {"SelectPreset", "SavePreset", "Disconnect"} : Ask(kind)
    \/ Frame \/ Work

Spec == Init /\ [][Next]_vars

\* The worker's thread runs, every request it makes answered or timed out; the window draws
\* a frame when an event arrives.
FairSpec == Spec /\ WF_vars(Work) /\ WF_vars(Frame)

----------------------------------------------------------------------------
(* Properties                                                               *)

Quiet == queue = <<>> /\ events = <<>> /\ begun = None

\* With nothing in flight the window takes for playing what the worker plays (App.auditioning,
\* Worker.audition), and a tone it says it hears is that one: audition_event and the key still
\* wanted keep the two together, unless the worker ended an audition without a word.
HeardPlays == Quiet /\ device /\ ~unsaid =>
    /\ auditioning = plays
    /\ heard # None => heard = plays

\* With nothing in flight and nothing heard, the worker plays nothing; and where a tone was
\* given up on, it does not play that one ("should the pedal play it after all, it is put back
\* at once", Hearing.withdrawn).
NothingUnwanted == Quiet /\ device /\ ~unsaid /\ ~stuck /\ heard = None =>
    plays = None \/ withdrawn \notin {None, plays}

\* What the window says of a tone and what the worker plays agree once both are at rest.
WindowIsRight == HeardPlays /\ NothingUnwanted

\* With nothing in flight and nothing heard, what was set aside is what plays ("what it set
\* aside is what plays", withdraw_heard).
SetAsidePlays == Quiet /\ device /\ ~unsaid /\ ~stuck /\ heard = None => plays = None

\* A tone heard is heard against a preset known to be set aside ("The first one sets the
\* loaded preset aside; the ones after it play against that same baseline", begin_hearing).
BaselineKnown == heard # None => aside

\* A tone asked for is not on its way for ever: it plays, fails, or is given up on
\* (heard_loading ends, whichever of the two threads moves first).
Settles == Loading ~> ~Loading
=============================================================================
