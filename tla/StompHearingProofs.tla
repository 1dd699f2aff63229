-------------------------- MODULE StompHearingProofs --------------------------
(***************************************************************************)
(* StompHearing's invariants for any number of clicks, other commands,      *)
(* refusals, losses and tones that vanish.  Which keys may still be said     *)
(* follows from the order they were asked for in (InOrder); with it what the *)
(* worker said last (SaidLast) is what it plays, a tone heard is on its way  *)
(* or said (HeardComes), and a tone not heard is about to end (Unheard).     *)
(***************************************************************************)
EXTENDS StompHearing, SequenceTheorems, TLAPS

\* What waits for the worker.
Asks(i) == queue[i].kind = "Audition"
Waits(key) == \E i \in 1..Len(queue) : Asks(i) /\ queue[i].key = key
Ending == \E i \in 1..Len(queue) : queue[i].kind \in {"EndAudition", "KeepAudition"}

\* What was said that the window has not gone through.
Tells(i) == events[i].kind = "Auditioning"
Coming(key) == \E i \in 1..Len(events) : told < i /\ events[i] = Plays(key)
Failing(key) == \E i \in 1..Len(events) : events[i] = Evt("AuditionFailed", key)
Past(key) == \A i \in 1..Len(events) : events[i].key < key

\* Keys are begun, and said, in the order they were asked for.
Bounded ==
    /\ begun <= asked /\ plays <= asked /\ auditioning <= asked
    /\ \A i \in 1..Len(events) : events[i].key <= asked
WaitsOrder ==
    /\ \A key \in Keys : Waits(key) =>
           key <= asked /\ begun < key /\ auditioning < key /\ Past(key)
    /\ \A i, j \in 1..Len(queue) :
           i < j /\ Asks(i) /\ Asks(j) => queue[i].key < queue[j].key
BegunOrder == begun # None => auditioning < begun /\ Past(begun)
SaidOrder ==
    \A i \in 1..Len(events) : told < i /\ Tells(i) /\ events[i].key # None =>
        /\ auditioning < events[i].key
        /\ \A j \in 1..Len(events) : i < j /\ Tells(j) /\ events[j].key # None =>
               events[i].key < events[j].key
FailedOrder == plays # None => \A key \in Keys : Failing(key) => key < plays

InOrder == Bounded /\ WaitsOrder /\ BegunOrder /\ SaidOrder /\ FailedOrder

\* What plays was said last, unless an audition was ended without a word.
LastSaid(key) ==
    \/ auditioning = key /\ \A i \in 1..Len(events) : told < i => ~Tells(i)
    \/ \E i \in 1..Len(events) :
           /\ told < i /\ events[i] = Plays(key)
           /\ \A j \in 1..Len(events) : i < j => ~Tells(j)
SaidLast ==
    /\ unsaid \/ ~device => plays = None
    /\ plays # None \/ ~unsaid => LastSaid(plays)

\* The tone heard is the one asked for last, and what becomes of it is still to be said.
Expected(key) ==
    Waits(key) \/ begun = key \/ Failing(key) \/ auditioning = key \/ Coming(key)
HeardComes ==
    heard # None => heard = asked /\ wanted = heard /\ withdrawn = None /\ Expected(heard)

\* With nothing heard no audition waiting is wanted, and what plays or is begun will be ended, or
\* is another one than that given up on last.
Unheard ==
    heard = None =>
        /\ ~Waits(wanted)
        /\ begun # None => Ending \/ withdrawn # None
        /\ plays # None /\ ~stuck =>
               \/ Ending \/ withdrawn \notin {None, plays}
               \/ withdrawn = plays /\ Coming(plays)

IInv == TypeOK /\ InOrder /\ SaidLast /\ HeardComes /\ Unheard

-----------------------------------------------------------------------------
(* What waits and what was said                                             *)

LEMMA CommandIs ==
    ASSUME queue \in Seq(Commands), NEW i \in 1..Len(queue)
    PROVE  /\ queue[i] \in Commands /\ queue[i].key \in Nat
           /\ Asks(i) => queue[i].key \in Keys
  <1>1. queue[i] \in Commands
    BY ElementOfSeq
  <1> QED BY <1>1, HearingAssumption DEF Commands, Keys, None, Asks

LEMMA EventIs ==
    ASSUME events \in Seq(Events), NEW i \in 1..Len(events)
    PROVE  /\ events[i] \in Events /\ events[i].key \in 0..MaxKeys /\ events[i].key \in Nat
           /\ events[i] = Evt(events[i].kind, events[i].key)
           /\ events[i].kind = "AuditionFailed" => events[i].key \in Keys
  <1>1. events[i] \in Events
    BY ElementOfSeq
  <1>2. /\ events[i].key \in 0..MaxKeys
        /\ events[i].kind = "AuditionFailed" => events[i].key \in Keys
    BY <1>1, HearingAssumption DEF Events, Keys, None
  <1>3. events[i] = Evt(events[i].kind, events[i].key)
    BY <1>1 DEF Events, Evt
  <1> QED BY <1>1, <1>2, <1>3

(* An event is what it is made of. *)
LEMMA EvtIs ==
    ASSUME NEW kind, NEW key
    PROVE  /\ Evt(kind, key).kind = kind /\ Evt(kind, key).key = key
           /\ Plays(key).kind = "Auditioning" /\ Plays(key).key = key
           /\ Plays(key) = Evt("Auditioning", key)
  BY DEF Evt, Plays

(* A command sent waits last. *)
LEMMA QueueGrows ==
    ASSUME queue \in Seq(Commands), NEW c \in Commands, queue' = Append(queue, c)
    PROVE  /\ queue' \in Seq(Commands) /\ Len(queue) \in Nat /\ Len(queue') = Len(queue) + 1
           /\ \A i \in 1..Len(queue) : queue'[i] = queue[i]
           /\ queue'[Len(queue) + 1] = c
  BY AppendProperties, LenProperties

(* One that asks for no audition. *)
LEMMA QueueOther ==
    ASSUME queue \in Seq(Commands), NEW c \in Commands, queue' = Append(queue, c),
           c.kind # "Audition"
    PROVE  /\ queue' \in Seq(Commands)
           /\ \A key : Waits(key)' <=> Waits(key)
           /\ Ending => Ending'
           /\ c.kind \in {"EndAudition", "KeepAudition"} => Ending'
           /\ \A i, j \in 1..Len(queue') : i < j /\ Asks(i)' /\ Asks(j)' =>
                  /\ i \in 1..Len(queue) /\ j \in 1..Len(queue) /\ Asks(i) /\ Asks(j)
                  /\ queue'[i] = queue[i] /\ queue'[j] = queue[j]
  <1>1. /\ queue' \in Seq(Commands) /\ Len(queue) \in Nat /\ Len(queue') = Len(queue) + 1
        /\ \A i \in 1..Len(queue) : queue'[i] = queue[i]
        /\ queue'[Len(queue) + 1] = c
    BY QueueGrows
  <1>2. \A i \in 1..Len(queue) : i \in 1..Len(queue') /\ queue'[i] = queue[i]
    BY <1>1
  <1>3. \A i \in 1..Len(queue') : i \in 1..Len(queue) \/ queue'[i] = c
    BY <1>1
  <1>4. \A i \in 1..Len(queue') : Asks(i)' => i \in 1..Len(queue) /\ Asks(i) /\ queue'[i] = queue[i]
    BY <1>2, <1>3 DEF Asks
  <1>5. \A i \in 1..Len(queue) : i \in 1..Len(queue') /\ (Asks(i)' <=> Asks(i))
    BY <1>2 DEF Asks
  <1>6. \A key : Waits(key)' <=> Waits(key)
    BY <1>2, <1>4, <1>5 DEF Waits
  <1>7. Ending => Ending'
    BY <1>2 DEF Ending
  <1>8. c.kind \in {"EndAudition", "KeepAudition"} => Ending'
    BY <1>1 DEF Ending
  <1> QED BY <1>1, <1>4, <1>6, <1>7, <1>8

(* A command taken was first. *)
LEMMA QueuePops ==
    ASSUME queue \in Seq(Commands), queue # <<>>, queue' = Tail(queue)
    PROVE  /\ queue' \in Seq(Commands) /\ 1 \in 1..Len(queue) /\ Head(queue) = queue[1]
           /\ \A i \in 1..Len(queue') : i + 1 \in 1..Len(queue) /\ queue'[i] = queue[i + 1]
           /\ \A i \in 1..Len(queue) :
                  i = 1 \/ (i - 1 \in 1..Len(queue') /\ queue[i] = queue'[i - 1])
           /\ \A i, j \in 1..Len(queue') : i < j /\ Asks(i)' /\ Asks(j)' =>
                  /\ i + 1 \in 1..Len(queue) /\ j + 1 \in 1..Len(queue) /\ i + 1 < j + 1
                  /\ Asks(i + 1) /\ Asks(j + 1)
                  /\ queue'[i] = queue[i + 1] /\ queue'[j] = queue[j + 1]
           /\ \A key : Waits(key)' => Waits(key)
           /\ \A key : Waits(key) => Waits(key)' \/ (Asks(1) /\ queue[1].key = key)
           /\ Ending => Ending' \/ Head(queue).kind \in {"EndAudition", "KeepAudition"}
  <1>1. /\ Len(queue) \in Nat /\ Len(queue) # 0 /\ Head(queue) = queue[1]
        /\ queue' \in Seq(Commands) /\ Len(queue') = Len(queue) - 1
        /\ \A i \in 1..Len(queue') : queue'[i] = queue[i + 1]
    BY HeadTailProperties, LenProperties, EmptySeq
  <1>2. \A i \in 1..Len(queue') : i + 1 \in 1..Len(queue) /\ queue'[i] = queue[i + 1]
    BY <1>1
  <1>3. \A i \in 1..Len(queue) : i = 1 \/ (i - 1 \in 1..Len(queue') /\ queue[i] = queue'[i - 1])
    BY <1>1
  <1>4. \A key : Waits(key)' => Waits(key)
    BY <1>2 DEF Waits, Asks
  <1>5. \A key : Waits(key) => Waits(key)' \/ (Asks(1) /\ queue[1].key = key)
    BY <1>3 DEF Waits, Asks
  <1>6. Ending => Ending' \/ queue[1].kind \in {"EndAudition", "KeepAudition"}
    BY <1>3 DEF Ending
  <1>7. \A i, j \in 1..Len(queue') : i < j /\ Asks(i)' /\ Asks(j)' =>
            /\ i + 1 \in 1..Len(queue) /\ j + 1 \in 1..Len(queue) /\ i + 1 < j + 1
            /\ Asks(i + 1) /\ Asks(j + 1)
            /\ queue'[i] = queue[i + 1] /\ queue'[j] = queue[j + 1]
    BY <1>1, <1>2 DEF Asks
  <1> QED BY <1>1, <1>2, <1>3, <1>4, <1>5, <1>6, <1>7

(* What is said comes last. *)
LEMMA EventsGrow ==
    ASSUME events \in Seq(Events), NEW t \in Seq(Events), events' = events \o t
    PROVE  /\ events' \in Seq(Events) /\ Len(events) \in Nat /\ Len(t) \in Nat
           /\ Len(events') = Len(events) + Len(t)
           /\ \A i \in 1..Len(events) : i \in 1..Len(events') /\ events'[i] = events[i]
           /\ \A i \in 1..Len(events') : i \in 1..Len(events)
                  \/ (i - Len(events) \in 1..Len(t) /\ events'[i] = t[i - Len(events)])
           /\ \A j \in 1..Len(t) : /\ Len(events) + j \in 1..Len(events')
                                   /\ events'[Len(events) + j] = t[j]
  <1>1. /\ events' \in Seq(Events) /\ Len(events) \in Nat /\ Len(t) \in Nat
        /\ Len(events') = Len(events) + Len(t)
    BY ConcatProperties, LenProperties
  <1>2. \A i \in 1..Len(events) + Len(t) :
            events'[i] = IF i <= Len(events) THEN events[i] ELSE t[i - Len(events)]
    BY ConcatProperties
  <1> QED BY <1>1, <1>2

(* What a frame has gone through is dropped. *)
LEMMA EventsDrop ==
    ASSUME events \in Seq(Events), batch \in 0..Len(events),
           events' = SubSeq(events, batch + 1, Len(events))
    PROVE  /\ events' \in Seq(Events) /\ Len(events') = Len(events) - batch /\ Len(events) \in Nat
           /\ \A i \in 1..Len(events') :
                  i + batch \in 1..Len(events) /\ events'[i] = events[i + batch]
           /\ \A i \in 1..Len(events) :
                  batch < i => i - batch \in 1..Len(events') /\ events'[i - batch] = events[i]
  <1>1. Len(events) \in Nat
    BY LenProperties
  <1>2. \A i \in (batch + 1)..Len(events) : events[i] \in Events
    BY <1>1, ElementOfSeq
  <1>3. /\ events' \in Seq(Events)
        /\ Len(events') = IF batch + 1 <= Len(events) THEN Len(events) - (batch + 1) + 1 ELSE 0
        /\ \A i \in 1..Len(events) - (batch + 1) + 1 : events'[i] = events[batch + 1 + i - 1]
    BY <1>1, <1>2, SubSeqProperties
  <1>4. Len(events') = Len(events) - batch
    BY <1>1, <1>3
  <1> QED BY <1>1, <1>3, <1>4

-----------------------------------------------------------------------------
(* What the steps do                                                        *)

\* What waits is as it was, but for a command that asks for no audition.
SendsOther ==
    \/ queue' = queue
    \/ \E c \in Commands : c.kind # "Audition" /\ queue' = Append(queue, c)

LEMMA SendsOtherIs ==
    ASSUME TypeOK, SendsOther
    PROVE  /\ queue' \in Seq(Commands)
           /\ \A key : Waits(key)' <=> Waits(key)
           /\ Ending => Ending'
           /\ \A i, j \in 1..Len(queue') : i < j /\ Asks(i)' /\ Asks(j)' =>
                  /\ i \in 1..Len(queue) /\ j \in 1..Len(queue) /\ Asks(i) /\ Asks(j)
                  /\ queue'[i] = queue[i] /\ queue'[j] = queue[j]
  <1>1. queue \in Seq(Commands)
    BY DEF TypeOK
  <1>2. CASE queue' = queue
    BY <1>1, <1>2 DEF Waits, Asks, Ending
  <1>3. CASE \E c \in Commands : c.kind # "Audition" /\ queue' = Append(queue, c)
    <2> PICK c \in Commands : c.kind # "Audition" /\ queue' = Append(queue, c)
      BY <1>3
    <2> QED BY <1>1, QueueOther
  <1> QED BY <1>2, <1>3 DEF SendsOther

LEMMA CmdIs ==
    ASSUME NEW kind \in {"EndAudition", "KeepAudition", "SelectPreset", "SavePreset", "Connect",
                         "Disconnect"}
    PROVE  Cmd(kind) \in Commands /\ Cmd(kind).kind = kind /\ Cmd(kind).kind # "Audition"
  BY DEF Cmd, Commands

\* The window's record as it is: nothing but the queue was touched.
Rests == UNCHANGED <<worker, online, asked, others, troubles, ghosts>>

\* The tone heard is given up on.
GivesUp ==
    /\ heard # None /\ heard # auditioning
    /\ heard' = None /\ withdrawn' = heard /\ auditioning' = auditioning
    /\ wanted' \in {None, wanted} /\ (wanted = heard => wanted' = None)

LEMMA WithdrawsIs ==
    ASSUME heard # None, heard # auditioning, Becomes(Withdraws(Here))
    PROVE  GivesUp /\ SendsOther /\ Rests
  <1>1. Cmd("EndAudition") \in Commands /\ Cmd("EndAudition").kind # "Audition"
    BY CmdIs
  <1>2. Rests
    BY DEF Becomes, Rests
  <1>3. GivesUp
    BY DEF Becomes, Withdraws, Here, Forget, End, GivesUp
  <1>4. SendsOther
    BY <1>1 DEF Becomes, SendsOther
  <1> QED BY <1>2, <1>3, <1>4

\* The step that goes through event i.
Goes(i) ==
    /\ i \in 1..Len(events) /\ told < i /\ i <= batch /\ Tells(i)
    /\ \A j \in 1..Len(events) : told < j /\ j < i => ~Tells(j)
    /\ told' = i /\ batch' = batch /\ events' = events /\ vanished' = vanished
    /\ auditioning' = events[i].key

\* It is the tone given up on: put back.
Returns(key) ==
    /\ key # None /\ key = withdrawn /\ heard = None
    /\ heard' = None /\ wanted' = None /\ withdrawn' = None
    /\ queue' = Append(queue, Cmd("EndAudition"))

\* It is not, and what is heard may be over.
Follows(key) ==
    /\ ~(key # None /\ key = withdrawn /\ heard = None)
    /\ wanted' = wanted /\ withdrawn' = withdrawn /\ queue' = queue
    /\ heard' = IF key = None /\ (heard = None \/ heard = auditioning) THEN None ELSE heard

LEMMA AuditionEventIs ==
    ASSUME NEW key, Becomes(AuditionEvent(Here, key))
    PROVE  /\ auditioning' = key /\ Rests /\ (aside' = aside \/ aside' = FALSE)
           /\ Returns(key) \/ Follows(key)
  <1> DEFINE now == [Here EXCEPT !.auditioning = key]
             returned == End([now EXCEPT !.withdrawn = None])
             over == key = None /\ (heard = None \/ heard = auditioning)
  <1>1. Rests
    BY DEF Becomes, Rests
  <1>2. CASE key # None /\ key = withdrawn /\ heard = None
    <2>1. AuditionEvent(Here, key) = returned
      BY <1>2 DEF AuditionEvent, Here
    <2>2. /\ returned.wanted = None /\ returned.heard = heard /\ returned.withdrawn = None
          /\ returned.auditioning = key /\ returned.ends = TRUE /\ returned.aside = aside
      BY DEF Here, End
    <2> HIDE DEF returned
    <2> QED BY <1>1, <1>2, <2>1, <2>2 DEF Becomes, Returns
  <1>3. CASE ~(key # None /\ key = withdrawn /\ heard = None) /\ over
    <2>1. AuditionEvent(Here, key) = Forget(now)
      BY <1>3 DEF AuditionEvent, Here
    <2>2. /\ Forget(now).wanted = wanted /\ Forget(now).heard = None
          /\ Forget(now).withdrawn = withdrawn /\ Forget(now).aside = FALSE
          /\ Forget(now).auditioning = key /\ Forget(now).ends = FALSE
      BY DEF Here, Forget
    <2> HIDE DEF now
    <2> QED BY <1>1, <1>3, <2>1, <2>2 DEF Becomes, Follows
  <1>4. CASE ~(key # None /\ key = withdrawn /\ heard = None) /\ ~over
    <2>1. AuditionEvent(Here, key) = now
      BY <1>4 DEF AuditionEvent, Here
    <2>2. /\ now.wanted = wanted /\ now.heard = heard /\ now.withdrawn = withdrawn
          /\ now.auditioning = key /\ now.ends = FALSE /\ now.aside = aside
      BY DEF Here
    <2> HIDE DEF now
    <2> QED BY <1>1, <1>4, <2>1, <2>2 DEF Becomes, Follows
  <1> QED BY <1>2, <1>3, <1>4

LEMMA HearIs ==
    ASSUME TypeOK, Hear
    PROVE  /\ Rests /\ SendsOther /\ (aside' = aside \/ aside' = FALSE)
           /\ \E i \in 1..Len(events) :
                  Goes(i) /\ (Returns(events[i].key) \/ Follows(events[i].key))
  <1>1. PICK i \in (told + 1)..batch :
           /\ events[i].kind = "Auditioning"
           /\ \A j \in (told + 1)..(i - 1) : events[j].kind # "Auditioning"
           /\ Becomes(AuditionEvent(Here, events[i].key)) /\ told' = i
    BY DEF Hear
  <1>2. /\ auditioning' = events[i].key /\ Rests /\ (aside' = aside \/ aside' = FALSE)
        /\ Returns(events[i].key) \/ Follows(events[i].key)
    BY <1>1, AuditionEventIs
  <1>3. /\ i \in 1..Len(events) /\ told < i /\ i <= batch
        /\ \A j \in 1..Len(events) : told < j /\ j < i => j \in (told + 1)..(i - 1)
    BY LenProperties DEF TypeOK
  <1>4. Goes(i)
    BY <1>1, <1>2, <1>3 DEF Goes, Tells, Hear
  <1>5. SendsOther
    BY <1>2, CmdIs DEF SendsOther, Returns, Follows
  <1> QED BY <1>2, <1>3, <1>4, <1>5

\* What a frame has gone through is dropped.
Drops ==
    /\ events' = SubSeq(events, batch + 1, Len(events)) /\ batch' = 0 /\ told' = 0
    /\ \A j \in 1..Len(events) : told < j /\ Tells(j) => batch < j
    /\ vanished' = vanished

LEMMA SettleIs ==
    ASSUME TypeOK, Settle
    PROVE  /\ Rests /\ SendsOther /\ Drops /\ auditioning' = auditioning
           /\ aside' \in BOOLEAN
           /\ \/ GivesUp
              \/ /\ heard # None /\ heard' = None /\ Failing(heard)
                 /\ wanted' = wanted /\ withdrawn' = withdrawn
              \/ /\ wanted' = wanted /\ withdrawn' = withdrawn /\ heard' = heard
                 /\ heard # None => \A i \in 1..batch : events[i] # Evt("AuditionFailed", heard)
  <1> DEFINE failed == \E i \in 1..batch : events[i] = Evt("AuditionFailed", heard)
             after == IF failed THEN AuditionFailed(Here, heard) ELSE Here
  <1>1. Becomes(Settled(after))
    BY DEF Settle
  <1>2. batch \in 0..Len(events) /\ told \in 0..batch /\ Len(events) \in Nat
    BY LenProperties DEF TypeOK
  <1>3. \A j \in 1..Len(events) : told < j /\ j <= batch => j \in (told + 1)..batch
    BY <1>2
  <1>4. \A j \in 1..Len(events) : told < j /\ Tells(j) => batch < j
    BY <1>2, <1>3 DEF Settle, Tells
  <1>5. Drops
    BY <1>4 DEF Settle, Drops
  <1>6. failed => Failing(heard)
    BY <1>2, EventIs DEF Failing, Evt, TypeOK
  <1>7. Rests
    BY <1>1 DEF Becomes, Rests
  <1>8. CASE failed /\ heard # None
    <2> DEFINE forgotten == [Here EXCEPT !.heard = None, !.aside = @ /\ auditioning # None]
    <2>1. AuditionFailed(Here, heard) = forgotten
      BY DEF AuditionFailed, Here
    <2>2. /\ forgotten.wanted = wanted /\ forgotten.heard = None
          /\ forgotten.withdrawn = withdrawn /\ forgotten.aside = (aside /\ auditioning # None)
          /\ forgotten.auditioning = auditioning /\ forgotten.ends = FALSE
      BY DEF Here
    <2> HIDE DEF forgotten
    <2>3. Settled(after) = forgotten
      BY <1>8, <2>1, <2>2 DEF Settled
    <2>4. aside' \in BOOLEAN
      BY <1>1, <2>2, <2>3 DEF Becomes, TypeOK
    <2> QED BY <1>1, <1>5, <1>6, <1>7, <1>8, <2>2, <2>3, <2>4 DEF Becomes, SendsOther
  <1>9. CASE ~failed \/ heard = None
    <2>1. /\ Here.heard = heard /\ Here.auditioning = auditioning
          /\ Here.wanted = wanted /\ Here.withdrawn = withdrawn /\ Here.ends = FALSE
          /\ Here.aside = aside
      BY DEF Here
    <2>2. failed => heard \in Keys
      <3>1. \A i \in 1..batch : i \in 1..Len(events)
        BY <1>2
      <3>2. events \in Seq(Events) /\ Evt("AuditionFailed", heard).kind = "AuditionFailed"
            /\ Evt("AuditionFailed", heard).key = heard
        BY EvtIs DEF TypeOK
      <3>3. \A i \in 1..Len(events) :
                events[i].kind = "AuditionFailed" => events[i].key \in Keys
        BY <3>2, EventIs
      <3> QED BY <3>1, <3>2, <3>3
    <2>3. ~failed
      BY <1>9, <2>2 DEF Keys, None
    <2>4. after = Here
      BY <2>3
    <2>5. CASE heard # None /\ heard # auditioning /\ ~online
      <3>1. Becomes(Withdraws(Here))
        BY <1>1, <2>1, <2>4, <2>5 DEF Settled
      <3>2. GivesUp /\ SendsOther
        BY <2>5, <3>1, WithdrawsIs
      <3>3. aside' = FALSE
        BY <3>1 DEF Becomes, Withdraws, Forget, Here, End
      <3> QED BY <1>5, <1>7, <3>2, <3>3 DEF GivesUp
    <2>6. CASE ~(heard # None /\ heard # auditioning /\ ~online)
      <3>1. Becomes(Here)
        BY <1>1, <2>1, <2>4, <2>6 DEF Settled
      <3>2. aside' \in BOOLEAN
        BY <2>1, <3>1 DEF Becomes, TypeOK
      <3> QED BY <1>5, <1>7, <2>1, <2>3, <3>1, <3>2 DEF Becomes, SendsOther
    <2> QED BY <2>5, <2>6
  <1> QED BY <1>8, <1>9

-----------------------------------------------------------------------------
(* What the worker's commands say                                           *)

Others ==
    EndAudition \/ KeepAudition \/ SelectPreset \/ SavePreset \/ Disconnect \/ Connect

\* What is said of the session.
Session == {<<>>, <<Evt("Connected", None)>>, <<Evt("Disconnected", None)>>}

\* Nothing plays, and that is said.
EndsAloud ==
    /\ plays' = None /\ stuck' = FALSE /\ unsaid' = FALSE
    /\ \E t \in Session : events' = events \o (<<Plays(None)>> \o t)

\* Nothing plays, and that is not said.
EndsSilently ==
    /\ plays' = None /\ stuck' = FALSE /\ unsaid' = (unsaid \/ plays # None)
    /\ \E t \in Session : events' = events \o t

\* What plays stays, and has been refused to end if that was asked for.
EndsNothing ==
    /\ plays' = plays /\ events' = events /\ unsaid' = unsaid /\ device' = device
    /\ \/ stuck' = (plays # None)
       \/ stuck' = stuck /\ (~device \/ Head(queue).kind \notin {"EndAudition", "KeepAudition"})

(* Sequences of two, however they are written. *)
LEMMA TwoSaid ==
    ASSUME NEW S, NEW a \in S, NEW b \in S
    PROVE  <<a>> \o <<b>> = <<a, b>> /\ Append(<<a>>, b) = <<a, b>> /\ Append(<<>>, b) = <<b>>
  <1> DEFINE s == <<a>> \o <<b>>
             t == <<a, b>>
             r == <<a>>
             q == <<b>>
  <1>1. /\ r \in Seq(S) /\ q \in Seq(S) /\ t \in Seq(S)
        /\ Len(r) = 1 /\ Len(q) = 1 /\ Len(t) = 2
    OBVIOUS
  <1>2. s \in Seq(S) /\ Len(s) = 2 /\ s[1] = a /\ s[2] = b
    BY <1>1, ConcatProperties
  <1>3. t[1] = a /\ t[2] = b
    OBVIOUS
  <1>4. \A i \in 1..2 : s[i] = t[i]
    BY <1>2, <1>3
  <1> HIDE DEF s, t
  <1>5. s = t
    BY <1>1, <1>2, <1>4, SeqEqual
  <1> HIDE DEF r
  <1>6. Append(r, b) = r \o <<b>>
    BY <1>1, AppendIsConcat, Zenon
  <1>7. <<a>> \o <<b>> = <<a, b>>
    BY <1>5 DEF s, t
  <1>8. Append(<<a>>, b) = <<a>> \o <<b>>
    BY <1>6 DEF r
  <1>9. Append(<<>>, b) = <<b>>
    OBVIOUS
  <1> QED BY <1>7, <1>8, <1>9

LEMMA OthersAre ==
    ASSUME TypeOK, Others
    PROVE  /\ begun = None /\ begun' = None /\ queue # <<>> /\ queue' = Tail(queue)
           /\ Head(queue).kind # "Audition"
           /\ UNCHANGED <<frame, wanted, window, asked, others, vanished>>
           /\ device' \in BOOLEAN /\ troubles' \in 0..MaxTroubles
           /\ EndsAloud \/ EndsSilently \/ EndsNothing
  <1>1. /\ begun = None /\ begun' = None /\ queue # <<>> /\ queue' = Tail(queue)
        /\ Head(queue).kind # "Audition"
        /\ UNCHANGED <<frame, wanted, window, asked, others, vanished>>
    BY DEF Others, EndAudition, KeepAudition, SelectPreset, SavePreset, Disconnect, Connect, Handles
  <1>2. device' \in BOOLEAN
    BY DEF TypeOK, Others, EndAudition, KeepAudition, SelectPreset, SavePreset, Disconnect,
           Connect, Fine, Refused, Lost
  <1>3. troubles' \in 0..MaxTroubles
    BY HearingAssumption DEF TypeOK, Others, EndAudition, KeepAudition, SelectPreset, SavePreset,
           Disconnect, Connect, Fine, Refused, Lost, Trouble
  <1> DEFINE lost == Evt("Disconnected", None)
             opened == Evt("Connected", None)
             over == Plays(None)
  <1>4. <<>> \in Session /\ <<opened>> \in Session /\ <<lost>> \in Session
    BY DEF Session
  <1>5. events \in Seq(Events) /\ over \in Events /\ lost \in Events
    BY DEF Plays, Evt, Events, TypeOK
  <1> HIDE DEF lost, over, opened
  <1>6. /\ <<over>> \o <<>> = <<over>>
        /\ events \o <<>> = events
    BY <1>5, ConcatEmptySeq
  <1>7. /\ <<over>> \o <<lost>> = <<over, lost>>
        /\ Append(<<over>>, lost) = <<over, lost>>
        /\ Append(<<>>, lost) = <<lost>>
    BY <1>5, TwoSaid
  <1>8. Aloud /\ Says(<<over>>) => EndsAloud
    BY <1>4, <1>6, Zenon DEF Aloud, Says, EndsAloud, over
  <1>9. Aloud /\ Says(<<over, lost>>) => EndsAloud
    BY <1>4, <1>7, Zenon DEF Aloud, Says, EndsAloud, over
  <1>10. Silently /\ Says(<<lost>>) => EndsSilently
    BY <1>4, Zenon DEF Silently, Says, EndsSilently
  <1>11. Silently /\ Says(<<opened>>) => EndsSilently
    BY <1>4, Zenon DEF Silently, Says, EndsSilently
  <1>12. Silently /\ events' = events => EndsSilently
    BY <1>4, <1>6, Zenon DEF Silently, EndsSilently
  <1>13. Stays /\ device' = device => EndsNothing
    BY Zenon DEF Stays, EndsNothing
  <1>14. /\ device' = device /\ plays' = plays /\ events' = events
         /\ unsaid' = unsaid /\ stuck' = stuck
         /\ ~device \/ Head(queue).kind = "Connect"
         => EndsNothing
    BY Zenon DEF EndsNothing
  <1>15. EndAudition => EndsAloud \/ EndsSilently \/ EndsNothing
    BY <1>8, <1>10, <1>12, <1>13, <1>14, Zenon
       DEF EndAudition, Fine, Refused, Lost, ghosts, lost, over
  <1>16. KeepAudition => EndsAloud \/ EndsSilently \/ EndsNothing
    BY <1>8, <1>10, <1>13, Zenon DEF KeepAudition, Fine, Refused, Lost, lost, over
  <1>17. SelectPreset => EndsAloud \/ EndsSilently \/ EndsNothing
    BY <1>8, <1>9, <1>10, <1>13, Zenon
       DEF SelectPreset, Fine, Refused, Lost, lost, over
  <1>18. SavePreset => EndsAloud \/ EndsSilently \/ EndsNothing
    <2> SUFFICES ASSUME SavePreset PROVE EndsAloud \/ EndsSilently \/ EndsNothing
      OBVIOUS
    <2>1. CASE plays = None
      <3>1. plays' = None /\ stuck' = FALSE /\ unsaid' = (unsaid /\ plays = None) => Silently
        BY <2>1, Zenon DEF Silently, TypeOK
      <3> QED
        BY <1>6, <1>7, <1>10, <1>12, <1>13, <1>14, <2>1, <3>1, Zenon
           DEF SavePreset, Fine, Refused, Lost, Says, ghosts, lost
    <2>2. CASE plays # None
      <3>1. plays' = None /\ stuck' = FALSE /\ unsaid' = (unsaid /\ plays = None) => Aloud
        BY <2>2, Zenon DEF Aloud
      <3> QED
        BY <1>7, <1>8, <1>9, <1>10, <1>13, <1>14, <2>2, <3>1, Zenon
           DEF SavePreset, Fine, Refused, Lost, ghosts, lost, over
    <2> QED BY <2>1, <2>2
  <1>19. Disconnect => EndsAloud \/ EndsSilently \/ EndsNothing
    BY <1>10, <1>13, Zenon DEF Disconnect, Refused, lost
  <1>20. Connect => EndsAloud \/ EndsSilently \/ EndsNothing
    BY <1>11, <1>14, Zenon DEF Connect, Handles, ghosts, opened
  <1>21. EndsAloud \/ EndsSilently \/ EndsNothing
    BY <1>15, <1>16, <1>17, <1>18, <1>19, <1>20 DEF Others
  <1> QED BY <1>1, <1>2, <1>3, <1>21

-----------------------------------------------------------------------------
(* What a step does to what waits and to what was said                      *)

Hands ==
    \/ PutBack \/ KeepHeard \/ AskConnect
    \/ \E kind \in {"SelectPreset", "SavePreset", "Disconnect"} : Ask(kind)

\* The window's steps between two frames that ask for no tone.
LEMMA HandsAre ==
    ASSUME TypeOK, Hands
    PROVE  /\ SendsOther
           /\ UNCHANGED <<events, frame, worker, online, withdrawn, auditioning, asked, troubles,
                          vanished, ghosts>>
           /\ others' \in 0..MaxOther /\ aside' \in BOOLEAN
           /\ \/ /\ heard' = None /\ Ending'
                 /\ wanted' = None \/ (heard # None /\ heard = auditioning /\ wanted' = wanted)
              \/ heard' = heard /\ wanted' = wanted
  <1>1. queue \in Seq(Commands)
    BY DEF TypeOK
  <1>2. CASE PutBack
    <2>1. /\ queue' = Append(queue, Cmd("EndAudition"))
          /\ Cmd("EndAudition") \in Commands /\ Cmd("EndAudition").kind = "EndAudition"
      BY <1>2, CmdIs DEF PutBack, Sends
    <2>2. SendsOther /\ Ending'
      BY <1>1, <2>1, QueueOther DEF SendsOther
    <2>3. others' \in 0..MaxOther
      BY <1>2, HearingAssumption DEF PutBack, Sends, TypeOK
    <2>4. aside' \in BOOLEAN
      BY <1>2 DEF PutBack
    <2> QED BY <1>2, <2>2, <2>3, <2>4, Zenon DEF PutBack, Sends
  <1>3. CASE KeepHeard
    <2>1. /\ queue' = Append(queue, Cmd("KeepAudition"))
          /\ Cmd("KeepAudition") \in Commands /\ Cmd("KeepAudition").kind = "KeepAudition"
      BY <1>3, CmdIs DEF KeepHeard, Sends
    <2>2. SendsOther /\ Ending'
      BY <1>1, <2>1, QueueOther DEF SendsOther
    <2>3. others' \in 0..MaxOther
      BY <1>3, HearingAssumption DEF KeepHeard, Sends, TypeOK
    <2>4. aside' \in BOOLEAN
      BY <1>3 DEF KeepHeard
    <2> QED BY <1>3, <2>2, <2>3, <2>4, Zenon DEF KeepHeard, Sends
  <1>4. CASE AskConnect
    <2>1. SendsOther
      BY <1>4, CmdIs DEF AskConnect, SendsOther
    <2> QED BY <1>4, <2>1 DEF AskConnect, window, bounds, TypeOK
  <1>5. ASSUME NEW kind \in {"SelectPreset", "SavePreset", "Disconnect"}, Ask(kind)
        PROVE  /\ SendsOther
               /\ UNCHANGED <<events, frame, worker, online, withdrawn, auditioning, asked,
                              troubles, vanished, ghosts>>
               /\ others' \in 0..MaxOther /\ aside' \in BOOLEAN
               /\ heard' = heard /\ wanted' = wanted
    <2>1. SendsOther
      BY <1>5, CmdIs DEF Ask, Sends, SendsOther
    <2> QED BY <1>5, <2>1, HearingAssumption DEF Ask, Sends, TypeOK
  <1> QED BY <1>2, <1>3, <1>4, <1>5 DEF Hands

(* The step of an invariant: what each disjunct of Next does. *)
LEMMA Steps ==
    ASSUME [Next]_vars
    PROVE  Click \/ Hands \/ Vanish \/ Draw \/ Hear \/ Settle
               \/ PassOver \/ Begin \/ Finish \/ Others \/ UNCHANGED vars
  BY DEF Next, Hands, Frame, Work, Others

\* What a finished audition says.
Played == <<Plays(begun)>>
Failure == <<Evt("AuditionFailed", begun), Plays(None)>>

LEMMA FinishIs ==
    ASSUME TypeOK, Finish
    PROVE  /\ begun \in Keys /\ begun' = None /\ device' \in BOOLEAN /\ troubles' \in 0..MaxTroubles
           /\ UNCHANGED <<queue, frame, wanted, window, asked, others, vanished>>
           /\ stuck' = FALSE /\ unsaid' = FALSE
           /\ \/ plays' = begun /\ device /\ device' = device /\ events' = events \o Played
              \/ plays' = None /\ \E t \in Session : events' = events \o (Failure \o t)
  <1>1. begun \in Keys
    BY HearingAssumption DEF TypeOK, Keys, None, Finish
  <1> DEFINE lost == Evt("Disconnected", None)
             fails == Evt("AuditionFailed", begun)
             over == Plays(None)
  <1>2. fails \in Events /\ over \in Events /\ lost \in Events
    BY <1>1 DEF Plays, Evt, Events
  <1>3. <<>> \in Session /\ <<lost>> \in Session
    BY DEF Session
  <1> HIDE DEF lost, fails, over
  <1>4. <<fails, over>> \in Seq(Events)
    BY <1>2
  <1>5. <<fails, over>> \o <<>> = <<fails, over>>
    BY <1>4, ConcatEmptySeq
  <1>6. Append(<<fails, over>>, lost) = <<fails, over>> \o <<lost>>
    <2> DEFINE s == <<fails, over>>
    <2> HIDE DEF s
    <2>1. s \in Seq(Events)
      BY <1>4 DEF s
    <2>2. Append(s, lost) = s \o <<lost>>
      BY <1>2, <2>1, AppendIsConcat, Zenon
    <2> QED BY <2>2 DEF s
  <1> DEFINE Fails == plays' = None /\ \E t \in Session : events' = events \o (Failure \o t)
  <1>7. Aloud /\ Says(<<fails, over>>) => stuck' = FALSE /\ unsaid' = FALSE /\ Fails
    BY <1>3, <1>5, Zenon DEF Aloud, Says, Failure, fails, over
  <1>8. Aloud /\ Says(<<fails, over>> \o <<lost>>) => stuck' = FALSE /\ unsaid' = FALSE /\ Fails
    BY <1>3, Zenon DEF Aloud, Says, Failure, fails, over
  <1>9. /\ device /\ device' = device /\ plays' = begun /\ Says(<<Plays(begun)>>)
        => plays' = begun /\ device /\ device' = device /\ events' = events \o Played
    BY Zenon DEF Says, Played
  <1> HIDE DEF Fails
  <1>10. stuck' = FALSE /\ unsaid' = FALSE
    BY <1>6, <1>7, <1>8, Zenon DEF Finish, fails, over, lost
  <1>11. (plays' = begun /\ device /\ device' = device /\ events' = events \o Played) \/ Fails
    BY <1>6, <1>7, <1>8, <1>9, Zenon DEF Finish, Fine, fails, over, lost
  <1>12. device' \in BOOLEAN
    BY Zenon DEF Finish, Fine, Refused, Lost, TypeOK
  <1>13. troubles' \in 0..MaxTroubles
    BY HearingAssumption DEF Finish, Fine, Refused, Lost, Trouble, TypeOK
  <1> QED BY <1>1, <1>10, <1>11, <1>12, <1>13 DEF Finish, Fails

LEMMA SessionIs ==
    ASSUME NEW t \in Session
    PROVE  /\ t \in Seq(Events) /\ (<<Plays(None)>> \o t) \in Seq(Events)
           /\ Len(t) \in Nat /\ Len(<<Plays(None)>> \o t) = Len(t) + 1
           /\ \A i \in 1..Len(t) : t[i].key = None /\ t[i].kind \in {"Connected", "Disconnected"}
           /\ (<<Plays(None)>> \o t)[1] = Plays(None)
           /\ \A i \in 1..Len(<<Plays(None)>> \o t) : 1 < i =>
                  /\ (<<Plays(None)>> \o t)[i].key = None
                  /\ (<<Plays(None)>> \o t)[i].kind \in {"Connected", "Disconnected"}
  <1> DEFINE over == <<Plays(None)>>
  <1>1. t \in Seq(Events) /\ over \in Seq(Events) /\ Len(over) = 1 /\ over[1] = Plays(None)
    <2>1. Plays(None) \in Events /\ Evt("Connected", None) \in Events
          /\ Evt("Disconnected", None) \in Events
      BY DEF Evt, Plays, Events
    <2>2. over \in Seq(Events) /\ Len(over) = 1 /\ over[1] = Plays(None)
      BY <2>1
    <2>3. \A e \in Events : <<e>> \in Seq(Events)
      OBVIOUS
    <2>4. <<>> \in Seq(Events)
      OBVIOUS
    <2>5. t \in Seq(Events)
      BY <2>1, <2>3, <2>4, Zenon DEF Session
    <2> QED BY <2>2, <2>5
  <1>2. \A i \in 1..Len(t) : t[i].key = None /\ t[i].kind \in {"Connected", "Disconnected"}
    BY DEF Session, Evt
  <1> HIDE DEF over
  <1>3. /\ over \o t \in Seq(Events) /\ Len(over \o t) = Len(t) + 1 /\ Len(t) \in Nat
        /\ (over \o t)[1] = Plays(None)
        /\ \A i \in 1..Len(over \o t) : 1 < i => i - 1 \in 1..Len(t) /\ (over \o t)[i] = t[i - 1]
    BY <1>1, ConcatProperties, LenProperties
  <1> QED BY <1>1, <1>2, <1>3 DEF over

\* Two are said before, of the audition that failed.
LEMMA FailureIs ==
    ASSUME NEW t \in Session, begun \in Keys
    PROVE  /\ (Failure \o t) \in Seq(Events) /\ Len(t) \in Nat /\ Len(Failure \o t) = Len(t) + 2
           /\ (Failure \o t)[1] = Evt("AuditionFailed", begun)
           /\ (Failure \o t)[2] = Plays(None)
           /\ \A i \in 1..Len(Failure \o t) : 2 < i =>
                  /\ (Failure \o t)[i].key = None
                  /\ (Failure \o t)[i].kind \in {"Connected", "Disconnected"}
  <1> DEFINE f == Failure
  <1>1. /\ f \in Seq(Events) /\ Len(f) = 2
        /\ f[1] = Evt("AuditionFailed", begun) /\ f[2] = Plays(None)
    BY DEF Failure, Evt, Plays, Events
  <1> HIDE DEF f
  <1>2. /\ t \in Seq(Events)
        /\ \A i \in 1..Len(t) : t[i].key = None /\ t[i].kind \in {"Connected", "Disconnected"}
    BY SessionIs
  <1>3. /\ f \o t \in Seq(Events) /\ Len(f \o t) = Len(t) + 2 /\ Len(t) \in Nat
        /\ (f \o t)[1] = f[1] /\ (f \o t)[2] = f[2]
        /\ \A i \in 1..Len(f \o t) :
               2 < i => i - 2 \in 1..Len(t) /\ (f \o t)[i] = t[i - 2]
    <2>1. Len(t) \in Nat
      BY <1>2, LenProperties
    <2>2. f \in Seq(Events) /\ t \in Seq(Events)
      BY <1>1, <1>2
    <2>3. /\ f \o t \in Seq(Events) /\ Len(f \o t) = Len(f) + Len(t)
          /\ \A i \in 1..Len(f) + Len(t) :
                 (f \o t)[i] = IF i <= Len(f) THEN f[i] ELSE t[i - Len(f)]
      BY <2>2, ConcatProperties
    <2> QED BY <1>1, <2>1, <2>3
  <1> QED BY <1>1, <1>2, <1>3 DEF f

-----------------------------------------------------------------------------
(* Types                                                                    *)

Flags ==
    /\ device \in BOOLEAN /\ online \in BOOLEAN /\ aside \in BOOLEAN /\ unsaid \in BOOLEAN
    /\ stuck \in BOOLEAN
Lines ==
    /\ queue \in Seq(Commands) /\ events \in Seq(Events)
    /\ batch \in 0..Len(events) /\ told \in 0..batch
Numbers ==
    /\ wanted \in 0..MaxKeys /\ plays \in 0..MaxKeys /\ begun \in 0..MaxKeys
    /\ heard \in 0..MaxKeys /\ withdrawn \in 0..MaxKeys /\ auditioning \in 0..MaxKeys
    /\ asked \in 0..MaxKeys /\ others \in 0..MaxOther
    /\ troubles \in 0..MaxTroubles /\ vanished \in 0..MaxVanish

LEMMA TypeKept ==
    ASSUME TypeOK, [Next]_vars
    PROVE  TypeOK'
  <1> SUFFICES Flags' /\ Lines' /\ Numbers'
    BY Zenon DEF TypeOK, Flags, Lines, Numbers
  <1> USE DEF frame, worker, window, bounds, ghosts
  <1>1. /\ queue \in Seq(Commands) /\ events \in Seq(Events) /\ Len(events) \in Nat
        /\ Flags /\ Lines /\ Numbers
    BY LenProperties DEF TypeOK, Flags, Lines, Numbers
  <1>2. CASE Click
    <2>1. asked' \in 1..MaxKeys /\ asked' \in Keys
      BY <1>2, HearingAssumption DEF Click, TypeOK, Keys
    <2>2. queue' \in Seq(Commands)
      BY <1>1, <1>2, <2>1, AppendProperties DEF Click, Commands
    <2>3. Flags'
      BY <1>1, <1>2 DEF Click, Flags
    <2>4. Lines' /\ Numbers'
      BY <1>1, <1>2, <2>1, <2>2, HearingAssumption DEF Click, Wants, Lines, Numbers, None
    <2> QED BY <2>3, <2>4
  <1>3. CASE Hands
    <2>1. /\ queue' \in Seq(Commands)
          /\ UNCHANGED <<events, frame, worker, online, withdrawn, auditioning, asked, troubles,
                         vanished, ghosts>>
          /\ others' \in 0..MaxOther /\ aside' \in BOOLEAN
          /\ heard' \in {heard, None} /\ wanted' \in {wanted, None}
      BY <1>3, HandsAre, SendsOtherIs
    <2>7. Flags'
      BY <1>1, <2>1 DEF Flags
    <2>8. Lines' /\ Numbers'
      BY <1>1, <2>1, HearingAssumption DEF Lines, Numbers, None
    <2> QED BY <2>7, <2>8
  <1>4. CASE Vanish
    <2>1. GivesUp /\ SendsOther /\ Rests /\ aside' = FALSE
      BY <1>4, WithdrawsIs DEF Vanish, Loading, Becomes, Withdraws, Forget
    <2>2. queue' \in Seq(Commands)
      BY <2>1, SendsOtherIs
    <2>3. vanished' \in 0..MaxVanish /\ events' = events /\ batch' = batch /\ told' = told
      BY <1>4, HearingAssumption DEF Vanish, frame, TypeOK
    <2>7. Flags'
      BY <1>1, <2>1, <2>2, <2>3 DEF Flags, Rests
    <2>8. Lines' /\ Numbers'
      BY <1>1, <2>1, <2>2, <2>3, HearingAssumption DEF Lines, Numbers, GivesUp, Rests, None
    <2> QED BY <2>7, <2>8
  <1>5. CASE Draw
    <2>1. batch' \in 0..Len(events) /\ told' \in 0..batch'
      BY <1>1, <1>5 DEF Draw, TypeOK
    <2>2. online' \in BOOLEAN
      BY <1>5 DEF Draw
    <2>7. Flags'
      BY <1>1, <1>5, <2>1, <2>2 DEF Flags, Draw
    <2>8. Lines' /\ Numbers'
      BY <1>1, <1>5, <2>1, <2>2, HearingAssumption DEF Lines, Numbers, Draw
    <2> QED BY <2>7, <2>8
  <1>6. CASE Hear
    <2>1. Rests /\ SendsOther /\ (aside' = aside \/ aside' = FALSE)
      BY <1>6, HearIs
    <2>2. PICK i \in 1..Len(events) :
              Goes(i) /\ (Returns(events[i].key) \/ Follows(events[i].key))
      BY <1>6, HearIs
    <2>3. queue' \in Seq(Commands)
      BY <2>1, SendsOtherIs
    <2>4. /\ auditioning' \in 0..MaxKeys /\ told' \in 0..batch' /\ batch' = batch
          /\ events' = events /\ vanished' = vanished
      BY <1>1, <2>2, EventIs DEF Goes, TypeOK
    <2>5. heard' \in {heard, None} /\ wanted' \in {wanted, None} /\ withdrawn' \in {withdrawn, None}
      BY <2>2 DEF Returns, Follows
    <2>7. Flags'
      BY <1>1, <2>1, <2>3, <2>4, <2>5 DEF Flags, Rests
    <2>8. Lines' /\ Numbers'
      BY <1>1, <2>1, <2>3, <2>4, <2>5, HearingAssumption DEF Lines, Numbers, Rests, None
    <2> QED BY <2>7, <2>8
  <1>7. CASE Settle
    <2>1. /\ Rests /\ SendsOther /\ Drops /\ auditioning' = auditioning /\ aside' \in BOOLEAN
          /\ heard' \in {heard, None} /\ wanted' \in {wanted, None}
          /\ withdrawn' \in {withdrawn, heard}
      BY <1>7, SettleIs DEF GivesUp
    <2>2. queue' \in Seq(Commands)
      BY <2>1, SendsOtherIs
    <2>3. /\ events' \in Seq(Events) /\ batch' = 0 /\ told' = 0 /\ vanished' = vanished
          /\ Len(events') \in Nat
      BY <1>1, <2>1, EventsDrop, LenProperties DEF Drops, TypeOK
    <2>7. Flags'
      BY <1>1, <2>1, <2>2, <2>3 DEF Flags, Rests
    <2>8. Lines' /\ Numbers'
      BY <1>1, <2>1, <2>2, <2>3, HearingAssumption DEF Lines, Numbers, Rests, None
    <2> QED BY <2>7, <2>8
  <1>8. CASE PassOver
    <2>1. queue' \in Seq(Commands)
      BY <1>1, <1>8, QueuePops DEF PassOver, Handles
    <2>7. Flags'
      BY <1>1, <1>8, <2>1 DEF Flags, PassOver, Handles
    <2>8. Lines' /\ Numbers'
      BY <1>1, <1>8, <2>1, HearingAssumption DEF Lines, Numbers, PassOver, Handles
    <2> QED BY <2>7, <2>8
  <1>9. CASE Begin
    <2>1. queue' \in Seq(Commands) /\ 1 \in 1..Len(queue) /\ Head(queue) = queue[1]
      BY <1>1, <1>9, QueuePops DEF Begin, Handles
    <2>2. begun' \in 0..MaxKeys
      BY <1>1, <1>9, <2>1, CommandIs, HearingAssumption DEF Begin, Handles, Asks, Keys
    <2>7. Flags'
      BY <1>1, <1>9, <2>1, <2>2 DEF Flags, Begin, Handles
    <2>8. Lines' /\ Numbers'
      BY <1>1, <1>9, <2>1, <2>2, HearingAssumption DEF Lines, Numbers, Begin, Handles
    <2> QED BY <2>7, <2>8
  <1>10. CASE Finish
    <2>1. /\ begun' = None /\ device' \in BOOLEAN /\ troubles' \in 0..MaxTroubles
          /\ UNCHANGED <<queue, frame, wanted, window, asked, others, vanished>>
          /\ stuck' = FALSE /\ unsaid' = FALSE /\ plays' \in {begun, None}
      BY <1>10, FinishIs
    <2>2. \E t \in Seq(Events) : events' = events \o t
      <3>1. Played \in Seq(Events)
        BY <1>10, FinishIs DEF Played, Plays, Evt, Events
      <3> QED BY <1>10, <3>1, FinishIs, FailureIs
    <2>3. events' \in Seq(Events) /\ Len(events) <= Len(events')
      BY <1>1, <2>2, EventsGrow
    <2>4. batch' \in 0..Len(events') /\ told' \in 0..batch'
      BY <1>1, <2>1, <2>3, LenProperties DEF TypeOK, frame
    <2>7. Flags'
      BY <1>1, <2>1, <2>3, <2>4 DEF Flags
    <2>8. Lines' /\ Numbers'
      BY <1>1, <2>1, <2>3, <2>4, HearingAssumption DEF Lines, Numbers, None
    <2> QED BY <2>7, <2>8
  <1>11. CASE Others
    <2>1. /\ begun' = None /\ queue # <<>> /\ queue' = Tail(queue)
          /\ UNCHANGED <<frame, wanted, window, asked, others, vanished>>
          /\ device' \in BOOLEAN /\ troubles' \in 0..MaxTroubles
          /\ EndsAloud \/ EndsSilently \/ EndsNothing
      BY <1>11, OthersAre
    <2>2. events' = events \/ \E t \in Seq(Events) : events' = events \o t
      BY <2>1, SessionIs DEF EndsAloud, EndsSilently, EndsNothing
    <2>3. events' \in Seq(Events) /\ Len(events) <= Len(events')
      BY <1>1, <2>2, EventsGrow
    <2>4. batch' \in 0..Len(events') /\ told' \in 0..batch'
      BY <1>1, <2>1, <2>3, LenProperties DEF TypeOK, frame
    <2>5. queue' \in Seq(Commands)
      BY <1>1, <2>1, QueuePops
    <2>6. plays' \in {plays, None} /\ unsaid' \in BOOLEAN /\ stuck' \in BOOLEAN
      BY <2>1 DEF EndsAloud, EndsSilently, EndsNothing, TypeOK
    <2>7. Flags'
      BY <1>1, <2>1, <2>3, <2>4, <2>5, <2>6 DEF Flags
    <2>8. Lines' /\ Numbers'
      BY <1>1, <2>1, <2>3, <2>4, <2>5, <2>6, HearingAssumption DEF Lines, Numbers, None
    <2> QED BY <2>7, <2>8
  <1>12. CASE UNCHANGED vars
    BY <1>1, <1>12, Zenon DEF vars, Flags, Lines, Numbers
  <1> QED BY <1>2, <1>3, <1>4, <1>5, <1>6, <1>7, <1>8, <1>9, <1>10, <1>11, <1>12, Steps

-----------------------------------------------------------------------------
(* Keys are begun and said in the order they were asked for                 *)

\* The order of what waits is that of before.
WaitsKept ==
    /\ \A key : Waits(key)' => Waits(key)
    /\ \A i, j \in 1..Len(queue') : i < j /\ Asks(i)' /\ Asks(j)' =>
           queue'[i].key < queue'[j].key

LEMMA SendsKeeps ==
    ASSUME TypeOK, WaitsOrder, SendsOther
    PROVE  WaitsKept
  BY SendsOtherIs DEF WaitsOrder, WaitsKept

LEMMA PopsKeeps ==
    ASSUME TypeOK, WaitsOrder, queue # <<>>, queue' = Tail(queue)
    PROVE  WaitsKept
  BY QueuePops DEF WaitsOrder, WaitsKept, TypeOK

\* Nothing is said and nothing gone through.
SameSaid == events' = events /\ told' = told /\ auditioning' = auditioning

\* Steps that only send, or take, a command.
LEMMA OrderKept ==
    ASSUME TypeOK, InOrder, WaitsKept, SameSaid, begun' = begun, plays' = plays, asked' = asked
    PROVE  InOrder'
  <1> USE DEF SameSaid
  <1>1. Bounded'
    BY DEF InOrder, Bounded
  <1>2. WaitsOrder'
    BY DEF InOrder, WaitsOrder, WaitsKept, Past
  <1>3. BegunOrder'
    BY DEF InOrder, BegunOrder, Past
  <1>4. SaidOrder'
    BY DEF InOrder, SaidOrder, Tells
  <1>5. FailedOrder'
    BY DEF InOrder, FailedOrder, Failing
  <1> QED BY <1>1, <1>2, <1>3, <1>4, <1>5 DEF InOrder

LEMMA ClickAsks ==
    ASSUME TypeOK, Click
    PROVE  /\ asked' = asked + 1 /\ asked' \in Keys
           /\ queue' \in Seq(Commands) /\ Len(queue) \in Nat /\ Len(queue') = Len(queue) + 1
           /\ \A i \in 1..Len(queue) : queue'[i] = queue[i]
           /\ queue'[Len(queue) + 1].kind = "Audition" /\ queue'[Len(queue) + 1].key = asked'
           /\ Waits(asked)'
           /\ \A key : Waits(key)' => Waits(key) \/ key = asked'
  <1>1. asked' = asked + 1 /\ asked' \in Keys
    BY HearingAssumption DEF Click, TypeOK, Keys
  <1> DEFINE c == [kind |-> "Audition", key |-> asked']
  <1>2. c \in Commands /\ c.kind = "Audition" /\ c.key = asked' /\ queue' = Append(queue, c)
    BY <1>1 DEF Commands, Click
  <1> HIDE DEF c
  <1>3. /\ queue' \in Seq(Commands) /\ Len(queue) \in Nat /\ Len(queue') = Len(queue) + 1
        /\ \A i \in 1..Len(queue) : queue'[i] = queue[i]
        /\ queue'[Len(queue) + 1] = c
    BY <1>2, QueueGrows DEF TypeOK
  <1>4. queue'[Len(queue) + 1].kind = "Audition" /\ queue'[Len(queue) + 1].key = asked'
    BY <1>2, <1>3
  <1>5. \A i \in 1..Len(queue') : i \in 1..Len(queue) \/ i = Len(queue) + 1
    BY <1>3
  <1>6. Len(queue) + 1 \in 1..Len(queue')
    BY <1>3
  <1>7. Waits(asked)'
    BY <1>4, <1>6 DEF Waits, Asks
  <1>8. \A key : Waits(key)' => Waits(key) \/ key = asked'
    BY <1>3, <1>4, <1>5 DEF Waits, Asks
  <1> QED BY <1>1, <1>3, <1>4, <1>7, <1>8

LEMMA ClickOrder ==
    ASSUME TypeOK, InOrder, Click
    PROVE  InOrder'
  <1>1. /\ SameSaid /\ begun' = begun /\ plays' = plays
        /\ asked' = asked + 1 /\ asked' \in Keys /\ asked \in Nat
    BY ClickAsks DEF Click, worker, frame, SameSaid, TypeOK
  <1> USE DEF SameSaid
  <1>2. \A i \in 1..Len(events) : events[i].key \in Nat
    BY EventIs DEF TypeOK
  <1>3. begun \in Nat /\ plays \in Nat /\ auditioning \in Nat
    BY HearingAssumption DEF TypeOK
  <1>4. Bounded'
    BY <1>1, <1>2, <1>3 DEF InOrder, Bounded
  <1>5. begun < asked' /\ auditioning < asked' /\ Past(asked)'
    BY <1>1, <1>2, <1>3 DEF InOrder, Bounded, Past
  <1>6. ASSUME NEW key \in Keys, Waits(key)'
        PROVE  key <= asked' /\ begun' < key /\ auditioning' < key /\ Past(key)'
    <2>1. CASE key = asked'
      BY <1>1, <1>5, <2>1 DEF Past
    <2>2. CASE Waits(key)
      <3>1. key <= asked /\ begun < key /\ auditioning < key /\ Past(key)
        BY <2>2 DEF InOrder, WaitsOrder
      <3>2. key <= asked'
        BY <1>1, <3>1 DEF Keys
      <3> QED BY <1>1, <3>1, <3>2 DEF Past
    <2> QED BY <1>6, <2>1, <2>2, ClickAsks
  <1>7. ASSUME NEW i \in 1..Len(queue'), NEW j \in 1..Len(queue'), i < j, Asks(i)', Asks(j)'
        PROVE  queue'[i].key < queue'[j].key
    <2>1. i \in 1..Len(queue) /\ queue'[i] = queue[i] /\ Asks(i)
      BY <1>7, ClickAsks DEF Asks
    <2>2. CASE j \in 1..Len(queue)
      BY <1>7, <2>1, <2>2, ClickAsks DEF Asks, InOrder, WaitsOrder
    <2>3. CASE j = Len(queue) + 1
      <3>1. queue[i].key \in Keys /\ Waits(queue[i].key)
        BY <2>1, CommandIs DEF TypeOK, Waits
      <3>2. queue[i].key <= asked
        BY <3>1 DEF InOrder, WaitsOrder
      <3> QED BY <1>1, <2>1, <2>3, <3>1, <3>2, ClickAsks DEF Keys
    <2> QED BY <2>2, <2>3, ClickAsks
  <1>8. WaitsOrder'
    BY <1>6, <1>7 DEF WaitsOrder
  <1>9. BegunOrder'
    BY <1>1 DEF InOrder, BegunOrder, Past
  <1>10. SaidOrder'
    BY <1>1 DEF InOrder, SaidOrder, Tells
  <1>11. FailedOrder'
    BY <1>1 DEF InOrder, FailedOrder, Failing
  <1> QED BY <1>4, <1>8, <1>9, <1>10, <1>11 DEF InOrder

(* An event gone through was said after what plays, and before what waits. *)
LEMMA HearOrder ==
    ASSUME TypeOK, InOrder, Hear
    PROVE  InOrder'
  <1>1. WaitsKept /\ begun' = begun /\ plays' = plays /\ asked' = asked
    BY HearIs, SendsKeeps DEF InOrder, Rests, worker
  <1>2. PICK i \in 1..Len(events) : Goes(i)
    BY HearIs
  <1>3. /\ events' = events /\ auditioning' = events[i].key /\ told' = i /\ told < i
        /\ i \in 1..Len(events) /\ Tells(i) /\ events[i].key \in Nat
        /\ told \in Nat /\ Len(events) \in Nat
    BY <1>2, EventIs, LenProperties DEF Goes, TypeOK
  <1>4. Bounded'
    BY <1>1, <1>3 DEF InOrder, Bounded
  <1>5. \A key : Past(key) => auditioning' < key /\ Past(key)'
    BY <1>3 DEF Past
  <1>6. WaitsOrder'
    BY <1>1, <1>5 DEF InOrder, WaitsOrder, WaitsKept
  <1>7. BegunOrder'
    BY <1>1, <1>5 DEF InOrder, BegunOrder
  <1>8. ASSUME NEW k \in 1..Len(events), i < k, Tells(k), events[k].key # None
        PROVE  /\ events[i].key < events[k].key
               /\ \A j \in 1..Len(events) : k < j /\ Tells(j) /\ events[j].key # None =>
                      events[k].key < events[j].key
    <2>1. events[k].key \in Nat /\ told < k
      BY <1>3, <1>8, EventIs DEF TypeOK
    <2>2. events[i].key < events[k].key
      BY <1>3, <1>8, <2>1 DEF InOrder, SaidOrder, None
    <2> QED BY <1>8, <2>1, <2>2 DEF InOrder, SaidOrder
  <1>9. SaidOrder'
    BY <1>3, <1>8 DEF SaidOrder, Tells
  <1>10. FailedOrder'
    BY <1>1, <1>3 DEF InOrder, FailedOrder, Failing
  <1> QED BY <1>4, <1>6, <1>7, <1>9, <1>10 DEF InOrder

(* What a frame drops was gone through. *)
LEMMA DropsIs ==
    ASSUME TypeOK, Drops
    PROVE  /\ events' \in Seq(Events) /\ Len(events) \in Nat /\ batch \in Nat /\ told' = 0
           /\ \A i \in 1..Len(events') :
                  i + batch \in 1..Len(events) /\ events'[i] = events[i + batch]
           /\ \A i \in 1..Len(events) :
                  batch < i => i - batch \in 1..Len(events') /\ events'[i - batch] = events[i]
           /\ \A key : Past(key) => Past(key)'
           /\ \A key : Failing(key)' => Failing(key)
           /\ \A key : Coming(key) => Coming(key)'
  <1>1. /\ events' \in Seq(Events) /\ Len(events) \in Nat /\ batch \in Nat /\ told' = 0
        /\ \A i \in 1..Len(events') :
                  i + batch \in 1..Len(events) /\ events'[i] = events[i + batch]
        /\ \A i \in 1..Len(events) :
                  batch < i => i - batch \in 1..Len(events') /\ events'[i - batch] = events[i]
    BY EventsDrop, LenProperties DEF TypeOK, Drops
  <1>2. \A key : Past(key) => Past(key)'
    BY <1>1 DEF Past
  <1>3. \A key : Failing(key)' => Failing(key)
    BY <1>1 DEF Failing
  <1>4. \A key : Coming(key) => Coming(key)'
    <2> SUFFICES ASSUME NEW key, NEW i \in 1..Len(events), told < i, events[i] = Plays(key)
                 PROVE  Coming(key)'
      BY DEF Coming
    <2>1. batch < i
      BY EvtIs DEF Drops, Tells
    <2>2. i - batch \in 1..Len(events') /\ events'[i - batch] = events[i] /\ told' < i - batch
      BY <1>1, <2>1
    <2> QED BY <2>2 DEF Coming, Plays, Evt
  <1> QED BY <1>1, <1>2, <1>3, <1>4

LEMMA SettleOrder ==
    ASSUME TypeOK, InOrder, Settle
    PROVE  InOrder'
  <1>1. /\ WaitsKept /\ begun' = begun /\ plays' = plays /\ asked' = asked
        /\ auditioning' = auditioning /\ Drops
    BY SettleIs, SendsKeeps DEF InOrder, Rests, worker
  <1>2. /\ \A i \in 1..Len(events') : i + batch \in 1..Len(events) /\ events'[i] = events[i + batch]
        /\ \A key : Past(key) => Past(key)'
        /\ \A key : Failing(key)' => Failing(key)
        /\ told' = 0 /\ batch \in Nat /\ told <= batch /\ Len(events) \in Nat /\ told \in Nat
    BY <1>1, DropsIs DEF TypeOK
  <1>3. Bounded'
    BY <1>1, <1>2 DEF InOrder, Bounded
  <1>4. WaitsOrder'
    BY <1>1, <1>2 DEF InOrder, WaitsOrder, WaitsKept
  <1>5. BegunOrder'
    BY <1>1, <1>2 DEF InOrder, BegunOrder
  <1>6. ASSUME NEW i \in 1..Len(events'), events'[i].kind = "Auditioning", events'[i].key # None
        PROVE  /\ auditioning < events'[i].key
               /\ \A j \in 1..Len(events') :
                      i < j /\ events'[j].kind = "Auditioning" /\ events'[j].key # None =>
                          events'[i].key < events'[j].key
    <2>1. told < i + batch /\ Tells(i + batch)
      BY <1>2, <1>6 DEF Tells
    <2>2. \A j \in 1..Len(events') : i < j => i + batch < j + batch
      BY <1>2
    <2> QED BY <1>2, <1>6, <2>1, <2>2 DEF InOrder, SaidOrder, Tells
  <1>7. SaidOrder'
    BY <1>1, <1>6 DEF SaidOrder, Tells
  <1>8. FailedOrder'
    BY <1>1, <1>2 DEF InOrder, FailedOrder
  <1> QED BY <1>3, <1>4, <1>5, <1>7, <1>8 DEF InOrder

LEMMA PassOverOrder ==
    ASSUME TypeOK, InOrder, PassOver
    PROVE  InOrder'
  <1>1. WaitsKept
    BY PopsKeeps DEF InOrder, PassOver, Handles
  <1> QED BY <1>1, OrderKept DEF PassOver, Handles, SameSaid, frame, worker, window

(* What is begun was first of what waits. *)
LEMMA BeginIs ==
    ASSUME TypeOK, InOrder, Begin
    PROVE  /\ begun = None /\ begun' = wanted /\ begun' \in Keys
           /\ Waits(wanted) /\ queue # <<>> /\ queue' = Tail(queue) /\ Head(queue).kind = "Audition"
           /\ \A key : Waits(key)' => wanted < key
           /\ UNCHANGED <<events, frame, wanted, window, device, plays, asked, others, troubles,
                          vanished, ghosts>>
  <1>1. /\ begun = None /\ begun' = wanted /\ queue # <<>> /\ queue' = Tail(queue)
        /\ Head(queue).key = wanted /\ Head(queue).kind = "Audition"
        /\ UNCHANGED <<events, frame, wanted, window, device, plays, asked, others, troubles,
                       vanished, ghosts>>
    BY DEF Begin, Handles, StillWanted
  <1>2. /\ 1 \in 1..Len(queue) /\ Head(queue) = queue[1]
        /\ \A i \in 1..Len(queue') : i + 1 \in 1..Len(queue) /\ queue'[i] = queue[i + 1]
    BY <1>1, QueuePops DEF TypeOK
  <1>3. Waits(wanted) /\ wanted \in Keys
    BY <1>1, <1>2, CommandIs DEF Waits, Asks, TypeOK
  <1>4. ASSUME NEW key, Waits(key)'
        PROVE  wanted < key
    <2>1. PICK i \in 1..Len(queue') : queue'[i].kind = "Audition" /\ queue'[i].key = key
      BY <1>4 DEF Waits, Asks
    <2>2. i + 1 \in 1..Len(queue) /\ Asks(i + 1) /\ queue[i + 1].key = key /\ 1 < i + 1
      BY <1>2, <2>1 DEF Asks
    <2>3. Asks(1) /\ queue[1].key = wanted
      BY <1>1, <1>2 DEF Asks
    <2> QED BY <1>2, <2>2, <2>3 DEF InOrder, WaitsOrder
  <1> QED BY <1>1, <1>3, <1>4

LEMMA BeginOrder ==
    ASSUME TypeOK, InOrder, Begin
    PROVE  InOrder'
  <1>1. /\ begun' = wanted /\ wanted \in Keys /\ Waits(wanted)
        /\ \A key : Waits(key)' => wanted < key
        /\ SameSaid /\ plays' = plays /\ asked' = asked
    BY BeginIs DEF SameSaid, frame, window
  <1> USE DEF SameSaid
  <1>2. WaitsKept
    BY PopsKeeps, BeginIs DEF InOrder
  <1>3. wanted <= asked /\ auditioning < wanted /\ Past(wanted)
    BY <1>1 DEF InOrder, WaitsOrder
  <1>4. Bounded'
    BY <1>1, <1>3 DEF InOrder, Bounded
  <1>5. WaitsOrder'
    BY <1>1, <1>2 DEF InOrder, WaitsOrder, WaitsKept, Past
  <1>6. BegunOrder'
    BY <1>1, <1>3 DEF BegunOrder, Past
  <1>7. SaidOrder'
    BY <1>1 DEF InOrder, SaidOrder, Tells
  <1>8. FailedOrder'
    BY <1>1 DEF InOrder, FailedOrder, Failing
  <1> QED BY <1>4, <1>5, <1>6, <1>7, <1>8 DEF InOrder

(* What is said of no tone leaves the order as it was. *)
LEMMA SaysNoKey ==
    ASSUME TypeOK, NEW t \in Seq(Events), events' = events \o t, told' = told,
           \A i \in 1..Len(t) : t[i].key = None
    PROVE  /\ \A key \in Keys : Past(key) => Past(key)'
           /\ \A key \in Keys : Failing(key)' => Failing(key)
           /\ \A i \in 1..Len(events') : events'[i].key # None =>
                  i \in 1..Len(events) /\ events'[i] = events[i]
           /\ \A key : Coming(key) => Coming(key)'
           /\ \A key : Failing(key) => Failing(key)'
  <1>1. /\ \A i \in 1..Len(events) : i \in 1..Len(events') /\ events'[i] = events[i]
        /\ \A i \in 1..Len(events') : i \in 1..Len(events)
               \/ (i - Len(events) \in 1..Len(t) /\ events'[i] = t[i - Len(events)])
    BY EventsGrow DEF TypeOK
  <1>2. \A i \in 1..Len(events') : events'[i].key = None
            \/ (i \in 1..Len(events) /\ events'[i] = events[i])
    BY <1>1
  <1>3. \A key \in Keys : Past(key) => Past(key)'
    BY <1>2 DEF Past, Keys, None
  <1>4. \A key \in Keys : Failing(key)' => Failing(key)
    BY <1>2, EvtIs DEF Failing, Keys, None
  <1>5. \A key : Coming(key) => Coming(key)'
    BY <1>1 DEF Coming, Plays, Evt
  <1>6. \A key : Failing(key) => Failing(key)'
    BY <1>1 DEF Failing, Evt
  <1> QED BY <1>2, <1>3, <1>4, <1>5, <1>6

LEMMA OthersSay ==
    ASSUME TypeOK, Others
    PROVE  \E t \in Seq(Events) :
               events' = events \o t /\ \A i \in 1..Len(t) : t[i].key = None
  <1>1. EndsAloud \/ EndsSilently \/ EndsNothing
    BY OthersAre
  <1>2. CASE EndsAloud
    <2> PICK t \in Session : events' = events \o (<<Plays(None)>> \o t)
      BY <1>2 DEF EndsAloud
    <2> DEFINE r == <<Plays(None)>> \o t
    <2>1. r \in Seq(Events) /\ \A i \in 1..Len(r) : i = 1 \/ 1 < i
      BY SessionIs
    <2>2. \A i \in 1..Len(r) : r[i].key = None
      <3>1. r[1] = Plays(None) /\ \A i \in 1..Len(r) : 1 < i => r[i].key = None
        BY SessionIs
      <3>2. Plays(None).key = None
        BY EvtIs
      <3> HIDE DEF r
      <3> QED BY <2>1, <3>1, <3>2
    <2> QED BY <2>1, <2>2
  <1>3. CASE EndsSilently
    BY <1>3, SessionIs DEF EndsSilently
  <1>4. CASE EndsNothing
    <2> DEFINE r == <<>>
    <2>1. r \in Seq(Events) /\ Len(r) = 0 /\ events \o r = events
      BY ConcatEmptySeq DEF TypeOK
    <2>2. \A i \in 1..Len(r) : r[i].key = None
      BY <2>1
    <2> HIDE DEF r
    <2> QED BY <1>4, <2>1, <2>2 DEF EndsNothing
  <1> QED BY <1>1, <1>2, <1>3, <1>4

LEMMA OthersOrder ==
    ASSUME TypeOK, InOrder, Others
    PROVE  InOrder'
  <1>1. /\ WaitsKept /\ begun' = None /\ told' = told /\ auditioning' = auditioning
        /\ asked' = asked /\ plays' \in {plays, None} /\ begun = None
    BY OthersAre, PopsKeeps
       DEF InOrder, frame, window, EndsAloud, EndsSilently, EndsNothing
  <1>2. /\ \A key \in Keys : Past(key) => Past(key)'
        /\ \A key \in Keys : Failing(key)' => Failing(key)
        /\ \A i \in 1..Len(events') : events'[i].key # None =>
                  i \in 1..Len(events) /\ events'[i] = events[i]
    BY <1>1, OthersSay, SaysNoKey
  <1>3. asked \in Nat
    BY DEF TypeOK
  <1>4. Bounded'
    BY <1>1, <1>2, <1>3 DEF InOrder, Bounded, None
  <1>5. WaitsOrder'
    BY <1>1, <1>2 DEF InOrder, WaitsOrder, WaitsKept
  <1>6. BegunOrder'
    BY <1>1 DEF BegunOrder
  <1>7. SaidOrder'
    BY <1>1, <1>2 DEF InOrder, SaidOrder, Tells
  <1>8. FailedOrder'
    BY <1>1, <1>2 DEF InOrder, FailedOrder
  <1> QED BY <1>4, <1>5, <1>6, <1>7, <1>8 DEF InOrder

(* What a finished audition says comes after what was said, and is of the tone begun or none. *)
LEMMA FinishSays ==
    ASSUME TypeOK, Finish
    PROVE  \E t \in Seq(Events) :
               /\ events' = events \o t
               /\ \A i \in 1..Len(t) : t[i].key \in {None, begun}
               /\ \/ plays' = begun /\ t = Played
                  \/ /\ plays' = None /\ 2 <= Len(t) /\ t[1] = Evt("AuditionFailed", begun)
                     /\ t[2] = Plays(None)
                     /\ \A i \in 1..Len(t) : 2 < i => t[i].kind # "Auditioning"
                     /\ \A i \in 1..Len(t) : 1 < i => t[i].key = None
  <1>1. begun \in Keys
    BY FinishIs
  <1>2. CASE plays' = begun /\ events' = events \o Played
    <2>1. Played \in Seq(Events) /\ Len(Played) = 1 /\ Played[1].key = begun
      BY <1>1 DEF Played, Plays, Evt, Events
    <2> QED BY <1>2, <2>1
  <1>3. CASE plays' = None /\ \E t \in Session : events' = events \o (Failure \o t)
    <2> PICK t \in Session : events' = events \o (Failure \o t)
      BY <1>3
    <2> DEFINE r == Failure \o t
    <2>1. /\ r \in Seq(Events) /\ 2 <= Len(r) /\ Len(r) \in Nat
          /\ r[1] = Evt("AuditionFailed", begun) /\ r[2] = Plays(None)
          /\ \A i \in 1..Len(r) : 2 < i =>
                 r[i].key = None /\ r[i].kind \in {"Connected", "Disconnected"}
      BY <1>1, FailureIs
    <2> HIDE DEF r
    <2>2. \A i \in 1..Len(r) : i = 1 \/ i = 2 \/ 2 < i
      BY <2>1
    <2>3. \A i \in 1..Len(r) : 1 < i => r[i].key = None
      <3>1. Plays(None).key = None
        BY EvtIs
      <3> QED BY <2>1, <2>2, <3>1
    <2>4. \A i \in 1..Len(r) : r[i].key \in {None, begun}
      <3>1. Evt("AuditionFailed", begun).key = begun /\ Plays(None).key = None
        BY EvtIs
      <3> QED BY <2>1, <2>2, <3>1
    <2>5. \A i \in 1..Len(r) : 2 < i => r[i].kind # "Auditioning"
      BY <2>1
    <2>6. events' = events \o r
      BY DEF r
    <2> QED BY <1>3, <2>1, <2>3, <2>4, <2>5, <2>6
  <1> QED BY <1>2, <1>3, FinishIs

LEMMA FinishOrder ==
    ASSUME TypeOK, InOrder, Finish
    PROVE  InOrder'
  <1>1. /\ begun' = None /\ queue' = queue /\ told' = told /\ auditioning' = auditioning
        /\ asked' = asked /\ begun \in Keys /\ begun # None /\ plays' \in {begun, None}
    BY FinishIs DEF frame, window, Keys, None
  <1>2. /\ auditioning < begun /\ Past(begun) /\ begun <= asked /\ asked \in Nat /\ begun \in Nat
        /\ 0 < begun
    BY <1>1 DEF InOrder, BegunOrder, Bounded, TypeOK, Keys
  <1>3. PICK t \in Seq(Events) :
           /\ events' = events \o t
           /\ \A i \in 1..Len(t) : t[i].key \in {None, begun}
           /\ \/ plays' = begun /\ t = Played
              \/ /\ plays' = None
                 /\ \A i \in 1..Len(t) : 1 < i => t[i].key = None
    BY FinishSays
  <1>4. /\ \A i \in 1..Len(events) : i \in 1..Len(events') /\ events'[i] = events[i]
        /\ \A i \in 1..Len(events') : i \in 1..Len(events)
               \/ (i - Len(events) \in 1..Len(t) /\ events'[i] = t[i - Len(events)])
        /\ Len(events) \in Nat /\ Len(t) \in Nat
    BY <1>3, EventsGrow DEF TypeOK
  <1>5. \A i \in 1..Len(events') :
            \/ i \in 1..Len(events) /\ events'[i] = events[i]
            \/ Len(events) < i /\ events'[i].key \in {None, begun}
    <2>1. \A i \in 1..Len(events') : i - Len(events) \in 1..Len(t) => Len(events) < i
      BY <1>4
    <2>2. \A k \in 1..Len(t) : t[k].key \in {None, begun}
      BY <1>3
    <2> TAKE i \in 1..Len(events')
    <2>3. CASE i \in 1..Len(events)
      BY <1>4, <2>3
    <2>4. CASE i - Len(events) \in 1..Len(t) /\ events'[i] = t[i - Len(events)]
      <3>1. t[i - Len(events)].key \in {None, begun}
        BY <2>2, <2>4
      <3> QED BY <2>1, <2>4, <3>1
    <2> QED BY <1>4, <2>3, <2>4
  <1>6. \A i \in 1..Len(events') : events'[i].key <= asked
    BY <1>2, <1>5 DEF InOrder, Bounded, None
  <1>7. Bounded'
    BY <1>1, <1>2, <1>6 DEF InOrder, Bounded, None
  <1>8. \A key \in Keys : Past(key) /\ begun < key => Past(key)'
    BY <1>2, <1>5 DEF Past, Keys, None
  <1>9. WaitsOrder'
    <2>1. ASSUME NEW key \in Keys, Waits(key)'
          PROVE  key <= asked' /\ begun' < key /\ auditioning' < key /\ Past(key)'
      <3>1. Waits(key)
        BY <1>1, <2>1 DEF Waits, Asks
      <3>2. key <= asked /\ begun < key /\ auditioning < key /\ Past(key)
        BY <3>1 DEF InOrder, WaitsOrder
      <3> QED BY <1>1, <1>8, <3>2 DEF None, Keys
    <2> QED BY <1>1, <2>1 DEF InOrder, WaitsOrder, Asks
  <1>10. BegunOrder'
    BY <1>1 DEF BegunOrder
  <1>11. SaidOrder'
    <2> SUFFICES ASSUME NEW i \in 1..Len(events'), told < i, events'[i].kind = "Auditioning",
                        events'[i].key # None
                 PROVE  /\ auditioning < events'[i].key
                        /\ \A j \in 1..Len(events') :
                               i < j /\ events'[j].kind = "Auditioning" /\ events'[j].key # None
                                   => events'[i].key < events'[j].key
      BY <1>1 DEF SaidOrder, Tells
    <2>1. CASE i \in 1..Len(events) /\ events'[i] = events[i]
      <3>1. auditioning < events[i].key /\ events[i].key < begun
        BY <1>2, <2>1 DEF InOrder, SaidOrder, Tells, Past
      <3>2. ASSUME NEW j \in 1..Len(events'), i < j, events'[j].kind = "Auditioning",
                   events'[j].key # None
            PROVE  events'[i].key < events'[j].key
        <4>1. CASE j \in 1..Len(events) /\ events'[j] = events[j]
          BY <2>1, <3>2, <4>1 DEF InOrder, SaidOrder, Tells
        <4>2. CASE events'[j].key \in {None, begun}
          BY <2>1, <3>1, <3>2, <4>2
        <4> QED BY <1>5, <4>1, <4>2
      <3> QED BY <2>1, <3>1, <3>2
    <2>2. CASE Len(events) < i /\ events'[i].key \in {None, begun}
      <3>1. events'[i].key = begun
        BY <2>2
      <3>2. \A j \in 1..Len(events') : i < j => events'[j].key = None
        <4>1. CASE t = Played
          <5>1. Len(t) = 1
            BY <4>1 DEF Played
          <5> QED BY <1>4, <2>2, <5>1
        <4>2. CASE \A k \in 1..Len(t) : 1 < k => t[k].key = None
          BY <1>4, <2>2, <4>2
        <4> QED BY <1>3, <4>1, <4>2
      <3> QED BY <1>2, <3>1, <3>2
    <2> QED BY <1>5, <2>1, <2>2
  <1>12. FailedOrder'
    <2> SUFFICES ASSUME plays' # None, NEW key \in Keys, Failing(key)'
                 PROVE  key < plays'
      BY DEF FailedOrder
    <2>1. plays' = begun /\ t = Played
      BY <1>1, <1>3
    <2>2. PICK i \in 1..Len(events') : events'[i] = Evt("AuditionFailed", key)
      BY DEF Failing, Evt
    <2>3. Len(t) = 1 /\ t[1].kind = "Auditioning"
      BY <2>1, EvtIs DEF Played
    <2>4. i \in 1..Len(events) /\ events[i].key = key
      BY <1>4, <2>2, <2>3, EvtIs
    <2> QED BY <1>2, <2>1, <2>4 DEF Past
  <1> QED BY <1>7, <1>9, <1>10, <1>11, <1>12 DEF InOrder

LEMMA OrderInvariant ==
    ASSUME TypeOK, InOrder, [Next]_vars
    PROVE  InOrder'
  <1>1. CASE Hands
    BY <1>1, HandsAre, SendsKeeps, OrderKept DEF InOrder, SameSaid, frame, worker
  <1>2. CASE Vanish
    <2>1. SendsOther /\ Rests /\ GivesUp
      BY <1>2, WithdrawsIs DEF Vanish, Loading
    <2> QED BY <1>2, <2>1, SendsKeeps, OrderKept
            DEF InOrder, SameSaid, Vanish, frame, worker, Rests, GivesUp
  <1>3. CASE Draw
    <2>1. WaitsKept
      BY <1>3 DEF Draw, WaitsKept, InOrder, WaitsOrder, Waits, Asks
    <2> QED BY <1>3, <2>1, OrderKept DEF SameSaid, Draw, worker, bounds
  <1>4. CASE UNCHANGED vars
    <2>1. WaitsKept
      BY <1>4 DEF vars, WaitsKept, InOrder, WaitsOrder, Waits, Asks
    <2> QED BY <1>4, <2>1, OrderKept DEF SameSaid, vars, worker, window, bounds, frame
  <1> QED BY <1>1, <1>2, <1>3, <1>4, Steps, ClickOrder, HearOrder, SettleOrder, PassOverOrder,
             BeginOrder, FinishOrder, OthersOrder

-----------------------------------------------------------------------------
(* What plays was said last                                                 *)

(* Going through what was said, and dropping what was gone through, keeps what was said last. *)
LEMMA HearLast ==
    ASSUME TypeOK, NEW i \in 1..Len(events), Goes(i), NEW key, LastSaid(key)
    PROVE  LastSaid(key)'
  <1>1. told < i /\ Tells(i) /\ told' = i /\ events' = events /\ auditioning' = events[i].key
    BY DEF Goes
  <1>2. PICK m \in 1..Len(events) :
            told < m /\ events[m] = Plays(key) /\ \A j \in 1..Len(events) : m < j => ~Tells(j)
    BY <1>1 DEF LastSaid
  <1>3. Tells(m) /\ events[m].key = key
    BY <1>2, EvtIs DEF Tells
  <1>4. i = m \/ i < m
    BY <1>1, <1>2, LenProperties DEF TypeOK
  <1>5. CASE i = m
    BY <1>1, <1>2, <1>3, <1>5 DEF LastSaid, Tells
  <1>6. CASE i < m
    BY <1>1, <1>2, <1>6 DEF LastSaid, Tells, Plays, Evt
  <1> QED BY <1>4, <1>5, <1>6

LEMMA SettleLast ==
    ASSUME TypeOK, Drops, auditioning' = auditioning, NEW key, LastSaid(key)
    PROVE  LastSaid(key)'
  <1>1. /\ \A i \in 1..Len(events') : i + batch \in 1..Len(events) /\ events'[i] = events[i + batch]
        /\ \A i \in 1..Len(events) :
               batch < i => i - batch \in 1..Len(events') /\ events'[i - batch] = events[i]
        /\ batch \in Nat /\ told' = 0 /\ Len(events) \in Nat /\ told \in Nat /\ told <= batch
    BY DropsIs DEF TypeOK
  <1>2. CASE auditioning = key /\ \A i \in 1..Len(events) : told < i => ~Tells(i)
    <2>1. \A i \in 1..Len(events') : told < i + batch
      BY <1>1
    <2>2. \A i \in 1..Len(events') : events'[i].kind # "Auditioning"
      BY <1>1, <1>2, <2>1 DEF Tells
    <2> QED BY <1>2, <2>2 DEF LastSaid, Tells
  <1>3. ASSUME NEW m \in 1..Len(events), told < m, events[m] = Plays(key),
               \A j \in 1..Len(events) : m < j => ~Tells(j)
        PROVE  LastSaid(key)'
    <2>1. batch < m
      BY <1>3, EvtIs DEF Drops, Tells
    <2>2. m - batch \in 1..Len(events') /\ events'[m - batch] = Plays(key) /\ told' < m - batch
      BY <1>1, <1>3, <2>1
    <2>3. \A j \in 1..Len(events') : m - batch < j => m < j + batch
      BY <1>1
    <2>4. \A j \in 1..Len(events') : m - batch < j => events'[j].kind # "Auditioning"
      BY <1>1, <1>3, <2>3 DEF Tells
    <2> QED BY <2>2, <2>4 DEF LastSaid, Tells, Plays, Evt
  <1> QED BY <1>2, <1>3 DEF LastSaid

(* Saying what plays. *)
LEMMA SaysLast ==
    ASSUME TypeOK, NEW t \in Seq(Events), events' = events \o t, told' = told,
           NEW k \in 1..Len(t), NEW key, t[k] = Plays(key),
           \A i \in 1..Len(t) : k < i => t[i].kind # "Auditioning"
    PROVE  LastSaid(key)'
  <1>1. /\ Len(events) \in Nat /\ Len(t) \in Nat
        /\ \A i \in 1..Len(events') : i \in 1..Len(events)
               \/ (i - Len(events) \in 1..Len(t) /\ events'[i] = t[i - Len(events)])
        /\ \A j \in 1..Len(t) : /\ Len(events) + j \in 1..Len(events')
                                /\ events'[Len(events) + j] = t[j]
        /\ told \in Nat /\ told <= Len(events)
    BY EventsGrow DEF TypeOK
  <1>2. /\ Len(events) + k \in 1..Len(events') /\ events'[Len(events) + k] = Plays(key)
        /\ told < Len(events) + k
    BY <1>1
  <1>3. ASSUME NEW i \in 1..Len(events'), Len(events) + k < i
        PROVE  events'[i].kind # "Auditioning"
    <2>1. i - Len(events) \in 1..Len(t) /\ events'[i] = t[i - Len(events)]
      BY <1>1, <1>3
    <2>2. k < i - Len(events)
      BY <1>1, <1>3
    <2> QED BY <2>1, <2>2
  <1> QED BY <1>2, <1>3 DEF LastSaid, Tells, Plays, Evt

(* Saying nothing of it. *)
LEMMA SaysNothing ==
    ASSUME TypeOK, NEW t \in Seq(Events), events' = events \o t, told' = told,
           auditioning' = auditioning,
           \A i \in 1..Len(t) : t[i].kind # "Auditioning", NEW key, LastSaid(key)
    PROVE  LastSaid(key)'
  <1>1. /\ \A i \in 1..Len(events) : i \in 1..Len(events') /\ events'[i] = events[i]
        /\ \A i \in 1..Len(events') : i \in 1..Len(events)
               \/ (i - Len(events) \in 1..Len(t) /\ events'[i] = t[i - Len(events)])
    BY EventsGrow DEF TypeOK
  <1>2. \A i \in 1..Len(events') : events'[i].kind = "Auditioning" =>
            i \in 1..Len(events) /\ Tells(i)
    BY <1>1 DEF Tells
  <1> QED BY <1>1, <1>2 DEF LastSaid, Tells, Plays, Evt

LEMMA LastKept ==
    ASSUME SaidLast, events' = events, told' = told, auditioning' = auditioning,
           plays' = plays, unsaid' = unsaid, device' = device
    PROVE  SaidLast'
  BY DEF SaidLast, LastSaid, Tells, Plays, Evt

LEMMA FinishLast ==
    ASSUME TypeOK, SaidLast, Finish
    PROVE  SaidLast'
  <1>1. told' = told /\ auditioning' = auditioning /\ unsaid' = FALSE /\ begun \in Keys
    BY FinishIs DEF frame, window
  <1>2. PICK t \in Seq(Events) :
               /\ events' = events \o t
               /\ \/ plays' = begun /\ t = Played
                  \/ /\ plays' = None /\ 2 <= Len(t) /\ t[2] = Plays(None)
                     /\ \A i \in 1..Len(t) : 2 < i => t[i].kind # "Auditioning"
    BY FinishSays
  <1>3. \E k \in 1..Len(t) :
            t[k] = Plays(plays') /\ \A i \in 1..Len(t) : k < i => t[i].kind # "Auditioning"
    <2>1. CASE plays' = begun /\ t = Played
      <3>1. Len(t) = 1 /\ t[1] = Plays(begun) /\ 1 \in 1..Len(t)
        BY <2>1 DEF Played
      <3> QED BY <2>1, <3>1
    <2>2. CASE plays' = None /\ 2 <= Len(t) /\ t[2] = Plays(None)
                 /\ \A i \in 1..Len(t) : 2 < i => t[i].kind # "Auditioning"
      <3>1. 2 \in 1..Len(t)
        BY <2>2, LenProperties
      <3> QED BY <2>2, <3>1
    <2> QED BY <1>2, <2>1, <2>2
  <1>4. PICK k \in 1..Len(t) :
            t[k] = Plays(plays') /\ \A i \in 1..Len(t) : k < i => t[i].kind # "Auditioning"
    BY <1>3
  <1>5. \A key : t[k] = Plays(key) => LastSaid(key)'
    BY <1>1, <1>2, <1>4, SaysLast
  <1>6. LastSaid(plays)'
    BY <1>4, <1>5 DEF LastSaid
  <1>7. ~device' => plays' = None
    BY FinishIs DEF TypeOK
  <1> QED BY <1>1, <1>6, <1>7 DEF SaidLast

LEMMA OthersLast ==
    ASSUME TypeOK, SaidLast, Others
    PROVE  SaidLast'
  <1>1. /\ told' = told /\ auditioning' = auditioning
        /\ EndsAloud \/ EndsSilently \/ EndsNothing
    BY OthersAre DEF frame, window
  <1>2. CASE EndsAloud
    <2> PICK s \in Session : events' = events \o (<<Plays(None)>> \o s)
      BY <1>2 DEF EndsAloud
    <2> DEFINE t == <<Plays(None)>> \o s
    <2>1. /\ t \in Seq(Events) /\ 1 \in 1..Len(t) /\ t[1] = Plays(None)
          /\ \A i \in 1..Len(t) : 1 < i => t[i].kind # "Auditioning"
      BY SessionIs
    <2>2. events' = events \o t
      OBVIOUS
    <2> HIDE DEF t
    <2>3. LastSaid(None)'
      BY <1>1, <2>1, <2>2, SaysLast
    <2>4. plays' = None
      BY <1>2 DEF EndsAloud
    <2> QED BY <2>3, <2>4 DEF SaidLast, LastSaid
  <1>3. CASE EndsSilently
    <2>1. PICK t \in Session : events' = events \o t
      BY <1>3 DEF EndsSilently
    <2>2. plays' = None /\ unsaid' = (unsaid \/ plays # None)
      BY <1>3 DEF EndsSilently
    <2>3. ~unsaid' => plays = None /\ LastSaid(None)
      BY <2>2 DEF SaidLast
    <2>4. /\ t \in Seq(Events) /\ \A i \in 1..Len(t) : t[i].kind # "Auditioning"
      BY SessionIs
    <2>5. LastSaid(None) => LastSaid(None)'
      BY <1>1, <2>1, <2>4, SaysNothing
    <2> QED BY <2>2, <2>3, <2>5 DEF SaidLast, LastSaid
  <1>4. CASE EndsNothing
    BY <1>1, <1>4, LastKept DEF EndsNothing
  <1> QED BY <1>1, <1>2, <1>3, <1>4

LEMMA LastInvariant ==
    ASSUME TypeOK, InOrder, SaidLast, [Next]_vars
    PROVE  SaidLast'
  <1> USE DEF frame, worker, window, bounds, ghosts
  <1>1. CASE Click \/ Draw \/ PassOver \/ Begin \/ UNCHANGED vars
    BY <1>1, LastKept DEF Click, Draw, PassOver, Begin, Handles, vars
  <1>2. CASE Hands
    BY <1>2, HandsAre, LastKept
  <1>3. CASE Vanish
    BY <1>3, WithdrawsIs, LastKept DEF Vanish, Loading, Rests, GivesUp
  <1>4. CASE Hear
    <2>1. PICK i \in 1..Len(events) : Goes(i)
      BY <1>4, HearIs
    <2>2. plays' = plays /\ unsaid' = unsaid /\ device' = device
      BY <1>4, HearIs DEF Rests
    <2>3. LastSaid(plays) => LastSaid(plays)'
      <3>1. \A key : LastSaid(key) => LastSaid(key)'
        BY <2>1, HearLast
      <3> QED BY <2>2, <3>1 DEF LastSaid
    <2> QED BY <2>2, <2>3 DEF SaidLast
  <1>5. CASE Settle
    <2>1. /\ plays' = plays /\ unsaid' = unsaid /\ device' = device
          /\ Drops /\ auditioning' = auditioning
      BY <1>5, SettleIs DEF Rests
    <2>2. LastSaid(plays) => LastSaid(plays)'
      <3>1. \A key : LastSaid(key) => LastSaid(key)'
        BY <2>1, SettleLast
      <3> QED BY <2>1, <3>1 DEF LastSaid
    <2> QED BY <2>1, <2>2 DEF SaidLast
  <1> QED BY <1>1, <1>2, <1>3, <1>4, <1>5, Steps, FinishLast, OthersLast

-----------------------------------------------------------------------------
(* What a tone heard, or none, leaves to come                               *)

(* The tone heard is the newest: no other is said, begun or failed after it. *)
LEMMA Newest ==
    ASSUME TypeOK, InOrder, HeardComes, heard # None
    PROVE  /\ heard = asked /\ heard \in Keys
           /\ \A i \in 1..Len(events) : events[i].key <= heard
           /\ begun <= heard /\ plays <= heard /\ auditioning <= heard
  <1>1. heard = asked
    BY DEF HeardComes
  <1>2. heard \in Keys
    BY HearingAssumption DEF TypeOK, Keys, None
  <1> QED BY <1>1, <1>2 DEF InOrder, Bounded

(* Once it plays, fails, or is given up on with nothing else playing, nothing is to come. *)
LEMMA HeardIsLast ==
    ASSUME TypeOK, InOrder, HeardComes, heard # None
    PROVE  /\ heard = auditioning \/ Failing(heard) => ~Waits(wanted) /\ begun = None
           /\ Failing(heard) => plays = None
           /\ heard = auditioning => \A key \in Keys : ~Coming(key)
  <1>1. /\ heard = asked /\ heard \in Keys /\ wanted = heard
        /\ \A i \in 1..Len(events) : events[i].key <= heard
        /\ begun <= heard /\ plays <= heard
    BY Newest DEF HeardComes
  <1>2. \A key : Failing(key) => ~Past(key)
    <2> SUFFICES ASSUME NEW key, NEW i \in 1..Len(events), events[i] = Evt("AuditionFailed", key),
                        Past(key), events[i].kind = "AuditionFailed", events[i].key = key
                 PROVE  FALSE
      BY EvtIs DEF Failing
    <2>1. key \in Keys
      BY EventIs DEF TypeOK
    <2> QED BY <2>1 DEF Past, Keys
  <1>3. heard = auditioning \/ Failing(heard) => ~Waits(heard)
    BY <1>1, <1>2 DEF InOrder, WaitsOrder, Keys
  <1>4. begun \in Nat /\ plays \in Nat
    BY HearingAssumption DEF TypeOK
  <1>5. heard = auditioning => begun = None
    BY <1>1, <1>4 DEF InOrder, BegunOrder, Keys
  <1>6. Failing(heard) => begun = None
    <2> SUFFICES ASSUME Failing(heard), begun # None
                 PROVE  FALSE
      OBVIOUS
    <2>1. Past(begun)
      BY DEF InOrder, BegunOrder
    <2>2. heard < begun
      BY <2>1, EvtIs DEF Failing, Past
    <2> QED BY <1>1, <1>4, <2>2 DEF Keys
  <1>7. Failing(heard) => plays = None
    BY <1>1, <1>4 DEF InOrder, FailedOrder, Keys
  <1>8. heard = auditioning => \A key \in Keys : ~Coming(key)
    <2> SUFFICES ASSUME heard = auditioning, NEW key \in Keys,
                        NEW i \in 1..Len(events), told < i, events[i] = Plays(key)
                 PROVE  FALSE
      BY DEF Coming
    <2>1. Tells(i) /\ events[i].key = key /\ key # None
      BY EvtIs DEF Tells, Keys, None
    <2>2. auditioning < key /\ key <= heard
      BY <1>1, <2>1 DEF InOrder, SaidOrder
    <2> QED BY <1>1, <2>2 DEF Keys
  <1> QED BY <1>1, <1>3, <1>5, <1>6, <1>7, <1>8

(* What plays and was not said yet is on its way. *)
LEMMA PlaysComes ==
    ASSUME SaidLast, plays # None, plays # auditioning
    PROVE  Coming(plays)
  BY DEF SaidLast, LastSaid, Coming

LEMMA NoneWaits ==
    ASSUME TypeOK
    PROVE  ~Waits(None)
  BY CommandIs DEF TypeOK, Waits, Keys, None

\* Nothing said, begun or played since.
SameWork ==
    /\ begun' = begun /\ plays' = plays /\ stuck' = stuck /\ asked' = asked

(* Steps that only send a command, or give up on nothing. *)
LEMMA ComesKept ==
    ASSUME TypeOK, HeardComes, SameSaid, SameWork, \A key : Waits(key)' <=> Waits(key),
           heard' = heard, wanted' = wanted, withdrawn' = withdrawn
    PROVE  HeardComes'
  <1>1. Waits(heard)' <=> Waits(heard)
    BY DEF Waits, Asks
  <1>2. (Coming(heard)' <=> Coming(heard)) /\ (Failing(heard)' <=> Failing(heard))
    BY DEF SameSaid, Coming, Failing, Plays, Evt
  <1> QED BY <1>1, <1>2 DEF HeardComes, Expected, SameSaid, SameWork

LEMMA UnheardKept ==
    ASSUME TypeOK, Unheard, SameSaid, SameWork, \A key : Waits(key)' <=> Waits(key),
           Ending => Ending', heard' = heard, wanted' = wanted, withdrawn' = withdrawn
    PROVE  Unheard'
  <1>1. Waits(wanted)' <=> Waits(wanted)
    BY DEF Waits, Asks
  <1>2. Coming(plays)' <=> Coming(plays)
    BY DEF SameSaid, SameWork, Coming, Plays, Evt
  <1> QED BY <1>1, <1>2 DEF Unheard, SameWork

(* A tone given up on: what it set aside is put back, or it was not played, or is still to come. *)
LEMMA GivesUpUnheard ==
    ASSUME TypeOK, HeardComes, SaidLast, SameWork, GivesUp, SendsOther, queue' \in Seq(Commands),
           \A key : Coming(key) => Coming(key)'
    PROVE  Unheard'
  <1>1. wanted' = None /\ withdrawn' # None /\ withdrawn' = heard
    BY DEF GivesUp, HeardComes
  <1>2. ~Waits(wanted)'
    BY <1>1, NoneWaits, SendsOtherIs DEF Waits, Asks
  <1>3. plays # None /\ withdrawn' = plays => Coming(plays)
    BY <1>1, PlaysComes DEF GivesUp
  <1>4. Coming(plays) => Coming(plays)'
    BY DEF SameWork, Coming
  <1> QED BY <1>1, <1>2, <1>3, <1>4 DEF Unheard, SameWork

-----------------------------------------------------------------------------
(* What is to come, after a step of the window                              *)

LEMMA ClickComes ==
    ASSUME TypeOK, Click
    PROVE  HeardComes' /\ Unheard'
  <1>1. /\ heard' = asked' /\ wanted' = asked' /\ withdrawn' = None /\ heard' # None
    BY ClickAsks DEF Click, Wants, Keys, None
  <1>2. Waits(heard)'
    BY <1>1, ClickAsks DEF Waits, Asks
  <1> QED BY <1>1, <1>2 DEF HeardComes, Expected, Unheard

LEMMA HandsCome ==
    ASSUME TypeOK, InOrder, HeardComes, Unheard, Hands
    PROVE  HeardComes' /\ Unheard'
  <1>1. /\ SameSaid /\ SameWork /\ withdrawn' = withdrawn
        /\ \A key : Waits(key)' <=> Waits(key)
        /\ Ending => Ending'
    BY HandsAre, SendsOtherIs DEF SameSaid, SameWork, frame, worker, ghosts
  <1>2. CASE heard' = heard /\ wanted' = wanted
    BY <1>1, <1>2, ComesKept, UnheardKept
  <1>3. CASE /\ heard' = None /\ Ending'
             /\ wanted' = None \/ (heard # None /\ heard = auditioning /\ wanted' = wanted)
    <2>1. HeardComes'
      BY <1>3 DEF HeardComes
    <2>2. wanted' = None \/ ~Waits(wanted')
      BY <1>3, HeardIsLast
    <2>3. ~Waits(wanted)'
      BY <1>1, <2>2, NoneWaits DEF Waits, Asks
    <2> QED BY <1>3, <2>1, <2>3 DEF Unheard
  <1> QED BY <1>2, <1>3, HandsAre

LEMMA DrawComes ==
    ASSUME TypeOK, HeardComes, Unheard, Draw
    PROVE  HeardComes' /\ Unheard'
  <1>1. /\ SameSaid /\ SameWork /\ queue' = queue
        /\ heard' = heard /\ wanted' = wanted /\ withdrawn' = withdrawn
    BY DEF Draw, SameSaid, SameWork, worker, bounds, ghosts
  <1>2. (\A key : Waits(key)' <=> Waits(key)) /\ (Ending => Ending')
    BY <1>1 DEF Waits, Asks, Ending
  <1> QED BY <1>1, <1>2, ComesKept, UnheardKept

LEMMA VanishComes ==
    ASSUME TypeOK, HeardComes, Unheard, SaidLast, Vanish
    PROVE  HeardComes' /\ Unheard'
  <1>1. GivesUp /\ SendsOther /\ Rests /\ events' = events /\ told' = told
    BY WithdrawsIs DEF Vanish, Loading, frame
  <1>2. SameWork /\ queue' \in Seq(Commands) /\ \A key : Coming(key) => Coming(key)'
    BY <1>1, SendsOtherIs DEF SameWork, Rests, worker, ghosts, Coming, Plays, Evt
  <1> QED BY <1>1, <1>2, GivesUpUnheard DEF HeardComes, GivesUp

LEMMA SettleComes ==
    ASSUME TypeOK, InOrder, HeardComes, Unheard, SaidLast, Settle
    PROVE  HeardComes' /\ Unheard'
  <1>1. Drops /\ SendsOther /\ Rests /\ auditioning' = auditioning
    BY SettleIs
  <1>2. /\ SameWork /\ queue' \in Seq(Commands) /\ \A key : Coming(key) => Coming(key)'
        /\ \A key : Waits(key)' <=> Waits(key)
        /\ Ending => Ending'
    BY <1>1, SendsOtherIs, DropsIs DEF SameWork, Rests, worker, ghosts
  <1>3. CASE GivesUp
    BY <1>1, <1>2, <1>3, GivesUpUnheard DEF HeardComes, GivesUp
  <1>4. CASE /\ heard # None /\ heard' = None /\ Failing(heard)
             /\ wanted' = wanted /\ withdrawn' = withdrawn
    <2>1. ~Waits(wanted) /\ begun = None /\ plays = None
      BY <1>4, HeardIsLast
    <2>2. ~Waits(wanted)'
      BY <1>2, <1>4, <2>1 DEF Waits, Asks
    <2> QED BY <1>2, <1>4, <2>1, <2>2 DEF HeardComes, Unheard, SameWork
  <1>5. CASE /\ wanted' = wanted /\ withdrawn' = withdrawn /\ heard' = heard
             /\ (heard # None => \A i \in 1..batch : events[i] # Evt("AuditionFailed", heard))
    <2>1. Waits(wanted)' <=> Waits(wanted)
      BY <1>2, <1>5 DEF Waits, Asks
    <2>2. Waits(heard)' <=> Waits(heard)
      BY <1>2, <1>5 DEF Waits, Asks
    <2>3. (Coming(heard) => Coming(heard)') /\ (Coming(plays) => Coming(plays)')
      BY <1>2, <1>5 DEF Coming, SameWork
    <2>4. heard # None /\ Failing(heard) => Failing(heard)'
      <3> SUFFICES ASSUME heard # None, NEW i \in 1..Len(events),
                          events[i] = Evt("AuditionFailed", heard)
                   PROVE  Failing(heard)'
        BY DEF Failing
      <3>1. i \notin 1..batch
        BY <1>5
      <3>2. batch < i
        BY <3>1, LenProperties DEF TypeOK
      <3>3. i - batch \in 1..Len(events') /\ events'[i - batch] = events[i]
        BY <1>1, <3>2, DropsIs
      <3> QED BY <1>5, <3>3 DEF Failing, Evt
    <2>5. HeardComes'
      BY <1>1, <1>2, <1>5, <2>2, <2>3, <2>4 DEF HeardComes, Expected, SameWork
    <2>6. Unheard'
      BY <1>2, <1>5, <2>1, <2>3 DEF Unheard, SameWork
    <2> QED BY <2>5, <2>6
  <1> QED BY <1>3, <1>4, <1>5, SettleIs

LEMMA HearComes ==
    ASSUME TypeOK, InOrder, HeardComes, Unheard, SaidLast, Hear
    PROVE  HeardComes' /\ Unheard'
  <1>1. PICK i \in 1..Len(events) :
            Goes(i) /\ (Returns(events[i].key) \/ Follows(events[i].key))
    BY HearIs
  <1>2. /\ told < i /\ Tells(i) /\ told' = i /\ events' = events /\ auditioning' = events[i].key
        /\ i \in 1..Len(events) /\ Len(events) \in Nat /\ told \in Nat
        /\ \A j \in 1..Len(events) : told < j /\ j < i => ~Tells(j)
    BY <1>1, LenProperties DEF Goes, TypeOK
  <1>3. /\ SameWork /\ queue' \in Seq(Commands)
        /\ \A key : Waits(key)' <=> Waits(key)
        /\ Ending => Ending'
    BY HearIs, SendsOtherIs DEF SameWork, Rests, worker, ghosts
  <1>4. ASSUME NEW key, Coming(key)
        PROVE  auditioning' = key \/ Coming(key)'
    <2>1. PICK m \in 1..Len(events) : told < m /\ events[m] = Plays(key)
      BY <1>4 DEF Coming
    <2>2. Tells(m) /\ events[m].key = key
      BY <2>1, EvtIs DEF Tells
    <2>3. i = m \/ i < m
      BY <1>2, <2>1, <2>2
    <2>4. i < m => Coming(key)'
      BY <1>2, <2>1 DEF Coming, Plays, Evt
    <2> QED BY <1>2, <2>2, <2>3, <2>4
  <1>5. CASE Returns(events[i].key)
    <2>1. heard' = None /\ wanted' = None /\ Ending'
      <3>1. Cmd("EndAudition") \in Commands /\ Cmd("EndAudition").kind = "EndAudition"
        BY CmdIs
      <3> QED BY <1>5, <3>1, QueueOther DEF Returns, TypeOK
    <2>2. ~Waits(wanted)'
      BY <1>3, <2>1, NoneWaits DEF Waits, Asks
    <2> QED BY <2>1, <2>2 DEF HeardComes, Unheard
  <1>6. CASE Follows(events[i].key)
    <2>1. /\ wanted' = wanted /\ withdrawn' = withdrawn
          /\ ~(events[i].key # None /\ events[i].key = withdrawn /\ heard = None)
          /\ heard' = IF events[i].key = None /\ (heard = None \/ heard = auditioning)
                      THEN None ELSE heard
      BY <1>6 DEF Follows
    <2>2. Waits(wanted)' <=> Waits(wanted)
      BY <1>3, <2>1 DEF Waits, Asks
    <2>3. CASE heard = None
      <3>1. heard' = None
        BY <2>1, <2>3
      <3>2. plays # None /\ withdrawn = plays /\ Coming(plays) => Coming(plays)'
        <4>1. plays # None /\ withdrawn = plays => auditioning' # plays
          BY <1>2, <2>1, <2>3
        <4> QED BY <1>3, <1>4, <4>1 DEF Coming, SameWork
      <3> QED BY <1>3, <2>1, <2>2, <2>3, <3>1, <3>2 DEF HeardComes, Unheard, SameWork
    <2>4. CASE heard # None /\ heard = auditioning
      <3>1. /\ ~Waits(wanted) /\ begun = None /\ \A key \in Keys : ~Coming(key)
        BY <2>4, HeardIsLast
      <3>2. Coming(events[i].key)
        BY <1>2, EventIs DEF Coming, Tells, Plays, Evt, TypeOK
      <3>3. events[i].key = None
        BY <3>1, <3>2, EventIs, HearingAssumption DEF TypeOK, Keys, None
      <3>4. heard' = None
        BY <2>1, <2>4, <3>3
      <3>5. plays = None
        <4>1. LastSaid(plays) => Coming(plays)
          BY <1>2 DEF LastSaid, Coming
        <4>2. plays # None => Coming(plays) /\ plays \in Keys
          BY <4>1, HearingAssumption DEF SaidLast, TypeOK, Keys, None
        <4> QED BY <3>1, <4>2
      <3> QED BY <1>3, <2>2, <3>1, <3>4, <3>5 DEF HeardComes, Unheard, SameWork
    <2>5. CASE heard # None /\ heard # auditioning
      <3>1. heard' = heard
        BY <2>1, <2>5
      <3>2. Waits(heard)' <=> Waits(heard)
        BY <1>3, <3>1 DEF Waits, Asks
      <3>3. Failing(heard) => Failing(heard)'
        BY <1>2, <3>1 DEF Failing, Evt
      <3>4. Coming(heard) => auditioning' = heard \/ Coming(heard)'
        BY <1>4, <3>1 DEF Coming
      <3>5. HeardComes'
        BY <1>3, <2>1, <2>5, <3>1, <3>2, <3>3, <3>4 DEF HeardComes, Expected, SameWork
      <3> QED BY <2>5, <3>1, <3>5 DEF Unheard
    <2> QED BY <2>3, <2>4, <2>5
  <1> QED BY <1>1, <1>5, <1>6

-----------------------------------------------------------------------------
(* What is to come, after a step of the worker                              *)

LEMMA PassOverComes ==
    ASSUME TypeOK, HeardComes, Unheard, PassOver
    PROVE  HeardComes' /\ Unheard'
  <1>1. /\ SameSaid /\ SameWork
        /\ heard' = heard /\ wanted' = wanted /\ withdrawn' = withdrawn
        /\ queue # <<>> /\ queue' = Tail(queue)
        /\ Head(queue).kind = "Audition" /\ wanted # Head(queue).key
    BY DEF PassOver, Handles, StillWanted, SameSaid, SameWork, frame, worker, window, ghosts
  <1>2. /\ Head(queue) = queue[1]
        /\ \A key : Waits(key)' => Waits(key)
        /\ \A key : Waits(key) => Waits(key)' \/ (Asks(1) /\ queue[1].key = key)
        /\ Ending => Ending'
    BY <1>1, QueuePops DEF TypeOK
  <1>3. Waits(wanted)' <=> Waits(wanted)
    BY <1>1, <1>2 DEF Waits, Asks
  <1>4. wanted = heard => (Waits(heard)' <=> Waits(heard))
    BY <1>1, <1>3 DEF Waits, Asks
  <1>5. /\ Coming(plays)' <=> Coming(plays)
        /\ Coming(heard)' <=> Coming(heard)
        /\ Failing(heard)' <=> Failing(heard)
    BY <1>1 DEF SameSaid, SameWork, Coming, Failing, Plays, Evt
  <1>6. HeardComes'
    BY <1>1, <1>4, <1>5 DEF HeardComes, Expected, SameSaid, SameWork
  <1>7. Unheard'
    BY <1>1, <1>2, <1>3, <1>5 DEF Unheard, SameWork
  <1> QED BY <1>6, <1>7

LEMMA BeginComes ==
    ASSUME TypeOK, InOrder, HeardComes, Unheard, Begin
    PROVE  HeardComes' /\ Unheard'
  <1>1. /\ begun' = wanted /\ Waits(wanted) /\ heard' = heard /\ wanted' = wanted
        /\ withdrawn' = withdrawn /\ asked' = asked
    BY BeginIs DEF window
  <1>2. heard # None
    BY <1>1 DEF Unheard
  <1> QED BY <1>1, <1>2 DEF HeardComes, Expected, Unheard

LEMMA FinishComes ==
    ASSUME TypeOK, HeardComes, Unheard, Finish
    PROVE  HeardComes' /\ Unheard'
  <1>1. /\ begun' = None /\ begun # None /\ queue' = queue /\ told' = told
        /\ heard' = heard /\ wanted' = wanted /\ withdrawn' = withdrawn
        /\ auditioning' = auditioning /\ asked' = asked
    BY FinishIs DEF frame, window, Keys, None
  <1>2. PICK t \in Seq(Events) :
               /\ events' = events \o t
               /\ \/ plays' = begun /\ t = Played
                  \/ plays' = None /\ 2 <= Len(t) /\ t[1] = Evt("AuditionFailed", begun)
    BY FinishSays
  <1>3. /\ \A i \in 1..Len(events) : i \in 1..Len(events') /\ events'[i] = events[i]
        /\ \A j \in 1..Len(t) : /\ Len(events) + j \in 1..Len(events')
                                /\ events'[Len(events) + j] = t[j]
        /\ Len(events) \in Nat /\ Len(t) \in Nat /\ told \in Nat /\ told <= Len(events)
    BY <1>2, EventsGrow DEF TypeOK
  <1>4. \A key : Coming(key) => Coming(key)'
    BY <1>1, <1>3 DEF Coming, Plays, Evt
  <1>5. \A key : Failing(key) => Failing(key)'
    BY <1>3 DEF Failing, Evt
  <1>6. /\ plays' = begun => \A key : key = begun => Coming(key)'
        /\ plays' = None => \A key : key = begun => Failing(key)'
    <2>1. CASE plays' = begun /\ t = Played
      <3>1. 1 \in 1..Len(t) /\ t[1] = Plays(begun)
        BY <2>1 DEF Played
      <3>2. Len(events) + 1 \in 1..Len(events') /\ events'[Len(events) + 1] = Plays(begun)
            /\ told' < Len(events) + 1
        BY <1>1, <1>3, <3>1
      <3>3. \A key : key = begun => Coming(key)'
        BY <3>2 DEF Coming, Plays, Evt
      <3> QED BY <1>1, <2>1, <3>3
    <2>2. CASE plays' = None /\ 2 <= Len(t) /\ t[1] = Evt("AuditionFailed", begun)
      <3>1. /\ Len(events) + 1 \in 1..Len(events')
            /\ events'[Len(events) + 1] = Evt("AuditionFailed", begun)
        BY <1>3, <2>2
      <3>2. \A key : key = begun => Failing(key)'
        BY <3>1 DEF Failing, Evt
      <3> QED BY <1>1, <2>2, <3>2
    <2> QED BY <1>2, <2>1, <2>2
  <1>7. plays' \in {begun, None}
    BY <1>2
  <1>8. /\ Waits(heard)' <=> Waits(heard)
        /\ Waits(wanted)' <=> Waits(wanted)
        /\ Ending' <=> Ending
    BY <1>1 DEF Waits, Asks, Ending
  <1>9. (Coming(heard) => Coming(heard)') /\ (Failing(heard) => Failing(heard)')
    BY <1>1, <1>4, <1>5 DEF Coming, Failing
  <1>10. heard = begun => Coming(heard)' \/ Failing(heard)'
    BY <1>1, <1>6, <1>7 DEF Coming, Failing
  <1>11. plays' # None => Coming(plays)'
    BY <1>6, <1>7 DEF Coming
  <1>12. HeardComes'
    BY <1>1, <1>8, <1>9, <1>10 DEF HeardComes, Expected
  <1>13. Unheard'
    BY <1>1, <1>7, <1>8, <1>11 DEF Unheard
  <1> QED BY <1>12, <1>13

LEMMA OthersCome ==
    ASSUME TypeOK, HeardComes, Unheard, SaidLast, Others
    PROVE  HeardComes' /\ Unheard'
  <1>1. /\ begun = None /\ begun' = None /\ told' = told /\ asked' = asked
        /\ heard' = heard /\ wanted' = wanted /\ withdrawn' = withdrawn
        /\ auditioning' = auditioning
        /\ queue # <<>> /\ queue' = Tail(queue) /\ Head(queue).kind # "Audition"
        /\ EndsAloud \/ EndsSilently \/ EndsNothing
    BY OthersAre DEF frame, window
  <1>2. /\ Head(queue) = queue[1]
        /\ \A key : Waits(key)' => Waits(key)
        /\ \A key : Waits(key) => Waits(key)' \/ (Asks(1) /\ queue[1].key = key)
        /\ Ending => Ending' \/ Head(queue).kind \in {"EndAudition", "KeepAudition"}
    BY <1>1, QueuePops DEF TypeOK
  <1>3. \A key : Waits(key)' <=> Waits(key)
    BY <1>1, <1>2 DEF Asks
  <1>4. (Waits(heard)' <=> Waits(heard)) /\ (Waits(wanted)' <=> Waits(wanted))
    BY <1>1, <1>3 DEF Waits, Asks
  <1>5. (Coming(heard) => Coming(heard)') /\ (Failing(heard) => Failing(heard)')
    <2>1. /\ \A key : Coming(key) => Coming(key)'
          /\ \A key : Failing(key) => Failing(key)'
      BY <1>1, OthersSay, SaysNoKey
    <2> QED BY <1>1, <2>1 DEF Coming, Failing
  <1>6. HeardComes'
    BY <1>1, <1>4, <1>5 DEF HeardComes, Expected
  <1>7. CASE plays' = None
    BY <1>1, <1>4, <1>6, <1>7 DEF Unheard
  <1>8. CASE plays' # None /\ EndsNothing
    <2>1. /\ plays' = plays /\ events' = events
          /\ stuck' \/ (stuck' = stuck /\ (Ending => Ending'))
      BY <1>2, <1>8 DEF EndsNothing, SaidLast
    <2>2. Coming(plays) => Coming(plays)'
      BY <1>1, <2>1 DEF Coming, Plays, Evt
    <2>3. Unheard'
      BY <1>1, <1>4, <1>8, <2>1, <2>2 DEF Unheard
    <2> QED BY <1>6, <2>3
  <1>9. HeardComes' /\ Unheard'
    BY <1>1, <1>7, <1>8 DEF EndsAloud, EndsSilently
  <1> QED BY <1>9

-----------------------------------------------------------------------------
(* The invariant                                                            *)

LEMMA ComesInvariant ==
    ASSUME IInv, [Next]_vars
    PROVE  HeardComes' /\ Unheard'
  <1>1. CASE UNCHANGED vars
    <2>1. /\ SameSaid /\ SameWork /\ queue' = queue
          /\ heard' = heard /\ wanted' = wanted /\ withdrawn' = withdrawn
      BY <1>1 DEF vars, SameSaid, SameWork, frame, worker, window, bounds, ghosts
    <2>2. (\A key : Waits(key)' <=> Waits(key)) /\ (Ending => Ending')
      BY <2>1 DEF Waits, Asks, Ending
    <2> QED BY <2>1, <2>2, ComesKept, UnheardKept DEF IInv
  <1> QED BY <1>1, Steps, ClickComes, HandsCome, VanishComes, DrawComes, HearComes, SettleComes,
             PassOverComes, BeginComes, FinishComes, OthersCome DEF IInv

LEMMA InitIInv == Init => IInv
  <1> SUFFICES ASSUME Init
               PROVE  IInv
    OBVIOUS
  <1>1. Len(queue) = 0 /\ Len(events) = 0
    BY EmptySeq DEF Init
  <1>2. TypeOK
    <2>1. Flags
      BY DEF Init, Flags
    <2>2. Lines
      BY <1>1 DEF Init, Lines
    <2>3. Numbers
      BY HearingAssumption DEF Init, Numbers, None
    <2> QED BY <2>1, <2>2, <2>3, Zenon DEF TypeOK, Flags, Lines, Numbers
  <1>3. InOrder
    BY <1>1 DEF Init, InOrder, Bounded, WaitsOrder, BegunOrder, SaidOrder, FailedOrder, Waits, None
  <1>4. SaidLast
    BY <1>1 DEF Init, SaidLast, LastSaid
  <1>5. HeardComes /\ Unheard
    BY <1>1 DEF Init, HeardComes, Unheard, Waits
  <1> QED BY <1>2, <1>3, <1>4, <1>5 DEF IInv

LEMMA StepIInv == IInv /\ [Next]_vars => IInv'
  BY TypeKept, OrderInvariant, LastInvariant, ComesInvariant DEF IInv

(* IInv holds of every state the two threads reach. *)
THEOREM Invariance == Spec => []IInv
  BY InitIInv, StepIInv, PTL DEF Spec

(* The commands, the events and the keys keep their range, whatever is sent, refused or lost: no
   key is played, heard or given up on but one that was asked for. *)
THEOREM TypeCorrect == Spec => []TypeOK
  <1>1. IInv => TypeOK
    BY DEF IInv
  <1> QED BY <1>1, Invariance, PTL

(* For any number of clicks, other commands, refusals, losses and tones that vanish: with nothing
   in flight the window takes for playing what the worker plays (audition_event), a tone it says
   it hears is that one, and one given up on does not play (withdraw_heard). *)
THEOREM WindowIsRightHolds == Spec => []WindowIsRight
  <1>1. IInv => WindowIsRight
    <2> SUFFICES ASSUME IInv, Quiet, device, ~unsaid
                 PROVE  /\ auditioning = plays /\ (heard # None => heard = plays)
                        /\ ~stuck /\ heard = None => plays = None \/ withdrawn \notin {None, plays}
      BY DEF WindowIsRight, HeardPlays, NothingUnwanted
    <2>1. Len(queue) = 0 /\ Len(events) = 0 /\ begun = None
      BY EmptySeq DEF Quiet
    <2>2. auditioning = plays
      BY <2>1 DEF IInv, SaidLast, LastSaid
    <2>3. heard # None => heard = plays
      BY <2>1, <2>2 DEF IInv, HeardComes, Expected, Waits, Failing, Coming
    <2>4. ~stuck /\ heard = None => plays = None \/ withdrawn \notin {None, plays}
      BY <2>1 DEF IInv, Unheard, Ending, Coming
    <2> QED BY <2>2, <2>3, <2>4
  <1> QED BY <1>1, Invariance, PTL
=============================================================================
