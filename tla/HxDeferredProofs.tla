-------------------------- MODULE HxDeferredProofs --------------------------
(***************************************************************************)
(* HxDeferred's invariants for any values and any number of transactions,   *)
(* for callers that let go of a session whose call failed                   *)
(* (Error::loses_session).                                                  *)
(***************************************************************************)
EXTENDS HxDeferred, FiniteSetTheorems, TLAPS

\* The one commit in the pedal is `what', and its value is not shown yet.
Running(what, value) ==
    /\ shown[Thing(what)] # value
    /\ \E t \in 1..MaxTxn : inflight = {[op |-> what, value |-> value, txn |-> t]}

Settled == inflight = {}

\* What is in the pedal while a call stands where it does.
Waits ==
    /\ pc \in {"idle", "listed"} => Settled
    /\ pc \in {"await", "ready", "verify"} =>
          /\ op.what \in {"select", "write"}
          /\ Settled \/ Running(op.what, op.value)
    /\ pc \in {"listed", "clearing", "uploading"} => op.value \in Values
    /\ pc = "clearing" => Settled \/ Running("clear", Empty)
    /\ pc = "uploading" => Settled \/ Running("upload", op.value)
    /\ pc = "gone" => Settled \/ \E what, value : \E t \in 1..MaxTxn :
                                     inflight = {[op |-> what, value |-> value, txn |-> t]}

\* While nothing was asked for that the pedal showed already.
IInv == TypeOK /\ (unseen \/ Waits)

-----------------------------------------------------------------------------

(* Loading, writing, clearing and uploading leave every thing showing a value. *)
LEMMA AfterType ==
    ASSUME TypeOK, NEW commit \in Commits
    PROVE  After(commit) \in [Things -> Values \cup {Empty}]
  BY DEF After, TypeOK, Commits, Things, Thing

(* At most one commit: whatever the call is doing, the pedal holds none or one. *)
LEMMA OneAtMost ==
    ASSUME Waits, TypeOK
    PROVE  Cardinality(inflight) <= 1
  <1>1. \/ inflight = {}
        \/ \E commit : inflight = {commit}
    BY DEF Waits, Settled, Running, TypeOK
  <1>2. CASE inflight = {}
    BY <1>2, FS_EmptySet
  <1>3. CASE \E commit : inflight = {commit}
    BY <1>3, FS_Singleton
  <1> QED BY <1>1, <1>2, <1>3

(* The first state has every call settled. *)
LEMMA InitIInv ==
    ASSUME DeferredAssumption
    PROVE  Init => IInv
  <1> SUFFICES ASSUME Init PROVE IInv
    OBVIOUS
  <1>1. TypeOK
    <2>1. /\ inflight \subseteq Commits
          /\ coming \subseteq Completions
          /\ waiting \subseteq Completions
      BY DEF Init
    <2>2. txn \in [Channels -> 0..MaxTxn]
      BY DeferredAssumption DEF Init, DeferredAssumption
    <2>3. op \in [what : Calls \cup {"none"}, value : Values \cup {Empty}]
      BY DEF Init
    <2> QED BY <2>1, <2>2, <2>3 DEF Init, TypeOK
  <1>2. Waits
    BY DEF Init, Waits, Settled
  <1> QED BY <1>1, <1>2 DEF IInv

(* Every step keeps every variable to its kind. *)
LEMMA StepType ==
    ASSUME DeferredAssumption, TypeOK, [Next]_vars
    PROVE  TypeOK'
  <1> USE DEF DeferredAssumption
  <1>1. CASE Lands
    <2>1. PICK commit \in inflight :
            /\ shown' = After(commit) /\ inflight' = inflight \ {commit}
            /\ \E announced \in BOOLEAN :
                 coming' = IF announced
                           THEN coming \cup {[chan |-> ChannelOf(commit.op), txn |-> commit.txn]}
                           ELSE coming
            /\ UNCHANGED <<waiting, txn, pc, op, poisoned, last, unseen>>
      BY <1>1 DEF Lands
    <2>2. commit \in Commits
      BY DEF TypeOK
    <2>3. shown' \in [Things -> Values \cup {Empty}]
      BY <2>1, <2>2, AfterType
    <2>4. [chan |-> ChannelOf(commit.op), txn |-> commit.txn] \in Completions
      BY <2>2 DEF Commits, Completions, ChannelOf, Channels
    <2>5. coming' \subseteq Completions
      BY <2>1, <2>4 DEF TypeOK
    <2> QED BY <2>1, <2>3, <2>5 DEF TypeOK
  <1>2. CASE Arrives
    BY <1>2 DEF Arrives, TypeOK, pedalVars
  <1>3. CASE SendDeferred
    <2>1. PICK what \in {"select", "write"}, value \in Values, t \in 1..MaxTxn :
            /\ Asks(what, value) /\ Numbered("data", t) /\ waiting' = {} /\ UNCHANGED coming
            /\ LET commit == [op |-> what, value |-> value, txn |-> t]
               IN \/ /\ inflight' = inflight \cup {commit} /\ UNCHANGED shown
                     /\ pc' = "await" /\ UNCHANGED last
                  \/ /\ shown' = After(commit) /\ UNCHANGED inflight
                     /\ pc' = "verify" /\ UNCHANGED last
                  \/ Refused /\ UNCHANGED pedalVars
                  \/ Fails("unanswered") /\ (Takes(commit) \/ UNCHANGED pedalVars)
            /\ UNCHANGED poisoned
      BY <1>3 DEF SendDeferred
    <2>2. [op |-> what, value |-> value, txn |-> t] \in Commits
      BY DEF Commits
    <2>3. After([op |-> what, value |-> value, txn |-> t]) \in [Things -> Values \cup {Empty}]
      BY <2>2, AfterType
    <2>4. shown' \in [Things -> Values \cup {Empty}] /\ inflight' \subseteq Commits
      BY <2>1, <2>2, <2>3 DEF TypeOK, Takes, pedalVars
    <2>5. txn' \in [Channels -> 0..MaxTxn] /\ op' \in [what : Calls \cup {"none"}, value : Values \cup {Empty}]
      BY <2>1 DEF TypeOK, Numbered, Asks, Channels
    <2>6. /\ pc' \in {"idle", "await", "ready", "verify", "listed", "clearing", "uploading", "gone"}
          /\ last' \in {"none", "ok", "refused", "unanswered", "abandoned"}
      BY <2>1 DEF TypeOK, Refused, Fails
    <2>7. unseen' \in BOOLEAN
      BY <2>1 DEF TypeOK, Asks
    <2> QED BY <2>1, <2>4, <2>5, <2>6, <2>7 DEF TypeOK
  <1>4. CASE TakeCompletions
    BY <1>4 DEF TakeCompletions, TypeOK, pedalVars
  <1>5. CASE StopWaiting \/ ReadyAnswer
    BY <1>5 DEF StopWaiting, ReadyAnswer, TypeOK, pedalVars, newsVars
  <1>6. CASE Abandon \/ GiveUp
    BY <1>6 DEF Abandon, GiveUp, Fails, TypeOK, pedalVars, newsVars
  <1>7. CASE Verify
    BY <1>7 DEF Verify, Returns, TypeOK, pedalVars
  <1>8. CASE StartUpload
    BY <1>8 DEF StartUpload, Asks, TypeOK, pedalVars, newsVars
  <1>9. CASE ClearFirst
    <2>1. PICK t \in 1..MaxTxn :
            /\ Numbered("control", t)
            /\ LET commit == [op |-> "clear", value |-> Empty, txn |-> t]
               IN \/ Takes(commit) /\ pc' = "clearing" /\ UNCHANGED last
                  \/ Refused /\ UNCHANGED pedalVars
                  \/ Fails("unanswered") /\ (Takes(commit) \/ UNCHANGED pedalVars)
      BY <1>9 DEF ClearFirst
    <2>2. [op |-> "clear", value |-> Empty, txn |-> t] \in Commits
      BY DEF Commits
    <2>3. After([op |-> "clear", value |-> Empty, txn |-> t]) \in [Things -> Values \cup {Empty}]
      BY <2>2, AfterType
    <2>4. shown' \in [Things -> Values \cup {Empty}] /\ inflight' \subseteq Commits
      BY <2>1, <2>2, <2>3 DEF TypeOK, Takes, pedalVars
    <2>5. txn' \in [Channels -> 0..MaxTxn]
      BY <2>1 DEF TypeOK, Numbered, Channels
    <2>6. /\ pc' \in {"idle", "await", "ready", "verify", "listed", "clearing", "uploading", "gone"}
          /\ last' \in {"none", "ok", "refused", "unanswered", "abandoned"}
      BY <2>1 DEF TypeOK, Refused, Fails
    <2> QED BY <1>9, <2>4, <2>5, <2>6 DEF TypeOK, ClearFirst, newsVars
  <1>10. CASE SendUpload
    <2>1. PICK t \in 1..MaxTxn :
            /\ Numbered("control", t)
            /\ LET commit == [op |-> "upload", value |-> op.value, txn |-> t]
               IN \/ Takes(commit) /\ pc' = "uploading" /\ UNCHANGED last
                  \/ Refused /\ UNCHANGED pedalVars
                  \/ Fails("unanswered") /\ (Takes(commit) \/ UNCHANGED pedalVars)
      BY <1>10 DEF SendUpload
    <2>2. [op |-> "upload", value |-> op.value, txn |-> t] \in Commits
      BY DEF Commits, TypeOK
    <2>3. After([op |-> "upload", value |-> op.value, txn |-> t]) \in [Things -> Values \cup {Empty}]
      BY <2>2, AfterType
    <2>4. shown' \in [Things -> Values \cup {Empty}] /\ inflight' \subseteq Commits
      BY <2>1, <2>2, <2>3 DEF TypeOK, Takes, pedalVars
    <2>5. txn' \in [Channels -> 0..MaxTxn]
      BY <2>1 DEF TypeOK, Numbered, Channels
    <2>6. /\ pc' \in {"idle", "await", "ready", "verify", "listed", "clearing", "uploading", "gone"}
          /\ last' \in {"none", "ok", "refused", "unanswered", "abandoned"}
      BY <2>1 DEF TypeOK, Refused, Fails
    <2> QED BY <1>10, <2>4, <2>5, <2>6 DEF TypeOK, SendUpload, newsVars
  <1>11. CASE UploadShows
    BY <1>11 DEF UploadShows, Returns, TypeOK, pedalVars, newsVars
  <1>12. CASE UNCHANGED vars
    BY <1>12 DEF vars, TypeOK
  <1> QED BY <1>1, <1>2, <1>3, <1>4, <1>5, <1>6, <1>7, <1>8, <1>9, <1>10, <1>11, <1>12
        DEF Next, Pedal, Host

(* Every step leaves the pedal holding no commit but the call's own, unless    *)
(* what it was asked for showed already: a commit that lands shows, and a call *)
(* returns only once it does.                                                  *)
LEMMA StepWaits ==
    ASSUME DeferredAssumption, ~CallerContinues, IInv, [Next]_vars
    PROVE  (unseen \/ Waits)'
  <1> SUFFICES ASSUME ~unseen' PROVE Waits'
    OBVIOUS
  <1> USE DEF DeferredAssumption
  <1>0. TypeOK
    BY DEF IInv
  <1>w. unseen' = unseen => Waits
    BY DEF IInv
  <1>i. pc = "idle" /\ (unseen => inflight = {}) => inflight = {}
    BY DEF IInv, Waits, Settled
  <1>1. CASE Lands
    <2>1. PICK commit \in inflight :
            /\ shown' = After(commit) /\ inflight' = inflight \ {commit}
            /\ UNCHANGED <<waiting, txn, pc, op, poisoned, last, unseen>>
      BY <1>1 DEF Lands
    <2>2. inflight = {commit}
      BY <1>0, <1>w, <2>1 DEF Waits, Settled, Running, TypeOK
    <2>3. inflight' = {}
      BY <2>1, <2>2
    <2> QED BY <1>0, <1>w, <2>1, <2>3 DEF Waits, Settled
  <1>2. CASE Arrives
    BY <1>0, <1>w, <1>2 DEF Arrives, Waits, Settled, Running, pedalVars
  <1>3. CASE SendDeferred
    <2>1. PICK what \in {"select", "write"}, value \in Values, t \in 1..MaxTxn :
            /\ Asks(what, value)
            /\ LET commit == [op |-> what, value |-> value, txn |-> t]
               IN \/ /\ inflight' = inflight \cup {commit} /\ UNCHANGED shown
                     /\ pc' = "await" /\ UNCHANGED last
                  \/ /\ shown' = After(commit) /\ UNCHANGED inflight
                     /\ pc' = "verify" /\ UNCHANGED last
                  \/ Refused /\ UNCHANGED pedalVars
                  \/ Fails("unanswered") /\ (Takes(commit) \/ UNCHANGED pedalVars)
      BY <1>3 DEF SendDeferred
    <2>2. /\ inflight = {} /\ shown[Thing(what)] # value
          /\ op'.what = what /\ op'.value = value
      BY <1>i, <2>1 DEF Asks
    <2>3. CASE inflight' = inflight \cup {[op |-> what, value |-> value, txn |-> t]}
               /\ UNCHANGED shown /\ pc' = "await"
      <3>1. Running(what, value)'
        BY <2>2, <2>3 DEF Running
      <3> QED BY <2>2, <2>3, <3>1 DEF Waits
    <2>4. CASE UNCHANGED inflight
      BY <2>1, <2>2, <2>4 DEF Waits, Settled, Refused, Fails
    <2>5. CASE Fails("unanswered") /\ Takes([op |-> what, value |-> value, txn |-> t])
      <3>1. inflight' = {} \/ inflight' = {[op |-> what, value |-> value, txn |-> t]}
        BY <2>2, <2>5 DEF Takes
      <3>2. pc' = "gone"
        BY <2>5 DEF Fails
      <3> QED BY <3>1, <3>2 DEF Waits, Settled
    <2> QED BY <2>1, <2>3, <2>4, <2>5 DEF pedalVars
  <1>4. CASE TakeCompletions
    BY <1>0, <1>w, <1>4 DEF TakeCompletions, Waits, Settled, Running, pedalVars
  <1>5. CASE StopWaiting \/ ReadyAnswer
    BY <1>0, <1>w, <1>5 DEF StopWaiting, ReadyAnswer, Waits, Settled, Running, pedalVars
  <1>6. CASE Abandon \/ GiveUp
    <2>1. pc' = "gone" /\ inflight' = inflight
      BY <1>6 DEF Abandon, GiveUp, Fails, pedalVars
    <2> QED BY <1>0, <1>w, <1>6, <2>1 DEF Abandon, GiveUp, Waits, Settled, Running
  <1>7. CASE Verify
    <2>1. CASE shown[Thing(op.what)] = op.value
      <3>1. inflight = {}
        BY <1>0, <1>w, <1>7, <2>1 DEF Verify, Waits, Settled, Running
      <3> QED BY <1>7, <2>1, <3>1 DEF Verify, Returns, Waits, Settled, pedalVars
    <2>2. CASE shown[Thing(op.what)] # op.value
      BY <1>0, <1>w, <1>7, <2>2 DEF Verify, Waits, Settled, Running, pedalVars
    <2> QED BY <2>1, <2>2
  <1>8. CASE StartUpload
    BY <1>i, <1>8 DEF StartUpload, Asks, Waits, Settled, pedalVars
  <1>9. CASE ClearFirst
    <2>1. PICK t \in 1..MaxTxn :
            LET commit == [op |-> "clear", value |-> Empty, txn |-> t]
            IN \/ Takes(commit) /\ pc' = "clearing" /\ UNCHANGED last
               \/ Refused /\ UNCHANGED pedalVars
               \/ Fails("unanswered") /\ (Takes(commit) \/ UNCHANGED pedalVars)
      BY <1>9 DEF ClearFirst
    <2>2. inflight = {} /\ shown["ir"] # Empty /\ op.value \in Values /\ op' = op
      BY <1>0, <1>w, <1>9 DEF ClearFirst, Waits, Settled
    <2>3. inflight' = {} \/ (inflight' = {[op |-> "clear", value |-> Empty, txn |-> t]} /\ UNCHANGED shown)
            \/ UNCHANGED pedalVars
      BY <2>1, <2>2 DEF Takes
    <2>4. (Settled \/ Running("clear", Empty))'
      BY <2>2, <2>3 DEF Settled, Running, Thing, pedalVars
    <2>5. pc' = "idle" => inflight' = {}
      BY <2>1, <2>2 DEF Refused, Fails, pedalVars
    <2>6. pc' \in {"clearing", "idle", "gone"}
      BY <2>1 DEF Refused, Fails
    <2> QED BY <2>2, <2>4, <2>5, <2>6 DEF Waits, Settled, Running
  <1>10. CASE SendUpload
    <2>1. PICK t \in 1..MaxTxn :
            LET commit == [op |-> "upload", value |-> op.value, txn |-> t]
            IN \/ Takes(commit) /\ pc' = "uploading" /\ UNCHANGED last
               \/ Refused /\ UNCHANGED pedalVars
               \/ Fails("unanswered") /\ (Takes(commit) \/ UNCHANGED pedalVars)
      BY <1>10 DEF SendUpload
    <2>2. inflight = {} /\ shown["ir"] # op.value /\ op.value \in Values /\ op' = op
      <3>1. CASE pc = "listed" /\ shown["ir"] # op.value
        BY <1>0, <1>w, <1>10, <3>1 DEF SendUpload, Waits, Settled
      <3>2. CASE pc = "clearing" /\ shown["ir"] = Empty
        BY <1>0, <1>w, <1>10, <3>2 DEF SendUpload, Waits, Settled, Running, Thing
      <3> QED BY <1>10, <3>1, <3>2 DEF SendUpload
    <2>3. inflight' = {} \/ (inflight' = {[op |-> "upload", value |-> op.value, txn |-> t]} /\ UNCHANGED shown)
      BY <2>1, <2>2 DEF Takes, pedalVars
    <2>4. (Settled \/ Running("upload", op.value))'
      BY <2>2, <2>3 DEF Settled, Running, Thing
    <2>5. pc' = "idle" => inflight' = {}
      BY <2>1, <2>2 DEF Refused, Fails, pedalVars
    <2>6. pc' \in {"uploading", "idle", "gone"}
      BY <2>1 DEF Refused, Fails
    <2> QED BY <2>2, <2>4, <2>5, <2>6 DEF Waits, Settled, Running
  <1>11. CASE UploadShows
    <2>1. inflight = {}
      BY <1>0, <1>w, <1>11 DEF UploadShows, Waits, Settled, Running, Thing
    <2> QED BY <1>11, <2>1 DEF UploadShows, Returns, Waits, Settled, pedalVars
  <1>12. CASE UNCHANGED vars
    BY <1>0, <1>w, <1>12 DEF vars, Waits, Settled, Running
  <1> QED BY <1>1, <1>2, <1>3, <1>4, <1>5, <1>6, <1>7, <1>8, <1>9, <1>10, <1>11, <1>12
        DEF Next, Pedal, Host

(* TypeOK holds of every behaviour: each variable keeps to its kind, however  *)
(* callers use the session.                                                   *)
THEOREM TypeCorrect ==
    ASSUME DeferredAssumption
    PROVE  Spec => []TypeOK
  <1>1. Init => TypeOK
    BY InitIInv DEF IInv
  <1>2. TypeOK /\ [Next]_vars => TypeOK'
    BY StepType
  <1> QED BY <1>1, <1>2, PTL DEF Spec

(* The pedal holds nothing but the commit of the call in progress, for        *)
(* callers that drop a failed session, unless the call asked for what showed. *)
THEOREM Invariance ==
    ASSUME DeferredAssumption, ~CallerContinues
    PROVE  Spec => []IInv
  <1>1. Init => IInv
    BY InitIInv
  <1>2. IInv /\ [Next]_vars => IInv'
    BY StepType, StepWaits DEF IInv
  <1> QED BY <1>1, <1>2, PTL DEF Spec

(* NoStackedCommits: select_preset, write_preset and upload_ir never send a   *)
(* commit while another runs, whatever the pedal announces and however late,  *)
(* except after a call that asked for what the pedal showed already.          *)
THEOREM NoStackedCommitsHolds ==
    ASSUME DeferredAssumption, ~CallerContinues
    PROVE  Spec => []NoStackedCommits
  <1>1. IInv => NoStackedCommits
    BY OneAtMost DEF IInv, NoStackedCommits
  <1> QED BY <1>1, Invariance, PTL

(* LandsBeforeReturn: a call that reports success has landed, with that one   *)
(* exception.                                                                 *)
THEOREM LandsBeforeReturnHolds ==
    ASSUME DeferredAssumption, ~CallerContinues
    PROVE  Spec => []LandsBeforeReturn
  <1>1. IInv => LandsBeforeReturn
    BY DEF IInv, Waits, Settled, LandsBeforeReturn
  <1> QED BY <1>1, Invariance, PTL

=============================================================================
