--------------------------- MODULE HxEditorProofs ---------------------------
(***************************************************************************)
(* HxEditor's invariants for any presets, versions of a document and bound  *)
(* of the undo history, and whatever commands are submitted.                *)
(***************************************************************************)
EXTENDS HxEditor, TLAPS

\* An undo and a redo stack within the bound they share.
Stacked(back, forth) ==
    /\ back \in Seq(Docs) /\ forth \in Seq(Docs)
    /\ Len(back) + Len(forth) <= MaxHistory

\* A buffer and its undo state, set aside.
SetAsideOK(kept) ==
    /\ kept.original \in Docs /\ kept.dirty \in BOOLEAN /\ kept.taken \in BOOLEAN
    /\ Stacked(kept.history, kept.future)

Asides ==
    /\ audition # None => SetAsideOK(audition)
    /\ trial # None => SetAsideOK(trial)

\* A command is at work, not the reload or the poll after it.
Acting == pc \notin {"idle", "read", "ask"}

CommandOK ==
    /\ cmd.kind \in Kinds
    /\ cmd.kind \in Going => cmd.to \in Presets
    /\ cmd.kind \notin Going => cmd.to = None

\* Where in which command each step may be.
Control ==
    /\ ~device => pc = "idle"
    /\ Acting => CommandOK
    /\ pc = "commit" => cmd.kind \in {"Save", "SwitchSaving"} /\ seen \in Presets
    /\ pc = "select" => cmd.kind = "SwitchSaving"
    /\ pc = "load" => cmd.kind \in {"LoadDocument", "LoadSteps"}
    /\ pc = "undo" => cmd.kind = "LoadSteps"
    /\ pc = "end" => cmd.kind = "AuditionSteps"
    /\ pc = "putback" => cmd.kind \in EndsAudition

PedalOK ==
    /\ loaded \in Presets /\ buffer \in Docs /\ stored \in [Presets -> Docs]
    /\ announced \in BOOLEAN /\ missed \in BOOLEAN

WorkerOK ==
    /\ device \in BOOLEAN /\ taken \in BOOLEAN /\ dirty \in BOOLEAN
    /\ recheck \in BOOLEAN /\ carried \in BOOLEAN
    /\ shown \in Presets \cup {None}
    /\ seen \in Docs \/ seen \in Presets \cup {None}

PlaceOK ==
    /\ pc \in {"idle", "putback", "run", "commit", "select", "load", "undo", "end", "read", "ask"}
    /\ cmd = None \/ (cmd.kind \in Kinds /\ cmd.to \in Presets \cup {None})

Typed == PedalOK /\ WorkerOK /\ Stacked(history, future) /\ Asides /\ PlaceOK /\ Control

-----------------------------------------------------------------------------
(* The undo stacks                                                          *)

(* A push keeps what the stack holds to S, and its length to the bound. *)
LEMMA PushIn ==
    ASSUME EditorAssumption, NEW S, NEW stack \in Seq(S), NEW doc \in S,
           Len(stack) <= MaxHistory
    PROVE  /\ Push(stack, doc) \in Seq(S)
           /\ Len(Push(stack, doc)) \in 1..MaxHistory
  <1> DEFINE longer == Append(stack, doc)
  <1>1. longer \in Seq(S) /\ Len(longer) = Len(stack) + 1 /\ Len(stack) \in Nat
    OBVIOUS
  <1>2. CASE Len(longer) > MaxHistory
    <2>1. longer # <<>>
      BY <1>1
    <2>2. Tail(longer) \in Seq(S) /\ Len(Tail(longer)) = Len(longer) - 1
      BY <1>1, <2>1
    <2> QED BY <1>1, <1>2, <2>2 DEF Push, EditorAssumption
  <1>3. CASE ~(Len(longer) > MaxHistory)
    BY <1>1, <1>3 DEF Push, EditorAssumption
  <1> QED BY <1>2, <1>3

(* The newest document of a stack is in S with the others, and so is the rest of it. *)
LEMMA PopIn ==
    ASSUME NEW S, NEW stack \in Seq(S), stack # <<>>
    PROVE  /\ Top(stack) \in S
           /\ Pop(stack) \in Seq(S)
           /\ Len(Pop(stack)) = Len(stack) - 1
  BY DEF Top, Pop

(* The stacks after a document was recorded, in each way the code records one. *)
LEMMA RecordedStacks ==
    ASSUME EditorAssumption, NEW doc \in Docs, NEW back, NEW forth, Stacked(back, forth)
    PROVE  /\ Stacked(Push(back, doc), <<>>)
           /\ Stacked(Pop(Push(back, doc)), <<>>)
           /\ Push(back, doc) # <<>>
           /\ back # <<>> => Top(back) \in Docs /\ Stacked(Pop(back), Append(forth, doc))
           /\ forth # <<>> => Top(forth) \in Docs /\ Stacked(Append(back, doc), Pop(forth))
           /\ Stacked(<<>>, <<>>)
  <1>1. Len(back) <= MaxHistory
    BY DEF Stacked, EditorAssumption
  <1>2. /\ Push(back, doc) \in Seq(Docs)
        /\ Len(Push(back, doc)) \in 1..MaxHistory
    BY <1>1, PushIn DEF Stacked
  <1>3. Push(back, doc) # <<>>
    BY <1>2
  <1>4. Stacked(Pop(Push(back, doc)), <<>>)
    <2>1. /\ Pop(Push(back, doc)) \in Seq(Docs)
          /\ Len(Pop(Push(back, doc))) = Len(Push(back, doc)) - 1
      BY <1>2, <1>3, PopIn
    <2> QED BY <1>2, <2>1 DEF Stacked, EditorAssumption
  <1>5. ASSUME back # <<>>
        PROVE  Top(back) \in Docs /\ Stacked(Pop(back), Append(forth, doc))
    <2>1. Top(back) \in Docs /\ Pop(back) \in Seq(Docs) /\ Len(Pop(back)) = Len(back) - 1
      BY <1>5, PopIn DEF Stacked
    <2>2. Append(forth, doc) \in Seq(Docs) /\ Len(Append(forth, doc)) = Len(forth) + 1
      BY DEF Stacked
    <2> QED BY <2>1, <2>2 DEF Stacked, EditorAssumption
  <1>6. ASSUME forth # <<>>
        PROVE  Top(forth) \in Docs /\ Stacked(Append(back, doc), Pop(forth))
    <2>1. Top(forth) \in Docs /\ Pop(forth) \in Seq(Docs) /\ Len(Pop(forth)) = Len(forth) - 1
      BY <1>6, PopIn DEF Stacked
    <2>2. Append(back, doc) \in Seq(Docs) /\ Len(Append(back, doc)) = Len(back) + 1
      BY DEF Stacked
    <2> QED BY <2>1, <2>2 DEF Stacked, EditorAssumption
  <1> QED BY <1>2, <1>3, <1>4, <1>5, <1>6 DEF Stacked, EditorAssumption

(* What the stacks may become from any state of the right types. *)
LEMMA StacksStep ==
    ASSUME Typed, EditorAssumption
    PROVE  /\ Stacked(history, future) /\ Stacked(<<>>, <<>>)
           /\ Stacked(Push(history, buffer), <<>>)
           /\ Stacked(Pop(Push(history, buffer)), <<>>)
           /\ history # <<>> => Top(history) \in Docs /\ Stacked(Pop(history), Append(future, buffer))
           /\ future # <<>> => Top(future) \in Docs /\ Stacked(Append(history, buffer), Pop(future))
           /\ audition # None => Stacked(Push(audition.history, audition.original), <<>>)
           /\ trial # None => Stacked(Push(trial.history, trial.original), <<>>)
  <1>1. Stacked(history, future) /\ buffer \in Docs
    BY DEF Typed, PedalOK
  <1>2. audition # None => Stacked(audition.history, audition.future) /\ audition.original \in Docs
    BY DEF Typed, Asides, SetAsideOK
  <1>3. trial # None => Stacked(trial.history, trial.future) /\ trial.original \in Docs
    BY DEF Typed, Asides, SetAsideOK
  <1> QED BY <1>1, <1>2, <1>3, RecordedStacks

(* An edit is a version of the same document; a write has the home it is given. *)
LEMMA WrittenDocs ==
    ASSUME Typed
    PROVE  /\ Edited => /\ buffer' \in Docs
                        /\ buffer'.home = buffer.home /\ buffer'.tone = buffer.tone
           /\ \A p \in Presets, tone \in BOOLEAN :
                  Wrote(p, tone) => buffer' \in Docs /\ buffer'.home = p /\ buffer'.tone = tone
           /\ [buffer EXCEPT !.tone = FALSE] \in Docs
           /\ [buffer EXCEPT !.tone = FALSE].home = buffer.home
           /\ ~[buffer EXCEPT !.tone = FALSE].tone
           /\ [buffer EXCEPT !.tone = FALSE].text = buffer.text
           /\ \A p \in Presets : stored[p] \in Docs
           /\ \A t \in Texts : /\ [buffer EXCEPT !.text = t] \in Docs
                               /\ [buffer EXCEPT !.text = t].home = buffer.home
  <1>1. ASSUME Edited
        PROVE  /\ buffer' \in Docs
               /\ buffer'.home = buffer.home /\ buffer'.tone = buffer.tone
    BY <1>1 DEF Typed, PedalOK, Docs, Edited
  <1>2. ASSUME NEW p \in Presets, NEW tone \in BOOLEAN, Wrote(p, tone)
        PROVE  buffer' \in Docs /\ buffer'.home = p /\ buffer'.tone = tone
    BY <1>2 DEF Docs, Wrote
  <1>3. /\ [buffer EXCEPT !.tone = FALSE] \in Docs
        /\ [buffer EXCEPT !.tone = FALSE].home = buffer.home
        /\ ~[buffer EXCEPT !.tone = FALSE].tone
        /\ [buffer EXCEPT !.tone = FALSE].text = buffer.text
    BY DEF Typed, PedalOK, Docs
  <1>4. \A p \in Presets : stored[p] \in Docs
    BY DEF Typed, PedalOK
  <1>5. \A t \in Texts : /\ [buffer EXCEPT !.text = t] \in Docs
                         /\ [buffer EXCEPT !.text = t].home = buffer.home
    BY DEF Typed, PedalOK, Docs
  <1> QED BY <1>1, <1>2, <1>3, <1>4, <1>5

(* The parts are TypeOK. *)
LEMMA TypedIsTyped ==
    ASSUME Typed
    PROVE  TypeOK
  BY DEF Typed, TypeOK, PedalOK, WorkerOK, PlaceOK, Stacked, Asides, SetAsideOK

-----------------------------------------------------------------------------
(* Type correctness                                                         *)

(* The first state. *)
LEMMA TypedInit ==
    ASSUME EditorAssumption, Init
    PROVE  Typed
  <1>1. PedalOK
    <2>1. stored[loaded] \in Docs
      BY DEF Init
    <2>2. PICK t \in Texts : buffer = [stored[loaded] EXCEPT !.text = t]
      BY DEF Init
    <2>3. buffer \in Docs
      BY <2>1, <2>2 DEF Docs
    <2> QED BY <2>3 DEF Init, PedalOK
  <1>2. Stacked(history, future)
    BY DEF Init, Stacked, EditorAssumption
  <1> QED BY <1>1, <1>2 DEF Init, Typed, WorkerOK, PlaceOK, Asides, Control, Acting

(* The pedal holds documents, and a preset is loaded. *)
LEMMA PedalNext ==
    ASSUME Typed, [Next]_vars
    PROVE  PedalOK'
  <1>a. PedalOK /\ Control
    BY DEF Typed
  <1>b. /\ Edited => buffer' \in Docs
        /\ \A p \in Presets, tone \in BOOLEAN : Wrote(p, tone) => buffer' \in Docs
        /\ [buffer EXCEPT !.tone = FALSE] \in Docs
        /\ \A p \in Presets : stored[p] \in Docs
        /\ \A t \in Texts : [buffer EXCEPT !.text = t] \in Docs
    BY WrittenDocs
  <1>c. /\ history # <<>> => Top(history) \in Docs
        /\ future # <<>> => Top(future) \in Docs
        /\ audition # None => audition.original \in Docs
        /\ trial # None => trial.original \in Docs
    BY StacksStep, EditorAssumption DEF Typed, Asides, SetAsideOK
  <1> USE <1>a DEF PedalOK, pedalVars
  <1>1. CASE Connect
    BY <1>1, <1>b DEF Connect, ForgetHistory, Goes
  <1>2. CASE Lose
    BY <1>2, <1>b DEF Lose, LetGo, Goes, Going, Saved, Control, Acting, CommandOK, Going
  <1>3. CASE Disconnect
    BY <1>3 DEF Disconnect, LetGo, Goes, Running
  <1>4. CASE PanelSwitch
    BY <1>4, <1>b DEF PanelSwitch, Loads
  <1>5. CASE Submit
    BY <1>5 DEF Submit, KeptTrial
  <1>6. CASE EndAudition
    BY <1>6, <1>c DEF EndAudition, DropsNews, Goes, Running
  <1>7. CASE Select
    BY <1>7, <1>b DEF Select, Selects, Loads, ForgetHistory, Goes, Running, Control, Acting, CommandOK, Going
  <1>8. CASE SaveAsk
    BY <1>8 DEF SaveAsk, Goes, Running
  <1>9. CASE SaveCommit
    BY <1>9 DEF SaveCommit, Saved, Goes
  <1>10. CASE GoTo
    BY <1>10, <1>b DEF GoTo, Selects, Loads, ForgetHistory, Goes, Running, Control, Acting, CommandOK, Going
  <1>11. CASE Paste
    BY <1>11, <1>b DEF Paste, DropsNews, Recorded, Unrecorded, Goes, Running, Control, Acting, CommandOK, Going
  <1>12. CASE LoadSteps
    BY <1>12, <1>b DEF LoadSteps, Rebuilt, ReadSettledFails, LetGo, Recorded, Unrecorded, Goes,
       Control, Acting, CommandOK, Going
  <1>13. CASE Undo
    BY <1>13, <1>c DEF Undo, DropsNews, Goes, Running
  <1>14. CASE Redo
    BY <1>14, <1>c DEF Redo, DropsNews, Goes, Running
  <1>15. CASE EditDocument
    BY <1>15, <1>b DEF EditDocument, DropsNews, Recorded, ReadSettledFails, LetGo, Goes, Running
  <1>16. CASE InsertBlock
    BY <1>16, <1>b DEF InsertBlock, DropsNews, Inserted, Recorded, ReadSettledFails, LetGo, Goes, Running
  <1>17. CASE SetParam
    BY <1>17, <1>b DEF SetParam, Snapshot, Recorded, Goes, Running
  <1>18. CASE ClearBlock
    BY <1>18, <1>b DEF ClearBlock, Recorded, Unrecorded, Goes, Running
  <1>19. CASE SelectSnapshot
    BY <1>19 DEF SelectSnapshot, Goes, Running
  <1>20. CASE AuditionDocument
    BY <1>20, <1>b DEF AuditionDocument, DropsNews, Begun, SetAside, ForgetHistory, Goes, Running
  <1>21. CASE AuditionSteps
    BY <1>21, <1>b DEF AuditionSteps, Auditioned, Begun, SetAside, ForgetHistory,
       ReadSettledFails, LetGo, Goes, Running
  <1>22. CASE KeepAudition
    BY <1>22, <1>b DEF KeepAudition, ReadSettledFails, LetGo, Goes, Running
  <1>23. CASE TryModel
    BY <1>23, <1>b DEF TryModel, SetAside, Goes, Running
  <1>24. CASE PutBack
    BY <1>24, <1>c DEF PutBack, DropsNews, Goes, Running
  <1>25. CASE KeepTry
    BY <1>25 DEF KeepTry, Goes, Running
  <1>26. CASE ReloadRead
    BY <1>26 DEF ReloadRead, ReadSettledFails, LetGo, Goes
  <1>27. CASE ReloadAsk
    BY <1>27 DEF ReloadAsk, Adopt, ForgetHistory, Goes
  <1>28. CASE Poll
    BY <1>28 DEF Poll, Goes
  <1>29. CASE UNCHANGED vars
    BY <1>29 DEF vars
  <1> QED BY <1>1, <1>2, <1>3, <1>4, <1>5, <1>6, <1>7, <1>8, <1>9, <1>10, <1>11, <1>12, <1>13,
             <1>14, <1>15, <1>16, <1>17, <1>18, <1>19, <1>20, <1>21, <1>22, <1>23, <1>24, <1>25, <1>26,
             <1>27, <1>28, <1>29 DEF Next

(* The worker's flags, what it shows and what it was last answered. *)
LEMMA WorkerNext ==
    ASSUME Typed, [Next]_vars
    PROVE  WorkerOK'
  <1>a. PedalOK /\ WorkerOK
    BY DEF Typed
  <1>b. /\ audition # None => audition.dirty \in BOOLEAN /\ audition.taken \in BOOLEAN
        /\ trial # None => trial.dirty \in BOOLEAN /\ trial.taken \in BOOLEAN
    BY DEF Typed, Asides, SetAsideOK
  <1>c. Control
    BY DEF Typed
  <1> USE <1>a DEF PedalOK, WorkerOK, stacks, shownVars, pedalVars
  <1>1. CASE Connect
    BY <1>1 DEF Connect, ForgetHistory, Goes
  <1>2. CASE Lose
    BY <1>2 DEF Lose, LetGo, Goes, Going, Saved
  <1>3. CASE Disconnect
    BY <1>3 DEF Disconnect, LetGo, Goes, Running
  <1>4. CASE PanelSwitch
    BY <1>4 DEF PanelSwitch, Loads
  <1>5. CASE Submit
    BY <1>5 DEF Submit, KeptTrial
  <1>6. CASE EndAudition
    BY <1>6, <1>b DEF EndAudition, Goes, Running
  <1>7. CASE Select
    BY <1>7 DEF Select, Selects, Loads, ForgetHistory, Goes, Running
  <1>8. CASE SaveAsk
    BY <1>8 DEF SaveAsk, Goes, Running
  <1>9. CASE SaveCommit
    BY <1>9 DEF SaveCommit, Saved, Goes
  <1>10. CASE GoTo
    BY <1>10, <1>c DEF GoTo, Selects, Loads, ForgetHistory, Goes, Running, Control, Acting, CommandOK, Going
  <1>11. CASE Paste
    BY <1>11 DEF Paste, Recorded, Unrecorded, Goes, Running
  <1>12. CASE LoadSteps
    BY <1>12 DEF LoadSteps, Rebuilt, ReadSettledFails, LetGo, Recorded, Unrecorded, Goes
  <1>13. CASE Undo
    BY <1>13 DEF Undo, Goes, Running
  <1>14. CASE Redo
    BY <1>14 DEF Redo, Goes, Running
  <1>15. CASE EditDocument
    BY <1>15 DEF EditDocument, Recorded, ReadSettledFails, LetGo, Goes, Running
  <1>16. CASE InsertBlock
    BY <1>16 DEF InsertBlock, Inserted, Recorded, ReadSettledFails, LetGo, Goes, Running
  <1>17. CASE SetParam
    BY <1>17 DEF SetParam, Snapshot, Recorded, Goes, Running
  <1>18. CASE ClearBlock
    BY <1>18 DEF ClearBlock, Recorded, Unrecorded, Goes, Running
  <1>19. CASE SelectSnapshot
    BY <1>19 DEF SelectSnapshot, Goes, Running
  <1>20. CASE AuditionDocument
    BY <1>20 DEF AuditionDocument, Begun, SetAside, ForgetHistory, Goes, Running
  <1>21. CASE AuditionSteps
    BY <1>21 DEF AuditionSteps, Auditioned, Begun, SetAside, ForgetHistory, ReadSettledFails,
       LetGo, Goes, Running
  <1>22. CASE KeepAudition
    BY <1>22 DEF KeepAudition, ReadSettledFails, LetGo, Goes, Running
  <1>23. CASE TryModel
    BY <1>23 DEF TryModel, SetAside, Goes, Running
  <1>24. CASE PutBack
    BY <1>24, <1>b DEF PutBack, Goes, Running
  <1>25. CASE KeepTry
    BY <1>25 DEF KeepTry, Goes, Running
  <1>26. CASE ReloadRead
    BY <1>26 DEF ReloadRead, ReadSettledFails, LetGo, Goes
  <1>27. CASE ReloadAsk
    BY <1>27 DEF ReloadAsk, Adopt, ForgetHistory, Goes
  <1>28. CASE Poll
    BY <1>28 DEF Poll, Goes
  <1>29. CASE UNCHANGED vars
    BY <1>29 DEF vars
  <1> QED BY <1>1, <1>2, <1>3, <1>4, <1>5, <1>6, <1>7, <1>8, <1>9, <1>10, <1>11, <1>12, <1>13,
             <1>14, <1>15, <1>16, <1>17, <1>18, <1>19, <1>20, <1>21, <1>22, <1>23, <1>24, <1>25, <1>26,
             <1>27, <1>28, <1>29 DEF Next

(* The stacks are within their bound, and so are those set aside. *)
LEMMA StacksNext ==
    ASSUME Typed, [Next]_vars
    PROVE  Stacked(history, future)' /\ Asides'
  <1>a. /\ Stacked(history, future) /\ Stacked(<<>>, <<>>)
        /\ Stacked(Push(history, buffer), <<>>)
        /\ Stacked(Pop(Push(history, buffer)), <<>>)
        /\ history # <<>> => Stacked(Pop(history), Append(future, buffer))
        /\ future # <<>> => Stacked(Append(history, buffer), Pop(future))
        /\ audition # None => Stacked(Push(audition.history, audition.original), <<>>)
        /\ trial # None => Stacked(Push(trial.history, trial.original), <<>>)
    BY StacksStep, EditorAssumption
  <1>b. Asides
    BY DEF Typed
  <1>c. buffer \in Docs /\ dirty \in BOOLEAN /\ taken \in BOOLEAN
    BY DEF Typed, PedalOK, WorkerOK
  <1>d. SetAsideOK(SetAside)
    BY <1>a, <1>c DEF SetAside, SetAsideOK
  <1> USE <1>a, <1>b, <1>c DEF Asides, stacks, asideVars
  <1>1. CASE Connect
    BY <1>1 DEF Connect, ForgetHistory, Goes
  <1>2. CASE Lose
    BY <1>2 DEF Lose, LetGo, Goes, Going, Saved
  <1>3. CASE Disconnect
    BY <1>3 DEF Disconnect, LetGo, Goes, Running
  <1>4. CASE PanelSwitch
    BY <1>4 DEF PanelSwitch, Loads
  <1>5. CASE Submit
    BY <1>5 DEF Submit, KeptTrial, SetAsideOK
  <1>6. CASE EndAudition
    BY <1>6 DEF EndAudition, Goes, Running, SetAsideOK
  <1>7. CASE Select
    BY <1>7 DEF Select, Selects, Loads, ForgetHistory, Goes, Running
  <1>8. CASE SaveAsk
    BY <1>8 DEF SaveAsk, Goes, Running
  <1>9. CASE SaveCommit
    BY <1>9 DEF SaveCommit, Saved, Goes
  <1>10. CASE GoTo
    BY <1>10 DEF GoTo, Selects, Loads, ForgetHistory, Goes, Running
  <1>11. CASE Paste
    BY <1>11 DEF Paste, Recorded, Unrecorded, Goes, Running
  <1>12. CASE LoadSteps
    BY <1>12 DEF LoadSteps, Rebuilt, ReadSettledFails, LetGo, Recorded, Unrecorded, Goes
  <1>13. CASE Undo
    BY <1>13 DEF Undo, Goes, Running
  <1>14. CASE Redo
    BY <1>14 DEF Redo, Goes, Running
  <1>15. CASE EditDocument
    BY <1>15 DEF EditDocument, Recorded, ReadSettledFails, LetGo, Goes, Running
  <1>16. CASE InsertBlock
    BY <1>16 DEF InsertBlock, Inserted, Recorded, ReadSettledFails, LetGo, Goes, Running
  <1>17. CASE SetParam
    BY <1>17 DEF SetParam, Snapshot, Recorded, Goes, Running
  <1>18. CASE ClearBlock
    BY <1>18 DEF ClearBlock, Recorded, Unrecorded, Goes, Running
  <1>19. CASE SelectSnapshot
    BY <1>19 DEF SelectSnapshot, Goes, Running
  <1>20. CASE AuditionDocument
    <2>1. /\ (history' = <<>> /\ future' = <<>>) \/ UNCHANGED <<history, future>>
          /\ audition' \in {audition, SetAside, None}
          /\ trial' \in {trial, None}
      BY <1>20 DEF AuditionDocument, Begun, ForgetHistory
    <2> QED BY <2>1, <1>d
  <1>21. CASE AuditionSteps
    <2>1. /\ (history' = <<>> /\ future' = <<>>) \/ UNCHANGED <<history, future>>
          /\ audition' \in {audition, SetAside, None}
          /\ trial' \in {trial, None}
      BY <1>21 DEF AuditionSteps, Auditioned, Begun, ForgetHistory, ReadSettledFails, LetGo
    <2> QED BY <2>1, <1>d
  <1>22. CASE KeepAudition
    BY <1>22 DEF KeepAudition, ReadSettledFails, LetGo, Goes, Running
  <1>23. CASE TryModel
    BY <1>23, <1>d DEF TryModel, Goes, Running
  <1>24. CASE PutBack
    BY <1>24 DEF PutBack, Goes, Running, SetAsideOK
  <1>25. CASE KeepTry
    BY <1>25 DEF KeepTry, Goes, Running
  <1>26. CASE ReloadRead
    BY <1>26 DEF ReloadRead, ReadSettledFails, LetGo, Goes
  <1>27. CASE ReloadAsk
    BY <1>27 DEF ReloadAsk, Adopt, ForgetHistory, Goes
  <1>28. CASE Poll
    BY <1>28 DEF Poll, Goes
  <1>29. CASE UNCHANGED vars
    BY <1>29 DEF vars
  <1> QED BY <1>1, <1>2, <1>3, <1>4, <1>5, <1>6, <1>7, <1>8, <1>9, <1>10, <1>11, <1>12, <1>13,
             <1>14, <1>15, <1>16, <1>17, <1>18, <1>19, <1>20, <1>21, <1>22, <1>23, <1>24, <1>25, <1>26,
             <1>27, <1>28, <1>29 DEF Next

(* Which step of which command comes next. *)
LEMMA PlaceNext ==
    ASSUME Typed, [Next]_vars
    PROVE  PlaceOK' /\ Control'
  <1>a. PlaceOK /\ Control
    BY DEF Typed
  <1>b. loaded \in Presets /\ device \in BOOLEAN
    BY DEF Typed, PedalOK, WorkerOK
  <1> USE <1>a, <1>b DEF PlaceOK, Control, Acting, CommandOK, shownVars
  <1>1. CASE Connect
    BY <1>1 DEF Connect, ForgetHistory, Goes
  <1>2. CASE Lose
    BY <1>2 DEF Lose, LetGo, Goes, Going, Saved
  <1>3. CASE Disconnect
    BY <1>3 DEF Disconnect, LetGo, Goes, Running
  <1>4. CASE PanelSwitch
    BY <1>4 DEF PanelSwitch, Loads
  <1>5. CASE Submit
    BY <1>5, EditorAssumption DEF Submit, EditorAssumption
  <1>6. CASE EndAudition
    BY <1>6 DEF EndAudition, Goes, Running, EndsAudition
  <1>7. CASE Select
    BY <1>7 DEF Select, Selects, Loads, ForgetHistory, Goes, Running, Going
  <1>8. CASE SaveAsk
    BY <1>8 DEF SaveAsk, Goes, Running, Going
  <1>9. CASE SaveCommit
    BY <1>9 DEF SaveCommit, Saved, Goes
  <1>10. CASE GoTo
    BY <1>10 DEF GoTo, Selects, Loads, ForgetHistory, Goes, Running
  <1>11. CASE Paste
    BY <1>11 DEF Paste, Recorded, Unrecorded, Goes, Running
  <1>12. CASE LoadSteps
    BY <1>12 DEF LoadSteps, Rebuilt, ReadSettledFails, LetGo, Recorded, Unrecorded, Goes
  <1>13. CASE Undo
    BY <1>13 DEF Undo, Goes, Running
  <1>14. CASE Redo
    BY <1>14 DEF Redo, Goes, Running
  <1>15. CASE EditDocument
    BY <1>15 DEF EditDocument, Recorded, ReadSettledFails, LetGo, Goes, Running
  <1>16. CASE InsertBlock
    BY <1>16 DEF InsertBlock, Inserted, Recorded, ReadSettledFails, LetGo, Goes, Running
  <1>17. CASE SetParam
    BY <1>17 DEF SetParam, Snapshot, Recorded, Goes, Running
  <1>18. CASE ClearBlock
    BY <1>18 DEF ClearBlock, Recorded, Unrecorded, Goes, Running
  <1>19. CASE SelectSnapshot
    BY <1>19 DEF SelectSnapshot, Goes, Running
  <1>20. CASE AuditionDocument
    BY <1>20 DEF AuditionDocument, Begun, SetAside, ForgetHistory, Goes, Running
  <1>21. CASE AuditionSteps
    BY <1>21 DEF AuditionSteps, Auditioned, Begun, SetAside, ForgetHistory, ReadSettledFails,
       LetGo, Goes, Running
  <1>22. CASE KeepAudition
    BY <1>22 DEF KeepAudition, ReadSettledFails, LetGo, Goes, Running
  <1>23. CASE TryModel
    BY <1>23 DEF TryModel, SetAside, Goes, Running
  <1>24. CASE PutBack
    BY <1>24 DEF PutBack, Goes, Running
  <1>25. CASE KeepTry
    BY <1>25 DEF KeepTry, Goes, Running
  <1>26. CASE ReloadRead
    BY <1>26 DEF ReloadRead, ReadSettledFails, LetGo, Goes
  <1>27. CASE ReloadAsk
    BY <1>27 DEF ReloadAsk, Adopt, ForgetHistory, Goes
  <1>28. CASE Poll
    BY <1>28 DEF Poll, Goes
  <1>29. CASE UNCHANGED vars
    BY <1>29 DEF vars
  <1> QED BY <1>1, <1>2, <1>3, <1>4, <1>5, <1>6, <1>7, <1>8, <1>9, <1>10, <1>11, <1>12, <1>13,
             <1>14, <1>15, <1>16, <1>17, <1>18, <1>19, <1>20, <1>21, <1>22, <1>23, <1>24, <1>25, <1>26,
             <1>27, <1>28, <1>29 DEF Next

(* The parts, together. *)
LEMMA TypedNext ==
    ASSUME Typed, [Next]_vars
    PROVE  Typed'
  BY PedalNext, WorkerNext, StacksNext, PlaceNext DEF Typed

(* Every variable keeps its type, the undo history its bound, and a command *)
(* only takes the steps that are its own (Worker's handle and its helpers). *)
THEOREM TypeCorrect == Spec => []TypeOK
  <1>1. Init => Typed
    BY TypedInit, EditorAssumption
  <1>2. Typed /\ [Next]_vars => Typed'
    BY TypedNext
  <1>3. Typed => TypeOK
    BY TypedIsTyped
  <1> QED BY <1>1, <1>2, <1>3, PTL DEF Spec

-----------------------------------------------------------------------------
(* Ending an audition, and following the pedal                              *)

\* What the ghost holds is what the worker holds.
Paired ==
    audition # None =>
        /\ aside.original = audition.original /\ aside.dirty = audition.dirty
        /\ aside.history = audition.history /\ aside.future = audition.future

(* The ghost is set and cleared with what the worker set aside. *)
LEMMA PairedNext ==
    ASSUME Paired, [Next]_vars
    PROVE  Paired'
  <1> USE DEF Paired, asideVars
  <1>a. /\ SetAside.original = Displaced.original /\ SetAside.dirty = Displaced.dirty
        /\ SetAside.history = Displaced.history /\ SetAside.future = Displaced.future
    BY DEF SetAside, Displaced
  <1>1. CASE PanelSwitch \/ Select \/ SaveAsk \/ SaveCommit \/ Paste \/ Undo \/ Redo \/ SetParam \/
             ClearBlock \/ SelectSnapshot \/ TryModel \/ PutBack \/ KeepTry \/ Poll
    BY <1>1 DEF PanelSwitch, Select, SaveAsk, SaveCommit, Paste, Undo, Redo, SetParam,
           Snapshot, ClearBlock, SelectSnapshot, TryModel, PutBack, KeepTry, Poll
  <1>2. CASE Connect
    BY <1>2 DEF Connect
  <1>3. CASE Lose
    BY <1>3 DEF Lose, Going, LetGo
  <1>4. CASE Disconnect
    BY <1>4 DEF Disconnect, LetGo
  <1>5. CASE Submit
    BY <1>5 DEF Submit, KeptTrial
  <1>6. CASE EndAudition
    BY <1>6 DEF EndAudition
  <1>7. CASE GoTo
    BY <1>7 DEF GoTo
  <1>8. CASE LoadSteps
    BY <1>8 DEF LoadSteps, ReadSettledFails, LetGo
  <1>9. CASE EditDocument
    BY <1>9 DEF EditDocument, ReadSettledFails, LetGo
  <1>10. CASE InsertBlock
    BY <1>10 DEF InsertBlock, Inserted, ReadSettledFails, LetGo
  <1>11. CASE AuditionDocument
    <2>1. \/ UNCHANGED <<audition, aside>>
          \/ audition' = SetAside /\ aside' = Displaced
          \/ audition' = None
      BY <1>11 DEF AuditionDocument, Begun
    <2> QED BY <2>1, <1>a
  <1>12. CASE AuditionSteps
    <2>1. \/ UNCHANGED <<audition, aside>>
          \/ audition' = SetAside /\ aside' = Displaced
          \/ audition' = None
      BY <1>12 DEF AuditionSteps, Auditioned, Begun, ReadSettledFails, LetGo
    <2> QED BY <2>1, <1>a
  <1>13. CASE KeepAudition
    BY <1>13 DEF KeepAudition, ReadSettledFails, LetGo
  <1>14. CASE ReloadRead
    BY <1>14 DEF ReloadRead, ReadSettledFails, LetGo
  <1>15. CASE ReloadAsk
    BY <1>15 DEF ReloadAsk, Adopt
  <1>16. CASE UNCHANGED vars
    BY <1>16 DEF vars
  <1> QED BY <1>1, <1>2, <1>3, <1>4, <1>5, <1>6, <1>7, <1>8, <1>9, <1>10, <1>11, <1>12, <1>13,
             <1>14, <1>15, <1>16 DEF Next

(* Ending an audition puts back the sound, the unsaved flag and the stacks it    *)
(* found, whatever was played, tried or undone in between and whatever the pedal *)
(* refused (end_audition).                                                       *)
THEOREM AuditionRestoresHolds == Spec => AuditionRestores
  <1>1. Init => Paired
    BY DEF Init, Paired
  <1>2. Paired /\ [Next]_vars => Paired'
    BY PairedNext
  <1>3. Paired /\ [Next]_vars =>
            [EndAudition /\ audition # None /\ audition' = None =>
                /\ buffer' = aside.original /\ dirty' = aside.dirty
                /\ history' = aside.history /\ future' = aside.future]_vars
    <2> SUFFICES ASSUME Paired, EndAudition, audition # None, audition' = None
                 PROVE  /\ buffer' = aside.original /\ dirty' = aside.dirty
                        /\ history' = aside.history /\ future' = aside.future
      OBVIOUS
    <2> QED BY DEF Paired, EndAudition, asideVars
  <1> QED BY <1>1, <1>2, <1>3, PTL DEF Spec, AuditionRestores

\* Another preset than the one shown is on its way to the screen, unless its announcement
\* was thrown away.
Following ==
    device /\ ~announced /\ ~recheck /\ ~missed /\ shown # loaded => pc \in {"read", "ask"}

(* What loads another preset announces it or reloads, a poll that takes the announcement *)
(* reloads, and what throws it away is noted until the pedal is asked.                   *)
LEMMA FollowingNext ==
    ASSUME Typed, Following, [Next]_vars, "refuse" \notin Troubles
    PROVE  Following'
  <1>a. /\ announced \in BOOLEAN /\ missed \in BOOLEAN /\ device \in BOOLEAN /\ recheck \in BOOLEAN
        /\ pc \in {"idle", "putback", "run", "commit", "select", "load", "undo", "end", "read", "ask"}
        /\ ~Refusing
    BY DEF Typed, PedalOK, WorkerOK, PlaceOK, Refusing
  <1>b. DropsNews /\ ~announced' /\ ~missed' => ~announced /\ ~missed
    BY <1>a DEF DropsNews
  <1> USE <1>a, <1>b DEF Following, pedalVars, shownVars
  <1>1. CASE Connect
    BY <1>1 DEF Connect, Goes
  <1>2. CASE Lose
    BY <1>2 DEF Lose, LetGo, Goes, Going
  <1>3. CASE Disconnect
    BY <1>3 DEF Disconnect, LetGo, Goes, Running
  <1>4. CASE PanelSwitch
    BY <1>4 DEF PanelSwitch, Loads
  <1>5. CASE Submit
    BY <1>5 DEF Submit, Goes
  <1>6. CASE EndAudition
    BY <1>6 DEF EndAudition, Goes, Running
  <1>7. CASE Select
    BY <1>7 DEF Select, Selects, Loads, Goes, Running
  <1>8. CASE SaveAsk
    BY <1>8 DEF SaveAsk, Goes, Running
  <1>9. CASE SaveCommit
    BY <1>9 DEF SaveCommit, Goes
  <1>10. CASE GoTo
    <2>1. /\ pc = "run" /\ device' = device /\ recheck' = recheck
          /\ \/ loaded' = loaded /\ announced' = announced /\ missed' = missed /\ shown' = shown
             \/ loaded' = cmd.to /\ shown' = cmd.to
      BY <1>10 DEF GoTo, Selects, Loads, Running
    <2> QED BY <2>1
  <1>11. CASE Paste
    <2>1. /\ pc \in {"run", "load"} /\ UNCHANGED <<loaded, device, shown, recheck>>
          /\ DropsNews \/ UNCHANGED <<announced, missed>>
      BY <1>11 DEF Paste, Running
    <2> QED BY <2>1
  <1>12. CASE LoadSteps
    BY <1>12 DEF LoadSteps, ReadSettledFails, LetGo, Goes
  <1>13. CASE Undo
    BY <1>13 DEF Undo, Goes, Running
  <1>14. CASE Redo
    BY <1>14 DEF Redo, Goes, Running
  <1>15. CASE EditDocument
    BY <1>15 DEF EditDocument, ReadSettledFails, LetGo, Goes, Running
  <1>16. CASE InsertBlock
    BY <1>16 DEF InsertBlock, Inserted, ReadSettledFails, LetGo, Goes, Running
  <1>17. CASE SetParam
    BY <1>17 DEF SetParam, Goes, Running
  <1>18. CASE ClearBlock
    BY <1>18 DEF ClearBlock, Goes, Running
  <1>19. CASE SelectSnapshot
    BY <1>19 DEF SelectSnapshot, Goes, Running
  <1>20. CASE AuditionDocument
    <2>1. /\ pc = "run" /\ UNCHANGED <<loaded, device, shown, recheck>>
          /\ DropsNews \/ UNCHANGED <<announced, missed>>
      BY <1>20 DEF AuditionDocument, Running
    <2> QED BY <2>1
  <1>21. CASE AuditionSteps
    BY <1>21 DEF AuditionSteps, Auditioned, ReadSettledFails, LetGo, Goes, Running
  <1>22. CASE KeepAudition
    BY <1>22 DEF KeepAudition, ReadSettledFails, LetGo, Goes, Running
  <1>23. CASE TryModel
    BY <1>23 DEF TryModel, Goes, Running
  <1>24. CASE PutBack
    BY <1>24 DEF PutBack, Goes, Running
  <1>25. CASE KeepTry
    BY <1>25 DEF KeepTry, Goes, Running
  <1>26. CASE ReloadRead
    BY <1>26 DEF ReloadRead, ReadSettledFails, LetGo, Goes
  <1>27. CASE ReloadAsk
    BY <1>27 DEF ReloadAsk, Adopt, Goes
  <1>28. CASE Poll
    BY <1>28 DEF Poll, Goes
  <1>29. CASE UNCHANGED vars
    BY <1>29 DEF vars
  <1> QED BY <1>1, <1>2, <1>3, <1>4, <1>5, <1>6, <1>7, <1>8, <1>9, <1>10, <1>11, <1>12, <1>13,
             <1>14, <1>15, <1>16, <1>17, <1>18, <1>19, <1>20, <1>21, <1>22, <1>23, <1>24, <1>25, <1>26,
             <1>27, <1>28, <1>29 DEF Next

(* The editor has the pedal's preset on screen whenever nothing is announced and *)
(* nothing is under way, however its own switches and the footswitches' crossed, *)
(* as long as the pedal refuses nothing (poll, follow_preset), but for a switch  *)
(* whose announcement a document write threw away.                               *)
THEOREM FollowsPedalHolds ==
    ASSUME "refuse" \notin Troubles
    PROVE  Spec => []FollowsPedal
  <1>1. Init => Typed /\ Following
    BY TypedInit, EditorAssumption DEF Init, Following
  <1>2. Typed /\ Following /\ [Next]_vars => Typed' /\ Following'
    BY TypedNext, FollowingNext
  <1>3. Following => FollowsPedal
    BY DEF Following, FollowsPedal
  <1> QED BY <1>1, <1>2, <1>3, PTL DEF Spec

-----------------------------------------------------------------------------
(* What is kept belongs to the loaded preset, no tone is saved, clean means *)
(* stored: for a pedal that refuses nothing and is left alone, by a worker   *)
(* that may lose its session at any time                                    *)

Of(preset) == {doc \in Docs : doc.home = preset}
Plain == {doc \in Docs : ~doc.tone}

\* A buffer and its undo state set aside hold documents of S.
Within(S, kept) ==
    kept.original \in S /\ kept.history \in Seq(S) /\ kept.future \in Seq(S)

\* What each step of a command may take for granted once handle() has kept the
\* trial and put the audition back, and when the preset shown may be another.
Alone ==
    /\ pc = "commit" => seen = loaded
    /\ pc = "load" => cmd.to = loaded
    /\ Acting /\ cmd.kind \notin {"TryModel", "PutBack"} => trial = None
    /\ Acting /\ pc # "putback" /\ cmd.kind \in EndsAudition => audition = None
    /\ device /\ shown # loaded =>
          pc \in {"read", "ask"} /\ audition = None /\ trial = None /\ ~dirty

HomesPedal == buffer \in Of(loaded) /\ \A p \in Presets : stored[p] \in Of(p)

HomesKept ==
    device =>
        /\ history \in Seq(Of(loaded)) /\ future \in Seq(Of(loaded))
        /\ audition # None => Within(Of(loaded), audition)
        /\ trial # None => Within(Of(loaded), trial)

(* The same for any set of documents the stacks and the buffer are within. *)
LEMMA StacksWithin ==
    ASSUME Typed, EditorAssumption, NEW S,
           history \in Seq(S), future \in Seq(S), buffer \in S
    PROVE  /\ Push(history, buffer) \in Seq(S) /\ Push(history, buffer) # <<>>
           /\ history # <<>> => /\ Top(history) \in S /\ Pop(history) \in Seq(S)
                                /\ Append(future, buffer) \in Seq(S)
           /\ future # <<>> => /\ Top(future) \in S /\ Pop(future) \in Seq(S)
                               /\ Append(history, buffer) \in Seq(S)
           /\ <<>> \in Seq(S)
           /\ Within(S, SetAside)
  <1>1. Len(history) <= MaxHistory
    BY DEF Typed, Stacked, EditorAssumption
  <1>2. Push(history, buffer) \in Seq(S) /\ Len(Push(history, buffer)) \in 1..MaxHistory
    BY <1>1, PushIn
  <1>3. history # <<>> => Top(history) \in S /\ Pop(history) \in Seq(S)
    BY PopIn
  <1>4. future # <<>> => Top(future) \in S /\ Pop(future) \in Seq(S)
    BY PopIn
  <1>5. Within(S, SetAside)
    BY DEF Within, SetAside
  <1> QED BY <1>2, <1>3, <1>4, <1>5

(* The undo stack alone is within the bound. *)
LEMMA BackBound ==
    ASSUME EditorAssumption, NEW back, NEW forth, Stacked(back, forth)
    PROVE  Len(back) <= MaxHistory
  BY DEF Stacked, EditorAssumption

(* The undo step made of what was set aside. *)
LEMMA KeptWithin ==
    ASSUME EditorAssumption, NEW S, NEW kept, SetAsideOK(kept), Within(S, kept)
    PROVE  Push(kept.history, kept.original) \in Seq(S)
  <1>1. Len(kept.history) <= MaxHistory
    BY BackBound DEF SetAsideOK
  <1> QED BY <1>1, PushIn DEF Within

(* Every step leaves the next one what it takes for granted. *)
LEMMA AloneNext ==
    ASSUME Typed, Alone, [Next]_vars, Troubles \subseteq {"lose"}
    PROVE  Alone'
  <1>a. /\ ~Refusing /\ "panel" \notin Troubles
        /\ device \in BOOLEAN /\ dirty \in BOOLEAN
        /\ pc \in {"idle", "putback", "run", "commit", "select", "load", "undo", "end", "read", "ask"}
        /\ Control
    BY DEF Typed, PedalOK, WorkerOK, PlaceOK, Refusing
  <1> USE <1>a DEF Alone, Acting, Control, pedalVars, stacks, shownVars, asideVars
  <1>1. CASE Connect
    BY <1>1 DEF Connect, Goes
  <1>2. CASE Lose
    BY <1>2 DEF Lose, LetGo, Goes, Going
  <1>3. CASE Disconnect
    BY <1>3 DEF Disconnect, LetGo, Goes, Running
  <1>4. CASE PanelSwitch
    BY <1>4 DEF PanelSwitch, Loads
  <1>5. CASE Submit
    BY <1>5 DEF Submit, KeptTrial
  <1>6. CASE EndAudition
    BY <1>6 DEF EndAudition, Goes, Running, EndsAudition
  <1>7. CASE Select
    BY <1>7 DEF Select, Selects, Loads, Goes, Running, EndsAudition
  <1>8. CASE SaveAsk
    BY <1>8 DEF SaveAsk, Goes, Running, EndsAudition
  <1>9. CASE SaveCommit
    BY <1>9 DEF SaveCommit, Goes
  <1>10. CASE GoTo
    BY <1>10 DEF GoTo, Selects, Loads, Goes, Running
  <1>11. CASE Paste
    BY <1>11 DEF Paste, Goes, Running
  <1>12. CASE LoadSteps
    BY <1>12 DEF LoadSteps, Rebuilt, ReadSettledFails, Goes, EndsAudition
  <1>13. CASE Undo
    BY <1>13 DEF Undo, Goes, Running
  <1>14. CASE Redo
    BY <1>14 DEF Redo, Goes, Running
  <1>15. CASE EditDocument
    BY <1>15 DEF EditDocument, ReadSettledFails, Goes, Running
  <1>16. CASE InsertBlock
    BY <1>16 DEF InsertBlock, Inserted, ReadSettledFails, Goes, Running
  <1>17. CASE SetParam
    BY <1>17 DEF SetParam, Snapshot, Goes, Running
  <1>18. CASE ClearBlock
    BY <1>18 DEF ClearBlock, Goes, Running
  <1>19. CASE SelectSnapshot
    BY <1>19 DEF SelectSnapshot, Goes, Running
  <1>20. CASE AuditionDocument
    BY <1>20 DEF AuditionDocument, Goes, Running, EndsAudition
  <1>21. CASE AuditionSteps
    BY <1>21 DEF AuditionSteps, Auditioned, ReadSettledFails, Goes, Running, EndsAudition
  <1>22. CASE KeepAudition
    BY <1>22 DEF KeepAudition, ReadSettledFails, Goes, Running
  <1>23. CASE TryModel
    BY <1>23 DEF TryModel, Goes, Running, EndsAudition
  <1>24. CASE PutBack
    BY <1>24 DEF PutBack, Goes, Running, EndsAudition
  <1>25. CASE KeepTry
    BY <1>25 DEF KeepTry, Goes, Running
  <1>26. CASE ReloadRead
    <2>1. /\ pc = "read" /\ pc' = "ask"
          /\ UNCHANGED <<loaded, device, dirty, shown, audition, trial>>
      BY <1>26 DEF ReloadRead, ReadSettledFails, Goes
    <2> QED BY <2>1
  <1>27. CASE ReloadAsk
    BY <1>27 DEF ReloadAsk, Adopt, Goes
  <1>28. CASE Poll
    BY <1>28 DEF Poll, Goes
  <1>29. CASE UNCHANGED vars
    BY <1>29 DEF vars
  <1> QED BY <1>1, <1>2, <1>3, <1>4, <1>5, <1>6, <1>7, <1>8, <1>9, <1>10, <1>11, <1>12, <1>13,
             <1>14, <1>15, <1>16, <1>17, <1>18, <1>19, <1>20, <1>21, <1>22, <1>23, <1>24, <1>25, <1>26,
             <1>27, <1>28, <1>29 DEF Next

(* Every write is of the loaded preset's document, or loads the preset with it. *)
LEMMA HomesPedalNext ==
    ASSUME Typed, Alone, HomesPedal, HomesKept, [Next]_vars, Troubles \subseteq {"lose"}
    PROVE  HomesPedal'
  <1>a. /\ Edited => buffer' \in Of(loaded)
        /\ \A p \in Presets, tone \in BOOLEAN : Wrote(p, tone) => buffer' \in Of(p)
        /\ [buffer EXCEPT !.tone = FALSE] \in Of(loaded)
        /\ \A t \in Texts : [buffer EXCEPT !.text = t] \in Of(loaded)
    BY WrittenDocs DEF HomesPedal, Of
  <1>b. /\ device /\ history # <<>> => Top(history) \in Of(loaded)
        /\ device /\ future # <<>> => Top(future) \in Of(loaded)
    BY StacksWithin, EditorAssumption DEF HomesPedal, HomesKept
  <1>c. /\ device /\ audition # None => audition.original \in Of(loaded)
        /\ device /\ trial # None => trial.original \in Of(loaded)
    BY DEF HomesKept, Within
  <1>d. /\ ~Refusing /\ "panel" \notin Troubles
        /\ loaded \in Presets /\ stored \in [Presets -> Docs]
    BY DEF Typed, PedalOK, Refusing
  <1>e. Control /\ Alone
    BY DEF Typed
  <1> USE <1>a, <1>d DEF HomesPedal, pedalVars
  <1>1. CASE Connect
    BY <1>1 DEF Connect, Goes
  <1>2. CASE Lose
    BY <1>2, <1>e DEF Lose, LetGo, Goes, Going, Saved, Control, Acting, CommandOK, Going, Alone
  <1>3. CASE Disconnect
    BY <1>3 DEF Disconnect, LetGo, Goes, Running
  <1>4. CASE PanelSwitch
    BY <1>4 DEF PanelSwitch, Loads
  <1>5. CASE Submit
    BY <1>5 DEF Submit
  <1>6. CASE EndAudition
    BY <1>6, <1>c, <1>e DEF EndAudition, Goes, Running, Control, Acting, CommandOK, Going, Alone
  <1>7. CASE Select
    BY <1>7, <1>e DEF Select, Selects, Loads, Goes, Running, Control, Acting, CommandOK, Going, Alone
  <1>8. CASE SaveAsk
    BY <1>8 DEF SaveAsk, Goes, Running
  <1>9. CASE SaveCommit
    BY <1>9, <1>e DEF SaveCommit, Saved, Goes, Control, Acting, CommandOK, Going, Alone
  <1>10. CASE GoTo
    BY <1>10, <1>e DEF GoTo, Selects, Loads, Goes, Running, Control, Acting, CommandOK, Going, Alone
  <1>11. CASE Paste
    BY <1>11, <1>e DEF Paste, Goes, Running, Control, Acting, CommandOK, Going, Alone
  <1>12. CASE LoadSteps
    BY <1>12, <1>e DEF LoadSteps, Rebuilt, ReadSettledFails, Goes, Control, Acting, CommandOK,
       Going, Alone
  <1>13. CASE Undo
    BY <1>13, <1>b, <1>e DEF Undo, Goes, Running, Control, Acting, CommandOK, Going, Alone
  <1>14. CASE Redo
    BY <1>14, <1>b DEF Redo, Goes, Running
  <1>15. CASE EditDocument
    BY <1>15 DEF EditDocument, ReadSettledFails, Goes, Running
  <1>16. CASE InsertBlock
    BY <1>16 DEF InsertBlock, Inserted, ReadSettledFails, Goes, Running
  <1>17. CASE SetParam
    BY <1>17 DEF SetParam, Goes, Running
  <1>18. CASE ClearBlock
    BY <1>18 DEF ClearBlock, Goes, Running
  <1>19. CASE SelectSnapshot
    BY <1>19 DEF SelectSnapshot, Goes, Running
  <1>20. CASE AuditionDocument
    BY <1>20 DEF AuditionDocument, Goes, Running
  <1>21. CASE AuditionSteps
    BY <1>21 DEF AuditionSteps, Auditioned, ReadSettledFails, Goes, Running
  <1>22. CASE KeepAudition
    BY <1>22 DEF KeepAudition, ReadSettledFails, Goes, Running
  <1>23. CASE TryModel
    BY <1>23 DEF TryModel, Goes, Running
  <1>24. CASE PutBack
    BY <1>24, <1>c DEF PutBack, Goes, Running
  <1>25. CASE KeepTry
    BY <1>25 DEF KeepTry, Goes, Running
  <1>26. CASE ReloadRead
    BY <1>26 DEF ReloadRead, ReadSettledFails, Goes
  <1>27. CASE ReloadAsk
    BY <1>27 DEF ReloadAsk, Goes
  <1>28. CASE Poll
    BY <1>28 DEF Poll, Goes
  <1>29. CASE UNCHANGED vars
    BY <1>29 DEF vars
  <1> QED BY <1>1, <1>2, <1>3, <1>4, <1>5, <1>6, <1>7, <1>8, <1>9, <1>10, <1>11, <1>12, <1>13,
             <1>14, <1>15, <1>16, <1>17, <1>18, <1>19, <1>20, <1>21, <1>22, <1>23, <1>24, <1>25, <1>26,
             <1>27, <1>28, <1>29 DEF Next

(* Every step keeps them: what loads another preset forgets the stacks, and runs with no  *)
(* audition and no trial.                                                                 *)
LEMMA HomesKeptNext ==
    ASSUME Typed, Alone, HomesPedal, HomesKept, [Next]_vars, Troubles \subseteq {"lose"}
    PROVE  HomesKept'
  <1>a. ASSUME device
        PROVE  /\ Push(history, buffer) \in Seq(Of(loaded))
               /\ history # <<>> => Pop(history) \in Seq(Of(loaded)) /\ Append(future, buffer) \in Seq(Of(loaded))
               /\ future # <<>> => Pop(future) \in Seq(Of(loaded)) /\ Append(history, buffer) \in Seq(Of(loaded))
               /\ Within(Of(loaded), SetAside)
    BY <1>a, StacksWithin, EditorAssumption DEF HomesPedal, HomesKept
  <1>b. ASSUME device
        PROVE  /\ audition # None => Push(audition.history, audition.original) \in Seq(Of(loaded))
               /\ trial # None => Push(trial.history, trial.original) \in Seq(Of(loaded))
    BY <1>b, KeptWithin, EditorAssumption DEF HomesKept, Typed, Asides
  <1>c. \A p : <<>> \in Seq(Of(p))
    OBVIOUS
  <1>d. ~Refusing /\ "panel" \notin Troubles
    BY DEF Refusing
  <1>e. Control /\ Alone
    BY DEF Typed
  <1> USE <1>a, <1>c, <1>d DEF HomesKept, pedalVars, stacks, asideVars
  <1>1. CASE Connect
    BY <1>1 DEF Connect, ForgetHistory
  <1>2. CASE Lose
    BY <1>2 DEF Lose, LetGo, Going
  <1>3. CASE Disconnect
    BY <1>3 DEF Disconnect, LetGo, Running
  <1>4. CASE PanelSwitch
    BY <1>4 DEF PanelSwitch, Loads
  <1>5. CASE Submit
    BY <1>5, <1>b DEF Submit, KeptTrial
  <1>6. CASE EndAudition
    BY <1>6, <1>b DEF EndAudition, Running, Within
  <1>7. CASE Select
    BY <1>7, <1>e DEF Select, Selects, Loads, ForgetHistory, Running, Control, Acting, CommandOK, Alone,
       EndsAudition
  <1>8. CASE SaveAsk
    BY <1>8 DEF SaveAsk, Running
  <1>9. CASE SaveCommit
    BY <1>9 DEF SaveCommit
  <1>10. CASE GoTo
    BY <1>10, <1>e DEF GoTo, Selects, Loads, ForgetHistory, Running, Control, Acting, Alone, EndsAudition
  <1>11. CASE Paste
    BY <1>11 DEF Paste, Recorded, Unrecorded, Running
  <1>12. CASE LoadSteps
    BY <1>12 DEF LoadSteps, Rebuilt, ReadSettledFails, Recorded, Unrecorded
  <1>13. CASE Undo
    BY <1>13 DEF Undo, Running
  <1>14. CASE Redo
    BY <1>14 DEF Redo, Running
  <1>15. CASE EditDocument
    BY <1>15 DEF EditDocument, Recorded, ReadSettledFails, Running
  <1>16. CASE InsertBlock
    BY <1>16 DEF InsertBlock, Inserted, Recorded, ReadSettledFails, Running
  <1>17. CASE SetParam
    BY <1>17 DEF SetParam, Snapshot, Recorded, Running
  <1>18. CASE ClearBlock
    BY <1>18 DEF ClearBlock, Recorded, Unrecorded, Running
  <1>19. CASE SelectSnapshot
    BY <1>19 DEF SelectSnapshot, Running
  <1>20. CASE AuditionDocument
    <2>1. /\ device /\ UNCHANGED <<loaded, trial>>
          /\ (history' = <<>> /\ future' = <<>>) \/ UNCHANGED <<history, future>>
          /\ audition' \in {audition, SetAside}
      BY <1>20, <1>d DEF AuditionDocument, Begun, ForgetHistory, Running
    <2> QED BY <2>1
  <1>21. CASE AuditionSteps
    <2>1. /\ device /\ UNCHANGED <<loaded, trial>>
          /\ (history' = <<>> /\ future' = <<>>) \/ UNCHANGED <<history, future>>
          /\ audition' \in {audition, SetAside}
      BY <1>21, <1>d DEF AuditionSteps, Auditioned, Begun, ForgetHistory, ReadSettledFails, Running
    <2> QED BY <2>1
  <1>22. CASE KeepAudition
    BY <1>22, <1>b DEF KeepAudition, ReadSettledFails, Running
  <1>23. CASE TryModel
    BY <1>23 DEF TryModel, Running
  <1>24. CASE PutBack
    BY <1>24 DEF PutBack, Running, Within
  <1>25. CASE KeepTry
    BY <1>25 DEF KeepTry, Running
  <1>26. CASE ReloadRead
    BY <1>26 DEF ReloadRead, ReadSettledFails
  <1>27. CASE ReloadAsk
    BY <1>27, <1>e DEF ReloadAsk, Adopt, ForgetHistory
  <1>28. CASE Poll
    BY <1>28 DEF Poll
  <1>29. CASE UNCHANGED vars
    BY <1>29 DEF vars
  <1> QED BY <1>1, <1>2, <1>3, <1>4, <1>5, <1>6, <1>7, <1>8, <1>9, <1>10, <1>11, <1>12, <1>13,
             <1>14, <1>15, <1>16, <1>17, <1>18, <1>19, <1>20, <1>21, <1>22, <1>23, <1>24, <1>25, <1>26,
             <1>27, <1>28, <1>29 DEF Next

UntonedPedal == \A p \in Presets : stored[p] \in Plain

UntonedKept ==
    /\ device /\ audition = None =>
          /\ buffer \in Plain /\ history \in Seq(Plain) /\ future \in Seq(Plain)
          /\ trial # None => Within(Plain, trial)
    /\ device /\ audition # None => Within(Plain, audition)

(* Only a save writes to memory, and it runs with no audition. *)
LEMMA UntonedPedalNext ==
    ASSUME Typed, Alone, UntonedPedal, UntonedKept, [Next]_vars
    PROVE  UntonedPedal'
  <1>a. stored \in [Presets -> Docs] /\ Control
    BY DEF Typed, PedalOK
  <1>b. ASSUME Saved
        PROVE  UntonedPedal'
    <2>1. buffer \in Plain
      BY <1>a, <1>b DEF Saved, Control, Acting, Alone, EndsAudition, UntonedKept
    <2> QED BY <1>a, <1>b, <2>1 DEF Saved, UntonedPedal
  <1> USE DEF UntonedPedal, pedalVars
  <1>1. CASE Connect \/ Disconnect \/ PanelSwitch \/ Submit \/ EndAudition \/ Select \/ SaveAsk \/
             GoTo \/ Paste \/ LoadSteps \/ Undo \/ Redo \/ EditDocument \/ InsertBlock \/ SetParam \/
             ClearBlock \/ SelectSnapshot \/ AuditionDocument \/ AuditionSteps \/ KeepAudition \/
             TryModel \/ PutBack \/ KeepTry \/ ReloadRead \/ ReloadAsk \/ Poll
    BY <1>1 DEF Connect, Disconnect, PanelSwitch, Loads, Submit, EndAudition, Select, SaveAsk,
           GoTo, Paste, LoadSteps, ReadSettledFails, Undo, Redo, EditDocument, InsertBlock, SetParam,
           ClearBlock, SelectSnapshot, AuditionDocument, AuditionSteps, KeepAudition, TryModel,
           PutBack, KeepTry, ReloadRead, ReloadAsk, Poll
  <1>2. CASE Lose
    BY <1>2, <1>b DEF Lose, Going
  <1>3. CASE SaveCommit
    BY <1>3, <1>b DEF SaveCommit
  <1>4. CASE UNCHANGED vars
    BY <1>4 DEF vars
  <1> QED BY <1>1, <1>2, <1>3, <1>4 DEF Next

(* A tone gets into the stacks only during its audition, which replaces them when it ends. *)
LEMMA UntonedKeptNext ==
    ASSUME Typed, Alone, UntonedPedal, UntonedKept, [Next]_vars, Troubles \subseteq {"lose"}
    PROVE  UntonedKept'
  <1>a. ASSUME device, audition = None
        PROVE  /\ Push(history, buffer) \in Seq(Plain)
               /\ history # <<>> => /\ Pop(history) \in Seq(Plain) /\ Append(future, buffer) \in Seq(Plain)
                                    /\ Top(history) \in Plain
               /\ future # <<>> => /\ Pop(future) \in Seq(Plain) /\ Append(history, buffer) \in Seq(Plain)
                                   /\ Top(future) \in Plain
               /\ Within(Plain, SetAside)
               /\ trial # None => Push(trial.history, trial.original) \in Seq(Plain)
    BY <1>a, StacksWithin, KeptWithin, EditorAssumption DEF UntonedKept, Typed, Asides
  <1>b. ASSUME device, audition # None
        PROVE  Push(audition.history, audition.original) \in Seq(Plain)
    BY <1>b, KeptWithin, EditorAssumption DEF UntonedKept, Typed, Asides
  <1>c. <<>> \in Seq(Plain)
    OBVIOUS
  <1>d. ~Refusing /\ "panel" \notin Troubles
    BY DEF Refusing
  <1>e. Control /\ Alone /\ loaded \in Presets
    BY DEF Typed, PedalOK
  <1>f. /\ Edited /\ buffer \in Plain => buffer' \in Plain
        /\ \A p \in Presets : Wrote(p, FALSE) => buffer' \in Plain
        /\ [buffer EXCEPT !.tone = FALSE] \in Plain
    BY WrittenDocs DEF Plain
  <1>g. SetAside # None
    BY NoneAssumption DEF SetAside, Typed, PedalOK, WorkerOK, Stacked
  <1> USE <1>a, <1>c, <1>d DEF UntonedKept, pedalVars, stacks, asideVars
  <1>1. CASE Connect
    BY <1>1, <1>f DEF Connect, ForgetHistory
  <1>2. CASE Lose
    BY <1>2 DEF Lose, LetGo, Going
  <1>3. CASE Disconnect
    BY <1>3 DEF Disconnect, LetGo, Running
  <1>4. CASE PanelSwitch
    BY <1>4 DEF PanelSwitch, Loads
  <1>5. CASE Submit
    BY <1>5 DEF Submit, KeptTrial
  <1>6. CASE EndAudition
    BY <1>6, <1>e DEF EndAudition, Running, Within, Control, Acting, Alone, EndsAudition
  <1>7. CASE Select
    BY <1>7, <1>e DEF Select, Selects, Loads, ForgetHistory, Running, Control, Acting, CommandOK, Alone,
       EndsAudition, UntonedPedal, Going
  <1>8. CASE SaveAsk
    BY <1>8 DEF SaveAsk, Running
  <1>9. CASE SaveCommit
    BY <1>9 DEF SaveCommit
  <1>10. CASE GoTo
    BY <1>10, <1>e DEF GoTo, Selects, Loads, ForgetHistory, Running, Control, Acting, CommandOK, Going,
       Alone, EndsAudition, UntonedPedal
  <1>11. CASE Paste
    BY <1>11, <1>e, <1>f DEF Paste, Recorded, Unrecorded, Running, Alone, Control, Acting,
       CommandOK, Going, EndsAudition
  <1>12. CASE LoadSteps
    BY <1>12, <1>e, <1>f DEF LoadSteps, Rebuilt, ReadSettledFails, Recorded, Unrecorded, Alone,
       Control, Acting, CommandOK, Going, EndsAudition
  <1>13. CASE Undo
    BY <1>13 DEF Undo, Running
  <1>14. CASE Redo
    BY <1>14 DEF Redo, Running
  <1>15. CASE EditDocument
    BY <1>15, <1>f DEF EditDocument, Recorded, ReadSettledFails, Running
  <1>16. CASE InsertBlock
    BY <1>16, <1>f DEF InsertBlock, Inserted, Recorded, ReadSettledFails, Running
  <1>17. CASE SetParam
    BY <1>17, <1>f DEF SetParam, Snapshot, Recorded, Running
  <1>18. CASE ClearBlock
    BY <1>18, <1>f DEF ClearBlock, Recorded, Unrecorded, Running
  <1>19. CASE SelectSnapshot
    BY <1>19 DEF SelectSnapshot, Running
  <1>20. CASE AuditionDocument
    <2>1. /\ device
          /\ \/ UNCHANGED <<buffer, history, future, audition, trial>>
             \/ audition # None /\ UNCHANGED audition
             \/ audition = None /\ audition' = SetAside
      BY <1>20, <1>d DEF AuditionDocument, Begun, Running, stacks
    <2> QED BY <2>1, <1>g
  <1>21. CASE AuditionSteps
    <2>1. /\ device
          /\ \/ UNCHANGED <<buffer, history, future, audition, trial>>
             \/ audition # None /\ UNCHANGED audition
             \/ audition = None /\ audition' = SetAside
      BY <1>21, <1>d DEF AuditionSteps, Auditioned, Begun, ReadSettledFails, Running, stacks
    <2> QED BY <2>1, <1>g
  <1>22. CASE KeepAudition
    BY <1>22, <1>b, <1>e, <1>f DEF KeepAudition, ReadSettledFails, Running, Alone, Control, Acting
  <1>23. CASE TryModel
    BY <1>23, <1>f DEF TryModel, Running
  <1>24. CASE PutBack
    BY <1>24 DEF PutBack, Running, Within
  <1>25. CASE KeepTry
    BY <1>25 DEF KeepTry, Running
  <1>26. CASE ReloadRead
    BY <1>26 DEF ReloadRead, ReadSettledFails
  <1>27. CASE ReloadAsk
    BY <1>27, <1>e DEF ReloadAsk, Adopt, ForgetHistory, Alone
  <1>28. CASE Poll
    BY <1>28 DEF Poll
  <1>29. CASE UNCHANGED vars
    BY <1>29 DEF vars
  <1> QED BY <1>1, <1>2, <1>3, <1>4, <1>5, <1>6, <1>7, <1>8, <1>9, <1>10, <1>11, <1>12, <1>13,
             <1>14, <1>15, <1>16, <1>17, <1>18, <1>19, <1>20, <1>21, <1>22, <1>23, <1>24, <1>25, <1>26,
             <1>27, <1>28, <1>29 DEF Next

\* A buffer that is neither marked nor was unsaved before the session is the
\* preset as stored; so would be the one a try or an audition set aside.
Clean ==
    device /\ ~carried =>
        /\ audition = None /\ ~dirty =>
               buffer.text = stored[loaded].text \/ (pc = "undo" /\ history # <<>>)
        /\ audition = None /\ trial # None /\ ~trial.dirty =>
               trial.original.text = stored[loaded].text
        /\ audition # None /\ ~audition.dirty =>
               audition.original.text = stored[loaded].text

(* What changes the buffer sets the flag, but for a build that is then undone. *)
LEMMA CleanNext ==
    ASSUME Typed, Alone, Clean, [Next]_vars, Troubles \subseteq {"lose"}
    PROVE  Clean'
  <1>a. /\ loaded \in Presets /\ stored \in [Presets -> Docs] /\ buffer \in Docs
        /\ ~Refusing /\ "panel" \notin Troubles
        /\ pc \in {"idle", "putback", "run", "commit", "select", "load", "undo", "end", "read", "ask"}
    BY DEF Typed, PedalOK, PlaceOK, Refusing
  <1>b. Control /\ Alone
    BY DEF Typed
  <1>c. Push(history, buffer) # <<>>
    BY RecordedStacks, EditorAssumption DEF Typed, PedalOK
  <1>d. SetAside.original = buffer /\ SetAside.dirty = dirty /\ SetAside # None
    BY NoneAssumption DEF SetAside, Typed, PedalOK, WorkerOK, Stacked
  <1>e. [buffer EXCEPT !.tone = FALSE].text = buffer.text
    BY WrittenDocs
  <1> USE <1>a DEF Clean, pedalVars, stacks, asideVars
  <1>1. CASE Connect
    BY <1>1, <1>e DEF Connect, ForgetHistory, Goes
  <1>2. CASE Lose
    BY <1>2 DEF Lose, LetGo, Goes, Going, Saved
  <1>3. CASE Disconnect
    BY <1>3 DEF Disconnect, LetGo, Goes, Running
  <1>4. CASE PanelSwitch
    BY <1>4 DEF PanelSwitch, Loads
  <1>5. CASE Submit
    BY <1>5 DEF Submit, KeptTrial
  <1>6. CASE EndAudition
    BY <1>6, <1>b DEF EndAudition, Goes, Running, Control, Acting, Alone, EndsAudition
  <1>7. CASE Select
    BY <1>7, <1>b DEF Select, Selects, Loads, ForgetHistory, Goes, Running, Control, Acting, CommandOK,
       Alone, EndsAudition, Going
  <1>8. CASE SaveAsk
    BY <1>8 DEF SaveAsk, Goes, Running
  <1>9. CASE SaveCommit
    BY <1>9, <1>b DEF SaveCommit, Saved, Goes, Control, Acting, Alone, EndsAudition
  <1>10. CASE GoTo
    <2>1. /\ pc = "run" /\ cmd.kind \in {"LoadDocument", "LoadSteps"}
          /\ pc' \in {"load", "read"} /\ UNCHANGED <<stored, device>>
          /\ \/ UNCHANGED <<loaded, buffer, stacks, asideVars, carried>>
             \/ /\ loaded' = cmd.to /\ buffer' = stored[cmd.to]
                /\ history' = <<>> /\ future' = <<>> /\ taken' = FALSE
                /\ dirty' = FALSE /\ carried' = FALSE
                /\ \/ audition' = None /\ trial' = None /\ aside' = None
                   \/ UNCHANGED asideVars
      BY <1>10 DEF GoTo, Selects, Loads, ForgetHistory, Goes, Running
    <2>2. audition = None /\ trial = None
      BY <2>1, <1>b DEF Control, Acting, CommandOK, Going, Alone, EndsAudition
    <2> QED BY <2>1, <2>2
  <1>11. CASE Paste
    <2>1. /\ pc \in {"run", "load"} /\ pc' # "undo"
          /\ UNCHANGED <<loaded, stored, device, audition, trial, carried>>
          /\ dirty' = TRUE \/ UNCHANGED <<buffer, dirty>>
      BY <1>11 DEF Paste, Goes, Running
    <2> QED BY <2>1
  <1>12. CASE LoadSteps
    BY <1>12, <1>b, <1>c DEF LoadSteps, Rebuilt, ReadSettledFails, Recorded, Unrecorded, Goes,
       Alone, Control, Acting, EndsAudition
  <1>13. CASE Undo
    BY <1>13 DEF Undo, Goes, Running
  <1>14. CASE Redo
    BY <1>14 DEF Redo, Goes, Running
  <1>15. CASE EditDocument
    BY <1>15 DEF EditDocument, Recorded, ReadSettledFails, Goes, Running
  <1>16. CASE InsertBlock
    BY <1>16 DEF InsertBlock, Inserted, Recorded, ReadSettledFails, Goes, Running
  <1>17. CASE SetParam
    BY <1>17 DEF SetParam, Snapshot, Recorded, Goes, Running
  <1>18. CASE ClearBlock
    BY <1>18 DEF ClearBlock, Recorded, Unrecorded, Goes, Running
  <1>19. CASE SelectSnapshot
    BY <1>19 DEF SelectSnapshot, Goes, Running
  <1>20. CASE AuditionDocument
    <2>1. /\ pc = "run" /\ device /\ UNCHANGED <<loaded, stored, trial, carried>>
          /\ \/ UNCHANGED <<buffer, dirty, audition>>
             \/ audition # None /\ UNCHANGED audition
             \/ audition = None /\ audition' = SetAside
      BY <1>20 DEF AuditionDocument, Begun, Running
    <2> QED BY <2>1, <1>d
  <1>21. CASE AuditionSteps
    <2>1. /\ pc = "run" /\ device /\ UNCHANGED <<loaded, stored, trial, carried>>
          /\ \/ UNCHANGED <<buffer, dirty, audition>>
             \/ audition # None /\ UNCHANGED audition
             \/ audition = None /\ audition' = SetAside
      BY <1>21 DEF AuditionSteps, Auditioned, Begun, ReadSettledFails, Running
    <2> QED BY <2>1, <1>d
  <1>22. CASE KeepAudition
    BY <1>22, <1>b DEF KeepAudition, ReadSettledFails, Goes, Running, Alone, Control, Acting
  <1>23. CASE TryModel
    BY <1>23, <1>d DEF TryModel, Goes, Running
  <1>24. CASE PutBack
    BY <1>24 DEF PutBack, Goes, Running
  <1>25. CASE KeepTry
    BY <1>25 DEF KeepTry, Goes, Running
  <1>26. CASE ReloadRead
    BY <1>26 DEF ReloadRead, ReadSettledFails, Goes
  <1>27. CASE ReloadAsk
    BY <1>27, <1>b DEF ReloadAsk, Adopt, ForgetHistory, Goes, Alone
  <1>28. CASE Poll
    BY <1>28 DEF Poll, Goes
  <1>29. CASE UNCHANGED vars
    BY <1>29 DEF vars
  <1> QED BY <1>1, <1>2, <1>3, <1>4, <1>5, <1>6, <1>7, <1>8, <1>9, <1>10, <1>11, <1>12, <1>13,
             <1>14, <1>15, <1>16, <1>17, <1>18, <1>19, <1>20, <1>21, <1>22, <1>23, <1>24, <1>25, <1>26,
             <1>27, <1>28, <1>29 DEF Next

\* The inductive invariant of the three theorems below.
IInv == Typed /\ Alone /\ HomesPedal /\ HomesKept /\ UntonedPedal /\ UntonedKept /\ Clean

(* A pedal just switched on, and a worker that keeps nothing. *)
LEMMA IInvInit ==
    ASSUME EditorAssumption, Init
    PROVE  IInv
  <1>1. Typed /\ HomesPedal
    <2>1. Typed
      BY TypedInit
    <2>2. stored[loaded] \in Docs /\ stored[loaded].home = loaded
      BY DEF Init
    <2>3. PICK t \in Texts : buffer = [stored[loaded] EXCEPT !.text = t]
      BY DEF Init
    <2>4. buffer.home = loaded
      BY <2>2, <2>3 DEF Docs
    <2> QED BY <2>1, <2>4 DEF Init, HomesPedal, Of, Typed, PedalOK
  <1>2. UntonedPedal
    BY DEF Init, UntonedPedal, Plain
  <1> QED BY <1>1, <1>2 DEF Init, IInv, Alone, Acting, HomesKept, UntonedKept, Clean

(* The parts, together. *)
LEMMA IInvNext ==
    ASSUME IInv, [Next]_vars, Troubles \subseteq {"lose"}
    PROVE  IInv'
  BY TypedNext, AloneNext, HomesPedalNext, HomesKeptNext, UntonedPedalNext, UntonedKeptNext,
     CleanNext DEF IInv

(* So it holds in every state. *)
LEMMA IInvAlways ==
    ASSUME Troubles \subseteq {"lose"}
    PROVE  Spec => []IInv
  <1>1. Init => IInv
    BY IInvInit, EditorAssumption
  <1>2. IInv /\ [Next]_vars => IInv'
    BY IInvNext
  <1> QED BY <1>1, <1>2, PTL DEF Spec

(* Undo, redo, Put back and the end of an audition only ever write a document of *)
(* the preset that is loaded (select, adopt, step_history).                       *)
THEOREM KeptIsLoadedHolds ==
    ASSUME Troubles \subseteq {"lose"}
    PROVE  Spec => []KeptIsLoaded
  <1>1. ASSUME IInv
        PROVE  KeptIsLoaded
    <2> SUFFICES ASSUME device, NEW doc \in Kept
                 PROVE  doc.home = loaded
      BY DEF KeptIsLoaded
    <2>1. HomesKept
      BY <1>1 DEF IInv
    <2>2. ASSUME NEW i \in DOMAIN history, doc = history[i]
          PROVE  doc \in Of(loaded)
      BY <2>1, <2>2 DEF HomesKept
    <2>3. ASSUME NEW i \in DOMAIN future, doc = future[i]
          PROVE  doc \in Of(loaded)
      BY <2>1, <2>3 DEF HomesKept
    <2>4. ASSUME audition # None, doc = audition.original
          PROVE  doc \in Of(loaded)
      BY <2>1, <2>4 DEF HomesKept, Within
    <2>5. ASSUME trial # None, doc = trial.original
          PROVE  doc \in Of(loaded)
      BY <2>1, <2>5 DEF HomesKept, Within
    <2>6. doc \in Of(loaded)
      BY <2>2, <2>3, <2>4, <2>5 DEF Kept
    <2> QED BY <2>6 DEF Of
  <1>2. Spec => []IInv
    BY IInvAlways
  <1> QED BY <1>1, <1>2, PTL

(* A tone being auditioned never reaches the pedal's memory in the session that *)
(* auditions it (handle puts an audition back before what saves or leaves).      *)
THEOREM AuditionNeverSavedHolds ==
    ASSUME Troubles \subseteq {"lose"}
    PROVE  Spec => []AuditionNeverSaved
  <1>1. IInv => AuditionNeverSaved
    BY DEF IInv, UntonedPedal, Plain, AuditionNeverSaved
  <1>2. Spec => []IInv
    BY IInvAlways
  <1> QED BY <1>1, <1>2, PTL

(* With the unsaved flag off, between commands and outside an audition, the edit *)
(* buffer is what is stored, but for what was unsaved before this session opened *)
(* (Worker.dirty).                                                               *)
THEOREM CleanIsStoredHolds ==
    ASSUME Troubles \subseteq {"lose"}
    PROVE  Spec => []CleanIsStored
  <1>1. IInv => CleanIsStored
    BY DEF IInv, Clean, CleanIsStored
  <1>2. Spec => []IInv
    BY IInvAlways
  <1> QED BY <1>1, <1>2, PTL

=============================================================================
