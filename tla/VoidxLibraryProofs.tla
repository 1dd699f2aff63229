------------------------- MODULE VoidxLibraryProofs -------------------------
(***************************************************************************)
(* VoidxLibrary's invariants for any number of slots, names and contents,   *)
(* and however many jobs, failed requests and presets stored at the panel.  *)
(***************************************************************************)
EXTENDS VoidxLibrary, TLAPS

NameLists == [Index -> Names \cup {Free}]
Pairs == Index \X Index

\* What a call is, at each of its places.
CapturePhases == {"read", "rest", "ends", "again"}
CapturesRead ==
    [op : {"capture"}, phase : CapturePhases, at : Nat, names : NameLists, setting : Values,
     got : Blobs \cup {None}, read : Seq(Presets \cup {Free})]
CaptureJobs == [op : {"capture"}, phase : {"list"}] \cup CapturesRead
ArmJobs == [op : {"arm"}, phase : {"list", "compare", "compareSetting", "enable"},
            rollback : Bundles, at : Index]
ImportJobs == [op : {"import"}, phase : {"upload", "data", "commit", "committed", "readback"},
               at : Index, put : Presets]
RenameJobs == [op : {"rename"}, phase : {"rename", "renamed"}, at : Index, name : Names]
ClearJobs == [op : {"clear"}, phase : {"clear", "cleared"}, at : Index]
SettingJobs == [op : {"setting"}, phase : {"set"}, value : Values]
RestoreJobs ==
    [op : {"restore", "restore_armed"},
     phase : {"list", "compare", "compareSetting", "preflight", "plan", "slot", "clear", "cleared",
              "upload", "data", "commit", "committed", "readback", "final", "set", "setRead"},
     at : Index, source : Bundles, rollback : Bundles, names : NameLists \cup {<<>>},
     changed : BOOLEAN]
MoveJobs ==
    [op : {"move"}, phase : {"list", "swap", "exchange", "swapped", "look", "verify", "final"},
     from : Index, to : Index, todo : Seq(Pairs), done : Seq(Pairs), back : BOOLEAN,
     before : NameLists \cup {<<>>}, names : NameLists \cup {<<>>}, found : NameLists \cup {<<>>}]
Jobs == CaptureJobs \cup ArmJobs \cup ImportJobs \cup RenameJobs \cup ClearJobs
          \cup SettingJobs \cup RestoreJobs \cup MoveJobs

PutPhases == {"upload", "data", "commit", "committed", "readback"}

\* Where a move is: its pairs in order, those exchanged and those to come.
Span(j) == IF j.from < j.to THEN j.to - j.from ELSE j.from - j.to
Step(j, m) == IF j.from < j.to THEN <<j.from + m - 1, j.from + m>>
              ELSE <<j.from - m + 1, j.from - m>>

\* What a capture, a restore and a move know of themselves at each place.
Reads(j) ==
    j.op = "capture" /\ j.phase # "list" =>
        /\ j \in CapturesRead
        /\ IF j.phase = "again" THEN j.at = Count + 1 ELSE j.at \in Index
        /\ j.phase \in {"rest", "ends"} => j.got \in Blobs /\ j.names[j.at] # Free
        /\ Len(j.read) = j.at - 1

Shape(j) ==
    j.op = "move" =>
        /\ j.from # j.to /\ Len(j.done) <= Span(j)
        /\ \A m \in 1..Len(j.done) : j.done[m] = Step(j, m)
        /\ ~j.back => /\ Len(j.todo) = Span(j) - Len(j.done)
                      /\ \A m \in 1..Len(j.todo) : j.todo[m] = Step(j, Len(j.done) + m)
        /\ j.phase = "list" => ~j.back /\ j.done = <<>>
        /\ j.phase \in {"swap", "exchange", "swapped"} =>
              IF j.back THEN j.done # <<>> ELSE j.todo # <<>>
        /\ j.phase = "look" => ~j.back /\ j.todo # <<>>
        /\ j.phase = "verify" => j.back /\ j.done = <<>>
        /\ j.phase = "final" => ~j.back /\ j.todo = <<>>
        /\ j.phase # "list" => j.before \in NameLists /\ j.names \in NameLists
        /\ j.phase \in {"exchange", "swapped"} => j.found \in NameLists

Writes(j) ==
    j.op \in {"restore", "restore_armed"} =>
        /\ j.phase \in PutPhases => j.source.slots[j.at] # Free
        /\ j.phase \in {"clear", "cleared"} => j.source.slots[j.at] = Free
        /\ j.phase \in {"list", "compare", "compareSetting"} => j.op = "restore"
        /\ j.phase = "preflight" => j.op = "restore_armed"
        /\ j.op = "restore_armed" /\ j.phase # "preflight" => j.names \in NameLists

JobOK == job # None => job \in Jobs /\ Reads(job) /\ Shape(job) /\ Writes(job)

-----------------------------------------------------------------------------
(* Calls and their places                                                   *)

(* The call tells its own fields. *)
LEMMA JobKinds ==
    ASSUME NEW j \in Jobs
    PROVE  /\ j.op \in Kinds
           /\ j.op = "capture" => j \in CaptureJobs
           /\ j.op = "arm" => j \in ArmJobs
           /\ j.op = "import" => j \in ImportJobs
           /\ j.op = "rename" => j \in RenameJobs
           /\ j.op = "clear" => j \in ClearJobs
           /\ j.op = "setting" => j \in SettingJobs
           /\ j.op \in {"restore", "restore_armed"} => j \in RestoreJobs
           /\ j.op = "move" => j \in MoveJobs
  BY DEF Jobs, CaptureJobs, CapturesRead, ArmJobs, ImportJobs, RenameJobs, ClearJobs, SettingJobs, RestoreJobs,
         MoveJobs, Kinds

(* What the pedal lists is a list of names. *)
LEMMA NamesListed ==
    ASSUME NEW t \in Tables
    PROVE  /\ NamesOf(t) \in NameLists
           /\ \A i \in Index : NamesOf(t)[i] = NameOf(t[i])
  BY DEF Tables, Presets, NamesOf, NameOf, NameLists

(* A slot is free just when it has no name. *)
LEMMA FreeNames ==
    ASSUME FreeAssumption, NEW s \in Presets \cup {Free}
    PROVE  /\ NameOf(s) = Free <=> s = Free
           /\ s # Free => NameOf(s) = s.name /\ NameOf(s) \in Names
  BY DEF FreeAssumption, Presets, NameOf

(* Between two calls only a call, or another session, begins. *)
LEMMA NoJob ==
    ASSUME job = None, [Next]_vars
    PROVE  Asked \/ Reconnect \/ UNCHANGED vars
  BY DEF Next, Panel, Capturing, Proving, Uploading, Editing, Restores, Moving, At, Verifying,
         Restoring, CaptureListed, CaptureRead, CaptureRest, CaptureReused, CaptureEnds, CaptureAgain, VerifyListed, VerifyContents,
         VerifySetting, EnableWrites, UploadListed, UploadData, UploadCommit, UploadNamed,
         UploadReadBack, RenameCommit, RenameListed, ClearCommit, ClearListed, SettingWrite,
         SettingRead, ArmedPreflight, RestorePlan, RestoreSlot, RestoreFinal, MoveListed,
         SwapBefore, SwapExchange, SwapAfter, LookAgain, MoveVerify, MoveFinal

\* What a call is as it begins.
Fresh(call) ==
    /\ call \in Jobs /\ Reads(call) /\ Shape(call) /\ Writes(call)
    /\ call.phase \notin {"clear", "set"} \/ call.op \in {"clear", "setting"}
    /\ call.op \in {"capture", "arm", "restore", "move"} => call.phase = "list"
    /\ call.op = "import" => call.phase = "upload"
    /\ call.op = "restore_armed" => call.phase = "preflight"
    /\ call.op \in {"arm", "restore", "restore_armed"} => call.at = 1

(* The pairs of a move are slots of the list. *)
LEMMA AdjacentSteps ==
    ASSUME LibraryAssumption, NEW from \in Index, NEW to \in Index, from # to,
           NEW j, j.from = from, j.to = to
    PROVE  /\ Adjacent(from, to) \in Seq(Pairs) /\ Len(Adjacent(from, to)) = Span(j)
           /\ \A m \in 1..Span(j) : Adjacent(from, to)[m] = Step(j, m)
  <1>a. /\ Index = 1..Count /\ Count \in Nat /\ from \in Int /\ to \in Int
        /\ 1 <= from /\ from <= Count /\ 1 <= to /\ to <= Count
    BY DEF Index, LibraryAssumption
  <1>1. CASE from < to
    <2> DEFINE s == [k \in 1..(to - from) |-> <<from + k - 1, from + k>>]
    <2>1. \A k \in 1..(to - from) : s[k] \in Pairs
      BY <1>a, <1>1 DEF Pairs
    <2>2. s \in Seq(Pairs) /\ Len(s) = to - from
      BY <1>a, <1>1, <2>1
    <2> QED BY <1>a, <1>1, <2>2 DEF Adjacent, Span, Step
  <1>2. CASE to < from
    <2> DEFINE n == from - to
               s == [k \in 1..n |-> <<from - k + 1, from - k>>]
    <2>1. n \in Nat /\ \A k \in 1..n : s[k] \in Pairs
      BY <1>a, <1>2 DEF Pairs
    <2>2. s \in Seq(Pairs) /\ Len(s) = n
      BY <2>1
    <2>3. Adjacent(from, to) = s /\ Span(j) = n
      BY <1>a, <1>2 DEF Adjacent, Span
    <2>4. \A m \in 1..n : s[m] = Step(j, m)
      BY <1>a, <1>2 DEF Step
    <2> QED BY <2>2, <2>3, <2>4
  <1> QED BY <1>a, <1>1, <1>2

(* A call begins at its first place. *)
LEMMA AskedBegins ==
    ASSUME LibraryAssumption, Asked, bundles \subseteq Bundles, armed = None \/ armed \in Bundles
    PROVE  \E call : Begin(call) /\ Fresh(call)
  <1>a. 1 \in Index
    BY DEF Index, LibraryAssumption
  <1> USE DEF Fresh, Reads, Shape, Writes, Jobs, PutPhases
  <1>1. CASE Capture
    BY <1>1 DEF Capture, CaptureJobs
  <1>2. CASE Arm
    BY <1>2, <1>a DEF Arm, ArmJobs
  <1>3. CASE Import
    BY <1>3 DEF Import, Writing, ImportJobs, Presets
  <1>4. CASE Rename
    BY <1>4 DEF Rename, Writing, RenameJobs
  <1>5. CASE Clear
    BY <1>5 DEF Clear, Writing, ClearJobs
  <1>6. CASE SetSetting
    BY <1>6 DEF SetSetting, Writing, SettingJobs
  <1>7. CASE Move
    <2>1. PICK from \in Index, to \in Index :
            /\ from # to
            /\ Begin([op |-> "move", phase |-> "list", from |-> from, to |-> to,
                      todo |-> Adjacent(from, to), done |-> <<>>, back |-> FALSE, before |-> <<>>,
                      names |-> <<>>, found |-> <<>>])
      BY <1>7 DEF Move, Writing
    <2> DEFINE call == [op |-> "move", phase |-> "list", from |-> from, to |-> to,
                        todo |-> Adjacent(from, to), done |-> <<>>, back |-> FALSE,
                        before |-> <<>>, names |-> <<>>, found |-> <<>>]
    <2>2. /\ Adjacent(from, to) \in Seq(Pairs) /\ Len(Adjacent(from, to)) = Span(call)
          /\ \A m \in 1..Span(call) : Adjacent(from, to)[m] = Step(call, m)
      BY <2>1, AdjacentSteps
    <2>3. Span(call) \in Nat
      BY <2>1 DEF Span, Index
    <2>4. call \in MoveJobs
      BY <2>2 DEF MoveJobs
    <2> HIDE DEF call
    <2>5. /\ call.op = "move" /\ call.phase = "list" /\ call.from # call.to /\ call.done = <<>>
          /\ call.back = FALSE /\ call.todo = Adjacent(from, to)
      BY <2>1 DEF call
    <2>6. Shape(call)
      BY <2>2, <2>3, <2>5
    <2>7. Begin(call)
      BY <2>1 DEF call
    <2> QED BY <2>4, <2>5, <2>6, <2>7
  <1>8. CASE Restore \/ RestoreArmed
    <2>1. PICK b \in bundles, op \in {"restore", "restore_armed"} :
            /\ armed # None
            /\ Begin([op |-> op, phase |-> IF op = "restore" THEN "list" ELSE "preflight", at |-> 1,
                      source |-> b, rollback |-> armed, names |-> <<>>, changed |-> FALSE])
      BY <1>8 DEF Restore, RestoreArmed, Writing
    <2> DEFINE call == [op |-> op, phase |-> IF op = "restore" THEN "list" ELSE "preflight",
                        at |-> 1, source |-> b, rollback |-> armed, names |-> <<>>,
                        changed |-> FALSE]
    <2>2. call \in RestoreJobs
      BY <2>1, <1>a DEF RestoreJobs
    <2>3. /\ call.op = op /\ call.at = 1
          /\ call.phase = IF op = "restore" THEN "list" ELSE "preflight"
      OBVIOUS
    <2>4. Begin(call)
      BY <2>1
    <2> HIDE DEF call
    <2> QED BY <2>2, <2>3, <2>4
  <1> QED BY <1>1, <1>2, <1>3, <1>4, <1>5, <1>6, <1>7, <1>8 DEF Asked

-----------------------------------------------------------------------------
(* Every step keeps a call at one of its places                             *)

\* What a step leaves of a call: nothing, or the same call further on.
Further == job' = None \/ (/\ job' \in Jobs /\ job'.op = job.op
                           /\ Reads(job') /\ Shape(job') /\ Writes(job'))

(* A capture at another place. *)
LEMMA CaptureAt ==
    ASSUME NEW j \in CapturesRead, NEW i \in Nat, NEW l \in Seq(Presets \cup {Free}),
           NEW p \in CapturePhases, NEW g \in Blobs \cup {None}
    PROVE  /\ [j EXCEPT !.at = i, !.got = g, !.read = l, !.phase = p] \in CapturesRead
           /\ [j EXCEPT !.phase = p, !.got = g] \in CapturesRead
  BY DEF CapturesRead

(* The slot being read is taken, and the next one is read or the names again. *)
LEMMA TookGoes ==
    ASSUME LibraryAssumption, job # None, JobOK, job.op = "capture",
           job.phase \in {"read", "rest", "ends"}, NEW s \in Presets \cup {Free}, Took(s)
    PROVE  Further
  <1>a. /\ job \in CapturesRead /\ job.at \in Index /\ Len(job.read) = job.at - 1
        /\ Count \in Nat /\ Count >= 1 /\ Index = 1..Count
    BY DEF JobOK, Reads, LibraryAssumption, Index
  <1>1. job.read \in Seq(Presets \cup {Free}) /\ job.at + 1 \in Nat
    BY <1>a DEF CapturesRead
  <1>2. /\ Append(job.read, s) \in Seq(Presets \cup {Free})
        /\ Len(Append(job.read, s)) = Len(job.read) + 1
    BY <1>1
  <1>3. \A q \in CapturePhases, l \in Seq(Presets \cup {Free}) :
           [job EXCEPT !.at = job.at + 1, !.got = None, !.read = l, !.phase = q] \in CapturesRead
    BY <1>a, <1>1, CaptureAt
  <1>4. job' = [job EXCEPT !.at = @ + 1, !.got = None, !.read = Append(@, s),
                           !.phase = IF job.at = Count THEN "again" ELSE "read"]
    BY DEF Took, Goes
  <1>5. job' \in CapturesRead
    BY <1>2, <1>3, <1>4 DEF CapturePhases
  <1>6. /\ job'.op = "capture" /\ job'.at = job.at + 1 /\ job'.read = Append(job.read, s)
        /\ job'.phase = IF job.at = Count THEN "again" ELSE "read"
    BY <1>a, <1>4 DEF CapturesRead
  <1>7. Reads(job')
    BY <1>a, <1>2, <1>5, <1>6 DEF Reads
  <1> QED BY <1>5, <1>6, <1>7 DEF Further, Jobs, CaptureJobs, Shape, Writes

(* More of the slot is read. *)
LEMMA ReadOn ==
    ASSUME job # None, JobOK, job.op = "capture", job.phase \in {"read", "rest"},
           NEW b \in Blobs, NEW p \in {"rest", "ends"}, job.names[job.at] # Free,
           job' = [job EXCEPT !.phase = p, !.got = b]
    PROVE  Further /\ job'.names = job.names /\ job'.at = job.at /\ job'.read = job.read
                   /\ job'.phase = p /\ job'.got = b
  <1>a. /\ job \in CapturesRead /\ job.at \in Index /\ Len(job.read) = job.at - 1
    BY DEF JobOK, Reads
  <1>b. job.at \in Nat /\ job.read \in Seq(Presets \cup {Free})
    BY <1>a DEF CapturesRead
  <1>1. job' \in CapturesRead
    BY <1>a, <1>b, CaptureAt DEF CapturePhases
  <1>2. /\ job'.op = "capture" /\ job'.names = job.names /\ job'.at = job.at
        /\ job'.read = job.read /\ job'.phase = p /\ job'.got = b
    BY <1>a DEF CapturesRead
  <1>3. Reads(job')
    BY <1>a, <1>1, <1>2 DEF Reads
  <1> QED BY <1>1, <1>2, <1>3 DEF Further, Jobs, CaptureJobs, Shape, Writes

(* A capture lists, reads slot after slot, and lists again. *)
LEMMA CaptureGoes ==
    ASSUME LibraryAssumption, FreeAssumption, slots \in Tables, setting \in Values,
           job # None, JobOK, job.op = "capture", Capturing
    PROVE  Further
  <1>a. /\ job \in CaptureJobs /\ Reads(job) /\ NamesOf(slots) \in NameLists
        /\ Count \in Nat /\ Count >= 1 /\ Index = 1..Count
    BY JobKinds, NamesListed DEF JobOK, LibraryAssumption, Index
  <1>b. ASSUME job.phase \in {"read", "rest", "ends"}
        PROVE  /\ ContentOf(job.at) \subseteq Blobs
               /\ job.names[job.at] # Free => job.names[job.at] \in Names
    BY <1>a, <1>b DEF Reads, CapturesRead, NameLists, ContentOf, Tables, Presets
  <1>c. ASSUME job.phase \in {"rest", "ends"} PROVE Got \in Presets
    BY <1>a, <1>b, <1>c DEF Reads, Got, Presets
  <1>1. CASE CaptureListed
    <2> DEFINE next == [op |-> "capture", phase |-> "read", at |-> 1, names |-> NamesOf(slots),
                        setting |-> setting, got |-> None, read |-> <<>>]
    <2>1. job' = None \/ job' = next
      BY <1>1 DEF CaptureListed, Goes, Ends
    <2>2. /\ next \in CapturesRead
          /\ next.op = "capture" /\ next.phase = "read" /\ next.at = 1 /\ Len(next.read) = 0
      BY <1>a DEF CapturesRead, CapturePhases
    <2> HIDE DEF next
    <2>3. next \in Jobs /\ Reads(next) /\ Shape(next) /\ Writes(next)
      BY <1>a, <2>2 DEF Jobs, CaptureJobs, Reads, Shape, Writes
    <2> QED BY <2>1, <2>2, <2>3 DEF Further
  <1>2. CASE CaptureRead
    <2>1. /\ job.phase = "read"
          /\ \/ job' = None
             \/ Took(Free)
             \/ /\ job.names[job.at] # Free
                /\ \E b \in ContentOf(job.at) : job' = [job EXCEPT !.phase = "rest", !.got = b]
      BY <1>2 DEF CaptureRead, At, Goes, Ends
    <2> QED BY <1>b, <2>1, TookGoes, ReadOn DEF Further
  <1>3. CASE CaptureRest
    <2>1. /\ job.phase = "rest" /\ job.names[job.at] # Free
          /\ \/ job' = None
             \/ \E b \in Blobs, p \in {"rest", "ends"} : job' = [job EXCEPT !.phase = p, !.got = b]
      BY <1>3, <1>a DEF CaptureRest, At, Goes, Ends, Reads
    <2> QED BY <2>1, ReadOn DEF Further
  <1>4. CASE CaptureReused
    <2>1. job.phase = "rest" /\ Took(Got)
      BY <1>4 DEF CaptureReused, At
    <2> QED BY <2>1, <1>c, TookGoes
  <1>5. CASE CaptureEnds
    <2>1. job.phase = "ends" /\ (job' = None \/ Took(Got))
      BY <1>5 DEF CaptureEnds, At, Ends
    <2> QED BY <2>1, <1>c, TookGoes DEF Further
  <1>6. CASE CaptureAgain
    BY <1>6 DEF CaptureAgain, Ends, Further
  <1> QED BY <1>1, <1>2, <1>3, <1>4, <1>5, <1>6 DEF Capturing

(* A bundle is proved slot after slot, and the setting last. *)
LEMMA ProvingGoes ==
    ASSUME LibraryAssumption, job # None, JobOK, Proving
    PROVE  Further
  <1>a. /\ job \in Jobs /\ Writes(job) /\ Count \in Nat /\ Count >= 1 /\ Index = 1..Count
        /\ job.op = "arm" => job \in ArmJobs
        /\ job.op = "restore" => job \in RestoreJobs
    BY JobKinds DEF JobOK, LibraryAssumption, Index
  <1>1. job.op \in {"arm", "restore"}
    BY DEF Proving, Verifying, At, VerifyListed, VerifyContents, VerifySetting, EnableWrites
  <1>2. CASE job' = None
    BY <1>2 DEF Further
  <1>3. ASSUME NEW p \in {"compare", "compareSetting", "enable", "plan"}, NEW i \in Index,
               p = "enable" => job.op = "arm", p = "plan" => job.op = "restore",
               job' = [job EXCEPT !.phase = p, !.at = i]
        PROVE  Further
    <2>1. CASE job.op = "arm"
      BY <1>a, <1>3, <2>1 DEF Further, ArmJobs, Jobs, Reads, Shape, Writes
    <2>2. CASE job.op = "restore"
      BY <1>a, <1>3, <2>2 DEF Further, RestoreJobs, Jobs, Reads, Shape, Writes, PutPhases
    <2> QED BY <1>1, <2>1, <2>2
  <1>b. job.at \in Index /\ \A p : [job EXCEPT !.phase = p] = [job EXCEPT !.phase = p, !.at = job.at]
    BY <1>a, <1>1 DEF ArmJobs, RestoreJobs
  <1>4. CASE VerifyListed
    BY <1>4, <1>2, <1>3, <1>b DEF VerifyListed, Goes, Ends
  <1>5. CASE VerifyContents
    <2>1. job.phase = "compare" /\ (job' = None \/ job' = Compared)
      BY <1>5 DEF VerifyContents, Verifying, At, Goes, Ends
    <2>2. [job EXCEPT !.at = job.at + 1] = [job EXCEPT !.phase = "compare", !.at = job.at + 1]
      BY <1>a, <1>1, <2>1 DEF ArmJobs, RestoreJobs
    <2>3. CASE job' = Compared /\ job.at = Count
      <3>1. 1 \in Index
        BY <1>a
      <3>2. job' = [job EXCEPT !.phase = "compareSetting", !.at = 1]
        BY <2>3 DEF Compared
      <3> QED BY <1>3, <3>1, <3>2
    <2>4. CASE job' = Compared /\ job.at # Count
      <3>a. job.at \in Index
        BY <1>b
      <3>1. job.at + 1 \in Index
        BY <1>a, <3>a, <2>4
      <3>2. job' = [job EXCEPT !.phase = "compare", !.at = job.at + 1]
        BY <2>2, <2>4 DEF Compared
      <3> QED BY <1>3, <3>1, <3>2
    <2> QED BY <1>2, <2>1, <2>3, <2>4
  <1>6. CASE VerifySetting
    BY <1>6, <1>1, <1>2, <1>3, <1>b DEF VerifySetting, Goes, Ends
  <1>7. CASE EnableWrites
    BY <1>7, <1>2 DEF EnableWrites, Ends
  <1> QED BY <1>4, <1>5, <1>6, <1>7 DEF Proving

\* A restore at another place.
RestoreTo(p, i, n, c) == [job EXCEPT !.phase = p, !.at = i, !.names = n, !.changed = c]

(* A restore goes from one of its places to another, at a slot of the list. *)
LEMMA RestoreAt ==
    ASSUME job # None, JobOK, Restoring, NEW i \in Index, NEW n \in NameLists \cup {<<>>},
           NEW c \in BOOLEAN,
           NEW p \in {"compare", "compareSetting", "plan", "slot", "clear", "cleared", "upload",
                      "data", "commit", "committed", "readback", "final", "set", "setRead"}
    PROVE  LET next == RestoreTo(p, i, n, c)
           IN /\ next \in RestoreJobs /\ next.op = job.op /\ next.phase = p /\ next.at = i
              /\ next.names = n /\ next.changed = c /\ next.source = job.source
              /\ next.rollback = job.rollback
  BY JobKinds DEF JobOK, Restoring, RestoreTo, RestoreJobs

\* Its places once the pedal is known to hold the rollback.
RestorePhases == {"plan", "slot", "clear", "cleared", "upload", "data", "commit", "committed",
                  "readback", "final", "set", "setRead"}

(* It is then a restore still. *)
LEMMA RestoreGoesTo ==
    ASSUME job # None, JobOK, Restoring, NEW i \in Index, NEW n \in NameLists \cup {<<>>},
           NEW c \in BOOLEAN,
           NEW p \in RestorePhases,
           p \in PutPhases => job.source.slots[i] # Free,
           p \in {"clear", "cleared"} => job.source.slots[i] = Free,
           job.op = "restore_armed" => n \in NameLists,
           job' = RestoreTo(p, i, n, c)
    PROVE  Further
  <1>1. /\ job' \in RestoreJobs /\ job'.op = job.op /\ job'.phase = p /\ job'.at = i
        /\ job'.names = n /\ job'.source = job.source
    <2>1. p \in {"compare", "compareSetting", "plan", "slot", "clear", "cleared", "upload",
                "data", "commit", "committed", "readback", "final", "set", "setRead"}
      BY DEF RestorePhases
    <2> QED BY <2>1, RestoreAt
  <1>2. Writes(job')
    BY <1>1 DEF Writes, PutPhases, RestorePhases
  <1> QED BY <1>1, <1>2 DEF Further, Jobs, Reads, Shape, Restoring

(* What a restore is. *)
LEMMA RestoreFields ==
    ASSUME job # None, JobOK, Restoring
    PROVE  /\ job \in RestoreJobs /\ job.at \in Index /\ job.changed \in BOOLEAN
           /\ job.names \in NameLists \cup {<<>>}
           /\ job.op = "restore_armed" /\ job.phase # "preflight" => job.names \in NameLists
           /\ job.source \in Bundles /\ job.source.slots \in Tables
           /\ job.source.slots[job.at] \in Presets \cup {Free}
  <1>1. job \in RestoreJobs
    BY JobKinds DEF JobOK, Restoring
  <1>2. job.op = "restore_armed" /\ job.phase # "preflight" => job.names \in NameLists
    BY DEF JobOK, Writes
  <1>3. /\ job.at \in Index /\ job.changed \in BOOLEAN /\ job.names \in NameLists \cup {<<>>}
        /\ job.source \in Bundles
    BY <1>1 DEF RestoreJobs
  <1>4. job.source.slots \in Tables
    BY <1>3 DEF Bundles
  <1>5. job.source.slots[job.at] \in Presets \cup {Free}
    BY <1>3, <1>4 DEF Tables
  <1> QED BY <1>1, <1>2, <1>3, <1>4, <1>5

(* Whose place alone is said to change. *)
LEMMA RestorePlaces ==
    ASSUME job # None, JobOK, Restoring, NEW p, NEW i, NEW n, NEW c
    PROVE  /\ [job EXCEPT !.phase = p] = RestoreTo(p, job.at, job.names, job.changed)
           /\ [job EXCEPT !.phase = p, !.at = i] = RestoreTo(p, i, job.names, job.changed)
           /\ [job EXCEPT !.phase = p, !.names = n] = RestoreTo(p, job.at, n, job.changed)
           /\ [job EXCEPT !.phase = p, !.changed = c] = RestoreTo(p, job.at, job.names, c)
  <1>1. job \in RestoreJobs
    BY RestoreFields
  <1>2. [job EXCEPT !.phase = p] = RestoreTo(p, job.at, job.names, job.changed)
    BY <1>1 DEF RestoreJobs, RestoreTo
  <1>3. [job EXCEPT !.phase = p, !.at = i] = RestoreTo(p, i, job.names, job.changed)
    BY <1>1 DEF RestoreJobs, RestoreTo
  <1>4. [job EXCEPT !.phase = p, !.names = n] = RestoreTo(p, job.at, n, job.changed)
    BY <1>1 DEF RestoreJobs, RestoreTo
  <1>5. [job EXCEPT !.phase = p, !.changed = c] = RestoreTo(p, job.at, job.names, c)
    BY <1>1 DEF RestoreJobs, RestoreTo
  <1> QED BY <1>2, <1>3, <1>4, <1>5

(* The slot done, a restore is at the next, or past the last. *)
LEMMA NextSlotGoes ==
    ASSUME LibraryAssumption, job # None, JobOK, Restoring, job.phase # "preflight", job' = NextSlot
    PROVE  Further
  <1>a. /\ job.at \in Index /\ job.at \in 1..Count /\ Count \in Nat
        /\ job.at # Count => job.at + 1 \in Index
    BY RestoreFields DEF Index, LibraryAssumption
  <1>1. CASE job.at = Count
    <2>1. job' = RestoreTo("final", job.at, job.names, job.changed)
      BY <1>1, RestorePlaces DEF NextSlot
    <2> QED BY <2>1, RestoreFields, RestoreGoesTo DEF PutPhases, RestorePhases
  <1>2. CASE job.at # Count
    <2>1. NextSlot = [job EXCEPT !.phase = "slot", !.at = job.at + 1]
      BY <1>2 DEF NextSlot
    <2>2. job' = RestoreTo("slot", job.at + 1, job.names, job.changed)
      BY <2>1, RestorePlaces
    <2> QED BY <2>2, <1>a, <1>2, RestoreFields, RestoreGoesTo DEF PutPhases, RestorePhases
  <1> QED BY <1>1, <1>2

(* A call that writes one slot goes on at that slot. *)
LEMMA EditGoes ==
    ASSUME job # None, JobOK, ~Restoring, job.op \in {"import", "rename", "clear"},
           NEW p, job' = [job EXCEPT !.phase = p],
           job.op = "import" => p \in PutPhases, job.op = "rename" => p \in {"rename", "renamed"},
           job.op = "clear" => p \in {"clear", "cleared"}
    PROVE  Further
  <1>1. CASE job.op = "import"
    <2>1. job \in ImportJobs
      BY <1>1, JobKinds DEF JobOK
    <2>2. job' \in ImportJobs /\ job'.op = "import"
      BY <1>1, <2>1 DEF ImportJobs, PutPhases
    <2> QED BY <1>1, <2>2 DEF Further, Jobs, Reads, Shape, Writes
  <1>2. CASE job.op = "rename"
    <2>1. job \in RenameJobs
      BY <1>2, JobKinds DEF JobOK
    <2>2. job' \in RenameJobs /\ job'.op = "rename"
      BY <1>2, <2>1 DEF RenameJobs
    <2> QED BY <1>2, <2>2 DEF Further, Jobs, Reads, Shape, Writes
  <1>3. CASE job.op = "clear"
    <2>1. job \in ClearJobs
      BY <1>3, JobKinds DEF JobOK
    <2>2. job' \in ClearJobs /\ job'.op = "clear"
      BY <1>3, <2>1 DEF ClearJobs
    <2> QED BY <1>3, <2>2 DEF Further, Jobs, Reads, Shape, Writes
  <1> QED BY <1>1, <1>2, <1>3

(* Which calls have each of the writing places. *)
LEMMA WritingPlaces ==
    ASSUME job # None, JobOK
    PROVE  /\ job.phase \in PutPhases => Restoring \/ job.op = "import"
           /\ job.phase \in {"clear", "cleared"} => Restoring \/ job.op = "clear"
           /\ job.phase = "set" => Restoring \/ job.op = "setting"
           /\ job.phase = "setRead" => Restoring
           /\ job.phase \in PutPhases /\ Restoring => job.source.slots[job.at] # Free
           /\ job.phase \in {"clear", "cleared"} /\ Restoring => job.source.slots[job.at] = Free
  BY DEF JobOK, Jobs, CaptureJobs, CapturesRead, CapturePhases, ArmJobs, ImportJobs, RenameJobs,
         ClearJobs, SettingJobs, RestoreJobs, MoveJobs, PutPhases, Restoring, Writes

(* A restore goes on at the slot it is at. *)
LEMMA RestoreStays ==
    ASSUME job # None, JobOK, Restoring, job.phase # "preflight",
           NEW p \in RestorePhases,
           p \in PutPhases => job.source.slots[job.at] # Free,
           p \in {"clear", "cleared"} => job.source.slots[job.at] = Free,
           job' = [job EXCEPT !.phase = p]
    PROVE  Further
  <1>1. job' = RestoreTo(p, job.at, job.names, job.changed)
    BY RestorePlaces
  <1>2. /\ job.at \in Index /\ job.changed \in BOOLEAN /\ job.names \in NameLists \cup {<<>>}
        /\ job.op = "restore_armed" => job.names \in NameLists
    BY RestoreFields
  <1> QED BY <1>1, <1>2, RestoreGoesTo

(* An upload lists, writes, commits, and reads back. *)
LEMMA UploadingGoes ==
    ASSUME LibraryAssumption, job # None, JobOK, Uploading
    PROVE  Further
  <1>1. job.phase \in PutPhases
    BY DEF Uploading, UploadListed, UploadData, UploadCommit, UploadNamed, UploadReadBack, PutPhases
  <1>2. \/ job' = None \/ (Restoring /\ job' = NextSlot)
        \/ \E p \in PutPhases : job' = [job EXCEPT !.phase = p]
    <2>1. CASE UploadListed
      BY <2>1, <1>1 DEF UploadListed, Goes, Ends, PutPhases
    <2>2. CASE UploadData
      BY <2>2, <1>1 DEF UploadData, Goes, Ends, PutPhases
    <2>3. CASE UploadCommit
      BY <2>3, <1>1 DEF UploadCommit, Goes, Ends, PutPhases
    <2>4. CASE UploadNamed
      BY <2>4, <1>1 DEF UploadNamed, Goes, Ends, PutPhases
    <2>5. CASE UploadReadBack
      BY <2>5, <1>1 DEF UploadReadBack, SlotDone, Goes, Ends, PutPhases
    <2> QED BY <2>1, <2>2, <2>3, <2>4, <2>5 DEF Uploading
  <1>3. CASE job' = None
    BY <1>3 DEF Further
  <1>4. CASE Restoring /\ job' = NextSlot
    BY <1>1, <1>4, NextSlotGoes DEF PutPhases
  <1>5. CASE \E p \in PutPhases : job' = [job EXCEPT !.phase = p]
    <2>1. PICK p \in PutPhases : job' = [job EXCEPT !.phase = p]
      BY <1>5
    <2>2. CASE Restoring
      <3>1. job.source.slots[job.at] # Free
        BY <1>1, <2>2, WritingPlaces
      <3> QED BY <1>1, <2>1, <2>2, <3>1, RestoreStays DEF PutPhases, RestorePhases
    <2>3. CASE ~Restoring
      <3>1. job.op = "import"
        BY <1>1, <2>3, WritingPlaces
      <3> QED BY <2>1, <2>3, <3>1, EditGoes
    <2> QED BY <2>2, <2>3
  <1> QED BY <1>2, <1>3, <1>4, <1>5

(* A rename, a clearing and a setting are read back as well. *)
LEMMA EditingGoes ==
    ASSUME LibraryAssumption, job # None, JobOK, Editing
    PROVE  Further
  <1>0. CASE job' = None
    BY <1>0 DEF Further
  <1>1. CASE RenameCommit
    <2>1. job.op = "rename" /\ (job' = None \/ job' = [job EXCEPT !.phase = "renamed"])
      BY <1>1 DEF RenameCommit, At, Goes, Ends
    <2> QED BY <1>0, <2>1, EditGoes DEF Restoring
  <1>2. CASE RenameListed
    BY <1>2, <1>0 DEF RenameListed, Ends
  <1>3. CASE ClearCommit
    <2>1. job.phase = "clear" /\ (job' = None \/ job' = [job EXCEPT !.phase = "cleared"])
      BY <1>3 DEF ClearCommit, Goes, Ends
    <2>2. CASE Restoring /\ job' = [job EXCEPT !.phase = "cleared"]
      <3>1. job.source.slots[job.at] = Free
        BY <2>1, <2>2, WritingPlaces
      <3> QED BY <2>1, <2>2, <3>1, RestoreStays DEF PutPhases, RestorePhases
    <2>3. CASE ~Restoring /\ job' = [job EXCEPT !.phase = "cleared"]
      <3>1. job.op = "clear"
        BY <2>1, <2>3, WritingPlaces
      <3> QED BY <2>3, <3>1, EditGoes
    <2> QED BY <1>0, <2>1, <2>2, <2>3
  <1>4. CASE ClearListed
    <2>1. job.phase = "cleared" /\ (job' = None \/ (Restoring /\ job' = NextSlot))
      BY <1>4 DEF ClearListed, SlotDone, Goes, Ends
    <2> QED BY <1>0, <2>1, NextSlotGoes
  <1>5. CASE SettingWrite
    <2>1. job.phase = "set"
          /\ (job' = None \/ (Restoring /\ job' = [job EXCEPT !.phase = "setRead"]))
      BY <1>5 DEF SettingWrite, Goes, Ends
    <2>2. CASE Restoring /\ job' = [job EXCEPT !.phase = "setRead"]
      BY <2>1, <2>2, RestoreStays DEF PutPhases, RestorePhases
    <2> QED BY <1>0, <2>1, <2>2
  <1>6. CASE SettingRead
    BY <1>6, <1>0 DEF SettingRead, Ends
  <1> QED BY <1>1, <1>2, <1>3, <1>4, <1>5, <1>6 DEF Editing

(* A restore plans, goes over the slots, and lists them at the end. *)
LEMMA RestoresGoes ==
    ASSUME LibraryAssumption, FreeAssumption, slots \in Tables, setting \in Values,
           job # None, JobOK, Restores
    PROVE  Further
  <1>0. CASE job' = None
    BY <1>0 DEF Further
  <1>a. Restoring
    BY DEF Restores, ArmedPreflight, RestorePlan, RestoreSlot, RestoreFinal, At, Restoring
  <1>1. CASE ArmedPreflight
    <2>1. \/ job' = None
          \/ job' = [job EXCEPT !.phase = "plan", !.names = NamesOf(slots)]
      BY <1>1 DEF ArmedPreflight, Goes, Ends
    <2>2. CASE job' = [job EXCEPT !.phase = "plan", !.names = NamesOf(slots)]
      <3>1. job' = RestoreTo("plan", job.at, NamesOf(slots), job.changed)
        BY <1>a, <2>2, RestorePlaces
      <3>2. NamesOf(slots) \in NameLists
        BY NamesListed
      <3> QED BY <1>a, <3>1, <3>2, RestoreFields, RestoreGoesTo DEF PutPhases, RestorePhases
    <2> QED BY <1>0, <2>1, <2>2
  <1>2. CASE RestorePlan
    <2>1. job.phase = "plan"
          /\ (job' = None \/ \E c \in BOOLEAN : job' = [job EXCEPT !.phase = "slot", !.changed = c])
      BY <1>2 DEF RestorePlan, Goes, Ends
    <2>2. ASSUME NEW c \in BOOLEAN, job' = [job EXCEPT !.phase = "slot", !.changed = c]
          PROVE  Further
      <3>1. job' = RestoreTo("slot", job.at, job.names, c)
        BY <1>a, <2>2, RestorePlaces
      <3> QED BY <1>a, <2>1, <3>1, RestoreFields, RestoreGoesTo DEF PutPhases, RestorePhases
    <2> QED BY <1>0, <2>1, <2>2
  <1>3. CASE RestoreSlot
    <2>1. job.phase = "slot"
          /\ \/ job' = NextSlot
             \/ job' = [job EXCEPT !.phase = "clear"] /\ job.source.slots[job.at] = Free
             \/ job' = [job EXCEPT !.phase = "upload"] /\ job.source.slots[job.at] # Free
      BY <1>3 DEF RestoreSlot, Goes
    <2> QED BY <1>a, <2>1, NextSlotGoes, RestoreStays DEF PutPhases, RestorePhases
  <1>4. CASE RestoreFinal
    <2>1. job.phase = "final" /\ (job' = None \/ job' = [job EXCEPT !.phase = "set"])
      BY <1>4 DEF RestoreFinal, Goes, Ends
    <2> QED BY <1>0, <1>a, <2>1, RestoreStays DEF PutPhases, RestorePhases
  <1> QED BY <1>1, <1>2, <1>3, <1>4 DEF Restores

\* A move at another place.
MoveTo(p, t, d, k, b, n, f) ==
    [job EXCEPT !.phase = p, !.todo = t, !.done = d, !.back = k, !.before = b, !.names = n,
                !.found = f]

\* Where a move is, its pairs and its lists of names.
MovePhases == {"list", "swap", "exchange", "swapped", "look", "verify", "final"}
ListsOrNone == NameLists \cup {<<>>}

(* A move goes from one of its places to another. *)
LEMMA MoveAt ==
    ASSUME job \in MoveJobs, NEW p \in MovePhases, NEW t \in Seq(Pairs), NEW d \in Seq(Pairs),
           NEW k \in BOOLEAN, NEW b \in ListsOrNone, NEW n \in ListsOrNone, NEW f \in ListsOrNone
    PROVE  LET next == MoveTo(p, t, d, k, b, n, f)
           IN /\ next \in MoveJobs /\ next.op = "move" /\ next.phase = p /\ next.todo = t
              /\ next.done = d /\ next.back = k /\ next.before = b /\ next.names = n
              /\ next.found = f /\ next.from = job.from /\ next.to = job.to
  BY DEF MoveTo, MoveJobs, MovePhases, ListsOrNone

(* What a move is. *)
LEMMA MoveFields ==
    ASSUME job \in MoveJobs
    PROVE  /\ job.phase \in MovePhases /\ job.todo \in Seq(Pairs) /\ job.done \in Seq(Pairs)
           /\ job.back \in BOOLEAN /\ job.before \in ListsOrNone /\ job.names \in ListsOrNone
           /\ job.found \in ListsOrNone /\ job.from \in Index /\ job.to \in Index /\ job.op = "move"
  BY DEF MoveJobs, MovePhases, ListsOrNone

(* Whose place alone is said to change. *)
LEMMA MovePlaces ==
    ASSUME job \in MoveJobs
    PROVE  /\ \A p : [job EXCEPT !.phase = p] =
                MoveTo(p, job.todo, job.done, job.back, job.before, job.names, job.found)
           /\ \A p, b, n : [job EXCEPT !.phase = p, !.before = b, !.names = n] =
                MoveTo(p, job.todo, job.done, job.back, b, n, job.found)
           /\ \A p, f : [job EXCEPT !.phase = p, !.found = f] =
                MoveTo(p, job.todo, job.done, job.back, job.before, job.names, f)
           /\ \A d, p : [job EXCEPT !.done = d, !.phase = p] =
                MoveTo(p, job.todo, d, job.back, job.before, job.names, job.found)
           /\ \A d, n, t, p : [job EXCEPT !.done = d, !.names = n, !.todo = t, !.phase = p] =
                MoveTo(p, t, d, job.back, job.before, n, job.found)
           /\ \A k, d, p : [job EXCEPT !.back = k, !.done = d, !.phase = p] =
                MoveTo(p, job.todo, d, k, job.before, job.names, job.found)
  <1>0. DOMAIN job = {"op", "phase", "from", "to", "todo", "done", "back", "before", "names", "found"}
    BY DEF MoveJobs
  <1>1. \A p : [job EXCEPT !.phase = p] =
          MoveTo(p, job.todo, job.done, job.back, job.before, job.names, job.found)
    BY <1>0 DEF MoveTo
  <1>2. \A p, b, n : [job EXCEPT !.phase = p, !.before = b, !.names = n] =
          MoveTo(p, job.todo, job.done, job.back, b, n, job.found)
    BY <1>0 DEF MoveTo
  <1>3. \A p, f : [job EXCEPT !.phase = p, !.found = f] =
          MoveTo(p, job.todo, job.done, job.back, job.before, job.names, f)
    BY <1>0 DEF MoveTo
  <1>4. \A d, p : [job EXCEPT !.done = d, !.phase = p] =
          MoveTo(p, job.todo, d, job.back, job.before, job.names, job.found)
    BY <1>0 DEF MoveTo
  <1>5. \A d, n, t, p : [job EXCEPT !.done = d, !.names = n, !.todo = t, !.phase = p] =
          MoveTo(p, t, d, job.back, job.before, n, job.found)
    <2> TAKE d, n, t, p
    <2> DEFINE a == [job EXCEPT !.done = d, !.names = n, !.todo = t, !.phase = p]
               b == MoveTo(p, t, d, job.back, job.before, n, job.found)
    <2>1. a = [x \in DOMAIN job |-> a[x]] /\ b = [x \in DOMAIN job |-> b[x]]
      BY DEF MoveTo
    <2>2. ASSUME NEW x \in DOMAIN job
          PROVE  a[x] = b[x]
      BY <1>0, <2>2 DEF MoveTo
    <2> HIDE DEF a, b
    <2>3. a = b
      BY <2>1, <2>2
    <2> QED BY <2>3 DEF a, b
  <1>6. \A k, d, p : [job EXCEPT !.back = k, !.done = d, !.phase = p] =
          MoveTo(p, job.todo, d, k, job.before, job.names, job.found)
    BY <1>0 DEF MoveTo
  <1> QED BY <1>1, <1>2, <1>3, <1>4, <1>5, <1>6

(* A sequence is empty just when its length is zero. *)
LEMMA EmptyLen ==
    ASSUME NEW S, NEW s \in Seq(S)
    PROVE  s = <<>> <=> Len(s) = 0
  OBVIOUS

(* The pair being swapped is the move's next one, or the last it did. *)
LEMMA PairIs ==
    ASSUME LibraryAssumption, job \in MoveJobs, Shape(job),
           job.phase \in {"swap", "exchange", "swapped", "look"}
    PROVE  /\ Span(job) \in Nat /\ Len(job.done) \in Nat
           /\ job.back => /\ Pair = Step(job, Len(job.done)) /\ Len(job.done) >= 1
                          /\ Pair \in Pairs
           /\ ~job.back => /\ Pair = Step(job, Len(job.done) + 1) /\ Len(job.done) < Span(job)
                           /\ Pair \in Pairs
  <1>1. /\ job.todo \in Seq(Pairs) /\ job.done \in Seq(Pairs) /\ job.back \in BOOLEAN
        /\ job.from \in Index /\ job.to \in Index /\ job.op = "move"
    BY MoveFields
  <1>2. Span(job) \in Nat /\ Len(job.done) \in Nat
    BY <1>1 DEF Span, Index
  <1>3. CASE job.back
    <2>1. job.done # <<>>
      BY <1>1, <1>3 DEF Shape
    <2>2. Len(job.done) >= 1 /\ Last(job.done) = job.done[Len(job.done)] /\ Last(job.done) \in Pairs
      BY <1>1, <2>1 DEF Last
    <2>3. job.done[Len(job.done)] = Step(job, Len(job.done))
      BY <1>1, <1>2, <2>2 DEF Shape
    <2> QED BY <1>2, <1>3, <2>2, <2>3 DEF Pair
  <1>4. CASE ~job.back
    <2>1. job.todo # <<>> /\ Len(job.todo) = Span(job) - Len(job.done)
      BY <1>1, <1>4 DEF Shape
    <2>2. Len(job.todo) >= 1 /\ Head(job.todo) = job.todo[1] /\ Head(job.todo) \in Pairs
      BY <1>1, <2>1
    <2>3. job.todo[1] = Step(job, Len(job.done) + 1)
      BY <1>1, <1>4, <2>2 DEF Shape
    <2> QED BY <1>2, <1>4, <2>1, <2>2, <2>3 DEF Pair
  <1> QED BY <1>1, <1>2, <1>3, <1>4

(* Names exchanged are a list of names. *)
LEMMA ExchangedNames ==
    ASSUME NEW n \in NameLists, NEW p \in Pairs
    PROVE  Exchanged(n, p) \in NameLists
  BY DEF Exchanged, NameLists, Pairs

\* What is done, reversed: how a failed move goes on, and a reversal with one less.
TakenBack(d) ==
    MoveTo(IF d = <<>> THEN "verify" ELSE "swap", job.todo, d, TRUE, job.before, job.names, job.found)

\* A pair swapped, and the next one to do.
Onward ==
    MoveTo(IF Len(job.todo) = 1 THEN "final" ELSE "swap", Tail(job.todo),
           Append(job.done, Pair), FALSE, job.before, Exchanged(job.names, Pair), job.found)

\* A move that goes on, as it was but for its phase and the names found.
Onto(p, f) == MoveTo(p, job.todo, job.done, job.back, job.before, job.names, f)

(* Where each step of a move goes. *)
LEMMA MovingTo ==
    ASSUME LibraryAssumption, job # None, JobOK, job.op = "move", Moving
    PROVE  \/ job' = None
           \/ /\ MoveListed /\ job.phase = "list"
              /\ job' = MoveTo("swap", job.todo, job.done, job.back, NamesOf(slots),
                               NamesOf(slots), job.found)
           \/ ~job.back /\ job.phase \in {"swap", "exchange", "swapped"} /\ job' = Onto("look", job.found)
           \/ SwapBefore /\ job.phase = "swap" /\ job' = Onto("exchange", NamesOf(slots))
           \/ SwapExchange /\ job.phase = "exchange" /\ job' = Onto("swapped", job.found)
           \/ SwapAfter /\ job.phase = "swapped" /\ job.back /\ job' = TakenBack(Front(job.done))
           \/ SwapAfter /\ job.phase = "swapped" /\ ~job.back /\ job' = Onward
           \/ /\ LookAgain /\ job.phase = "look"
              /\ job' = TakenBack(Append(job.done, Pair)) \/ job' = TakenBack(job.done)
  <1>a. job \in MoveJobs /\ job.back \in BOOLEAN
    BY JobKinds, MoveFields DEF JobOK
  <1>b. job.back \/ ~job.back
    BY <1>a
  <1>1. CASE MoveListed
    <2>1. /\ job.phase = "list"
          /\ \/ job' = None
             \/ job' = [job EXCEPT !.phase = "swap", !.before = NamesOf(slots), !.names = NamesOf(slots)]
      BY <1>1 DEF MoveListed, At, Goes, Ends
    <2> QED BY <1>1, <1>a, <2>1, MovePlaces
  <1>2. CASE SwapBefore
    <2>1. /\ job.phase = "swap"
          /\ \/ job' = None
             \/ job' = [job EXCEPT !.phase = "exchange", !.found = NamesOf(slots)]
             \/ ~job.back /\ job' = [job EXCEPT !.phase = "look"]
      BY <1>2, <1>b DEF SwapBefore, SwapFails, At, Goes, Ends
    <2>2. CASE job' = [job EXCEPT !.phase = "exchange", !.found = NamesOf(slots)]
      <3>1. job' = Onto("exchange", NamesOf(slots))
        BY <1>a, <2>2, MovePlaces DEF Onto
      <3> QED BY <1>2, <2>1, <3>1
    <2>3. CASE ~job.back /\ job' = [job EXCEPT !.phase = "look"]
      <3>1. job' = Onto("look", job.found)
        BY <1>a, <2>3, MovePlaces DEF Onto
      <3> QED BY <1>2, <2>1, <2>3, <3>1
    <2> QED BY <2>1, <2>2, <2>3
  <1>3. CASE SwapExchange
    <2>1. /\ job.phase = "exchange"
          /\ \/ job' = None
             \/ job' = [job EXCEPT !.phase = "swapped"]
             \/ ~job.back /\ job' = [job EXCEPT !.phase = "look"]
      BY <1>3, <1>b DEF SwapExchange, SwapFails, At, Goes, Ends
    <2> QED BY <1>3, <1>a, <2>1, MovePlaces DEF Onto
  <1>4. CASE SwapAfter
    <2> DEFINE q == IF Front(job.done) = <<>> THEN "verify" ELSE "swap"
               r == IF Len(job.todo) = 1 THEN "final" ELSE "swap"
    <2>1. job.phase = "swapped" /\ (SwapTaken \/ SwapFails)
      BY <1>4 DEF SwapAfter, At
    <2>2. CASE SwapFails
      <3>1. job' = None \/ (~job.back /\ job' = [job EXCEPT !.phase = "look"])
        BY <1>b, <2>2 DEF SwapFails, Goes, Ends
      <3> QED BY <1>a, <2>1, <3>1, MovePlaces DEF Onto
    <2>3. CASE SwapTaken /\ job.back
      <3>1. job' = [job EXCEPT !.done = Front(job.done), !.phase = q]
        BY <2>3 DEF SwapTaken, Goes
      <3>2. job' = MoveTo(q, job.todo, Front(job.done), job.back, job.before, job.names, job.found)
        BY <1>a, <3>1, MovePlaces
      <3>3. job.back = TRUE
        BY <1>a, <2>3
      <3> QED BY <1>4, <2>1, <2>3, <3>2, <3>3 DEF TakenBack
    <2>4. CASE SwapTaken /\ ~job.back
      <3>1. job' = [job EXCEPT !.done = Append(@, Pair), !.names = Exchanged(@, Pair),
                               !.todo = Tail(@), !.phase = r]
        BY <2>4 DEF SwapTaken, Goes
      <3>a. job' = [job EXCEPT !.done = Append(job.done, Pair), !.names = Exchanged(job.names, Pair),
                               !.todo = Tail(job.todo), !.phase = r]
        BY <1>a, <3>1 DEF MoveJobs
      <3>2. job' = MoveTo(r, Tail(job.todo), Append(job.done, Pair), job.back, job.before,
                          Exchanged(job.names, Pair), job.found)
        <4> HIDE DEF r
        <4> QED BY <1>a, <3>a DEF MoveTo, MoveJobs
      <3>3. job.back = FALSE
        BY <1>a, <2>4
      <3> QED BY <1>4, <2>1, <2>4, <3>2, <3>3 DEF Onward
    <2> QED BY <1>b, <2>1, <2>2, <2>3, <2>4
  <1>5. CASE LookAgain
    <2>1. /\ job.phase = "look"
          /\ job' = Reversing(Append(job.done, Pair)) \/ job' = Reversing(job.done)
      BY <1>5 DEF LookAgain, At, Goes
    <2>2. ASSUME NEW d PROVE Reversing(d) = TakenBack(d)
      <3> DEFINE p == IF d = <<>> THEN "verify" ELSE "swap"
      <3>1. Reversing(d) = [job EXCEPT !.back = TRUE, !.done = d, !.phase = p]
        BY DEF Reversing
      <3>2. [job EXCEPT !.back = TRUE, !.done = d, !.phase = p] =
              MoveTo(p, job.todo, d, TRUE, job.before, job.names, job.found)
        <4> HIDE DEF p
        <4> QED BY <1>a DEF MoveTo, MoveJobs
      <3> QED BY <3>1, <3>2 DEF TakenBack
    <2> QED BY <1>5, <2>1, <2>2
  <1>6. CASE MoveVerify \/ MoveFinal
    BY <1>6 DEF MoveVerify, MoveFinal, Ends
  <1> QED BY <1>1, <1>2, <1>3, <1>4, <1>5, <1>6 DEF Moving

(* A reversal is at a place of the move. *)
LEMMA ReverseGoes ==
    ASSUME job # None, JobOK, job.op = "move", job.phase \in {"swap", "exchange", "swapped", "look"},
           NEW d \in Seq(Pairs), Len(d) <= Span(job), \A m \in 1..Len(d) : d[m] = Step(job, m),
           job' = TakenBack(d)
    PROVE  Further
  <1> DEFINE p == IF d = <<>> THEN "verify" ELSE "swap"
  <1>a. job \in MoveJobs /\ Shape(job)
    BY JobKinds DEF JobOK
  <1>b. /\ job.todo \in Seq(Pairs) /\ job.before \in ListsOrNone /\ job.names \in ListsOrNone
        /\ job.found \in ListsOrNone /\ p \in MovePhases
    BY <1>a, MoveFields DEF MovePhases
  <1>c. job' = MoveTo(p, job.todo, d, TRUE, job.before, job.names, job.found)
    BY DEF TakenBack
  <1>d. p = "verify" <=> d = <<>>
    OBVIOUS
  <1>e. p \in {"verify", "swap"}
    OBVIOUS
  <1> HIDE DEF p
  <1>1. /\ job' \in MoveJobs /\ job'.op = "move" /\ job'.phase = p /\ job'.todo = job.todo
        /\ job'.done = d /\ job'.back = TRUE /\ job'.before = job.before /\ job'.names = job.names
        /\ job'.from = job.from /\ job'.to = job.to
    BY <1>a, <1>b, <1>c DEF MoveTo, MoveJobs, MovePhases, ListsOrNone
  <1>2. Span(job') = Span(job) /\ \A m : Step(job', m) = Step(job, m)
    BY <1>1 DEF Span, Step
  <1>3. job.before \in NameLists /\ job.names \in NameLists /\ job.from # job.to
    BY <1>a DEF Shape
  <1>4. Shape(job')
    BY <1>1, <1>2, <1>3, <1>d, <1>e DEF Shape
  <1> QED BY <1>1, <1>4 DEF Further, Jobs, Reads, Writes

(* A move that goes on as it was is at a place of the move. *)
LEMMA OntoGoes ==
    ASSUME job # None, JobOK, job.op = "move", NEW f \in ListsOrNone,
           NEW p \in {"exchange", "swapped", "look"},
           job.phase \in {"swap", "exchange", "swapped"}, p \in {"exchange", "swapped"} => f \in NameLists,
           p = "look" => ~job.back,
           job' = Onto(p, f)
    PROVE  Further
  <1>a. job \in MoveJobs /\ Shape(job)
    BY JobKinds DEF JobOK
  <1>b. /\ job.todo \in Seq(Pairs) /\ job.before \in ListsOrNone /\ job.names \in ListsOrNone
        /\ job.done \in Seq(Pairs) /\ job.back \in BOOLEAN /\ p \in MovePhases
    BY <1>a, MoveFields DEF MovePhases
  <1>1. /\ job' \in MoveJobs /\ job'.op = "move" /\ job'.phase = p /\ job'.todo = job.todo
        /\ job'.done = job.done /\ job'.back = job.back /\ job'.before = job.before
        /\ job'.names = job.names /\ job'.found = f /\ job'.from = job.from /\ job'.to = job.to
    BY <1>a, <1>b, MoveAt DEF Onto
  <1>2. Span(job') = Span(job) /\ \A m : Step(job', m) = Step(job, m)
    BY <1>1 DEF Span, Step
  <1>3. Shape(job')
    BY <1>1, <1>2, <1>a DEF Shape
  <1> QED BY <1>1, <1>3 DEF Further, Jobs, Reads, Writes

(* A move swaps its pairs in order, and takes back those it has done. *)
LEMMA MovingGoes ==
    ASSUME LibraryAssumption, slots \in Tables, job # None, JobOK, job.op = "move", Moving
    PROVE  Further
  <1>a. job \in MoveJobs /\ Shape(job)
    BY JobKinds DEF JobOK
  <1>b. /\ job.phase \in MovePhases /\ job.todo \in Seq(Pairs) /\ job.done \in Seq(Pairs)
        /\ job.back \in BOOLEAN /\ job.before \in ListsOrNone /\ job.names \in ListsOrNone
        /\ job.found \in ListsOrNone /\ job.from \in Index /\ job.to \in Index
    BY <1>a, MoveFields
  <1>c. NamesOf(slots) \in NameLists
    BY NamesListed
  <1>d. NamesOf(slots) \in ListsOrNone
    BY <1>c DEF ListsOrNone
  <1>1. CASE job' = None
    BY <1>1 DEF Further
  <1>2. CASE /\ job.phase = "list"
             /\ job' = MoveTo("swap", job.todo, job.done, job.back, NamesOf(slots), NamesOf(slots), job.found)
    <2>0. "swap" \in MovePhases
      BY DEF MovePhases
    <2>1. /\ job' \in MoveJobs /\ job'.op = "move" /\ job'.phase = "swap" /\ job'.todo = job.todo
          /\ job'.done = job.done /\ job'.back = job.back /\ job'.before = NamesOf(slots)
          /\ job'.names = NamesOf(slots) /\ job'.from = job.from /\ job'.to = job.to
      BY <1>a, <1>b, <1>d, <1>2, <2>0 DEF MoveTo, MoveJobs, MovePhases, ListsOrNone
    <2>2. Span(job') = Span(job) /\ \A m : Step(job', m) = Step(job, m)
      BY <2>1 DEF Span, Step
    <2>3. /\ job.back = FALSE /\ job.done = <<>> /\ Len(job.todo) = Span(job) - Len(job.done)
          /\ Span(job) >= 1 /\ Span(job) \in Int
      BY <1>a, <1>b, <1>2 DEF Shape, Span, Index
    <2>a. job.todo # <<>>
      BY <1>b, <2>3
    <2>4. Shape(job')
      BY <1>a, <1>c, <2>1, <2>2, <2>3, <2>a DEF Shape
    <2> QED BY <2>1, <2>4 DEF Further, Jobs, Reads, Writes
  <1>3. CASE ~job.back /\ job.phase \in {"swap", "exchange", "swapped"} /\ job' = Onto("look", job.found)
    BY <1>b, <1>3, OntoGoes
  <1>4. CASE job.phase = "swap" /\ job' = Onto("exchange", NamesOf(slots))
    BY <1>c, <1>d, <1>4, OntoGoes
  <1>5. CASE job.phase = "exchange" /\ job' = Onto("swapped", job.found)
    <2>1. job.found \in NameLists
      BY <1>a, <1>5 DEF Shape
    <2> QED BY <1>b, <1>5, <2>1, OntoGoes
  <1>6. CASE job.phase = "swapped" /\ job.back /\ job' = TakenBack(Front(job.done))
    <2>1. Len(job.done) >= 1
      BY <1>a, <1>6, PairIs
    <2>2. /\ Front(job.done) \in Seq(Pairs) /\ Len(Front(job.done)) = Len(job.done) - 1
          /\ \A m \in 1..(Len(job.done) - 1) : Front(job.done)[m] = job.done[m]
      BY <1>b, <2>1 DEF Front
    <2>3. /\ Len(job.done) <= Span(job) /\ Len(job.done) \in Nat /\ Span(job) \in Nat
          /\ \A m \in 1..Len(job.done) : job.done[m] = Step(job, m)
      BY <1>a, <1>6, PairIs DEF Shape
    <2> QED BY <1>6, <2>2, <2>3, ReverseGoes
  <1>7. CASE job.phase = "swapped" /\ ~job.back /\ job' = Onward
    <2> DEFINE p == IF Len(job.todo) = 1 THEN "final" ELSE "swap"
    <2>1. /\ Pair \in Pairs /\ Pair = Step(job, Len(job.done) + 1) /\ Len(job.done) < Span(job)
          /\ Span(job) \in Nat /\ Len(job.done) \in Nat
      BY <1>a, <1>7, PairIs
    <2>2. job.names \in NameLists /\ job.before \in NameLists /\ job.from # job.to
      BY <1>a, <1>7 DEF Shape
    <2>3. /\ job.todo # <<>> /\ Len(job.todo) = Span(job) - Len(job.done)
          /\ \A m \in 1..Len(job.todo) : job.todo[m] = Step(job, Len(job.done) + m)
          /\ \A m \in 1..Len(job.done) : job.done[m] = Step(job, m)
      BY <1>a, <1>b, <1>7 DEF Shape
    <2>4. /\ Tail(job.todo) \in Seq(Pairs) /\ Len(Tail(job.todo)) = Len(job.todo) - 1
          /\ \A m \in 1..(Len(job.todo) - 1) : Tail(job.todo)[m] = job.todo[m + 1]
      BY <1>b, <2>3
    <2>5. /\ Append(job.done, Pair) \in Seq(Pairs) /\ Len(Append(job.done, Pair)) = Len(job.done) + 1
          /\ \A m \in 1..Len(job.done) : Append(job.done, Pair)[m] = job.done[m]
          /\ Append(job.done, Pair)[Len(job.done) + 1] = Pair
      BY <1>b, <2>1
    <2>6. Exchanged(job.names, Pair) \in NameLists
      BY <2>1, <2>2, ExchangedNames
    <2>7. p \in MovePhases /\ Exchanged(job.names, Pair) \in ListsOrNone
      BY <2>6 DEF MovePhases, ListsOrNone
    <2>a. job' = MoveTo(p, Tail(job.todo), Append(job.done, Pair), FALSE, job.before,
                        Exchanged(job.names, Pair), job.found)
      BY <1>7 DEF Onward
    <2>12. p = "final" <=> Tail(job.todo) = <<>>
      <3>1. Tail(job.todo) = <<>> <=> Len(Tail(job.todo)) = 0
        BY <2>4, EmptyLen
      <3>2. Len(job.todo) \in Nat
        BY <1>b
      <3> QED BY <2>4, <3>1, <3>2
    <2>b. p \in {"final", "swap"}
      OBVIOUS
    <2> HIDE DEF p
    <2>8. /\ job' \in MoveJobs /\ job'.op = "move" /\ job'.phase = p /\ job'.todo = Tail(job.todo)
          /\ job'.done = Append(job.done, Pair) /\ job'.back = FALSE /\ job'.before = job.before
          /\ job'.names = Exchanged(job.names, Pair) /\ job'.from = job.from /\ job'.to = job.to
      BY <1>a, <1>b, <2>a, <2>4, <2>5, <2>7 DEF MoveTo, MoveJobs, MovePhases, ListsOrNone
    <2>9. Span(job') = Span(job) /\ \A m : Step(job', m) = Step(job, m)
      BY <2>8 DEF Span, Step
    <2>10. \A m \in 1..(Len(job.done) + 1) : Append(job.done, Pair)[m] = Step(job, m)
      <3> TAKE m \in 1..(Len(job.done) + 1)
      <3>1. CASE m = Len(job.done) + 1
        BY <2>1, <2>5, <3>1
      <3>2. CASE m # Len(job.done) + 1
        <4>1. Len(job.done) \in Nat
          BY <1>b
        <4>2. m \in 1..Len(job.done)
          BY <3>2, <4>1
        <4> QED BY <2>3, <2>5, <4>2
      <3> QED BY <3>1, <3>2
    <2>11. \A m \in 1..(Len(job.todo) - 1) : Tail(job.todo)[m] = Step(job, (Len(job.done) + 1) + m)
      <3> TAKE m \in 1..(Len(job.todo) - 1)
      <3>a. Len(job.todo) \in Nat /\ Len(job.done) \in Nat
        BY <1>b
      <3>1. m + 1 \in 1..Len(job.todo)
        BY <3>a
      <3>b. Len(job.done) + (m + 1) = (Len(job.done) + 1) + m
        <4> DEFINE k == Len(job.done)
        <4>1. k \in Nat /\ m \in Int
          BY <3>a
        <4> HIDE DEF k
        <4>2. k + (m + 1) = (k + 1) + m
          BY <4>1
        <4> QED BY <4>2 DEF k
      <3>2. Tail(job.todo)[m] = job.todo[m + 1]
        BY <2>4
      <3>3. job.todo[m + 1] = Step(job, Len(job.done) + (m + 1))
        BY <2>3, <3>1
      <3> QED BY <3>b, <3>2, <3>3
    <2>13. /\ Len(job'.done) = Len(job.done) + 1 /\ Len(job'.todo) = Len(job.todo) - 1
           /\ Len(job'.todo) = Span(job') - Len(job'.done) /\ Len(job'.done) <= Span(job')
      BY <1>b, <2>1, <2>3, <2>4, <2>5, <2>8, <2>9
    <2>14. /\ \A m \in 1..Len(job'.done) : job'.done[m] = Step(job', m)
           /\ \A m \in 1..Len(job'.todo) : job'.todo[m] = Step(job', Len(job'.done) + m)
      BY <2>8, <2>9, <2>10, <2>11, <2>13
    <2>15. Shape(job')
      BY <2>2, <2>6, <2>8, <2>b, <2>12, <2>13, <2>14 DEF Shape
    <2> QED BY <2>8, <2>15 DEF Further, Jobs, Reads, Writes
  <1>8. CASE /\ job.phase = "look"
             /\ job' = TakenBack(Append(job.done, Pair)) \/ job' = TakenBack(job.done)
    <2>0. ~job.back
      BY <1>a, <1>8, <1>b DEF Shape
    <2>1. /\ Pair \in Pairs /\ Pair = Step(job, Len(job.done) + 1) /\ Len(job.done) < Span(job)
          /\ Span(job) \in Nat /\ Len(job.done) \in Nat
      BY <1>a, <1>8, <2>0, PairIs
    <2>2. \A m \in 1..Len(job.done) : job.done[m] = Step(job, m)
      BY <1>a, <1>b DEF Shape
    <2>3. /\ Append(job.done, Pair) \in Seq(Pairs) /\ Len(Append(job.done, Pair)) = Len(job.done) + 1
          /\ \A m \in 1..(Len(job.done) + 1) : Append(job.done, Pair)[m] = Step(job, m)
      BY <1>b, <2>1, <2>2
    <2>a. Len(Append(job.done, Pair)) <= Span(job)
      BY <2>1, <2>3
    <2>b. \A m \in 1..Len(Append(job.done, Pair)) : Append(job.done, Pair)[m] = Step(job, m)
      BY <2>3
    <2>4. CASE job' = TakenBack(Append(job.done, Pair))
      BY <1>8, <2>3, <2>a, <2>b, <2>4, ReverseGoes
    <2>5. CASE job' = TakenBack(job.done)
      BY <1>b, <1>8, <2>1, <2>2, <2>5, ReverseGoes
    <2> QED BY <1>8, <2>4, <2>5
  <1> QED BY <1>1, <1>2, <1>3, <1>4, <1>5, <1>6, <1>7, <1>8, MovingTo

(* Every step of a call leaves it at one of its places, or ends it. *)
LEMMA CallGoes ==
    ASSUME LibraryAssumption, FreeAssumption, slots \in Tables, setting \in Values,
           job # None, JobOK, Next, UNCHANGED job => FALSE
    PROVE  Further
  <1>1. CASE Capturing
    <2>1. job.op = "capture"
      BY <1>1 DEF Capturing, CaptureListed, CaptureRead, CaptureRest, CaptureReused, CaptureEnds, CaptureAgain, At
    <2> QED BY <1>1, <2>1, CaptureGoes
  <1>2. CASE Moving
    <2>1. job.op = "move"
      BY <1>2 DEF Moving, MoveListed, SwapBefore, SwapExchange, SwapAfter, LookAgain, MoveVerify,
                  MoveFinal, At
    <2> QED BY <1>2, <2>1, MovingGoes
  <1>3. ~Asked /\ ~Reconnect /\ ~Panel
    BY DEF Asked, Capture, Arm, Import, Rename, Clear, SetSetting, Move, Restore, RestoreArmed,
           Writing, Begin, Reconnect, Panel
  <1> QED BY <1>1, <1>2, <1>3, ProvingGoes, UploadingGoes, EditingGoes, RestoresGoes DEF Next

-----------------------------------------------------------------------------
(* Type correctness                                                         *)

Held == [Index -> SUBSET (Presets \cup {Free})]

(* The job is at one of its places whatever happens next. *)
LEMMA JobNext ==
    ASSUME LibraryAssumption, FreeAssumption, TypeOK, JobOK, [Next]_vars
    PROVE  JobOK'
  <1>1. CASE UNCHANGED job
    BY <1>1 DEF JobOK, Reads, Shape, Writes, Span, Step
  <1>2. CASE job = None /\ Asked
    <2>1. PICK call : Begin(call) /\ Fresh(call)
      BY <1>2, AskedBegins DEF TypeOK
    <2>2. job' = call
      BY <2>1 DEF Begin
    <2> QED BY <2>1, <2>2 DEF Fresh, JobOK
  <1>3. CASE job = None /\ ~Asked
    BY <1>1, <1>3, NoJob DEF Reconnect, vars
  <1>4. CASE job # None /\ ~UNCHANGED job
    <2>1. Next
      BY <1>4 DEF vars
    <2>2. Further
      BY <1>4, <2>1, CallGoes DEF TypeOK
    <2> QED BY <2>2 DEF Further, JobOK
  <1> QED BY <1>1, <1>2, <1>3, <1>4

(* What is stored is a table, and what the slots held is extended. *)
LEMMA StoresTyped ==
    ASSUME held \in Held, NEW t \in Tables, Stores(t)
    PROVE  slots' \in Tables /\ held' \in Held
  BY DEF Stores, Tables, Held

(* A slot replaced leaves a table. *)
LEMMA SlotReplaced ==
    ASSUME NEW t \in Tables, NEW i \in Index, NEW s \in Presets \cup {Free}
    PROVE  [t EXCEPT ![i] = s] \in Tables
  BY DEF Tables

(* An upload puts a preset in a slot of the list. *)
LEMMA PutTyped ==
    ASSUME LibraryAssumption, FreeAssumption, job # None, JobOK, job.phase \in PutPhases
    PROVE  job.at \in Index /\ Put \in Presets
  <1>1. CASE Restoring
    <2>1. /\ job.at \in Index /\ job.source.slots[job.at] \in Presets \cup {Free}
          /\ job.source.slots[job.at] # Free
      BY <1>1, RestoreFields, WritingPlaces
    <2> QED BY <1>1, <2>1 DEF Put
  <1>2. CASE ~Restoring
    <2>1. job \in ImportJobs
      BY <1>2, JobKinds, WritingPlaces DEF JobOK
    <2> QED BY <1>2, <2>1 DEF Put, ImportJobs
  <1> QED BY <1>1, <1>2

(* A clearing is of a slot of the list. *)
LEMMA ClearTyped ==
    ASSUME job # None, JobOK, job.phase \in {"clear", "cleared"}
    PROVE  job.at \in Index
  <1>1. CASE Restoring
    BY <1>1, RestoreFields
  <1>2. CASE ~Restoring
    <2>1. job \in ClearJobs
      BY <1>2, JobKinds, WritingPlaces DEF JobOK
    <2> QED BY <2>1 DEF ClearJobs
  <1> QED BY <1>1, <1>2

\* What a rename, a broken-off upload, and a commit leave in the slot.
Named == [slots EXCEPT ![job.at] = IF @ = Free THEN Free ELSE [@ EXCEPT !.name = job.name]]
Torn == [slots EXCEPT ![job.at] = IF @ = Free THEN Free ELSE [@ EXCEPT !.blob = Put.blob]]
Written == [slots EXCEPT ![job.at] = Put]
Cleared == [slots EXCEPT ![job.at] = Free]
Unless(table) == IF DistinctNames(table) THEN table ELSE slots

\* What a request that writes may store.
Storing(table) == Stores(table) \/ UNCHANGED <<slots, held>>

(* What each step of a call may do to the slots. *)
LEMMA StoredBy ==
    ASSUME Next, ~Panel
    PROVE  \/ UNCHANGED <<slots, held>>
           \/ Asked /\ slots' = slots /\ held' = [i \in Index |-> {slots[i]}]
           \/ RenameCommit /\ Stores(Unless(Named))
           \/ ClearCommit /\ Stores(Cleared)
           \/ UploadData /\ Stores(Torn)
           \/ UploadCommit /\ Stores(Unless(Written))
           \/ SwapExchange /\ Stores(Exchanged(slots, Pair))
  <1>1. CASE Asked
    <2>1. \E call : Begin(call)
      BY <1>1 DEF Asked, Capture, Arm, Import, Rename, Clear, SetSetting, Move, Restore,
                  RestoreArmed, Writing
    <2> QED BY <1>1, <2>1 DEF Begin, pedal
  <1>2. CASE Reconnect
    BY <1>2 DEF Reconnect, pedal
  <1>3. CASE Capturing
    BY <1>3 DEF Capturing, Reading, pedal, CaptureListed, CaptureRead, CaptureRest, CaptureReused, CaptureEnds,
         CaptureAgain, Took
  <1>4. CASE Proving
    BY <1>4 DEF Proving, Reading, pedal, VerifyListed, VerifyContents, VerifySetting, EnableWrites
  <1>5. CASE Uploading
    <2>1. CASE UploadListed
      BY <2>1 DEF UploadListed, Reading, pedal, Calling
    <2>2. CASE UploadData
      BY <2>2 DEF UploadData, Calling, ErrsWriting, Torn
    <2>3. CASE UploadCommit
      BY <2>3 DEF UploadCommit, Calling, ErrsWriting, Unless, Written
    <2>4. CASE UploadNamed
      BY <2>4 DEF UploadNamed, Reading, pedal, Calling
    <2>5. CASE UploadReadBack
      BY <2>5 DEF UploadReadBack, Reading, pedal, Calling
    <2> QED BY <2>1, <2>2, <2>3, <2>4, <2>5, <1>5 DEF Uploading
  <1>6. CASE Editing
    <2>1. CASE RenameCommit
      BY <2>1 DEF RenameCommit, Calling, ErrsWriting, Unless, Named
    <2>2. CASE RenameListed
      BY <2>2 DEF RenameListed, Reading, pedal, Calling
    <2>3. CASE ClearCommit
      BY <2>3 DEF ClearCommit, Calling, ErrsWriting, Cleared
    <2>4. CASE ClearListed
      BY <2>4 DEF ClearListed, Reading, pedal, Calling
    <2>5. CASE SettingWrite
      BY <2>5 DEF SettingWrite, Calling
    <2>6. CASE SettingRead
      BY <2>6 DEF SettingRead, Reading, pedal, Calling
    <2> QED BY <2>1, <2>2, <2>3, <2>4, <2>5, <2>6, <1>6 DEF Editing
  <1>7. CASE Restores
    BY <1>7 DEF Restores, Reading, pedal, ArmedPreflight, RestorePlan, RestoreSlot, RestoreFinal
  <1>8. CASE Moving
    <2>1. CASE MoveListed
      BY <2>1 DEF MoveListed, Reading, pedal, Calling
    <2>2. CASE SwapBefore
      BY <2>2 DEF SwapBefore, Reading, pedal, Calling
    <2>3. CASE SwapExchange
      BY <2>3 DEF SwapExchange, Calling, ErrsWriting
    <2>4. CASE SwapAfter
      BY <2>4 DEF SwapAfter, Reading, pedal, Calling
    <2>5. CASE LookAgain
      BY <2>5 DEF LookAgain, Reading, pedal, Calling
    <2>6. CASE MoveVerify
      BY <2>6 DEF MoveVerify, Reading, pedal, Calling
    <2>7. CASE MoveFinal
      BY <2>7 DEF MoveFinal, Reading, pedal, Calling
    <2> QED BY <2>1, <2>2, <2>3, <2>4, <2>5, <2>6, <2>7, <1>8 DEF Moving
  <1> QED BY <1>1, <1>2, <1>3, <1>4, <1>5, <1>6, <1>7, <1>8 DEF Next

(* The tables they store. *)
LEMMA StoredTyped ==
    ASSUME LibraryAssumption, FreeAssumption, slots \in Tables, job # None, JobOK
    PROVE  /\ RenameCommit => Unless(Named) \in Tables
           /\ ClearCommit => Cleared \in Tables
           /\ UploadData => Torn \in Tables
           /\ UploadCommit => Unless(Written) \in Tables
           /\ SwapExchange => Exchanged(slots, Pair) \in Tables
  <1>1. ASSUME RenameCommit PROVE Unless(Named) \in Tables
    <2>1. job \in RenameJobs
      BY <1>1, JobKinds DEF JobOK, RenameCommit, At
    <2>2. job.at \in Index /\ job.name \in Names /\ slots[job.at] \in Presets \cup {Free}
      BY <2>1 DEF RenameJobs, Tables
    <2>3. slots[job.at] # Free => [slots[job.at] EXCEPT !.name = job.name] \in Presets
      BY <2>2 DEF Presets
    <2>4. Named \in Tables
      BY <2>2, <2>3, SlotReplaced DEF Named
    <2> QED BY <2>4 DEF Unless
  <1>2. ASSUME ClearCommit PROVE Cleared \in Tables
    BY <1>2, ClearTyped, SlotReplaced DEF ClearCommit, Cleared
  <1>3. ASSUME UploadData PROVE Torn \in Tables
    <2>1. job.at \in Index /\ Put \in Presets
      BY <1>3, PutTyped DEF UploadData, PutPhases
    <2>2. slots[job.at] \in Presets \cup {Free}
      BY <2>1 DEF Tables
    <2>3. slots[job.at] # Free => [slots[job.at] EXCEPT !.blob = Put.blob] \in Presets
      BY <2>1, <2>2 DEF Presets
    <2> QED BY <2>1, <2>3, SlotReplaced DEF Torn
  <1>4. ASSUME UploadCommit PROVE Unless(Written) \in Tables
    <2>1. job.at \in Index /\ Put \in Presets
      BY <1>4, PutTyped DEF UploadCommit, PutPhases
    <2>2. Written \in Tables
      BY <2>1, SlotReplaced DEF Written
    <2> QED BY <2>2 DEF Unless
  <1>5. ASSUME SwapExchange PROVE Exchanged(slots, Pair) \in Tables
    <2>1. job \in MoveJobs /\ Shape(job) /\ job.phase = "exchange"
      BY <1>5, JobKinds DEF JobOK, SwapExchange, At
    <2>2. Pair \in Pairs
      BY <2>1, PairIs, MoveFields
    <2>3. Pair[1] \in Index /\ Pair[2] \in Index
      BY <2>2 DEF Pairs
    <2>4. slots[Pair[1]] \in Presets \cup {Free} /\ slots[Pair[2]] \in Presets \cup {Free}
      BY <2>3 DEF Tables
    <2> QED BY <2>3, <2>4 DEF Exchanged, Tables
  <1> QED BY <1>1, <1>2, <1>3, <1>4, <1>5

(* The slots are a table of presets, and what they held are presets. *)
LEMMA SlotsNext ==
    ASSUME LibraryAssumption, FreeAssumption, TypeOK, JobOK, [Next]_vars
    PROVE  slots' \in Tables /\ held' \in Held
  <1>a. slots \in Tables /\ held \in Held
    BY DEF TypeOK, Held
  <1>1. CASE UNCHANGED <<slots, held>>
    BY <1>a, <1>1
  <1>2. CASE Panel
    <2>1. PICK i \in Index, p \in Presets : Stores([slots EXCEPT ![i] = p])
      BY <1>2 DEF Panel
    <2> QED BY <1>a, <2>1, SlotReplaced, StoresTyped
  <1>3. CASE slots' = slots /\ held' = [i \in Index |-> {slots[i]}]
    BY <1>a, <1>3 DEF Tables, Held
  <1>4. CASE Next /\ ~Panel /\ job # None
    <2>1. ~(job = None)
      BY <1>4
    <2>2. ASSUME NEW t \in Tables, Stores(t) PROVE slots' \in Tables /\ held' \in Held
      BY <1>a, <2>2, StoresTyped
    <2> QED BY <1>a, <1>1, <1>3, <1>4, <2>1, <2>2, StoredBy, StoredTyped
  <1>5. CASE Next /\ ~Panel /\ job = None
    <2>1. ~RenameCommit /\ ~ClearCommit /\ ~UploadData /\ ~UploadCommit /\ ~SwapExchange
      BY <1>5 DEF RenameCommit, ClearCommit, UploadData, UploadCommit, SwapExchange, At
    <2> QED BY <1>1, <1>3, <1>5, <2>1, StoredBy
  <1> QED BY <1>1, <1>2, <1>4, <1>5 DEF vars, pedal

\* What the steps of a call have in common: one request at most, answered,
\* refused or losing the session, and the call going on or ending.
Verdicts == {"done", "failed", "undone", "stuck"}
Alike ==
    /\ job # None
    /\ UNCHANGED <<jobs, panel, touched, start>>
    /\ Refused \/ Lost \/ UNCHANGED <<online, faults>>
    /\ UNCHANGED result \/ \E v \in Verdicts : Ends(v)
    /\ UNCHANGED armed \/ (EnableWrites /\ armed' = job.rollback)
    /\ \/ UNCHANGED bundles
       \/ CaptureAgain /\ bundles' = bundles \cup {[slots |-> job.read, setting |-> job.setting]}
    /\ \/ UNCHANGED setting
       \/ SettingWrite /\ setting' = IF Restoring THEN job.source.setting ELSE job.value

(* Every step of a call is such a step. *)
LEMMA CallSteps ==
    ASSUME Next, ~Asked, ~Panel, ~Reconnect
    PROVE  Alike
  <1>0. /\ "done" \in Verdicts /\ "failed" \in Verdicts /\ "undone" \in Verdicts
        /\ "stuck" \in Verdicts
    BY DEF Verdicts
  <1>1. CASE Capturing
    <2>1. CASE CaptureListed
      BY <1>0, <2>1 DEF CaptureListed, At, Reading, Calling, Answered, Goes, Errs, Alike, ghosts,
         session, pedal
    <2>2. CASE CaptureRead
      BY <1>0, <2>2 DEF CaptureRead, Took, At, Reading, Calling, Answered, Goes, Errs, Alike, ghosts, session,
         pedal
    <2>3. CASE CaptureRest
      BY <1>0, <2>3 DEF CaptureRest, At, Reading, Calling, Answered, Goes, Errs, Alike, ghosts, session,
         pedal
    <2>4. CASE CaptureReused
      BY <1>0, <2>4 DEF CaptureReused, Took, At, Reading, Calling, Goes, Alike, ghosts, session, pedal
    <2>5. CASE CaptureEnds
      BY <1>0, <2>5 DEF CaptureEnds, Took, At, Reading, Calling, Answered, Goes, Errs, Alike, ghosts,
         session, pedal
    <2>6. CASE CaptureAgain
      BY <1>0, <2>6 DEF CaptureAgain, At, Reading, Answered, Errs, Alike, ghosts, session, pedal
    <2> QED BY <1>0, <2>1, <2>2, <2>3, <2>4, <2>5, <2>6, <1>1 DEF Capturing
  <1>2. CASE Proving
    <2>1. CASE VerifyListed
      BY <1>0, <2>1 DEF VerifyListed, Verifying, At, Reading, Calling, Answered, Goes, Errs, Alike,
         ghosts, session, pedal
    <2>2. CASE VerifyContents
      BY <1>0, <2>2 DEF VerifyContents, Verifying, At, Reading, Calling, Answered, Goes, Errs, Alike,
         ghosts, session, pedal
    <2>3. CASE VerifySetting
      BY <1>0, <2>3 DEF VerifySetting, Verifying, At, Reading, Calling, Answered, Goes, Errs, Alike,
         ghosts, session, pedal
    <2>4. CASE EnableWrites
      BY <1>0, <2>4 DEF EnableWrites, At, Reading, Calling, Alike, ghosts, session, pedal
    <2> QED BY <1>0, <2>1, <2>2, <2>3, <2>4, <1>2 DEF Proving
  <1>3. CASE Uploading
    <2>1. CASE UploadListed
      BY <1>0, <2>1 DEF UploadListed, Reading, Calling, Answered, Goes, Errs, Alike, ghosts, session,
         pedal
    <2>2. CASE UploadData
      BY <1>0, <2>2 DEF UploadData, Calling, Answered, ErrsWriting, Goes, Errs, Alike, ghosts, session,
         pedal
    <2>3. CASE UploadCommit
      BY <1>0, <2>3 DEF UploadCommit, Calling, Answered, ErrsWriting, Goes, Errs, Alike, ghosts,
         session, pedal
    <2>4. CASE UploadNamed
      BY <1>0, <2>4 DEF UploadNamed, Reading, Calling, Answered, Goes, Errs, Alike, ghosts, session,
         pedal
    <2>5. CASE UploadReadBack
      BY <1>0, <2>5 DEF UploadReadBack, Reading, Calling, Answered, SlotDone, Goes, Errs, Alike, ghosts,
         session, pedal
    <2> QED BY <1>0, <2>1, <2>2, <2>3, <2>4, <2>5, <1>3 DEF Uploading
  <1>4. CASE Editing
    <2>1. CASE RenameCommit
      BY <1>0, <2>1 DEF RenameCommit, At, Calling, Answered, ErrsWriting, Goes, Errs, Alike, ghosts,
         session, pedal
    <2>2. CASE RenameListed
      BY <1>0, <2>2 DEF RenameListed, At, Reading, Calling, Answered, Errs, Alike, ghosts, session,
         pedal
    <2>3. CASE ClearCommit
      BY <1>0, <2>3 DEF ClearCommit, Calling, Answered, ErrsWriting, Goes, Errs, Alike, ghosts, session,
         pedal
    <2>4. CASE ClearListed
      BY <1>0, <2>4 DEF ClearListed, Reading, Calling, Answered, SlotDone, Goes, Errs, Alike, ghosts,
         session, pedal
    <2>5. CASE SettingWrite
      BY <1>0, <2>5 DEF SettingWrite, Calling, Answered, Goes, Errs, Alike, ghosts, session, pedal
    <2>6. CASE SettingRead
      BY <1>0, <2>6 DEF SettingRead, Reading, Calling, Answered, Errs, Alike, ghosts, session, pedal
    <2> QED BY <1>0, <2>1, <2>2, <2>3, <2>4, <2>5, <2>6, <1>4 DEF Editing
  <1>5. CASE Restores
    <2>1. CASE ArmedPreflight
      BY <1>0, <2>1 DEF ArmedPreflight, At, Reading, Calling, Answered, Goes, Errs, Alike, ghosts,
         session, pedal, Restoring
    <2>2. CASE RestorePlan
      BY <1>0, <2>2 DEF RestorePlan, Reading, Calling, Answered, Goes, Errs, Alike, ghosts, session,
         pedal, Restoring
    <2>3. CASE RestoreSlot
      BY <1>0, <2>3 DEF RestoreSlot, Reading, Calling, Goes, Alike, ghosts, session, pedal, Restoring
    <2>4. CASE RestoreFinal
      BY <1>0, <2>4 DEF RestoreFinal, Reading, Calling, Answered, Goes, Errs, Alike, ghosts, session,
         pedal, Restoring
    <2> QED BY <1>0, <2>1, <2>2, <2>3, <2>4, <1>5 DEF Restores
  <1>6. CASE Moving
    <2>1. CASE MoveListed
      BY <1>0, <2>1 DEF MoveListed, At, Reading, Calling, Answered, Goes, Errs, Alike, ghosts, session,
         pedal
    <2>2. CASE SwapBefore
      BY <1>0, <2>2 DEF SwapBefore, At, SwapFails, Reading, Calling, Answered, Goes, Errs, Alike,
         ghosts, session, pedal
    <2>3. CASE SwapExchange
      BY <1>0, <2>3 DEF SwapExchange, At, SwapFails, Calling, Answered, ErrsWriting, Goes, Errs, Alike,
         ghosts, session, pedal
    <2>4. CASE SwapAfter
      BY <1>0, <2>4 DEF SwapAfter, At, SwapFails, SwapTaken, Reading, Calling, Answered, Goes, Errs,
         Alike, ghosts, session, pedal
    <2>5. CASE LookAgain
      BY <1>0, <2>5 DEF LookAgain, At, Reading, Calling, Answered, Goes, Errs, Alike, ghosts, session,
         pedal
    <2>6. CASE MoveVerify
      BY <1>0, <2>6 DEF MoveVerify, At, Reading, Calling, Answered, Errs, Alike, ghosts, session, pedal
    <2>7. CASE MoveFinal
      BY <1>0, <2>7 DEF MoveFinal, At, Reading, Calling, Answered, Errs, Alike, ghosts, session, pedal
    <2> QED BY <1>0, <2>1, <2>2, <2>3, <2>4, <2>5, <2>6, <2>7, <1>6 DEF Moving
  <1> QED BY <1>1, <1>2, <1>3, <1>4, <1>5, <1>6 DEF Next

(* A capture that ends done leaves a bundle, and only bundles are restored. *)
LEMMA BundlesNext ==
    ASSUME LibraryAssumption, FreeAssumption, TypeOK, JobOK, Alike
    PROVE  /\ bundles' \subseteq Bundles
           /\ armed' = None \/ armed' \in Bundles
           /\ setting' \in Values
  <1>a. bundles \subseteq Bundles /\ (armed = None \/ armed \in Bundles) /\ setting \in Values
    BY DEF TypeOK
  <1>1. CaptureAgain => [slots |-> job.read, setting |-> job.setting] \in Bundles
    <2> SUFFICES ASSUME CaptureAgain
                 PROVE  [slots |-> job.read, setting |-> job.setting] \in Bundles
      OBVIOUS
    <2>1. job # None /\ job.op = "capture" /\ job.phase = "again"
      BY DEF CaptureAgain, At
    <2>2. /\ job.at = Count + 1 /\ Len(job.read) = job.at - 1
          /\ job.read \in Seq(Presets \cup {Free}) /\ job.setting \in Values
      BY <2>1 DEF JobOK, Reads, CapturesRead
    <2>3. Len(job.read) = Count
      BY <2>2 DEF LibraryAssumption
    <2>4. job.read \in [1..Count -> Presets \cup {Free}]
      BY <2>2, <2>3
    <2> QED BY <2>2, <2>4 DEF Bundles, Tables, Index
  <1>2. EnableWrites => job.rollback \in Bundles
    <2> SUFFICES ASSUME EnableWrites PROVE job.rollback \in Bundles
      OBVIOUS
    <2>1. job # None /\ job.op = "arm"
      BY DEF EnableWrites, At
    <2>2. job \in ArmJobs
      BY <2>1, JobKinds DEF JobOK
    <2> QED BY <2>2 DEF ArmJobs
  <1>3. SettingWrite => (IF Restoring THEN job.source.setting ELSE job.value) \in Values
    <2> SUFFICES ASSUME SettingWrite
                 PROVE  (IF Restoring THEN job.source.setting ELSE job.value) \in Values
      OBVIOUS
    <2>1. job # None /\ job.phase = "set"
      BY DEF SettingWrite
    <2>2. CASE Restoring
      <3>1. job.source \in Bundles
        BY <2>1, <2>2, RestoreFields
      <3> QED BY <2>2, <3>1 DEF Bundles
    <2>3. CASE ~Restoring
      <3>1. job.op = "setting"
        BY <2>1, <2>3, WritingPlaces
      <3>2. job \in SettingJobs
        BY <2>1, <3>1, JobKinds DEF JobOK
      <3> QED BY <2>3, <3>2 DEF SettingJobs
    <2> QED BY <2>2, <2>3
  <1>4. bundles' \subseteq Bundles
    BY <1>a, <1>1 DEF Alike
  <1>5. armed' = None \/ armed' \in Bundles
    BY <1>a, <1>2 DEF Alike
  <1>6. setting' \in Values
    BY <1>a, <1>3 DEF Alike
  <1> QED BY <1>4, <1>5, <1>6

\* What a call returned.
ResultOK == result = None \/ (result.op \in Kinds /\ result.verdict \in Verdicts)

(* The state keeps its type. *)
LEMMA TypeNext ==
    ASSUME LibraryAssumption, FreeAssumption, TypeOK, JobOK, [Next]_vars
    PROVE  TypeOK'
  <1>1. JobOK' /\ slots' \in Tables /\ held' \in Held
    BY JobNext, SlotsNext
  <1>2. job' = None \/ /\ job'.op \in Kinds
                       /\ job'.op \notin {"capture", "move"} /\ "at" \in DOMAIN job' => job'.at \in Index
    <2>1. CASE job' # None
      <3>1. job' \in Jobs
        BY <1>1, <2>1 DEF JobOK
      <3>2. job'.op \in Kinds
        BY <3>1, JobKinds
      <3>3. job'.op \notin {"capture", "move", "setting"} => job'.at \in Index
        BY <3>1 DEF Jobs, CaptureJobs, CapturesRead, ArmJobs, ImportJobs, RenameJobs, ClearJobs, SettingJobs,
                    RestoreJobs, MoveJobs
      <3>4. job'.op = "setting" => "at" \notin DOMAIN job'
        <4>1. job'.op = "setting" => job' \in SettingJobs
          BY <3>1, JobKinds
        <4> QED BY <4>1 DEF SettingJobs
      <3> QED BY <3>2, <3>3, <3>4
    <2> QED BY <2>1
  <1>3. /\ setting' \in Values /\ online' \in BOOLEAN /\ (armed' = None \/ armed' \in Bundles)
        /\ bundles' \subseteq Bundles
        /\ jobs' \in 0..MaxJobs /\ faults' \in 0..MaxFaults /\ panel' \in 0..MaxPanel
        /\ start' \in Bundles
        /\ ResultOK'
    <2>a. /\ slots \in Tables /\ setting \in Values /\ online \in BOOLEAN
          /\ armed = None \/ armed \in Bundles
          /\ bundles \subseteq Bundles /\ start \in Bundles
          /\ jobs \in 0..MaxJobs /\ faults \in 0..MaxFaults /\ panel \in 0..MaxPanel
          /\ ResultOK
          /\ MaxJobs \in Nat /\ MaxFaults \in Nat /\ MaxPanel \in Nat
      BY DEF TypeOK, ResultOK, Verdicts, LibraryAssumption
    <2>1. CASE UNCHANGED vars
      BY <2>a, <2>1 DEF vars, pedal, session, ghosts, ResultOK
    <2>2. CASE Asked
      <3>1. PICK call : Begin(call)
        BY <2>2 DEF Asked, Capture, Arm, Import, Rename, Clear, SetSetting, Move, Restore,
                    RestoreArmed, Writing
      <3>2. [slots |-> slots, setting |-> setting] \in Bundles
        BY <2>a DEF Bundles
      <3>3. jobs' \in 0..MaxJobs
        BY <2>a, <3>1 DEF Begin
      <3> QED BY <2>a, <3>1, <3>2, <3>3 DEF Begin, pedal, session, ResultOK
    <2>3. CASE Panel
      <3>1. panel' \in 0..MaxPanel
        BY <2>a, <2>3 DEF Panel
      <3> QED BY <2>a, <2>3, <3>1 DEF Panel, session, ResultOK
    <2>4. CASE Reconnect
      BY <2>a, <2>4 DEF Reconnect, pedal, ghosts, ResultOK
    <2>5. CASE Alike
      <3>1. /\ bundles' \subseteq Bundles /\ setting' \in Values
            /\ armed' = None \/ armed' \in Bundles
        BY <2>5, BundlesNext
      <3>2. online' \in BOOLEAN /\ faults' \in 0..MaxFaults
        <4>1. /\ online \in BOOLEAN /\ faults \in 0..MaxFaults /\ MaxFaults \in Nat
              /\ Refused \/ Lost \/ UNCHANGED <<online, faults>>
          BY <2>a, <2>5 DEF Alike
        <4>2. online' \in BOOLEAN
          BY <4>1 DEF Refused, Lost
        <4>3. faults' \in 0..MaxFaults
          BY <4>1 DEF Refused, Lost
        <4> QED BY <4>2, <4>3
      <3>3. jobs' \in 0..MaxJobs /\ panel' \in 0..MaxPanel /\ start' \in Bundles
        BY <2>a, <2>5 DEF Alike
      <3>4. job # None /\ job.op \in Kinds
        BY <2>5, JobKinds DEF Alike, JobOK
      <3>5. ResultOK'
        BY <2>a, <2>5, <3>4 DEF Alike, Ends, ResultOK
      <3> QED BY <3>1, <3>2, <3>3, <3>5
    <2> QED BY <2>1, <2>2, <2>3, <2>4, <2>5, CallSteps
  <1> QED BY <1>1, <1>2, <1>3 DEF TypeOK, ResultOK, Verdicts, Held

(* A session begins with nothing armed, asked or returned. *)
LEMMA InitTyped ==
    ASSUME LibraryAssumption, Init
    PROVE  TypeOK /\ JobOK
  <1>1. /\ slots \in Tables /\ setting \in Values /\ online = TRUE /\ armed = None /\ bundles = {}
        /\ job = None /\ result = None /\ jobs = 0 /\ faults = 0 /\ panel = 0
        /\ start = [slots |-> slots, setting |-> setting]
        /\ held = [i \in Index |-> {slots[i]}]
    BY DEF Init
  <1>2. start \in Bundles
    BY <1>1 DEF Bundles
  <1>3. held \in [Index -> SUBSET (Presets \cup {Free})]
    BY <1>1 DEF Tables
  <1>4. jobs \in 0..MaxJobs /\ faults \in 0..MaxFaults /\ panel \in 0..MaxPanel
    BY <1>1 DEF LibraryAssumption
  <1> QED BY <1>1, <1>2, <1>3, <1>4 DEF TypeOK, JobOK

(* The type invariant, of any pedal: what is stored is a table of presets,   *)
(* a call is at one of its places, and no counter passes its bound.          *)
THEOREM TypeCorrect == Spec => []TypeOK
  <1>1. Init => TypeOK /\ JobOK
    BY InitTyped, LibraryAssumption
  <1>2. (TypeOK /\ JobOK) /\ [Next]_vars => (TypeOK /\ JobOK)'
    BY JobNext, TypeNext, LibraryAssumption, FreeAssumption
  <1> QED BY <1>1, <1>2, PTL DEF Spec

-----------------------------------------------------------------------------
(* A capture tells the truth                                                *)

\* What holds of every call: a result is of a call that ended, every slot has
\* been seen to hold what it holds, and no name is in two slots.
Basics ==
    /\ result # None => job = None
    /\ \A i \in Index : slots[i] \in held[i]
    /\ DistinctNames(slots) /\ DistinctNames(start.slots)

Base == TypeOK /\ JobOK /\ Basics

(* A step that leaves a result is the end of a call, or nothing at all. *)
LEMMA Resulting ==
    ASSUME Basics, [Next]_vars, result' # None
    PROVE  \/ UNCHANGED vars
           \/ /\ job # None /\ job' = None /\ Next /\ Alike
              /\ \E v \in Verdicts : Ends(v)
  <1>1. CASE job = None
    BY <1>1, NoJob DEF Reconnect, Asked, Capture, Arm, Import, Rename, Clear, SetSetting, Move,
                       Restore, RestoreArmed, Writing, Begin
  <1>2. CASE job # None /\ ~UNCHANGED vars
    <2>1. Next /\ result = None
      BY <1>2 DEF Basics
    <2>2. ~Asked /\ ~Reconnect
      BY <1>2 DEF Asked, Capture, Arm, Import, Rename, Clear, SetSetting, Move, Restore,
                  RestoreArmed, Writing, Begin, Reconnect
    <2>3. ~Panel
      BY <2>1 DEF Panel
    <2>4. Alike
      BY <2>1, <2>2, <2>3, CallSteps
    <2>5. \E v \in Verdicts : Ends(v)
      BY <2>1, <2>4 DEF Alike
    <2> QED BY <1>2, <2>1, <2>4, <2>5 DEF Ends
  <1> QED BY <1>1, <1>2

(* What a call of each kind may do, the panel aside. *)
LEMMA StepsOf ==
    ASSUME job # None, JobOK, Next
    PROVE  /\ job.op = "capture" => Panel \/ Capturing
           /\ job.op = "arm" => Panel \/ Proving
           /\ job.op = "import" => Panel \/ Uploading
           /\ Restoring => \/ Panel \/ Proving \/ Uploading \/ ClearCommit \/ ClearListed
                           \/ SettingWrite \/ SettingRead \/ Restores
           /\ job.op = "move" => Panel \/ Moving
  <1>1. ~Asked /\ ~Reconnect
    BY DEF Asked, Capture, Arm, Import, Rename, Clear, SetSetting, Move, Restore, RestoreArmed,
           Writing, Begin, Reconnect
  <1>2. Capturing => job.op = "capture"
    BY DEF Capturing, CaptureListed, CaptureRead, CaptureRest, CaptureReused, CaptureEnds, CaptureAgain, At
  <1>3. Moving => job.op = "move"
    BY DEF Moving, MoveListed, SwapBefore, SwapExchange, SwapAfter, LookAgain, MoveVerify,
           MoveFinal, At
  <1>4. Proving => job.op \in {"arm", "restore"}
    BY DEF Proving, Verifying, At, VerifyListed, VerifyContents, VerifySetting, EnableWrites
  <1>5. Uploading => Restoring \/ job.op = "import"
    BY WritingPlaces DEF Uploading, UploadListed, UploadData, UploadCommit, UploadNamed,
                         UploadReadBack, PutPhases
  <1>6. Restores => Restoring
    BY DEF Restores, ArmedPreflight, RestorePlan, RestoreSlot, RestoreFinal, At, Restoring
  <1>7. /\ Editing => RenameCommit \/ RenameListed \/ ClearCommit \/ ClearListed \/ SettingWrite
                        \/ SettingRead
        /\ RenameCommit \/ RenameListed => job.op = "rename"
        /\ ClearCommit \/ ClearListed => Restoring \/ job.op = "clear"
        /\ SettingWrite \/ SettingRead => Restoring \/ job.op = "setting"
    <2>1. RenameCommit \/ RenameListed => job.op = "rename"
      BY DEF RenameCommit, RenameListed, At
    <2>2. ClearCommit \/ ClearListed => Restoring \/ job.op = "clear"
      BY WritingPlaces DEF ClearCommit, ClearListed
    <2>3. SettingWrite \/ SettingRead => Restoring \/ job.op = "setting"
      BY WritingPlaces DEF SettingWrite, SettingRead
    <2> QED BY <2>1, <2>2, <2>3 DEF Editing
  <1>8. Restoring => job.op \in {"restore", "restore_armed"}
    BY DEF Restoring
  <1>9. Panel \/ Capturing \/ Proving \/ Uploading \/ Editing \/ Restores \/ Moving
    BY <1>1 DEF Next
  <1>10. CASE Capturing
    BY <1>10, <1>2, <1>8
  <1>11. CASE Proving
    BY <1>11, <1>4, <1>8
  <1>12. CASE Uploading
    BY <1>12, <1>5, <1>8
  <1>13. CASE Editing
    BY <1>13, <1>7, <1>8
  <1>14. CASE Restores
    BY <1>14, <1>6, <1>8
  <1>15. CASE Moving
    BY <1>15, <1>3, <1>8
  <1> QED BY <1>9, <1>10, <1>11, <1>12, <1>13, <1>14, <1>15

(* While a call goes on, what a slot has been seen to hold only grows. *)
LEMMA HeldGrows ==
    ASSUME job # None, Next, held \in Held, slots \in Tables
    PROVE  \A i \in Index : held[i] \subseteq held'[i]
  <1>1. CASE Panel
    BY <1>1 DEF Panel, Stores
  <1>2. CASE ~Panel
    <2>1. ~Asked
      BY DEF Asked, Capture, Arm, Import, Rename, Clear, SetSetting, Move, Restore, RestoreArmed,
             Writing, Begin
    <2> QED BY <1>2, <2>1, StoredBy DEF Stores
  <1> QED BY <1>1, <1>2

(* A table that is stored has its own slots held from then on. *)
LEMMA StoredHeld ==
    ASSUME held \in Held, slots \in Tables, NEW t \in Tables, Stores(t)
    PROVE  \A i \in Index : slots'[i] \in held'[i]
  BY DEF Stores, Held, Tables

(* Exchanging two slots leaves no name twice. *)
LEMMA ExchangedDistinct ==
    ASSUME NEW t \in Tables, DistinctNames(t), NEW p \in Pairs
    PROVE  DistinctNames(Exchanged(t, p))
  <1> DEFINE e == Exchanged(t, p)
             back(i) == IF i = p[2] THEN p[1] ELSE IF i = p[1] THEN p[2] ELSE i
  <1>1. p[1] \in Index /\ p[2] \in Index
    BY DEF Pairs
  <1>2. DOMAIN e = Index /\ \A i \in Index : back(i) \in Index /\ e[i] = t[back(i)]
    BY <1>1 DEF Exchanged, Tables
  <1>3. \A i, j \in Index : back(i) = back(j) => i = j
    OBVIOUS
  <1>4. DOMAIN t = Index
    BY DEF Tables
  <1> HIDE DEF e, back
  <1>5. DistinctNames(e)
    BY <1>2, <1>3, <1>4 DEF DistinctNames
  <1> QED BY <1>5 DEF e

(* Nor does replacing a slot by one of the same name, or by none. *)
LEMMA ReplacedDistinct ==
    ASSUME FreeAssumption, NEW t \in Tables, DistinctNames(t), NEW i \in Index, NEW s \in Presets \cup {Free},
           s = Free \/ NameOf(s) = NameOf(t[i])
    PROVE  DistinctNames([t EXCEPT ![i] = s])
  <1> DEFINE e == [t EXCEPT ![i] = s]
  <1>1. DOMAIN t = Index /\ DOMAIN e = Index /\ \A j \in Index : t[j] \in Presets \cup {Free}
    BY DEF Tables
  <1>2. e[i] = s /\ \A j \in Index \ {i} : e[j] = t[j]
    BY <1>1
  <1>3. s # Free => t[i] # Free
    BY <1>1, FreeNames
  <1>4. NameOf(Free) = Free /\ \A j \in Index : t[j] # Free => NameOf(t[j]) # Free
    BY <1>1, FreeNames
  <1> HIDE DEF e
  <1>5. ASSUME NEW j \in Index, NEW k \in Index, e[j] # Free, NameOf(e[j]) = NameOf(e[k]), j # k
        PROVE  FALSE
    <2>1. CASE j = i
      BY <1>2, <1>3, <1>5, <1>1, <2>1 DEF DistinctNames
    <2>2. CASE k = i
      BY <1>2, <1>3, <1>4, <1>5, <1>1, <2>2 DEF DistinctNames
    <2>3. CASE j # i /\ k # i
      BY <1>2, <1>5, <1>1, <2>3 DEF DistinctNames
    <2> QED BY <2>1, <2>2, <2>3
  <1>6. DistinctNames(e)
    BY <1>1, <1>5 DEF DistinctNames
  <1> QED BY <1>6 DEF e

(* A preset stored at the panel has a name no other slot has. *)
LEMMA PanelDistinct ==
    ASSUME FreeAssumption, NEW t \in Tables, DistinctNames(t), NEW i \in Index, NEW p \in Presets,
           \A j \in Index : NameOf(t[j]) = p.name => p.name = NameOf(t[i])
    PROVE  DistinctNames([t EXCEPT ![i] = p])
  <1>1. NameOf(p) = p.name /\ NameOf(p) # Free
    BY FreeNames DEF FreeAssumption, NameOf, Presets
  <1>2. CASE NameOf(t[i]) = NameOf(p)
    BY <1>2, ReplacedDistinct
  <1>3. CASE NameOf(t[i]) # NameOf(p)
    <2> DEFINE e == [t EXCEPT ![i] = p]
    <2>1. DOMAIN t = Index /\ DOMAIN e = Index
      BY DEF Tables
    <2>2. e[i] = p /\ \A j \in Index \ {i} : e[j] = t[j]
      BY <2>1
    <2>3. \A j \in Index : NameOf(t[j]) # NameOf(p)
      BY <1>1, <1>3
    <2> HIDE DEF e
    <2>4. DistinctNames(e)
      BY <2>1, <2>2, <2>3 DEF DistinctNames
    <2> QED BY <2>4 DEF e
  <1> QED BY <1>2, <1>3

(* The basics hold whatever happens next. *)
LEMMA BasicsNext ==
    ASSUME LibraryAssumption, FreeAssumption, Base, [Next]_vars
    PROVE  Base'
  <1>a. /\ TypeOK' /\ JobOK' /\ slots \in Tables /\ held \in Held /\ start \in Bundles
        /\ slots' \in Tables
    BY JobNext, TypeNext, SlotsNext DEF Base, TypeOK, Held
  <1>b. DistinctNames(slots) /\ DistinctNames(start.slots) /\ \A i \in Index : slots[i] \in held[i]
    BY DEF Base, Basics
  <1>1. result' # None => job' = None
    BY Resulting DEF Base, Basics, vars
  <1>2. /\ \A i \in Index : slots'[i] \in held'[i]
        /\ DistinctNames(slots') /\ DistinctNames(start'.slots)
    <2>1. CASE UNCHANGED vars
      BY <1>b, <2>1 DEF vars, pedal, ghosts
    <2>2. CASE Asked
      <3>1. /\ slots' = slots /\ start' = [slots |-> slots, setting |-> setting]
            /\ held' = [i \in Index |-> {slots[i]}]
        BY <2>2 DEF Asked, Capture, Arm, Import, Rename, Clear, SetSetting, Move, Restore,
                    RestoreArmed, Writing, Begin, pedal
      <3> QED BY <1>b, <3>1
    <2>3. CASE Reconnect
      BY <1>b, <2>3 DEF Reconnect, pedal, ghosts
    <2>4. CASE Panel
      <3>1. PICK i \in Index, p \in Presets :
              /\ \A s \in UNION {held[j] : j \in Index} : NameOf(s) = p.name => p.name = NameOf(slots[i])
              /\ Stores([slots EXCEPT ![i] = p])
        BY <2>4 DEF Panel
      <3>2. \A j \in Index : NameOf(slots[j]) = p.name => p.name = NameOf(slots[i])
        BY <1>b, <3>1
      <3>3. [slots EXCEPT ![i] = p] \in Tables
        BY <1>a, SlotReplaced
      <3>4. DistinctNames([slots EXCEPT ![i] = p])
        BY <1>a, <1>b, <3>2, PanelDistinct
      <3>5. start' = start /\ slots' = [slots EXCEPT ![i] = p]
        BY <2>4, <3>1 DEF Panel, Stores
      <3> QED BY <1>a, <1>b, <3>1, <3>3, <3>4, <3>5, StoredHeld
    <2>5. CASE Next /\ ~Asked /\ ~Panel /\ ~Reconnect
      <3>1. job # None /\ start' = start
        BY <2>5, CallSteps DEF Alike
      <3>2. ASSUME NEW t \in Tables, DistinctNames(t), Stores(t)
            PROVE  DistinctNames(slots') /\ \A i \in Index : slots'[i] \in held'[i]
        BY <1>a, <3>2, StoredHeld DEF Stores
      <3>3. CASE UNCHANGED <<slots, held>>
        BY <1>b, <3>1, <3>3
      <3>4. CASE RenameCommit /\ Stores(Unless(Named))
        BY <1>b, <1>a, <3>1, <3>2, <3>4, StoredTyped DEF Unless, Base
      <3>5. CASE ClearCommit /\ Stores(Cleared)
        <4>1. job.at \in Index
          BY <3>1, <3>5, ClearTyped DEF ClearCommit, Base
        <4>2. DistinctNames(Cleared)
          BY <1>a, <1>b, <4>1, ReplacedDistinct DEF Cleared
        <4> QED BY <1>b, <1>a, <3>1, <3>2, <3>5, <4>2, StoredTyped DEF Base
      <3>6. CASE UploadData /\ Stores(Torn)
        <4>1. job.at \in Index /\ Put \in Presets
          BY <3>1, <3>6, PutTyped DEF UploadData, PutPhases, Base
        <4> DEFINE s == IF slots[job.at] = Free THEN Free ELSE [slots[job.at] EXCEPT !.blob = Put.blob]
        <4>2. s \in Presets \cup {Free} /\ (s = Free \/ NameOf(s) = NameOf(slots[job.at]))
          <5>1. slots[job.at] \in Presets \cup {Free}
            BY <1>a, <4>1 DEF Tables
          <5>2. CASE slots[job.at] = Free
            BY <5>2
          <5>3. CASE slots[job.at] # Free
            <6>1. s = [slots[job.at] EXCEPT !.blob = Put.blob]
              BY <5>3
            <6>2. s \in Presets /\ s.name = slots[job.at].name
              BY <4>1, <5>1, <5>3, <6>1 DEF Presets
            <6>3. s # Free
              BY <6>2 DEF FreeAssumption
            <6> QED BY <5>3, <6>2, <6>3 DEF NameOf
          <5> QED BY <5>2, <5>3
        <4>3. Torn = [slots EXCEPT ![job.at] = s]
          BY DEF Torn
        <4>4. DistinctNames(Torn)
          <5> HIDE DEF s
          <5> QED BY <1>a, <1>b, <4>1, <4>2, <4>3, ReplacedDistinct
        <4> QED BY <1>b, <1>a, <3>1, <3>2, <3>6, <4>4, StoredTyped DEF Base
      <3>7. CASE UploadCommit /\ Stores(Unless(Written))
        BY <1>b, <1>a, <3>1, <3>2, <3>7, StoredTyped DEF Unless, Base
      <3>8. CASE SwapExchange /\ Stores(Exchanged(slots, Pair))
        <4>1. job \in MoveJobs /\ Shape(job) /\ job.phase = "exchange"
          BY <3>8, JobKinds DEF JobOK, SwapExchange, At, Base
        <4>2. Pair \in Pairs
          BY <4>1, PairIs, MoveFields
        <4>3. DistinctNames(Exchanged(slots, Pair))
          BY <1>a, <1>b, <4>2, ExchangedDistinct
        <4> QED BY <1>b, <1>a, <3>1, <3>2, <3>8, <4>3, StoredTyped DEF Base
      <3> QED BY <2>5, <3>1, <3>3, <3>4, <3>5, <3>6, <3>7, <3>8, <1>b, StoredBy
    <2> QED BY <2>1, <2>2, <2>3, <2>4, <2>5 DEF Next
  <1> QED BY <1>a, <1>1, <1>2 DEF Base, Basics

\* A slot held, or stored over under its name, with h the slots held.
Sound(h, i, slot) ==
    \/ slot \in h[i]
    \/ \E p, q \in h[i] \ {Free} : p # q /\ p.name = slot.name /\ q.name = slot.name

\* A capture on its way: each name it listed has been the slot's since the call
\* began, and what is read is the slot as it was held under that name, or stored over
\* under it, unless it has another name by now.
SlotRead(j, table, h, i) ==
    /\ j.names[i] # Free => \E s \in h[i] : NameOf(s) = j.names[i]
    /\ i < j.at /\ j.read[i] # Free =>
          /\ j.names[i] # Free
          /\ NameOf(table[i]) = j.names[i] => Sound(h, i, j.read[i])
    /\ i = j.at /\ j.phase \in {"rest", "ends"} /\ NameOf(table[i]) = j.names[i] =>
          Sound(h, i, [name |-> j.names[i], blob |-> j.got])

Read ==
    job # None /\ job.op = "capture" /\ job.phase # "list" =>
        \A i \in Index : SlotRead(job, slots, held, i)

(* What was held stays so. *)
LEMMA SoundGrows ==
    ASSUME NEW h, NEW g, NEW i, h[i] \subseteq g[i], NEW slot, Sound(h, i, slot)
    PROVE  Sound(g, i, slot)
  BY DEF Sound

(* A call goes on as the call it is, or ends. *)
LEMMA SameCall ==
    ASSUME LibraryAssumption, FreeAssumption, Base, job # None, Next
    PROVE  job' = None \/ (job' # None => job'.op = job.op)
  <1>1. CASE UNCHANGED job
    BY <1>1
  <1>2. CASE ~UNCHANGED job
    BY <1>2, CallGoes DEF Base, TypeOK, Further
  <1> QED BY <1>1, <1>2

(* A call that just began is at its first place. *)
LEMMA JustBegun ==
    ASSUME LibraryAssumption, Base, job = None, [Next]_vars, job' # None
    PROVE  /\ Fresh(job') /\ ~touched'
           /\ slots' = slots /\ setting' = setting
           /\ start' = [slots |-> slots, setting |-> setting]
  <1>1. Asked
    BY NoJob DEF Reconnect, vars
  <1>2. PICK call : Begin(call) /\ Fresh(call)
    BY <1>1, AskedBegins DEF Base, TypeOK
  <1> QED BY <1>2 DEF Begin, pedal

(* The content read of a slot that has the name listed is what the slot holds. *)
LEMMA ReadWhole ==
    ASSUME FreeAssumption, slots \in Tables, NEW i \in Index, NEW b \in ContentOf(i),
           NEW n \in Names, NameOf(slots[i]) = n
    PROVE  [name |-> n, blob |-> b] = slots[i]
  <1>1. slots[i] \in Presets \cup {Free} /\ n # Free
    BY DEF Tables, FreeAssumption
  <1>2. slots[i] # Free
    BY <1>1 DEF NameOf
  <1>3. slots[i] \in Presets /\ slots[i].name = n /\ b = slots[i].blob
    BY <1>1, <1>2 DEF NameOf, ContentOf
  <1> QED BY <1>3 DEF Presets

(* A slot as read so far, and one of the same name with another content, stored over. *)
LEMMA ReadMixed ==
    ASSUME FreeAssumption, slots \in Tables, NEW i \in Index, NEW n \in Names, NEW g \in Blobs, NEW b,
           NameOf(slots[i]) = n, slots[i] \in held[i], Sound(held, i, [name |-> n, blob |-> g]),
           ContentOf(i) = {g} => b = g
    PROVE  Sound(held, i, [name |-> n, blob |-> b])
  <1>1. slots[i] \in Presets /\ slots[i] # Free /\ slots[i].name = n /\ ContentOf(i) = {slots[i].blob}
    BY DEF Tables, FreeAssumption, NameOf, ContentOf
  <1>2. CASE g = slots[i].blob
    BY <1>1, <1>2
  <1>3. CASE g # slots[i].blob
    <2> DEFINE r == [name |-> n, blob |-> g]
    <2>1. r # slots[i] /\ r.name = n
      BY <1>3
    <2>2. CASE r \in held[i]
      <3>1. r # Free
        BY DEF FreeAssumption, Presets
      <3> QED BY <1>1, <2>1, <2>2, <3>1 DEF Sound
    <2>3. CASE r \notin held[i]
      BY <2>3 DEF Sound
    <2> QED BY <2>2, <2>3
  <1> QED BY <1>2, <1>3

(* The slot read is taken into what the capture has read. *)
LEMMA TookRead ==
    ASSUME LibraryAssumption, FreeAssumption, TypeOK, JobOK, Read, job # None, job.op = "capture",
           job.phase \in {"read", "rest", "ends"}, UNCHANGED <<slots, held>>,
           NEW s, Took(s),
           s = Free \/ (job.phase # "read" /\ s = Got)
    PROVE  \A i \in Index : SlotRead(job', slots', held', i)
  <1>1. /\ job \in CapturesRead /\ job.at \in Index /\ Len(job.read) = job.at - 1
        /\ job.phase # "read" => job.names[job.at] # Free
        /\ job.read \in Seq(Presets \cup {Free})
    BY DEF JobOK, Reads, CapturesRead
  <1>2. job' = [job EXCEPT !.at = @ + 1, !.got = None, !.read = Append(@, s),
                           !.phase = IF job.at = Count THEN "again" ELSE "read"]
    BY DEF Took, Goes
  <1>3. /\ job'.names = job.names /\ job'.at = job.at + 1 /\ job'.read = Append(job.read, s)
        /\ job'.phase \in {"read", "again"}
    BY <1>1, <1>2 DEF CapturesRead
  <1>4. /\ \A i \in Index : i < job.at => job'.read[i] = job.read[i]
        /\ job'.read[job.at] = s
    <2>1. job.at \in Nat /\ Len(job.read) + 1 = job.at
      BY <1>1 DEF Index
    <2>2. /\ \A i \in 1..Len(job.read) : Append(job.read, s)[i] = job.read[i]
          /\ Append(job.read, s)[Len(job.read) + 1] = s
      BY <1>1
    <2>3. \A i \in Index : i < job.at => i \in 1..Len(job.read)
      BY <2>1 DEF Index
    <2> QED BY <1>3, <2>1, <2>2, <2>3
  <1>5. s # Free => /\ job.names[job.at] # Free
                    /\ NameOf(slots[job.at]) = job.names[job.at] => Sound(held, job.at, s)
    BY <1>1 DEF Read, SlotRead, Got
  <1>6. ASSUME NEW i \in Index
        PROVE  SlotRead(job', slots, held, i)
    <2>1. SlotRead(job, slots, held, i)
      BY DEF Read
    <2>2. i < job.at + 1 => i < job.at \/ i = job.at
      BY <1>1 DEF Index
    <2> QED BY <1>3, <1>4, <1>5, <2>1, <2>2 DEF SlotRead
  <1> QED BY <1>6

(* A capture keeps what it knows, whatever the panel stores meanwhile. *)
LEMMA ReadNext ==
    ASSUME LibraryAssumption, FreeAssumption, Base, Read, [Next]_vars
    PROVE  Read'
  <1>a. /\ slots \in Tables /\ held \in Held /\ slots' \in Tables /\ Base' /\ TypeOK /\ JobOK
        /\ \A i \in Index : slots[i] \in held[i]
    BY BasicsNext, SlotsNext DEF Base, Basics, TypeOK, Held
  <1> SUFFICES ASSUME job' # None, job'.op = "capture", job'.phase # "list"
               PROVE  \A i \in Index : SlotRead(job', slots', held', i)
    BY DEF Read
  <1>1. CASE UNCHANGED vars
    BY <1>1 DEF vars, pedal, Read
  <1>2. CASE job = None
    BY <1>2, JustBegun DEF Fresh
  <1>3. CASE job # None /\ Next
    <2>1. job.op = "capture" /\ (Panel \/ Capturing)
      BY <1>3, SameCall, StepsOf DEF Base
    <2>2. \A i \in Index : held[i] \subseteq held'[i]
      BY <1>3, <1>a, HeldGrows
    <2>3. CASE Panel
      <3>1. PICK k \in Index, p \in Presets :
              /\ \A s \in UNION {held[j] : j \in Index} : NameOf(s) = p.name => p.name = NameOf(slots[k])
              /\ Stores([slots EXCEPT ![k] = p])
        BY <2>3 DEF Panel
      <3>2. job' = job
        BY <2>3 DEF Panel
      <3>3. NameOf(p) = p.name
        BY FreeNames DEF FreeAssumption, NameOf, Presets
      <3>4. slots'[k] = p /\ \A i \in Index \ {k} : slots'[i] = slots[i]
        BY <1>a, <3>1 DEF Stores, Tables
      <3>5. ASSUME NEW i \in Index
            PROVE  SlotRead(job, slots', held', i)
        <4>1. SlotRead(job, slots, held, i)
          BY <1>3, <2>1, <3>2 DEF Read
        <4>2. NameOf(slots'[i]) = job.names[i] /\ job.names[i] # Free => NameOf(slots[i]) = job.names[i]
          <5>1. CASE i = k
            BY <3>1, <3>3, <3>4, <4>1, <5>1 DEF SlotRead
          <5>2. CASE i # k
            BY <3>4, <5>2
          <5> QED BY <5>1, <5>2
        <4>3. i = job.at /\ job.phase \in {"rest", "ends"} => job.names[i] # Free
          BY <1>a, <1>3, <2>1 DEF JobOK, Reads
        <4> QED BY <2>2, <4>1, <4>2, <4>3, SoundGrows DEF SlotRead
      <3> QED BY <3>2, <3>5
    <2>4. CASE CaptureListed
      <3>1. job' = [op |-> "capture", phase |-> "read", at |-> 1, names |-> NamesOf(slots),
                    setting |-> setting, got |-> None, read |-> <<>>]
        BY <2>4 DEF CaptureListed, Goes, Ends
      <3>2. job'.names = NamesOf(slots) /\ job'.at = 1 /\ job'.phase = "read"
        BY <3>1
      <3>3. \A i \in Index : ~(i < 1)
        BY DEF Index
      <3> QED BY <1>a, <2>2, <3>2, <3>3, NamesListed DEF SlotRead
    <2>5. CASE Capturing /\ ~CaptureListed
      <3>1. /\ UNCHANGED <<slots, held>> /\ job \in CapturesRead /\ job.phase \in CapturePhases
            /\ job.phase # "again" => job.at \in Index
            /\ \A i \in Index : SlotRead(job, slots, held, i)
        BY <1>3, <1>a, <2>1, <2>5 DEF Capturing, CaptureRead, CaptureRest, CaptureReused, CaptureEnds,
           CaptureAgain, At, JobOK, Reads, Reading, pedal, CapturesRead, Read
      <3>2. CASE CaptureRead /\ job.names[job.at] # Free
        <4>1. PICK b \in ContentOf(job.at) : job' = [job EXCEPT !.phase = "rest", !.got = b]
          BY <3>2 DEF CaptureRead, Goes, Ends
        <4>2. /\ job'.names = job.names /\ job'.at = job.at /\ job'.read = job.read /\ job'.got = b
          BY <3>1, <4>1 DEF CapturesRead
        <4>3. job.at \in Index /\ job.names[job.at] \in Names
          BY <3>1, <3>2 DEF CaptureRead, At, CapturesRead, NameLists
        <4>4. NameOf(slots[job.at]) = job.names[job.at] =>
                 Sound(held, job.at, [name |-> job.names[job.at], blob |-> b])
          BY <1>a, <4>3, ReadWhole DEF Sound
        <4> QED BY <3>1, <4>2, <4>4 DEF SlotRead
      <3>3. CASE CaptureRest
        <4>1. PICK b \in Blobs, p \in {"rest", "ends"} :
                 /\ ContentOf(job.at) = {job.got} => b = job.got
                 /\ job' = [job EXCEPT !.phase = p, !.got = b]
          BY <3>3 DEF CaptureRest, Goes, Ends
        <4>2. /\ job'.names = job.names /\ job'.at = job.at /\ job'.read = job.read /\ job'.got = b
          BY <3>1, <4>1 DEF CapturesRead
        <4>3. job.phase = "rest" /\ job.at \in Index /\ job.names[job.at] \in Names /\ job.got \in Blobs
          BY <1>3, <1>a, <2>1, <3>1, <3>3 DEF CaptureRest, At, CapturesRead, NameLists, JobOK, Reads
        <4>4. NameOf(slots[job.at]) = job.names[job.at] =>
                 Sound(held, job.at, [name |-> job.names[job.at], blob |-> b])
          BY <1>a, <3>1, <4>1, <4>3, ReadMixed DEF SlotRead
        <4> QED BY <3>1, <4>2, <4>4 DEF SlotRead
      <3>4. ASSUME NEW s, Took(s), s = Free \/ (job.phase # "read" /\ s = Got),
                   job.phase \in {"read", "rest", "ends"}
            PROVE  \A i \in Index : SlotRead(job', slots', held', i)
        BY <1>3, <1>a, <2>1, <3>1, <3>4, TookRead
      <3>5. CASE CaptureRead /\ job.names[job.at] = Free
        BY <3>4, <3>5 DEF CaptureRead, At
      <3>6. CASE CaptureReused
        BY <3>4, <3>6 DEF CaptureReused, At
      <3>7. CASE CaptureEnds
        BY <3>4, <3>7 DEF CaptureEnds, At, Ends
      <3>8. CASE CaptureAgain
        BY <3>8 DEF CaptureAgain, Ends
      <3> QED BY <2>5, <3>2, <3>3, <3>5, <3>6, <3>7, <3>8 DEF Capturing
    <2> QED BY <2>1, <2>3, <2>4, <2>5
  <1> QED BY <1>1, <1>2, <1>3

(* A capture that ends done has read what the slots held. *)
LEMMA CaptureNext ==
    ASSUME LibraryAssumption, FreeAssumption, Base, Read, CaptureIsTrue, [Next]_vars
    PROVE  CaptureIsTrue'
  <1> SUFFICES ASSUME result' # None, result'.op = "capture", result'.verdict = "done",
                      NEW i \in Index, result'.job.read[i] # Free
               PROVE  Sound(held', i, result'.job.read[i])
    BY DEF CaptureIsTrue, Returned, Sound, StoredOver
  <1>1. CASE UNCHANGED vars
    BY <1>1 DEF vars, CaptureIsTrue, Returned, Sound, StoredOver
  <1>2. CASE job # None /\ job' = None /\ Next /\ Alike /\ \E v \in Verdicts : Ends(v)
    <2>1. result'.op = job.op /\ result'.job = job
      BY <1>2 DEF Ends
    <2>2. Capturing
      <3>1. Panel \/ Capturing
        BY <1>2, <2>1, StepsOf DEF Base
      <3> QED BY <1>2, <3>1 DEF Panel
    <2>a. result = None
      BY <1>2 DEF Base, Basics
    <2>3. CaptureAgain
      <3>1. CASE CaptureListed
        BY <2>a, <3>1 DEF CaptureListed, Ends, Goes
      <3>2. CASE CaptureRead
        <4>1. UNCHANGED result \/ Ends("failed")
          BY <3>2 DEF CaptureRead, Took, Goes
        <4> QED BY <2>a, <4>1 DEF Ends
      <3>3. CASE CaptureRest
        <4>1. UNCHANGED result \/ Ends("failed")
          BY <3>3 DEF CaptureRest, Goes
        <4> QED BY <2>a, <4>1 DEF Ends
      <3>4. CASE CaptureReused
        BY <2>a, <3>4, <1>2 DEF CaptureReused, Took, Goes, Ends
      <3>5. CASE CaptureEnds
        <4>1. UNCHANGED result \/ Ends("failed")
          BY <3>5 DEF CaptureEnds, Took, Goes
        <4> QED BY <2>a, <4>1 DEF Ends
      <3> QED BY <2>2, <3>1, <3>2, <3>3, <3>4, <3>5 DEF Capturing
    <2>4. /\ job.op = "capture" /\ job.phase = "again" /\ NamesOf(slots) = job.names
          /\ UNCHANGED <<slots, held>>
      BY <1>2, <2>3 DEF CaptureAgain, At, Ends, Reading, pedal
    <2>5. job.at = Count + 1 /\ i < job.at
      BY <1>2, <2>4 DEF Base, JobOK, Reads, Index, LibraryAssumption
    <2>6. NameOf(slots[i]) = job.names[i]
      BY <2>4, NamesListed DEF Base, TypeOK
    <2> QED BY <1>2, <2>1, <2>4, <2>5, <2>6 DEF Read, SlotRead
  <1> QED BY <1>1, <1>2, Resulting DEF Base

(* Every slot of a captured bundle is one the slot held during the capture,   *)
(* whatever the panel stored between the requests, but for one stored over in *)
(* place (capture_reusing).                                                   *)
THEOREM CaptureIsTrueHolds == Spec => []CaptureIsTrue
  <1>1. Init => Base /\ Read /\ CaptureIsTrue
    <2> SUFFICES ASSUME Init PROVE Base /\ Read /\ CaptureIsTrue
      OBVIOUS
    <2>1. TypeOK /\ JobOK
      BY InitTyped, LibraryAssumption
    <2>2. Basics
      BY DEF Init, Basics
    <2>3. job = None /\ result = None
      BY DEF Init
    <2> QED BY <2>1, <2>2, <2>3 DEF Base, Read, CaptureIsTrue, Returned
  <1>2. (Base /\ Read /\ CaptureIsTrue) /\ [Next]_vars => (Base /\ Read /\ CaptureIsTrue)'
    BY BasicsNext, ReadNext, CaptureNext, LibraryAssumption, FreeAssumption
  <1> QED BY <1>1, <1>2, PTL DEF Spec

-----------------------------------------------------------------------------
(* The rollback armed is what the pedal held                                *)

\* A rollback on its way to be proved, slot after slot, the panel untouched.
Proved ==
    job # None /\ job.op \in {"arm", "restore"} /\ ~touched =>
        /\ job.op = "arm" => start = [slots |-> slots, setting |-> setting]
        /\ job.phase = "list" => job.at = 1
        /\ job.phase = "compare" =>
              /\ NamesOf(slots) = NamesOf(job.rollback.slots)
              /\ \A i \in Index : i < job.at => slots[i] = job.rollback.slots[i]
        /\ job.phase = "compareSetting" => slots = job.rollback.slots
        /\ job.phase \in {"compareSetting", "plan"} => job.at = 1
        /\ job.phase \in {"enable", "plan"} =>
              slots = job.rollback.slots /\ setting = job.rollback.setting

(* How a proof goes on: nothing stored, and each answer as expected. *)
LEMMA ProvingTo ==
    ASSUME LibraryAssumption, job # None, JobOK, Proving, job' # None
    PROVE  /\ UNCHANGED <<slots, setting, touched, start>> /\ job.op \in {"arm", "restore"}
           /\ job.op = "arm" => job \in ArmJobs
           /\ job.op = "restore" => job \in RestoreJobs
           /\ \/ /\ job.phase = "list" /\ job' = [job EXCEPT !.phase = "compare"]
                 /\ NamesOf(slots) = NamesOf(job.rollback.slots)
              \/ /\ job.phase = "compare" /\ job' = Compared
                 /\ \/ job.rollback.slots[job.at] = Free
                    \/ job.rollback.slots[job.at].blob \in ContentOf(job.at)
              \/ /\ job.phase = "compareSetting" /\ setting = job.rollback.setting
                 /\ job' = [job EXCEPT !.phase = IF job.op = "arm" THEN "enable" ELSE "plan"]
  <1>1. job.op \in {"arm", "restore"}
    BY DEF Proving, Verifying, At, VerifyListed, VerifyContents, VerifySetting, EnableWrites
  <1>2. (job.op = "arm" => job \in ArmJobs) /\ (job.op = "restore" => job \in RestoreJobs)
    BY JobKinds DEF JobOK
  <1>3. CASE VerifyListed
    <2>1. /\ UNCHANGED <<slots, setting, touched, start>> /\ job.phase = "list"
          /\ job' = [job EXCEPT !.phase = "compare"] /\ NamesOf(slots) = NamesOf(job.rollback.slots)
      BY <1>3 DEF VerifyListed, Verifying, At, Goes, Ends, Reading, Calling, pedal, ghosts
    <2> QED BY <1>1, <1>2, <2>1
  <1>4. CASE VerifyContents
    <2>1. /\ UNCHANGED <<slots, setting, touched, start>> /\ job.phase = "compare" /\ job' = Compared
          /\ \/ job.rollback.slots[job.at] = Free
             \/ job.rollback.slots[job.at].blob \in ContentOf(job.at)
      BY <1>4 DEF VerifyContents, Verifying, At, Goes, Ends, Reading, Calling, pedal, ghosts
    <2> QED BY <1>1, <1>2, <2>1
  <1>5. CASE VerifySetting
    <2>1. /\ UNCHANGED <<slots, setting, touched, start>> /\ job.phase = "compareSetting"
          /\ setting = job.rollback.setting
          /\ job' = [job EXCEPT !.phase = IF job.op = "arm" THEN "enable" ELSE "plan"]
      BY <1>5 DEF VerifySetting, Verifying, At, Goes, Ends, Reading, Calling, pedal, ghosts
    <2> QED BY <1>1, <1>2, <2>1
  <1>6. CASE EnableWrites
    BY <1>6 DEF EnableWrites, Ends
  <1> QED BY <1>3, <1>4, <1>5, <1>6 DEF Proving

(* A slot with the saved name, and a content found equal, is the saved slot. *)
LEMMA ComparedSlot ==
    ASSUME FreeAssumption, slots \in Tables, NEW saved \in Tables, NEW i \in Index,
           NamesOf(slots) = NamesOf(saved),
           saved[i] = Free \/ saved[i].blob \in ContentOf(i)
    PROVE  slots[i] = saved[i]
  <1>1. slots[i] \in Presets \cup {Free} /\ saved[i] \in Presets \cup {Free}
    BY DEF Tables
  <1>2. NameOf(slots[i]) = NameOf(saved[i])
    BY NamesListed
  <1>3. CASE saved[i] = Free
    BY <1>1, <1>2, <1>3, FreeNames DEF NameOf
  <1>4. CASE saved[i] # Free
    <2>1. slots[i] # Free
      BY <1>1, <1>2, <1>4, FreeNames
    <2>2. slots[i] \in Presets /\ saved[i] \in Presets
      BY <1>1, <1>4, <2>1
    <2>3. slots[i].name = saved[i].name /\ slots[i].blob = saved[i].blob
      BY <1>2, <1>4, <2>1 DEF NameOf, ContentOf
    <2> QED BY <2>2, <2>3 DEF Presets
  <1> QED BY <1>3, <1>4

(* Tables are equal when their slots are. *)
LEMMA SameTable ==
    ASSUME NEW t \in Tables, NEW u \in Tables, \A i \in Index : t[i] = u[i]
    PROVE  t = u
  BY DEF Tables

(* The first places of a restore and of an arming are reached by a proof alone. *)
LEMMA ProvedPlaces ==
    ASSUME LibraryAssumption, FreeAssumption, Base, job # None, Next, ~Panel, job' # None,
           job'.op \in {"arm", "restore"},
           job'.op = "arm" \/ job'.phase \in {"list", "compare", "compareSetting", "enable", "plan"}
    PROVE  Proving
  <1>1. job.op = job'.op
    BY SameCall
  <1>2. CASE job.op = "arm"
    BY <1>2, StepsOf DEF Base
  <1>3. CASE job.op = "restore"
    <2>1. Restoring /\ job \in RestoreJobs /\ JobOK
      BY <1>3, JobKinds DEF Restoring, Base, JobOK
    <2>2. \A p : [job EXCEPT !.phase = p].phase = p
      BY <2>1 DEF RestoreJobs
    <2>a. NextSlot.phase \in {"slot", "final"}
      BY <2>1 DEF NextSlot, RestoreJobs
    <2>b. \A p, c : [job EXCEPT !.phase = p, !.changed = c].phase = p
      BY <2>1 DEF RestoreJobs
    <2>3. CASE Uploading
      <3>1. \/ job' = NextSlot
            \/ \E p \in PutPhases : job' = [job EXCEPT !.phase = p]
        BY <2>3 DEF Uploading, UploadListed, UploadData, UploadCommit, UploadNamed, UploadReadBack,
                    SlotDone, Goes, Ends, PutPhases
      <3>2. job'.phase \in PutPhases \cup {"slot", "final"}
        BY <2>2, <2>a, <3>1
      <3> QED BY <1>1, <1>3, <3>2 DEF PutPhases
    <2>4. CASE ClearCommit \/ ClearListed
      <3>1. job' = NextSlot \/ job' = [job EXCEPT !.phase = "cleared"]
        BY <2>4 DEF ClearCommit, ClearListed, SlotDone, Goes, Ends
      <3> QED BY <1>1, <1>3, <2>2, <2>a, <3>1
    <2>5. CASE SettingWrite \/ SettingRead
      <3>1. job' = [job EXCEPT !.phase = "setRead"]
        BY <2>5 DEF SettingWrite, SettingRead, Goes, Ends
      <3> QED BY <1>1, <1>3, <2>2, <3>1
    <2>6. CASE Restores
      <3>1. ~ArmedPreflight
        BY <1>3 DEF ArmedPreflight, At
      <3>2. CASE RestorePlan
        <4>1. \E c : job' = [job EXCEPT !.phase = "slot", !.changed = c]
          BY <3>2 DEF RestorePlan, Goes, Ends
        <4> QED BY <1>1, <1>3, <2>b, <4>1
      <3>3. CASE RestoreSlot
        <4>1. \/ job' = NextSlot
              \/ job' = [job EXCEPT !.phase = "clear"] \/ job' = [job EXCEPT !.phase = "upload"]
          BY <3>3 DEF RestoreSlot, Goes
        <4> QED BY <1>1, <1>3, <2>2, <2>a, <4>1
      <3>4. CASE RestoreFinal
        <4>1. job' = [job EXCEPT !.phase = "set"]
          BY <3>4 DEF RestoreFinal, Goes, Ends
        <4> QED BY <1>1, <1>3, <2>2, <4>1
      <3> QED BY <2>6, <3>1, <3>2, <3>3, <3>4 DEF Restores
    <2> QED BY <2>1, <2>3, <2>4, <2>5, <2>6, StepsOf
  <1> QED BY <1>1, <1>2, <1>3

(* What is known of the rollback holds on whatever happens next. *)
LEMMA ProvedNext ==
    ASSUME LibraryAssumption, FreeAssumption, Base, Proved, [Next]_vars
    PROVE  Proved'
  <1>a. slots \in Tables /\ JobOK /\ Count \in Nat /\ Count >= 1 /\ Index = 1..Count
    BY DEF Base, TypeOK, LibraryAssumption, Index
  <1> SUFFICES ASSUME job' # None, job'.op \in {"arm", "restore"}, ~touched'
               PROVE  /\ job'.op = "arm" => start' = [slots |-> slots', setting |-> setting']
                      /\ job'.phase = "list" => job'.at = 1
                      /\ job'.phase = "compare" =>
                            /\ NamesOf(slots') = NamesOf(job'.rollback.slots)
                            /\ \A i \in Index : i < job'.at => slots'[i] = job'.rollback.slots[i]
                      /\ job'.phase = "compareSetting" => slots' = job'.rollback.slots
                      /\ job'.phase \in {"compareSetting", "plan"} => job'.at = 1
                      /\ job'.phase \in {"enable", "plan"} =>
                            slots' = job'.rollback.slots /\ setting' = job'.rollback.setting
    BY DEF Proved
  <1>1. CASE UNCHANGED vars
    BY <1>1 DEF vars, pedal, ghosts, Proved
  <1>2. CASE job = None
    <2>1. /\ job'.op \in {"arm", "restore"} => job'.phase = "list" /\ job'.at = 1
          /\ start' = [slots |-> slots', setting |-> setting']
      BY <1>2, JustBegun DEF Fresh
    <2> QED BY <2>1
  <1>3. CASE job # None /\ Next
    <2>1. ~Panel /\ job'.op = job.op
      BY <1>3, SameCall DEF Panel
    <2>2. CASE Proving
      <3>1. /\ UNCHANGED <<slots, setting, touched, start>>
            /\ job.op = "arm" => job \in ArmJobs
            /\ job.op = "restore" => job \in RestoreJobs
        BY <1>a, <1>3, <2>2, ProvingTo
      <3>2. /\ job.op = "arm" => start = [slots |-> slots, setting |-> setting]
            /\ job.phase = "list" => job.at = 1
            /\ job.phase = "compare" =>
                  /\ NamesOf(slots) = NamesOf(job.rollback.slots)
                  /\ \A i \in Index : i < job.at => slots[i] = job.rollback.slots[i]
            /\ job.phase = "compareSetting" => slots = job.rollback.slots /\ job.at = 1
        BY <1>3, <2>1, <3>1 DEF Proved
      <3>3. job.at \in Index /\ job.rollback.slots \in Tables
        BY <2>1, <3>1 DEF ArmJobs, RestoreJobs, Bundles
      <3>4. /\ \A p : LET next == [job EXCEPT !.phase = p]
                      IN next.phase = p /\ next.at = job.at /\ next.rollback = job.rollback
            /\ \A p, i : LET next == [job EXCEPT !.phase = p, !.at = i]
                         IN next.phase = p /\ next.at = i /\ next.rollback = job.rollback
            /\ \A i : LET next == [job EXCEPT !.at = i]
                      IN next.phase = job.phase /\ next.at = i /\ next.rollback = job.rollback
        <4>1. CASE job.op = "arm"
          BY <3>1, <4>1 DEF ArmJobs
        <4>2. CASE job.op = "restore"
          BY <3>1, <4>2 DEF RestoreJobs
        <4> QED BY <2>1, <4>1, <4>2
      <3>5. CASE /\ job.phase = "list" /\ job' = [job EXCEPT !.phase = "compare"]
                 /\ NamesOf(slots) = NamesOf(job.rollback.slots)
        <4>1. job'.phase = "compare" /\ job'.at = 1 /\ job'.rollback = job.rollback
          BY <3>2, <3>4, <3>5
        <4>2. \A i \in Index : ~(i < 1)
          BY <1>a
        <4> QED BY <2>1, <3>1, <3>2, <3>5, <4>1, <4>2
      <3>6. CASE /\ job.phase = "compare" /\ job' = Compared
                 /\ \/ job.rollback.slots[job.at] = Free
                    \/ job.rollback.slots[job.at].blob \in ContentOf(job.at)
        <4>1. slots[job.at] = job.rollback.slots[job.at]
          BY <1>a, <3>2, <3>3, <3>6, ComparedSlot
        <4>2. \A i \in Index : i < job.at \/ i = job.at => slots[i] = job.rollback.slots[i]
          BY <3>2, <3>6, <4>1
        <4>3. CASE job.at = Count
          <5>1. job' = [job EXCEPT !.phase = "compareSetting", !.at = 1]
            BY <3>6, <4>3 DEF Compared
          <5>2. job'.phase = "compareSetting" /\ job'.at = 1 /\ job'.rollback = job.rollback
            BY <3>4, <5>1
          <5>3. \A i \in Index : i < job.at \/ i = job.at
            BY <1>a, <4>3
          <5>4. slots = job.rollback.slots
            BY <1>a, <3>3, <4>2, <5>3, SameTable
          <5> QED BY <2>1, <3>1, <3>2, <5>2, <5>4
        <4>4. CASE job.at # Count
          <5>1. job' = [job EXCEPT !.at = job.at + 1]
            BY <3>6, <4>4 DEF Compared
          <5>2. job'.phase = "compare" /\ job'.at = job.at + 1 /\ job'.rollback = job.rollback
            BY <3>4, <3>6, <5>1
          <5>a. \A i \in Index : i < job.at + 1 => i < job.at \/ i = job.at
            BY <1>a, <3>3
          <5>3. \A i \in Index : i < job'.at => slots[i] = job.rollback.slots[i]
            BY <4>2, <5>2, <5>a
          <5> QED BY <2>1, <3>1, <3>2, <3>6, <5>2, <5>3
        <4> QED BY <4>3, <4>4
      <3>7. CASE /\ job.phase = "compareSetting" /\ setting = job.rollback.setting
                 /\ job' = [job EXCEPT !.phase = IF job.op = "arm" THEN "enable" ELSE "plan"]
        <4>1. /\ job'.phase \in {"enable", "plan"} /\ job'.rollback = job.rollback
              /\ job'.at = job.at
          BY <3>4, <3>7
        <4> QED BY <2>1, <3>1, <3>2, <3>7, <4>1
      <3> QED BY <1>a, <1>3, <2>2, <3>5, <3>6, <3>7, ProvingTo
    <2>3. CASE ~Proving
      BY <1>3, <2>1, <2>3, ProvedPlaces
    <2> QED BY <2>2, <2>3
  <1> QED BY <1>1, <1>2, <1>3

(* An arming that ends done had proved every slot and the setting. *)
LEMMA RollbackNext ==
    ASSUME LibraryAssumption, FreeAssumption, Base, Proved, RollbackIsWhatWasThere, [Next]_vars
    PROVE  RollbackIsWhatWasThere'
  <1> SUFFICES ASSUME result' # None, result'.op = "arm", result'.verdict = "done", ~touched'
               PROVE  result'.job.rollback = start'
    BY DEF RollbackIsWhatWasThere, Returned
  <1>1. CASE UNCHANGED vars
    BY <1>1 DEF vars, ghosts, RollbackIsWhatWasThere, Returned
  <1>2. CASE job # None /\ job' = None /\ Next /\ Alike /\ \E v \in Verdicts : Ends(v)
    <2>1. result'.op = job.op /\ result'.job = job
      BY <1>2 DEF Ends
    <2>2. Proving
      <3>1. Panel \/ Proving
        BY <1>2, <2>1, StepsOf DEF Base
      <3> QED BY <1>2, <3>1 DEF Panel
    <2>a. result = None
      BY <1>2 DEF Base, Basics
    <2>3. EnableWrites
      <3>1. CASE VerifyListed
        BY <2>a, <3>1 DEF VerifyListed, Ends, Goes
      <3>2. CASE VerifyContents
        <4>1. UNCHANGED result \/ Ends("failed")
          BY <3>2 DEF VerifyContents, Goes
        <4> QED BY <2>a, <4>1 DEF Ends
      <3>3. CASE VerifySetting
        BY <2>a, <3>3 DEF VerifySetting, Ends, Goes
      <3> QED BY <2>2, <3>1, <3>2, <3>3 DEF Proving
    <2>4. job.op = "arm" /\ job.phase = "enable" /\ UNCHANGED <<touched, start>>
      BY <2>3 DEF EnableWrites, At, Calling, ghosts
    <2>5. job \in ArmJobs
      BY <1>2, <2>4, JobKinds DEF Base, JobOK
    <2>6. job.rollback \in Bundles
      BY <2>5 DEF ArmJobs
    <2>7. /\ start = [slots |-> slots, setting |-> setting]
          /\ slots = job.rollback.slots /\ setting = job.rollback.setting
      BY <1>2, <2>4 DEF Proved
    <2>8. job.rollback = start
      BY <2>6, <2>7 DEF Bundles
    <2> QED BY <2>1, <2>4, <2>8
  <1> QED BY <1>1, <1>2, Resulting DEF Base

(* A bundle armed as the rollback is the pedal as the call found it, content  *)
(* for content, unless the panel stored meanwhile (verify_current_state).     *)
THEOREM RollbackIsWhatWasThereHolds == Spec => []RollbackIsWhatWasThere
  <1>1. Init => Base /\ Proved /\ RollbackIsWhatWasThere
    <2> SUFFICES ASSUME Init PROVE Base /\ Proved /\ RollbackIsWhatWasThere
      OBVIOUS
    <2>1. TypeOK /\ JobOK
      BY InitTyped, LibraryAssumption
    <2>2. Basics
      BY DEF Init, Basics
    <2>3. job = None /\ result = None
      BY DEF Init
    <2> QED BY <2>1, <2>2, <2>3 DEF Base, Proved, RollbackIsWhatWasThere, Returned
  <1>2. /\ Base /\ Proved /\ RollbackIsWhatWasThere
        /\ [Next]_vars
        => (Base /\ Proved /\ RollbackIsWhatWasThere)'
    BY BasicsNext, ProvedNext, RollbackNext, LibraryAssumption, FreeAssumption
  <1> QED BY <1>1, <1>2, PTL DEF Spec

-----------------------------------------------------------------------------
(* What is reported done is done                                            *)

\* An import on its way: committed, it is stored, or was dropped for a name
\* that another slot has had since the call began.
Uploaded ==
    job # None /\ job.op = "import" =>
        /\ job.phase = "committed" =>
              \/ job.put \in held[job.at]
              \/ /\ NameOf(slots[job.at]) # job.put.name
                 /\ \E j \in Index : \E s \in held[j] : NameOf(s) = job.put.name
        /\ job.phase = "readback" => job.put \in held[job.at]

(* A commit the pedal drops is of a name another slot has. *)
LEMMA CommitTaken ==
    ASSUME FreeAssumption, slots \in Tables, DistinctNames(slots), NEW i \in Index, NEW p \in Presets,
           ~DistinctNames([slots EXCEPT ![i] = p])
    PROVE  NameOf(slots[i]) # p.name /\ \E j \in Index : NameOf(slots[j]) = p.name
  <1>1. NameOf(p) = p.name
    BY FreeNames DEF FreeAssumption, NameOf, Presets
  <1>2. ASSUME NameOf(slots[i]) = p.name PROVE FALSE
    BY <1>1, <1>2, ReplacedDistinct
  <1>3. ASSUME \A j \in Index : NameOf(slots[j]) # p.name PROVE FALSE
    BY <1>3, PanelDistinct
  <1> QED BY <1>2, <1>3

(* What an import stores stays known whatever the panel stores. *)
LEMMA UploadedNext ==
    ASSUME LibraryAssumption, FreeAssumption, Base, Uploaded, [Next]_vars
    PROVE  Uploaded'
  <1>a. /\ slots \in Tables /\ held \in Held /\ slots' \in Tables /\ JobOK /\ DistinctNames(slots)
        /\ \A i \in Index : slots[i] \in held[i]
        /\ \A i \in Index : slots'[i] \in held'[i]
    BY BasicsNext, SlotsNext DEF Base, Basics, TypeOK, Held
  <1> SUFFICES ASSUME job' # None, job'.op = "import"
               PROVE  /\ job'.phase = "committed" =>
                            \/ job'.put \in held'[job'.at]
                            \/ /\ NameOf(slots'[job'.at]) # job'.put.name
                               /\ \E j \in Index : \E s \in held'[j] : NameOf(s) = job'.put.name
                      /\ job'.phase = "readback" => job'.put \in held'[job'.at]
    BY DEF Uploaded
  <1>1. CASE UNCHANGED vars
    BY <1>1 DEF vars, pedal, Uploaded
  <1>2. CASE job = None
    BY <1>2, JustBegun DEF Fresh
  <1>3. CASE job # None /\ Next
    <2>1. job.op = "import" /\ (Panel \/ Uploading)
      BY <1>3, SameCall, StepsOf DEF Base
    <2>2. \A i \in Index : held[i] \subseteq held'[i]
      BY <1>3, <1>a, HeldGrows
    <2>3. /\ job \in ImportJobs /\ job.at \in Index /\ job.put \in Presets /\ ~Restoring
          /\ Put = job.put
      BY <1>3, <1>a, <2>1, JobKinds DEF JobOK, ImportJobs, Restoring, Put
    <2>4. /\ job.phase = "committed" =>
                \/ job.put \in held[job.at]
                \/ /\ NameOf(slots[job.at]) # job.put.name
                   /\ \E j \in Index : \E s \in held[j] : NameOf(s) = job.put.name
          /\ job.phase = "readback" => job.put \in held[job.at]
      BY <1>3, <2>1 DEF Uploaded
    <2>5. \A p : LET next == [job EXCEPT !.phase = p]
                 IN next.phase = p /\ next.at = job.at /\ next.put = job.put
      BY <2>3 DEF ImportJobs
    <2>6. CASE Panel
      <3>1. PICK k \in Index, p \in Presets :
              /\ \A s \in UNION {held[j] : j \in Index} : NameOf(s) = p.name => p.name = NameOf(slots[k])
              /\ Stores([slots EXCEPT ![k] = p])
        BY <2>6 DEF Panel
      <3>2. job' = job
        BY <2>6 DEF Panel
      <3>3. NameOf(p) = p.name
        BY FreeNames DEF FreeAssumption, NameOf, Presets
      <3>4. slots'[k] = p /\ \A i \in Index \ {k} : slots'[i] = slots[i]
        BY <1>a, <3>1 DEF Stores, Tables
      <3>5. ASSUME NameOf(slots[job.at]) # job.put.name,
                   \E j \in Index : \E s \in held[j] : NameOf(s) = job.put.name
            PROVE  NameOf(slots'[job.at]) # job.put.name
        <4>1. CASE k = job.at
          BY <3>1, <3>3, <3>4, <3>5, <4>1
        <4>2. CASE k # job.at
          BY <2>3, <3>4, <3>5, <4>2
        <4> QED BY <4>1, <4>2
      <3> QED BY <2>2, <2>3, <2>4, <3>2, <3>5
    <2>7. CASE UploadListed
      <3>1. job' = [job EXCEPT !.phase = "data"]
        BY <2>7 DEF UploadListed, Goes, Ends
      <3> QED BY <2>5, <3>1
    <2>8. CASE UploadData
      <3>1. job' = [job EXCEPT !.phase = "commit"]
        BY <2>8 DEF UploadData, Goes, Ends
      <3> QED BY <2>5, <3>1
    <2>9. CASE UploadCommit
      <3>1. job' = [job EXCEPT !.phase = "committed"] /\ Stores(Unless(Written))
        BY <2>9 DEF UploadCommit, Goes, Ends, Unless, Written
      <3>2. job'.phase = "committed" /\ job'.at = job.at /\ job'.put = job.put
        BY <2>5, <3>1
      <3>3. slots' = Unless(Written)
        BY <3>1 DEF Stores
      <3>4. CASE DistinctNames(Written)
        <4>1. slots'[job.at] = job.put
          BY <1>a, <2>3, <3>3, <3>4 DEF Unless, Written, Tables
        <4> QED BY <1>a, <2>3, <3>2, <4>1
      <3>5. CASE ~DistinctNames(Written)
        <4>1. slots' = slots
          BY <3>3, <3>5 DEF Unless
        <4>2. /\ NameOf(slots[job.at]) # job.put.name
              /\ \E j \in Index : NameOf(slots[j]) = job.put.name
          BY <1>a, <2>3, <3>5, CommitTaken DEF Written
        <4> QED BY <1>a, <3>2, <4>1, <4>2
      <3> QED BY <3>4, <3>5
    <2>10. CASE UploadNamed
      <3>1. /\ job.phase = "committed" /\ job' = [job EXCEPT !.phase = "readback"]
            /\ NameOf(slots[job.at]) = job.put.name
        BY <2>3, <2>10 DEF UploadNamed, Goes, Ends
      <3>2. job'.phase = "readback" /\ job'.at = job.at /\ job'.put = job.put
        BY <2>5, <3>1
      <3> QED BY <2>2, <2>3, <2>4, <3>1, <3>2
    <2>11. CASE UploadReadBack
      BY <2>3, <2>11 DEF UploadReadBack, SlotDone, Ends
    <2> QED BY <2>1, <2>6, <2>7, <2>8, <2>9, <2>10, <2>11 DEF Uploading
  <1> QED BY <1>1, <1>2, <1>3

\* Whether the slot at an index still needs nothing, or is as the restore expects it.
Slotted == {"slot", "clear", "cleared", "upload", "data", "commit", "committed", "readback"}
Awaits(j) == IF job.op = "restore" THEN slots[j] = job.rollback.slots[j]
             ELSE NameOf(slots[j]) = job.names[j]

\* A restore on its way, the panel untouched: the slots before its own are the
\* source's, those after it are what its plan was made for, and a setting that
\* it will not write is the source's already.
Restored ==
    Restoring /\ ~touched =>
        /\ job.op = "restore_armed" /\ job.phase \in {"preflight", "plan"} => job.at = 1
        /\ job.op = "restore_armed" /\ job.phase = "plan" => job.names = NamesOf(slots)
        /\ job.phase \in Slotted => \A j \in Index :
              /\ j < job.at => slots[j] = job.source.slots[j]
              /\ j > job.at \/ (job.phase = "slot" /\ j = job.at) => Awaits(j)
        /\ job.phase = "readback" => NameOf(slots[job.at]) = job.source.slots[job.at].name
        /\ job.phase \in Slotted \cup {"final"} => job.changed \/ setting = job.source.setting
        /\ job.phase \in {"final", "set", "setRead"} => slots = job.source.slots

\* A restore at another of the places of its slot.
Stay(p) == RestoreTo(p, job.at, job.names, job.changed)

(* Where each step of a restore goes once its rollback is proved. *)
LEMMA RestoreSteps ==
    ASSUME LibraryAssumption, job # None, JobOK, Restoring, Next, ~Panel, ~Proving, job' # None
    PROVE  \/ /\ job.phase = "preflight" /\ job.op = "restore_armed" /\ UNCHANGED pedal
              /\ job' = RestoreTo("plan", job.at, NamesOf(slots), job.changed)
           \/ /\ job.phase = "plan" /\ UNCHANGED pedal
              /\ \E c \in BOOLEAN :
                    /\ c <=> (IF job.op = "restore_armed" THEN setting ELSE job.rollback.setting)
                               # job.source.setting
                    /\ job' = RestoreTo("slot", job.at, job.names, c)
           \/ /\ job.phase = "slot" /\ UNCHANGED pedal
              /\ (SameSlot /\ job' = NextSlot) \/ job' = Stay("clear") \/ job' = Stay("upload")
           \/ /\ job.phase = "clear" /\ slots' = Cleared /\ setting' = setting /\ job' = Stay("cleared")
           \/ /\ job.phase = "cleared" /\ UNCHANGED pedal /\ slots[job.at] = Free /\ job' = NextSlot
           \/ job.phase = "upload" /\ UNCHANGED pedal /\ job' = Stay("data")
           \/ job.phase = "data" /\ UNCHANGED pedal /\ job' = Stay("commit")
           \/ /\ job.phase = "commit" /\ slots' = Unless(Written) /\ setting' = setting
              /\ job' = Stay("committed")
           \/ /\ job.phase = "committed" /\ UNCHANGED pedal /\ NameOf(slots[job.at]) = Put.name
              /\ job' = Stay("readback")
           \/ /\ job.phase = "readback" /\ UNCHANGED pedal /\ Put.blob \in ContentOf(job.at)
              /\ job' = NextSlot
           \/ job.phase = "final" /\ UNCHANGED pedal /\ job' = Stay("set")
           \/ job.phase = "set" /\ slots' = slots /\ job' = Stay("setRead")
  <1>a. \A p : [job EXCEPT !.phase = p] = Stay(p)
    BY RestorePlaces DEF Stay
  <1>1. CASE Uploading
    <2>1. CASE UploadListed
      <3>1. job.phase = "upload" /\ UNCHANGED pedal /\ job' = [job EXCEPT !.phase = "data"]
        BY <2>1 DEF UploadListed, Goes, Ends, Reading, pedal
      <3> QED BY <1>a, <3>1
    <2>2. CASE UploadData
      <3>1. job.phase = "data" /\ UNCHANGED pedal /\ job' = [job EXCEPT !.phase = "commit"]
        BY <2>2 DEF UploadData, Goes, Ends, pedal
      <3> QED BY <1>a, <3>1
    <2>3. CASE UploadCommit
      <3>1. /\ job.phase = "commit" /\ slots' = Unless(Written) /\ setting' = setting
            /\ job' = [job EXCEPT !.phase = "committed"]
        BY <2>3 DEF UploadCommit, Goes, Ends, Stores, Unless, Written
      <3> QED BY <1>a, <3>1
    <2>4. CASE UploadNamed
      <3>1. /\ job.phase = "committed" /\ UNCHANGED pedal /\ NameOf(slots[job.at]) = Put.name
            /\ job' = [job EXCEPT !.phase = "readback"]
        BY <2>4 DEF UploadNamed, Goes, Ends, Reading, pedal
      <3> QED BY <1>a, <3>1
    <2>5. CASE UploadReadBack
      BY <2>5 DEF UploadReadBack, SlotDone, Goes, Ends, Reading, pedal
    <2> QED BY <1>1, <2>1, <2>2, <2>3, <2>4, <2>5 DEF Uploading
  <1>2. CASE ClearCommit
    <2>1. /\ job.phase = "clear" /\ slots' = Cleared /\ setting' = setting
          /\ job' = [job EXCEPT !.phase = "cleared"]
      BY <1>2 DEF ClearCommit, Goes, Ends, Stores, Cleared
    <2> QED BY <1>a, <2>1
  <1>3. CASE ClearListed
    BY <1>3 DEF ClearListed, SlotDone, Goes, Ends, Reading, pedal
  <1>4. CASE SettingWrite
    <2>1. job.phase = "set" /\ slots' = slots /\ job' = [job EXCEPT !.phase = "setRead"]
      BY <1>4 DEF SettingWrite, Goes, Ends
    <2> QED BY <1>a, <2>1
  <1>5. CASE SettingRead
    BY <1>5 DEF SettingRead, Ends
  <1>6. CASE ArmedPreflight
    <2>1. /\ job.phase = "preflight" /\ job.op = "restore_armed" /\ UNCHANGED pedal
          /\ job' = [job EXCEPT !.phase = "plan", !.names = NamesOf(slots)]
      BY <1>6 DEF ArmedPreflight, At, Goes, Ends, Reading, pedal
    <2> QED BY <2>1, RestorePlaces
  <1>7. CASE RestorePlan
    <2>1. /\ job.phase = "plan" /\ UNCHANGED pedal
          /\ \E c \in BOOLEAN :
                /\ c <=> (IF job.op = "restore_armed" THEN setting ELSE job.rollback.setting)
                           # job.source.setting
                /\ job' = [job EXCEPT !.phase = "slot", !.changed = c]
      BY <1>7 DEF RestorePlan, Goes, Ends, Reading, pedal
    <2>2. PICK c \in BOOLEAN :
            /\ c <=> (IF job.op = "restore_armed" THEN setting ELSE job.rollback.setting)
                       # job.source.setting
            /\ job' = [job EXCEPT !.phase = "slot", !.changed = c]
      BY <2>1
    <2>3. job' = RestoreTo("slot", job.at, job.names, c)
      BY <2>2, RestorePlaces
    <2> QED BY <2>1, <2>2, <2>3
  <1>8. CASE RestoreSlot
    <2>1. /\ job.phase = "slot" /\ UNCHANGED pedal
          /\ \/ SameSlot /\ job' = NextSlot
             \/ job' = [job EXCEPT !.phase = "clear"] \/ job' = [job EXCEPT !.phase = "upload"]
      BY <1>8 DEF RestoreSlot, Goes, Reading, pedal
    <2> QED BY <1>a, <2>1
  <1>9. CASE RestoreFinal
    <2>1. job.phase = "final" /\ UNCHANGED pedal /\ job' = [job EXCEPT !.phase = "set"]
      BY <1>9 DEF RestoreFinal, Goes, Ends, Reading, pedal
    <2> QED BY <1>a, <2>1
  <1> QED BY <1>1, <1>2, <1>3, <1>4, <1>5, <1>6, <1>7, <1>8, <1>9, StepsOf DEF Restores

(* A restore at another of its places is the same restore. *)
LEMMA RestoreKeeps ==
    ASSUME LibraryAssumption, job # None, JobOK, Restoring
    PROVE  /\ \A p : LET next == Stay(p)
                     IN /\ next.phase = p /\ next.at = job.at /\ next.names = job.names
                        /\ next.changed = job.changed /\ next.source = job.source
                        /\ next.rollback = job.rollback /\ next.op = job.op
           /\ NextSlot.names = job.names /\ NextSlot.changed = job.changed /\ NextSlot.op = job.op
           /\ NextSlot.source = job.source /\ NextSlot.rollback = job.rollback
           /\ job.at = Count => NextSlot.phase = "final"
           /\ job.at # Count => NextSlot.phase = "slot" /\ NextSlot.at = job.at + 1
  <1>1. job \in RestoreJobs
    BY RestoreFields
  <1>2. \A p : LET next == Stay(p)
               IN /\ next.phase = p /\ next.at = job.at /\ next.names = job.names
                  /\ next.changed = job.changed /\ next.source = job.source
                  /\ next.rollback = job.rollback /\ next.op = job.op
    BY <1>1 DEF Stay, RestoreTo, RestoreJobs
  <1>3. CASE job.at = Count
    <2>1. NextSlot = [job EXCEPT !.phase = "final"]
      BY <1>3 DEF NextSlot
    <2> QED BY <1>1, <1>2, <1>3, <2>1 DEF RestoreJobs
  <1>4. CASE job.at # Count
    <2>1. NextSlot = [job EXCEPT !.phase = "slot", !.at = job.at + 1]
      BY <1>4 DEF NextSlot
    <2> QED BY <1>1, <1>2, <1>4, <2>1 DEF RestoreJobs
  <1> QED BY <1>3, <1>4

(* The slot done, the restore knows as much of the next. *)
LEMMA SlotFinished ==
    ASSUME LibraryAssumption, FreeAssumption, Base, Restored, Restoring, ~touched,
           job.phase \in Slotted, UNCHANGED pedal, job' = NextSlot, job' # None,
           slots[job.at] = job.source.slots[job.at]
    PROVE  Restored'
  <1>a. /\ job # None /\ JobOK /\ slots \in Tables /\ job.at \in Index /\ job.source.slots \in Tables
        /\ Count \in Nat /\ Index = 1..Count
    BY RestoreFields DEF Restoring, Base, TypeOK, LibraryAssumption, Index
  <1>b. /\ \A j \in Index : /\ j < job.at => slots[j] = job.source.slots[j]
                            /\ j > job.at => Awaits(j)
        /\ job.changed \/ setting = job.source.setting
    BY DEF Restored
  <1>c. slots' = slots /\ setting' = setting
    BY DEF pedal
  <1>d. /\ job'.names = job.names /\ job'.changed = job.changed /\ job'.op = job.op
        /\ job'.source = job.source /\ job'.rollback = job.rollback
        /\ job.at = Count => job'.phase = "final"
        /\ job.at # Count => job'.phase = "slot" /\ job'.at = job.at + 1
    BY <1>a, RestoreKeeps
  <1>1. CASE job.at = Count
    <2>1. \A j \in Index : j < job.at \/ j = job.at
      BY <1>a, <1>1
    <2>2. slots = job.source.slots
      BY <1>a, <1>b, <2>1, SameTable
    <2> QED BY <1>1, <1>b, <1>c, <1>d, <2>2 DEF Restored, Slotted
  <1>2. CASE job.at # Count
    <2>1. \A j \in Index : /\ j < job.at + 1 => j < job.at \/ j = job.at
                           /\ j > job.at + 1 \/ j = job.at + 1 => j > job.at
      BY <1>a
    <2>2. \A j \in Index : /\ j < job'.at => slots'[j] = job'.source.slots[j]
                           /\ j > job'.at \/ j = job'.at => Awaits(j)
      BY <1>2, <1>b, <1>c, <1>d, <2>1
    <2>3. \A j : Awaits(j)' <=> Awaits(j)
      BY <1>c, <1>d DEF Awaits
    <2> QED BY <1>2, <1>b, <1>c, <1>d, <2>2, <2>3 DEF Restored, Slotted
  <1> QED BY <1>1, <1>2

(* A slot that needs no write is the source's already. *)
LEMMA SameSlotIs ==
    ASSUME LibraryAssumption, FreeAssumption, Base, Restored, Restoring, ~touched,
           job.phase = "slot", SameSlot
    PROVE  slots[job.at] = job.source.slots[job.at]
  <1>a. /\ slots \in Tables /\ job.at \in Index
        /\ job.op \in {"restore", "restore_armed"}
    BY RestoreFields DEF Restoring, Base, TypeOK
  <1>1. Awaits(job.at)
    BY <1>a DEF Restored, Slotted
  <1>2. CASE job.op = "restore"
    BY <1>1, <1>2 DEF Awaits, SameSlot
  <1>3. CASE job.op = "restore_armed"
    <2>1. NameOf(slots[job.at]) = Free /\ job.source.slots[job.at] = Free
      BY <1>1, <1>3 DEF Awaits, SameSlot
    <2>2. slots[job.at] \in Presets \cup {Free}
      BY <1>a DEF Tables
    <2> QED BY <2>1, <2>2, FreeNames
  <1> QED BY <1>a, <1>2, <1>3

(* One that reads back as it was put is the source's. *)
LEMMA ReadBackIs ==
    ASSUME LibraryAssumption, FreeAssumption, Base, Restored, Restoring, ~touched,
           job.phase = "readback", Put.blob \in ContentOf(job.at)
    PROVE  slots[job.at] = job.source.slots[job.at]
  <1>a. slots \in Tables /\ job.at \in Index /\ Put \in Presets /\ Put = job.source.slots[job.at]
    BY RestoreFields, PutTyped DEF Restoring, Base, TypeOK, Put, PutPhases
  <1>1. NameOf(slots[job.at]) = Put.name
    BY <1>a DEF Restored
  <1>2. slots[job.at] \in Presets \cup {Free} /\ Put.name # Free
    BY <1>a DEF Tables, Presets, FreeAssumption
  <1>3. slots[job.at] # Free
    BY <1>1, <1>2 DEF NameOf
  <1>4. slots[job.at] \in Presets /\ slots[job.at].name = Put.name /\ slots[job.at].blob = Put.blob
    BY <1>1, <1>2, <1>3 DEF NameOf, ContentOf
  <1> QED BY <1>a, <1>4 DEF Presets

(* Where the restore writes one slot, what it knows of the others stays. *)
LEMMA SlotStays ==
    ASSUME LibraryAssumption, FreeAssumption, Base, Restored, Restoring, ~touched,
           job.phase \in Slotted, NEW p \in Slotted \ {"slot", "readback"}, job' = Stay(p), job' # None,
           setting' = setting, \A j \in Index \ {job.at} : slots'[j] = slots[j]
    PROVE  Restored'
  <1>a. /\ job # None /\ JobOK /\ job.at \in Index /\ Index = 1..Count /\ Count \in Nat
    BY RestoreFields DEF Restoring, Base, LibraryAssumption, Index
  <1>b. /\ \A j \in Index : /\ j < job.at => slots[j] = job.source.slots[j]
                            /\ j > job.at => Awaits(j)
        /\ job.changed \/ setting = job.source.setting
    BY DEF Restored
  <1>d. /\ job'.phase = p /\ job'.at = job.at /\ job'.names = job.names /\ job'.changed = job.changed
        /\ job'.source = job.source /\ job'.rollback = job.rollback /\ job'.op = job.op
    BY <1>a, RestoreKeeps
  <1>1. \A j \in Index : j < job.at \/ j > job.at => j \in Index \ {job.at}
    BY <1>a
  <1>2. \A j \in Index \ {job.at} : Awaits(j)' <=> Awaits(j)
    BY <1>d DEF Awaits
  <1>3. \A j \in Index : /\ j < job.at => slots'[j] = job.source.slots[j]
                         /\ j > job.at => Awaits(j)'
    BY <1>b, <1>1, <1>2
  <1> QED BY <1>b, <1>d, <1>3 DEF Restored, Slotted

(* What a restore knows of the pedal holds on whatever happens next. *)
LEMMA RestoredNext ==
    ASSUME LibraryAssumption, FreeAssumption, Base, Proved, Restored, [Next]_vars
    PROVE  Restored'
  <1>a. slots \in Tables /\ JobOK
    BY DEF Base, TypeOK
  <1> SUFFICES ASSUME job' # None, Restoring', ~touched'
               PROVE  Restored'
    BY DEF Restored, Restoring
  <1>b. job'.op \in {"restore", "restore_armed"}
    BY DEF Restoring
  <1>1. CASE UNCHANGED vars
    BY <1>1 DEF vars, pedal, ghosts, Restored, Restoring, Awaits
  <1>2. CASE job = None
    <2>1. /\ job'.op = "restore" => job'.phase = "list"
          /\ job'.op = "restore_armed" => job'.phase = "preflight" /\ job'.at = 1
      BY <1>b, <1>2, JustBegun DEF Fresh
    <2> QED BY <1>b, <2>1 DEF Restored, Slotted
  <1>3. CASE job # None /\ Next
    <2>1. ~Panel /\ job'.op = job.op /\ Restoring
      BY <1>b, <1>3, SameCall DEF Panel, Restoring
    <2>2. ~touched
      <3>1. ~Asked /\ ~Reconnect
        BY <1>3 DEF Asked, Capture, Arm, Import, Rename, Clear, SetSetting, Move, Restore,
                    RestoreArmed, Writing, Begin, Reconnect
      <3>2. Alike
        BY <1>3, <2>1, <3>1, CallSteps
      <3> QED BY <3>2 DEF Alike
    <2>3. CASE Proving
      <3>1. /\ job.op = "restore" /\ job'.phase \in {"compare", "compareSetting", "plan"}
        <4>1. job.op = "restore"
          BY <1>a, <1>3, <2>1, <2>3, ProvingTo DEF Restoring
        <4>2. job \in RestoreJobs
          BY <2>1, <1>3, <1>a, RestoreFields
        <4>3. job' = Compared => job'.phase \in {"compareSetting", job.phase}
          BY <4>2 DEF Compared, RestoreJobs
        <4>4. \A p : [job EXCEPT !.phase = p].phase = p
          BY <4>2 DEF RestoreJobs
        <4> QED BY <1>a, <1>3, <2>3, <4>1, <4>3, <4>4, ProvingTo
      <3> QED BY <2>1, <3>1 DEF Restored, Slotted
    <2>4. CASE ~Proving
      <3>a. /\ \A p : LET next == Stay(p)
                      IN /\ next.phase = p /\ next.at = job.at /\ next.names = job.names
                         /\ next.changed = job.changed /\ next.source = job.source
                         /\ next.rollback = job.rollback /\ next.op = job.op
            /\ job \in RestoreJobs /\ job.at \in Index
        BY <1>a, <1>3, <2>1, RestoreKeeps, RestoreFields
      <3>1. CASE /\ job.phase = "preflight" /\ job.op = "restore_armed" /\ UNCHANGED pedal
                 /\ job' = RestoreTo("plan", job.at, NamesOf(slots), job.changed)
        <4>1. /\ job'.phase = "plan" /\ job'.at = job.at /\ job'.names = NamesOf(slots)
          BY <3>a, <3>1 DEF RestoreTo, RestoreJobs
        <4>2. job.at = 1 /\ slots' = slots
          BY <2>1, <2>2, <3>1 DEF Restored, pedal
        <4> QED BY <4>1, <4>2 DEF Restored, Slotted
      <3>2. ASSUME job.phase = "plan", UNCHANGED pedal, NEW c \in BOOLEAN,
                   c <=> (IF job.op = "restore_armed" THEN setting ELSE job.rollback.setting)
                           # job.source.setting,
                   job' = RestoreTo("slot", job.at, job.names, c)
            PROVE  Restored'
        <4>1. /\ job'.phase = "slot" /\ job'.at = job.at /\ job'.names = job.names
              /\ job'.changed = c /\ job'.source = job.source /\ job'.rollback = job.rollback
              /\ job'.op = job.op
          BY <3>a, <3>2 DEF RestoreTo, RestoreJobs
        <4>2. slots' = slots /\ setting' = setting
          BY <3>2 DEF pedal
        <4>3. /\ job.at = 1
              /\ job.op = "restore" => slots = job.rollback.slots /\ setting = job.rollback.setting
              /\ job.op = "restore_armed" => job.names = NamesOf(slots)
          BY <1>3, <2>1, <2>2, <3>2 DEF Restored, Proved, Restoring
        <4>4. \A j \in Index : Awaits(j)'
          <5>1. CASE job.op = "restore"
            BY <4>1, <4>2, <4>3, <5>1 DEF Awaits
          <5>2. CASE job.op = "restore_armed"
            BY <1>a, <4>1, <4>2, <4>3, <5>2, NamesListed DEF Awaits
          <5> QED BY <2>1, <5>1, <5>2 DEF Restoring
        <4>5. \A j \in Index : ~(j < job'.at)
          BY <4>1, <4>3 DEF Index
        <4>6. job'.changed \/ setting' = job'.source.setting
          BY <2>1, <3>2, <4>1, <4>2, <4>3 DEF Restoring
        <4> QED BY <4>1, <4>4, <4>5, <4>6 DEF Restored, Slotted
      <3>3. CASE /\ job.phase = "slot" /\ UNCHANGED pedal
                 /\ (SameSlot /\ job' = NextSlot) \/ job' = Stay("clear") \/ job' = Stay("upload")
        <4>1. CASE SameSlot /\ job' = NextSlot
          BY <2>1, <2>2, <3>3, <4>1, SameSlotIs, SlotFinished DEF Slotted
        <4>2. CASE job' = Stay("clear")
          BY <2>1, <2>2, <3>3, <4>2, SlotStays DEF Slotted, pedal
        <4>3. CASE job' = Stay("upload")
          BY <2>1, <2>2, <3>3, <4>3, SlotStays DEF Slotted, pedal
        <4> QED BY <3>3, <4>1, <4>2, <4>3
      <3>4. CASE job.phase = "clear" /\ slots' = Cleared /\ setting' = setting /\ job' = Stay("cleared")
        <4>1. \A j \in Index \ {job.at} : slots'[j] = slots[j]
          BY <1>a, <3>4 DEF Cleared, Tables
        <4> QED BY <2>1, <2>2, <3>4, <4>1, SlotStays DEF Slotted
      <3>5. CASE /\ job.phase = "cleared" /\ UNCHANGED pedal /\ slots[job.at] = Free
                 /\ job' = NextSlot
        <4>1. job.source.slots[job.at] = Free
          BY <1>a, <1>3, <2>1, <3>5, WritingPlaces
        <4> QED BY <2>1, <2>2, <3>5, <4>1, SlotFinished DEF Slotted
      <3>6. CASE job.phase = "upload" /\ UNCHANGED pedal /\ job' = Stay("data")
        BY <2>1, <2>2, <3>6, SlotStays DEF Slotted, pedal
      <3>7. CASE job.phase = "data" /\ UNCHANGED pedal /\ job' = Stay("commit")
        BY <2>1, <2>2, <3>7, SlotStays DEF Slotted, pedal
      <3>8. CASE /\ job.phase = "commit" /\ slots' = Unless(Written) /\ setting' = setting
                 /\ job' = Stay("committed")
        <4>1. \A j \in Index \ {job.at} : slots'[j] = slots[j]
          BY <1>a, <3>8 DEF Unless, Written, Tables
        <4> QED BY <2>1, <2>2, <3>8, <4>1, SlotStays DEF Slotted
      <3>9. CASE /\ job.phase = "committed" /\ UNCHANGED pedal /\ NameOf(slots[job.at]) = Put.name
                 /\ job' = Stay("readback")
        <4>1. /\ job'.phase = "readback" /\ job'.at = job.at /\ job'.names = job.names
              /\ job'.changed = job.changed /\ job'.source = job.source
              /\ job'.rollback = job.rollback /\ job'.op = job.op
          BY <3>a, <3>9
        <4>2. slots' = slots /\ setting' = setting
          BY <3>9 DEF pedal
        <4>3. \A j : Awaits(j)' <=> Awaits(j)
          BY <4>1, <4>2 DEF Awaits
        <4>4. /\ \A j \in Index : /\ j < job.at => slots[j] = job.source.slots[j]
                                  /\ j > job.at => Awaits(j)
              /\ job.changed \/ setting = job.source.setting
          BY <2>1, <2>2, <3>9 DEF Restored, Slotted
        <4>5. NameOf(slots[job.at]) = job.source.slots[job.at].name
          BY <2>1, <3>9 DEF Put
        <4> QED BY <4>1, <4>2, <4>3, <4>4, <4>5 DEF Restored, Slotted
      <3>10. CASE /\ job.phase = "readback" /\ UNCHANGED pedal /\ Put.blob \in ContentOf(job.at)
                  /\ job' = NextSlot
        BY <2>1, <2>2, <3>10, ReadBackIs, SlotFinished DEF Slotted
      <3>11. CASE job.phase = "final" /\ UNCHANGED pedal /\ job' = Stay("set")
        <4>1. job'.phase = "set" /\ job'.source = job.source /\ slots' = slots
          BY <3>a, <3>11 DEF pedal
        <4>2. slots = job.source.slots
          BY <2>1, <2>2, <3>11 DEF Restored
        <4> QED BY <4>1, <4>2 DEF Restored, Slotted
      <3>12. CASE job.phase = "set" /\ slots' = slots /\ job' = Stay("setRead")
        <4>1. job'.phase = "setRead" /\ job'.source = job.source /\ slots' = slots
          BY <3>a, <3>12
        <4>2. slots = job.source.slots
          BY <2>1, <2>2, <3>12 DEF Restored
        <4> QED BY <4>1, <4>2 DEF Restored, Slotted
      <3> QED BY <1>a, <1>3, <2>1, <2>4, <3>1, <3>2, <3>3, <3>4, <3>5, <3>6, <3>7, <3>8, <3>9,
                 <3>10, <3>11, <3>12, RestoreSteps
    <2> QED BY <2>3, <2>4
  <1> QED BY <1>1, <1>2, <1>3

(* How a call that reports a restore, or an import, done has ended. *)
LEMMA DoneBy ==
    ASSUME Base, job # None, Next, job' = None, result' # None, result'.verdict = "done"
    PROVE  /\ Restoring => /\ UNCHANGED pedal
                           /\ \/ job.phase = "final" /\ ~job.changed
                              \/ job.phase = "setRead" /\ setting = job.source.setting
           /\ job.op = "import" => job.phase = "readback" /\ UNCHANGED held
  <1>a. /\ ~UNCHANGED result /\ ~Panel /\ JobOK /\ ~Ends("failed")
        /\ job.op = "import" => ~Restoring
    BY DEF Base, Basics, Panel, Ends, Restoring
  <1>1. ASSUME Restoring
        PROVE  /\ UNCHANGED pedal
               /\ \/ job.phase = "final" /\ ~job.changed
                  \/ job.phase = "setRead" /\ setting = job.source.setting
    <2>0. job.op # "arm"
      BY <1>1 DEF Restoring
    <2>1. CASE Proving
      <3>1. ~EnableWrites
        BY <2>0 DEF EnableWrites, At
      <3>2. CASE VerifyListed
        <4>1. UNCHANGED result \/ Ends("failed")
          BY <3>2, <1>a DEF VerifyListed, Goes
        <4> QED BY <1>a, <4>1
      <3>3. CASE VerifyContents
        <4>1. UNCHANGED result \/ Ends("failed")
          BY <3>3, <1>a DEF VerifyContents, Goes
        <4> QED BY <1>a, <4>1
      <3>4. CASE VerifySetting
        <4>1. UNCHANGED result \/ Ends("failed")
          BY <3>4, <1>a DEF VerifySetting, Goes
        <4> QED BY <1>a, <4>1
      <3> QED BY <2>1, <3>1, <3>2, <3>3, <3>4 DEF Proving
    <2>2. CASE Uploading
      <3>1. CASE UploadListed
        <4>1. UNCHANGED result \/ Ends("failed")
          BY <3>1, <1>a, <1>1 DEF UploadListed, Goes
        <4> QED BY <1>a, <4>1
      <3>2. CASE UploadData
        <4>1. UNCHANGED result \/ Ends("failed")
          BY <3>2, <1>a, <1>1 DEF UploadData, Goes
        <4> QED BY <1>a, <4>1
      <3>3. CASE UploadCommit
        <4>1. UNCHANGED result \/ Ends("failed")
          BY <3>3, <1>a, <1>1 DEF UploadCommit, Goes
        <4> QED BY <1>a, <4>1
      <3>4. CASE UploadNamed
        <4>1. UNCHANGED result \/ Ends("failed")
          BY <3>4, <1>a, <1>1 DEF UploadNamed, Goes
        <4> QED BY <1>a, <4>1
      <3>5. CASE UploadReadBack
        <4>1. UNCHANGED result \/ Ends("failed")
          BY <3>5, <1>a, <1>1 DEF UploadReadBack, SlotDone, Goes
        <4> QED BY <1>a, <4>1
      <3> QED BY <2>2, <3>1, <3>2, <3>3, <3>4, <3>5 DEF Uploading
    <2>3. CASE ClearCommit \/ ClearListed
      <3>1. CASE ClearCommit
        <4>1. UNCHANGED result \/ Ends("failed")
          BY <3>1, <1>a, <1>1 DEF ClearCommit, Goes
        <4> QED BY <1>a, <4>1
      <3>2. CASE ClearListed
        <4>1. UNCHANGED result \/ Ends("failed")
          BY <3>2, <1>a, <1>1 DEF ClearListed, SlotDone, Goes
        <4> QED BY <1>a, <4>1
      <3> QED BY <2>3, <3>1, <3>2
    <2>4. CASE SettingWrite
      <3>1. UNCHANGED result \/ Ends("failed")
        BY <1>1, <2>4 DEF SettingWrite, Goes
      <3> QED BY <1>a, <3>1
    <2>5. CASE SettingRead
      <3>1. /\ job.phase = "setRead" /\ UNCHANGED pedal
            /\ Ends("failed") \/ setting = job.source.setting
        BY <2>5 DEF SettingRead, Reading, pedal
      <3> QED BY <1>a, <3>1
    <2>6. CASE Restores
      <3>1. CASE ArmedPreflight
        <4>1. UNCHANGED result \/ Ends("failed")
          BY <3>1, <1>a DEF ArmedPreflight, Goes
        <4> QED BY <1>a, <4>1
      <3>2. CASE RestorePlan
        <4>1. UNCHANGED result \/ Ends("failed")
          BY <3>2, <1>a DEF RestorePlan, Goes
        <4> QED BY <1>a, <4>1
      <3>3. CASE RestoreSlot
        <4>1. UNCHANGED result \/ Ends("failed")
          BY <3>3, <1>a DEF RestoreSlot, Goes
        <4> QED BY <1>a, <4>1
      <3>4. CASE RestoreFinal
        <4>1. /\ job.phase = "final" /\ UNCHANGED pedal
              /\ UNCHANGED result \/ Ends("failed") \/ ~job.changed
          BY <3>4 DEF RestoreFinal, Goes, Reading, pedal
        <4> QED BY <1>a, <4>1
      <3> QED BY <2>6, <3>1, <3>2, <3>3, <3>4 DEF Restores
    <2> QED BY <1>a, <1>1, <2>1, <2>2, <2>3, <2>4, <2>5, <2>6, StepsOf
  <1>2. ASSUME job.op = "import" PROVE job.phase = "readback" /\ UNCHANGED held
    <2>1. Uploading
      BY <1>a, <1>2, StepsOf
    <2>2. CASE UploadListed
      <3>1. UNCHANGED result \/ Ends("failed")
        BY <2>2, <1>a DEF UploadListed, Goes
      <3> QED BY <1>a, <3>1
    <2>3. CASE UploadData
      <3>1. UNCHANGED result \/ Ends("failed")
        BY <2>3, <1>a DEF UploadData, Goes
      <3> QED BY <1>a, <3>1
    <2>4. CASE UploadCommit
      <3>1. UNCHANGED result \/ Ends("failed")
        BY <2>4, <1>a DEF UploadCommit, Goes
      <3> QED BY <1>a, <3>1
    <2>5. CASE UploadNamed
      <3>1. UNCHANGED result \/ Ends("failed")
        BY <2>5, <1>a DEF UploadNamed, Goes
      <3> QED BY <1>a, <3>1
    <2>6. CASE UploadReadBack
      BY <2>6 DEF UploadReadBack, Reading
    <2> QED BY <2>1, <2>2, <2>3, <2>4, <2>5, <2>6 DEF Uploading
  <1> QED BY <1>1, <1>2

(* What a restore, or an import, reports as done is done. *)
LEMMA ReportNext ==
    ASSUME LibraryAssumption, FreeAssumption, Base, Proved, Uploaded, Restored, ReportIsTrue,
           [Next]_vars
    PROVE  ReportIsTrue'
  <1>1. CASE UNCHANGED vars
    BY <1>1 DEF vars, pedal, ghosts, ReportIsTrue, RestoredIsSource, ImportedIsStored, Returned
  <1>2. CASE job # None /\ job' = None /\ Next /\ Alike /\ result' # None /\ \E v \in Verdicts : Ends(v)
    <2>1. result'.op = job.op /\ result'.job = job
      BY <1>2 DEF Ends
    <2>2. touched' = touched
      BY <1>2 DEF Alike
    <2>3. RestoredIsSource'
      <3> SUFFICES ASSUME result'.op \in {"restore", "restore_armed"}, result'.verdict = "done", ~touched'
                   PROVE  job.source = [slots |-> slots', setting |-> setting']
        BY <2>1 DEF RestoredIsSource, Returned
      <3>1. Restoring
        BY <1>2, <2>1 DEF Restoring
      <3>2. /\ slots' = slots /\ setting' = setting
            /\ \/ job.phase = "final" /\ ~job.changed
               \/ job.phase = "setRead" /\ setting = job.source.setting
        BY <1>2, <3>1, DoneBy DEF pedal
      <3>3. slots = job.source.slots /\ setting = job.source.setting
        BY <2>2, <3>1, <3>2 DEF Restored
      <3>4. job.source \in Bundles
        BY <1>2, <3>1, RestoreFields DEF Base
      <3> QED BY <3>2, <3>3, <3>4 DEF Bundles
    <2>4. ImportedIsStored'
      <3> SUFFICES ASSUME result'.op = "import", result'.verdict = "done"
                   PROVE  job.put \in held'[job.at]
        BY <2>1 DEF ImportedIsStored, Returned
      <3>1. job.phase = "readback" /\ held' = held
        BY <1>2, <2>1, DoneBy
      <3> QED BY <1>2, <2>1, <3>1 DEF Uploaded
    <2> QED BY <2>3, <2>4 DEF ReportIsTrue
  <1>3. CASE ~(result' # None)
    BY <1>3 DEF ReportIsTrue, RestoredIsSource, ImportedIsStored, Returned
  <1> QED BY <1>1, <1>2, <1>3, Resulting DEF Base

(* A restore that reports success leaves the pedal exactly as its source, the *)
(* slots it judged to need no write included, and an upload that reports      *)
(* success is stored (restore_impl, upload_named).                            *)
THEOREM ReportIsTrueHolds == Spec => []ReportIsTrue
  <1>1. Init => Base /\ Proved /\ Uploaded /\ Restored /\ ReportIsTrue
    <2> SUFFICES ASSUME Init PROVE Base /\ Proved /\ Uploaded /\ Restored /\ ReportIsTrue
      OBVIOUS
    <2>1. TypeOK /\ JobOK
      BY InitTyped, LibraryAssumption
    <2>2. Basics
      BY DEF Init, Basics
    <2>3. job = None /\ result = None
      BY DEF Init
    <2> QED BY <2>1, <2>2, <2>3 DEF Base, Proved, Uploaded, Restored, Restoring, ReportIsTrue,
               RestoredIsSource, ImportedIsStored, Returned
  <1>2. /\ Base /\ Proved /\ Uploaded /\ Restored /\ ReportIsTrue
        /\ [Next]_vars
        => (Base /\ Proved /\ Uploaded /\ Restored /\ ReportIsTrue)'
    BY BasicsNext, ProvedNext, UploadedNext, RestoredNext, ReportNext, LibraryAssumption,
       FreeAssumption
  <1> QED BY <1>1, <1>2, PTL DEF Spec

-----------------------------------------------------------------------------
(* A move is whole                                                          *)

\* Where the slot being moved is after so many swaps, and the list then.
Reached(j, k) == IF j.from < j.to THEN j.from + k ELSE j.from - k
After(k) == Moved(start.slots, job.from, Reached(job, k))

\* The session is lost, or so many requests have failed.
Faulty(n) == ~online \/ faults >= n

\* A move on its way, the panel untouched: the list is as so many swaps leave
\* it, unless a second request failed while the swaps were being reversed.
Swapping ==
    job # None /\ job.op = "move" /\ ~touched =>
        /\ job.phase = "look" \/ job.back => Faulty(1)
        /\ \A i \in Index : \E j \in Index : slots[i] = start.slots[j]
        /\ job.phase = "list" => slots = start.slots
        /\ job.phase # "list" => job.before = NamesOf(start.slots)
        /\ job.phase # "list" /\ ~job.back => job.names = NamesOf(After(Len(job.done)))
        /\ job.phase \in {"swap", "exchange", "final"} =>
              (job.back /\ Faulty(2)) \/ slots = After(Len(job.done))
        /\ job.phase = "verify" => Faulty(2) \/ slots = start.slots
        /\ job.phase = "swapped" =>
              /\ \/ job.back /\ Faulty(2)
                 \/ slots = After(IF job.back THEN Len(job.done) - 1 ELSE Len(job.done) + 1)
              /\ NameOf(slots[Pair[1]]) = job.found[Pair[2]]
              /\ NameOf(slots[Pair[2]]) = job.found[Pair[1]]
        /\ job.phase = "look" => slots = After(Len(job.done)) \/ slots = After(Len(job.done) + 1)
        /\ job.phase = "exchange" => job.found = NamesOf(slots)

(* A slot moved nowhere leaves the list as it is. *)
LEMMA MovedNowhere ==
    ASSUME NEW t \in Tables, NEW f \in Index
    PROVE  Moved(t, f, f) = t
  BY DEF Moved, Tables, Index

(* A list with a slot moved holds the slots it held. *)
LEMMA MovedTable ==
    ASSUME LibraryAssumption, NEW t \in Tables, NEW f \in Index, NEW r \in Index
    PROVE  /\ Moved(t, f, r) \in Tables
           /\ \A i \in Index : \E j \in Index : Moved(t, f, r)[i] = t[j]
  <1>a. /\ Index = 1..Count /\ Count \in Nat /\ f \in 1..Count /\ r \in 1..Count
        /\ DOMAIN t = Index /\ \A i \in Index : t[i] \in Presets \cup {Free}
    BY DEF Index, LibraryAssumption, Tables
  <1>1. \A i \in Index : \E j \in Index : Moved(t, f, r)[i] = t[j]
    <2> TAKE i \in Index
    <2>1. CASE i = r
      BY <1>a, <2>1 DEF Moved
    <2>2. CASE i # r /\ f < r /\ i \in f..(r - 1)
      <3>1. i + 1 \in Index
        BY <1>a, <2>2
      <3>2. Moved(t, f, r)[i] = t[i + 1]
        BY <1>a, <2>2 DEF Moved
      <3> QED BY <3>1, <3>2
    <2>3. CASE i # r /\ ~(f < r /\ i \in f..(r - 1)) /\ r < f /\ i \in (r + 1)..f
      <3>1. i - 1 \in Index
        BY <1>a, <2>3
      <3>2. Moved(t, f, r)[i] = t[i - 1]
        BY <1>a, <2>3 DEF Moved
      <3> QED BY <3>1, <3>2
    <2>4. CASE i # r /\ ~(f < r /\ i \in f..(r - 1)) /\ ~(r < f /\ i \in (r + 1)..f)
      <3>1. Moved(t, f, r)[i] = t[i]
        BY <1>a, <2>4 DEF Moved
      <3> QED BY <3>1
    <2> QED BY <2>1, <2>2, <2>3, <2>4
  <1>2. Moved(t, f, r) = [i \in Index |-> Moved(t, f, r)[i]]
    BY <1>a DEF Moved
  <1>3. \A i \in Index : Moved(t, f, r)[i] \in Presets \cup {Free}
    BY <1>a, <1>1
  <1> QED BY <1>1, <1>2, <1>3 DEF Tables

(* A slot moved one further up is one more swap. *)
LEMMA MovedUp ==
    ASSUME LibraryAssumption, NEW t \in Tables, NEW f \in Index, NEW r \in Index, f <= r,
           r + 1 \in Index
    PROVE  Exchanged(Moved(t, f, r), <<r, r + 1>>) = Moved(t, f, r + 1)
  <1> DEFINE a == Moved(t, f, r)
             b == Moved(t, f, r + 1)
  <1>a. /\ Index = 1..Count /\ Count \in Nat /\ f \in 1..Count /\ r \in 1..Count /\ DOMAIN t = Index
    BY DEF Index, LibraryAssumption, Tables
  <1>1. a[r] = t[f] /\ a[r + 1] = t[r + 1] /\ b[r + 1] = t[f]
    BY <1>a DEF Moved
  <1>2. b[r] = t[r + 1]
    BY <1>a DEF Moved
  <1>3. \A i \in Index : i # r /\ i # r + 1 => a[i] = b[i]
    <2> SUFFICES ASSUME NEW i \in Index, i # r, i # r + 1 PROVE a[i] = b[i]
      OBVIOUS
    <2>1. CASE f <= i /\ i < r
      BY <1>a, <2>1 DEF Moved
    <2>2. CASE ~(f <= i /\ i < r)
      BY <1>a, <2>2 DEF Moved
    <2> QED BY <2>1, <2>2
  <1>4. a \in Tables /\ b \in Tables
    BY MovedTable
  <1> HIDE DEF a, b
  <1>5. Exchanged(a, <<r, r + 1>>) = [a EXCEPT ![r] = a[r + 1], ![r + 1] = a[r]]
    BY DEF Exchanged
  <1>6. [a EXCEPT ![r] = a[r + 1], ![r + 1] = a[r]] = b
    BY <1>a, <1>1, <1>2, <1>3, <1>4 DEF Tables
  <1> QED BY <1>5, <1>6 DEF a, b

(* And one moved one further down. *)
LEMMA MovedDown ==
    ASSUME LibraryAssumption, NEW t \in Tables, NEW f \in Index, NEW r \in Index, r <= f,
           r - 1 \in Index
    PROVE  Exchanged(Moved(t, f, r), <<r, r - 1>>) = Moved(t, f, r - 1)
  <1> DEFINE a == Moved(t, f, r)
             b == Moved(t, f, r - 1)
  <1>a. /\ Index = 1..Count /\ Count \in Nat /\ f \in 1..Count /\ r \in 1..Count /\ DOMAIN t = Index
    BY DEF Index, LibraryAssumption, Tables
  <1>1. a[r] = t[f] /\ a[r - 1] = t[r - 1] /\ b[r - 1] = t[f]
    BY <1>a DEF Moved
  <1>2. b[r] = t[r - 1]
    BY <1>a DEF Moved
  <1>3. \A i \in Index : i # r /\ i # r - 1 => a[i] = b[i]
    <2> SUFFICES ASSUME NEW i \in Index, i # r, i # r - 1 PROVE a[i] = b[i]
      OBVIOUS
    <2>1. CASE r < i /\ i <= f
      BY <1>a, <2>1 DEF Moved
    <2>2. CASE ~(r < i /\ i <= f)
      BY <1>a, <2>2 DEF Moved
    <2> QED BY <2>1, <2>2
  <1>4. a \in Tables /\ b \in Tables
    BY MovedTable
  <1> HIDE DEF a, b
  <1>5. Exchanged(a, <<r, r - 1>>) = [a EXCEPT ![r] = a[r - 1], ![r - 1] = a[r]]
    BY DEF Exchanged
  <1>6. [a EXCEPT ![r] = a[r - 1], ![r - 1] = a[r]] = b
    BY <1>a, <1>1, <1>2, <1>3, <1>4 DEF Tables
  <1> QED BY <1>5, <1>6 DEF a, b

(* A swap done twice is undone. *)
LEMMA ExchangedTwice ==
    ASSUME NEW t \in Tables, NEW p \in Pairs
    PROVE  Exchanged(Exchanged(t, p), p) = t
  BY DEF Exchanged, Tables, Pairs

(* Names are swapped as their slots are. *)
LEMMA ExchangedNamesOf ==
    ASSUME NEW t \in Tables, NEW p \in Pairs
    PROVE  NamesOf(Exchanged(t, p)) = Exchanged(NamesOf(t), p)
  BY DEF Exchanged, Tables, Pairs, NamesOf

(* A list of slots no two of which share a name is known by its names. *)
LEMMA SameNames ==
    ASSUME FreeAssumption, NEW s \in Tables, DistinctNames(s), NEW t \in Tables, NEW u \in Tables,
           \A i \in Index : \E j \in Index : t[i] = s[j],
           \A i \in Index : \E j \in Index : u[i] = s[j],
           NamesOf(t) = NamesOf(u)
    PROVE  t = u
  <1>1. ASSUME NEW i \in Index PROVE t[i] = u[i]
    <2>1. PICK j \in Index, k \in Index : t[i] = s[j] /\ u[i] = s[k]
      BY <1>1
    <2>2. NameOf(s[j]) = NameOf(s[k])
      BY <2>1, NamesListed
    <2>3. s[j] \in Presets \cup {Free} /\ s[k] \in Presets \cup {Free} /\ DOMAIN s = Index
      BY <2>1 DEF Tables
    <2>4. CASE s[j] = Free
      BY <2>1, <2>2, <2>3, <2>4, FreeNames
    <2>5. CASE s[j] # Free
      BY <2>1, <2>2, <2>3, <2>5 DEF DistinctNames
    <2> QED BY <2>4, <2>5
  <1> QED BY <1>1, SameTable

(* The lists a move goes through: each one swap from the next, and of the     *)
(* slots it found.                                                            *)
LEMMA AfterSteps ==
    ASSUME LibraryAssumption, job # None, JobOK, job.op = "move", start \in Bundles
    PROVE  /\ After(0) = start.slots
           /\ Reached(job, Span(job)) = job.to
           /\ \A k \in 0..Span(job) :
                 /\ After(k) \in Tables
                 /\ \A i \in Index : \E j \in Index : After(k)[i] = start.slots[j]
           /\ \A k \in 1..Span(job) : /\ Exchanged(After(k - 1), Step(job, k)) = After(k)
                                      /\ Exchanged(After(k), Step(job, k)) = After(k - 1)
                                      /\ Step(job, k) \in Pairs
  <1>a. /\ job \in MoveJobs /\ job.from # job.to /\ job.from \in Index /\ job.to \in Index
        /\ start.slots \in Tables /\ Index = 1..Count /\ Count \in Nat
    BY JobKinds, MoveFields DEF JobOK, Shape, Bundles, Index, LibraryAssumption
  <1>b. /\ job.from \in Nat /\ job.to \in Nat /\ 1 <= job.from /\ job.from <= Count
        /\ 1 <= job.to /\ job.to <= Count
    BY <1>a
  <1>1. After(0) = start.slots
    <2>1. Reached(job, 0) = job.from
      BY <1>b DEF Reached
    <2> QED BY <1>a, <2>1, MovedNowhere DEF After
  <1>2. Reached(job, Span(job)) = job.to /\ Span(job) \in Nat
    BY <1>a, <1>b DEF Reached, Span
  <1>3. \A k \in 0..Span(job) : Reached(job, k) \in Index
    BY <1>a, <1>b DEF Reached, Span
  <1>4. \A k \in 0..Span(job) : /\ After(k) \in Tables
                                /\ \A i \in Index : \E j \in Index : After(k)[i] = start.slots[j]
    <2> TAKE k \in 0..Span(job)
    <2> DEFINE r == Reached(job, k)
    <2>1. r \in Index /\ After(k) = Moved(start.slots, job.from, r)
      BY <1>3 DEF After
    <2> HIDE DEF r
    <2>2. job.from \in Index /\ start.slots \in Tables
      BY <1>a
    <2>3. /\ Moved(start.slots, job.from, r) \in Tables
          /\ \A i \in Index : \E j \in Index : Moved(start.slots, job.from, r)[i] = start.slots[j]
      BY <2>1, <2>2, MovedTable
    <2> QED BY <2>1, <2>3
  <1>5. ASSUME NEW k \in 1..Span(job)
        PROVE  /\ Exchanged(After(k - 1), Step(job, k)) = After(k)
               /\ Exchanged(After(k), Step(job, k)) = After(k - 1)
               /\ Step(job, k) \in Pairs
    <2>0. k \in 0..Span(job) /\ k - 1 \in 0..Span(job) /\ k \in Nat
      BY <1>2
    <2> DEFINE r == Reached(job, k - 1)
    <2>1. r \in Index /\ Reached(job, k) \in Index
      BY <1>3, <2>0
    <2>2. CASE job.from < job.to
      <3>1. r = job.from + (k - 1) /\ Reached(job, k) = job.from + k
        BY <2>2 DEF Reached
      <3>2. /\ Reached(job, k) = r + 1 /\ job.from <= r /\ job.from + k - 1 = r /\ job.from + k = r + 1
        BY <1>b, <2>0, <3>1
      <3>3. Step(job, k) = <<r, r + 1>>
        BY <2>2, <3>2 DEF Step
      <3> HIDE DEF r
      <3>4. Exchanged(Moved(start.slots, job.from, r), <<r, r + 1>>) = Moved(start.slots, job.from, r + 1)
        BY <1>a, <2>1, <3>2, MovedUp
      <3>5. After(k - 1) = Moved(start.slots, job.from, r) /\ After(k) = Moved(start.slots, job.from, r + 1)
        BY <3>2 DEF After, r
      <3>6. <<r, r + 1>> \in Pairs
        BY <2>1, <3>2 DEF Pairs
      <3>7. After(k - 1) \in Tables
        BY <1>4, <2>0
      <3> QED BY <3>3, <3>4, <3>5, <3>6, <3>7, ExchangedTwice
    <2>3. CASE ~(job.from < job.to)
      <3>1. r = job.from - (k - 1) /\ Reached(job, k) = job.from - k
        BY <2>3 DEF Reached
      <3>2. /\ Reached(job, k) = r - 1 /\ r <= job.from /\ job.from - k + 1 = r /\ job.from - k = r - 1
        BY <1>b, <2>0, <3>1
      <3>3. Step(job, k) = <<r, r - 1>>
        BY <2>3, <3>2 DEF Step
      <3> HIDE DEF r
      <3>4. Exchanged(Moved(start.slots, job.from, r), <<r, r - 1>>) = Moved(start.slots, job.from, r - 1)
        BY <1>a, <2>1, <3>2, MovedDown
      <3>5. After(k - 1) = Moved(start.slots, job.from, r) /\ After(k) = Moved(start.slots, job.from, r - 1)
        BY <3>2 DEF After, r
      <3>6. <<r, r - 1>> \in Pairs
        BY <2>1, <3>2 DEF Pairs
      <3>7. After(k - 1) \in Tables
        BY <1>4, <2>0
      <3> QED BY <3>3, <3>4, <3>5, <3>6, <3>7, ExchangedTwice
    <2> QED BY <2>2, <2>3
  <1> QED BY <1>1, <1>2, <1>4, <1>5

(* What a move that goes on is. *)
LEMMA OntoIs ==
    ASSUME job \in MoveJobs, NEW p, NEW f
    PROVE  LET next == Onto(p, f)
           IN /\ next.op = "move" /\ next.phase = p /\ next.todo = job.todo
              /\ next.done = job.done /\ next.back = job.back /\ next.before = job.before
              /\ next.names = job.names /\ next.found = f /\ next.from = job.from /\ next.to = job.to
  BY DEF Onto, MoveTo, MoveJobs

(* What a move being reversed is. *)
LEMMA TakenBackIs ==
    ASSUME job \in MoveJobs, NEW d
    PROVE  LET next == TakenBack(d)
           IN /\ next.op = "move" /\ next.phase = IF d = <<>> THEN "verify" ELSE "swap"
              /\ next.done = d /\ next.back = TRUE /\ next.before = job.before
              /\ next.from = job.from /\ next.to = job.to
  <1> DEFINE p == IF d = <<>> THEN "verify" ELSE "swap"
  <1>1. TakenBack(d) = MoveTo(p, job.todo, d, TRUE, job.before, job.names, job.found)
    BY DEF TakenBack
  <1> HIDE DEF p
  <1>2. LET next == TakenBack(d)
        IN /\ next.op = "move" /\ next.phase = p /\ next.done = d /\ next.back = TRUE
           /\ next.before = job.before /\ next.from = job.from /\ next.to = job.to
    BY <1>1 DEF MoveTo, MoveJobs
  <1> QED BY <1>2 DEF p

(* What a move with one swap more is. *)
LEMMA OnwardIs ==
    ASSUME job \in MoveJobs, Pair \in Pairs
    PROVE  /\ Onward.op = "move" /\ Onward.phase \in {"final", "swap"}
           /\ Onward.done = Append(job.done, Pair) /\ Len(Onward.done) = Len(job.done) + 1
           /\ Onward.back = FALSE /\ Onward.before = job.before
           /\ Onward.names = Exchanged(job.names, Pair)
           /\ Onward.from = job.from /\ Onward.to = job.to
  <1> DEFINE p == IF Len(job.todo) = 1 THEN "final" ELSE "swap"
             d == Append(job.done, Pair)
  <1>1. Onward = MoveTo(p, Tail(job.todo), d, FALSE, job.before, Exchanged(job.names, Pair), job.found)
    BY DEF Onward
  <1>2. p \in {"final", "swap"}
    OBVIOUS
  <1>3. Len(d) = Len(job.done) + 1
    BY MoveFields
  <1> HIDE DEF p, d
  <1>4. /\ Onward.op = "move" /\ Onward.phase = p /\ Onward.done = d /\ Onward.back = FALSE
        /\ Onward.before = job.before /\ Onward.names = Exchanged(job.names, Pair)
        /\ Onward.from = job.from /\ Onward.to = job.to
    BY <1>1 DEF MoveTo, MoveJobs
  <1> QED BY <1>2, <1>3, <1>4 DEF d

(* The lists a move goes through are fixed as it begins. *)
LEMMA AfterKeeps ==
    ASSUME job'.from = job.from, job'.to = job.to, start' = start
    PROVE  \A k : After(k)' = After(k)
  BY DEF After, Reached

(* Failed requests are counted, and a session lost stays lost. *)
LEMMA FaultsCount ==
    ASSUME LibraryAssumption, TypeOK
    PROVE  /\ Errs => Faulty(1)' /\ (Faulty(1) => Faulty(2)')
           /\ Refused \/ Lost \/ UNCHANGED <<online, faults>> =>
                 (Faulty(1) => Faulty(1)') /\ (Faulty(2) => Faulty(2)')
  <1>1. faults \in Nat
    BY DEF TypeOK, LibraryAssumption
  <1> QED BY <1>1 DEF Faulty, Errs, Refused, Lost

(* A swap that fails going forward fails on a request. *)
LEMMA SwapFailed ==
    ASSUME LibraryAssumption, Base, Swapping, job # None, job.op = "move", ~touched, Moving, ~job.back,
           job.phase \in {"swap", "exchange", "swapped"}, job' = Onto("look", job.found)
    PROVE  Errs /\ (slots' = slots \/ (job.phase = "exchange" /\ slots' = Exchanged(slots, Pair)))
  <1>a. /\ job \in MoveJobs /\ Shape(job) /\ Pair \in Pairs
        /\ Pair[1] \in Index /\ Pair[2] \in Index /\ slots \in Tables
    <2>1. job \in MoveJobs /\ Shape(job) /\ slots \in Tables
      BY JobKinds DEF Base, TypeOK, JobOK
    <2>2. Pair \in Pairs
      BY <2>1, PairIs
    <2> QED BY <2>1, <2>2 DEF Pairs
  <1>b. job'.phase = "look"
    BY <1>a, OntoIs
  <1>1. CASE SwapBefore
    <2>1. UNCHANGED pedal /\ (Errs \/ Goes([job EXCEPT !.phase = "exchange", !.found = NamesOf(slots)]))
      BY <1>1 DEF SwapBefore, Reading
    <2>2. [job EXCEPT !.phase = "exchange", !.found = NamesOf(slots)].phase = "exchange"
      BY <1>a DEF MoveJobs
    <2> QED BY <1>b, <2>1, <2>2 DEF Goes, pedal
  <1>2. CASE SwapExchange
    <2>1. [job EXCEPT !.phase = "swapped"].phase = "swapped"
      BY <1>a DEF MoveJobs
    <2>2. job.phase = "exchange" /\ ErrsWriting(Exchanged(slots, Pair))
      BY <1>2, <1>b, <2>1 DEF SwapExchange, At, Goes
    <2> QED BY <2>2 DEF ErrsWriting, Errs, Stores
  <1>3. CASE SwapAfter
    <2> DEFINE now == NamesOf(slots)
               swapped == now[Pair[1]] = job.found[Pair[2]] /\ now[Pair[2]] = job.found[Pair[1]]
    <2>1. UNCHANGED pedal /\ job.phase = "swapped"
      BY <1>3 DEF SwapAfter, Reading, At
    <2>2. swapped
      BY <1>a, <2>1, NamesListed DEF Swapping
    <2>3. (Answered /\ SwapTaken) \/ Errs
      BY <1>3, <2>2 DEF SwapAfter
    <2>4. ~SwapTaken
      <3> DEFINE r == IF Len(job.todo) = 1 THEN "final" ELSE "swap"
      <3>1. SUFFICES ASSUME SwapTaken PROVE FALSE
        OBVIOUS
      <3>2. job' = [job EXCEPT !.done = Append(@, Pair), !.names = Exchanged(@, Pair),
                               !.todo = Tail(@), !.phase = r]
        BY <3>1 DEF SwapTaken, Goes
      <3>3. r # "look"
        OBVIOUS
      <3> HIDE DEF r
      <3>4. job'.phase = r
        BY <1>a, <3>2 DEF MoveJobs
      <3> QED BY <1>b, <3>3, <3>4
    <2> QED BY <2>1, <2>3, <2>4 DEF pedal
  <1>4. CASE MoveListed \/ LookAgain \/ MoveVerify \/ MoveFinal
    BY <1>4 DEF MoveListed, LookAgain, MoveVerify, MoveFinal, At
  <1> QED BY <1>1, <1>2, <1>3, <1>4 DEF Moving

(* What holds of a move wherever it is. *)
LEMMA MoveIs ==
    ASSUME LibraryAssumption, Base, job # None, job.op = "move"
    PROVE  /\ job \in MoveJobs /\ Shape(job) /\ JobOK /\ TypeOK
           /\ slots \in Tables /\ NamesOf(slots) \in NameLists
           /\ start \in Bundles /\ start.slots \in Tables /\ DistinctNames(start.slots)
           /\ job.back \in BOOLEAN /\ job.done \in Seq(Pairs) /\ Len(job.done) \in Nat
           /\ Span(job) \in Nat /\ Len(job.done) <= Span(job)
  <1>1. /\ job \in MoveJobs /\ Shape(job) /\ JobOK /\ TypeOK /\ slots \in Tables /\ start \in Bundles
        /\ DistinctNames(start.slots)
    BY JobKinds DEF Base, TypeOK, JobOK, Basics
  <1>2. /\ job.back \in BOOLEAN /\ job.done \in Seq(Pairs) /\ job.from \in Index /\ job.to \in Index
    BY <1>1, MoveFields
  <1>3. Span(job) \in Nat /\ Len(job.done) \in Nat /\ Len(job.done) <= Span(job)
    BY <1>1, <1>2 DEF Span, Index, Shape
  <1>4. start.slots \in Tables /\ NamesOf(slots) \in NameLists
    BY <1>1, NamesListed DEF Bundles
  <1> QED BY <1>1, <1>2, <1>3, <1>4

(* A swap that failed leaves the list swapped once more, or not. *)
LEMMA SwapLook ==
    ASSUME LibraryAssumption, Base, Swapping, job # None, job.op = "move", ~touched, Moving, Alike,
           ~job.back, job.phase \in {"swap", "exchange", "swapped"}, job' = Onto("look", job.found)
    PROVE  Swapping'
  <1> DEFINE k == Len(job.done)
  <1>a. /\ job \in MoveJobs /\ Shape(job) /\ JobOK /\ TypeOK /\ start \in Bundles /\ k \in Nat
        /\ Span(job) \in Nat
    BY MoveIs
  <1>1. /\ job'.op = "move" /\ job'.phase = "look" /\ job'.done = job.done /\ job'.back = job.back
        /\ job'.before = job.before /\ job'.names = job.names
        /\ job'.from = job.from /\ job'.to = job.to
    BY <1>a, OntoIs
  <1>2. Errs /\ (slots' = slots \/ (job.phase = "exchange" /\ slots' = Exchanged(slots, Pair)))
    BY SwapFailed
  <1>3. Faulty(1)'
    BY <1>a, <1>2, FaultsCount
  <1>4. Pair = Step(job, k + 1) /\ k < Span(job)
    BY <1>a, PairIs
  <1>5. k \in 0..Span(job) /\ k + 1 \in 0..Span(job) /\ k + 1 \in 1..Span(job) /\ (k + 1) - 1 = k
    BY <1>a, <1>4
  <1>b. job.phase \in {"swap", "exchange"} => slots = After(k)
    BY DEF Swapping
  <1>c. job.phase = "swapped" => slots = After(k + 1)
    BY DEF Swapping
  <1>d. job.before = NamesOf(start.slots) /\ job.names = NamesOf(After(k))
    BY DEF Swapping
  <1>e. /\ Exchanged(After(k), Step(job, k + 1)) = After(k + 1)
        /\ \A i \in Index : \E j \in Index : After(k)[i] = start.slots[j]
        /\ \A i \in Index : \E j \in Index : After(k + 1)[i] = start.slots[j]
    BY <1>a, <1>5, AfterSteps
  <1>6. slots' = After(k) \/ slots' = After(k + 1)
    BY <1>2, <1>4, <1>b, <1>c, <1>e
  <1>7. start' = start /\ \A m : After(m)' = After(m)
    BY <1>1, AfterKeeps DEF Alike
  <1>8. Len(job'.done) = k
    BY <1>1
  <1> HIDE DEF k
  <1>9. \A i \in Index : \E j \in Index : slots'[i] = start'.slots[j]
    BY <1>6, <1>7, <1>e
  <1> QED BY <1>1, <1>3, <1>6, <1>7, <1>8, <1>9, <1>d DEF Swapping

(* The names listed before a swap are those of the list. *)
LEMMA SwapOn ==
    ASSUME LibraryAssumption, Base, Swapping, job # None, job.op = "move", ~touched, Alike,
           SwapBefore, job.phase = "swap", job' = Onto("exchange", NamesOf(slots))
    PROVE  Swapping'
  <1>a. /\ job \in MoveJobs /\ TypeOK
    BY MoveIs
  <1>1. /\ job'.op = "move" /\ job'.phase = "exchange" /\ job'.done = job.done /\ job'.back = job.back
        /\ job'.before = job.before /\ job'.names = job.names /\ job'.found = NamesOf(slots)
        /\ job'.from = job.from /\ job'.to = job.to
    BY <1>a, OntoIs
  <1>2. slots' = slots
    BY DEF SwapBefore, Reading, pedal
  <1>3. (Faulty(1) => Faulty(1)') /\ (Faulty(2) => Faulty(2)')
    BY <1>a, FaultsCount DEF Alike
  <1>4. start' = start /\ \A m : After(m)' = After(m)
    BY <1>1, AfterKeeps DEF Alike
  <1>5. Len(job'.done) = Len(job.done)
    BY <1>1
  <1> QED BY <1>1, <1>2, <1>3, <1>4, <1>5 DEF Swapping

(* An exchange answered is one swap more, or one taken back. *)
LEMMA SwapDone ==
    ASSUME LibraryAssumption, Base, Swapping, job # None, job.op = "move", ~touched, Alike,
           SwapExchange, job.phase = "exchange", job' = Onto("swapped", job.found),
           job' # None
    PROVE  Swapping'
  <1> DEFINE k == Len(job.done)
  <1>a. /\ job \in MoveJobs /\ Shape(job) /\ JobOK /\ TypeOK /\ start \in Bundles /\ k \in Nat
        /\ Span(job) \in Nat /\ k <= Span(job) /\ slots \in Tables /\ job.back \in BOOLEAN
    BY MoveIs
  <1>1. /\ job'.op = "move" /\ job'.phase = "swapped" /\ job'.done = job.done /\ job'.back = job.back
        /\ job'.before = job.before /\ job'.names = job.names /\ job'.found = job.found
        /\ job'.todo = job.todo /\ job'.from = job.from /\ job'.to = job.to
    BY <1>a, OntoIs
  <1>2. slots' = Exchanged(slots, Pair)
    <2>1. [job EXCEPT !.phase = "look"].phase = "look"
      BY <1>a DEF MoveJobs
    <2>2. ~SwapFails
      BY <1>1, <2>1 DEF SwapFails, Ends, Goes
    <2> QED BY <2>2 DEF SwapExchange, Stores
  <1>3. (Faulty(1) => Faulty(1)') /\ (Faulty(2) => Faulty(2)')
    BY <1>a, FaultsCount DEF Alike
  <1>4. start' = start /\ \A m : After(m)' = After(m)
    BY <1>1, AfterKeeps DEF Alike
  <1>5. Len(job'.done) = k /\ Pair' = Pair
    BY <1>1 DEF Pair
  <1>6. /\ Pair \in Pairs
        /\ job.back => Pair = Step(job, k) /\ k >= 1
        /\ ~job.back => Pair = Step(job, k + 1) /\ k < Span(job)
    BY <1>a, PairIs
  <1>7. /\ job.back => k \in 1..Span(job)
        /\ ~job.back => k + 1 \in 1..Span(job) /\ (k + 1) - 1 = k
    BY <1>a, <1>6
  <1>8. (job.back /\ Faulty(2)) \/ slots = After(k)
    BY DEF Swapping
  <1>9. ~job.back => slots' = After(k + 1)
    <2>1. ~job.back => Exchanged(After(k), Step(job, k + 1)) = After(k + 1)
      BY <1>a, <1>7, AfterSteps
    <2> QED BY <1>2, <1>6, <1>8, <2>1
  <1>10. job.back => Faulty(2) \/ slots' = After(k - 1)
    <2>1. job.back => Exchanged(After(k), Step(job, k)) = After(k - 1)
      BY <1>a, <1>7, AfterSteps
    <2> QED BY <1>2, <1>6, <1>8, <2>1
  <1>11. Pair[1] \in Index /\ Pair[2] \in Index
    BY <1>6 DEF Pairs
  <1>12. /\ slots'[Pair[1]] = slots[Pair[2]] /\ slots'[Pair[2]] = slots[Pair[1]]
         /\ \A i \in Index : i # Pair[1] /\ i # Pair[2] => slots'[i] = slots[i]
    BY <1>a, <1>2, <1>11 DEF Exchanged, Tables
  <1>13. job.found[Pair[1]] = NameOf(slots[Pair[1]]) /\ job.found[Pair[2]] = NameOf(slots[Pair[2]])
    BY <1>a, <1>11, NamesListed DEF Swapping
  <1>14. \A i \in Index : \E j \in Index : slots'[i] = start'.slots[j]
    <2>1. \A i \in Index : \E j \in Index : slots[i] = start.slots[j]
      BY DEF Swapping
    <2> QED BY <1>4, <1>11, <1>12, <2>1
  <1>b. /\ job.back => Faulty(1)
        /\ job.before = NamesOf(start.slots) /\ (~job.back => job.names = NamesOf(After(k)))
    BY DEF Swapping
  <1> HIDE DEF k
  <1>15. (job.back /\ Faulty(2)) \/ slots' = After(IF job.back THEN k - 1 ELSE k + 1)
    BY <1>9, <1>10
  <1> QED BY <1>1, <1>3, <1>4, <1>5, <1>12, <1>13, <1>14, <1>15, <1>b DEF Swapping

(* A swap taken back is one less. *)
LEMMA SwapBack ==
    ASSUME LibraryAssumption, Base, Swapping, job # None, job.op = "move", ~touched, Alike,
           SwapAfter, job.phase = "swapped", job.back, job' = TakenBack(Front(job.done))
    PROVE  Swapping'
  <1> DEFINE k == Len(job.done)
             d == Front(job.done)
  <1>a. /\ job \in MoveJobs /\ Shape(job) /\ JobOK /\ TypeOK /\ start \in Bundles /\ k \in Nat
        /\ job.done \in Seq(Pairs)
    BY MoveIs
  <1>1. /\ job'.op = "move" /\ job'.phase = IF d = <<>> THEN "verify" ELSE "swap"
        /\ job'.done = d /\ job'.back = TRUE /\ job'.before = job.before
        /\ job'.from = job.from /\ job'.to = job.to
    BY <1>a, TakenBackIs
  <1>2. slots' = slots
    BY DEF SwapAfter, Reading, pedal
  <1>3. (Faulty(1) => Faulty(1)') /\ (Faulty(2) => Faulty(2)')
    BY <1>a, FaultsCount DEF Alike
  <1>4. start' = start /\ \A m : After(m)' = After(m)
    BY <1>1, AfterKeeps DEF Alike
  <1>5. k >= 1
    BY <1>a, PairIs
  <1>6. d \in Seq(Pairs) /\ Len(d) = k - 1
    BY <1>a, <1>5 DEF Front
  <1>7. d = <<>> => Len(d) = 0
    BY <1>6, EmptyLen
  <1>8. After(0) = start.slots
    BY <1>a, AfterSteps
  <1>9. Faulty(1) /\ (Faulty(2) \/ slots = After(k - 1))
    BY DEF Swapping
  <1>10. d = <<>> => Faulty(2) \/ slots = start.slots
    BY <1>6, <1>7, <1>8, <1>9
  <1>11. /\ job.before = NamesOf(start.slots)
         /\ \A i \in Index : \E j \in Index : slots[i] = start.slots[j]
    BY DEF Swapping
  <1>12. Len(job'.done) = k - 1
    BY <1>1, <1>6
  <1> HIDE DEF k, d
  <1> QED BY <1>1, <1>2, <1>3, <1>4, <1>9, <1>10, <1>11, <1>12 DEF Swapping

(* A swap done is one more. *)
LEMMA SwapForward ==
    ASSUME LibraryAssumption, Base, Swapping, job # None, job.op = "move", ~touched, Alike,
           SwapAfter, job.phase = "swapped", ~job.back, job' = Onward
    PROVE  Swapping'
  <1> DEFINE k == Len(job.done)
  <1>a. /\ job \in MoveJobs /\ Shape(job) /\ JobOK /\ TypeOK /\ start \in Bundles /\ k \in Nat
        /\ Span(job) \in Nat
    BY MoveIs
  <1>1. Pair = Step(job, k + 1) /\ k < Span(job) /\ Pair \in Pairs
    BY <1>a, PairIs
  <1>2. /\ job'.op = "move" /\ job'.phase \in {"final", "swap"} /\ Len(job'.done) = k + 1
        /\ job'.back = FALSE /\ job'.before = job.before
        /\ job'.names = Exchanged(job.names, Pair) /\ job'.from = job.from /\ job'.to = job.to
    BY <1>a, <1>1, OnwardIs
  <1>3. slots' = slots
    BY DEF SwapAfter, Reading, pedal
  <1>4. start' = start /\ \A m : After(m)' = After(m)
    BY <1>2, AfterKeeps DEF Alike
  <1>5. /\ slots = After(k + 1) /\ job.names = NamesOf(After(k)) /\ job.before = NamesOf(start.slots)
        /\ \A i \in Index : \E j \in Index : slots[i] = start.slots[j]
    BY DEF Swapping
  <1>6. k \in 0..Span(job) /\ k + 1 \in 1..Span(job) /\ (k + 1) - 1 = k
    BY <1>a, <1>1
  <1>7. After(k) \in Tables /\ Exchanged(After(k), Step(job, k + 1)) = After(k + 1)
    BY <1>a, <1>6, AfterSteps
  <1>8. job'.names = NamesOf(After(k + 1))
    BY <1>1, <1>2, <1>5, <1>7, ExchangedNamesOf
  <1> HIDE DEF k
  <1> QED BY <1>2, <1>3, <1>4, <1>5, <1>8 DEF Swapping

(* Looked into, a failed swap is known to be done or not, or a second request *)
(* has failed.                                                                *)
LEMMA SwapLooked ==
    ASSUME LibraryAssumption, FreeAssumption, Base, Swapping, job # None, job.op = "move", ~touched,
           Alike, LookAgain, job.phase = "look"
    PROVE  Swapping'
  <1> DEFINE k == Len(job.done)
             more == Append(job.done, Pair)
  <1>a. /\ job \in MoveJobs /\ Shape(job) /\ JobOK /\ TypeOK /\ start \in Bundles /\ k \in Nat
        /\ Span(job) \in Nat /\ job.done \in Seq(Pairs) /\ slots \in Tables
        /\ start.slots \in Tables /\ DistinctNames(start.slots)
    BY MoveIs
  <1>0. ~job.back
    BY <1>a DEF Shape, MoveJobs
  <1>1. Pair = Step(job, k + 1) /\ k < Span(job) /\ Pair \in Pairs
    BY <1>a, <1>0, PairIs
  <1>2. k \in 0..Span(job) /\ k + 1 \in 0..Span(job) /\ k + 1 \in 1..Span(job) /\ (k + 1) - 1 = k
    BY <1>a, <1>1
  <1>3. /\ After(k) \in Tables /\ After(k + 1) \in Tables
        /\ Exchanged(After(k), Pair) = After(k + 1)
        /\ \A i \in Index : \E j \in Index : After(k)[i] = start.slots[j]
        /\ \A i \in Index : \E j \in Index : After(k + 1)[i] = start.slots[j]
        /\ After(0) = start.slots
    BY <1>a, <1>1, <1>2, AfterSteps
  <1>4. /\ slots = After(k) \/ slots = After(k + 1)
        /\ job.names = NamesOf(After(k)) /\ job.before = NamesOf(start.slots) /\ Faulty(1)
        /\ \A i \in Index : \E j \in Index : slots[i] = start.slots[j]
    BY <1>0 DEF Swapping
  <1>5. Exchanged(job.names, Pair) = NamesOf(After(k + 1))
    BY <1>1, <1>3, <1>4, ExchangedNamesOf
  <1>6. slots' = slots
    BY DEF LookAgain, Reading, pedal
  <1>7. (Errs => Faulty(2)') /\ Faulty(1)'
    BY <1>a, <1>4, FaultsCount DEF Alike
  <1>8. /\ more \in Seq(Pairs) /\ Len(more) = k + 1 /\ more # <<>>
        /\ job.done = <<>> => k = 0
    BY <1>a, <1>1
  <1>b. ASSUME NEW d PROVE Reversing(d) = TakenBack(d)
    <2> DEFINE p == IF d = <<>> THEN "verify" ELSE "swap"
    <2>1. Reversing(d) = [job EXCEPT !.back = TRUE, !.done = d, !.phase = p]
      BY DEF Reversing
    <2>2. [job EXCEPT !.back = TRUE, !.done = d, !.phase = p] =
            MoveTo(p, job.todo, d, TRUE, job.before, job.names, job.found)
      <3> HIDE DEF p
      <3> QED BY <1>a DEF MoveTo, MoveJobs
    <2> QED BY <2>1, <2>2 DEF TakenBack
  <1>9. \/ slots = After(k + 1) /\ job' = TakenBack(more)
        \/ (slots = After(k) \/ Faulty(2)') /\ job' = TakenBack(job.done)
    <2> DEFINE swapped == Exchanged(job.names, Pair)
               took == NamesOf(slots) = swapped /\ swapped # job.names
    <2>1. CASE Errs /\ job' = Reversing(job.done)
      BY <1>7, <1>b, <2>1
    <2>2. CASE Answered /\ took /\ job' = Reversing(more)
      <3>1. slots # After(k)
        BY <1>4, <2>2
      <3> QED BY <1>4, <1>b, <2>2, <3>1
    <2>3. CASE Answered /\ ~took /\ job' = Reversing(job.done)
      <3>1. CASE slots = After(k + 1)
        <4>1. NamesOf(After(k + 1)) = NamesOf(After(k))
          BY <1>4, <1>5, <2>3, <3>1
        <4>2. After(k + 1) = After(k)
          BY <1>a, <1>3, <4>1, SameNames
        <4> QED BY <1>b, <2>3, <3>1, <4>2
      <3> QED BY <1>4, <1>b, <2>3, <3>1
    <2> QED BY <2>1, <2>2, <2>3 DEF LookAgain, Goes
  <1> HIDE DEF k, more
  <1>10. CASE slots = After(k + 1) /\ job' = TakenBack(more)
    <2>1. /\ job'.op = "move" /\ job'.phase = "swap" /\ job'.done = more /\ job'.back = TRUE
          /\ job'.before = job.before /\ job'.from = job.from /\ job'.to = job.to
      BY <1>a, <1>8, <1>10, TakenBackIs
    <2>2. start' = start /\ \A m : After(m)' = After(m)
      BY <2>1, AfterKeeps DEF Alike
    <2>3. Len(job'.done) = k + 1
      BY <1>8, <2>1
    <2> QED BY <1>4, <1>6, <1>7, <1>10, <2>1, <2>2, <2>3 DEF Swapping
  <1>11. CASE (slots = After(k) \/ Faulty(2)') /\ job' = TakenBack(job.done)
    <2>1. /\ job'.op = "move" /\ job'.phase = IF job.done = <<>> THEN "verify" ELSE "swap"
          /\ job'.done = job.done /\ job'.back = TRUE
          /\ job'.before = job.before /\ job'.from = job.from /\ job'.to = job.to
      BY <1>a, <1>11, TakenBackIs
    <2>2. start' = start /\ \A m : After(m)' = After(m)
      BY <2>1, AfterKeeps DEF Alike
    <2>3. Len(job'.done) = k
      BY <2>1 DEF k
    <2>4. job.done = <<>> => slots = start.slots \/ Faulty(2)'
      BY <1>3, <1>8, <1>11
    <2> QED BY <1>4, <1>6, <1>7, <1>11, <2>1, <2>2, <2>3, <2>4 DEF Swapping
  <1> QED BY <1>9, <1>10, <1>11

(* The names listed first are those the move found. *)
LEMMA SwapListed ==
    ASSUME LibraryAssumption, Base, Swapping, job # None, job.op = "move", ~touched, Alike,
           MoveListed, job.phase = "list",
           job' = MoveTo("swap", job.todo, job.done, job.back, NamesOf(slots), NamesOf(slots), job.found)
    PROVE  Swapping'
  <1>a. /\ job \in MoveJobs /\ Shape(job) /\ JobOK /\ TypeOK /\ start \in Bundles
    BY MoveIs
  <1>0. ~job.back /\ job.done = <<>>
    BY <1>a DEF Shape, MoveJobs
  <1>1. /\ job'.op = "move" /\ job'.phase = "swap" /\ job'.done = job.done /\ job'.back = job.back
        /\ job'.before = NamesOf(slots) /\ job'.names = NamesOf(slots)
        /\ job'.from = job.from /\ job'.to = job.to
    BY <1>a DEF MoveTo, MoveJobs
  <1>2. slots' = slots
    BY DEF MoveListed, Reading, pedal
  <1>3. start' = start /\ \A m : After(m)' = After(m)
    BY <1>1, AfterKeeps DEF Alike
  <1>4. slots = start.slots /\ \A i \in Index : \E j \in Index : slots[i] = start.slots[j]
    BY DEF Swapping
  <1>5. Len(job'.done) = 0
    BY <1>0, <1>1
  <1>6. After(0) = start.slots
    BY <1>a, AfterSteps
  <1> QED BY <1>0, <1>1, <1>2, <1>3, <1>4, <1>5, <1>6 DEF Swapping

(* A move knows where its list is, a request failed or not. *)
LEMMA SwappingNext ==
    ASSUME LibraryAssumption, FreeAssumption, Base, Swapping, [Next]_vars
    PROVE  Swapping'
  <1> SUFFICES ASSUME job' # None, job'.op = "move", ~touched' PROVE Swapping'
    BY DEF Swapping
  <1>1. CASE UNCHANGED vars
    BY <1>1 DEF vars, pedal, session, ghosts, Swapping, After, Reached, Pair, Faulty
  <1>2. CASE job = None
    <2>1. /\ job'.phase = "list" /\ slots' = slots /\ start'.slots = slots /\ ~job'.back
      <3>1. /\ Fresh(job') /\ slots' = slots /\ start' = [slots |-> slots, setting |-> setting]
        BY <1>2, JustBegun
      <3> QED BY <3>1 DEF Fresh, Shape
    <2> QED BY <2>1 DEF Swapping
  <1>3. CASE job # None /\ Next /\ ~UNCHANGED vars
    <2>1. ~Panel /\ job'.op = job.op
      BY <1>3, SameCall DEF Panel
    <2>2. ~Asked /\ ~Reconnect
      BY <1>3 DEF Asked, Capture, Arm, Import, Rename, Clear, SetSetting, Move, Restore,
                  RestoreArmed, Writing, Begin, Reconnect
    <2>3. job.op = "move" /\ JobOK /\ Moving
      BY <1>3, <2>1, StepsOf DEF Base
    <2>4. Alike
      BY <1>3, <2>1, <2>2, CallSteps
    <2>5. ~touched
      BY <2>4 DEF Alike
    <2> QED BY <1>3, <2>3, <2>4, <2>5, MovingTo, SwapListed, SwapLook, SwapOn, SwapDone, SwapBack,
               SwapForward, SwapLooked
  <1> QED BY <1>1, <1>2, <1>3

(* How a move ends. *)
LEMMA MoveEnds ==
    ASSUME job # None, Moving, result = None, result' # None, job.back \in BOOLEAN
    PROVE  LET v == result'.verdict
           IN /\ v = "undone" => job.phase = "verify" /\ slots' = slots /\ NamesOf(slots) = job.before
              /\ v = "done" => job.phase = "final" /\ slots' = slots
              /\ v = "stuck" =>
                    \/ job.back /\ Errs
                    \/ /\ job.back /\ job.phase = "swapped"
                       /\ ~(/\ NamesOf(slots)[Pair[1]] = job.found[Pair[2]]
                            /\ NamesOf(slots)[Pair[2]] = job.found[Pair[1]])
                    \/ job.phase = "verify" /\ (Errs \/ NamesOf(slots) # job.before)
  <1>a. \A p : ~Goes(p)
    BY DEF Goes
  <1>b. \A w : Ends(w) => result'.verdict = w
    BY DEF Ends
  <1>c. SwapFails => job.back /\ result'.verdict = "stuck"
    BY <1>a, <1>b DEF SwapFails
  <1>d. ~SwapTaken
    BY <1>a DEF SwapTaken
  <1>1. CASE MoveListed
    BY <1>1, <1>a, <1>b DEF MoveListed
  <1>2. CASE SwapBefore
    BY <1>2, <1>a, <1>c DEF SwapBefore
  <1>3. CASE SwapExchange
    BY <1>3, <1>a, <1>c DEF SwapExchange, ErrsWriting, Errs
  <1>4. CASE SwapAfter
    BY <1>4, <1>c, <1>d DEF SwapAfter, At
  <1>5. CASE LookAgain
    BY <1>5, <1>a DEF LookAgain
  <1>6. CASE MoveVerify
    <2>1. job.phase = "verify" /\ slots' = slots
      BY <1>6 DEF MoveVerify, At, Reading, pedal
    <2>2. \/ Ends(IF NamesOf(slots) = job.before THEN "undone" ELSE "stuck")
          \/ Errs /\ Ends("stuck")
      BY <1>6 DEF MoveVerify
    <2>3. CASE Ends(IF NamesOf(slots) = job.before THEN "undone" ELSE "stuck")
      <3>1. result'.verdict = IF NamesOf(slots) = job.before THEN "undone" ELSE "stuck"
        BY <1>b, <2>3
      <3> QED BY <2>1, <3>1
    <2>4. CASE Errs /\ Ends("stuck")
      BY <1>b, <2>1, <2>4
    <2> QED BY <2>2, <2>3, <2>4
  <1>7. CASE MoveFinal
    <2> DEFINE v == IF NamesOf(slots) = Moved(job.before, job.from, job.to) THEN "done" ELSE "failed"
    <2>1. job.phase = "final" /\ slots' = slots
      BY <1>7 DEF MoveFinal, At, Reading, pedal
    <2>2. v \in {"done", "failed"}
      OBVIOUS
    <2>3. Ends(v) \/ Ends("failed")
      BY <1>7 DEF MoveFinal
    <2> HIDE DEF v
    <2>4. result'.verdict \in {"done", "failed"}
      BY <1>b, <2>2, <2>3
    <2> QED BY <2>1, <2>4
  <1> QED BY <1>1, <1>2, <1>3, <1>4, <1>5, <1>6, <1>7 DEF Moving

(* A move that ends has every slot where it says. *)
LEMMA MoveNext ==
    ASSUME LibraryAssumption, FreeAssumption, Base, Swapping, MoveIsWhole, [Next]_vars
    PROVE  MoveIsWhole'
  <1>1. CASE UNCHANGED vars
    BY <1>1 DEF vars, pedal, session, ghosts, MoveIsWhole, Returned
  <1>2. CASE ~(result' # None)
    BY <1>2 DEF MoveIsWhole, Returned
  <1>3. CASE job # None /\ job' = None /\ Next /\ Alike /\ result' # None /\ \E v \in Verdicts : Ends(v)
    <2>1. result'.op = job.op /\ result'.job = job
      BY <1>3 DEF Ends
    <2>2. touched' = touched /\ start' = start /\ result = None /\ ~Panel
      BY <1>3 DEF Alike, Base, Basics, Panel
    <2> SUFFICES ASSUME job.op = "move", ~touched
                 PROVE  /\ result'.verdict = "undone" => slots' = start.slots
                        /\ result'.verdict = "done" => slots' = Moved(start.slots, job.from, job.to)
                        /\ result'.verdict = "stuck" /\ online' => faults' > 1
      BY <2>1, <2>2 DEF MoveIsWhole, Returned
    <2>3. /\ job \in MoveJobs /\ Shape(job) /\ JobOK /\ TypeOK /\ slots \in Tables /\ start \in Bundles
          /\ start.slots \in Tables /\ DistinctNames(start.slots) /\ job.back \in BOOLEAN
          /\ job.done \in Seq(Pairs) /\ Span(job) \in Nat
      BY <1>3, MoveIs
    <2>4. Moving
      BY <1>3, <2>2, <2>3, StepsOf
    <2>5. /\ job.phase = "verify" => job.back /\ job.before = NamesOf(start.slots)
                                       /\ (Faulty(2) \/ slots = start.slots)
          /\ job.back => Faulty(1)
          /\ \A i \in Index : \E j \in Index : slots[i] = start.slots[j]
      BY <1>3, <2>3 DEF Shape, Swapping
    <2>6. /\ Errs => Faulty(1)' /\ (Faulty(1) => Faulty(2)')
          /\ Faulty(2) => Faulty(2)'
      BY <1>3, <2>3, FaultsCount DEF Alike
    <2>7. ASSUME result'.verdict = "undone" PROVE slots' = start.slots
      <3>1. NamesOf(slots) = NamesOf(start.slots) /\ slots' = slots
        BY <1>3, <2>2, <2>3, <2>4, <2>5, <2>7, MoveEnds
      <3>2. \A i \in Index : \E j \in Index : start.slots[i] = start.slots[j]
        OBVIOUS
      <3> QED BY <2>3, <2>5, <3>1, <3>2, SameNames
    <2>8. ASSUME result'.verdict = "done" PROVE slots' = Moved(start.slots, job.from, job.to)
      <3>1. job.phase = "final" /\ slots' = slots
        BY <1>3, <2>2, <2>3, <2>4, <2>8, MoveEnds
      <3>2. ~job.back /\ Len(job.todo) = 0 /\ Len(job.todo) = Span(job) - Len(job.done)
        BY <2>3, <3>1 DEF Shape
      <3>3. Len(job.done) = Span(job)
        BY <2>3, <3>2
      <3>4. slots = After(Span(job))
        BY <1>3, <3>1, <3>2, <3>3 DEF Swapping
      <3>5. Reached(job, Span(job)) = job.to
        BY <1>3, <2>3, AfterSteps
      <3> QED BY <3>1, <3>4, <3>5 DEF After
    <2>9. ASSUME result'.verdict = "stuck", online' PROVE faults' > 1
      <3>1. Faulty(2)'
        <4>1. CASE job.back /\ job.phase = "swapped"
                   /\ ~(/\ NamesOf(slots)[Pair[1]] = job.found[Pair[2]]
                        /\ NamesOf(slots)[Pair[2]] = job.found[Pair[1]])
          <5>1. Pair[1] \in Index /\ Pair[2] \in Index
            BY <2>3, <4>1, PairIs DEF Pairs
          <5>2. /\ NameOf(slots[Pair[1]]) = job.found[Pair[2]]
                /\ NameOf(slots[Pair[2]]) = job.found[Pair[1]]
            BY <1>3, <4>1 DEF Swapping
          <5> QED BY <2>3, <4>1, <5>1, <5>2, NamesListed
        <4>2. CASE (job.back \/ job.phase = "verify") /\ Errs
          BY <2>5, <2>6, <4>2
        <4>3. CASE job.phase = "verify" /\ NamesOf(slots) # job.before
          BY <2>5, <2>6, <4>3
        <4> QED BY <1>3, <2>2, <2>3, <2>4, <2>9, <4>1, <4>2, <4>3, MoveEnds
      <3>2. faults' \in Nat
        BY <1>3, <2>3, LibraryAssumption DEF Alike, Refused, Lost, TypeOK, LibraryAssumption
      <3> QED BY <2>9, <3>1, <3>2 DEF Faulty
    <2> QED BY <2>7, <2>8, <2>9
  <1> QED BY <1>1, <1>2, <1>3, Resulting DEF Base

(* A move that returned its own error left every slot where it was, one that *)
(* reports success moved the slot and shifted those between, and one request *)
(* refused never leaves a move half done (move_slot).                        *)
THEOREM MoveIsWholeHolds == Spec => []MoveIsWhole
  <1>1. Init => Base /\ Swapping /\ MoveIsWhole
    <2> SUFFICES ASSUME Init PROVE Base /\ Swapping /\ MoveIsWhole
      OBVIOUS
    <2>1. TypeOK /\ JobOK
      BY InitTyped, LibraryAssumption
    <2>2. Basics
      BY DEF Init, Basics
    <2>3. job = None /\ result = None
      BY DEF Init
    <2> QED BY <2>1, <2>2, <2>3 DEF Base, Swapping, MoveIsWhole, Returned
  <1>2. Base /\ Swapping /\ MoveIsWhole /\ [Next]_vars => (Base /\ Swapping /\ MoveIsWhole)'
    BY BasicsNext, SwappingNext, MoveNext, LibraryAssumption, FreeAssumption
  <1> QED BY <1>1, <1>2, PTL DEF Spec

=============================================================================
