-------------------------- MODULE StompWorkerProofs --------------------------
(***************************************************************************)
(* StompWorker's invariants for any nodes, values, chains, presets and      *)
(* tones, and however many commands, refusals and sessions lost.            *)
(***************************************************************************)
EXTENDS StompWorker, SequenceTheorems, FiniteSetTheorems, TLAPS

----------------------------------------------------------------------------
(* Values, edits and stacks                                                 *)

(* A partial assignment, an edit of several nodes and a pair of stacks, taken apart. *)
LEMMA PartialIs ==
    ASSUME NEW t
    PROVE  t \in Partials <=> DOMAIN t \subseteq Paths /\ t \in [DOMAIN t -> Values]
  BY DEF Partials

LEMMA EditsAre ==
    ASSUME NEW t
    PROVE  t \in Edits <=> /\ DOMAIN t \subseteq Paths
                           /\ t \in [DOMAIN t -> [before : Values, after : Values]]
  BY DEF Edits

LEMMA EditHas ==
    ASSUME NEW t \in Edits, NEW p \in DOMAIN t
    PROVE  p \in Paths /\ t[p].before \in Values /\ t[p].after \in Values
  BY EditsAre

LEMMA NothingIs ==
    /\ Nothing \in Partials /\ Nothing \in Edits /\ DOMAIN Nothing = {}
    /\ \A t : DOMAIN t = {} /\ (t \in Partials \/ t \in Edits) => t = Nothing
  <1>1. DOMAIN Nothing = {} /\ Nothing \in [{} -> Values]
        /\ Nothing \in [{} -> [before : Values, after : Values]]
    BY DEF Nothing
  <1>2. ASSUME NEW t, DOMAIN t = {}, t \in Partials \/ t \in Edits
        PROVE  t = Nothing
    BY <1>2, <1>1, PartialIs, EditsAre
  <1> QED BY <1>1, <1>2, PartialIs, EditsAre

(* The edit of one node. *)
LEMMA OneIs ==
    ASSUME NEW p \in Paths, NEW before \in Values, NEW after \in Values
    PROVE  /\ One(p, before, after) \in Edits /\ DOMAIN One(p, before, after) = {p}
           /\ One(p, before, after)[p].before = before /\ One(p, before, after)[p].after = after
           /\ One(p, before, after) # Nothing
  <1>1. One(p, before, after) \in [{p} -> [before : Values, after : Values]]
    BY DEF One
  <1>2. DOMAIN One(p, before, after) = {p}
        /\ One(p, before, after)[p].before = before /\ One(p, before, after)[p].after = after
    BY DEF One
  <1> QED BY <1>1, <1>2, EditsAre, NothingIs

(* What is written to the nodes of S leaves a buffer, normal if it was. *)
Settled(b) == Keep[b[Router]] = b[Router]

LEMMA WrittenIs ==
    ASSUME NEW b \in Buffers, NEW S \in SUBSET Paths, NEW c, \A p \in S : c[p] \in Values
    PROVE  /\ Written(c, S, b) \in Buffers
           /\ \A p \in S : Written(c, S, b)[p] = Held(p, c[p])
           /\ \A p \in Paths \ S : Written(c, S, b)[p] = b[p]
           /\ Settled(b) => Settled(Written(c, S, b))
  <1>1. ASSUME NEW p \in S
        PROVE  Held(p, c[p]) \in Values
    BY WorkerAssumption DEF Held
  <1>2. Written(c, S, b) \in Buffers
    BY <1>1 DEF Written, Buffers
  <1>3. /\ \A p \in S : Written(c, S, b)[p] = Held(p, c[p])
        /\ \A p \in Paths \ S : Written(c, S, b)[p] = b[p]
    BY DEF Written
  <1>4. ASSUME Settled(b)
        PROVE  Settled(Written(c, S, b))
    BY <1>3, <1>4, WorkerAssumption DEF Settled, Held
  <1> QED BY <1>2, <1>3, <1>4

LEMMA SameBuffer ==
    ASSUME NEW a \in Buffers, NEW b \in Buffers, \A p \in Paths : a[p] = b[p]
    PROVE  a = b
  BY DEF Buffers

LEMMA AllIs ==
    ASSUME NEW b \in Buffers, NEW c \in Partials
    PROVE  /\ All(c, b) \in Buffers
           /\ \A p \in DOMAIN c : All(c, b)[p] = Held(p, c[p])
           /\ \A p \in Paths \ DOMAIN c : All(c, b)[p] = b[p]
           /\ Settled(b) => Settled(All(c, b))
  <1>1. DOMAIN c \in SUBSET Paths /\ \A p \in DOMAIN c : c[p] \in Values
    BY PartialIs
  <1> QED BY <1>1, WrittenIs DEF All

(* Any values written to the nodes of S. *)
LEMMA StrayedIs ==
    ASSUME NEW b \in Buffers, NEW S \in SUBSET Paths, NEW x \in Strayed(S, b)
    PROVE  /\ x \in Buffers /\ (Settled(b) => Settled(x))
           /\ \A p \in Paths \ S : x[p] = b[p]
  <1>1. PICK c \in [S -> Values] : x = Written(c, S, b)
    BY DEF Strayed
  <1>2. \A p \in S : c[p] \in Values
    OBVIOUS
  <1> QED BY <1>1, <1>2, WrittenIs

(* The values before and after an edit. *)
LEMMA SidesAre ==
    ASSUME NEW t \in Edits
    PROVE  /\ Befores(t) \in Partials /\ DOMAIN Befores(t) = DOMAIN t
           /\ Afters(t) \in Partials /\ DOMAIN Afters(t) = DOMAIN t
           /\ \A p \in DOMAIN t : Befores(t)[p] = t[p].before /\ Afters(t)[p] = t[p].after
  <1>1. /\ DOMAIN Befores(t) = DOMAIN t /\ DOMAIN Afters(t) = DOMAIN t
        /\ \A p \in DOMAIN t : Befores(t)[p] = t[p].before /\ Afters(t)[p] = t[p].after
    BY DEF Befores, Afters
  <1>2. \A p \in DOMAIN t : p \in Paths /\ t[p].before \in Values /\ t[p].after \in Values
    BY EditHas
  <1>3. Befores(t) \in [DOMAIN t -> Values] /\ Afters(t) \in [DOMAIN t -> Values]
    BY <1>2 DEF Befores, Afters
  <1> QED BY <1>1, <1>2, <1>3, PartialIs

(* Stacks that grow and shrink at the top. *)
Grown(s, t, u) == Len(u) = Len(s) + 1 /\ u[Len(u)] = t /\ \A i \in 1..Len(s) : u[i] = s[i]

LEMMA StacksAre ==
    ASSUME NEW s \in Stacks
    PROVE  s.undo \in Seq(Edits) /\ s.redo \in Seq(Edits)
  BY DEF Stacks

LEMMA AppendGrows ==
    ASSUME NEW s \in Seq(Edits), NEW t \in Edits
    PROVE  Append(s, t) \in Seq(Edits) /\ Grown(s, t, Append(s, t))
  BY DEF Grown

LEMMA PopShrinks ==
    ASSUME NEW s \in Seq(Edits), s # <<>>
    PROVE  Pop(s) \in Seq(Edits) /\ Top(s) \in Edits /\ Grown(Pop(s), Top(s), s)
  <1>1. Len(s) \in Nat /\ Len(s) # 0
    BY EmptySeq
  <1>2. \A i \in 1..(Len(s) - 1) : s[i] \in Edits
    BY <1>1, ElementOfSeq
  <1>3. /\ SubSeq(s, 1, Len(s) - 1) \in Seq(Edits)
        /\ Len(SubSeq(s, 1, Len(s) - 1)) = Len(s) - 1
        /\ \A i \in 1..(Len(s) - 1) : SubSeq(s, 1, Len(s) - 1)[i] = s[i]
    <2> DEFINE n == Len(s) - 1
    <2>1. n \in Nat /\ 1 \in Int /\ n \in Int
      BY <1>1
    <2>2. /\ SubSeq(s, 1, n) \in Seq(Edits)
          /\ Len(SubSeq(s, 1, n)) = IF 1 <= n THEN n - 1 + 1 ELSE 0
          /\ \A i \in 1..(n - 1 + 1) : SubSeq(s, 1, n)[i] = s[1 + i - 1]
      BY <2>1, <1>2, SubSeqProperties
    <2> HIDE DEF n
    <2>3. Len(SubSeq(s, 1, n)) = n /\ \A i \in 1..n : SubSeq(s, 1, n)[i] = s[i]
      BY <2>1, <2>2
    <2> QED BY <2>2, <2>3 DEF n
  <1>4. s[Len(s)] \in Edits
    BY <1>1, ElementOfSeq
  <1> QED BY <1>1, <1>3, <1>4 DEF Grown, Top, Pop

----------------------------------------------------------------------------
(* The edits of one node in a stack: the first, the last and those between.  *)

Touched(s, p) == \E i \in 1..Len(s) : p \in DOMAIN s[i]
First(s, i, p) == p \in DOMAIN s[i] /\ \A j \in 1..Len(s) : j < i => p \notin DOMAIN s[j]
Last(s, i, p) == p \in DOMAIN s[i] /\ \A j \in 1..Len(s) : i < j => p \notin DOMAIN s[j]
Follows(s, i, j, p) ==
    /\ i < j /\ p \in DOMAIN s[i] /\ p \in DOMAIN s[j]
    /\ \A k \in 1..Len(s) : i < k /\ k < j => p \notin DOMAIN s[k]

StartsAt(s, p, v) == \E i \in 1..Len(s) : First(s, i, p) /\ s[i][p].before = v
EndsBefore(s, p, v) == \A i \in 1..Len(s) : Last(s, i, p) => s[i][p].before = v
EndsAfter(s, p, v) == \A i \in 1..Len(s) : Last(s, i, p) => s[i][p].after = v
UndoLinked(s, p) ==
    \A i, j \in 1..Len(s) : Follows(s, i, j, p) => s[i][p].after = s[j][p].before
RedoLinked(s, p) ==
    \A i, j \in 1..Len(s) : Follows(s, i, j, p) => s[i][p].before = s[j][p].after

SettledEdit(t) ==
    Router \in DOMAIN t => Keep[t[Router].before] = t[Router].before
                           /\ Keep[t[Router].after] = t[Router].after
SettledEdits(s) == \A i \in 1..Len(s) : SettledEdit(s[i])
Within(s, D) == \A i \in 1..Len(s) : DOMAIN s[i] \subseteq D

LEMMA GrownLength ==
    ASSUME NEW s \in Seq(Edits), NEW u \in Seq(Edits), NEW t, Grown(s, t, u)
    PROVE  /\ Len(s) \in Nat /\ Len(u) = Len(s) + 1 /\ u[Len(u)] = t
           /\ \A i \in 1..Len(s) : i \in 1..Len(u) /\ i < Len(u) /\ u[i] = s[i]
           /\ \A i \in 1..Len(u) : i \in 1..Len(s) \/ i = Len(u)
           /\ Len(u) \in 1..Len(u)
  BY DEF Grown

LEMMA GrownTouched ==
    ASSUME NEW s \in Seq(Edits), NEW u \in Seq(Edits), NEW t, Grown(s, t, u), NEW p
    PROVE  /\ Touched(u, p) <=> Touched(s, p) \/ p \in DOMAIN t
           /\ \A i \in 1..Len(s) : First(u, i, p) <=> First(s, i, p)
           /\ First(u, Len(u), p) <=> p \in DOMAIN t /\ ~Touched(s, p)
           /\ \A i \in 1..Len(s) : Last(u, i, p) <=> Last(s, i, p) /\ p \notin DOMAIN t
           /\ Last(u, Len(u), p) <=> p \in DOMAIN t
  <1> USE GrownLength
  <1>1. Touched(u, p) <=> Touched(s, p) \/ p \in DOMAIN t
    BY DEF Touched
  <1>2. ASSUME NEW i \in 1..Len(s)
        PROVE  First(u, i, p) <=> First(s, i, p)
    BY DEF First
  <1>3. First(u, Len(u), p) <=> p \in DOMAIN t /\ ~Touched(s, p)
    BY DEF First, Touched
  <1>4. ASSUME NEW i \in 1..Len(s)
        PROVE  Last(u, i, p) <=> Last(s, i, p) /\ p \notin DOMAIN t
    BY DEF Last
  <1>5. Last(u, Len(u), p) <=> p \in DOMAIN t
    BY DEF Last
  <1> QED BY <1>1, <1>2, <1>3, <1>4, <1>5

LEMMA GrownFollows ==
    ASSUME NEW s \in Seq(Edits), NEW u \in Seq(Edits), NEW t, Grown(s, t, u), NEW p
    PROVE  /\ \A i, j \in 1..Len(s) : Follows(u, i, j, p) <=> Follows(s, i, j, p)
           /\ \A i \in 1..Len(s) : Follows(u, i, Len(u), p) <=> Last(s, i, p) /\ p \in DOMAIN t
           /\ \A i \in 1..Len(u) : ~Follows(u, Len(u), i, p)
  <1> USE GrownLength
  <1>1. ASSUME NEW i \in 1..Len(s), NEW j \in 1..Len(s)
        PROVE  Follows(u, i, j, p) <=> Follows(s, i, j, p)
    BY DEF Follows
  <1>2. ASSUME NEW i \in 1..Len(s)
        PROVE  Follows(u, i, Len(u), p) <=> Last(s, i, p) /\ p \in DOMAIN t
    BY DEF Follows, Last
  <1>3. \A i \in 1..Len(u) : ~Follows(u, Len(u), i, p)
    BY DEF Follows
  <1> QED BY <1>1, <1>2, <1>3

(* What a stack with one edit more says of a node, in terms of the stack below it. *)
LEMMA GrownSays ==
    ASSUME NEW s \in Seq(Edits), NEW u \in Seq(Edits), NEW t, Grown(s, t, u), NEW p, NEW v
    PROVE  /\ StartsAt(u, p, v) <=> \/ StartsAt(s, p, v)
                                    \/ p \in DOMAIN t /\ ~Touched(s, p) /\ t[p].before = v
           /\ EndsBefore(u, p, v) <=> IF p \in DOMAIN t THEN t[p].before = v ELSE EndsBefore(s, p, v)
           /\ EndsAfter(u, p, v) <=> IF p \in DOMAIN t THEN t[p].after = v ELSE EndsAfter(s, p, v)
  <1> USE GrownLength, GrownTouched
  <1>1. StartsAt(u, p, v) <=> \/ StartsAt(s, p, v)
                              \/ p \in DOMAIN t /\ ~Touched(s, p) /\ t[p].before = v
    BY DEF StartsAt
  <1>2. EndsBefore(u, p, v) <=> IF p \in DOMAIN t THEN t[p].before = v ELSE EndsBefore(s, p, v)
    BY DEF EndsBefore
  <1>3. EndsAfter(u, p, v) <=> IF p \in DOMAIN t THEN t[p].after = v ELSE EndsAfter(s, p, v)
    BY DEF EndsAfter
  <1> QED BY <1>1, <1>2, <1>3

LEMMA GrownLinked ==
    ASSUME NEW s \in Seq(Edits), NEW u \in Seq(Edits), NEW t, Grown(s, t, u), NEW p
    PROVE  /\ UndoLinked(u, p) <=> /\ UndoLinked(s, p)
                                   /\ p \in DOMAIN t => EndsAfter(s, p, t[p].before)
           /\ RedoLinked(u, p) <=> /\ RedoLinked(s, p)
                                   /\ p \in DOMAIN t => EndsBefore(s, p, t[p].after)
  <1> USE GrownLength, GrownFollows
  <1>1. UndoLinked(u, p) <=> UndoLinked(s, p) /\ (p \in DOMAIN t => EndsAfter(s, p, t[p].before))
    <2>1. ASSUME UndoLinked(u, p)
          PROVE  UndoLinked(s, p) /\ (p \in DOMAIN t => EndsAfter(s, p, t[p].before))
      <3>1. \A i, j \in 1..Len(s) : Follows(s, i, j, p) => u[i][p].after = u[j][p].before
        BY <2>1 DEF UndoLinked
      <3>2. UndoLinked(s, p)
        BY <3>1 DEF UndoLinked
      <3>3. ASSUME p \in DOMAIN t
            PROVE  EndsAfter(s, p, t[p].before)
        BY <2>1, <3>3 DEF UndoLinked, EndsAfter
      <3> QED BY <3>2, <3>3
    <2>2. ASSUME UndoLinked(s, p), p \in DOMAIN t => EndsAfter(s, p, t[p].before),
                 NEW i \in 1..Len(u), NEW j \in 1..Len(u), Follows(u, i, j, p)
          PROVE  u[i][p].after = u[j][p].before
      <3>1. i \in 1..Len(s)
        BY <2>2
      <3>2. CASE j = Len(u)
        BY <2>2, <3>1, <3>2 DEF EndsAfter
      <3>3. CASE j # Len(u)
        BY <2>2, <3>1, <3>3 DEF UndoLinked
      <3> QED BY <3>2, <3>3
    <2> QED BY <2>1, <2>2 DEF UndoLinked
  <1>2. RedoLinked(u, p) <=> RedoLinked(s, p) /\ (p \in DOMAIN t => EndsBefore(s, p, t[p].after))
    <2>1. ASSUME RedoLinked(u, p)
          PROVE  RedoLinked(s, p) /\ (p \in DOMAIN t => EndsBefore(s, p, t[p].after))
      <3>1. \A i, j \in 1..Len(s) : Follows(s, i, j, p) => u[i][p].before = u[j][p].after
        BY <2>1 DEF RedoLinked
      <3>2. RedoLinked(s, p)
        BY <3>1 DEF RedoLinked
      <3>3. ASSUME p \in DOMAIN t
            PROVE  EndsBefore(s, p, t[p].after)
        BY <2>1, <3>3 DEF RedoLinked, EndsBefore
      <3> QED BY <3>2, <3>3
    <2>2. ASSUME RedoLinked(s, p), p \in DOMAIN t => EndsBefore(s, p, t[p].after),
                 NEW i \in 1..Len(u), NEW j \in 1..Len(u), Follows(u, i, j, p)
          PROVE  u[i][p].before = u[j][p].after
      <3>1. i \in 1..Len(s)
        BY <2>2
      <3>2. CASE j = Len(u)
        BY <2>2, <3>1, <3>2 DEF EndsBefore
      <3>3. CASE j # Len(u)
        BY <2>2, <3>1, <3>3 DEF RedoLinked
      <3> QED BY <3>2, <3>3
    <2> QED BY <2>1, <2>2 DEF RedoLinked
  <1> QED BY <1>1, <1>2

LEMMA GrownSettled ==
    ASSUME NEW s \in Seq(Edits), NEW u \in Seq(Edits), NEW t, Grown(s, t, u), NEW D
    PROVE  /\ SettledEdits(u) <=> SettledEdits(s) /\ SettledEdit(t)
           /\ Within(u, D) <=> Within(s, D) /\ DOMAIN t \subseteq D
  <1> USE GrownLength
  <1>1. SettledEdits(u) <=> SettledEdits(s) /\ SettledEdit(t)
    BY DEF SettledEdits
  <1>2. Within(u, D) <=> Within(s, D) /\ DOMAIN t \subseteq D
    BY DEF Within
  <1> QED BY <1>1, <1>2

LEMMA EmptySays ==
    ASSUME NEW p, NEW v, NEW D
    PROVE  /\ ~Touched(<<>>, p) /\ ~StartsAt(<<>>, p, v)
           /\ EndsBefore(<<>>, p, v) /\ EndsAfter(<<>>, p, v)
           /\ UndoLinked(<<>>, p) /\ RedoLinked(<<>>, p)
           /\ SettledEdits(<<>>) /\ Within(<<>>, D)
  <1>1. Len(<<>>) = 0 /\ 1..0 = {}
    BY EmptySeq
  <1> QED BY <1>1 DEF Touched, StartsAt, EndsBefore, EndsAfter, UndoLinked, RedoLinked,
                      SettledEdits, Within

(* Undoing every step, node by node: the first value before, or the buffer's. *)
LEMMA UnwoundIs ==
    ASSUME NEW s \in Seq(Edits), NEW b \in Buffers, NEW c \in Buffers,
           \A p \in Paths : IF Touched(s, p) THEN StartsAt(s, p, c[p]) ELSE b[p] = c[p]
    PROVE  Unwound(s, b) = c
  <1>1. DOMAIN s = 1..Len(s) /\ Len(s) \in Nat
    BY LenProperties
  <1>2. ASSUME NEW p \in Paths
        PROVE  Unwound(s, b)[p] = c[p]
    <2> DEFINE touching == {i \in DOMAIN s : p \in DOMAIN s[i]}
    <2>1. Unwound(s, b)[p] =
              IF touching = {} THEN b[p]
              ELSE s[CHOOSE i \in touching : \A j \in touching : i <= j][p].before
      BY DEF Unwound
    <2>2. CASE ~Touched(s, p)
      BY <2>1, <2>2, <1>1 DEF Touched
    <2>3. CASE Touched(s, p)
      <3>1. PICK i \in 1..Len(s) : First(s, i, p) /\ s[i][p].before = c[p]
        BY <2>3 DEF StartsAt
      <3>2. i \in touching /\ \A j \in touching : i <= j
        BY <3>1, <1>1 DEF First
      <3>3. ASSUME NEW k \in touching, \A j \in touching : k <= j
            PROVE  k = i
        BY <3>2, <3>3, <1>1
      <3> HIDE DEF touching
      <3>4. (CHOOSE k \in touching : \A j \in touching : k <= j) = i
        BY <3>2, <3>3
      <3> QED BY <2>1, <3>1, <3>2, <3>4
    <2> QED BY <2>2, <2>3
  <1>3. Unwound(s, b) = [p \in Paths |-> Unwound(s, b)[p]]
    BY DEF Unwound
  <1> QED BY <1>2, <1>3 DEF Buffers

----------------------------------------------------------------------------
(* What stacks say of a buffer b and of the one they began with, c.           *)

\* The first edit of a node replaced what c has there; a node without edits holds it still, and
\* the last of its edits undone would put it back.
Begins(s, b, c) ==
    \A p \in Paths :
        IF Touched(s.undo, p) THEN StartsAt(s.undo, p, c[p])
        ELSE b[p] = c[p] /\ EndsBefore(s.redo, p, c[p])

\* Every edit of a node found what the one before it left, and the last of them left what b has.
Joined(s, b) ==
    \A p \in Paths :
        /\ EndsAfter(s.undo, p, b[p]) /\ UndoLinked(s.undo, p)
        /\ EndsBefore(s.redo, p, b[p]) /\ RedoLinked(s.redo, p)

\* The chains in it are such as the pedal keeps as they are.
Regular(s) == SettledEdits(s.undo) /\ SettledEdits(s.redo)

Inside(s, D) == Within(s.undo, D) /\ Within(s.redo, D)

LEMMA BlankSays ==
    ASSUME NEW b \in Buffers, NEW D
    PROVE  Blank \in Stacks /\ Begins(Blank, b, b) /\ Joined(Blank, b) /\ Regular(Blank)
           /\ Inside(Blank, D)
  <1>1. Blank.undo = <<>> /\ Blank.redo = <<>> /\ Blank \in Stacks
    BY EmptySeq DEF Blank, Stacks
  <1> QED BY <1>1, EmptySays DEF Begins, Joined, Regular, Inside

LEMMA StacksMake ==
    ASSUME NEW undo \in Seq(Edits), NEW redo \in Seq(Edits)
    PROVE  /\ [undo |-> undo, redo |-> redo] \in Stacks
           /\ [undo |-> undo, redo |-> redo].undo = undo /\ [undo |-> undo, redo |-> redo].redo = redo
  BY DEF Stacks

(* Edits recorded on a history of the buffer b, which is bb with them (record_transaction). *)
LEMMA RecordedSays ==
    ASSUME NEW s \in Stacks, NEW t \in Edits, NEW b \in Buffers, NEW bb \in Buffers,
           NEW c \in Buffers, NEW D
    PROVE  /\ Recorded(s, t) \in Stacks
           /\ /\ Begins(s, b, c)
              /\ \A p \in Paths : ~Touched(s.undo, p) =>
                     IF p \in DOMAIN t THEN t[p].before = c[p] ELSE bb[p] = c[p]
              => Begins(Recorded(s, t), bb, c)
           /\ /\ Joined(s, b)
              /\ \A p \in Paths : IF p \in DOMAIN t THEN t[p].before = b[p] /\ t[p].after = bb[p]
                                  ELSE bb[p] = b[p]
              => Joined(Recorded(s, t), bb)
           /\ Regular(s) /\ SettledEdit(t) => Regular(Recorded(s, t))
           /\ Inside(s, D) /\ DOMAIN t \subseteq D => Inside(Recorded(s, t), D)
           /\ \A p \in Paths : Touched(Recorded(s, t).undo, p) <=> Touched(s.undo, p) \/ p \in DOMAIN t
  <1>1. s.undo \in Seq(Edits) /\ s.redo \in Seq(Edits) /\ DOMAIN Nothing = {}
    BY StacksAre, NothingIs
  <1>2. CASE t = Nothing
    BY <1>1, <1>2 DEF Recorded, Begins, Joined
  <1>3. CASE t # Nothing
    <2> DEFINE r == [undo |-> Append(s.undo, t), redo |-> <<>>]
    <2>1. Recorded(s, t) = r
      BY <1>3 DEF Recorded
    <2>2. Append(s.undo, t) \in Seq(Edits) /\ Grown(s.undo, t, Append(s.undo, t))
          /\ <<>> \in Seq(Edits)
      BY <1>1, AppendGrows, EmptySeq
    <2>3. r \in Stacks /\ r.undo \in Seq(Edits) /\ Grown(s.undo, t, r.undo) /\ r.redo = <<>>
      BY <2>2, StacksMake
    <2> HIDE DEF r
    <2>4. \A p : Touched(r.undo, p) <=> Touched(s.undo, p) \/ p \in DOMAIN t
      BY <1>1, <2>3, GrownTouched
    <2>5. ASSUME Begins(s, b, c),
                 \A p \in Paths : ~Touched(s.undo, p) =>
                     IF p \in DOMAIN t THEN t[p].before = c[p] ELSE bb[p] = c[p]
          PROVE  Begins(r, bb, c)
      <3>1. ASSUME NEW p \in Paths
            PROVE  IF Touched(r.undo, p) THEN StartsAt(r.undo, p, c[p])
                   ELSE bb[p] = c[p] /\ EndsBefore(r.redo, p, c[p])
        <4>1. StartsAt(r.undo, p, c[p]) <=> \/ StartsAt(s.undo, p, c[p])
                                            \/ p \in DOMAIN t /\ ~Touched(s.undo, p) /\ t[p].before = c[p]
          BY <1>1, <2>3, GrownSays
        <4>2. EndsBefore(r.redo, p, c[p])
          BY <2>3, EmptySays
        <4> QED BY <2>4, <2>5, <4>1, <4>2 DEF Begins
      <3> QED BY <3>1 DEF Begins
    <2>6. ASSUME Joined(s, b),
                 \A p \in Paths : IF p \in DOMAIN t THEN t[p].before = b[p] /\ t[p].after = bb[p]
                                  ELSE bb[p] = b[p]
          PROVE  Joined(r, bb)
      <3>1. ASSUME NEW p \in Paths
            PROVE  /\ EndsAfter(r.undo, p, bb[p]) /\ UndoLinked(r.undo, p)
                   /\ EndsBefore(r.redo, p, bb[p]) /\ RedoLinked(r.redo, p)
        <4>1. EndsAfter(r.undo, p, bb[p])
                  <=> IF p \in DOMAIN t THEN t[p].after = bb[p] ELSE EndsAfter(s.undo, p, bb[p])
          BY <1>1, <2>3, GrownSays
        <4>2. UndoLinked(r.undo, p) <=> /\ UndoLinked(s.undo, p)
                                        /\ p \in DOMAIN t => EndsAfter(s.undo, p, t[p].before)
          BY <1>1, <2>3, GrownLinked
        <4>3. EndsBefore(r.redo, p, bb[p]) /\ RedoLinked(r.redo, p)
          BY <2>3, EmptySays
        <4>4. EndsAfter(s.undo, p, b[p]) /\ UndoLinked(s.undo, p)
          BY <2>6 DEF Joined
        <4> QED BY <2>6, <4>1, <4>2, <4>3, <4>4
      <3> QED BY <3>1 DEF Joined
    <2>7. (SettledEdits(r.undo) <=> SettledEdits(s.undo) /\ SettledEdit(t)) /\ SettledEdits(r.redo)
          /\ (Within(r.undo, D) <=> Within(s.undo, D) /\ DOMAIN t \subseteq D) /\ Within(r.redo, D)
      BY <1>1, <2>3, GrownSettled, EmptySays
    <2> QED BY <2>1, <2>3, <2>4, <2>5, <2>6, <2>7 DEF Regular, Inside
  <1> QED BY <1>2, <1>3

(* The step before it grown by an edit of the same node (record_edit). *)
LEMMA MergedSays ==
    ASSUME stacks \in Stacks, NEW p \in Paths, Merges(p), NEW v \in Values,
           NEW b \in Buffers, NEW bb \in Buffers, NEW c \in Buffers, NEW D,
           \A q \in Paths : q # p => bb[q] = b[q], bb[p] = v
    PROVE  /\ Merged(p, v) \in Stacks
           /\ Begins(stacks, b, c) => Begins(Merged(p, v), bb, c)
           /\ Joined(stacks, b) => Joined(Merged(p, v), bb)
           /\ Regular(stacks) /\ p # Router => Regular(Merged(p, v))
           /\ Inside(stacks, D) => Inside(Merged(p, v), D)
           /\ \A q \in Paths : Touched(Merged(p, v).undo, q) <=> Touched(stacks.undo, q)
           /\ Touched(stacks.undo, p)
  <1> DEFINE s == stacks.undo
             m == Merged(p, v)
             t == Top(stacks.undo)
             o == One(p, t[p].before, v)
  <1>1. s \in Seq(Edits) /\ s # <<>> /\ DOMAIN t = {p} /\ stacks.redo = <<>>
    BY StacksAre DEF Merges
  <1>2. Pop(s) \in Seq(Edits) /\ t \in Edits /\ Grown(Pop(s), t, s)
    BY <1>1, PopShrinks
  <1>3. /\ o \in Edits /\ DOMAIN o = {p} /\ o[p].before = t[p].before /\ o[p].after = v
    <2>1. t[p].before \in Values
      BY <1>1, <1>2, EditHas
    <2> HIDE DEF t
    <2> QED BY <2>1, OneIs
  <1>4. m.undo \in Seq(Edits) /\ Grown(Pop(s), o, m.undo) /\ m.redo = <<>> /\ m \in Stacks
    <2>1. Append(Pop(s), o) \in Seq(Edits) /\ Grown(Pop(s), o, Append(Pop(s), o))
      BY <1>2, <1>3, AppendGrows
    <2>2. <<>> \in Seq(Edits)
      BY EmptySeq
    <2>3. m = [undo |-> Append(Pop(s), o), redo |-> <<>>]
      BY DEF Merged
    <2> HIDE DEF m, o, s
    <2> QED BY <2>1, <2>2, <2>3, StacksMake
  <1> HIDE DEF o, m, t, s
  <1>5. \A q : Touched(m.undo, q) <=> Touched(s, q)
    BY <1>1, <1>2, <1>3, <1>4, GrownTouched
  <1>6. Touched(s, p)
    BY <1>1, <1>2, GrownTouched
  <1>7. ASSUME Begins(stacks, b, c)
        PROVE  Begins(m, bb, c)
    <2>1. ASSUME NEW q \in Paths
          PROVE  IF Touched(m.undo, q) THEN StartsAt(m.undo, q, c[q])
                 ELSE bb[q] = c[q] /\ EndsBefore(m.redo, q, c[q])
      <3>1. StartsAt(m.undo, q, c[q]) <=> \/ StartsAt(Pop(s), q, c[q])
                                          \/ q \in DOMAIN o /\ ~Touched(Pop(s), q) /\ o[q].before = c[q]
        BY <1>2, <1>4, GrownSays
      <3>2. StartsAt(s, q, c[q]) <=> \/ StartsAt(Pop(s), q, c[q])
                                     \/ q \in DOMAIN t /\ ~Touched(Pop(s), q) /\ t[q].before = c[q]
        BY <1>1, <1>2, GrownSays
      <3>3. EndsBefore(m.redo, q, c[q])
        BY <1>4, EmptySays
      <3>4. IF Touched(s, q) THEN StartsAt(s, q, c[q]) ELSE b[q] = c[q]
        BY <1>7 DEF Begins, s
      <3> QED BY <1>1, <1>3, <1>5, <1>6, <3>1, <3>2, <3>3, <3>4
    <2> QED BY <2>1 DEF Begins
  <1>8. ASSUME Joined(stacks, b)
        PROVE  Joined(m, bb)
    <2>1. ASSUME NEW q \in Paths
          PROVE  /\ EndsAfter(m.undo, q, bb[q]) /\ UndoLinked(m.undo, q)
                 /\ EndsBefore(m.redo, q, bb[q]) /\ RedoLinked(m.redo, q)
      <3>1. /\ EndsAfter(m.undo, q, bb[q])
                   <=> IF q \in DOMAIN o THEN o[q].after = bb[q] ELSE EndsAfter(Pop(s), q, bb[q])
            /\ EndsAfter(s, q, b[q])
                   <=> IF q \in DOMAIN t THEN t[q].after = b[q] ELSE EndsAfter(Pop(s), q, b[q])
        BY <1>1, <1>2, <1>4, GrownSays
      <3>2. /\ UndoLinked(m.undo, q) <=> /\ UndoLinked(Pop(s), q)
                                         /\ q \in DOMAIN o => EndsAfter(Pop(s), q, o[q].before)
            /\ UndoLinked(s, q) <=> /\ UndoLinked(Pop(s), q)
                                    /\ q \in DOMAIN t => EndsAfter(Pop(s), q, t[q].before)
        BY <1>1, <1>2, <1>4, GrownLinked
      <3>3. EndsBefore(m.redo, q, bb[q]) /\ RedoLinked(m.redo, q)
        BY <1>4, EmptySays
      <3>4. EndsAfter(s, q, b[q]) /\ UndoLinked(s, q)
        BY <1>8 DEF Joined, s
      <3> QED BY <1>1, <1>3, <3>1, <3>2, <3>3, <3>4
    <2> QED BY <2>1 DEF Joined
  <1>9. /\ SettledEdits(m.undo) <=> SettledEdits(Pop(s)) /\ SettledEdit(o)
        /\ SettledEdits(s) <=> SettledEdits(Pop(s)) /\ SettledEdit(t)
        /\ Within(m.undo, D) <=> Within(Pop(s), D) /\ DOMAIN o \subseteq D
        /\ Within(s, D) <=> Within(Pop(s), D) /\ DOMAIN t \subseteq D
        /\ SettledEdits(m.redo) /\ Within(m.redo, D)
    BY <1>1, <1>2, <1>4, GrownSettled, EmptySays
  <1>10. p # Router => SettledEdit(o)
    BY <1>3 DEF SettledEdit
  <1>11. /\ Regular(stacks) /\ p # Router => Regular(m)
         /\ Inside(stacks, D) => Inside(m, D)
    BY <1>1, <1>3, <1>9, <1>10 DEF Regular, Inside, s
  <1>12. /\ \A q \in Paths : Touched(m.undo, q) <=> Touched(stacks.undo, q)
         /\ Touched(stacks.undo, p)
    BY <1>5, <1>6 DEF s
  <1> QED BY <1>4, <1>7, <1>8, <1>11, <1>12 DEF m

(* An edit on top of the undo stack of s over the buffer b, or of the redo stack of m over bb: *)
(* undone it takes the one to the other, redone back again (step_history).                    *)
LEMMA CrossedSays ==
    ASSUME NEW s \in Stacks, NEW m \in Stacks, NEW t \in Edits,
           Grown(m.undo, t, s.undo), Grown(s.redo, t, m.redo),
           NEW b \in Buffers, NEW bb \in Buffers, NEW c \in Buffers, NEW D
    PROVE  /\ /\ \A p \in Paths : bb[p] = IF p \in DOMAIN t THEN t[p].before ELSE b[p]
              => /\ Begins(s, b, c) => Begins(m, bb, c)
                 /\ Joined(s, b) => Joined(m, bb)
           /\ /\ \A p \in Paths : b[p] = IF p \in DOMAIN t THEN t[p].after ELSE bb[p]
              => /\ Begins(m, bb, c) => Begins(s, b, c)
                 /\ Joined(m, bb) => Joined(s, b)
           /\ Joined(s, b) => \A p \in DOMAIN t : b[p] = t[p].after
           /\ Joined(m, bb) => \A p \in DOMAIN t : bb[p] = t[p].before
           /\ Regular(s) <=> Regular(m)
           /\ Regular(s) => SettledEdit(t)
           /\ Inside(s, D) <=> Inside(m, D)
           /\ Inside(s, D) => DOMAIN t \subseteq D
  <1>1. s.undo \in Seq(Edits) /\ s.redo \in Seq(Edits) /\ m.undo \in Seq(Edits)
        /\ m.redo \in Seq(Edits) /\ DOMAIN t \subseteq Paths
    BY StacksAre, EditsAre
  <1>2. \A p : Touched(s.undo, p) <=> Touched(m.undo, p) \/ p \in DOMAIN t
    BY <1>1, GrownTouched
  <1>3. \A p, v : StartsAt(s.undo, p, v) <=>
                      \/ StartsAt(m.undo, p, v)
                      \/ p \in DOMAIN t /\ ~Touched(m.undo, p) /\ t[p].before = v
    BY <1>1, GrownSays
  <1>4. \A p, v : EndsBefore(m.redo, p, v) <=>
                      IF p \in DOMAIN t THEN t[p].before = v ELSE EndsBefore(s.redo, p, v)
    BY <1>1, GrownSays
  <1>5. \A p, v : EndsAfter(s.undo, p, v) <=>
                      IF p \in DOMAIN t THEN t[p].after = v ELSE EndsAfter(m.undo, p, v)
    BY <1>1, GrownSays
  <1>6. \A p : UndoLinked(s.undo, p) <=> /\ UndoLinked(m.undo, p)
                                         /\ p \in DOMAIN t => EndsAfter(m.undo, p, t[p].before)
    BY <1>1, GrownLinked
  <1>7. \A p : RedoLinked(m.redo, p) <=> /\ RedoLinked(s.redo, p)
                                         /\ p \in DOMAIN t => EndsBefore(s.redo, p, t[p].after)
    BY <1>1, GrownLinked
  <1>8. \A p, v : StartsAt(m.undo, p, v) => Touched(m.undo, p)
    BY <1>1 DEF StartsAt, Touched, First
  <1>9. ASSUME \A p \in Paths : bb[p] = IF p \in DOMAIN t THEN t[p].before ELSE b[p]
        PROVE  /\ Begins(s, b, c) => Begins(m, bb, c)
               /\ Joined(s, b) => Joined(m, bb)
    <2>1. ASSUME Begins(s, b, c), NEW p \in Paths
          PROVE  IF Touched(m.undo, p) THEN StartsAt(m.undo, p, c[p])
                 ELSE bb[p] = c[p] /\ EndsBefore(m.redo, p, c[p])
      <3>1. IF Touched(s.undo, p) THEN StartsAt(s.undo, p, c[p])
            ELSE b[p] = c[p] /\ EndsBefore(s.redo, p, c[p])
        BY <2>1 DEF Begins
      <3> QED BY <3>1, <1>2, <1>3, <1>4, <1>8, <1>9
    <2>2. ASSUME Joined(s, b), NEW p \in Paths
          PROVE  /\ EndsAfter(m.undo, p, bb[p]) /\ UndoLinked(m.undo, p)
                 /\ EndsBefore(m.redo, p, bb[p]) /\ RedoLinked(m.redo, p)
      <3>1. /\ EndsAfter(s.undo, p, b[p]) /\ UndoLinked(s.undo, p)
            /\ EndsBefore(s.redo, p, b[p]) /\ RedoLinked(s.redo, p)
        BY <2>2 DEF Joined
      <3> QED BY <3>1, <1>4, <1>5, <1>6, <1>7, <1>9
    <2> QED BY <2>1, <2>2 DEF Begins, Joined
  <1>10. ASSUME \A p \in Paths : b[p] = IF p \in DOMAIN t THEN t[p].after ELSE bb[p]
         PROVE  /\ Begins(m, bb, c) => Begins(s, b, c)
                /\ Joined(m, bb) => Joined(s, b)
    <2>1. ASSUME Begins(m, bb, c), NEW p \in Paths
          PROVE  IF Touched(s.undo, p) THEN StartsAt(s.undo, p, c[p])
                 ELSE b[p] = c[p] /\ EndsBefore(s.redo, p, c[p])
      <3>1. IF Touched(m.undo, p) THEN StartsAt(m.undo, p, c[p])
            ELSE bb[p] = c[p] /\ EndsBefore(m.redo, p, c[p])
        BY <2>1 DEF Begins
      <3> QED BY <3>1, <1>2, <1>3, <1>4, <1>10
    <2>2. ASSUME Joined(m, bb), NEW p \in Paths
          PROVE  /\ EndsAfter(s.undo, p, b[p]) /\ UndoLinked(s.undo, p)
                 /\ EndsBefore(s.redo, p, b[p]) /\ RedoLinked(s.redo, p)
      <3>1. /\ EndsAfter(m.undo, p, bb[p]) /\ UndoLinked(m.undo, p)
            /\ EndsBefore(m.redo, p, bb[p]) /\ RedoLinked(m.redo, p)
        BY <2>2 DEF Joined
      <3> QED BY <3>1, <1>4, <1>5, <1>6, <1>7, <1>10
    <2> QED BY <2>1, <2>2 DEF Begins, Joined
  <1>11. Joined(s, b) => \A p \in DOMAIN t : b[p] = t[p].after
    BY <1>1, <1>5 DEF Joined
  <1>12. Joined(m, bb) => \A p \in DOMAIN t : bb[p] = t[p].before
    BY <1>1, <1>4 DEF Joined
  <1>13. /\ SettledEdits(s.undo) <=> SettledEdits(m.undo) /\ SettledEdit(t)
         /\ SettledEdits(m.redo) <=> SettledEdits(s.redo) /\ SettledEdit(t)
         /\ Within(s.undo, D) <=> Within(m.undo, D) /\ DOMAIN t \subseteq D
         /\ Within(m.redo, D) <=> Within(s.redo, D) /\ DOMAIN t \subseteq D
    BY <1>1, GrownSettled
  <1>14. /\ Regular(s) <=> Regular(m)
         /\ Regular(s) => SettledEdit(t)
         /\ Inside(s, D) <=> Inside(m, D)
         /\ Inside(s, D) => DOMAIN t \subseteq D
    BY <1>13 DEF Regular, Inside
  <1> QED BY <1>9, <1>10, <1>11, <1>12, <1>14

(* The step undone or redone, and the stacks after it. *)
LEMMA MovedIs ==
    ASSUME stacks \in Stacks, NEW kind \in {"Undo", "Redo"}, Stepped(kind) # <<>>
    PROVE  /\ Top(Stepped(kind)) \in Edits /\ Moved(kind) \in Stacks
           /\ kind = "Undo" => /\ Grown(Moved(kind).undo, Top(Stepped(kind)), stacks.undo)
                               /\ Grown(stacks.redo, Top(Stepped(kind)), Moved(kind).redo)
           /\ kind = "Redo" => /\ Grown(stacks.undo, Top(Stepped(kind)), Moved(kind).undo)
                               /\ Grown(Moved(kind).redo, Top(Stepped(kind)), stacks.redo)
  <1> DEFINE t == Top(Stepped(kind))
  <1>1. stacks.undo \in Seq(Edits) /\ stacks.redo \in Seq(Edits)
    BY StacksAre
  <1>2. CASE kind = "Undo"
    <2>1. Stepped(kind) = stacks.undo
      BY <1>2 DEF Stepped
    <2>2. Pop(stacks.undo) \in Seq(Edits) /\ t \in Edits /\ Grown(Pop(stacks.undo), t, stacks.undo)
      <3>1. stacks.undo # <<>>
        BY <2>1
      <3>2. t = Top(stacks.undo)
        BY <2>1
      <3> HIDE DEF t
      <3> QED BY <1>1, <3>1, <3>2, PopShrinks
    <2>3. Append(stacks.redo, t) \in Seq(Edits) /\ Grown(stacks.redo, t, Append(stacks.redo, t))
      BY <1>1, <2>2, AppendGrows
    <2>4. Moved(kind) = [undo |-> Pop(stacks.undo), redo |-> Append(stacks.redo, t)]
      BY <1>2, <2>1 DEF Moved
    <2> HIDE DEF t
    <2>5. Moved(kind) \in Stacks /\ Moved(kind).undo = Pop(stacks.undo)
          /\ Moved(kind).redo = Append(stacks.redo, t)
      BY <2>2, <2>3, <2>4 DEF Stacks
    <2> QED BY <2>2, <2>3, <2>5, <1>2 DEF t
  <1>3. CASE kind = "Redo"
    <2>1. Stepped(kind) = stacks.redo
      BY <1>3 DEF Stepped
    <2>2. Pop(stacks.redo) \in Seq(Edits) /\ t \in Edits /\ Grown(Pop(stacks.redo), t, stacks.redo)
      <3>1. stacks.redo # <<>>
        BY <2>1
      <3>2. t = Top(stacks.redo)
        BY <2>1
      <3> HIDE DEF t
      <3> QED BY <1>1, <3>1, <3>2, PopShrinks
    <2>3. Append(stacks.undo, t) \in Seq(Edits) /\ Grown(stacks.undo, t, Append(stacks.undo, t))
      BY <1>1, <2>2, AppendGrows
    <2>4. Moved(kind) = [undo |-> Append(stacks.undo, t), redo |-> Pop(stacks.redo)]
      BY <1>3, <2>1 DEF Moved
    <2> HIDE DEF t
    <2>5. Moved(kind) \in Stacks /\ Moved(kind).undo = Append(stacks.undo, t)
          /\ Moved(kind).redo = Pop(stacks.redo)
      BY <2>2, <2>3, <2>4 DEF Stacks
    <2> QED BY <2>2, <2>3, <2>5, <1>3 DEF t
  <1> QED BY <1>2, <1>3

(* What a step of the history writes, and what is known of the buffer it is written to. *)
LEMMA SteppedSays ==
    ASSUME stacks \in Stacks, NEW kind \in {"Undo", "Redo"}, Stepped(kind) # <<>>,
           NEW b \in Buffers, NEW c \in Buffers, NEW D, Regular(stacks)
    PROVE  LET t == Top(Stepped(kind))
               bb == All(Targets(kind, t), b)
           IN /\ Targets(kind, t) \in Partials /\ DOMAIN Targets(kind, t) = DOMAIN t
              /\ t \in Edits /\ SettledEdit(t)
              /\ Moved(kind) \in Stacks /\ Regular(Moved(kind))
              /\ Begins(stacks, b, c) => Begins(Moved(kind), bb, c)
              /\ Joined(stacks, b) => /\ Joined(Moved(kind), bb)
                                      /\ \A p \in DOMAIN t :
                                             b[p] = IF kind = "Undo" THEN t[p].after ELSE t[p].before
              /\ Inside(stacks, D) => Inside(Moved(kind), D) /\ DOMAIN t \subseteq D
  <1> DEFINE t == Top(Stepped(kind))
             w == Targets(kind, t)
             bb == All(w, b)
  <1>1. t \in Edits /\ Moved(kind) \in Stacks
    BY MovedIs
  <1>2. w \in Partials /\ DOMAIN w = DOMAIN t
        /\ \A p \in DOMAIN t : w[p] = IF kind = "Undo" THEN t[p].before ELSE t[p].after
    BY <1>1, SidesAre DEF Targets
  <1>3. bb \in Buffers /\ \A p \in Paths : bb[p] = IF p \in DOMAIN t THEN Held(p, w[p]) ELSE b[p]
    BY <1>2, AllIs
  <1>4. SettledEdit(t) =>
            \A p \in Paths : bb[p] = IF p \in DOMAIN t
                                     THEN IF kind = "Undo" THEN t[p].before ELSE t[p].after
                                     ELSE b[p]
    BY <1>2, <1>3 DEF SettledEdit, Held
  <1>5. CASE kind = "Undo"
    <2>1. Grown(Moved(kind).undo, t, stacks.undo) /\ Grown(stacks.redo, t, Moved(kind).redo)
      BY <1>5, MovedIs
    <2> HIDE DEF t, w, bb
    <2>2. /\ Regular(stacks) <=> Regular(Moved(kind))
          /\ Regular(stacks) => SettledEdit(t)
          /\ Joined(stacks, b) => \A p \in DOMAIN t : b[p] = t[p].after
          /\ Inside(stacks, D) <=> Inside(Moved(kind), D)
          /\ Inside(stacks, D) => DOMAIN t \subseteq D
      BY <1>1, <1>3, <2>1, CrossedSays
    <2>3. \A p \in Paths : bb[p] = IF p \in DOMAIN t THEN t[p].before ELSE b[p]
      BY <1>4, <1>5, <2>2
    <2>4. /\ Begins(stacks, b, c) => Begins(Moved(kind), bb, c)
          /\ Joined(stacks, b) => Joined(Moved(kind), bb)
      BY <1>1, <1>3, <2>1, <2>3, CrossedSays
    <2> QED BY <1>1, <1>2, <1>5, <2>2, <2>4 DEF t, w, bb
  <1>6. CASE kind = "Redo"
    <2>1. Grown(stacks.undo, t, Moved(kind).undo) /\ Grown(Moved(kind).redo, t, stacks.redo)
      BY <1>6, MovedIs
    <2> HIDE DEF t, w, bb
    <2>2. /\ Regular(Moved(kind)) <=> Regular(stacks)
          /\ Regular(Moved(kind)) => SettledEdit(t)
          /\ Joined(stacks, b) => \A p \in DOMAIN t : b[p] = t[p].before
          /\ Inside(Moved(kind), D) <=> Inside(stacks, D)
          /\ Inside(Moved(kind), D) => DOMAIN t \subseteq D
      BY <1>1, <1>3, <2>1, CrossedSays
    <2>3. \A p \in Paths : bb[p] = IF p \in DOMAIN t THEN t[p].after ELSE b[p]
      BY <1>4, <1>6, <2>2
    <2>4. /\ Begins(stacks, b, c) => Begins(Moved(kind), bb, c)
          /\ Joined(stacks, b) => Joined(Moved(kind), bb)
      BY <1>1, <1>3, <2>1, <2>3, CrossedSays
    <2> QED BY <1>1, <1>2, <1>6, <2>2, <2>4 DEF t, w, bb
  <1> QED BY <1>5, <1>6

----------------------------------------------------------------------------
(* Types                                                                     *)

LEMMA CommandHas ==
    ASSUME NEW c \in Commands
    PROVE  /\ c.kind = "SetNode" => c.path \in Paths /\ c.before \in Values /\ c.value \in Values
           /\ c.kind = "SetRouter" => c.before \in Values /\ c.value \in Values
           /\ c.kind = "Audition" => c.key \in Keys /\ c.tone \in Tones
           /\ c.kind \in {"SetNode", "SetRouter", "Audition", "Connect", "Disconnect", "Undo",
                          "Redo", "SelectPreset", "SavePreset", "EndAudition", "KeepAudition"}
  BY DEF Commands

LEMMA QueueIs ==
    ASSUME queue \in Seq(Commands)
    PROVE  /\ Len(queue) \in Nat /\ DOMAIN queue = 1..Len(queue)
           /\ \A i \in 1..Len(queue) : queue[i] \in Commands
           /\ queue = <<>> <=> Len(queue) = 0
           /\ queue # <<>> => /\ Command = queue[1] /\ Command \in Commands /\ 1 \in 1..Len(queue)
                              /\ Tail(queue) \in Seq(Commands) /\ Len(Tail(queue)) = Len(queue) - 1
                              /\ \A i \in 1..(Len(queue) - 1) :
                                     i + 1 \in 1..Len(queue) /\ Tail(queue)[i] = queue[i + 1]
  <1>1. Len(queue) \in Nat /\ DOMAIN queue = 1..Len(queue)
        /\ \A i \in 1..Len(queue) : queue[i] \in Commands
    BY LenProperties, ElementOfSeq
  <1>2. queue = <<>> <=> Len(queue) = 0
    BY EmptySeq, <1>1
  <1>3. ASSUME queue # <<>>
        PROVE  /\ Command = queue[1] /\ Command \in Commands /\ 1 \in 1..Len(queue)
               /\ Tail(queue) \in Seq(Commands) /\ Len(Tail(queue)) = Len(queue) - 1
               /\ \A i \in 1..(Len(queue) - 1) :
                      i + 1 \in 1..Len(queue) /\ Tail(queue)[i] = queue[i + 1]
    <2>1. 1 \in 1..Len(queue) /\ \A i \in 1..(Len(queue) - 1) : i + 1 \in 1..Len(queue)
      BY <1>1, <1>2, <1>3
    <2>2. Head(queue) = queue[1]
      OBVIOUS
    <2>3. Tail(queue) \in Seq(Commands) /\ Len(Tail(queue)) = Len(queue) - 1
          /\ \A i \in 1..Len(Tail(queue)) : Tail(queue)[i] = queue[i + 1]
      BY <1>3, HeadTailProperties
    <2>4. \A i \in 1..(Len(queue) - 1) : Tail(queue)[i] = queue[i + 1]
      BY <2>3
    <2> QED BY <1>1, <2>1, <2>2, <2>3, <2>4 DEF Command
  <1> QED BY <1>1, <1>2, <1>3

LEMMA AppendIs ==
    ASSUME queue \in Seq(Commands), NEW c
    PROVE  /\ c \in Commands => Append(queue, c) \in Seq(Commands)
           /\ Len(Append(queue, c)) = Len(queue) + 1 /\ Append(queue, c)[Len(queue) + 1] = c
           /\ \A i \in 1..Len(queue) : Append(queue, c)[i] = queue[i]
  BY QueueIs

LEMMA CoalescedIs ==
    ASSUME queue \in Seq(Commands), Len(queue) > 1,
           Command.kind = "SetNode", queue[2].kind = "SetNode", queue[2].path = Command.path
    PROVE  LET c == Coalesced(Command, queue[2])
               q == <<c>> \o SubSeq(queue, 3, Len(queue))
           IN /\ c \in Commands /\ q \in Seq(Commands) /\ Len(q) = Len(queue) - 1 /\ q[1] = c
              /\ \A i \in 2..(Len(queue) - 1) : i + 1 \in 1..Len(queue) /\ q[i] = queue[i + 1]
              /\ c.kind = "SetNode" /\ c.path = Command.path /\ c.before = Command.before
              /\ c.value = queue[2].value
  <1> DEFINE c == Coalesced(Command, queue[2])
             n == Len(queue)
             r == SubSeq(queue, 3, n)
  <1>1. n \in Nat /\ 1 \in 1..n /\ 2 \in 1..n /\ Command = queue[1]
        /\ \A i \in 1..n : queue[i] \in Commands
    BY QueueIs
  <1>2. Command \in [kind : {"SetNode"}, path : Paths, before : Values, value : Values]
        /\ queue[2].value \in Values
    <2>1. Command \in Commands /\ queue[2] \in Commands
      BY <1>1
    <2> QED BY <2>1 DEF Commands
  <1>3. c \in [kind : {"SetNode"}, path : Paths, before : Values, value : Values]
        /\ c.path = Command.path /\ c.before = Command.before /\ c.value = queue[2].value
    BY <1>2 DEF Coalesced
  <1>4. c \in Commands /\ c.kind = "SetNode"
    BY <1>3 DEF Commands
  <1>5. r \in Seq(Commands) /\ Len(r) = n - 2 /\ \A i \in 1..(n - 2) : r[i] = queue[i + 2]
    <2>1. /\ r \in Seq(Commands) /\ Len(r) = IF 3 <= n THEN n - 3 + 1 ELSE 0
          /\ \A i \in 1..(n - 3 + 1) : r[i] = queue[3 + i - 1]
      <3>1. 3 \in Int /\ n \in Int /\ \A i \in 3..n : queue[i] \in Commands
        BY <1>1
      <3> HIDE DEF n
      <3> QED BY <3>1, SubSeqProperties
    <2> HIDE DEF r, n
    <2>2. n > 1
      BY DEF n
    <2> QED BY <2>1, <2>2, <1>1
  <1>6. <<c>> \in Seq(Commands) /\ Len(<<c>>) = 1 /\ <<c>>[1] = c
    BY <1>4
  <1>7. <<c>> \o r \in Seq(Commands) /\ Len(<<c>> \o r) = n - 1 /\ (<<c>> \o r)[1] = c
        /\ \A i \in 2..(n - 1) : (<<c>> \o r)[i] = queue[i + 1]
    <2> DEFINE e == <<c>>
    <2> HIDE DEF c, r, e, n
    <2>1. e \in Seq(Commands) /\ Len(e) = 1 /\ e[1] = c
      BY <1>6 DEF e
    <2>2. /\ e \o r \in Seq(Commands) /\ Len(e \o r) = Len(e) + Len(r)
          /\ \A i \in 1..(Len(e) + Len(r)) : (e \o r)[i] = IF i <= Len(e) THEN e[i] ELSE r[i - Len(e)]
      BY <2>1, <1>5, ConcatProperties
    <2>3. n > 1 /\ n \in Nat
      BY <1>1 DEF n
    <2>4. Len(e \o r) = n - 1 /\ (e \o r)[1] = c
      BY <2>1, <2>2, <2>3, <1>5
    <2>5. ASSUME NEW i \in 2..(n - 1)
          PROVE  (e \o r)[i] = queue[i + 1]
      <3>1. i \in 1..(Len(e) + Len(r)) /\ ~(i <= Len(e)) /\ i - 1 \in 1..(n - 2) /\ (i - 1) + 2 = i + 1
        BY <2>1, <2>3, <1>5
      <3>2. (e \o r)[i] = r[i - 1]
        BY <3>1, <2>1, <2>2
      <3> QED BY <3>1, <3>2, <1>5
    <2> QED BY <2>2, <2>4, <2>5 DEF e
  <1>8. \A i \in 2..(n - 1) : i + 1 \in 1..n
    BY <1>1
  <1> QED BY <1>3, <1>4, <1>7, <1>8

(* The values an audition replaced, and what is taken back with them. *)
LEMMA HeldTyped ==
    ASSUME TypeOK
    PROVE  /\ Restored \in Buffers /\ TakenBack \in Stacks /\ BaseBack \in Buffers
           /\ \A S \in SUBSET DOMAIN audition_original :
                  Written(audition_original, S, buf) \in Buffers
           /\ \A p \in Paths, v \in Values : Remembered(p, v) \in Partials
           /\ \A t \in Partials : Replaced(t) \in Partials
           /\ Differences \in Edits
           /\ Nothing \in Partials /\ Blank \in Stacks
  <1>1. audition_original \in Partials /\ buf \in Buffers
    BY DEF TypeOK
  <1>2. DOMAIN audition_original \subseteq Paths
        /\ \A p \in DOMAIN audition_original : audition_original[p] \in Values
    BY <1>1, PartialIs
  <1>3. Restored \in Buffers
    BY <1>1, AllIs DEF Restored
  <1>4. TakenBack \in Stacks /\ BaseBack \in Buffers
    BY DEF TypeOK, TakenBack, BaseBack
  <1>5. \A S \in SUBSET DOMAIN audition_original : Written(audition_original, S, buf) \in Buffers
    BY <1>1, <1>2, WrittenIs
  <1>6. ASSUME NEW p \in Paths, NEW v \in Values
        PROVE  Remembered(p, v) \in Partials
    <2> DEFINE r == [q \in DOMAIN audition_original \cup {p} |->
                        IF q = p THEN v ELSE audition_original[q]]
    <2>1. r \in [DOMAIN audition_original \cup {p} -> Values]
      BY <1>2
    <2>2. r \in Partials
      BY <2>1, <1>2, PartialIs
    <2> HIDE DEF r
    <2> QED BY <2>2, <1>1 DEF Remembered, r
  <1>7. ASSUME NEW t \in Partials
        PROVE  Replaced(t) \in Partials
    <2>1. DOMAIN t \subseteq Paths
      BY PartialIs
    <2>2. Replaced(t) \in [DOMAIN t -> Values]
      BY <2>1, <1>3 DEF Replaced, Buffers
    <2> QED BY <2>1, <2>2, PartialIs
  <1>8. Differences \in Edits
    <2> DEFINE D == {p \in DOMAIN audition_original : audition_original[p] # buf[p]}
    <2>1. Differences = [p \in D |-> [before |-> audition_original[p], after |-> buf[p]]]
      BY DEF Differences
    <2>2. D \subseteq Paths /\ \A p \in D : audition_original[p] \in Values /\ buf[p] \in Values
      BY <1>1, <1>2 DEF Buffers
    <2> HIDE DEF D
    <2>3. Differences \in [D -> [before : Values, after : Values]]
      BY <2>1, <2>2
    <2> QED BY <2>2, <2>3, EditsAre
  <1> QED BY <1>3, <1>4, <1>5, <1>6, <1>7, <1>8, NothingIs, BlankSays, <1>1

(* What is written by a step of the history that is refused. *)
LEMMA RevertedTyped ==
    ASSUME NEW t \in Edits, NEW kind, NEW S \in SUBSET DOMAIN t, NEW R \in SUBSET S,
           NEW b \in Buffers
    PROVE  LET r == Reverted(kind, t, S, R, b)
           IN r \in Buffers /\ (Settled(b) => Settled(r))
  <1> DEFINE back == IF kind = "Undo" THEN Afters(t) ELSE Befores(t)
             done == Written(Targets(kind, t), S, b)
  <1>1. \A p \in DOMAIN t : p \in Paths /\ Targets(kind, t)[p] \in Values /\ back[p] \in Values
    BY SidesAre, EditHas DEF Targets
  <1>2. S \in SUBSET Paths /\ S \ R \in SUBSET Paths
    BY <1>1
  <1>3. done \in Buffers /\ (Settled(b) => Settled(done))
    BY <1>1, <1>2, WrittenIs
  <1>4. /\ Reverted(kind, t, S, R, b) = Written(back, S \ R, done)
        /\ Written(back, S \ R, done) \in Buffers
        /\ Settled(done) => Settled(Written(back, S \ R, done))
    <2>1. Reverted(kind, t, S, R, b) = Written(back, S \ R, done)
      BY DEF Reverted
    <2>2. \A p \in S \ R : back[p] \in Values
      BY <1>1
    <2> HIDE DEF back, done
    <2> QED BY <1>2, <1>3, <2>1, <2>2, WrittenIs
  <1> HIDE DEF back, done
  <1> QED BY <1>3, <1>4

(* What a put back that is refused part-way leaves. *)
LEMMA PartlyBackIs ==
    ASSUME TypeOK, PartlyBack
    PROVE  buf' \in Buffers /\ (Settled(buf) => Settled(buf'))
  <1>1. buf \in Buffers /\ DOMAIN audition_original \subseteq Paths
        /\ \A p \in DOMAIN audition_original : audition_original[p] \in Values
    BY PartialIs DEF TypeOK
  <1> PICK p \in DOMAIN audition_original : \E S \in SUBSET (DOMAIN audition_original \ {p}) :
            buf' \in Strayed({p}, Written(audition_original, S, buf))
    BY DEF PartlyBack
  <1>2. PICK S \in SUBSET (DOMAIN audition_original \ {p}) :
            buf' \in Strayed({p}, Written(audition_original, S, buf))
    OBVIOUS
  <1>3. S \in SUBSET Paths /\ {p} \in SUBSET Paths /\ \A q \in S : audition_original[q] \in Values
    BY <1>1
  <1>4. /\ Written(audition_original, S, buf) \in Buffers
        /\ Settled(buf) => Settled(Written(audition_original, S, buf))
    BY <1>1, <1>3, WrittenIs
  <1> QED BY <1>2, <1>3, <1>4, StrayedIs

(* What a command cut short leaves in the buffer. *)
LEMMA LeftTyped ==
    ASSUME TypeOK, queue # <<>>
    PROVE  \A b \in LeftBy(Command) :
               /\ b \in Buffers
               /\ Settled(buf) => Settled(b)
  <1> DEFINE c == Command
  <1>1. c \in Commands /\ buf \in Buffers /\ audition_original \in Partials /\ stacks \in Stacks
    BY QueueIs DEF TypeOK
  <1>2. ASSUME NEW w \in Partials, NEW d \in Buffers, NEW S \in SUBSET DOMAIN w
        PROVE  Written(w, S, d) \in Buffers /\ (Settled(d) => Settled(Written(w, S, d)))
    <2>1. S \in SUBSET Paths /\ \A p \in S : w[p] \in Values
      BY PartialIs
    <2> QED BY <2>1, WrittenIs
  <1>3. ASSUME NEW p \in Paths, NEW v \in Values
        PROVE  [q \in {p} |-> v] \in Partials
    <2>1. [q \in {p} |-> v] \in [{p} -> Values]
      OBVIOUS
    <2> QED BY <2>1, PartialIs
  <1>4. Restored \in Buffers /\ (Settled(buf) => Settled(Restored))
    BY <1>1, AllIs DEF Restored
  <1> SUFFICES ASSUME NEW b \in LeftBy(c)
               PROVE  b \in Buffers /\ (Settled(buf) => Settled(b))
    OBVIOUS
  <1>5. CASE c.kind = "SetNode"
    <2>1. [p \in {c.path} |-> c.value] \in Partials
      BY <1>1, <1>3, <1>5, CommandHas
    <2>2. PICK S \in SUBSET DOMAIN [p \in {c.path} |-> c.value] :
              b = Written([p \in {c.path} |-> c.value], S, buf)
      BY <1>5 DEF LeftBy
    <2> QED BY <1>1, <1>2, <2>1, <2>2
  <1>6. CASE c.kind = "SetRouter"
    <2>1. [p \in {Router} |-> c.value] \in Partials
      BY <1>1, <1>3, <1>6, CommandHas, WorkerAssumption
    <2>2. PICK S \in SUBSET DOMAIN [p \in {Router} |-> c.value] :
              b = Written([p \in {Router} |-> c.value], S, buf)
      BY <1>6 DEF LeftBy
    <2> QED BY <1>1, <1>2, <2>1, <2>2
  <1>7. CASE c.kind \in {"Undo", "Redo"}
    <2>1. CASE Stepped(c.kind) = <<>>
      BY <1>1, <1>7, <2>1 DEF LeftBy
    <2>2. CASE Stepped(c.kind) # <<>>
      <3>1. Top(Stepped(c.kind)) \in Edits
        BY <1>1, <1>7, <2>2, MovedIs
      <3>2. Targets(c.kind, Top(Stepped(c.kind))) \in Partials
        BY <3>1, SidesAre DEF Targets
      <3>3. PICK S \in SUBSET DOMAIN Targets(c.kind, Top(Stepped(c.kind))) :
                b = Written(Targets(c.kind, Top(Stepped(c.kind))), S, buf)
        BY <1>7, <2>2 DEF LeftBy
      <3> QED BY <1>1, <1>2, <3>2, <3>3
    <2> QED BY <2>1, <2>2
  <1>8. ASSUME NEW S \in SUBSET DOMAIN audition_original, b = Written(audition_original, S, buf)
        PROVE  b \in Buffers /\ (Settled(buf) => Settled(b))
    BY <1>1, <1>2, <1>8
  <1>9. CASE c.kind = "Audition"
    <2>1. c.tone \in Partials
      BY <1>1, <1>9, CommandHas, WorkerAssumption
    <2>2. CASE wanted # c.key
      BY <1>1, <1>9, <2>2 DEF LeftBy
    <2>3. CASE wanted = c.key
      <3>1. \/ \E S \in SUBSET DOMAIN audition_original : b = Written(audition_original, S, buf)
            \/ \E S \in SUBSET DOMAIN c.tone : b = Written(c.tone, S, Restored)
        BY <1>9, <2>3 DEF LeftBy
      <3> QED BY <1>2, <1>4, <1>8, <2>1, <3>1
    <2> QED BY <2>2, <2>3
  <1>10. CASE c.kind = "KeepAudition"
    BY <1>1, <1>10 DEF LeftBy
  <1>11. CASE c.kind \notin {"SetNode", "SetRouter", "Undo", "Redo", "Audition", "KeepAudition"}
    <2>1. \E S \in SUBSET DOMAIN audition_original : b = Written(audition_original, S, buf)
      BY <1>11 DEF LeftBy
    <2> QED BY <1>8, <2>1
  <1> QED BY <1>5, <1>6, <1>7, <1>9, <1>10, <1>11

LEMMA TypeInit ==
    ASSUME Init
    PROVE  TypeOK
  <1>1. buf \in Buffers /\ stored \in Buffers /\ Nothing \in Partials /\ Blank \in Stacks
        /\ <<>> \in Seq(Commands) /\ Len(<<>>) = 0
    BY WorkerAssumption, NothingIs, BlankSays, EmptySeq DEF Init
  <1>2. /\ wanted \in 0..MaxSends /\ heard \in 0..MaxSends /\ playing \in 0..MaxSends
        /\ sends \in 0..MaxSends /\ losses \in 0..MaxLosses /\ refusals \in 0..MaxRefusals
    BY WorkerAssumption DEF Init
  <1>3. queue \in Seq(Commands) /\ Len(queue) <= MaxQueue
    BY <1>1, WorkerAssumption DEF Init
  <1>4. /\ device \in BOOLEAN /\ guard \in BOOLEAN /\ burst \in BOOLEAN
        /\ spoiled \in BOOLEAN /\ drifted \in BOOLEAN /\ stale \in BOOLEAN /\ crossed \in BOOLEAN
    BY DEF Init
  <1>5. /\ audition_original \in Partials
        /\ audition \in Stacks \cup {None} /\ stacks \in Stacks
        /\ drafts \in Buffers /\ own \in Buffers /\ ownBase \in Buffers /\ base \in Buffers
    BY <1>1 DEF Init
  <1> QED BY <1>1, <1>2, <1>3, <1>4, <1>5 DEF TypeOK

(* What the panel and the window send. *)
LEMMA SendsTyped ==
    ASSUME TypeOK,
           \/ AskConnect \/ PutBack \/ KeepHeard \/ Withdraw
           \/ \E kind \in {"Disconnect", "Undo", "Redo", "SelectPreset", "SavePreset"} : Ask(kind)
           \/ \E p \in Paths, v \in Values : SendEdit(p, v)
           \/ \E v \in Values : Route(v)
           \/ \E tone \in Tones : Play(tone)
    PROVE  TypeOK'
  <1>1. queue \in Seq(Commands) /\ Len(queue) \in Nat /\ sends \in 0..MaxSends /\ MaxSends \in Nat
        /\ MaxQueue \in Nat /\ drafts \in Buffers
    BY QueueIs, WorkerAssumption DEF TypeOK
  <1>2. ASSUME NEW c \in Commands, Queues(c)
        PROVE  queue' \in Seq(Commands) /\ Len(queue') <= MaxQueue /\ sends' \in 0..MaxSends
               /\ sends + 1 \in Keys /\ sends' = sends + 1
    BY <1>1, <1>2, AppendIs DEF Queues, Keys
  <1>3. ASSUME NEW kind \in {"Connect", "Disconnect", "Undo", "Redo", "SelectPreset", "SavePreset",
                             "EndAudition", "KeepAudition"}
        PROVE  [kind |-> kind] \in Commands
    BY DEF Commands
  <1>4. ASSUME Sending, queue' \in Seq(Commands), Len(queue') <= MaxQueue, sends' \in 0..MaxSends,
               drafts' \in Buffers, wanted' \in 0..MaxSends, heard' \in 0..MaxSends,
               playing' \in 0..MaxSends, UNCHANGED crossed \/ Crosses
        PROVE  TypeOK'
    BY <1>4 DEF TypeOK, Sending, Crosses, pedal, session, work, bounds, ghosts
  <1>5. CASE AskConnect
    <2>1. queue' \in Seq(Commands) /\ Len(queue') <= MaxQueue
      BY <1>1, <1>3, <1>5, AppendIs DEF AskConnect
    <2> QED BY <1>4, <1>5, <2>1 DEF AskConnect, TypeOK, window
  <1>6. CASE \E kind \in {"Disconnect", "Undo", "Redo", "SelectPreset", "SavePreset"} : Ask(kind)
    <2> PICK kind \in {"Disconnect", "Undo", "Redo", "SelectPreset", "SavePreset"} : Ask(kind)
      BY <1>6
    <2>1. queue' \in Seq(Commands) /\ Len(queue') <= MaxQueue /\ sends' \in 0..MaxSends
      BY <1>2, <1>3 DEF Ask
    <2> QED BY <1>4, <2>1 DEF Ask, TypeOK, window
  <1>7. CASE \E p \in Paths, v \in Values : SendEdit(p, v)
    <2> PICK p \in Paths, v \in Values : SendEdit(p, v)
      BY <1>7
    <2>1. drafts[p] \in Values /\ drafts' \in Buffers
      BY <1>1 DEF SendEdit, Buffers
    <2>2. [kind |-> "SetNode", path |-> p, before |-> drafts[p], value |-> v] \in Commands
      BY <2>1 DEF Commands
    <2>3. queue' \in Seq(Commands) /\ Len(queue') <= MaxQueue /\ sends' \in 0..MaxSends
      BY <1>2, <2>2 DEF SendEdit
    <2> QED BY <1>4, <2>1, <2>3 DEF SendEdit, TypeOK, window
  <1>8. CASE \E v \in Values : Route(v)
    <2> PICK v \in Values : Route(v)
      BY <1>8
    <2>1. drafts[Router] \in Values
      BY <1>1, WorkerAssumption DEF Buffers
    <2>2. [kind |-> "SetRouter", before |-> drafts[Router], value |-> v] \in Commands
      BY <2>1 DEF Commands
    <2>3. queue' \in Seq(Commands) /\ Len(queue') <= MaxQueue /\ sends' \in 0..MaxSends
      BY <1>2, <2>2 DEF Route
    <2> QED BY <1>4, <2>3 DEF Route, TypeOK, window
  <1>9. CASE \E tone \in Tones : Play(tone)
    <2> PICK tone \in Tones : Play(tone)
      BY <1>9
    <2>1. sends + 1 \in Keys
      BY <1>1 DEF Play, Queues, Keys
    <2>2. [kind |-> "Audition", key |-> sends + 1, tone |-> tone] \in Commands
      BY <2>1 DEF Commands
    <2>3. queue' \in Seq(Commands) /\ Len(queue') <= MaxQueue /\ sends' \in 0..MaxSends
      BY <1>2, <2>2 DEF Play
    <2>4. wanted' \in 0..MaxSends /\ heard' \in 0..MaxSends
      BY <1>1, <2>1 DEF Play, Keys
    <2> QED BY <1>4, <2>3, <2>4 DEF Play, TypeOK
  <1>10. ASSUME Ends
         PROVE  queue' \in Seq(Commands) /\ Len(queue') <= MaxQueue /\ sends' \in 0..MaxSends
                /\ wanted' \in 0..MaxSends
    <2>1. [kind |-> "EndAudition"] \in Commands /\ Queues([kind |-> "EndAudition"])
      BY <1>3, <1>10 DEF Ends
    <2> QED BY <1>1, <1>2, <1>10, <2>1 DEF Ends
  <1>11. CASE PutBack
    BY <1>1, <1>4, <1>10, <1>11 DEF PutBack, TypeOK
  <1>12. CASE KeepHeard
    <2>1. [kind |-> "KeepAudition"] \in Commands /\ Queues([kind |-> "KeepAudition"])
      BY <1>3, <1>12 DEF KeepHeard
    <2> QED BY <1>1, <1>2, <1>4, <1>12, <2>1 DEF KeepHeard, TypeOK
  <1>13. CASE Withdraw
    <2>1. queue' \in Seq(Commands) /\ Len(queue') <= MaxQueue /\ sends' \in 0..MaxSends
          /\ wanted' \in 0..MaxSends
      BY <1>1, <1>10, <1>13 DEF Withdraw, TypeOK
    <2> QED BY <1>1, <1>4, <1>13, <2>1 DEF Withdraw, TypeOK
  <1> QED BY <1>5, <1>6, <1>7, <1>8, <1>9, <1>11, <1>12, <1>13

(* The counters and the queue once a command is taken. *)
LEMMA HandlingTyped ==
    ASSUME TypeOK, queue # <<>>, queue' = Tail(queue)
    PROVE  queue' \in Seq(Commands) /\ Len(queue') <= MaxQueue
  BY QueueIs, WorkerAssumption DEF TypeOK

LEMMA RefusedTyped ==
    ASSUME TypeOK
    PROVE  /\ Done => refusals' \in 0..MaxRefusals /\ losses' \in 0..MaxLosses
                      /\ device' \in BOOLEAN /\ guard' \in BOOLEAN
           /\ Refused(1) => refusals' \in 0..MaxRefusals /\ losses' \in 0..MaxLosses
                            /\ device' \in BOOLEAN /\ guard' \in BOOLEAN
           /\ Refused(2) => refusals' \in 0..MaxRefusals /\ losses' \in 0..MaxLosses
                            /\ device' \in BOOLEAN /\ guard' \in BOOLEAN
           /\ \A S \in SUBSET Paths :
                  /\ Cardinality(S) \in Nat
                  /\ Refused(1 + Cardinality(S)) =>
                         /\ refusals' \in 0..MaxRefusals /\ losses' \in 0..MaxLosses
                         /\ device' \in BOOLEAN /\ guard' \in BOOLEAN
  <1>1. refusals \in 0..MaxRefusals /\ MaxRefusals \in Nat /\ losses \in 0..MaxLosses
        /\ device \in BOOLEAN /\ guard \in BOOLEAN
    BY WorkerAssumption DEF TypeOK
  <1>2. ASSUME NEW n \in Nat, Refused(n)
        PROVE  refusals' \in 0..MaxRefusals /\ losses' \in 0..MaxLosses
               /\ device' \in BOOLEAN /\ guard' \in BOOLEAN
    <2>1. refusals + n <= MaxRefusals /\ refusals' = refusals + n
      BY <1>2 DEF Refused
    <2>2. refusals' \in 0..MaxRefusals
      BY <1>1, <2>1
    <2> QED BY <1>1, <1>2, <2>2 DEF Refused
  <1>3. Done => refusals' \in 0..MaxRefusals /\ losses' \in 0..MaxLosses
                /\ device' \in BOOLEAN /\ guard' \in BOOLEAN
    BY <1>1 DEF Done, bounds
  <1>4. \A S \in SUBSET Paths : Cardinality(S) \in Nat
    BY WorkerAssumption, FS_Subset, FS_CardinalityType
  <1>5. 1 \in Nat /\ 2 \in Nat /\ \A S \in SUBSET Paths : 1 + Cardinality(S) \in Nat
    BY <1>4
  <1> QED BY <1>2, <1>3, <1>4, <1>5

(* What the worker does, command by command. *)
LEMMA CommandsTyped ==
    ASSUME TypeOK,
           \/ Coalesce \/ SetNode \/ SetRouter \/ StepHistory \/ PutBackRefused
           \/ Disconnect \/ Connect \/ PassesOver
    PROVE  TypeOK'
  <1>1. /\ buf \in Buffers /\ drafts \in Buffers /\ stacks \in Stacks /\ Router \in Paths
        /\ queue \in Seq(Commands) /\ MaxQueue \in Nat /\ MaxSends \in Nat
        /\ spoiled \in BOOLEAN /\ drifted \in BOOLEAN /\ stale \in BOOLEAN
        /\ crossed \in BOOLEAN /\ Len(queue) \in Nat
    BY WorkerAssumption, QueueIs DEF TypeOK
  <1>2. ASSUME NEW kinds, Handling(kinds)
        PROVE  /\ Command \in Commands /\ Command.kind \in kinds /\ queue # <<>>
               /\ queue' \in Seq(Commands) /\ Len(queue') <= MaxQueue
               /\ UNCHANGED <<wanted, sends>>
    BY <1>1, <1>2, QueueIs, HandlingTyped DEF Handling
  <1>3. CASE Coalesce
    <2>1. queue' \in Seq(Commands) /\ Len(queue') = Len(queue) - 1
      BY <1>1, <1>3, CoalescedIs DEF Coalesce
    <2>2. Len(queue') <= MaxQueue
      BY <1>1, <2>1 DEF TypeOK
    <2> QED BY <1>3, <2>1, <2>2 DEF Coalesce, TypeOK, pedal, session, work, window, bounds, ghosts
  <1>4. CASE SetNode
    <2>1. /\ Command \in Commands /\ Command.kind = "SetNode"
          /\ queue' \in Seq(Commands) /\ Len(queue') <= MaxQueue /\ UNCHANGED <<wanted, sends>>
      BY <1>2, <1>4 DEF SetNode
    <2>2. Command.path \in Paths /\ Command.before \in Values /\ Command.value \in Values
      BY <2>1, CommandHas
    <2>3. audition_original' \in Partials
      BY <1>4, <2>2, HeldTyped DEF SetNode
    <2>4. buf' \in Buffers /\ drafts' \in Buffers
      <3>1. \A x \in Strayed({Command.path}, buf) : x \in Buffers
        BY <1>1, <2>2, StrayedIs
      <3>2. [buf EXCEPT ![Command.path] = Command.value] \in Buffers
        BY <1>1, <2>2 DEF Buffers
      <3>3. buf' \in Buffers
        BY <1>4, <3>1, <3>2 DEF SetNode
      <3>4. drafts' \in Buffers
        BY <1>1, <1>4, <2>2 DEF SetNode, Shows, Buffers
      <3> QED BY <3>3, <3>4
    <2>5. stacks' \in Stacks /\ burst' \in BOOLEAN
      <3> DEFINE t == One(Command.path, Command.before, Command.value)
      <3>1. t \in Edits
        BY <2>2, OneIs
      <3>2. Recorded(stacks, t) \in Stacks
        BY <1>1, <3>1, RecordedSays
      <3>3. Merges(Command.path) => Merged(Command.path, Command.value) \in Stacks
        <4>1. ASSUME Merges(Command.path)
              PROVE  Merged(Command.path, Command.value) \in Stacks
          <5>1. [buf EXCEPT ![Command.path] = Command.value] \in Buffers
            BY <1>1, <2>2 DEF Buffers
          <5>2. /\ \A q \in Paths : q # Command.path =>
                       [buf EXCEPT ![Command.path] = Command.value][q] = buf[q]
                /\ [buf EXCEPT ![Command.path] = Command.value][Command.path] = Command.value
            BY <1>1, <2>2 DEF Buffers
          <5> QED BY <1>1, <2>2, <4>1, <5>1, <5>2, MergedSays
        <4> QED BY <4>1
      <3> HIDE DEF t
      <3> QED BY <1>1, <1>4, <3>2, <3>3 DEF SetNode, TypeOK, t
    <2>6. spoiled' \in BOOLEAN /\ drifted' \in BOOLEAN /\ stale' \in BOOLEAN /\ crossed' \in BOOLEAN
      BY <1>1, <1>4 DEF SetNode
    <2>7. /\ refusals' \in 0..MaxRefusals /\ losses' \in 0..MaxLosses
          /\ device' \in BOOLEAN /\ guard' \in BOOLEAN
      BY <1>4, RefusedTyped DEF SetNode
    <2> QED BY <1>4, <2>1, <2>3, <2>4, <2>5, <2>6, <2>7 DEF SetNode, TypeOK, window
  <1>5. CASE SetRouter
    <2>1. /\ Command \in Commands /\ Command.kind = "SetRouter"
          /\ queue' \in Seq(Commands) /\ Len(queue') <= MaxQueue /\ UNCHANGED <<wanted, sends>>
      BY <1>2, <1>5 DEF SetRouter
    <2>2. Command.before \in Values /\ Command.value \in Values /\ Keep[Command.value] \in Values
      BY <2>1, CommandHas, WorkerAssumption
    <2>3. audition_original' \in Partials
      BY <1>1, <1>5, <2>2, HeldTyped DEF SetRouter, TypeOK
    <2>4. buf' \in Buffers /\ drafts' \in Buffers
      BY <1>1, <1>5, <2>2 DEF SetRouter, Shows, Unsaid, Routed, Buffers
    <2>5. stacks' \in Stacks /\ burst' \in BOOLEAN
      <3> DEFINE t == One(Router, Command.before, Keep[Command.value])
      <3>1. t \in Edits
        BY <1>1, <2>2, OneIs
      <3>2. Recorded(stacks, t) \in Stacks
        BY <1>1, <3>1, RecordedSays
      <3> HIDE DEF t
      <3> QED BY <1>1, <1>5, <3>2 DEF SetRouter, TypeOK, t
    <2>6. spoiled' \in BOOLEAN /\ drifted' \in BOOLEAN /\ stale' \in BOOLEAN
      BY <1>1, <1>5 DEF SetRouter, Unsaid
    <2>7. /\ refusals' \in 0..MaxRefusals /\ losses' \in 0..MaxLosses
          /\ device' \in BOOLEAN /\ guard' \in BOOLEAN
      BY <1>5, RefusedTyped DEF SetRouter
    <2> QED BY <1>5, <2>1, <2>3, <2>4, <2>5, <2>6, <2>7 DEF SetRouter, TypeOK, window
  <1>6. CASE StepHistory
    <2>1. /\ Command \in Commands /\ Command.kind \in {"Undo", "Redo"}
          /\ queue' \in Seq(Commands) /\ Len(queue') <= MaxQueue /\ UNCHANGED <<wanted, sends>>
      BY <1>2, <1>6 DEF StepHistory
    <2>2. /\ Top(Stepped(Command.kind)) \in Edits /\ Moved(Command.kind) \in Stacks
          /\ Targets(Command.kind, Top(Stepped(Command.kind))) \in Partials
      <3>1. Top(Stepped(Command.kind)) \in Edits /\ Moved(Command.kind) \in Stacks
        BY <1>1, <1>6, <2>1, MovedIs DEF StepHistory
      <3> QED BY <3>1, SidesAre DEF Targets
    <2> DEFINE t == Top(Stepped(Command.kind))
    <2>3. /\ buf' \in Buffers /\ drafts' \in Buffers /\ stacks' \in Stacks
          /\ refusals' \in 0..MaxRefusals /\ losses' \in 0..MaxLosses
          /\ device' \in BOOLEAN /\ guard' \in BOOLEAN /\ spoiled' \in BOOLEAN /\ stale' \in BOOLEAN
      <3>1. ASSUME Done, buf' = All(Targets(Command.kind, t), buf),
                   drafts' = All(Targets(Command.kind, t), drafts),
                   stacks' = Moved(Command.kind), UNCHANGED <<spoiled, stale>>
            PROVE  /\ buf' \in Buffers /\ drafts' \in Buffers /\ stacks' \in Stacks
                   /\ refusals' \in 0..MaxRefusals /\ losses' \in 0..MaxLosses
                   /\ device' \in BOOLEAN /\ guard' \in BOOLEAN /\ spoiled' \in BOOLEAN
                   /\ stale' \in BOOLEAN
        BY <1>1, <2>2, <3>1, AllIs, RefusedTyped
      <3>2. ASSUME NEW p \in DOMAIN t, NEW S \in SUBSET (DOMAIN t \ {p}), NEW R \in SUBSET S,
                   NEW left \in SUBSET {p}, Refused(1 + Cardinality(R)),
                   buf' \in Strayed(R \cup left, Reverted(Command.kind, t, S, R, buf)),
                   spoiled' \in BOOLEAN, Unsaid, UNCHANGED stacks
            PROVE  /\ buf' \in Buffers /\ drafts' \in Buffers /\ stacks' \in Stacks
                   /\ refusals' \in 0..MaxRefusals /\ losses' \in 0..MaxLosses
                   /\ device' \in BOOLEAN /\ guard' \in BOOLEAN /\ spoiled' \in BOOLEAN
                   /\ stale' \in BOOLEAN
        <4>1. S \in SUBSET DOMAIN t /\ R \cup left \in SUBSET Paths /\ R \in SUBSET Paths
          BY <2>2, EditsAre
        <4>2. Reverted(Command.kind, t, S, R, buf) \in Buffers
          BY <1>1, <2>2, <4>1, RevertedTyped
        <4>3. buf' \in Buffers
          BY <3>2, <4>1, <4>2, StrayedIs
        <4>4. drafts' \in Buffers /\ stacks' \in Stacks /\ stale' \in BOOLEAN
          BY <1>1, <3>2 DEF Unsaid
        <4>5. /\ refusals' \in 0..MaxRefusals /\ losses' \in 0..MaxLosses
              /\ device' \in BOOLEAN /\ guard' \in BOOLEAN
          BY <3>2, <4>1, RefusedTyped
        <4> QED BY <3>2, <4>3, <4>4, <4>5
      <3>3. CASE \E p \in DOMAIN t : \E S \in SUBSET (DOMAIN t \ {p}) :
                 \E R \in SUBSET S : \E left \in SUBSET {p} :
                    /\ Refused(1 + Cardinality(R))
                    /\ buf' \in Strayed(R \cup left, Reverted(Command.kind, t, S, R, buf)) /\ Unsaid
                    /\ spoiled' = (spoiled \/ left # {} \/ R # {} \/ (drifted /\ S # {}))
                    /\ UNCHANGED stacks
        <4>1. PICK p \in DOMAIN t : \E S \in SUBSET (DOMAIN t \ {p}) :
                 \E R \in SUBSET S : \E left \in SUBSET {p} :
                    /\ Refused(1 + Cardinality(R))
                    /\ buf' \in Strayed(R \cup left, Reverted(Command.kind, t, S, R, buf)) /\ Unsaid
                    /\ spoiled' \in BOOLEAN /\ UNCHANGED stacks
          BY <3>3
        <4> QED BY <3>2, <4>1
      <3>4. CASE /\ Done
                 /\ buf' = All(Targets(Command.kind, t), buf)
                 /\ Shows(All(Targets(Command.kind, t), drafts))
                 /\ stacks' = Moved(Command.kind) /\ UNCHANGED <<spoiled, stale>>
        BY <3>1, <3>4 DEF Shows
      <3> QED BY <1>6, <3>3, <3>4 DEF StepHistory
    <2> QED BY <1>6, <2>1, <2>3 DEF StepHistory, TypeOK, window
  <1>7. CASE PutBackRefused
    <2>1. queue' \in Seq(Commands) /\ Len(queue') <= MaxQueue /\ UNCHANGED <<wanted, sends>>
      BY <1>2, <1>7 DEF PutBackRefused
    <2>2. buf' \in Buffers /\ audition_original' \in Partials
      BY <1>7, HeldTyped, PartlyBackIs DEF PutBackRefused
    <2>3. /\ refusals' \in 0..MaxRefusals /\ losses' \in 0..MaxLosses
          /\ device' \in BOOLEAN /\ guard' \in BOOLEAN
      BY <1>7, RefusedTyped DEF PutBackRefused
    <2> QED BY <1>7, <2>1, <2>2, <2>3 DEF PutBackRefused, Unsaid, TypeOK, window
  <1>8. CASE Disconnect
    <2>1. queue' \in Seq(Commands) /\ Len(queue') <= MaxQueue /\ UNCHANGED <<wanted, sends>>
      BY <1>2, <1>8 DEF Disconnect
    <2>2. buf' \in Buffers /\ Nothing \in Partials /\ Blank \in Stacks
      BY <1>8, HeldTyped DEF Disconnect
    <2> QED BY <1>8, <2>1, <2>2 DEF Disconnect, AuditionOver, BeginsAnew, TypeOK, window, bounds
  <1>9. CASE Connect
    <2>1. queue' \in Seq(Commands) /\ Len(queue') <= MaxQueue
      BY <1>9, HandlingTyped DEF Connect
    <2>2. buf' \in Buffers /\ Nothing \in Partials /\ Blank \in Stacks
      BY <1>9, HeldTyped DEF Connect, TypeOK
    <2> QED BY <1>9, <2>1, <2>2
        DEF Connect, AuditionOver, BeginsAnew, Refreshed, Shows, TypeOK, window, bounds
  <1>10. CASE PassesOver
    <2>1. queue' \in Seq(Commands) /\ Len(queue') <= MaxQueue
      BY <1>10, HandlingTyped DEF PassesOver
    <2>2. stacks' \in Stacks
      BY <1>10, HeldTyped DEF PassesOver, TypeOK
    <2>3. playing' \in 0..MaxSends /\ heard' \in 0..MaxSends /\ burst' \in BOOLEAN
      BY <1>1, <1>10 DEF PassesOver, SaysNone, window, TypeOK
    <2> QED BY <1>10, <2>1, <2>2, <2>3 DEF PassesOver, TypeOK, pedal, session, bounds, ghosts
  <1> QED BY <1>3, <1>4, <1>5, <1>6, <1>7, <1>8, <1>9, <1>10

LEMMA PresetsTyped ==
    ASSUME TypeOK,
           \/ SelectPreset \/ SavePreset \/ Audition \/ EndAudition \/ KeepAudition \/ SessionLost
    PROVE  TypeOK'
  <1>1. /\ buf \in Buffers /\ drafts \in Buffers /\ stacks \in Stacks /\ Router \in Paths
        /\ queue \in Seq(Commands) /\ MaxQueue \in Nat /\ MaxSends \in Nat
        /\ spoiled \in BOOLEAN /\ drifted \in BOOLEAN /\ stale \in BOOLEAN
        /\ crossed \in BOOLEAN /\ Len(queue) \in Nat
    BY WorkerAssumption, QueueIs DEF TypeOK
  <1>2. ASSUME NEW kinds, Handling(kinds)
        PROVE  /\ Command \in Commands /\ Command.kind \in kinds /\ queue # <<>>
               /\ queue' \in Seq(Commands) /\ Len(queue') <= MaxQueue
               /\ UNCHANGED <<wanted, sends>>
    BY <1>1, <1>2, QueueIs, HandlingTyped DEF Handling
  <1>3. SaysNone => playing' \in 0..MaxSends /\ heard' \in 0..MaxSends
    BY <1>1 DEF SaysNone, TypeOK
  <1>4. UNCHANGED window => playing' \in 0..MaxSends /\ heard' \in 0..MaxSends
    BY DEF window, TypeOK
  <1>5. /\ Restored \in Buffers /\ TakenBack \in Stacks /\ BaseBack \in Buffers
        /\ Nothing \in Partials /\ Blank \in Stacks /\ Differences \in Edits
    BY HeldTyped
  <1>6. AuditionOver => /\ audition_original' \in Partials /\ audition' \in Stacks \cup {None}
                        /\ own' \in Buffers /\ ownBase' \in Buffers
    BY <1>5 DEF AuditionOver, TypeOK
  <1>7. CASE SelectPreset
    <2>1. queue' \in Seq(Commands) /\ Len(queue') <= MaxQueue /\ UNCHANGED <<wanted, sends>>
      BY <1>2, <1>7 DEF SelectPreset
    <2>2. /\ buf' \in Buffers /\ stored' \in Buffers /\ drafts' \in Buffers /\ base' \in Buffers
          /\ stacks' \in Stacks /\ spoiled' \in BOOLEAN /\ drifted' \in BOOLEAN
          /\ stale' \in BOOLEAN /\ crossed' \in BOOLEAN
      BY <1>1, <1>5, <1>7, WorkerAssumption
         DEF SelectPreset, Refreshed, Unsaid, BeginsAnew, Shows, TypeOK
    <2>3. /\ refusals' \in 0..MaxRefusals /\ losses' \in 0..MaxLosses
          /\ device' \in BOOLEAN /\ guard' \in BOOLEAN
      BY <1>7, RefusedTyped DEF SelectPreset
    <2> QED BY <1>3, <1>6, <1>7, <2>1, <2>2, <2>3 DEF SelectPreset, TypeOK
  <1>8. CASE SavePreset
    <2>1. queue' \in Seq(Commands) /\ Len(queue') <= MaxQueue /\ UNCHANGED <<wanted, sends>>
      BY <1>2, <1>8 DEF SavePreset
    <2>2. buf' \in Buffers /\ base' \in Buffers /\ stacks' \in Stacks
      BY <1>5, <1>8 DEF SavePreset, Saved
    <2>3. stored' \in Buffers /\ drafts' \in Buffers /\ spoiled' \in BOOLEAN /\ drifted' \in BOOLEAN
          /\ stale' \in BOOLEAN
      BY <1>1, <1>8, <2>2 DEF SavePreset, Refreshed, Unsaid, Shows, TypeOK
    <2>4. /\ refusals' \in 0..MaxRefusals /\ losses' \in 0..MaxLosses
          /\ device' \in BOOLEAN /\ guard' \in BOOLEAN
      BY <1>8, RefusedTyped DEF SavePreset
    <2>5. playing' \in 0..MaxSends /\ heard' \in 0..MaxSends
      BY <1>3, <1>4, <1>8 DEF SavePreset
    <2> QED BY <1>6, <1>8, <2>1, <2>2, <2>3, <2>4, <2>5 DEF SavePreset, TypeOK
  <1>9. ASSUME NEW key \in Keys, Failed(key)
        PROVE  /\ stacks' \in Stacks /\ base' \in Buffers /\ drafts' \in Buffers
               /\ audition_original' \in Partials /\ audition' \in Stacks \cup {None}
               /\ own' \in Buffers /\ ownBase' \in Buffers /\ stale' \in BOOLEAN
               /\ playing' \in 0..MaxSends /\ heard' \in 0..MaxSends
    BY <1>1, <1>5, <1>6, <1>9 DEF Failed, Unsaid, TypeOK
  <1>10. CASE Audition
    <2>1. /\ Command \in Commands /\ Command.kind = "Audition"
          /\ queue' \in Seq(Commands) /\ Len(queue') <= MaxQueue /\ UNCHANGED <<wanted, sends>>
      BY <1>2, <1>10 DEF Audition
    <2>2. Command.key \in Keys /\ Command.tone \in Partials /\ Command.key \in 0..MaxSends
      BY <1>1, <2>1, CommandHas, WorkerAssumption DEF Keys
    <2> DEFINE tone == Command.tone
    <2>3. /\ buf' \in Buffers /\ drafts' \in Buffers /\ base' \in Buffers /\ stacks' \in Stacks
          /\ audition_original' \in Partials /\ audition' \in Stacks \cup {None}
          /\ own' \in Buffers /\ ownBase' \in Buffers /\ spoiled' \in BOOLEAN /\ stale' \in BOOLEAN
          /\ playing' \in 0..MaxSends /\ heard' \in 0..MaxSends
          /\ refusals' \in 0..MaxRefusals /\ losses' \in 0..MaxLosses
          /\ device' \in BOOLEAN /\ guard' \in BOOLEAN
      <3>1. ASSUME Done, buf' = All(tone, Restored), Refreshed, base' = buf',
                   audition_original' = Replaced(tone), audition' = TakenBack, stacks' = Blank,
                   own' = IF audition = None THEN buf ELSE own, ownBase' = BaseBack,
                   playing' = Command.key, UNCHANGED <<heard, spoiled>>
            PROVE  /\ buf' \in Buffers /\ drafts' \in Buffers /\ base' \in Buffers /\ stacks' \in Stacks
                   /\ audition_original' \in Partials /\ audition' \in Stacks \cup {None}
                   /\ own' \in Buffers /\ ownBase' \in Buffers /\ spoiled' \in BOOLEAN /\ stale' \in BOOLEAN
                   /\ playing' \in 0..MaxSends /\ heard' \in 0..MaxSends
                   /\ refusals' \in 0..MaxRefusals /\ losses' \in 0..MaxLosses
                   /\ device' \in BOOLEAN /\ guard' \in BOOLEAN
        <4>1. buf' \in Buffers
          BY <1>5, <2>2, <3>1, AllIs
        <4>2. audition_original' \in Partials
          BY <2>2, <3>1, HeldTyped
        <4>3. /\ refusals' \in 0..MaxRefusals /\ losses' \in 0..MaxLosses
              /\ device' \in BOOLEAN /\ guard' \in BOOLEAN
          BY <3>1, RefusedTyped
        <4>4. own' \in Buffers /\ ownBase' \in Buffers /\ heard' \in 0..MaxSends
              /\ spoiled' \in BOOLEAN /\ stale' \in BOOLEAN
          BY <1>1, <1>5, <3>1 DEF Refreshed, TypeOK
        <4> QED BY <1>5, <2>2, <3>1, <4>1, <4>2, <4>3, <4>4 DEF Refreshed, Shows
      <3>2. ASSUME Refused(1), Failed(Command.key), spoiled' = TRUE, PartlyBack
            PROVE  /\ buf' \in Buffers /\ drafts' \in Buffers /\ base' \in Buffers /\ stacks' \in Stacks
                   /\ audition_original' \in Partials /\ audition' \in Stacks \cup {None}
                   /\ own' \in Buffers /\ ownBase' \in Buffers /\ spoiled' \in BOOLEAN /\ stale' \in BOOLEAN
                   /\ playing' \in 0..MaxSends /\ heard' \in 0..MaxSends
                   /\ refusals' \in 0..MaxRefusals /\ losses' \in 0..MaxLosses
                   /\ device' \in BOOLEAN /\ guard' \in BOOLEAN
        <4>1. buf' \in Buffers
          BY <3>2, PartlyBackIs
        <4>2. /\ refusals' \in 0..MaxRefusals /\ losses' \in 0..MaxLosses
              /\ device' \in BOOLEAN /\ guard' \in BOOLEAN
          BY <3>2, RefusedTyped
        <4> QED BY <1>9, <2>2, <3>2, <4>1, <4>2
      <3>3. ASSUME NEW R \in SUBSET DOMAIN tone, NEW left \in SUBSET DOMAIN tone,
                   Refused(IF R = {} THEN 1 ELSE 2), Failed(Command.key),
                   buf' \in Strayed(R \cup left, Restored), spoiled' \in BOOLEAN
            PROVE  /\ buf' \in Buffers /\ drafts' \in Buffers /\ base' \in Buffers /\ stacks' \in Stacks
                   /\ audition_original' \in Partials /\ audition' \in Stacks \cup {None}
                   /\ own' \in Buffers /\ ownBase' \in Buffers /\ spoiled' \in BOOLEAN /\ stale' \in BOOLEAN
                   /\ playing' \in 0..MaxSends /\ heard' \in 0..MaxSends
                   /\ refusals' \in 0..MaxRefusals /\ losses' \in 0..MaxLosses
                   /\ device' \in BOOLEAN /\ guard' \in BOOLEAN
        <4>1. R \cup left \in SUBSET Paths
          BY <2>2, PartialIs
        <4>2. buf' \in Buffers
          BY <1>5, <3>3, <4>1, StrayedIs
        <4>3. /\ refusals' \in 0..MaxRefusals /\ losses' \in 0..MaxLosses
              /\ device' \in BOOLEAN /\ guard' \in BOOLEAN
          BY <3>3, RefusedTyped
        <4> QED BY <1>9, <2>2, <3>3, <4>2, <4>3
      <3>4. CASE /\ Done
                 /\ buf' = All(tone, Restored) /\ Refreshed /\ base' = buf'
                 /\ audition_original' = Replaced(tone)
                 /\ audition' = TakenBack /\ stacks' = Blank
                 /\ own' = IF audition = None THEN buf ELSE own
                 /\ ownBase' = BaseBack
                 /\ playing' = Command.key /\ UNCHANGED <<heard, spoiled>>
        BY <3>1, <3>4
      <3>5. CASE Refused(1) /\ PartlyBack /\ Failed(Command.key) /\ spoiled' = TRUE
        BY <3>2, <3>5
      <3>6. CASE \E R \in SUBSET DOMAIN tone : \E left \in SUBSET DOMAIN tone :
                    /\ Refused(IF R = {} THEN 1 ELSE 2)
                    /\ buf' \in Strayed(R \cup left, Restored)
                    /\ Failed(Command.key) /\ spoiled' \in BOOLEAN
        BY <3>3, <3>6
      <3> QED BY <1>10, <3>4, <3>5, <3>6 DEF Audition
    <2> QED BY <1>10, <2>1, <2>3 DEF Audition, TypeOK
  <1>11. CASE EndAudition
    <2>1. queue' \in Seq(Commands) /\ Len(queue') <= MaxQueue /\ UNCHANGED <<wanted, sends>>
      BY <1>2, <1>11 DEF EndAudition
    <2>2. buf' \in Buffers /\ base' \in Buffers /\ stacks' \in Stacks
      BY <1>5, <1>11 DEF EndAudition
    <2>3. drafts' \in Buffers /\ spoiled' \in BOOLEAN /\ playing' \in 0..MaxSends
          /\ heard' \in 0..MaxSends /\ stale' \in BOOLEAN
      BY <1>1, <1>3, <1>4, <1>11, <2>2 DEF EndAudition, Refreshed, Unsaid, Shows, window
    <2>4. /\ refusals' \in 0..MaxRefusals /\ losses' \in 0..MaxLosses
          /\ device' \in BOOLEAN /\ guard' \in BOOLEAN
      BY <1>11, RefusedTyped DEF EndAudition
    <2> QED BY <1>6, <1>11, <2>1, <2>2, <2>3, <2>4 DEF EndAudition, TypeOK
  <1>12. CASE KeepAudition
    <2>1. queue' \in Seq(Commands) /\ Len(queue') <= MaxQueue /\ UNCHANGED <<wanted, sends>>
      BY <1>2, <1>12 DEF KeepAudition
    <2>2. Recorded(TakenBack, Differences) \in Stacks
      BY <1>1, <1>5, RecordedSays
    <2>3. base' \in Buffers /\ stacks' \in Stacks /\ spoiled' \in BOOLEAN
          /\ playing' \in 0..MaxSends /\ heard' \in 0..MaxSends
          /\ audition_original' \in Partials /\ audition' \in Stacks \cup {None}
          /\ own' \in Buffers /\ ownBase' \in Buffers
      BY <1>1, <1>3, <1>4, <1>5, <1>6, <1>12, <2>2 DEF KeepAudition, window, TypeOK
    <2>4. /\ refusals' \in 0..MaxRefusals /\ losses' \in 0..MaxLosses
          /\ device' \in BOOLEAN /\ guard' \in BOOLEAN
      BY <1>12, RefusedTyped DEF KeepAudition
    <2> QED BY <1>12, <2>1, <2>3, <2>4 DEF KeepAudition, TypeOK, pedal
  <1>13. CASE SessionLost
    <2>1. /\ Command \in Commands /\ queue # <<>>
          /\ queue' \in Seq(Commands) /\ Len(queue') <= MaxQueue /\ UNCHANGED <<wanted, sends>>
      BY <1>2, <1>13 DEF SessionLost
    <2>2. buf' \in Buffers /\ stored' \in Buffers
      BY <1>13, <2>1, LeftTyped DEF SessionLost, TypeOK
    <2>3. Command.kind = "SetNode" => Command.path \in Paths /\ Command.before \in Values
      BY <2>1, CommandHas
    <2>4. drafts' \in Buffers /\ stacks' \in Stacks /\ burst' \in BOOLEAN
      BY <1>1, <1>5, <1>13, <2>3 DEF SessionLost, Shows, Buffers, TypeOK
    <2>5. Command.kind = "Audition" => Command.key \in Keys
      BY <2>1, CommandHas
    <2>6. playing' \in 0..MaxSends /\ heard' \in 0..MaxSends
      BY <1>1, <1>3, <1>4, <1>13, <2>5 DEF SessionLost, TypeOK
    <2>7. losses' \in 0..MaxLosses
      BY <1>13, WorkerAssumption DEF SessionLost, TypeOK
    <2> QED BY <1>6, <1>13, <2>1, <2>2, <2>4, <2>6, <2>7 DEF SessionLost, TypeOK
  <1> QED BY <1>7, <1>8, <1>10, <1>11, <1>12, <1>13

LEMMA TypeNext ==
    ASSUME TypeOK, [Next]_vars
    PROVE  TypeOK'
  <1>1. CASE UNCHANGED vars
    BY <1>1 DEF vars, pedal, session, work, window, bounds, ghosts, TypeOK
  <1>2. CASE Next
    BY <1>2, SendsTyped, CommandsTyped, PresetsTyped DEF Next
  <1> QED BY <1>1, <1>2

(* Every variable keeps its type, the stacks those of edits of known nodes, and the queue   *)
(* its bound (Worker and Panel).                                                              *)
THEOREM TypeCorrect == Spec => []TypeOK
  <1>1. Init => TypeOK
    BY TypeInit
  <1>2. TypeOK /\ [Next]_vars => TypeOK'
    BY TypeNext
  <1> QED BY <1>1, <1>2, PTL DEF Spec

----------------------------------------------------------------------------
(* The commands waiting                                                      *)

\* No edit of a node is one of the chain, a chain waits alone, and where none was asked for
\* across another command, live edits wait before all the others.
QueueOK ==
    /\ \A i \in 1..Len(queue) :
           /\ queue[i].kind = "SetNode" => queue[i].path # Router
           /\ queue[i].kind = "SetRouter" => Keep[queue[i].before] = queue[i].before
    /\ \A i, j \in 1..Len(queue) :
           queue[i].kind = "SetRouter" /\ queue[j].kind = "SetRouter" => i = j
    /\ ~crossed => \A i, j \in 1..Len(queue) :
           i < j /\ queue[j].kind \in Quiet => queue[i].kind \in Quiet

LEMMA QueueTail ==
    ASSUME queue \in Seq(Commands), QueueOK, queue # <<>>, queue' = Tail(queue),
           (crossed => crossed') \/ BeginsAnew
    PROVE  QueueOK'
  <1>1. Len(queue) \in Nat /\ Len(queue') = Len(queue) - 1
        /\ \A i \in 1..Len(queue') : i + 1 \in 1..Len(queue) /\ i + 1 > 1
                                   /\ queue'[i] = queue[i + 1]
        /\ DOMAIN queue = 1..Len(queue)
    BY QueueIs
  <1>2. ASSUME NEW i \in 1..Len(queue')
        PROVE  /\ queue'[i].kind = "SetNode" => queue'[i].path # Router
               /\ queue'[i].kind = "SetRouter" => Keep[queue'[i].before] = queue'[i].before
    BY <1>1 DEF QueueOK
  <1>3. ASSUME NEW i \in 1..Len(queue'), NEW j \in 1..Len(queue'),
               queue'[i].kind = "SetRouter", queue'[j].kind = "SetRouter"
        PROVE  i = j
    BY <1>1, <1>3 DEF QueueOK
  <1>4. ASSUME ~crossed', NEW i \in 1..Len(queue'), NEW j \in 1..Len(queue'),
               i < j, queue'[j].kind \in Quiet
        PROVE  queue'[i].kind \in Quiet
    <2>1. CASE crossed => crossed'
      BY <1>1, <1>4, <2>1 DEF QueueOK
    <2>2. CASE BeginsAnew
      BY <1>1, <1>4, <2>2 DEF BeginsAnew
    <2> QED BY <2>1, <2>2
  <1> QED BY <1>2, <1>3, <1>4 DEF QueueOK

LEMMA QueueAppend ==
    ASSUME queue \in Seq(Commands), QueueOK, NEW c, queue' = Append(queue, c),
           c.kind = "SetNode" => c.path # Router,
           c.kind = "SetRouter" =>
               Keep[c.before] = c.before /\ \A i \in 1..Len(queue) : queue[i].kind # "SetRouter",
           crossed => crossed',
           c.kind \in Quiet /\ ~crossed' => \A i \in 1..Len(queue) : queue[i].kind \in Quiet
    PROVE  QueueOK'
  <1>1. Len(queue) \in Nat /\ Len(queue') = Len(queue) + 1 /\ queue'[Len(queue')] = c
        /\ \A i \in 1..Len(queue') : i = Len(queue') \/ (i \in 1..Len(queue) /\ queue'[i] = queue[i])
    BY QueueIs, AppendIs
  <1>2. ASSUME NEW i \in 1..Len(queue')
        PROVE  /\ queue'[i].kind = "SetNode" => queue'[i].path # Router
               /\ queue'[i].kind = "SetRouter" => Keep[queue'[i].before] = queue'[i].before
    BY <1>1 DEF QueueOK
  <1>3. ASSUME NEW i \in 1..Len(queue'), NEW j \in 1..Len(queue'),
               queue'[i].kind = "SetRouter", queue'[j].kind = "SetRouter"
        PROVE  i = j
    BY <1>1, <1>3 DEF QueueOK
  <1>4. ASSUME ~crossed', NEW i \in 1..Len(queue'), NEW j \in 1..Len(queue'),
               i < j, queue'[j].kind \in Quiet
        PROVE  queue'[i].kind \in Quiet
    <2>1. i \in 1..Len(queue) /\ queue'[i] = queue[i]
      BY <1>1, <1>4
    <2>2. CASE j = Len(queue')
      BY <1>1, <1>4, <2>1, <2>2
    <2>3. CASE j # Len(queue')
      <3>1. j \in 1..Len(queue) /\ queue'[j] = queue[j]
        BY <1>1, <2>3
      <3> QED BY <1>4, <2>1, <3>1 DEF QueueOK
    <2> QED BY <2>2, <2>3
  <1> QED BY <1>2, <1>3, <1>4 DEF QueueOK

LEMMA QueueCoalesce ==
    ASSUME queue \in Seq(Commands), QueueOK, Coalesce
    PROVE  QueueOK'
  <1> DEFINE c == Coalesced(Command, queue[2])
  <1>1. /\ Len(queue) > 1 /\ Command.kind = "SetNode" /\ queue[2].kind = "SetNode"
        /\ queue[2].path = Command.path /\ Command = queue[1] /\ Len(queue) \in Nat
        /\ queue' = <<c>> \o SubSeq(queue, 3, Len(queue)) /\ crossed' = crossed
    BY QueueIs, EmptySeq DEF Coalesce
  <1>2. /\ Len(queue') = Len(queue) - 1 /\ queue'[1] = c /\ c.kind = "SetNode"
        /\ c.path = Command.path
        /\ \A i \in 2..(Len(queue) - 1) : i + 1 \in 1..Len(queue) /\ queue'[i] = queue[i + 1]
    BY <1>1, CoalescedIs
  <1> HIDE DEF c
  <1>3. \A i \in 1..Len(queue') : i = 1 \/ (i \in 2..(Len(queue) - 1) /\ i > 1)
    BY <1>1, <1>2
  <1>4. 1 \in 1..Len(queue) /\ queue[1].path # Router
    BY <1>1 DEF QueueOK
  <1>5. ASSUME NEW i \in 1..Len(queue')
        PROVE  /\ queue'[i].kind = "SetNode" => queue'[i].path # Router
               /\ queue'[i].kind = "SetRouter" => Keep[queue'[i].before] = queue'[i].before
    BY <1>1, <1>2, <1>3, <1>4 DEF QueueOK
  <1>6. ASSUME NEW i \in 1..Len(queue'), NEW j \in 1..Len(queue'),
               queue'[i].kind = "SetRouter", queue'[j].kind = "SetRouter"
        PROVE  i = j
    <2>1. i \in 2..(Len(queue) - 1) /\ j \in 2..(Len(queue) - 1)
      BY <1>2, <1>3, <1>6
    <2>2. i + 1 = j + 1
      BY <1>2, <1>6, <2>1 DEF QueueOK
    <2> QED BY <2>1, <2>2
  <1>7. ASSUME ~crossed', NEW i \in 1..Len(queue'), NEW j \in 1..Len(queue'),
               i < j, queue'[j].kind \in Quiet
        PROVE  queue'[i].kind \in Quiet
    <2>1. CASE i = 1
      BY <1>2, <2>1 DEF Quiet
    <2>2. CASE i # 1
      <3>1. /\ i + 1 \in 1..Len(queue) /\ queue'[i] = queue[i + 1]
            /\ j + 1 \in 1..Len(queue) /\ queue'[j] = queue[j + 1] /\ i + 1 < j + 1
        BY <1>2, <1>3, <1>7, <2>2
      <3> QED BY <1>1, <1>7, <3>1 DEF QueueOK
    <2> QED BY <2>1, <2>2
  <1> QED BY <1>5, <1>6, <1>7 DEF QueueOK

----------------------------------------------------------------------------
(* The chains the pedal keeps as they are, and what is held with an audition.  *)

Tidy ==
    /\ Settled(buf) /\ Settled(stored) /\ Settled(drafts) /\ Settled(own)
    /\ Router \in DOMAIN audition_original =>
           Keep[audition_original[Router]] = audition_original[Router]
    /\ audition = None => audition_original = Nothing
    /\ audition # None => device
    /\ Regular(stacks) /\ (audition # None => Regular(audition))

LEMMA TidyHeld ==
    ASSUME TypeOK, Tidy
    PROVE  /\ Settled(Restored) /\ Regular(TakenBack)
           /\ \A S \in SUBSET DOMAIN audition_original :
                  Settled(Written(audition_original, S, buf))
           /\ \A p \in DOMAIN audition_original : Restored[p] = audition_original[p]
           /\ \A p \in Paths \ DOMAIN audition_original : Restored[p] = buf[p]
           /\ DOMAIN audition_original \subseteq Paths
           /\ audition = None => Restored = buf /\ DOMAIN audition_original = {}
  <1>1. buf \in Buffers /\ audition_original \in Partials /\ Settled(buf)
    BY DEF TypeOK, Tidy
  <1>2. /\ Restored \in Buffers /\ Settled(Restored)
        /\ \A p \in DOMAIN audition_original : Restored[p] = Held(p, audition_original[p])
        /\ \A p \in Paths \ DOMAIN audition_original : Restored[p] = buf[p]
    BY <1>1, AllIs DEF Restored
  <1>3. \A p \in DOMAIN audition_original : Restored[p] = audition_original[p]
    BY <1>2 DEF Tidy, Held
  <1>4. ASSUME NEW S \in SUBSET DOMAIN audition_original
        PROVE  Settled(Written(audition_original, S, buf))
    <2>1. S \in SUBSET Paths /\ \A p \in S : audition_original[p] \in Values
      BY <1>1, PartialIs
    <2> QED BY <1>1, <2>1, WrittenIs
  <1>5. Regular(TakenBack)
    BY DEF Tidy, TakenBack
  <1>6. audition = None => DOMAIN audition_original = {}
    BY NothingIs DEF Tidy
  <1>7. audition = None => Restored = buf
    BY <1>1, <1>2, <1>6, SameBuffer
  <1> QED BY <1>1, <1>2, <1>3, <1>4, <1>5, <1>6, <1>7, PartialIs

LEMMA TidyInit ==
    ASSUME Init
    PROVE  Tidy /\ QueueOK
  <1>1. Settled(buf) /\ Settled(stored)
    BY WorkerAssumption DEF Init, Settled
  <1>2. Regular(Blank) /\ DOMAIN Nothing = {}
    <2>1. buf \in Buffers
      BY TypeInit DEF TypeOK
    <2> QED BY <2>1, BlankSays, NothingIs
  <1>3. Len(queue) = 0
    BY EmptySeq DEF Init
  <1> QED BY <1>1, <1>2, <1>3 DEF Init, Tidy, QueueOK

(* An edit of another node than the chain leaves the chain; the chain is taken as it is kept. *)
LEMMA EditsTidy ==
    ASSUME TypeOK, QueueOK, Tidy, SetNode \/ SetRouter
    PROVE  Tidy'
  <1>1. queue \in Seq(Commands) /\ buf \in Buffers /\ drafts \in Buffers /\ stacks \in Stacks
        /\ audition_original \in Partials /\ Router \in Paths
    BY WorkerAssumption DEF TypeOK
  <1>2. ASSUME NEW kinds, Handling(kinds)
        PROVE  Command \in Commands /\ Command.kind \in kinds /\ Command = queue[1]
               /\ 1 \in 1..Len(queue) /\ device
    BY <1>1, <1>2, QueueIs DEF Handling
  <1>3. ASSUME NEW p \in Paths, NEW v \in Values, p = Router => Keep[v] = v
        PROVE  /\ Router \in DOMAIN Remembered(p, v) =>
                      Keep[Remembered(p, v)[Router]] = Remembered(p, v)[Router]
               /\ audition = None => Remembered(p, v) = Nothing
    BY <1>3 DEF Tidy, Remembered
  <1>4. CASE SetNode
    <2>1. Command \in Commands /\ Command.kind = "SetNode" /\ Command = queue[1]
          /\ 1 \in 1..Len(queue) /\ device
      BY <1>2, <1>4 DEF SetNode
    <2>2. Command.path \in Paths /\ Command.before \in Values /\ Command.value \in Values
          /\ Command.path # Router
      BY <2>1, CommandHas DEF QueueOK
    <2>3. buf'[Router] = buf[Router] /\ drafts'[Router] = drafts[Router]
      <3>1. \A x \in Strayed({Command.path}, buf) : x[Router] = buf[Router]
        BY <1>1, <2>2, StrayedIs
      <3>2. [buf EXCEPT ![Command.path] = Command.value][Router] = buf[Router]
        BY <1>1, <2>2 DEF Buffers
      <3>3. buf'[Router] = buf[Router]
        BY <1>4, <3>1, <3>2 DEF SetNode
      <3>4. drafts'[Router] = drafts[Router]
        BY <1>1, <1>4, <2>2 DEF SetNode, Shows, Buffers
      <3> QED BY <3>3, <3>4
    <2>4. /\ Router \in DOMAIN audition_original' =>
                 Keep[audition_original'[Router]] = audition_original'[Router]
          /\ audition = None => audition_original' = Nothing
      BY <1>3, <1>4, <2>2 DEF SetNode
    <2>5. device'
      BY <1>4, <2>1 DEF SetNode, Done, Refused
    <2>6. Regular(stacks')
      <3> DEFINE t == One(Command.path, Command.before, Command.value)
      <3>1. t \in Edits /\ DOMAIN t = {Command.path}
        <4>1. t \in Edits
          BY <2>2, OneIs
        <4>2. DOMAIN t = {Command.path}
          BY DEF One
        <4> QED BY <4>1, <4>2
      <3>2. SettledEdit(t)
        BY <2>2, <3>1 DEF SettledEdit
      <3>3. Regular(Recorded(stacks, t))
        BY <1>1, <3>1, <3>2, RecordedSays DEF Tidy
      <3>4. Merges(Command.path) => Regular(Merged(Command.path, Command.value))
        <4>1. ASSUME Merges(Command.path)
              PROVE  Regular(Merged(Command.path, Command.value))
          <5>1. [buf EXCEPT ![Command.path] = Command.value] \in Buffers
            BY <1>1, <2>2 DEF Buffers
          <5>2. /\ \A q \in Paths : q # Command.path =>
                       [buf EXCEPT ![Command.path] = Command.value][q] = buf[q]
                /\ [buf EXCEPT ![Command.path] = Command.value][Command.path] = Command.value
            BY <1>1, <2>2 DEF Buffers
          <5> QED BY <1>1, <2>2, <4>1, <5>1, <5>2, MergedSays DEF Tidy
        <4> QED BY <4>1
      <3> HIDE DEF t
      <3> QED BY <1>4, <3>3, <3>4 DEF SetNode, Tidy, t
    <2> QED BY <1>4, <2>3, <2>4, <2>5, <2>6 DEF SetNode, Tidy, Settled
  <1>5. CASE SetRouter
    <2>1. Command \in Commands /\ Command.kind = "SetRouter" /\ Command = queue[1]
          /\ 1 \in 1..Len(queue) /\ device
      BY <1>2, <1>5 DEF SetRouter
    <2> DEFINE after == Keep[Command.value]
               before == Command.before
    <2>2. before \in Values /\ Command.value \in Values /\ Keep[before] = before
          /\ after \in Values /\ Keep[after] = after
      BY <2>1, CommandHas, WorkerAssumption DEF QueueOK
    <2> HIDE DEF after, before
    <2>3. Settled(buf') /\ Settled(drafts')
      <3>1. buf' \in {buf, [buf EXCEPT ![Router] = after]}
            /\ drafts' \in {drafts, [drafts EXCEPT ![Router] = after]}
        BY <1>5 DEF SetRouter, Shows, Unsaid, Routed, after
      <3>2. [buf EXCEPT ![Router] = after][Router] = after
            /\ [drafts EXCEPT ![Router] = after][Router] = after
        BY <1>1 DEF Buffers
      <3> QED BY <2>2, <3>1, <3>2 DEF Settled, Tidy
    <2>4. /\ Router \in DOMAIN audition_original' =>
                 Keep[audition_original'[Router]] = audition_original'[Router]
          /\ audition = None => audition_original' = Nothing
      <3>1. audition_original' \in {audition_original, Remembered(Router, before)}
        BY <1>5 DEF SetRouter, before
      <3> QED BY <1>1, <1>3, <2>2, <3>1 DEF Tidy
    <2>5. device'
      BY <1>5, <2>1 DEF SetRouter, Done, Refused
    <2>6. Regular(stacks')
      <3> DEFINE t == One(Router, before, after)
      <3>1. t \in Edits /\ DOMAIN t = {Router} /\ t[Router].before = before
            /\ t[Router].after = after
        <4>1. Router \in Paths /\ before \in Values /\ after \in Values
          BY <1>1, <2>2
        <4>2. t \in Edits
          BY <4>1, OneIs
        <4>3. DOMAIN t = {Router} /\ t[Router].before = before /\ t[Router].after = after
          BY DEF One
        <4> QED BY <4>2, <4>3
      <3>2. SettledEdit(t)
        BY <2>2, <3>1 DEF SettledEdit
      <3>3. Regular(Recorded(stacks, t))
        BY <1>1, <3>1, <3>2, RecordedSays DEF Tidy
      <3> HIDE DEF t
      <3>4. stacks' \in {stacks, Recorded(stacks, t)}
        BY <1>5 DEF SetRouter, t, before, after
      <3> QED BY <3>3, <3>4 DEF Tidy
    <2>7. UNCHANGED <<stored, audition, own>>
      BY <1>5 DEF SetRouter
    <2> QED BY <2>3, <2>4, <2>5, <2>6, <2>7 DEF Tidy
  <1> QED BY <1>4, <1>5

LEMMA TidyNext ==
    ASSUME TypeOK, QueueOK, Tidy, [Next]_vars
    PROVE  Tidy' /\ QueueOK'
  <1>1. queue \in Seq(Commands) /\ buf \in Buffers /\ drafts \in Buffers /\ stacks \in Stacks
        /\ audition_original \in Partials /\ Router \in Paths /\ Len(queue) \in Nat
    BY WorkerAssumption, QueueIs DEF TypeOK
  <1>2. DOMAIN Nothing = {} /\ Regular(Blank)
    BY <1>1, NothingIs, BlankSays
  <1>3. ASSUME NEW kinds, Handling(kinds), (crossed => crossed') \/ BeginsAnew
        PROVE  Command \in Commands /\ Command.kind \in kinds /\ device /\ queue # <<>> /\ QueueOK'
    BY <1>1, <1>3, QueueIs, QueueTail DEF Handling
  <1>4. ASSUME NEW c, queue' = Append(queue, c), c.kind \notin Quiet, UNCHANGED crossed
        PROVE  QueueOK'
    BY <1>1, <1>4, QueueAppend DEF Quiet
  <1>5. ASSUME UNCHANGED <<buf, stored, drafts, own, audition_original, audition, stacks, device>>
        PROVE  Tidy'
    BY <1>5 DEF Tidy, Settled
  <1>6. Sending => UNCHANGED <<buf, stored, own, audition_original, audition, stacks, device>>
    BY DEF Sending, pedal, session, work, ghosts
  <1>7. CASE UNCHANGED vars
    <2>1. QueueOK'
      BY <1>7 DEF vars, QueueOK
    <2> QED BY <1>5, <1>7, <2>1 DEF vars, pedal, session, work, ghosts
  <1>8. CASE AskConnect
    <2>1. QueueOK'
      BY <1>4, <1>8 DEF AskConnect, Quiet
    <2> QED BY <1>5, <1>6, <1>8, <2>1 DEF AskConnect
  <1>9. CASE \E kind \in {"Disconnect", "Undo", "Redo", "SelectPreset", "SavePreset"} : Ask(kind)
    <2> PICK kind \in {"Disconnect", "Undo", "Redo", "SelectPreset", "SavePreset"} : Ask(kind)
      BY <1>9
    <2>1. queue' = Append(queue, [kind |-> kind]) /\ [kind |-> kind].kind \notin Quiet
          /\ UNCHANGED crossed
      BY DEF Ask, Queues, Quiet
    <2> QED BY <1>4, <1>5, <1>6, <2>1 DEF Ask
  <1>10. CASE \E p \in Paths, v \in Values : SendEdit(p, v)
    <2> PICK p \in Paths, v \in Values : SendEdit(p, v)
      BY <1>10
    <2> DEFINE c == [kind |-> "SetNode", path |-> p, before |-> drafts[p], value |-> v]
    <2>1. queue' = Append(queue, c) /\ c.kind = "SetNode" /\ c.path = p /\ p # Router
      BY DEF SendEdit, Queues
    <2>2. /\ crossed => crossed'
          /\ ~crossed' => \A i \in 1..Len(queue) : queue[i].kind \in Quiet
      BY <1>1, QueueIs DEF SendEdit, Crosses
    <2> HIDE DEF c
    <2>3. QueueOK'
      BY <1>1, <2>1, <2>2, QueueAppend
    <2>4. drafts'[Router] = drafts[Router]
      BY <1>1, <2>1 DEF SendEdit, Buffers
    <2>5. UNCHANGED <<buf, stored, own, audition_original, audition, stacks, device>>
      BY <1>6 DEF SendEdit
    <2> QED BY <2>3, <2>4, <2>5 DEF Tidy, Settled
  <1>11. CASE \E v \in Values : Route(v)
    <2> PICK v \in Values : Route(v)
      BY <1>11
    <2> DEFINE c == [kind |-> "SetRouter", before |-> drafts[Router], value |-> v]
    <2>1. queue' = Append(queue, c) /\ c.kind = "SetRouter" /\ c.before = drafts[Router]
      BY DEF Route, Queues
    <2>2. /\ crossed => crossed'
          /\ ~crossed' => \A i \in 1..Len(queue) : queue[i].kind \in Quiet
          /\ \A i \in 1..Len(queue) : queue[i].kind # "SetRouter"
      BY <1>1, QueueIs DEF Route, Crosses, Queued
    <2> HIDE DEF c
    <2>3. QueueOK'
      BY <1>1, <2>1, <2>2, QueueAppend DEF Tidy, Settled
    <2> QED BY <1>5, <1>6, <2>3 DEF Route
  <1>12. CASE \E tone \in Tones : Play(tone)
    <2> PICK tone \in Tones : Play(tone)
      BY <1>12
    <2>1. QueueOK'
      BY <1>4 DEF Play, Queues, Quiet
    <2> QED BY <1>5, <1>6, <2>1 DEF Play
  <1>13. CASE PutBack
    <2>1. QueueOK'
      BY <1>4, <1>13 DEF PutBack, Ends, Queues, Quiet
    <2> QED BY <1>5, <1>6, <1>13, <2>1 DEF PutBack
  <1>14. CASE KeepHeard
    <2>1. QueueOK'
      BY <1>4, <1>14 DEF KeepHeard, Queues, Quiet
    <2> QED BY <1>5, <1>6, <1>14, <2>1 DEF KeepHeard
  <1>15. CASE Withdraw
    <2>1. QueueOK'
      <3>1. CASE playing # 0
        BY <1>4, <1>15, <3>1 DEF Withdraw, Ends, Queues, Quiet
      <3>2. CASE playing = 0
        BY <1>15, <3>2 DEF Withdraw, QueueOK
      <3> QED BY <3>1, <3>2
    <2> QED BY <1>5, <1>6, <1>15, <2>1 DEF Withdraw
  <1>16. CASE Coalesce
    <2>1. QueueOK'
      BY <1>1, <1>16, QueueCoalesce
    <2> QED BY <1>5, <1>16, <2>1 DEF Coalesce, pedal, session, work, ghosts
  <1>17. CASE SetNode \/ SetRouter
    <2>1. crossed => crossed'
      BY <1>17 DEF SetNode, SetRouter
    <2>2. CASE SetNode
      BY <1>3, <2>1, <2>2, EditsTidy DEF SetNode
    <2>3. CASE SetRouter
      BY <1>3, <2>1, <2>3, EditsTidy DEF SetRouter
    <2> QED BY <1>17, <2>2, <2>3
  <1>18. CASE StepHistory
    <2>1. /\ Command.kind \in {"Undo", "Redo"} /\ device /\ QueueOK'
          /\ Stepped(Command.kind) # <<>>
      BY <1>3, <1>18 DEF StepHistory
    <2> DEFINE t == Top(Stepped(Command.kind))
               w == Targets(Command.kind, t)
    <2>2. t \in Edits /\ w \in Partials /\ DOMAIN t \subseteq Paths /\ Regular(Moved(Command.kind))
      <3>1. t \in Edits /\ w \in Partials /\ Regular(Moved(Command.kind))
        BY <1>1, <2>1, SteppedSays DEF Tidy
      <3> QED BY <3>1, EditsAre
    <2>3. Settled(buf') /\ Settled(drafts') /\ Regular(stacks') /\ device'
      <3>1. CASE Done /\ buf' = All(w, buf) /\ Shows(All(w, drafts)) /\ stacks' = Moved(Command.kind)
        BY <1>1, <2>1, <2>2, <3>1, AllIs DEF Done, Shows, Tidy
      <3>2. ASSUME NEW p \in DOMAIN t, NEW S \in SUBSET (DOMAIN t \ {p}), NEW R \in SUBSET S,
                   NEW left \in SUBSET {p}, Refused(1 + Cardinality(R)),
                   buf' \in Strayed(R \cup left, Reverted(Command.kind, t, S, R, buf)),
                   Unsaid, UNCHANGED stacks
            PROVE  Settled(buf') /\ Settled(drafts') /\ Regular(stacks') /\ device'
        <4>1. S \in SUBSET DOMAIN t /\ R \cup left \in SUBSET Paths
          BY <2>2
        <4>2. /\ Reverted(Command.kind, t, S, R, buf) \in Buffers
              /\ Settled(Reverted(Command.kind, t, S, R, buf))
          BY <1>1, <2>2, <4>1, RevertedTyped DEF Tidy
        <4>3. Settled(buf')
          BY <3>2, <4>1, <4>2, StrayedIs
        <4> QED BY <2>1, <3>2, <4>3 DEF Refused, Unsaid, Tidy, Settled
      <3> QED BY <1>18, <3>1, <3>2 DEF StepHistory
    <2> QED BY <1>18, <2>1, <2>3 DEF StepHistory, Tidy, Settled
  <1>19. CASE PutBackRefused
    <2>1. device' /\ QueueOK' /\ Settled(buf')
      BY <1>3, <1>19, PartlyBackIs DEF PutBackRefused, Refused, Tidy
    <2> QED BY <1>2, <1>19, <2>1 DEF PutBackRefused, Unsaid, Tidy, Settled
  <1>20. CASE SelectPreset
    <2>1. QueueOK'
      BY <1>3, <1>20 DEF SelectPreset
    <2>2. Settled(buf') /\ Settled(stored') /\ Settled(drafts') /\ Regular(stacks')
      BY <1>2, <1>20, TidyHeld, WorkerAssumption
         DEF SelectPreset, BeginsAnew, Refreshed, Unsaid, Shows, Tidy, Settled
    <2> QED BY <1>2, <1>20, <2>1, <2>2 DEF SelectPreset, AuditionOver, Tidy, Settled
  <1>21. CASE SavePreset
    <2>1. QueueOK'
      BY <1>3, <1>21 DEF SavePreset
    <2>2. Settled(buf') /\ Regular(stacks')
      BY <1>21, TidyHeld DEF SavePreset, Saved
    <2>3. Settled(stored') /\ Settled(drafts')
      BY <1>21, <2>2 DEF SavePreset, Refreshed, Unsaid, Shows, Tidy, Settled
    <2> QED BY <1>2, <1>21, <2>1, <2>2, <2>3 DEF SavePreset, AuditionOver, Tidy, Settled
  <1>22. CASE Audition
    <2>1. QueueOK' /\ device /\ Command \in Commands /\ Command.kind = "Audition"
      BY <1>3, <1>22 DEF Audition
    <2>2. Command.tone \in Partials /\ Restored \in Buffers /\ Settled(Restored)
      BY <2>1, CommandHas, WorkerAssumption, HeldTyped, TidyHeld
    <2>3. /\ Settled(All(Command.tone, Restored))
          /\ \A R, left \in SUBSET DOMAIN Command.tone :
                 \A x \in Strayed(R \cup left, Restored) : Settled(x)
          /\ PartlyBack => Settled(buf')
      <3>1. \A R, left \in SUBSET DOMAIN Command.tone : R \cup left \in SUBSET Paths
        BY <2>2, PartialIs
      <3>2. \A S \in SUBSET Paths : \A x \in Strayed(S, Restored) : Settled(x)
        BY <2>2, StrayedIs
      <3> QED BY <2>2, <3>1, <3>2, AllIs, PartlyBackIs DEF Tidy
    <2>4. Router \in DOMAIN Replaced(Command.tone) =>
              Keep[Replaced(Command.tone)[Router]] = Replaced(Command.tone)[Router]
      BY <2>2 DEF Replaced, Settled
    <2>5. Settled(buf') /\ Regular(TakenBack) /\ TakenBack \in Stacks /\ TakenBack # None
      BY <1>22, <2>3, TidyHeld, HeldTyped, NoneAssumption DEF Audition
    <2>6. \/ /\ Settled(drafts') /\ Settled(own') /\ audition_original' = Replaced(Command.tone)
             /\ audition' = TakenBack /\ stacks' = Blank /\ device' = device
          \/ /\ UNCHANGED drafts /\ AuditionOver /\ stacks' = TakenBack
      BY <1>22, <2>5 DEF Audition, Failed, Refreshed, Unsaid, Shows, Done, Tidy
    <2>7. stored' = stored
      BY <1>22 DEF Audition
    <2>8. /\ Settled(drafts') /\ Settled(own') /\ Regular(stacks')
          /\ Router \in DOMAIN audition_original' =>
                 Keep[audition_original'[Router]] = audition_original'[Router]
          /\ audition' = None => audition_original' = Nothing
          /\ audition' # None => device' /\ Regular(audition')
      <3>1. CASE /\ Settled(drafts') /\ Settled(own') /\ audition_original' = Replaced(Command.tone)
                 /\ audition' = TakenBack /\ stacks' = Blank /\ device' = device
        BY <1>2, <2>1, <2>4, <2>5, <3>1
      <3>2. CASE UNCHANGED drafts /\ AuditionOver /\ stacks' = TakenBack
        BY <1>2, <2>5, <3>2 DEF AuditionOver, Tidy, Settled
      <3> QED BY <2>6, <3>1, <3>2
    <2> QED BY <2>1, <2>5, <2>7, <2>8 DEF Tidy, Settled
  <1>23. CASE EndAudition
    <2>1. QueueOK'
      BY <1>3, <1>23 DEF EndAudition
    <2>2. Settled(buf') /\ Regular(stacks')
      BY <1>23, TidyHeld DEF EndAudition
    <2>3. Settled(drafts')
      BY <1>23, <2>2 DEF EndAudition, Refreshed, Unsaid, Shows, Tidy, Settled
    <2> QED BY <1>2, <1>23, <2>1, <2>2, <2>3 DEF EndAudition, AuditionOver, Tidy, Settled
  <1>24. CASE KeepAudition
    <2>1. QueueOK' /\ device
      BY <1>3, <1>24 DEF KeepAudition
    <2>2. Regular(Recorded(TakenBack, Differences))
      <3>1. TakenBack \in Stacks /\ Differences \in Edits /\ Regular(TakenBack)
        BY HeldTyped, TidyHeld
      <3>2. \A p \in DOMAIN Differences : p \in DOMAIN audition_original
                /\ Differences[p].before = audition_original[p] /\ Differences[p].after = buf[p]
        BY DEF Differences
      <3>3. SettledEdit(Differences)
        BY <3>2 DEF SettledEdit, Tidy, Settled
      <3> QED BY <1>1, <3>1, <3>3, RecordedSays
    <2>3. CASE Done
      BY <1>2, <1>24, <2>1, <2>2, <2>3 DEF KeepAudition, AuditionOver, Done, Tidy, Settled, pedal
    <2>4. CASE ~Done
      BY <1>2, <1>24, <2>1, <2>4 DEF KeepAudition, Refused, Tidy, Settled, pedal
    <2> QED BY <2>3, <2>4
  <1>25. CASE Disconnect
    <2>1. QueueOK'
      BY <1>3, <1>25 DEF Disconnect
    <2>2. Settled(buf')
      BY <1>25, TidyHeld DEF Disconnect
    <2> QED BY <1>2, <1>25, <2>1, <2>2 DEF Disconnect, AuditionOver, BeginsAnew, Tidy, Settled
  <1>26. CASE SessionLost
    <2>1. QueueOK' /\ queue # <<>> /\ Command \in Commands /\ Command = queue[1]
          /\ 1 \in 1..Len(queue)
      BY <1>1, <1>3, <1>26, QueueIs DEF SessionLost
    <2>2. Settled(buf') /\ Settled(stored')
      BY <1>26, <2>1, LeftTyped DEF SessionLost, Tidy
    <2>3. Settled(drafts')
      <3>1. Command.kind = "SetNode" => Command.path \in Paths /\ Command.path # Router
        BY <2>1, CommandHas DEF QueueOK
      <3> QED BY <1>1, <1>26, <3>1 DEF SessionLost, Shows, Tidy, Settled, Buffers
    <2>4. Regular(stacks')
      BY <1>26, TidyHeld DEF SessionLost, Tidy
    <2> QED BY <1>2, <1>26, <2>1, <2>2, <2>3, <2>4 DEF SessionLost, AuditionOver, Tidy, Settled
  <1>27. CASE Connect
    <2>1. QueueOK'
      BY <1>1, <1>27, QueueTail DEF Connect
    <2> QED BY <1>2, <1>27, <2>1
        DEF Connect, AuditionOver, BeginsAnew, Refreshed, Shows, Tidy, Settled
  <1>28. CASE PassesOver
    <2>1. QueueOK'
      BY <1>1, <1>28, QueueTail DEF PassesOver
    <2> QED BY <1>2, <1>28, <2>1 DEF PassesOver, Tidy, Settled, pedal, session, ghosts
  <1> QED BY <1>7, <1>8, <1>9, <1>10, <1>11, <1>12, <1>13, <1>14, <1>15, <1>16, <1>17, <1>18,
             <1>19, <1>20, <1>21, <1>22, <1>23, <1>24, <1>25, <1>26, <1>27, <1>28 DEF Next

----------------------------------------------------------------------------
(* The edits of one node that wait: what each was asked for over.              *)

NodeEdit(c, p) == c.kind = "SetNode" /\ c.path = p

Idle(q, p) == \A i \in 1..Len(q) : ~NodeEdit(q[i], p)

\* For a node the pedal has v for and the panel shows d for, and with nothing to undo: the first
\* edit waiting was asked for over v, each later one over what the one before it asked for or
\* over v, shown again by an answer, and one or the other is shown.
Chain(q, p, v, d) ==
    /\ \A i \in 1..Len(q) :
           NodeEdit(q[i], p) /\ (\A j \in 1..Len(q) : j < i => ~NodeEdit(q[j], p)) => q[i].before = v
    /\ \A i, j \in 1..Len(q) :
           /\ i < j /\ NodeEdit(q[i], p) /\ NodeEdit(q[j], p)
           /\ \A k \in 1..Len(q) : i < k /\ k < j => ~NodeEdit(q[k], p)
           => q[j].before \in {v, q[i].value}
    /\ \A i \in 1..Len(q) :
           NodeEdit(q[i], p) /\ (\A j \in 1..Len(q) : i < j => ~NodeEdit(q[j], p))
           => d \in {v, q[i].value}

LEMMA IdleChain ==
    ASSUME NEW q, NEW p, NEW v, NEW d, Idle(q, p)
    PROVE  Chain(q, p, v, d)
  BY DEF Idle, Chain

(* The first command gone: one of another node, or an edit that left v. *)
LEMMA ChainTail ==
    ASSUME NEW n \in Nat, NEW q, NEW r, Len(q) = n + 1, Len(r) = n,
           \A i \in 1..n : r[i] = q[i + 1], NEW p, NEW v, NEW d, Chain(q, p, v, d)
    PROVE  /\ ~NodeEdit(q[1], p) => Chain(r, p, v, d) /\ (Idle(r, p) => Idle(q, p))
           /\ NodeEdit(q[1], p) /\ q[1].value = v => Chain(r, p, v, v)
           /\ NodeEdit(q[1], p) => q[1].before = v
           /\ Idle(r, p) => \A i \in 1..(n + 1) : i # 1 => ~NodeEdit(q[i], p)
  <1>1. /\ \A i \in 1..n : i + 1 \in 1..(n + 1) /\ i + 1 # 1 /\ r[i] = q[i + 1]
        /\ \A i \in 1..(n + 1) : i = 1 \/ (i - 1 \in 1..n /\ r[i - 1] = q[i])
        /\ 1 \in 1..(n + 1) /\ \A i \in 1..(n + 1) : ~(i < 1)
    <2>1. \A i \in 1..(n + 1) : i # 1 => i - 1 \in 1..n /\ (i - 1) + 1 = i
      OBVIOUS
    <2> QED BY <2>1
  <1>2. Idle(r, p) => \A i \in 1..(n + 1) : i # 1 => ~NodeEdit(q[i], p)
    BY <1>1 DEF Idle
  <1>3. NodeEdit(q[1], p) => q[1].before = v
    BY <1>1 DEF Chain
  <1>4. ASSUME NEW i \in 1..n, NEW j \in 1..n, i < j, NodeEdit(r[i], p), NodeEdit(r[j], p),
               \A k \in 1..n : i < k /\ k < j => ~NodeEdit(r[k], p)
        PROVE  r[j].before \in {v, r[i].value}
    <2>1. i + 1 \in 1..Len(q) /\ j + 1 \in 1..Len(q) /\ i + 1 < j + 1
          /\ r[i] = q[i + 1] /\ r[j] = q[j + 1]
      BY <1>1, <1>4
    <2>2. ASSUME NEW k \in 1..Len(q), i + 1 < k, k < j + 1
          PROVE  ~NodeEdit(q[k], p)
      <3>1. k # 1 /\ i < k - 1 /\ k - 1 < j /\ k - 1 \in 1..n
        BY <2>2
      <3>2. r[k - 1] = q[k]
        BY <1>1, <3>1
      <3> QED BY <1>4, <3>1, <3>2
    <2>3. q[j + 1].before \in {v, q[i + 1].value}
      BY <1>4, <2>1, <2>2 DEF Chain
    <2> QED BY <2>1, <2>3
  <1>5. ASSUME NEW i \in 1..n, NodeEdit(r[i], p), \A j \in 1..n : i < j => ~NodeEdit(r[j], p)
        PROVE  d \in {v, r[i].value}
    <2>1. i + 1 \in 1..Len(q) /\ r[i] = q[i + 1]
      BY <1>1
    <2>2. ASSUME NEW k \in 1..Len(q), i + 1 < k
          PROVE  ~NodeEdit(q[k], p)
      <3>1. k # 1 /\ i < k - 1 /\ k - 1 \in 1..n
        BY <2>2
      <3>2. r[k - 1] = q[k]
        BY <1>1, <3>1
      <3> QED BY <1>5, <3>1, <3>2
    <2> QED BY <1>5, <2>1, <2>2 DEF Chain
  <1>6. ASSUME NEW i \in 1..n, NodeEdit(r[i], p), \A j \in 1..n : j < i => ~NodeEdit(r[j], p)
        PROVE  /\ ~NodeEdit(q[1], p) => r[i].before = v
               /\ NodeEdit(q[1], p) => r[i].before \in {v, q[1].value}
    <2>1. i + 1 \in 1..Len(q) /\ r[i] = q[i + 1] /\ 1 < i + 1 /\ 1 \in 1..Len(q)
      BY <1>1
    <2>2. ASSUME NEW k \in 1..Len(q), 1 < k, k < i + 1
          PROVE  ~NodeEdit(q[k], p)
      <3>1. k # 1 /\ k - 1 < i /\ k - 1 \in 1..n
        BY <2>2
      <3>2. r[k - 1] = q[k]
        BY <1>1, <3>1
      <3> QED BY <1>6, <3>1, <3>2
    <2>3. ASSUME ~NodeEdit(q[1], p)
          PROVE  r[i].before = v
      <3>1. \A k \in 1..Len(q) : k < i + 1 => ~NodeEdit(q[k], p)
        BY <2>2, <2>3
      <3> QED BY <1>6, <2>1, <3>1 DEF Chain
    <2>4. ASSUME NodeEdit(q[1], p)
          PROVE  r[i].before \in {v, q[1].value}
      BY <1>6, <2>1, <2>2, <2>4 DEF Chain
    <2> QED BY <2>3, <2>4
  <1>7. ASSUME ~NodeEdit(q[1], p)
        PROVE  Chain(r, p, v, d) /\ (Idle(r, p) => Idle(q, p))
    <2>1. Chain(r, p, v, d)
      BY <1>4, <1>5, <1>6, <1>7 DEF Chain
    <2>2. Idle(r, p) => Idle(q, p)
      BY <1>2, <1>7 DEF Idle
    <2> QED BY <2>1, <2>2
  <1>8. ASSUME NodeEdit(q[1], p), q[1].value = v
        PROVE  Chain(r, p, v, v)
    BY <1>4, <1>6, <1>8 DEF Chain
  <1> QED BY <1>2, <1>3, <1>7, <1>8

(* One command more: of another node, or an edit of p asked for over what the panel shows. *)
LEMMA ChainAppend ==
    ASSUME NEW n \in Nat, NEW q, NEW r, NEW c, Len(q) = n, Len(r) = n + 1, r[n + 1] = c,
           \A i \in 1..n : r[i] = q[i], NEW p, NEW v, NEW d, Chain(q, p, v, d),
           Idle(q, p) => d = v
    PROVE  /\ ~NodeEdit(c, p) => Chain(r, p, v, d) /\ (Idle(r, p) <=> Idle(q, p))
           /\ NodeEdit(c, p) /\ c.before = d => Chain(r, p, v, c.value) /\ ~Idle(r, p)
  <1>1. /\ \A i \in 1..n : i \in 1..(n + 1) /\ i # n + 1 /\ i < n + 1
        /\ \A i \in 1..(n + 1) : i = n + 1 \/ i \in 1..n
        /\ n + 1 \in 1..(n + 1) /\ \A i \in 1..(n + 1) : ~(n + 1 < i)
    OBVIOUS
  <1>2. ASSUME NEW i \in 1..n, NodeEdit(r[i], p), \A j \in 1..(n + 1) : j < i => ~NodeEdit(r[j], p)
        PROVE  r[i].before = v
    BY <1>1, <1>2 DEF Chain
  <1>3. ASSUME NEW i \in 1..n, NEW j \in 1..n, i < j, NodeEdit(r[i], p), NodeEdit(r[j], p),
               \A k \in 1..(n + 1) : i < k /\ k < j => ~NodeEdit(r[k], p)
        PROVE  r[j].before \in {v, r[i].value}
    BY <1>1, <1>3 DEF Chain
  <1>4. ASSUME NEW i \in 1..n, NodeEdit(r[i], p), \A j \in 1..n : i < j => ~NodeEdit(r[j], p)
        PROVE  d \in {v, r[i].value}
    BY <1>1, <1>4 DEF Chain
  <1>5. ASSUME ~NodeEdit(c, p)
        PROVE  Chain(r, p, v, d) /\ (Idle(r, p) <=> Idle(q, p))
    <2>1. Idle(r, p) <=> Idle(q, p)
      BY <1>1, <1>5 DEF Idle
    <2>2. ASSUME NEW i \in 1..(n + 1), NodeEdit(r[i], p)
          PROVE  i \in 1..n
      BY <1>1, <1>5, <2>2
    <2>3. Chain(r, p, v, d)
      BY <1>1, <1>2, <1>3, <1>4, <2>2 DEF Chain
    <2> QED BY <2>1, <2>3
  <1>6. ASSUME NodeEdit(c, p), c.before = d
        PROVE  Chain(r, p, v, c.value) /\ ~Idle(r, p)
    <2>1. ~Idle(r, p)
      BY <1>1, <1>6 DEF Idle
    <2>2. ASSUME \A j \in 1..(n + 1) : j < n + 1 => ~NodeEdit(r[j], p)
          PROVE  c.before = v
      BY <1>1, <1>6, <2>2 DEF Idle
    <2>3. ASSUME NEW i \in 1..n, NodeEdit(r[i], p),
                 \A k \in 1..(n + 1) : i < k /\ k < n + 1 => ~NodeEdit(r[k], p)
          PROVE  c.before \in {v, r[i].value}
      BY <1>1, <1>4, <1>6, <2>3
    <2>4. ASSUME NEW i \in 1..(n + 1), NodeEdit(r[i], p),
                 \A j \in 1..(n + 1) : j < i => ~NodeEdit(r[j], p)
          PROVE  r[i].before = v
      BY <1>1, <1>2, <2>2, <2>4
    <2>5. ASSUME NEW i \in 1..(n + 1), NEW j \in 1..(n + 1), i < j, NodeEdit(r[i], p),
                 NodeEdit(r[j], p), \A k \in 1..(n + 1) : i < k /\ k < j => ~NodeEdit(r[k], p)
          PROVE  r[j].before \in {v, r[i].value}
      <3>1. i \in 1..n
        BY <1>1, <2>5
      <3>2. CASE j \in 1..n
        BY <1>3, <2>5, <3>1, <3>2
      <3>3. CASE j = n + 1
        BY <2>3, <2>5, <3>1, <3>3
      <3> QED BY <1>1, <3>2, <3>3
    <2>6. ASSUME NEW i \in 1..(n + 1), NodeEdit(r[i], p),
                 \A j \in 1..(n + 1) : i < j => ~NodeEdit(r[j], p)
          PROVE  c.value \in {v, r[i].value}
      BY <1>1, <1>6, <2>6
    <2>7. Chain(r, p, v, c.value)
      BY <2>4, <2>5, <2>6 DEF Chain
    <2> QED BY <2>1, <2>7
  <1> QED BY <1>5, <1>6

(* Two edits of one node at the head become one, over what the first was asked for over. *)
LEMMA ChainCoalesce ==
    ASSUME NEW n \in Nat, NEW q, NEW r, NEW c, Len(q) = n + 2, Len(r) = n + 1, r[1] = c,
           \A i \in 2..(n + 1) : r[i] = q[i + 1],
           c.kind = "SetNode", q[1].kind = "SetNode", q[2].kind = "SetNode",
           q[2].path = q[1].path, c.path = q[1].path, c.before = q[1].before,
           c.value = q[2].value, NEW p, NEW v, NEW d, Chain(q, p, v, d)
    PROVE  Chain(r, p, v, d) /\ (Idle(r, p) => Idle(q, p))
  <1>1. /\ \A i \in 1..(n + 1) : i + 1 \in 1..(n + 2) /\ i + 1 # 1
        /\ \A i \in 1..(n + 1) : i = 1 \/ (i \in 2..(n + 1) /\ r[i] = q[i + 1])
        /\ 1 \in 1..(n + 1) /\ 1 \in 1..(n + 2) /\ 2 \in 1..(n + 2)
    OBVIOUS
  <1>2. \A i \in 1..(n + 1) : /\ NodeEdit(r[i], p) <=> NodeEdit(q[i + 1], p)
                              /\ r[i].value = q[i + 1].value
    BY <1>1 DEF NodeEdit
  <1>3. \A i \in 1..(n + 1) : i # 1 => r[i] = q[i + 1]
    BY <1>1
  <1>4. NodeEdit(r[1], p) <=> NodeEdit(q[1], p)
    BY DEF NodeEdit
  <1>5. ASSUME NEW k \in 1..(n + 2), k # 1
        PROVE  k - 1 \in 1..(n + 1) /\ (k - 1) + 1 = k
    BY <1>5
  <1>6. Idle(r, p) => Idle(q, p)
    <2>1. ASSUME Idle(r, p), NEW k \in 1..(n + 2)
          PROVE  ~NodeEdit(q[k], p)
      <3>1. CASE k = 1
        BY <1>1, <1>4, <2>1, <3>1 DEF Idle
      <3>2. CASE k # 1
        <4>1. k - 1 \in 1..(n + 1) /\ (k - 1) + 1 = k
          BY <1>5, <3>2
        <4>2. ~NodeEdit(r[k - 1], p)
          BY <2>1, <4>1 DEF Idle
        <4> QED BY <1>2, <4>1, <4>2
      <3> QED BY <3>1, <3>2
    <2> QED BY <2>1 DEF Idle
  <1>7. ASSUME NEW i \in 1..(n + 1), NodeEdit(r[i], p),
               \A j \in 1..(n + 1) : j < i => ~NodeEdit(r[j], p)
        PROVE  r[i].before = v
    <2>1. CASE i = 1
      <3>1. \A j \in 1..(n + 2) : ~(j < 1)
        OBVIOUS
      <3>2. q[1].before = v
        BY <1>1, <1>4, <1>7, <2>1, <3>1 DEF Chain
      <3> QED BY <2>1, <3>2
    <2>2. CASE i # 1
      <3>1. ~NodeEdit(q[1], p) /\ 1 < i
        BY <1>1, <1>4, <1>7, <2>2
      <3>2. ASSUME NEW k \in 1..(n + 2), k < i + 1
            PROVE  ~NodeEdit(q[k], p)
        <4>1. CASE k # 1
          <5>1. k - 1 \in 1..(n + 1) /\ (k - 1) + 1 = k /\ k - 1 < i
            BY <1>5, <3>2, <4>1
          <5>2. ~NodeEdit(r[k - 1], p)
            BY <1>7, <5>1
          <5> QED BY <1>2, <5>1, <5>2
        <4> QED BY <3>1, <4>1
      <3>3. i + 1 \in 1..(n + 2) /\ NodeEdit(q[i + 1], p) /\ r[i] = q[i + 1]
        BY <1>1, <1>2, <1>3, <1>7, <2>2
      <3>4. q[i + 1].before = v
        BY <3>2, <3>3 DEF Chain
      <3> QED BY <3>3, <3>4
    <2> QED BY <2>1, <2>2
  <1>8. ASSUME NEW i \in 1..(n + 1), NEW j \in 1..(n + 1), i < j, NodeEdit(r[i], p),
               NodeEdit(r[j], p), \A k \in 1..(n + 1) : i < k /\ k < j => ~NodeEdit(r[k], p)
        PROVE  r[j].before \in {v, r[i].value}
    <2>1. ASSUME NEW k \in 1..(n + 2), i + 1 < k, k < j + 1
          PROVE  ~NodeEdit(q[k], p)
      <3>1. k - 1 \in 1..(n + 1) /\ (k - 1) + 1 = k /\ i < k - 1 /\ k - 1 < j
        BY <2>1
      <3>2. ~NodeEdit(r[k - 1], p)
        BY <1>8, <3>1
      <3> QED BY <1>2, <3>1, <3>2
    <2>2. /\ i + 1 \in 1..(n + 2) /\ j + 1 \in 1..(n + 2) /\ i + 1 < j + 1
          /\ NodeEdit(q[i + 1], p) /\ NodeEdit(q[j + 1], p)
          /\ r[i].value = q[i + 1].value /\ r[j] = q[j + 1]
      BY <1>1, <1>2, <1>3, <1>8
    <2>3. q[j + 1].before \in {v, q[i + 1].value}
      BY <2>1, <2>2 DEF Chain
    <2> QED BY <2>2, <2>3
  <1>9. ASSUME NEW i \in 1..(n + 1), NodeEdit(r[i], p),
               \A j \in 1..(n + 1) : i < j => ~NodeEdit(r[j], p)
        PROVE  d \in {v, r[i].value}
    <2>1. ASSUME NEW k \in 1..(n + 2), i + 1 < k
          PROVE  ~NodeEdit(q[k], p)
      <3>1. k - 1 \in 1..(n + 1) /\ (k - 1) + 1 = k /\ i < k - 1
        BY <2>1
      <3>2. ~NodeEdit(r[k - 1], p)
        BY <1>9, <3>1
      <3> QED BY <1>2, <3>1, <3>2
    <2>2. i + 1 \in 1..(n + 2) /\ NodeEdit(q[i + 1], p) /\ r[i].value = q[i + 1].value
      BY <1>1, <1>2, <1>9
    <2>3. d \in {v, q[i + 1].value}
      BY <2>1, <2>2 DEF Chain
    <2> QED BY <2>2, <2>3
  <1> QED BY <1>6, <1>7, <1>8, <1>9 DEF Chain

----------------------------------------------------------------------------
(* What the edits waiting were asked for over, and what the panel shows.       *)

\* With no edit of a node waiting, the panel shows what the pedal has there.
Shown ==
    device /\ ~stale => \A p \in Paths : Idle(queue, p) => drafts[p] = buf[p]

\* Where no edit was asked for across another command, a chain waiting was asked for over the
\* pedal's.  Of a node that has been edited less is known: an answer may have been shown over a
\* draft.
Asked ==
    device /\ ~spoiled /\ ~crossed =>
        /\ \A i \in 1..Len(queue) : queue[i].kind = "SetRouter" => queue[i].before = buf[Router]
        /\ \A p \in Paths : ~Touched(stacks.undo, p) => Chain(queue, p, buf[p], drafts[p])

(* Nothing waits for the chain under another name. *)
LEMMA RouterIdle ==
    ASSUME queue \in Seq(Commands), QueueOK
    PROVE  Idle(queue, Router)
  BY DEF QueueOK, Idle, NodeEdit

LEMMA AskedInit ==
    ASSUME Init
    PROVE  Asked /\ Shown
  BY DEF Init, Asked, Shown

(* Behind another command than an edit no edit waits, unless it was asked for across. *)
LEMMA StillAsked ==
    ASSUME TypeOK, QueueOK, queue # <<>>, queue' = Tail(queue), Command.kind \notin Quiet,
           (crossed => crossed') \/ BeginsAnew
    PROVE  Asked'
  <1>1. /\ Len(queue) \in Nat /\ Command = queue[1] /\ 1 \in 1..Len(queue)
        /\ DOMAIN queue = 1..Len(queue)
        /\ \A i \in 1..Len(queue') : i + 1 \in 1..Len(queue) /\ i + 1 > 1
                                     /\ queue'[i] = queue[i + 1]
    BY QueueIs DEF TypeOK
  <1>2. ASSUME ~crossed', NEW i \in 1..Len(queue')
        PROVE  queue'[i].kind \notin Quiet
    <2>1. CASE ~crossed
      <3>1. 1 < i + 1
        BY <1>1
      <3> QED BY <1>1, <2>1, <3>1 DEF QueueOK
    <2>2. CASE BeginsAnew
      BY <1>1, <1>2, <2>2 DEF BeginsAnew
    <2> QED BY <1>2, <2>1, <2>2
  <1>3. ~crossed' => \A p : Idle(queue', p)
    BY <1>2 DEF Idle, NodeEdit, Quiet
  <1>4. ~crossed' => \A i \in 1..Len(queue') : queue'[i].kind # "SetRouter"
    BY <1>2 DEF Quiet
  <1> QED BY <1>3, <1>4, IdleChain DEF Asked

(* The command gone from the queue, of a node it was not about. *)
LEMMA IdleTail ==
    ASSUME TypeOK, queue # <<>>, queue' = Tail(queue), NEW p, ~NodeEdit(Command, p),
           Idle(queue', p)
    PROVE  Idle(queue, p)
  <1>1. /\ Command = queue[1] /\ Len(queue) \in Nat /\ Len(queue') = Len(queue) - 1
        /\ \A i \in 1..Len(queue') : queue'[i] = queue[i + 1]
    BY QueueIs DEF TypeOK
  <1>2. ASSUME NEW i \in 1..Len(queue), i # 1
        PROVE  ~NodeEdit(queue[i], p)
    <2>1. i - 1 \in 1..Len(queue') /\ (i - 1) + 1 = i
      BY <1>1, <1>2
    <2>2. queue'[i - 1] = queue[i]
      BY <1>1, <2>1
    <2> QED BY <2>1, <2>2 DEF Idle
  <1> QED BY <1>1, <1>2 DEF Idle

(* A command that writes nothing, or tells of nothing it wrote. *)
LEMMA StillShown ==
    ASSUME TypeOK, Shown, queue # <<>>, queue' = Tail(queue), Command.kind # "SetNode",
           device' => device, Unsaid \/ UNCHANGED <<buf, drafts, stale>>
    PROVE  Shown'
  <1> SUFFICES ASSUME device', ~stale', NEW p \in Paths, Idle(queue', p)
               PROVE  drafts'[p] = buf'[p]
    BY DEF Shown
  <1>1. ~stale /\ buf' = buf /\ drafts' = drafts
    <2>1. CASE Unsaid
      BY <2>1 DEF Unsaid
    <2>2. CASE UNCHANGED <<buf, drafts, stale>>
      BY <2>2
    <2> QED BY <2>1, <2>2
  <1>2. Idle(queue, p)
    BY IdleTail DEF NodeEdit
  <1> QED BY <1>1, <1>2 DEF Shown

(* A command sent. *)
LEMMA SendsAsked ==
    ASSUME TypeOK, QueueOK, Asked, Shown, UNCHANGED <<buf, stacks, device, spoiled, stale>>
    PROVE  /\ UNCHANGED <<queue, drafts, crossed>> => Asked' /\ Shown'
           /\ \A c : queue' = Append(queue, c) /\ c.kind \notin Quiet /\ UNCHANGED <<drafts, crossed>>
                     => Asked' /\ Shown'
           /\ \A p \in Paths, v \in Values : SendEdit(p, v) => Asked' /\ Shown'
           /\ \A v \in Values : Route(v) => Asked' /\ Shown'
  <1>1. /\ queue \in Seq(Commands) /\ buf \in Buffers /\ drafts \in Buffers /\ Len(queue) \in Nat
        /\ Router \in Paths
    BY QueueIs, WorkerAssumption DEF TypeOK
  <1>2. UNCHANGED <<queue, drafts, crossed>> => Asked' /\ Shown'
    BY DEF Asked, Shown
  <1>3. ASSUME NEW c, queue' = Append(queue, c)
        PROVE  /\ Len(queue') = Len(queue) + 1 /\ queue'[Len(queue) + 1] = c
               /\ \A i \in 1..Len(queue) : queue'[i] = queue[i]
               /\ \A i \in 1..Len(queue') : i \in 1..Len(queue) \/ queue'[i] = c
    <2>1. /\ Len(queue') = Len(queue) + 1 /\ queue'[Len(queue) + 1] = c
          /\ \A i \in 1..Len(queue) : queue'[i] = queue[i]
      BY <1>1, <1>3, AppendIs
    <2> QED BY <1>1, <2>1
  <1>4. ASSUME NEW c, queue' = Append(queue, c), NEW p
        PROVE  /\ ~NodeEdit(c, p) => (Idle(queue', p) <=> Idle(queue, p))
               /\ NodeEdit(c, p) => ~Idle(queue', p)
    <2>1. Len(queue') \in Nat /\ Len(queue') = Len(queue) + 1
          /\ (\A i \in 1..Len(queue) : i \in 1..Len(queue')) /\ Len(queue) + 1 \in 1..Len(queue')
      BY <1>1, <1>3, <1>4
    <2> QED BY <1>3, <1>4, <2>1 DEF Idle
  <1>5. ASSUME NEW c, queue' = Append(queue, c), device, ~spoiled, ~crossed, NEW p \in Paths,
               ~Touched(stacks.undo, p)
        PROVE  /\ ~NodeEdit(c, p) => Chain(queue', p, buf[p], drafts[p])
               /\ NodeEdit(c, p) /\ c.before = drafts[p] /\ ~stale => Chain(queue', p, buf[p], c.value)
    <2>1. Chain(queue, p, buf[p], drafts[p])
      BY <1>5 DEF Asked
    <2>2. ASSUME Idle(queue, p) => drafts[p] = buf[p]
          PROVE  /\ ~NodeEdit(c, p) => Chain(queue', p, buf[p], drafts[p])
                 /\ NodeEdit(c, p) /\ c.before = drafts[p] => Chain(queue', p, buf[p], c.value)
      BY <1>1, <1>3, <1>5, <2>1, <2>2, ChainAppend
    <2>3. ~NodeEdit(c, p) /\ Idle(queue, p) => Chain(queue', p, buf[p], drafts[p])
      BY <1>4, <1>5, IdleChain
    <2>4. ~stale => (Idle(queue, p) => drafts[p] = buf[p])
      BY <1>5 DEF Shown
    <2> QED BY <2>2, <2>3, <2>4
  <1>6. ASSUME NEW c, queue' = Append(queue, c), \A p \in Paths : ~NodeEdit(c, p),
               crossed => crossed',
               c.kind = "SetRouter" => (device /\ ~crossed' => c.before = buf[Router]),
               UNCHANGED drafts
        PROVE  Asked' /\ Shown'
    <2>1. Shown'
      BY <1>4, <1>6 DEF Shown
    <2>2. ASSUME device, ~spoiled, ~crossed'
          PROVE  Asked'
      <3>1. \A p \in Paths : ~Touched(stacks.undo, p) => Chain(queue', p, buf[p], drafts[p])
        BY <1>5, <1>6, <2>2
      <3>2. \A i \in 1..Len(queue') : queue'[i].kind = "SetRouter" => queue'[i].before = buf[Router]
        BY <1>3, <1>6, <2>2 DEF Asked
      <3> QED BY <1>6, <3>1, <3>2 DEF Asked
    <2> QED BY <2>1, <2>2 DEF Asked
  <1>7. ASSUME NEW c, queue' = Append(queue, c), c.kind \notin Quiet, UNCHANGED <<drafts, crossed>>
        PROVE  Asked' /\ Shown'
    BY <1>6, <1>7 DEF NodeEdit, Quiet
  <1>8. ASSUME NEW v \in Values, Route(v)
        PROVE  Asked' /\ Shown'
    <2> DEFINE c == [kind |-> "SetRouter", before |-> drafts[Router], value |-> v]
    <2>1. queue' = Append(queue, c) /\ c.kind = "SetRouter" /\ c.before = drafts[Router]
          /\ UNCHANGED drafts
      BY <1>8 DEF Route, Queues
    <2>2. (crossed => crossed') /\ (~crossed' => ~stale)
      BY <1>8 DEF Route, Crosses
    <2>3. device /\ ~stale => drafts[Router] = buf[Router]
      BY <1>1, RouterIdle DEF Shown
    <2> HIDE DEF c
    <2> QED BY <1>6, <2>1, <2>2, <2>3 DEF NodeEdit
  <1>9. ASSUME NEW p \in Paths, NEW v \in Values, SendEdit(p, v)
        PROVE  Asked' /\ Shown'
    <2> DEFINE c == [kind |-> "SetNode", path |-> p, before |-> drafts[p], value |-> v]
    <2>1. queue' = Append(queue, c) /\ c.kind = "SetNode" /\ c.path = p /\ c.before = drafts[p]
          /\ c.value = v /\ drafts' = [drafts EXCEPT ![p] = v]
      BY <1>9 DEF SendEdit, Queues
    <2> HIDE DEF c
    <2>2. /\ NodeEdit(c, p) /\ \A q \in Paths : q # p => ~NodeEdit(c, q)
          /\ drafts'[p] = v /\ \A q \in Paths : q # p => drafts'[q] = drafts[q]
      BY <1>1, <2>1 DEF NodeEdit, Buffers
    <2>3. ASSUME device, ~stale, NEW q \in Paths, Idle(queue', q)
          PROVE  drafts'[q] = buf'[q]
      <3>1. q # p
        BY <1>4, <2>1, <2>2, <2>3
      <3> QED BY <1>4, <2>1, <2>2, <2>3, <3>1 DEF Shown
    <2>4. Shown'
      BY <2>3 DEF Shown
    <2>5. ASSUME device, ~spoiled, ~crossed'
          PROVE  Asked'
      <3>1. ~crossed /\ ~stale
        BY <1>9, <2>5 DEF SendEdit, Crosses
      <3>2. ASSUME NEW q \in Paths, ~Touched(stacks.undo, q)
            PROVE  Chain(queue', q, buf[q], drafts'[q])
        <4>1. CASE q = p
          BY <1>5, <2>1, <2>2, <2>5, <3>1, <3>2, <4>1
        <4>2. CASE q # p
          BY <1>5, <2>1, <2>2, <2>5, <3>1, <3>2, <4>2
        <4> QED BY <4>1, <4>2
      <3>3. \A i \in 1..Len(queue') : queue'[i].kind = "SetRouter" => queue'[i].before = buf[Router]
        BY <1>3, <2>1, <2>5, <3>1 DEF Asked
      <3> QED BY <3>2, <3>3 DEF Asked
    <2> QED BY <2>4, <2>5 DEF Asked
  <1> QED BY <1>2, <1>7, <1>8, <1>9

(* Two edits taken as one. *)
LEMMA CoalesceAsked ==
    ASSUME TypeOK, QueueOK, Asked, Shown, Coalesce
    PROVE  Asked' /\ Shown'
  <1>1. /\ queue \in Seq(Commands) /\ Len(queue) \in Nat /\ Len(queue) > 1 /\ Command = queue[1]
        /\ Command.kind = "SetNode" /\ queue[2].kind = "SetNode" /\ queue[2].path = Command.path
        /\ queue' = <<Coalesced(Command, queue[2])>> \o SubSeq(queue, 3, Len(queue))
        /\ UNCHANGED <<buf, drafts, stacks, device, spoiled, stale, crossed>>
    <2>1. queue \in Seq(Commands) /\ Len(queue) > 1
      BY DEF TypeOK, Coalesce
    <2>2. Len(queue) \in Nat /\ queue # <<>>
      BY <2>1, QueueIs, EmptySeq
    <2>3. UNCHANGED <<buf, drafts, stacks, device, spoiled, stale, crossed>>
      BY DEF Coalesce, pedal, session, work, ghosts
    <2> QED BY <2>1, <2>2, <2>3, QueueIs DEF Coalesce
  <1> DEFINE c == Coalesced(Command, queue[2])
  <1>2. /\ Len(queue') = Len(queue) - 1 /\ queue'[1] = c /\ c.kind = "SetNode"
        /\ \A i \in 2..(Len(queue) - 1) : i + 1 \in 1..Len(queue) /\ queue'[i] = queue[i + 1]
        /\ c.path = queue[1].path /\ c.before = queue[1].before /\ c.value = queue[2].value
    BY <1>1, CoalescedIs
  <1> HIDE DEF c
  <1>3. PICK n \in Nat : Len(queue) = n + 2 /\ Len(queue') = n + 1 /\ Len(queue) - 1 = n + 1
    <2>1. Len(queue) - 2 \in Nat /\ Len(queue) = (Len(queue) - 2) + 2
          /\ Len(queue) - 1 = (Len(queue) - 2) + 1
      BY <1>1
    <2> QED BY <1>2, <2>1
  <1>4. \A i \in 2..(n + 1) : queue'[i] = queue[i + 1]
    BY <1>2, <1>3
  <1>5. ASSUME NEW p, NEW v, NEW d, Chain(queue, p, v, d)
        PROVE  Chain(queue', p, v, d) /\ (Idle(queue', p) => Idle(queue, p))
    <2>1. /\ Len(queue) = n + 2 /\ Len(queue') = n + 1 /\ queue'[1] = c
          /\ \A i \in 2..(n + 1) : queue'[i] = queue[i + 1]
          /\ c.kind = "SetNode" /\ queue[1].kind = "SetNode" /\ queue[2].kind = "SetNode"
          /\ queue[2].path = queue[1].path /\ c.path = queue[1].path
          /\ c.before = queue[1].before /\ c.value = queue[2].value
      BY <1>1, <1>2, <1>3, <1>4
    <2> QED BY ONLY <1>5, <2>1, ChainCoalesce
  <1>6. ASSUME NEW p, Idle(queue', p)
        PROVE  Idle(queue, p)
    <2>1. \A i \in 1..(n + 1) : ~NodeEdit(queue'[i], p)
      BY <1>3, <1>6 DEF Idle
    <2>2. ASSUME NEW i \in 1..(n + 2)
          PROVE  ~NodeEdit(queue[i], p)
      <3>1. 1 \in 1..(n + 1) /\ ~NodeEdit(queue'[1], p)
        BY <2>1
      <3>2. CASE i = 1
        BY <1>1, <1>2, <3>1, <3>2 DEF NodeEdit
      <3>3. CASE i = 2
        BY <1>1, <1>2, <3>1, <3>3 DEF NodeEdit
      <3>4. CASE i # 1 /\ i # 2
        <4>1. i - 1 \in 2..(n + 1) /\ i - 1 \in 1..(n + 1) /\ (i - 1) + 1 = i
          BY <3>4
        <4> QED BY <1>4, <2>1, <4>1
      <3> QED BY <3>2, <3>3, <3>4
    <2> QED BY <1>3, <2>2 DEF Idle
  <1>7. ASSUME NEW i \in 1..Len(queue'), queue'[i].kind = "SetRouter"
        PROVE  i + 1 \in 1..Len(queue) /\ queue'[i] = queue[i + 1]
    <2>1. i # 1
      BY <1>2, <1>7
    <2>2. i \in 2..(n + 1) /\ i + 1 \in 1..(n + 2)
      BY <1>3, <2>1
    <2> QED BY <1>3, <1>4, <2>2
  <1>8. Shown'
    BY <1>1, <1>6 DEF Shown
  <1> QED BY <1>1, <1>5, <1>7, <1>8 DEF Asked

(* An edit of one node, recorded or grown from the one before it. *)
LEMMA EditedSays ==
    ASSUME stacks \in Stacks, buf \in Buffers, NEW p \in Paths, NEW before \in Values,
           NEW v \in Values, NEW c \in Buffers, NEW D,
           NEW m \in {Recorded(stacks, One(p, before, v))}
                         \cup (IF Merges(p) THEN {Merged(p, v)} ELSE {})
    PROVE  /\ Touched(m.undo, p) /\ \A q \in Paths : Touched(stacks.undo, q) => Touched(m.undo, q)
           /\ Begins(stacks, buf, c) /\ (~Touched(stacks.undo, p) => before = buf[p])
              => Begins(m, [buf EXCEPT ![p] = v], c)
           /\ Joined(stacks, buf) /\ before = buf[p] => Joined(m, [buf EXCEPT ![p] = v])
           /\ Inside(stacks, D) /\ p \in D => Inside(m, D)
  <1> DEFINE t == One(p, before, v)
             bb == [buf EXCEPT ![p] = v]
  <1>1. /\ bb \in Buffers /\ bb[p] = v /\ \A q \in Paths : q # p => bb[q] = buf[q]
    BY DEF Buffers
  <1>2. t \in Edits /\ DOMAIN t = {p} /\ t[p].before = before /\ t[p].after = v
    BY OneIs
  <1> HIDE DEF t, bb
  <1>3. CASE m = Recorded(stacks, t)
    <2>1. /\ /\ Begins(stacks, buf, c)
             /\ \A q \in Paths : ~Touched(stacks.undo, q) =>
                    IF q \in DOMAIN t THEN t[q].before = c[q] ELSE bb[q] = c[q]
             => Begins(m, bb, c)
          /\ /\ Joined(stacks, buf)
             /\ \A q \in Paths : IF q \in DOMAIN t
                                 THEN t[q].before = buf[q] /\ t[q].after = bb[q]
                                 ELSE bb[q] = buf[q]
             => Joined(m, bb)
          /\ Inside(stacks, D) /\ DOMAIN t \subseteq D => Inside(m, D)
          /\ \A q \in Paths : Touched(m.undo, q) <=> Touched(stacks.undo, q) \/ q \in DOMAIN t
      BY <1>1, <1>2, <1>3, RecordedSays
    <2>2. Begins(stacks, buf, c) => \A q \in Paths : ~Touched(stacks.undo, q) => buf[q] = c[q]
      BY DEF Begins
    <2>3. Begins(stacks, buf, c) /\ (~Touched(stacks.undo, p) => before = buf[p])
          => Begins(m, bb, c)
      <3>1. ASSUME Begins(stacks, buf, c), ~Touched(stacks.undo, p) => before = buf[p],
                   NEW q \in Paths, ~Touched(stacks.undo, q)
            PROVE  IF q \in DOMAIN t THEN t[q].before = c[q] ELSE bb[q] = c[q]
        BY <1>1, <1>2, <2>2, <3>1
      <3> QED BY <2>1, <3>1
    <2>4. Joined(stacks, buf) /\ before = buf[p] => Joined(m, bb)
      BY <1>1, <1>2, <2>1
    <2>5. Inside(stacks, D) /\ p \in D => Inside(m, D)
      BY <1>2, <2>1
    <2>6. Touched(m.undo, p) /\ \A q \in Paths : Touched(stacks.undo, q) => Touched(m.undo, q)
      BY <1>2, <2>1
    <2> QED BY <2>3, <2>4, <2>5, <2>6 DEF bb
  <1>4. CASE Merges(p) /\ m = Merged(p, v)
    <2>1. /\ Begins(stacks, buf, c) => Begins(m, bb, c)
          /\ Joined(stacks, buf) => Joined(m, bb)
          /\ Inside(stacks, D) => Inside(m, D)
          /\ \A q \in Paths : Touched(m.undo, q) <=> Touched(stacks.undo, q)
          /\ Touched(stacks.undo, p)
      BY <1>1, <1>4, MergedSays
    <2> QED BY <2>1 DEF bb
  <1> QED BY <1>3, <1>4 DEF t

(* What the head of the queue was asked for over. *)
LEMMA HeadAsked ==
    ASSUME TypeOK, QueueOK, Asked, queue # <<>>, device, ~spoiled, ~crossed
    PROVE  /\ Command.kind = "SetNode" /\ ~Touched(stacks.undo, Command.path)
              => Command.before = buf[Command.path]
           /\ Command.kind = "SetRouter" => Command.before = buf[Router]
  <1>1. /\ Command = queue[1] /\ Command \in Commands /\ 1 \in 1..Len(queue) /\ Len(queue) \in Nat
    BY QueueIs DEF TypeOK
  <1>2. ASSUME Command.kind = "SetNode", ~Touched(stacks.undo, Command.path)
        PROVE  Command.before = buf[Command.path]
    <2>1. Command.path \in Paths
      BY <1>1, <1>2, CommandHas
    <2>2. Chain(queue, Command.path, buf[Command.path], drafts[Command.path])
      BY <1>2, <2>1 DEF Asked
    <2>3. NodeEdit(queue[1], Command.path) /\ \A j \in 1..Len(queue) : ~(j < 1)
      BY <1>1, <1>2 DEF NodeEdit
    <2> QED BY <1>1, <2>2, <2>3 DEF Chain
  <1> QED BY <1>1, <1>2 DEF Asked

(* The command gone from the queue, for the nodes it was not about. *)
LEMMA RestAsked ==
    ASSUME TypeOK, QueueOK, Asked, queue # <<>>, queue' = Tail(queue), device, ~spoiled,
           ~crossed
    PROVE  /\ \A p \in Paths : ~NodeEdit(Command, p) /\ ~Touched(stacks.undo, p)
                  => Chain(queue', p, buf[p], drafts[p])
           /\ \A p \in Paths : /\ NodeEdit(Command, p) /\ ~Touched(stacks.undo, p)
                               /\ Command.value = buf[p]
                               => Chain(queue', p, buf[p], buf[p])
           /\ \A p : (\A i \in DOMAIN queue : i > 1 => ~NodeEdit(queue[i], p)) => Idle(queue', p)
           /\ \A i \in 1..Len(queue') : queue'[i].kind = "SetRouter" =>
                  queue'[i].before = buf[Router] /\ Command.kind # "SetRouter"
  <1>1. /\ Command = queue[1] /\ 1 \in 1..Len(queue) /\ Len(queue) \in Nat
        /\ Len(queue') = Len(queue) - 1 /\ DOMAIN queue = 1..Len(queue)
        /\ \A i \in 1..Len(queue') : i + 1 \in 1..Len(queue) /\ queue'[i] = queue[i + 1]
    BY QueueIs DEF TypeOK
  <1>2. PICK n \in Nat : Len(queue) = n + 1 /\ Len(queue') = n
    <2>1. Len(queue) - 1 \in Nat /\ Len(queue) = (Len(queue) - 1) + 1
      BY <1>1
    <2> QED BY <1>1, <2>1
  <1>3. ASSUME NEW p, NEW v, NEW d, Chain(queue, p, v, d)
        PROVE  /\ ~NodeEdit(queue[1], p) => Chain(queue', p, v, d)
               /\ NodeEdit(queue[1], p) /\ queue[1].value = v => Chain(queue', p, v, v)
    <2>1. \A i \in 1..n : queue'[i] = queue[i + 1]
      BY <1>1, <1>2
    <2> QED BY <1>2, <1>3, <2>1, ChainTail
  <1>4. ASSUME NEW p \in Paths, ~NodeEdit(Command, p), ~Touched(stacks.undo, p)
        PROVE  Chain(queue', p, buf[p], drafts[p])
    BY <1>1, <1>3, <1>4 DEF Asked
  <1>5. ASSUME NEW p \in Paths, NodeEdit(Command, p), ~Touched(stacks.undo, p),
               Command.value = buf[p]
        PROVE  Chain(queue', p, buf[p], buf[p])
    BY <1>1, <1>3, <1>5 DEF Asked
  <1>6. ASSUME NEW p, \A i \in DOMAIN queue : i > 1 => ~NodeEdit(queue[i], p)
        PROVE  Idle(queue', p)
    <2>1. \A i \in 1..n : i + 1 \in 1..(n + 1) /\ i + 1 > 1
      OBVIOUS
    <2> QED BY <1>1, <1>2, <1>6, <2>1 DEF Idle
  <1>7. ASSUME NEW i \in 1..Len(queue'), queue'[i].kind = "SetRouter"
        PROVE  queue'[i].before = buf[Router] /\ Command.kind # "SetRouter"
    <2>1. i + 1 \in 1..Len(queue) /\ queue'[i] = queue[i + 1] /\ i + 1 # 1
      BY <1>1, <1>7
    <2>2. Command.kind # "SetRouter"
      BY <1>1, <1>7, <2>1 DEF QueueOK
    <2>3. queue[i + 1].before = buf[Router]
      BY <1>7, <2>1 DEF Asked
    <2> QED BY <2>1, <2>2, <2>3
  <1> QED BY <1>4, <1>5, <1>6, <1>7

(* An edit written, or refused and the panel put back to what it was asked for over. *)
LEMMA EditsAsked ==
    ASSUME TypeOK, QueueOK, Asked, SetNode \/ SetRouter
    PROVE  Asked'
  <1>1. /\ queue \in Seq(Commands) /\ buf \in Buffers /\ drafts \in Buffers /\ Router \in Paths
        /\ stacks \in Stacks /\ Len(queue) \in Nat
    BY QueueIs, WorkerAssumption DEF TypeOK
  <1>2. ASSUME NEW kinds, Handling(kinds)
        PROVE  /\ Command \in Commands /\ Command.kind \in kinds /\ Command = queue[1]
               /\ 1 \in 1..Len(queue) /\ device /\ queue # <<>> /\ queue' = Tail(queue)
    BY <1>1, <1>2, QueueIs DEF Handling
  <1> SUFFICES ASSUME device', ~spoiled', ~crossed'
               PROVE  Asked'
    BY DEF Asked
  <1>3. ~spoiled /\ ~crossed
    <2>0. spoiled \in BOOLEAN /\ crossed \in BOOLEAN
      BY DEF TypeOK
    <2>1. CASE SetNode
      <3>1. \/ spoiled' = spoiled /\ crossed' = crossed
            \/ /\ spoiled' = (spoiled \/ buf' # buf)
               /\ crossed' = (crossed \/ \E i \in DOMAIN queue : i > 1
                                 /\ queue[i].kind = "SetNode" /\ queue[i].path = Command.path)
        BY <2>1 DEF SetNode
      <3> QED BY <2>0, <3>1
    <2>2. CASE SetRouter
      <3>1. spoiled' = spoiled \/ spoiled' = (spoiled \/ buf' # buf)
        BY <2>2 DEF SetRouter
      <3>2. crossed' = crossed
        BY <2>2 DEF SetRouter
      <3> QED BY <2>0, <3>1, <3>2
    <2> QED BY <2>1, <2>2
  <1>4. CASE SetNode
    <2> DEFINE p == Command.path
               v == Command.value
               before == Command.before
    <2>1. Command \in Commands /\ Command.kind = "SetNode" /\ Command = queue[1]
          /\ 1 \in 1..Len(queue) /\ device /\ queue # <<>> /\ queue' = Tail(queue)
      BY <1>2, <1>4 DEF SetNode
    <2>2. p \in Paths /\ before \in Values /\ v \in Values /\ p # Router
          /\ NodeEdit(Command, p) /\ \A q \in Paths : q # p => ~NodeEdit(Command, q)
      BY <2>1, CommandHas DEF QueueOK, NodeEdit
    <2>3. ~Touched(stacks.undo, p) => before = buf[p]
      BY <1>3, <2>1, HeadAsked
    <2>4. /\ \A q \in Paths : q # p /\ ~Touched(stacks.undo, q) => Chain(queue', q, buf[q], drafts[q])
          /\ ~Touched(stacks.undo, p) /\ v = buf[p] => Chain(queue', p, buf[p], buf[p])
          /\ (\A i \in DOMAIN queue : i > 1 => ~NodeEdit(queue[i], p)) => Idle(queue', p)
          /\ \A i \in 1..Len(queue') : queue'[i].kind = "SetRouter" => queue'[i].before = buf[Router]
      BY <1>3, <2>1, <2>2, RestAsked
    <2>5. CASE /\ buf' = [buf EXCEPT ![p] = v] /\ drafts' = [drafts EXCEPT ![p] = v]
               /\ \/ before = v /\ stacks' = stacks
                  \/ stacks' \in {Recorded(stacks, One(p, before, v))}
                          \cup (IF Merges(p) THEN {Merged(p, v)} ELSE {})
      <3>1. /\ buf'[p] = v /\ drafts'[p] = v
            /\ \A q \in Paths : q # p => buf'[q] = buf[q] /\ drafts'[q] = drafts[q]
        BY <1>1, <2>2, <2>5 DEF Buffers
      <3>2. /\ \A q \in Paths : Touched(stacks.undo, q) => Touched(stacks'.undo, q)
            /\ Touched(stacks'.undo, p) \/ (before = v /\ stacks' = stacks)
        BY <1>1, <2>2, <2>5, EditedSays
      <3> HIDE DEF p, v, before
      <3>3. ASSUME NEW q \in Paths, ~Touched(stacks'.undo, q)
            PROVE  Chain(queue', q, buf'[q], drafts'[q])
        <4>1. CASE q # p
          BY <2>4, <3>1, <3>2, <3>3, <4>1
        <4>2. CASE q = p
          <5>1. ~Touched(stacks.undo, p) /\ v = buf[p]
            BY <2>3, <3>2, <3>3, <4>2
          <5> QED BY <2>4, <3>1, <4>2, <5>1
        <4> QED BY <4>1, <4>2
      <3>4. buf'[Router] = buf[Router]
        BY <1>1, <2>2, <3>1
      <3> QED BY <2>4, <3>3, <3>4 DEF Asked
    <2>6. CASE /\ UNCHANGED <<buf, stacks>> /\ drafts' = [drafts EXCEPT ![p] = before]
               /\ \A i \in DOMAIN queue : i > 1 => ~NodeEdit(queue[i], p)
      <3>1. \A q \in Paths : q # p => drafts'[q] = drafts[q]
        BY <1>1, <2>2, <2>6 DEF Buffers
      <3> HIDE DEF p, v, before
      <3>2. Idle(queue', p)
        BY <2>4, <2>6
      <3>3. ASSUME NEW q \in Paths, ~Touched(stacks.undo, q)
            PROVE  Chain(queue', q, buf[q], drafts'[q])
        BY <2>4, <3>1, <3>2, <3>3, IdleChain
      <3> QED BY <2>4, <2>6, <3>3 DEF Asked
    <2>7. \/ /\ buf' = [buf EXCEPT ![p] = v] /\ drafts' = [drafts EXCEPT ![p] = v]
             /\ \/ before = v /\ stacks' = stacks
                \/ stacks' \in {Recorded(stacks, One(p, before, v))}
                        \cup (IF Merges(p) THEN {Merged(p, v)} ELSE {})
          \/ /\ UNCHANGED <<buf, stacks>> /\ drafts' = [drafts EXCEPT ![p] = before]
             /\ \A i \in DOMAIN queue : i > 1 => ~NodeEdit(queue[i], p)
      BY <1>4 DEF SetNode, Shows, NodeEdit
    <2> QED BY <2>5, <2>6, <2>7
  <1>5. CASE SetRouter
    <2> DEFINE after == Keep[Command.value]
               before == Command.before
    <2>1. Command \in Commands /\ Command.kind = "SetRouter" /\ device /\ queue # <<>>
          /\ queue' = Tail(queue)
      BY <1>2, <1>5 DEF SetRouter
    <2>2. before \in Values /\ after \in Values /\ \A q : ~NodeEdit(Command, q)
      BY <2>1, CommandHas, WorkerAssumption DEF NodeEdit
    <2>3. /\ \A q \in Paths : ~Touched(stacks.undo, q) => Chain(queue', q, buf[q], drafts[q])
          /\ \A i \in 1..Len(queue') : queue'[i].kind # "SetRouter"
      BY <1>3, <2>1, <2>2, RestAsked
    <2>4. Idle(queue', Router)
      <3>1. queue' \in Seq(Commands) /\ QueueOK'
        BY <1>1, <1>3, <2>1, QueueIs, QueueTail
      <3> QED BY <3>1 DEF QueueOK, Idle, NodeEdit
    <2>5. CASE /\ buf' = [buf EXCEPT ![Router] = after] /\ drafts' = [drafts EXCEPT ![Router] = after]
               /\ stacks' \in {stacks, Recorded(stacks, One(Router, before, after))}
      <3>1. \A q \in Paths : q # Router => buf'[q] = buf[q] /\ drafts'[q] = drafts[q]
        BY <1>1, <2>5 DEF Buffers
      <3>2. \A q \in Paths : Touched(stacks.undo, q) => Touched(stacks'.undo, q)
        BY <1>1, <2>2, <2>5, EditedSays
      <3> HIDE DEF after, before
      <3>3. ASSUME NEW q \in Paths, ~Touched(stacks'.undo, q)
            PROVE  Chain(queue', q, buf'[q], drafts'[q])
        BY <2>3, <2>4, <3>1, <3>2, <3>3, IdleChain
      <3> QED BY <2>3, <3>3 DEF Asked
    <2>6. CASE UNCHANGED <<buf, drafts, stacks>>
      BY <2>3, <2>6 DEF Asked
    <2>7. \/ /\ buf' = [buf EXCEPT ![Router] = after] /\ drafts' = [drafts EXCEPT ![Router] = after]
             /\ stacks' \in {stacks, Recorded(stacks, One(Router, before, after))}
          \/ UNCHANGED <<buf, drafts, stacks>>
      BY <1>5 DEF SetRouter, Unsaid, Shows, Routed
    <2> QED BY <2>5, <2>6, <2>7
  <1> QED BY <1>4, <1>5

LEMMA EditsShown ==
    ASSUME TypeOK, QueueOK, Shown, SetNode \/ SetRouter
    PROVE  Shown'
  <1>1. /\ queue \in Seq(Commands) /\ buf \in Buffers /\ drafts \in Buffers /\ Router \in Paths
    BY WorkerAssumption DEF TypeOK
  <1>2. /\ Command \in Commands /\ Command = queue[1] /\ 1 \in 1..Len(queue) /\ device
        /\ queue # <<>> /\ queue' = Tail(queue)
    BY <1>1, QueueIs DEF SetNode, SetRouter, Handling
  <1> SUFFICES ASSUME device', ~stale', NEW q \in Paths, Idle(queue', q)
               PROVE  drafts'[q] = buf'[q]
    BY DEF Shown
  <1>3. ~stale
    BY DEF SetNode, SetRouter, Unsaid
  <1>4. ~NodeEdit(Command, q) => drafts[q] = buf[q]
    BY <1>2, <1>3, IdleTail DEF Shown
  <1>5. CASE SetNode
    <2> DEFINE p == Command.path
    <2>1. Command.kind = "SetNode"
      BY <1>5 DEF SetNode, Handling
    <2>2. p \in Paths
      BY <1>2, <2>1, CommandHas
    <2>3. \A x \in Strayed({p}, buf) : \A r \in Paths : r # p => x[r] = buf[r]
      BY <1>1, <2>2, StrayedIs
    <2>4. \/ buf' = [buf EXCEPT ![p] = Command.value] /\ drafts' = [drafts EXCEPT ![p] = Command.value]
          \/ /\ buf' \in Strayed({p}, buf) /\ drafts' = [drafts EXCEPT ![p] = Command.before]
             /\ Command.before = buf'[p]
      BY <1>5 DEF SetNode, Shows
    <2> HIDE DEF p
    <2>5. CASE q = p
      BY <1>1, <2>2, <2>4, <2>5 DEF Buffers
    <2>6. CASE q # p
      <3>1. drafts[q] = buf[q]
        BY <1>4, <2>6 DEF NodeEdit, p
      <3>2. buf'[q] = buf[q]
        <4>1. [buf EXCEPT ![p] = Command.value][q] = buf[q]
          BY <1>1, <2>6 DEF Buffers
        <4> QED BY <2>3, <2>4, <2>6, <4>1
      <3>3. drafts'[q] = drafts[q]
        BY <1>1, <2>4, <2>6 DEF Buffers
      <3> QED BY <3>1, <3>2, <3>3
    <2> QED BY <2>5, <2>6
  <1>6. CASE SetRouter
    <2>1. drafts[q] = buf[q]
      BY <1>4, <1>6 DEF SetRouter, Handling, NodeEdit
    <2>2. \/ /\ buf' = [buf EXCEPT ![Router] = Keep[Command.value]]
             /\ drafts' = [drafts EXCEPT ![Router] = Keep[Command.value]]
          \/ buf' = buf /\ drafts' = drafts
      BY <1>6 DEF SetRouter, Unsaid, Shows, Routed
    <2> QED BY <1>1, <2>1, <2>2 DEF Buffers
  <1> QED BY <1>5, <1>6

----------------------------------------------------------------------------
(* What the stacks and the audition hold.                                      *)

\* The histories lead back to where they began, and what an audition replaced to what it found.
History ==
    device /\ Whole =>
        /\ Begins(stacks, buf, base)
        /\ audition # None => Restored = own /\ Begins(audition, own, ownBase)

\* What an edit replaced while a tone plays is held, and as long as every edit was over what the
\* pedal had, each step holds what it would write over.
Links ==
    device /\ ~spoiled =>
        /\ audition # None => Inside(stacks, DOMAIN audition_original)
        /\ ~drifted => Joined(stacks, buf) /\ (audition # None => Joined(audition, Restored))

LEMMA HistoryInit ==
    ASSUME Init
    PROVE  History /\ Links
  BY DEF Init, History, Links

(* What was replaced, put back, value by value. *)
LEMMA PutBackIs ==
    ASSUME NEW b \in Buffers, NEW o \in Partials, Router \in DOMAIN o => Keep[o[Router]] = o[Router]
    PROVE  /\ All(o, b) \in Buffers
           /\ \A p \in Paths : All(o, b)[p] = IF p \in DOMAIN o THEN o[p] ELSE b[p]
  BY AllIs DEF Held

(* The history to take back leads back from what is to be put back. *)
LEMMA HistoryHeld ==
    ASSUME TypeOK, Tidy, History, Links, device, ~spoiled
    PROVE  /\ Whole => /\ Begins(TakenBack, Restored, BaseBack)
                       /\ audition # None => Restored = own
           /\ ~drifted => Joined(TakenBack, Restored)
           /\ audition = None => Restored = buf /\ TakenBack = stacks /\ BaseBack = base
  <1>1. CASE audition = None
    <2>1. Restored = buf /\ TakenBack = stacks /\ BaseBack = base
      BY <1>1, TidyHeld DEF TakenBack, BaseBack
    <2> QED BY <1>1, <2>1 DEF History, Links
  <1>2. CASE audition # None
    <2>1. TakenBack = audition /\ BaseBack = ownBase
      BY <1>2 DEF TakenBack, BaseBack
    <2> QED BY <1>2, <2>1 DEF History, Links
  <1> QED BY <1>1, <1>2

\* No step but one that begins a history anew takes back what made it untrue.
StillWhole == (crossed => crossed') /\ drifted' = drifted

LEMMA HistorySame ==
    ASSUME History, Links, UNCHANGED <<buf, work, base, own, ownBase, device, spoiled>>, StillWhole
    PROVE  History' /\ Links'
  <1>1. UNCHANGED <<audition_original, audition, stacks>> /\ Restored' = Restored
    BY DEF work, Restored
  <1>2. Whole' => Whole
    BY DEF Whole, StillWhole
  <1> QED BY <1>1, <1>2 DEF History, Links, StillWhole

(* Put back, and the stacks taken back. *)
LEMMA HistoryTakenBack ==
    ASSUME TypeOK, Tidy, History, Links, stacks' = TakenBack, buf' = Restored,
           base' = BaseBack, audition' = None, device' /\ ~spoiled' => device /\ ~spoiled,
           StillWhole
    PROVE  History' /\ Links'
  <1>1. device' /\ Whole' => device /\ Whole
    BY DEF Whole, StillWhole
  <1> QED BY <1>1, HistoryHeld DEF History, Links, StillWhole, Whole

(* A buffer found or loaded: the history begins there. *)
LEMMA HistoryBlank ==
    ASSUME buf' \in Buffers, stacks' = Blank, base' = buf', audition' = None
    PROVE  History' /\ Links'
  <1>1. Begins(Blank, buf', buf') /\ Joined(Blank, buf')
    BY BlankSays
  <1> QED BY <1>1 DEF History, Links

(* What an edit replaces while a tone plays is what was there before the tone. *)
LEMMA RememberedSays ==
    ASSUME TypeOK, Tidy, audition # None, NEW p \in Paths, NEW before \in Values,
           p = Router => Keep[before] = before,
           p \notin DOMAIN audition_original => before = buf[p],
           buf' \in Buffers, \A q \in Paths : q # p => buf'[q] = buf[q],
           audition_original' = Remembered(p, before)
    PROVE  Restored' = Restored /\ DOMAIN audition_original' = DOMAIN audition_original \cup {p}
  <1>1. /\ audition_original \in Partials /\ buf \in Buffers
        /\ Router \in DOMAIN audition_original =>
               Keep[audition_original[Router]] = audition_original[Router]
    BY DEF TypeOK, Tidy
  <1>2. audition_original' \in Partials
    BY HeldTyped
  <1>3. /\ DOMAIN audition_original' = DOMAIN audition_original \cup {p}
        /\ \A q \in DOMAIN audition_original : audition_original'[q] = audition_original[q]
        /\ p \notin DOMAIN audition_original => audition_original'[p] = before
    <2>1. CASE p \in DOMAIN audition_original
      BY <2>1 DEF Remembered
    <2>2. CASE p \notin DOMAIN audition_original
      BY <2>2 DEF Remembered
    <2> QED BY <2>1, <2>2
  <1>4. Router \in DOMAIN audition_original' =>
            Keep[audition_original'[Router]] = audition_original'[Router]
    BY <1>1, <1>3
  <1>5. /\ Restored \in Buffers
        /\ \A q \in Paths : Restored[q] = IF q \in DOMAIN audition_original
                                          THEN audition_original[q] ELSE buf[q]
    BY <1>1, PutBackIs DEF Restored
  <1>6. /\ Restored' \in Buffers
        /\ \A q \in Paths : Restored'[q] = IF q \in DOMAIN audition_original'
                                           THEN audition_original'[q] ELSE buf'[q]
    <2>1. Restored' = All(audition_original', buf')
      BY DEF Restored
    <2> QED BY <1>2, <1>4, <2>1, PutBackIs
  <1>7. ASSUME NEW q \in Paths
        PROVE  Restored'[q] = Restored[q]
    BY <1>3, <1>5, <1>6
  <1> QED BY <1>3, <1>5, <1>6, <1>7, SameBuffer

(* An edit made, or refused: the histories lead back, and so does what the audition replaced. *)
LEMMA EditsHistory ==
    ASSUME TypeOK, TypeOK', QueueOK, Tidy, Asked, History, Links, SetNode \/ SetRouter
    PROVE  History' /\ Links'
  <1> SUFFICES ASSUME device', ~spoiled'
               PROVE  History' /\ Links'
    BY DEF History, Links, Whole
  <1>1. /\ buf \in Buffers /\ buf' \in Buffers /\ Router \in Paths /\ stacks \in Stacks
        /\ queue \in Seq(Commands) /\ base \in Buffers /\ UNCHANGED <<audition, own, ownBase, base>>
        /\ ~spoiled /\ queue # <<>> /\ device
    <2>1. \/ spoiled' = spoiled
          \/ spoiled' = (spoiled \/ buf' # buf)
      BY DEF SetNode, SetRouter
    <2>2. ~spoiled
      BY <2>1 DEF TypeOK
    <2> QED BY <2>2, WorkerAssumption DEF TypeOK, SetNode, SetRouter, Handling
  <1>2. /\ Command \in Commands /\ Command = queue[1] /\ 1 \in 1..Len(queue)
        /\ ~crossed =>
              /\ Command.kind = "SetNode" /\ ~Touched(stacks.undo, Command.path)
                 => Command.before = buf[Command.path]
              /\ Command.kind = "SetRouter" => Command.before = buf[Router]
    BY <1>1, QueueIs, HeadAsked
  <1>3. /\ Whole => /\ Begins(stacks, buf, base)
                    /\ audition # None => Restored = own /\ Begins(audition, own, ownBase)
        /\ audition # None => Inside(stacks, DOMAIN audition_original)
        /\ ~drifted => Joined(stacks, buf) /\ (audition # None => Joined(audition, Restored))
    BY <1>1 DEF History, Links
  \* One edit, of the node p from before to v.
  <1>4. ASSUME NEW p \in Paths, NEW before \in Values, NEW v \in Values,
               p = Router => Keep[before] = before,
               Whole' => Whole /\ (~Touched(stacks.undo, p) => before = buf[p]),
               ~drifted' => Whole' /\ before = buf[p] /\ ~drifted,
               \/ /\ buf' = [buf EXCEPT ![p] = v]
                  /\ \/ before = v /\ stacks' = stacks
                     \/ stacks' \in {Recorded(stacks, One(p, before, v))}
                             \cup (IF Merges(p) THEN {Merged(p, v)} ELSE {})
                  /\ audition_original' = Remembered(p, before)
               \/ /\ UNCHANGED <<buf, stacks>>
                  /\ \/ audition_original' = Remembered(p, before)
                     \/ audition_original' = audition_original
        PROVE  History' /\ Links'
    <2>1. \/ /\ buf' = buf /\ stacks' = stacks
          \/ /\ before = v /\ stacks' = stacks /\ buf' = [buf EXCEPT ![p] = v]
          \/ /\ buf' = [buf EXCEPT ![p] = v]
             /\ stacks' \in {Recorded(stacks, One(p, before, v))}
                         \cup (IF Merges(p) THEN {Merged(p, v)} ELSE {})
      BY <1>4
    <2>2. [buf EXCEPT ![p] = v][p] = v /\ \A q \in Paths : q # p => [buf EXCEPT ![p] = v][q] = buf[q]
      BY <1>1 DEF Buffers
    <2>3. /\ Whole' => Begins(stacks', buf', base)
          /\ ~drifted' => Joined(stacks', buf')
          /\ \A D : Inside(stacks, D) /\ p \in D => Inside(stacks', D)
      <3>1. CASE buf' = buf /\ stacks' = stacks
        BY <1>3, <1>4, <3>1
      <3>2. CASE before = v /\ stacks' = stacks /\ buf' = [buf EXCEPT ![p] = v]
        <4>1. before = buf[p] => buf' = buf
          <5>1. buf'[p] = before /\ \A q \in Paths : q # p => buf'[q] = buf[q]
            BY <2>2, <3>2
          <5> QED BY <1>1, <5>1, SameBuffer
        <4>2. Whole' => Begins(stacks, buf', base)
          <5>1. CASE before = buf[p]
            BY <1>3, <1>4, <4>1, <5>1
          <5>2. CASE Touched(stacks.undo, p)
            BY <1>3, <1>4, <2>2, <3>2, <5>2 DEF Begins
          <5> QED BY <1>4, <5>1, <5>2
        <4> QED BY <1>3, <1>4, <3>2, <4>1, <4>2
      <3>3. CASE /\ buf' = [buf EXCEPT ![p] = v]
                 /\ stacks' \in {Recorded(stacks, One(p, before, v))}
                             \cup (IF Merges(p) THEN {Merged(p, v)} ELSE {})
        <4>1. ASSUME NEW D
              PROVE  /\ Begins(stacks, buf, base) /\ (~Touched(stacks.undo, p) => before = buf[p])
                        => Begins(stacks', buf', base)
                     /\ Joined(stacks, buf) /\ before = buf[p] => Joined(stacks', buf')
                     /\ Inside(stacks, D) /\ p \in D => Inside(stacks', D)
          BY <1>1, <1>4, <3>3, EditedSays
        <4> QED BY <1>3, <1>4, <4>1
      <3> QED BY <2>1, <3>1, <3>2, <3>3
    <2>4. \A q \in Paths : q # p => buf'[q] = buf[q]
      BY <1>4, <2>2
    <2>5. ASSUME audition # None
          PROVE  /\ Inside(stacks', DOMAIN audition_original')
                 /\ Whole' => Restored' = Restored
      <3>1. CASE audition_original' = Remembered(p, before)
        <4>1. DOMAIN audition_original' = DOMAIN audition_original \cup {p}
          BY <2>5, <3>1 DEF Remembered
        <4>2. Inside(stacks, DOMAIN audition_original')
          BY <1>3, <2>5, <4>1 DEF Inside, Within
        <4>3. ASSUME Whole'
              PROVE  Restored' = Restored
          <5>1. p \notin DOMAIN audition_original => before = buf[p]
            BY <1>3, <1>4, <2>5, <4>3 DEF Inside, Within, Touched
          <5> QED BY <1>1, <1>4, <2>4, <2>5, <3>1, <5>1, RememberedSays
        <4> QED BY <2>3, <4>1, <4>2, <4>3
      <3>2. CASE audition_original' = audition_original /\ UNCHANGED <<buf, stacks>>
        BY <1>3, <2>5, <3>2 DEF Restored
      <3> QED BY <1>4, <3>1, <3>2
    <2>6. History'
      BY <1>1, <1>3, <1>4, <2>3, <2>5 DEF History
    <2>7. Links'
      BY <1>1, <1>3, <1>4, <2>3, <2>5 DEF Links
    <2> QED BY <2>6, <2>7
  <1>5. CASE SetNode
    <2> DEFINE p == Command.path
               before == Command.before
               v == Command.value
    <2>1. Command.kind = "SetNode" /\ p \in Paths /\ before \in Values /\ v \in Values
          /\ p # Router
      BY <1>2, <1>5, CommandHas DEF SetNode, Handling, QueueOK
    <2>2. /\ ~drifted' => before = buf[p] /\ ~drifted
          /\ ~crossed' => ~crossed
          /\ audition_original' = Remembered(p, before)
      <3>1. drifted' = (drifted \/ before # buf[p]) /\ audition_original' = Remembered(p, before)
        BY <1>5 DEF SetNode
      <3>2. \/ crossed' = crossed
            \/ crossed' = (crossed \/ \E i \in DOMAIN queue : i > 1
                             /\ queue[i].kind = "SetNode" /\ queue[i].path = p)
        BY <1>5 DEF SetNode
      <3>3. crossed \in BOOLEAN /\ drifted \in BOOLEAN
        BY DEF TypeOK
      <3> HIDE DEF p, before
      <3>4. ~crossed' => ~crossed
        BY <3>2, <3>3
      <3>5. ~drifted' => before = buf[p] /\ ~drifted
        BY <3>1, <3>3
      <3> QED BY <3>1, <3>4, <3>5
    <2>3. \/ /\ buf' = [buf EXCEPT ![p] = v]
             /\ \/ before = v /\ stacks' = stacks
                \/ stacks' \in {Recorded(stacks, One(p, before, v))}
                        \cup (IF Merges(p) THEN {Merged(p, v)} ELSE {})
          \/ UNCHANGED <<buf, stacks>>
      BY <1>5 DEF SetNode
    <2>4. ~crossed' => (~Touched(stacks.undo, p) => before = buf[p])
      BY <1>2, <2>1, <2>2
    <2> HIDE DEF p, before, v
    <2>5. Whole' => Whole /\ (~Touched(stacks.undo, p) => before = buf[p])
      BY <1>1, <2>2, <2>4 DEF Whole
    <2>6. ~drifted' => Whole'
      BY DEF Whole
    <2> QED BY <1>4, <2>1, <2>2, <2>3, <2>5, <2>6
  <1>6. CASE SetRouter
    <2> DEFINE before == Command.before
               v == Keep[Command.value]
    <2>1. Command.kind = "SetRouter" /\ before \in Values /\ v \in Values /\ Keep[before] = before
      BY <1>2, <1>6, CommandHas, WorkerAssumption DEF SetRouter, Handling, QueueOK
    <2>2. (~drifted' => before = buf[Router] /\ ~drifted) /\ crossed' = crossed
      BY <1>6 DEF SetRouter
    <2>3. \/ /\ buf' = [buf EXCEPT ![Router] = v]
             /\ audition_original' = Remembered(Router, before)
             /\ \/ before = v /\ stacks' = stacks
                \/ stacks' = Recorded(stacks, One(Router, before, v))
          \/ UNCHANGED <<buf, audition_original, stacks>>
      BY <1>6 DEF SetRouter
    <2>4. ~crossed => before = buf[Router]
      BY <1>2, <2>1
    <2> HIDE DEF before, v
    <2>5. Whole' => Whole /\ before = buf[Router]
      BY <1>1, <2>2, <2>4 DEF Whole
    <2>6. ~drifted' => Whole'
      BY DEF Whole
    <2>7. \/ /\ buf' = [buf EXCEPT ![Router] = v]
             /\ \/ before = v /\ stacks' = stacks
                \/ stacks' \in {Recorded(stacks, One(Router, before, v))}
                        \cup (IF Merges(Router) THEN {Merged(Router, v)} ELSE {})
             /\ audition_original' = Remembered(Router, before)
          \/ UNCHANGED <<buf, audition_original, stacks>>
      BY <2>3
    <2> QED BY <1>1, <1>4, <2>1, <2>2, <2>5, <2>6, <2>7
  <1> QED BY <1>5, <1>6

LEMMA NothingStrayed ==
    ASSUME NEW b \in Buffers
    PROVE  \A x \in Strayed({}, b) : x = b
  BY DEF Strayed, Written, Buffers

(* A step of the history refused, its edits written put back: the buffer is as it was. *)
LEMMA SteppedBack ==
    ASSUME TypeOK, Tidy, Links, device, ~spoiled, NEW kind \in {"Undo", "Redo"},
           Stepped(kind) # <<>>, NEW S \in SUBSET DOMAIN Top(Stepped(kind)), drifted => S = {}
    PROVE  Reverted(kind, Top(Stepped(kind)), S, {}, buf) = buf
  <1> DEFINE t == Top(Stepped(kind))
             w == Targets(kind, t)
             back == IF kind = "Undo" THEN Afters(t) ELSE Befores(t)
             done == Written(w, S, buf)
             r == Written(back, S \ {}, done)
  <1>1. stacks \in Stacks /\ buf \in Buffers /\ Regular(stacks)
        /\ (~drifted => Joined(stacks, buf))
    BY DEF TypeOK, Tidy, Links
  <1>2. /\ t \in Edits /\ w \in Partials /\ DOMAIN w = DOMAIN t /\ SettledEdit(t)
        /\ Joined(stacks, buf) => \A p \in DOMAIN t :
               buf[p] = IF kind = "Undo" THEN t[p].after ELSE t[p].before
    BY <1>1, SteppedSays
  <1>3. /\ back \in Partials /\ DOMAIN back = DOMAIN t
        /\ \A p \in DOMAIN t : back[p] = IF kind = "Undo" THEN t[p].after ELSE t[p].before
    BY <1>2, SidesAre
  <1>4. ASSUME NEW p \in S
        PROVE  p \in Paths /\ Held(p, back[p]) = buf[p] /\ w[p] \in Values /\ back[p] \in Values
    <2>1. ~drifted /\ p \in DOMAIN t /\ p \in Paths
      BY <1>2, <1>4, EditsAre
    <2>2. back[p] = buf[p] /\ back[p] \in Values /\ w[p] \in Values
      <3>1. back[p] = buf[p]
        BY <1>1, <1>2, <1>3, <2>1
      <3>2. back[p] \in Values /\ w[p] \in Values
        BY <1>2, <1>3, <2>1, PartialIs
      <3> QED BY <3>1, <3>2
    <2>3. p = Router => Keep[back[p]] = back[p]
      BY <1>2, <1>3, <2>1 DEF SettledEdit
    <2> QED BY <2>1, <2>2, <2>3 DEF Held
  <1>5. Reverted(kind, t, S, {}, buf) = r
    BY DEF Reverted
  <1>6. S \in SUBSET Paths /\ S \ {} \in SUBSET Paths /\ S \ {} = S
    BY <1>4
  <1> HIDE DEF t, w, back
  <1>7. /\ done \in Buffers /\ \A p \in Paths \ S : done[p] = buf[p]
    <2>1. \A p \in S : w[p] \in Values
      BY <1>4
    <2>2. S \in SUBSET Paths /\ buf \in Buffers
      BY <1>1, <1>4
    <2>3. done \in Buffers
      BY <2>1, <2>2, WrittenIs
    <2>4. \A p \in Paths \ S : done[p] = buf[p]
      BY <2>1, <2>2, WrittenIs
    <2> QED BY <2>3, <2>4
  <1> HIDE DEF done
  <1>8. /\ r \in Buffers /\ \A p \in S : r[p] = Held(p, back[p])
        /\ \A p \in Paths \ S : r[p] = done[p]
    BY <1>4, <1>6, <1>7, WrittenIs
  <1>9. \A p \in Paths : r[p] = buf[p]
    BY <1>4, <1>7, <1>8
  <1>10. r = buf
    BY <1>1, <1>8, <1>9, SameBuffer
  <1> HIDE DEF r
  <1> QED BY <1>5, <1>10 DEF t

(* Undo and redo. *)
LEMMA StepHistoryKeeps ==
    ASSUME TypeOK, QueueOK, Tidy, Asked, Shown, History, Links, StepHistory
    PROVE  /\ Asked' /\ Shown' /\ History' /\ Links'
           /\ refusals' = refusals + 1 /\ ~spoiled' => UNCHANGED <<buf, stacks, drafts>>
  <1>1. /\ buf \in Buffers /\ stacks \in Stacks /\ queue # <<>> /\ queue' = Tail(queue) /\ device
        /\ Command.kind \in {"Undo", "Redo"} /\ Command.kind \notin Quiet
        /\ Stepped(Command.kind) # <<>> /\ base \in Buffers /\ own \in Buffers
        /\ audition_original \in Partials /\ refusals \in Nat
        /\ UNCHANGED <<audition_original, audition, own, ownBase, base, drifted, crossed>>
        /\ drafts \in Buffers /\ spoiled \in BOOLEAN
    BY DEF TypeOK, StepHistory, Handling, Quiet
  <1> DEFINE kind == Command.kind
             t == Top(Stepped(kind))
             w == Targets(kind, t)
  <1>2. Asked' /\ (crossed => crossed') /\ device'
    <2>1. device' = device
      BY DEF StepHistory, Done, Refused
    <2>2. Asked'
      BY <1>1, StillAsked
    <2> QED BY <1>1, <2>1, <2>2
  <1>3. CASE /\ Done /\ buf' = All(w, buf) /\ drifted' = drifted /\ drafts' = All(w, drafts)
             /\ stacks' = Moved(kind) /\ spoiled' = spoiled /\ stale' = stale
    <2>1. Shown'
      <3>1. \A q \in Paths : drafts[q] = buf[q] => All(w, drafts)[q] = All(w, buf)[q]
        BY DEF All, Written
      <3> HIDE DEF w, t, kind
      <3>2. \A q : Idle(queue', q) => Idle(queue, q)
        BY <1>1, IdleTail DEF NodeEdit
      <3> QED BY <1>1, <1>3, <3>1, <3>2 DEF Shown
    <2>2. ASSUME ~spoiled
          PROVE  /\ Whole => Begins(stacks', buf', base)
                 /\ ~drifted => Joined(stacks', buf')
                 /\ audition # None => /\ Inside(stacks', DOMAIN audition_original)
                                       /\ Restored' = Restored
      <3>1. /\ Whole => Begins(stacks, buf, base)
            /\ Regular(stacks)
            /\ audition # None => Inside(stacks, DOMAIN audition_original)
            /\ ~drifted => Joined(stacks, buf)
        BY <1>1, <2>2 DEF History, Links, Tidy
      <3>2. ASSUME NEW D
            PROVE  /\ Begins(stacks, buf, base) => Begins(Moved(kind), All(w, buf), base)
                   /\ Joined(stacks, buf) => Joined(Moved(kind), All(w, buf))
                   /\ Inside(stacks, D) => Inside(Moved(kind), D) /\ DOMAIN t \subseteq D
                   /\ w \in Partials /\ DOMAIN w = DOMAIN t
        BY <1>1, <3>1, SteppedSays
      <3> HIDE DEF t, w, kind
      <3>3. (Whole => Begins(stacks', buf', base)) /\ (~drifted => Joined(stacks', buf'))
        BY <1>3, <3>1, <3>2
      <3>4. ASSUME audition # None
            PROVE  Inside(stacks', DOMAIN audition_original) /\ Restored' = Restored
        <4>1. Inside(stacks', DOMAIN audition_original) /\ DOMAIN w \subseteq DOMAIN audition_original
          BY <1>3, <3>1, <3>2, <3>4
        <4>2. /\ buf' \in Buffers
              /\ \A p \in Paths \ DOMAIN audition_original : buf'[p] = buf[p]
          <5>1. /\ All(w, buf) \in Buffers
                /\ \A p \in Paths \ DOMAIN w : All(w, buf)[p] = buf[p]
            BY <1>1, <3>2, AllIs
          <5> QED BY <1>3, <4>1, <5>1
        <4>3. Restored' = All(audition_original, buf')
          BY <1>1 DEF Restored
        <4>4. /\ Restored \in Buffers /\ All(audition_original, buf') \in Buffers
              /\ \A p \in DOMAIN audition_original :
                     /\ Restored[p] = Held(p, audition_original[p])
                     /\ All(audition_original, buf')[p] = Held(p, audition_original[p])
              /\ \A p \in Paths \ DOMAIN audition_original :
                     Restored[p] = buf[p] /\ All(audition_original, buf')[p] = buf'[p]
          BY <1>1, <4>2, AllIs DEF Restored
        <4>5. \A p \in Paths : All(audition_original, buf')[p] = Restored[p]
          BY <4>2, <4>4
        <4>6. All(audition_original, buf') = Restored
          BY <4>4, <4>5, SameBuffer
        <4> QED BY <4>1, <4>3, <4>6
      <3> QED BY <3>3, <3>4
    <2>3. History' /\ Links'
      <3>1. Whole' => Whole
        BY <1>1, <1>3 DEF Whole
      <3> QED BY <1>1, <1>3, <2>2, <3>1 DEF History, Links, Whole
    <2>4. refusals' # refusals + 1
      BY <1>1, <1>3 DEF Done, bounds
    <2> QED BY <1>2, <2>1, <2>3, <2>4
  <1>4. ASSUME NEW p \in DOMAIN t, NEW S \in SUBSET (DOMAIN t \ {p}), NEW R \in SUBSET S,
               NEW left \in SUBSET {p},
               buf' \in Strayed(R \cup left, Reverted(kind, t, S, R, buf)), Unsaid,
               spoiled' = (spoiled \/ left # {} \/ R # {} \/ (drifted /\ S # {})),
               stacks' = stacks
        PROVE  /\ Asked' /\ Shown' /\ History' /\ Links'
               /\ ~spoiled' => UNCHANGED <<buf, stacks, drafts>>
    <2>1. ASSUME ~spoiled'
          PROVE  buf' = buf /\ ~spoiled
      <3>1. ~spoiled /\ left = {} /\ R = {} /\ (drifted => S = {}) /\ S \in SUBSET DOMAIN t
        BY <1>1, <1>4, <2>1
      <3>2. Reverted(kind, t, S, {}, buf) = buf
        BY <1>1, <3>1, SteppedBack
      <3> HIDE DEF t, w, kind
      <3>3. R \cup left = {}
        BY <3>1
      <3>4. buf' \in Strayed({}, buf)
        BY <1>4, <3>1, <3>2, <3>3
      <3> QED BY <1>1, <3>1, <3>4, NothingStrayed
    <2>2. Shown'
      BY <1>1, <1>2, <1>4, StillShown
    <2>3. ~spoiled' => Restored' = Restored
      BY <1>1, <2>1 DEF Restored
    <2>4. Whole' => Whole
      BY <1>1, <2>1 DEF Whole
    <2>5. History' /\ Links'
      BY <1>1, <1>4, <2>1, <2>3, <2>4 DEF History, Links, Whole
    <2> QED BY <1>2, <1>4, <2>1, <2>2, <2>5 DEF Unsaid
  <1> QED BY <1>1, <1>3, <1>4 DEF StepHistory, Shows

(* A tone auditioned, over the preset's own buffer, or taken back. *)
LEMMA AuditionKeeps ==
    ASSUME TypeOK, QueueOK, Tidy, Asked, Shown, History, Links, Audition
    PROVE  Asked' /\ Shown' /\ History' /\ Links'
  <1>1. /\ queue # <<>> /\ queue' = Tail(queue) /\ device
        /\ Command.kind = "Audition" /\ Command.kind \notin Quiet
        /\ buf \in Buffers /\ audition_original \in Partials /\ UNCHANGED <<drifted, crossed>>
        /\ Command.kind # "SetNode" /\ spoiled \in BOOLEAN
    BY DEF TypeOK, Audition, Handling, Quiet
  <1> DEFINE tone == Command.tone
  <1>2. tone \in Partials /\ Restored \in Buffers /\ Settled(Restored) /\ TakenBack \in Stacks
        /\ DOMAIN tone \subseteq Paths
    <2>1. Command \in Commands
      BY <1>1, QueueIs DEF TypeOK
    <2> QED BY <1>1, <2>1, CommandHas, WorkerAssumption, HeldTyped, TidyHeld, PartialIs
  <1>3. CASE /\ buf' = All(tone, Restored) /\ drafts' = buf' /\ base' = buf'
             /\ audition_original' = Replaced(tone) /\ audition' = TakenBack /\ stacks' = Blank
             /\ own' = (IF audition = None THEN buf ELSE own) /\ ownBase' = BaseBack
             /\ spoiled' = spoiled
    <2>1. Asked' /\ Shown'
      BY <1>1, <1>3, StillAsked DEF Shown
    <2>2. buf' \in Buffers /\ \A p \in Paths \ DOMAIN tone : buf'[p] = Restored[p]
      BY <1>2, <1>3, AllIs
    <2>3. Begins(stacks', buf', base') /\ Joined(stacks', buf') /\ \A D : Inside(stacks', D)
      BY <1>3, <2>2, BlankSays
    <2>4. ASSUME ~spoiled
          PROVE  /\ Whole => Restored' = own' /\ Begins(audition', own', ownBase')
                 /\ ~drifted => Joined(audition', Restored')
      <3>1. Whole => own' = Restored
        BY <1>1, <1>3, <2>4, HistoryHeld
      <3>2. Restored' = Restored
        <4>1. Replaced(tone) \in Partials /\ DOMAIN Replaced(tone) = DOMAIN tone
              /\ \A p \in DOMAIN tone : Replaced(tone)[p] = Restored[p]
          BY <1>2, HeldTyped DEF Replaced
        <4>2. Router \in DOMAIN Replaced(tone) => Keep[Replaced(tone)[Router]] = Replaced(tone)[Router]
          BY <1>2, <4>1 DEF Settled
        <4>3. /\ All(Replaced(tone), buf') \in Buffers
              /\ \A p \in Paths : All(Replaced(tone), buf')[p] =
                     IF p \in DOMAIN Replaced(tone) THEN Replaced(tone)[p] ELSE buf'[p]
          BY <2>2, <4>1, <4>2, PutBackIs
        <4>4. \A p \in Paths : All(Replaced(tone), buf')[p] = Restored[p]
          BY <2>2, <4>1, <4>3
        <4>5. All(Replaced(tone), buf') = Restored
          BY <1>2, <4>3, <4>4, SameBuffer
        <4> QED BY <1>3, <4>5 DEF Restored
      <3>3. /\ Whole => Begins(TakenBack, Restored, BaseBack)
            /\ ~drifted => Joined(TakenBack, Restored)
        BY <1>1, <2>4, HistoryHeld
      <3> QED BY <1>3, <3>1, <3>2, <3>3
    <2>5. Whole' => Whole
      BY <1>1, <1>3 DEF Whole
    <2> QED BY <1>1, <1>3, <2>1, <2>3, <2>4, <2>5 DEF History, Links, Whole
  \* Not played: the tone before it is put back, and with it the history.
  <1>4. CASE /\ AuditionOver /\ stacks' = TakenBack /\ base' = BaseBack /\ Unsaid
             /\ ~spoiled' => ~spoiled /\ buf' = Restored
    <2>1. device' = device
      BY DEF Audition, Done, Refused
    <2>2. Asked' /\ Shown'
      BY <1>1, <1>4, <2>1, StillAsked, StillShown
    <2>3. History' /\ Links'
      <3>1. CASE spoiled'
        BY <3>1 DEF History, Links, Whole
      <3>2. CASE ~spoiled'
        BY <1>1, <1>4, <2>1, <3>2, HistoryTakenBack DEF AuditionOver, StillWhole
      <3> QED BY <3>1, <3>2
    <2> QED BY <2>2, <2>3
  <1>5. \/ /\ buf' = All(tone, Restored) /\ drafts' = buf' /\ base' = buf'
           /\ audition_original' = Replaced(tone) /\ audition' = TakenBack /\ stacks' = Blank
           /\ own' = (IF audition = None THEN buf ELSE own) /\ ownBase' = BaseBack
           /\ spoiled' = spoiled
        \/ /\ AuditionOver /\ stacks' = TakenBack /\ base' = BaseBack /\ Unsaid
           /\ \/ spoiled' = TRUE
              \/ spoiled' = (spoiled \/ buf' # Restored)
    BY DEF Audition, Failed, Refreshed, Shows
  <1>6. spoiled' = TRUE \/ spoiled' = (spoiled \/ buf' # Restored)
        => (~spoiled' => ~spoiled /\ buf' = Restored)
    BY <1>1
  <1> QED BY <1>3, <1>4, <1>5, <1>6

(* A tone kept: what it changed is the last step of the history it set aside. *)
LEMMA KeepAuditionKeeps ==
    ASSUME TypeOK, QueueOK, Tidy, Asked, Shown, History, Links, KeepAudition
    PROVE  Asked' /\ Shown' /\ History' /\ Links'
  <1>1. /\ queue # <<>> /\ queue' = Tail(queue) /\ device
        /\ Command.kind = "KeepAudition" /\ Command.kind \notin Quiet
        /\ buf \in Buffers /\ UNCHANGED <<buf, drafts, drifted, stale, crossed>>
        /\ Command.kind # "SetNode" /\ device' = device
    BY DEF TypeOK, KeepAudition, Handling, Quiet, pedal, Done, Refused
  <1>2. Asked' /\ Shown'
    BY <1>1, StillAsked, StillShown
  <1>3. CASE spoiled'
    BY <1>2, <1>3 DEF History, Links, Whole
  <1>4. CASE ~spoiled'
    <2>1. AuditionOver /\ stacks' = Recorded(TakenBack, Differences) /\ base' = BaseBack /\ ~spoiled
      BY <1>4 DEF KeepAudition
    <2>2. Whole' => Whole
      BY <1>1, <2>1 DEF Whole
    <2>3. /\ TakenBack \in Stacks /\ Differences \in Edits /\ Restored \in Buffers
          /\ BaseBack \in Buffers
      BY HeldTyped
    <2>4. /\ \A p \in DOMAIN audition_original : Restored[p] = audition_original[p]
          /\ \A p \in Paths \ DOMAIN audition_original : Restored[p] = buf[p]
      BY TidyHeld
    <2>5. \A p \in Paths : IF p \in DOMAIN Differences
                           THEN /\ Differences[p].before = Restored[p]
                                /\ Differences[p].after = buf[p]
                           ELSE buf[p] = Restored[p]
      <3>1. DOMAIN Differences =
                {p \in DOMAIN audition_original : audition_original[p] # buf[p]}
        BY DEF Differences
      <3>2. \A p \in DOMAIN Differences : Differences[p].before = audition_original[p]
                                          /\ Differences[p].after = buf[p]
        BY <3>1 DEF Differences
      <3> QED BY <2>4, <3>1, <3>2
    <2>6. (Whole => Begins(TakenBack, Restored, BaseBack)) /\ (~drifted => Joined(TakenBack, Restored))
      BY <1>1, <2>1, HistoryHeld
    <2>7. Whole => \A p \in Paths : ~Touched(TakenBack.undo, p) => Restored[p] = BaseBack[p]
      BY <2>6 DEF Begins
    <2>8. ASSUME NEW D
          PROVE  /\ /\ Begins(TakenBack, Restored, BaseBack)
                    /\ \A p \in Paths : ~Touched(TakenBack.undo, p) =>
                           IF p \in DOMAIN Differences THEN Differences[p].before = BaseBack[p]
                           ELSE buf[p] = BaseBack[p]
                    => Begins(Recorded(TakenBack, Differences), buf, BaseBack)
                 /\ /\ Joined(TakenBack, Restored)
                    /\ \A p \in Paths : IF p \in DOMAIN Differences
                                        THEN Differences[p].before = Restored[p]
                                             /\ Differences[p].after = buf[p]
                                        ELSE buf[p] = Restored[p]
                    => Joined(Recorded(TakenBack, Differences), buf)
      BY <1>1, <2>3, RecordedSays
    <2>9. Whole => Begins(stacks', buf', base')
      <3>1. ASSUME Whole, NEW p \in Paths, ~Touched(TakenBack.undo, p)
            PROVE  IF p \in DOMAIN Differences THEN Differences[p].before = BaseBack[p]
                   ELSE buf[p] = BaseBack[p]
        BY <2>5, <2>7, <3>1
      <3> QED BY <1>1, <2>1, <2>6, <2>8, <3>1
    <2>10. ~drifted => Joined(stacks', buf')
      BY <1>1, <2>1, <2>5, <2>6, <2>8
    <2> QED BY <1>1, <1>2, <2>1, <2>2, <2>9, <2>10 DEF AuditionOver, History, Links
  <1> QED BY <1>3, <1>4

(* Presets selected and saved, tones put back, sessions ended, lost and opened. *)
LEMMA PresetsKeep ==
    ASSUME TypeOK, TypeOK', QueueOK, Tidy, Asked, Shown, History, Links,
           \/ PutBackRefused \/ SelectPreset \/ SavePreset \/ EndAudition
           \/ Disconnect \/ SessionLost \/ Connect \/ PassesOver
    PROVE  Asked' /\ Shown' /\ History' /\ Links'
  <1>1. /\ buf' \in Buffers /\ Contents \subseteq Buffers
        /\ queue # <<>> /\ queue' = Tail(queue)
    BY WorkerAssumption DEF TypeOK, PutBackRefused, SelectPreset, SavePreset, EndAudition,
           Disconnect, SessionLost, Connect, PassesOver, Handling
  <1>2. ASSUME ~device'
        PROVE  Asked' /\ Shown' /\ History' /\ Links'
    BY <1>2 DEF Asked, Shown, History, Links
  <1>3. ASSUME Command.kind \notin Quiet, (crossed => crossed') \/ BeginsAnew
        PROVE  Asked' /\ Command.kind # "SetNode"
    BY <1>1, <1>3, StillAsked DEF Quiet
  <1>4. ASSUME BeginsAnew, audition' = None
        PROVE  History' /\ Links'
    BY <1>1, <1>4, HistoryBlank DEF BeginsAnew
  <1>5. ASSUME Refreshed
        PROVE  Shown'
    BY <1>5 DEF Refreshed, Shows, Shown
  <1>6. CASE PutBackRefused
    <2>1. /\ Command.kind \notin Quiet /\ UNCHANGED <<crossed, device>> /\ Unsaid /\ spoiled' = TRUE
      BY <1>6 DEF PutBackRefused, Handling, Refused, Quiet
    <2>2. Asked' /\ Shown'
      BY <1>1, <1>3, <2>1, StillShown
    <2> QED BY <2>1, <2>2 DEF History, Links, Whole
  <1>7. CASE Disconnect \/ SessionLost
    BY <1>2, <1>7 DEF Disconnect, SessionLost
  <1>8. CASE Connect
    <2>1. Command.kind \notin Quiet /\ Refreshed /\ BeginsAnew /\ audition' = None
      BY <1>8 DEF Connect, AuditionOver, Quiet
    <2> QED BY <1>3, <1>4, <1>5, <2>1
  <1>9. CASE SelectPreset
    <2>1. Command.kind \notin Quiet /\ device /\ device' = device /\ audition' = None
      BY <1>9 DEF SelectPreset, Handling, AuditionOver, Quiet, Done, Refused
    <2>2. CASE BeginsAnew /\ (Refreshed \/ Unsaid)
      BY <1>1, <1>3, <1>4, <1>5, <2>1, <2>2, StillShown
    <2>3. CASE /\ buf' = Restored /\ Unsaid /\ spoiled' = (spoiled \/ audition # None)
               /\ UNCHANGED <<stacks, base, drifted, crossed>>
      <3>1. Asked' /\ Shown'
        BY <1>1, <1>3, <2>1, <2>3, StillShown
      <3>2. CASE ~spoiled'
        <4>1. ~spoiled /\ audition = None
          BY <2>3, <3>2 DEF TypeOK
        <4>2. TakenBack = stacks /\ BaseBack = base
          BY <2>1, <4>1, HistoryHeld
        <4>3. History' /\ Links'
          BY <2>1, <2>3, <4>1, <4>2, HistoryTakenBack DEF StillWhole
        <4> QED BY <3>1, <4>3
      <3>3. CASE spoiled'
        BY <3>1, <3>3 DEF History, Links, Whole
      <3> QED BY <3>2, <3>3
    <2> QED BY <1>9, <2>2, <2>3 DEF SelectPreset
  <1>10. CASE SavePreset \/ EndAudition
    <2>1. /\ Command.kind \notin Quiet /\ device /\ device' = device /\ audition' = None
          /\ buf' = Restored /\ stacks' = TakenBack /\ base' = BaseBack
          /\ UNCHANGED <<spoiled, drifted, crossed>> /\ (Refreshed \/ Unsaid)
      BY <1>10 DEF SavePreset, EndAudition, Handling, AuditionOver, Quiet, Saved, Done, Refused
    <2>2. History' /\ Links'
      BY <2>1, HistoryTakenBack DEF StillWhole
    <2> QED BY <1>1, <1>3, <1>5, <2>1, <2>2, StillShown
  <1>11. CASE PassesOver
    <2>1. /\ UNCHANGED <<buf, drafts, base, own, ownBase, device, spoiled, drifted, stale, crossed>>
          /\ UNCHANGED <<audition_original, audition>>
          /\ ~device \/ Command.kind \in {"Audition", "Undo", "Redo", "SavePreset"}
          /\ stacks' = IF Command.kind = "Disconnect" THEN Blank ELSE stacks
      BY <1>11 DEF PassesOver, pedal, session, ghosts
    <2>2. CASE ~device
      BY <1>2, <2>1, <2>2
    <2>3. CASE device
      <3>1. Command.kind \notin Quiet /\ stacks' = stacks
        BY <2>1, <2>3 DEF Quiet
      <3>2. UNCHANGED work /\ StillWhole
        BY <2>1, <3>1 DEF work, StillWhole
      <3>3. History' /\ Links'
        BY <2>1, <3>2, HistorySame
      <3> QED BY <1>1, <1>3, <2>1, <3>1, <3>3, StillShown
    <2> QED BY <2>2, <2>3
  <1> QED BY <1>6, <1>7, <1>8, <1>9, <1>10, <1>11

(* Commands sent and coalesced. *)
Sent ==
    \/ \E kind \in {"Disconnect", "Undo", "Redo", "SelectPreset", "SavePreset"} : Ask(kind)
    \/ AskConnect
    \/ \E p \in Paths, v \in Values : SendEdit(p, v)
    \/ \E v \in Values : Route(v)
    \/ \E tone \in Tones : Play(tone)
    \/ PutBack \/ KeepHeard \/ Withdraw \/ Coalesce \/ UNCHANGED vars

LEMMA SendsKeep ==
    ASSUME TypeOK, QueueOK, Asked, Shown, History, Links, Sent
    PROVE  /\ Asked' /\ Shown' /\ History' /\ Links'
           /\ UNCHANGED <<buf, stored, stacks, device, spoiled, refusals, audition>>
  <1>1. UNCHANGED <<buf, stored, work, base, own, ownBase, device, spoiled, drifted, stale, refusals>>
    BY DEF Sent, Ask, AskConnect, SendEdit, Route, Play, PutBack, KeepHeard, Withdraw, Coalesce, vars,
           Sending, pedal, session, ghosts, bounds
  <1>2. UNCHANGED <<stacks, audition>>
    BY <1>1 DEF work
  <1>3. History' /\ Links'
    <2>1. crossed => crossed'
      <3>1. crossed' = crossed \/ Crosses
        BY DEF Sent, Ask, AskConnect, SendEdit, Route, Play, PutBack, KeepHeard, Withdraw, Coalesce,
               vars
      <3> QED BY <3>1 DEF Crosses
    <2> QED BY <1>1, <2>1, HistorySame DEF StillWhole
  <1>4. /\ UNCHANGED <<queue, drafts, crossed>> => Asked' /\ Shown'
        /\ \A c : queue' = Append(queue, c) /\ c.kind \notin Quiet /\ UNCHANGED <<drafts, crossed>>
                  => Asked' /\ Shown'
        /\ \A p \in Paths, v \in Values : SendEdit(p, v) => Asked' /\ Shown'
        /\ \A v \in Values : Route(v) => Asked' /\ Shown'
    BY <1>1, <1>2, SendsAsked
  <1>5. CASE \E kind \in {"Disconnect", "Undo", "Redo", "SelectPreset", "SavePreset"} : Ask(kind)
    <2> PICK kind \in {"Disconnect", "Undo", "Redo", "SelectPreset", "SavePreset"} : Ask(kind)
      BY <1>5
    <2>1. queue' = Append(queue, [kind |-> kind]) /\ [kind |-> kind].kind \notin Quiet
          /\ UNCHANGED <<drafts, crossed>>
      BY DEF Ask, Queues, Quiet
    <2> QED BY <1>1, <1>2, <1>3, <1>4, <2>1
  <1>6. CASE AskConnect
    <2>1. queue' = Append(queue, [kind |-> "Connect"]) /\ [kind |-> "Connect"].kind \notin Quiet
          /\ UNCHANGED <<drafts, crossed>>
      BY <1>6 DEF AskConnect, Quiet
    <2> QED BY <1>1, <1>2, <1>3, <1>4, <2>1
  <1>7. CASE \/ \E p \in Paths, v \in Values : SendEdit(p, v)
             \/ \E v \in Values : Route(v)
    BY <1>1, <1>2, <1>3, <1>4, <1>7
  <1>8. CASE \E tone \in Tones : Play(tone)
    <2> PICK tone \in Tones : Play(tone)
      BY <1>8
    <2> DEFINE c == [kind |-> "Audition", key |-> sends + 1, tone |-> tone]
    <2>1. queue' = Append(queue, c) /\ c.kind \notin Quiet /\ UNCHANGED <<drafts, crossed>>
      BY DEF Play, Queues, Quiet
    <2> QED BY <1>1, <1>2, <1>3, <1>4, <2>1
  <1>9. CASE PutBack \/ KeepHeard \/ Withdraw
    <2>1. UNCHANGED <<drafts, crossed>>
          /\ \/ UNCHANGED queue
             \/ queue' = Append(queue, [kind |-> "EndAudition"])
             \/ queue' = Append(queue, [kind |-> "KeepAudition"])
      BY <1>9 DEF PutBack, KeepHeard, Withdraw, Ends, Queues
    <2>2. [kind |-> "EndAudition"].kind \notin Quiet /\ [kind |-> "KeepAudition"].kind \notin Quiet
      BY DEF Quiet
    <2> QED BY <1>1, <1>2, <1>3, <1>4, <2>1, <2>2
  <1>10. CASE Coalesce
    BY <1>1, <1>2, <1>3, <1>10, CoalesceAsked
  <1>11. CASE UNCHANGED vars
    BY <1>1, <1>2, <1>3, <1>4, <1>11 DEF vars
  <1> QED BY <1>5, <1>6, <1>7, <1>8, <1>9, <1>10, <1>11 DEF Sent

----------------------------------------------------------------------------
(* The inductive invariant, and what follows from it.                          *)

IInv == TypeOK /\ QueueOK /\ Tidy /\ Asked /\ Shown /\ History /\ Links

LEMMA InvInit == Init => IInv
  BY TypeInit, TidyInit, AskedInit, HistoryInit DEF IInv

LEMMA InvNext ==
    ASSUME IInv, [Next]_vars
    PROVE  IInv'
  <1>1. TypeOK' /\ Tidy' /\ QueueOK'
    BY TypeNext, TidyNext DEF IInv
  <1>2. CASE SetNode \/ SetRouter
    BY <1>1, <1>2, EditsAsked, EditsShown, EditsHistory DEF IInv
  <1>3. CASE StepHistory
    BY <1>1, <1>3, StepHistoryKeeps DEF IInv
  <1>4. CASE Audition
    BY <1>1, <1>4, AuditionKeeps DEF IInv
  <1>5. CASE KeepAudition
    BY <1>1, <1>5, KeepAuditionKeeps DEF IInv
  <1>6. CASE \/ PutBackRefused \/ SelectPreset \/ SavePreset \/ EndAudition
             \/ Disconnect \/ SessionLost \/ Connect \/ PassesOver
    BY <1>1, <1>6, PresetsKeep DEF IInv
  <1>7. CASE Sent
    BY <1>1, <1>7, SendsKeep DEF IInv
  <1> QED BY <1>2, <1>3, <1>4, <1>5, <1>6, <1>7 DEF Next, Sent

(* What the worker remembers leads back, whatever was edited, coalesced, refused, undone,     *)
(* auditioned or kept meanwhile, as long as nothing was left half done and no edit asked for   *)
(* across a command met another value: the values an audition replaced, put over what plays,  *)
(* are the preset as the first audition found it, and every step undone is the buffer the     *)
(* history began with (remember, coalesce, take_back).                                         *)
THEOREM LeadsBackHolds == Spec => []LeadsBack
  <1>1. IInv => LeadsBack
    <2>1. ASSUME IInv, device, Whole
          PROVE  /\ Unwound(stacks.undo, buf) = base
                 /\ audition # None => Unwound(audition.undo, own) = ownBase
      <3>1. /\ buf \in Buffers /\ base \in Buffers /\ own \in Buffers /\ ownBase \in Buffers
            /\ stacks.undo \in Seq(Edits) /\ (audition # None => audition.undo \in Seq(Edits))
        BY <2>1, StacksAre DEF IInv, TypeOK
      <3>2. Begins(stacks, buf, base) /\ (audition # None => Begins(audition, own, ownBase))
        BY <2>1 DEF IInv, History
      <3>3. Unwound(stacks.undo, buf) = base
        <4>1. \A p \in Paths : IF Touched(stacks.undo, p) THEN StartsAt(stacks.undo, p, base[p])
                               ELSE buf[p] = base[p]
          BY <3>2 DEF Begins
        <4> QED BY <3>1, <4>1, UnwoundIs
      <3>4. ASSUME audition # None
            PROVE  Unwound(audition.undo, own) = ownBase
        <4>1. \A p \in Paths : IF Touched(audition.undo, p)
                               THEN StartsAt(audition.undo, p, ownBase[p])
                               ELSE own[p] = ownBase[p]
          BY <3>2, <3>4 DEF Begins
        <4> QED BY <3>1, <3>4, <4>1, UnwoundIs
      <3> QED BY <3>3, <3>4
    <2>2. ASSUME IInv, audition # None, Whole
          PROVE  Restored = own
      BY <2>2 DEF IInv, Tidy, History
    <2> QED BY <2>1, <2>2 DEF LeadsBack, PutBackOwed, UndoneIsBase
  <1>2. Init => IInv
    BY InvInit
  <1>3. IInv /\ [Next]_vars => IInv'
    BY InvNext
  <1> QED BY <1>1, <1>2, <1>3, PTL DEF Spec

(* With no command on its way the panel shows what the pedal plays, whatever was edited,        *)
(* coalesced, refused, undone, auditioned or put back meanwhile, unless a command that failed   *)
(* has written and told nothing of it (Panel::take, coalesce, refresh).                         *)
THEOREM ShownIsPlayedHolds == Spec => []ShownIsPlayed
  <1>1. IInv => ShownIsPlayed
    <2>1. ASSUME IInv, device, queue = <<>>, ~stale
          PROVE  drafts = buf
      <3>1. buf \in Buffers /\ drafts \in Buffers /\ Len(queue) = 0
        BY <2>1, EmptySeq DEF IInv, TypeOK
      <3>2. \A p \in Paths : drafts[p] = buf[p]
        BY <2>1, <3>1 DEF IInv, Shown, Idle
      <3> QED BY <3>1, <3>2, SameBuffer
    <2> QED BY <2>1 DEF ShownIsPlayed
  <1>2. Init => IInv
    BY InvInit
  <1>3. IInv /\ [Next]_vars => IInv'
    BY InvNext
  <1> QED BY <1>1, <1>2, <1>3, PTL DEF Spec

(* An undo or redo the pedal refuses once leaves the buffer, the stacks and what is shown as  *)
(* they were, unless it took the value it was refused with or an edit was over a value it did *)
(* not have: each step holds what it wrote over (step_history, apply_edits).                   *)
THEOREM RefusedStepUndoneHolds == Spec => RefusedStepUndone
  <1> DEFINE A == queue # <<>> /\ Command.kind \in {"Undo", "Redo"} /\ refusals' = refusals + 1
                  /\ ~spoiled' => UNCHANGED <<buf, stacks, drafts>>
  <1>1. IInv /\ [Next]_vars => [A]_vars
    <2> SUFFICES ASSUME IInv, [Next]_vars, queue # <<>>, Command.kind \in {"Undo", "Redo"},
                        refusals' = refusals + 1, ~spoiled', ~UNCHANGED vars
                 PROVE  UNCHANGED <<buf, stacks, drafts>>
      OBVIOUS
    <2>1. refusals' # refusals
      <3>1. refusals \in Nat
        BY WorkerAssumption DEF IInv, TypeOK
      <3> QED BY <3>1
    <2>2. StepHistory
      <3>1. ASSUME NEW kinds, Handling(kinds)
            PROVE  {"Undo", "Redo"} \cap kinds # {}
        BY <3>1 DEF Handling
      <3>2. ~SetNode /\ ~SetRouter
        BY <3>1 DEF SetNode, SetRouter
      <3>3. ~PutBackRefused /\ ~SelectPreset /\ ~SavePreset
        BY <3>1 DEF PutBackRefused, SelectPreset, SavePreset
      <3>4. ~Audition /\ ~EndAudition /\ ~KeepAudition /\ ~Disconnect
        BY <3>1 DEF Audition, EndAudition, KeepAudition, Disconnect
      <3>5. ~SessionLost /\ ~Connect /\ ~PassesOver
        BY <2>1 DEF SessionLost, Connect, PassesOver, bounds
      <3>6. ~Sent
        BY <2>1, SendsKeep DEF IInv
      <3> QED BY <3>2, <3>3, <3>4, <3>5, <3>6 DEF Next, Sent
    <2> QED BY <2>2, StepHistoryKeeps DEF IInv
  <1>2. Init => IInv
    BY InvInit
  <1>3. IInv /\ [Next]_vars => IInv'
    BY InvNext
  <1> QED BY <1>1, <1>2, <1>3, PTL DEF Spec, RefusedStepUndone

(* The preset's own buffer outlives its auditions: a save stores it, never a tone auditioned  *)
(* over it, and a put back that is answered restores it with its history, where nothing was   *)
(* left half done and no edit asked for across a command met another value (save_preset,      *)
(* restore_audition).                                                                          *)
THEOREM OwnSurvivesHolds == Spec => OwnSurvives
  <1> DEFINE A == Whole' =>
                    /\ PutsBackExactly
                    /\ stored' # stored /\ Command.kind = "SavePreset"
                       => stored' = IF audition = None THEN buf ELSE own
  <1>1. IInv /\ [Next]_vars => [A]_vars
    <2> SUFFICES ASSUME IInv, Next, Whole'
                 PROVE  PutsBackExactly
                        /\ (stored' # stored /\ Command.kind = "SavePreset"
                            => stored' = IF audition = None THEN buf ELSE own)
      OBVIOUS
    <2>1. ASSUME UNCHANGED <<audition, stored>>
          PROVE  PutsBackExactly /\ stored' = stored
      BY <2>1 DEF PutsBackExactly
    <2>2. ASSUME Command.kind \notin {"EndAudition", "SavePreset"}
          PROVE  PutsBackExactly /\ Command.kind # "SavePreset"
      BY <2>2 DEF PutsBackExactly
    <2>3. device /\ Whole => Restored = IF audition = None THEN buf ELSE own
      BY HistoryHeld DEF IInv, Whole
    <2>4. CASE EndAudition
      <3>1. device /\ buf' = Restored /\ stacks' = TakenBack /\ stored' = stored
            /\ UNCHANGED <<spoiled, drifted, crossed>>
        BY <2>4 DEF EndAudition, Handling
      <3>2. Whole
        BY <3>1 DEF Whole
      <3>3. audition # None => buf' = own /\ stacks' = audition
        BY <2>3, <3>1, <3>2 DEF TakenBack
      <3> QED BY <3>1, <3>3 DEF PutsBackExactly
    <2>5. CASE SavePreset
      <3>1. device /\ stored' \in {stored, Restored} /\ Command.kind = "SavePreset"
            /\ UNCHANGED <<spoiled, drifted, crossed>>
        BY <2>5 DEF SavePreset, Handling, Saved, Done
      <3>2. Whole
        BY <3>1 DEF Whole
      <3>3. stored' # stored => stored' = IF audition = None THEN buf ELSE own
        BY <2>3, <3>1, <3>2
      <3>4. PutsBackExactly
        BY <3>1 DEF PutsBackExactly
      <3> QED BY <3>3, <3>4
    <2>6. CASE SessionLost
      <3>1. device /\ stored' \in {stored, Restored} /\ ~device'
            /\ UNCHANGED <<spoiled, drifted, crossed>>
        BY <2>6 DEF SessionLost, Handling
      <3>2. stored' # stored => stored' = IF audition = None THEN buf ELSE own
        BY <2>3, <3>1 DEF Whole
      <3> QED BY <3>1, <3>2 DEF PutsBackExactly
    <2>7. CASE SetNode \/ SetRouter \/ StepHistory
      BY <2>1, <2>7 DEF SetNode, SetRouter, StepHistory
    <2>8. CASE PutBackRefused
      BY <2>8 DEF PutBackRefused, Whole
    <2>9. CASE SelectPreset \/ Audition \/ KeepAudition \/ Disconnect
      BY <2>2, <2>9 DEF SelectPreset, Audition, KeepAudition, Disconnect, Handling
    <2>10. CASE Connect
      BY <2>2, <2>10 DEF Connect
    <2>11. CASE PassesOver
      BY <2>1, <2>11 DEF PassesOver, pedal
    <2>12. CASE Sent
      <3>1. UNCHANGED <<audition, stored>>
        BY <2>12, SendsKeep DEF IInv
      <3> QED BY <2>1, <3>1
    <2> QED BY <2>4, <2>5, <2>6, <2>7, <2>8, <2>9, <2>10, <2>11, <2>12 DEF Next, Sent
  <1>2. Init => IInv
    BY InvInit
  <1>3. IInv /\ [Next]_vars => IInv'
    BY InvNext
  <1> QED BY <1>1, <1>2, <1>3, PTL DEF Spec, OwnSurvives

=============================================================================
