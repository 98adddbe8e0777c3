------------------------ MODULE SessionHistoryProofs ------------------------
(***************************************************************************)
(* Proofs about SessionHistory, for any number of turns, rollbacks,        *)
(* processes and items: the rollout replays to the history, what the user  *)
(* said stays in it, and a fork keeps the messages before it.              *)
(*                                                                         *)
(* Histories and rollouts are folded by recursive functions.  That such a  *)
(* function takes the steps of its definition is proved by induction, and  *)
(* so is what the folds compute; the induction rules are about sets, not   *)
(* predicates, and follow from the well-foundedness of <.                  *)
(***************************************************************************)
EXTENDS SessionHistory, WellFoundedInduction, TLAPS

----------------------------------------------------------------------------
(* The inductive invariant.                                                *)

\* The parts of the type invariant: what holds items and lines, and where everybody is.
DataOK ==
    /\ history \in Seq(Items)
    /\ log \in Seq(LogLines)
    /\ owed \in [Owners -> Seq(LogLines)]
    /\ copy \in [Owners -> Seq(Items)]
    /\ shot \in Seq(Items)
    /\ number \in 1..(MaxNumber + 1)
TasksOK ==
    /\ seeded \in BOOLEAN /\ doomed \in BOOLEAN /\ drained \in BOOLEAN /\ cut \in BOOLEAN
    /\ loop \in LoopPCs
    /\ turn \in TurnPCs
    /\ after \in TurnPCs
    /\ drop \in 0..MaxRollback
    /\ shooting \in 0..MaxTurns
    /\ turns \in 0..MaxTurns
    /\ processes \in 1..MaxProcesses

\* Loop and turn take it in turns, unless the turn runs on after it was aborted, and neither
\* leaves a line behind.
InTurn ==
    /\ turn # "off" /\ ~doomed => loop = "idle" /\ Free("loop")
    /\ turn = "off" => Free("turn") /\ ~doomed
    /\ doomed => cut
    /\ turn \in {"local", "rebuild", "remote"} => after \in {"prompt", "work", "ending"}
    /\ \A o \in Owners : Len(owed[o]) <= 1
    /\ loop = "rollback" => drop # 0

\* A turn takes one snapshot at most, the one that is coming up and the one that goes on.
MayShoot ==
    \/ turn \in {"prompt", "snapshot"}
    \/ turn \in {"local", "rebuild", "remote"} /\ after = "prompt"
Expected == (IF loop = "regular" THEN 1 ELSE 0) + (IF MayShoot THEN 1 ELSE 0)
Snapshots ==
    /\ shooting + Expected <= turns
    /\ Talk(shot) = <<>>

\* Nothing but snapshots comes between a copy and its use, as long as the turn is not aborted
\* and no aborted one has run on.
Copies ==
    /\ turn \in {"rebuild", "remote", "restore"} /\ ~doomed =>
           Talk(copy["turn"]) = Talk(history)
    /\ turn = "restore" => Ghosts(copy["turn"]) # <<>>
    /\ loop = "rollback" /\ ~cut => Talk(copy["loop"]) = Talk(history)

\* The rollout with the line still owed replays to the history, as far as both tell.
Told == IF drained THEN Kinds \ {"ghost", "reply"} ELSE Kinds \ {"ghost"}
Owed == owed["loop"] \o owed["turn"]
Replays == ~cut => OfKind(Replay(log \o Owed), Told) = OfKind(history, Told)

\* What the rollout has as an item is neither a summary nor a clipped message, and a compaction
\* has a summary.
ProperLine(l) ==
    /\ l.kind = "item" => l.item[1] \notin {"summary", "clipped"}
    /\ l.kind = "compacted" => l.item[1] = "summary"
Proper(lines) == \A k \in DOMAIN lines : ProperLine(lines[k])
LogProper == Proper(log) /\ \A o \in Owners : Proper(owed[o])

Inv == TypeOK /\ InTurn /\ Snapshots /\ Copies /\ Replays /\ LogProper

----------------------------------------------------------------------------
(* Induction, and facts about sequences.                                   *)

Below == {ss \in Nat \X Nat : ss[1] < ss[2]}

\* A set of numbers that is not empty has a least one.
LEMMA LeastNat ==
  ASSUME NEW T, T \subseteq Nat, T # {}
  PROVE  \E x \in T : \A y \in T : x <= y
  <1>0. IsWellFoundedOn(Below, Nat)
    BY NatLessThanWellFounded DEF OpToRel, Below
  <1>1. \E x \in T : \A y \in T : <<y, x>> \notin Below
    BY <1>0, WFMin, Zenon
  <1>2. \A x, y \in Nat : <<y, x>> \notin Below => x <= y
    BY DEF Below
  <1>3. PICK x \in T : \A y \in T : <<y, x>> \notin Below
    BY <1>1
  <1>4. x \in Nat /\ \A y \in T : y \in Nat
    OBVIOUS
  <1>5. \A y \in T : x <= y
    BY <1>2, <1>3, <1>4
  <1> QED BY <1>5

\* Induction over the numbers, on the set of those that have a property.
LEMMA SetInduction ==
  ASSUME NEW T, 0 \in T, \A n \in Nat : n \in T => n + 1 \in T
  PROVE  Nat \subseteq T
  <1> SUFFICES ASSUME Nat \ T # {} PROVE FALSE
    OBVIOUS
  <1>1. PICK x \in Nat \ T : \A y \in Nat \ T : x <= y
    BY LeastNat
  <1>2. x # 0 /\ x - 1 \in Nat
    BY <1>1
  <1>3. x - 1 \in T
    BY <1>1, <1>2
  <1>4. (x - 1) + 1 \in T
    BY <1>2, <1>3
  <1> QED BY <1>1, <1>4

\* Induction over sequences: the empty one, and one more element at the end.
LEMMA SeqInduction ==
  ASSUME NEW S, NEW T, <<>> \in T, \A h \in Seq(S), i \in S : h \in T => Append(h, i) \in T
  PROVE  Seq(S) \subseteq T
  <1> DEFINE N == {n \in Nat : \A h \in Seq(S) : Len(h) = n => h \in T}
  <1>1. 0 \in N
    <2>1. \A h \in Seq(S) : Len(h) = 0 => h = <<>>
      OBVIOUS
    <2> QED BY <2>1
  <1>2. ASSUME NEW n \in Nat, n \in N PROVE n + 1 \in N
    <2> SUFFICES ASSUME NEW h \in Seq(S), Len(h) = n + 1 PROVE h \in T
      OBVIOUS
    <2> DEFINE p == SubSeq(h, 1, n)
    <2>1. p \in Seq(S) /\ Len(p) = n /\ h[n + 1] \in S /\ h = Append(p, h[n + 1])
      OBVIOUS
    <2>2. p \in T
      BY <1>2, <2>1
    <2> HIDE DEF p
    <2> QED BY <2>1, <2>2
  <1>3. Nat \subseteq N
    <2> HIDE DEF N
    <2> QED BY <1>1, <1>2, SetInduction
  <1> QED BY <1>3

\* What is appended is added to the range.
LEMMA RangeAppend ==
  ASSUME NEW S, NEW g \in Seq(S), NEW i \in S
  PROVE  Range(Append(g, i)) = Range(g) \cup {i}
  <1>1. /\ DOMAIN Append(g, i) = DOMAIN g \cup {Len(g) + 1}
        /\ Append(g, i)[Len(g) + 1] = i
        /\ \A k \in DOMAIN g : Append(g, i)[k] = g[k]
    OBVIOUS
  <1> QED BY <1>1 DEF Range

\* The laws of concatenation.
LEMMA Concatenation ==
  ASSUME NEW S, NEW a \in Seq(S), NEW b \in Seq(S), NEW c \in Seq(S)
  PROVE  a \o <<>> = a /\ <<>> \o a = a /\ (a \o b) \o c = a \o (b \o c)
  <1>1. a \o <<>> = a
    OBVIOUS
  <1>2. <<>> \o a = a
    OBVIOUS
  <1>3. (a \o b) \o c = a \o (b \o c)
    OBVIOUS
  <1> QED BY <1>1, <1>2, <1>3

\* What is owed is one line at most: a short sequence is empty or a single element.
LEMMA ShortSeq ==
  ASSUME NEW S, NEW s \in Seq(S), Len(s) <= 1
  PROVE  s = <<>> \/ \E l \in S : s = <<l>>
  <1>1. CASE Len(s) = 0
    BY <1>1
  <1>2. CASE Len(s) = 1
    <2> DEFINE t == <<s[1]>>
    <2>1. s[1] \in S
      BY <1>2
    <2>2. t \in Seq(S) /\ Len(t) = 1 /\ t[1] = s[1]
      BY <2>1
    <2>3. s = t
      <3> HIDE DEF t
      <3>1. \A k \in 1..1 : s[k] = t[k]
        BY <2>2
      <3> QED BY <1>2, <2>2, <3>1
    <2> QED BY <2>1, <2>3
  <1>3. Len(s) = 0 \/ Len(s) = 1
    <2> DEFINE n == Len(s)
    <2>1. n \in Nat /\ n <= 1
      OBVIOUS
    <2> HIDE DEF n
    <2>2. n = 0 \/ n = 1
      BY <2>1
    <2> QED BY <2>2 DEF n
  <1> QED BY <1>1, <1>2, <1>3, Zenon

\* What something was appended to is not empty.
LEMMA AppendNotEmpty ==
  ASSUME NEW S, NEW a \in Seq(S), NEW i \in S
  PROVE  Append(a, i) # <<>>
  <1>1. Len(Append(a, i)) = Len(a) + 1 /\ Len(a) \in Nat /\ Len(<<>>) = 0
    OBVIOUS
  <1>2. Len(Append(a, i)) # Len(<<>>)
    BY <1>1
  <1> QED BY <1>2

\* Sequences that agree up to n have the same prefix.
LEMMA SamePrefix ==
  ASSUME NEW S, NEW a \in Seq(S), NEW b \in Seq(S), NEW n \in 0..Len(a), n <= Len(b),
         \A m \in 1..n : a[m] = b[m]
  PROVE  SubSeq(a, 1, n) = SubSeq(b, 1, n)
  <1> DEFINE c == SubSeq(a, 1, n)
             d == SubSeq(b, 1, n)
  <1>1. c \in Seq(S) /\ Len(c) = n /\ \A m \in 1..n : c[m] = a[m]
    OBVIOUS
  <1>2. d \in Seq(S) /\ Len(d) = n /\ \A m \in 1..n : d[m] = b[m]
    OBVIOUS
  <1> HIDE DEF c, d
  <1>3. Len(c) = Len(d) /\ \A m \in 1..Len(c) : c[m] = d[m]
    BY <1>1, <1>2
  <1> QED BY <1>1, <1>2, <1>3

\* Of a concatenation that is empty both parts are.
LEMMA BothEmpty ==
  ASSUME NEW S, NEW a \in Seq(S), NEW b \in Seq(S), a \o b = <<>>
  PROVE  a = <<>> /\ b = <<>>
  <1>1. Len(a \o b) = Len(a) + Len(b) /\ Len(a \o b) = 0
    OBVIOUS
  <1>2. Len(a) = 0 /\ Len(b) = 0
    BY <1>1
  <1> QED BY <1>2

----------------------------------------------------------------------------
(* Folds.                                                                  *)

\* f takes b through the first n steps of F, whose values are in S.
StepsIn(n, S, F) == \A k \in 1..n : \A s \in S : F[k][s] \in S
IsFold(f, n, S, b, F) ==
    /\ f \in [0..n -> S]
    /\ f[0] = b
    /\ \A k \in 1..n : f[k] = F[k][f[k - 1]]
HasFold(n, S, b, F) == \E f : IsFold(f, n, S, b, F)

\* A fold exists, whatever it is that F computes in S.
LEMMA FoldExists ==
  ASSUME NEW n \in Nat, NEW S, NEW b \in S, NEW F, StepsIn(n, S, F)
  PROVE  HasFold(n, S, b, F)
  <1> DEFINE T == {m \in Nat : m <= n => \E f \in [0..m -> S] : IsFold(f, m, S, b, F)}
  <1>1. 0 \in T
    <2>1. [k \in 0..0 |-> b] \in [0..0 -> S] /\ IsFold([k \in 0..0 |-> b], 0, S, b, F)
      BY DEF IsFold
    <2> QED BY <2>1
  <1>2. \A m \in Nat : m \in T => m + 1 \in T
    <2> SUFFICES ASSUME NEW m \in Nat, m \in T, m + 1 <= n
                 PROVE  \E f \in [0..(m + 1) -> S] : IsFold(f, m + 1, S, b, F)
      OBVIOUS
    <2>1. PICK f \in [0..m -> S] : IsFold(f, m, S, b, F)
      OBVIOUS
    <2> DEFINE v == F[m + 1][f[m]]
               g == [k \in 0..(m + 1) |-> IF k = m + 1 THEN v ELSE f[k]]
    <2>2. v \in S
      <3>1. f[m] \in S /\ m + 1 \in 1..n
        OBVIOUS
      <3> QED BY <3>1 DEF StepsIn
    <2>3. g \in [0..(m + 1) -> S]
      BY <2>2
    <2>4. IsFold(g, m + 1, S, b, F)
      <3>1. g[0] = b /\ \A k \in 1..(m + 1) : g[k] = F[k][g[k - 1]]
        <4>1. \A k \in 1..m : g[k] = f[k] /\ g[k - 1] = f[k - 1]
          OBVIOUS
        <4>2. g[0] = f[0] /\ g[m + 1] = v /\ g[(m + 1) - 1] = f[m]
          OBVIOUS
        <4>3. f[0] = b /\ \A k \in 1..m : f[k] = F[k][f[k - 1]]
          BY <2>1 DEF IsFold
        <4>4. \A k \in 1..(m + 1) : k \in 1..m \/ k = m + 1
          OBVIOUS
        <4> HIDE DEF g
        <4> QED BY <4>1, <4>2, <4>3, <4>4
      <3> HIDE DEF g
      <3> QED BY <2>3, <3>1 DEF IsFold
    <2> HIDE DEF g
    <2> QED BY <2>3, <2>4
  <1>3. n \in T
    <2> HIDE DEF T
    <2> QED BY <1>1, <1>2, SetInduction
  <1> QED BY <1>3 DEF HasFold

----------------------------------------------------------------------------
(* What is chosen from a history, cut off it and replayed.                 *)

\* The items of some kinds, one item after the other.
Chosen(h, kinds) ==
    CHOOSE g : g = [k \in 0..Len(h) |->
        IF k = 0 THEN <<>>
        ELSE IF h[k][1] \in kinds THEN Append(g[k - 1], h[k]) ELSE g[k - 1]]

\* OfKind takes its steps: the recursive function of its definition is a fold.
LEMMA ChosenSteps ==
  ASSUME NEW h \in Seq(Items), NEW kinds
  PROVE  /\ Chosen(h, kinds)[0] = <<>>
         /\ \A k \in 1..Len(h) :
               Chosen(h, kinds)[k] = IF h[k][1] \in kinds THEN Append(Chosen(h, kinds)[k - 1], h[k])
                                                          ELSE Chosen(h, kinds)[k - 1]
         /\ OfKind(h, kinds) = Chosen(h, kinds)[Len(h)]
  <1> DEFINE S == Seq(Items)
             Step(v, k) == IF h[k][1] \in kinds THEN Append(v, h[k]) ELSE v
             Body(g) == [k \in 0..Len(h) |-> IF k = 0 THEN <<>> ELSE IF h[k][1] \in kinds THEN Append(g[k - 1], h[k]) ELSE g[k - 1]]
             F == [k \in 1..Len(h) |-> [v \in S |-> Step(v, k)]]
             G == Chosen(h, kinds)
  <1>1. \A k \in 1..Len(h) : \A v \in S : Step(v, k) \in S
    OBVIOUS
  <1>2. Len(h) \in Nat /\ <<>> \in S /\ StepsIn(Len(h), S, F)
    <2> HIDE DEF Step, S
    <2>1. StepsIn(Len(h), S, F)
      BY <1>1 DEF StepsIn
    <2> USE DEF S
    <2> QED BY <2>1
  <1>3. PICK f : IsFold(f, Len(h), S, <<>>, F)
    <2> HIDE DEF F, S
    <2> QED BY <1>2, FoldExists DEF HasFold
  <1>4. f = Body(f)
    <2>1. f \in [0..Len(h) -> S] /\ f[0] = <<>>
      BY <1>3 DEF IsFold
    <2>2. ASSUME NEW k \in 1..Len(h) PROVE f[k] = Step(f[k - 1], k)
      <3>1. f[k - 1] \in S
        BY <2>1
      <3>2. f[k] = F[k][f[k - 1]]
        BY <1>3 DEF IsFold
      <3> HIDE DEF Step, S
      <3> QED BY <3>1, <3>2
    <2>3. \A k \in 0..Len(h) : f[k] = Body(f)[k]
      <3> HIDE DEF S
      <3>1. \A k \in 0..Len(h) : k = 0 \/ k \in 1..Len(h)
        BY <1>2
      <3> QED BY <2>1, <2>2, <3>1
    <2> HIDE DEF S
    <2> QED BY <2>1, <2>3
  <1>5. G = Body(G)
    <2>1. G = CHOOSE g : g = Body(g)
      BY DEF Chosen
    <2> HIDE DEF Body
    <2> QED BY <1>4, <2>1
  <1>6. \A k \in 0..Len(h) : G[k] = Body(G)[k]
    BY <1>5
  <1>7. \A k \in 1..Len(h) : k \in 0..Len(h) /\ k # 0
    BY <1>2
  <1>8. OfKind(h, kinds) = G[Len(h)]
    BY DEF OfKind, Chosen
  <1>9. G[0] = <<>> /\ \A k \in 1..Len(h) : G[k] = Step(G[k - 1], k)
    <2> HIDE DEF G
    <2> QED BY <1>2, <1>6, <1>7
  <1> QED BY <1>8, <1>9

\* Nothing is chosen from an empty history.
LEMMA OfKindEmpty == ASSUME NEW kinds PROVE OfKind(<<>>, kinds) = <<>>
  <1>1. <<>> \in Seq(Items) /\ Len(<<>>) = 0
    OBVIOUS
  <1>2. Chosen(<<>>, kinds)[0] = <<>> /\ OfKind(<<>>, kinds) = Chosen(<<>>, kinds)[Len(<<>>)]
    BY <1>1, ChosenSteps, Zenon
  <1> QED BY <1>1, <1>2

\* An item is chosen by its kind alone.
LEMMA OfKindAppend ==
  ASSUME NEW h \in Seq(Items), NEW i \in Items, NEW kinds
  PROVE  OfKind(Append(h, i), kinds) =
            IF i[1] \in kinds THEN Append(OfKind(h, kinds), i) ELSE OfKind(h, kinds)
  <1> DEFINE a == Append(h, i)
             G == Chosen(h, kinds)
             A == Chosen(a, kinds)
             T == {k \in Nat : k <= Len(h) => A[k] = G[k]}
  <1>1. a \in Seq(Items) /\ Len(a) = Len(h) + 1 /\ Len(h) \in Nat /\ a[Len(h) + 1] = i
        /\ \A k \in 1..Len(h) : a[k] = h[k]
    OBVIOUS
  <1> HIDE DEF a
  <1>2. /\ G[0] = <<>>
        /\ \A k \in 1..Len(h) : G[k] = IF h[k][1] \in kinds THEN Append(G[k - 1], h[k]) ELSE G[k - 1]
        /\ OfKind(h, kinds) = G[Len(h)]
    BY ChosenSteps
  <1>3. /\ A[0] = <<>>
        /\ \A k \in 1..Len(a) : A[k] = IF a[k][1] \in kinds THEN Append(A[k - 1], a[k]) ELSE A[k - 1]
        /\ OfKind(a, kinds) = A[Len(a)]
    BY <1>1, ChosenSteps
  <1> HIDE DEF G, A
  <1>4. 0 \in T
    BY <1>2, <1>3
  <1>5. ASSUME NEW k \in Nat, k \in T PROVE k + 1 \in T
    <2> SUFFICES ASSUME k + 1 <= Len(h) PROVE A[k + 1] = G[k + 1]
      OBVIOUS
    <2>1. k + 1 \in 1..Len(h) /\ k + 1 \in 1..Len(a) /\ (k + 1) - 1 = k /\ A[k] = G[k]
      BY <1>1, <1>5
    <2> QED BY <1>1, <1>2, <1>3, <2>1
  <1>6. Nat \subseteq T
    <2> HIDE DEF T
    <2> QED BY <1>4, <1>5, SetInduction
  <1>7. A[Len(h)] = G[Len(h)]
    BY <1>1, <1>6
  <1>8. Len(a) \in 1..Len(a) /\ Len(a) - 1 = Len(h)
    BY <1>1
  <1>9. OfKind(a, kinds) = IF i[1] \in kinds THEN Append(A[Len(h)], i) ELSE A[Len(h)]
    BY <1>1, <1>3, <1>8
  <1> QED BY <1>2, <1>7, <1>9 DEF a

\* What is chosen is in the set of what it is chosen from.
LEMMA OfKindType ==
  ASSUME NEW h \in Seq(Items), NEW kinds
  PROVE  OfKind(h, kinds) \in Seq({i \in Items : i[1] \in kinds})
  <1> DEFINE S == {i \in Items : i[1] \in kinds}
             T == {g \in Seq(Items) : OfKind(g, kinds) \in Seq(S)}
  <1>1. <<>> \in T
    <2>1. <<>> \in Seq(Items) /\ <<>> \in Seq(S)
      OBVIOUS
    <2> HIDE DEF S
    <2> QED BY <2>1, OfKindEmpty
  <1>2. ASSUME NEW g \in Seq(Items), NEW i \in Items, g \in T PROVE Append(g, i) \in T
    <2>1. Append(g, i) \in Seq(Items) /\ OfKind(g, kinds) \in Seq(S)
      BY <1>2
    <2>2. i[1] \in kinds => Append(OfKind(g, kinds), i) \in Seq(S)
      BY <2>1
    <2> HIDE DEF S
    <2> QED BY <2>1, <2>2, OfKindAppend
  <1>3. Seq(Items) \subseteq T
    <2> HIDE DEF T
    <2> QED BY <1>1, <1>2, SeqInduction
  <1> QED BY <1>3

\* The items of some kinds are items.
LEMMA OfKindItems ==
  ASSUME NEW h \in Seq(Items), NEW kinds
  PROVE  OfKind(h, kinds) \in Seq(Items)
  <1>1. Seq({i \in Items : i[1] \in kinds}) \subseteq Seq(Items)
    OBVIOUS
  <1> QED BY <1>1, OfKindType

\* Choosing from two histories in a row is choosing from each.
LEMMA OfKindConcat ==
  ASSUME NEW a \in Seq(Items), NEW b \in Seq(Items), NEW kinds
  PROVE  OfKind(a \o b, kinds) = OfKind(a, kinds) \o OfKind(b, kinds)
  <1> DEFINE T == {g \in Seq(Items) : OfKind(a \o g, kinds) = OfKind(a, kinds) \o OfKind(g, kinds)}
  <1>1. <<>> \in T
    <2>1. <<>> \in Seq(Items) /\ a \o <<>> = a /\ OfKind(a, kinds) \o <<>> = OfKind(a, kinds)
      BY OfKindItems
    <2>2. OfKind(<<>>, kinds) = <<>>
      BY OfKindEmpty
    <2> QED BY <2>1, <2>2
  <1>2. ASSUME NEW g \in Seq(Items), NEW i \in Items, g \in T PROVE Append(g, i) \in T
    <2>1. a \o Append(g, i) = Append(a \o g, i) /\ a \o g \in Seq(Items) /\ Append(g, i) \in Seq(Items)
      OBVIOUS
    <2>2. OfKind(a, kinds) \in Seq(Items) /\ OfKind(g, kinds) \in Seq(Items)
      BY OfKindItems
    <2>3. OfKind(a, kinds) \o Append(OfKind(g, kinds), i)
             = Append(OfKind(a, kinds) \o OfKind(g, kinds), i)
      BY <2>2
    <2>4. OfKind(a \o g, kinds) = OfKind(a, kinds) \o OfKind(g, kinds)
      BY <1>2
    <2>5. OfKind(Append(a \o g, i), kinds) =
            IF i[1] \in kinds THEN Append(OfKind(a \o g, kinds), i) ELSE OfKind(a \o g, kinds)
      BY <2>1, OfKindAppend
    <2>6. OfKind(Append(g, i), kinds) =
            IF i[1] \in kinds THEN Append(OfKind(g, kinds), i) ELSE OfKind(g, kinds)
      BY OfKindAppend
    <2>7. OfKind(a \o Append(g, i), kinds) = OfKind(a, kinds) \o OfKind(Append(g, i), kinds)
      <3> HIDE DEF T
      <3> QED BY <2>1, <2>3, <2>4, <2>5, <2>6, Zenon
    <2> QED BY <2>1, <2>7
  <1>3. Seq(Items) \subseteq T
    <2> HIDE DEF T
    <2> QED BY <1>1, <1>2, SeqInduction
  <1> QED BY <1>3

\* Two histories, one after the other; the name keeps the provers from
\* taking the sequence apart.
Joined(a, b) == a \o b

\* Choosing from both is choosing from each.
LEMMA OfKindJoined ==
  ASSUME NEW a \in Seq(Items), NEW b \in Seq(Items), NEW kinds
  PROVE  OfKind(Joined(a, b), kinds) = Joined(OfKind(a, kinds), OfKind(b, kinds))
  BY OfKindConcat DEF Joined

\* Choosing twice is choosing what is of both sorts.
LEMMA OfKindTwice ==
  ASSUME NEW h \in Seq(Items), NEW K, NEW L
  PROVE  OfKind(OfKind(h, K), L) = OfKind(h, K \cap L)
  <1> DEFINE T == {g \in Seq(Items) : OfKind(OfKind(g, K), L) = OfKind(g, K \cap L)}
  <1>1. <<>> \in T
    BY OfKindEmpty
  <1>2. ASSUME NEW g \in Seq(Items), NEW i \in Items, g \in T PROVE Append(g, i) \in T
    <2>1. OfKind(g, K) \in Seq(Items)
      BY OfKindItems
    <2>2. OfKind(Append(OfKind(g, K), i), L) =
            IF i[1] \in L THEN Append(OfKind(OfKind(g, K), L), i) ELSE OfKind(OfKind(g, K), L)
      BY <2>1, OfKindAppend
    <2>3. Append(g, i) \in Seq(Items) /\ OfKind(OfKind(g, K), L) = OfKind(g, K \cap L)
      BY <1>2
    <2>4. OfKind(Append(g, i), K) = IF i[1] \in K THEN Append(OfKind(g, K), i) ELSE OfKind(g, K)
      BY OfKindAppend
    <2>5. OfKind(Append(g, i), K \cap L) =
            IF i[1] \in K \cap L THEN Append(OfKind(g, K \cap L), i) ELSE OfKind(g, K \cap L)
      BY OfKindAppend
    <2>6. OfKind(OfKind(Append(g, i), K), L) = OfKind(Append(g, i), K \cap L)
      <3>1. CASE i[1] \in K /\ i[1] \in L
        BY <2>2, <2>3, <2>4, <2>5, <3>1
      <3>2. CASE i[1] \in K /\ i[1] \notin L
        BY <2>2, <2>3, <2>4, <2>5, <3>2
      <3>3. CASE i[1] \notin K
        BY <2>2, <2>3, <2>4, <2>5, <3>3
      <3> QED BY <3>1, <3>2, <3>3
    <2> QED BY <2>3, <2>6
  <1>3. Seq(Items) \subseteq T
    <2> HIDE DEF T
    <2> QED BY <1>1, <1>2, SeqInduction
  <1> QED BY <1>3

\* A history whose items are all of the kinds is chosen whole.
LEMMA OfKindAll ==
  ASSUME NEW K, NEW h \in Seq(Items), \A k \in DOMAIN h : h[k][1] \in K
  PROVE  OfKind(h, K) = h
  <1> DEFINE T == {g \in Seq(Items) : (\A k \in DOMAIN g : g[k][1] \in K) => OfKind(g, K) = g}
  <1>1. <<>> \in T
    BY OfKindEmpty
  <1>2. ASSUME NEW g \in Seq(Items), NEW i \in Items, g \in T PROVE Append(g, i) \in T
    <2>1. Append(g, i) \in Seq(Items)
      OBVIOUS
    <2> SUFFICES ASSUME \A k \in DOMAIN Append(g, i) : Append(g, i)[k][1] \in K
                 PROVE  OfKind(Append(g, i), K) = Append(g, i)
      BY <2>1
    <2>2. \A k \in DOMAIN g : k \in DOMAIN Append(g, i) /\ Append(g, i)[k] = g[k]
      OBVIOUS
    <2>3. Len(g) + 1 \in DOMAIN Append(g, i) /\ Append(g, i)[Len(g) + 1] = i
      OBVIOUS
    <2> QED BY <1>2, <2>2, <2>3, OfKindAppend
  <1>3. Seq(Items) \subseteq T
    <2> HIDE DEF T
    <2> QED BY <1>1, <1>2, SeqInduction
  <1> QED BY <1>3

\* A history without an item of the kinds leaves nothing.
LEMMA OfKindNone ==
  ASSUME NEW K, NEW h \in Seq(Items), \A k \in DOMAIN h : h[k][1] \notin K
  PROVE  OfKind(h, K) = <<>>
  <1> DEFINE T == {g \in Seq(Items) : (\A k \in DOMAIN g : g[k][1] \notin K) => OfKind(g, K) = <<>>}
  <1>1. <<>> \in T
    BY OfKindEmpty
  <1>2. ASSUME NEW g \in Seq(Items), NEW i \in Items, g \in T PROVE Append(g, i) \in T
    <2>1. Append(g, i) \in Seq(Items)
      OBVIOUS
    <2> SUFFICES ASSUME \A k \in DOMAIN Append(g, i) : Append(g, i)[k][1] \notin K
                 PROVE  OfKind(Append(g, i), K) = <<>>
      BY <2>1
    <2>2. \A k \in DOMAIN g : k \in DOMAIN Append(g, i) /\ Append(g, i)[k] = g[k]
      OBVIOUS
    <2>3. Len(g) + 1 \in DOMAIN Append(g, i) /\ Append(g, i)[Len(g) + 1] = i
      OBVIOUS
    <2> QED BY <1>2, <2>2, <2>3, OfKindAppend
  <1>3. Seq(Items) \subseteq T
    <2> HIDE DEF T
    <2> QED BY <1>1, <1>2, SeqInduction
  <1> QED BY <1>3

\* Nothing is chosen but what is there, and nothing of the kinds is left out.
LEMMA OfKindRange ==
  ASSUME NEW h \in Seq(Items), NEW kinds
  PROVE  Range(OfKind(h, kinds)) = {i \in Range(h) : i[1] \in kinds}
  <1> DEFINE T == {g \in Seq(Items) : Range(OfKind(g, kinds)) = {i \in Range(g) : i[1] \in kinds}}
  <1>1. <<>> \in T
    <2>1. OfKind(<<>>, kinds) = <<>> /\ <<>> \in Seq(Items)
      BY OfKindEmpty
    <2>2. Range(<<>>) = {}
      BY DEF Range
    <2> QED BY <2>1, <2>2
  <1>2. ASSUME NEW g \in Seq(Items), NEW i \in Items, g \in T PROVE Append(g, i) \in T
    <2>1. Append(g, i) \in Seq(Items) /\ Range(OfKind(g, kinds)) = {j \in Range(g) : j[1] \in kinds}
      BY <1>2
    <2>2. Range(Append(g, i)) = Range(g) \cup {i}
      BY RangeAppend
    <2>3. Range(Append(OfKind(g, kinds), i)) = Range(OfKind(g, kinds)) \cup {i}
      BY RangeAppend, OfKindItems
    <2>4. OfKind(Append(g, i), kinds) =
            IF i[1] \in kinds THEN Append(OfKind(g, kinds), i) ELSE OfKind(g, kinds)
      BY OfKindAppend
    <2>5. Range(OfKind(Append(g, i), kinds)) = {j \in Range(Append(g, i)) : j[1] \in kinds}
      <3>1. CASE i[1] \in kinds
        BY <2>1, <2>2, <2>3, <2>4, <3>1
      <3>2. CASE i[1] \notin kinds
        BY <2>1, <2>2, <2>4, <3>2
      <3> QED BY <3>1, <3>2
    <2> QED BY <2>1, <2>5
  <1>3. Seq(Items) \subseteq T
    <2> HIDE DEF T
    <2> QED BY <1>1, <1>2, SeqInduction
  <1> QED BY <1>3
----------------------------------------------------------------------------
\* The turns of a history are counted by its boundaries.
LEMMA TurnsInType == ASSUME NEW h \in Seq(Items) PROVE TurnsIn(h) \in Nat
  BY OfKindItems DEF TurnsIn

\* An empty history has no turn.
LEMMA TurnsInEmpty == TurnsIn(<<>>) = 0
  BY OfKindEmpty DEF TurnsIn

\* An item begins a turn or it does not.
LEMMA TurnsInAppend ==
  ASSUME NEW h \in Seq(Items), NEW i \in Items
  PROVE  TurnsIn(Append(h, i)) = IF BeginsTurn(i) THEN TurnsIn(h) + 1 ELSE TurnsIn(h)
  BY OfKindAppend, OfKindItems DEF TurnsIn, BeginsTurn

\* The turns of two histories in a row add up.
LEMMA TurnsInConcat ==
  ASSUME NEW a \in Seq(Items), NEW b \in Seq(Items)
  PROVE  TurnsIn(a \o b) = TurnsIn(a) + TurnsIn(b)
  BY OfKindConcat, OfKindItems DEF TurnsIn

\* A history is cut in front of an item.
CutAt(h, p, i, q) == h = Append(p, i) \o q

\* Every turn of a history has a place where it begins.
LEMMA CutExists ==
  ASSUME NEW h \in Seq(Items), NEW m \in Nat, m < TurnsIn(h)
  PROVE  \E p, q \in Seq(Items), i \in Items :
            BeginsTurn(i) /\ CutAt(h, p, i, q) /\ TurnsIn(p) = m
  <1> DEFINE Has(g) == \E p, q \in Seq(Items), i \in Items :
                          BeginsTurn(i) /\ CutAt(g, p, i, q) /\ TurnsIn(p) = m
             T == {g \in Seq(Items) : m < TurnsIn(g) => Has(g)}
  <1>1. <<>> \in T
    BY TurnsInEmpty
  <1>2. ASSUME NEW g \in Seq(Items), NEW j \in Items, g \in T PROVE Append(g, j) \in T
    <2> SUFFICES ASSUME m < TurnsIn(Append(g, j)) PROVE Has(Append(g, j))
      OBVIOUS
    <2>1. CASE m < TurnsIn(g)
      <3>1. PICK p \in Seq(Items), q \in Seq(Items), i \in Items :
               BeginsTurn(i) /\ CutAt(g, p, i, q) /\ TurnsIn(p) = m
        BY <1>2, <2>1
      <3>2. Append(q, j) \in Seq(Items) /\ CutAt(Append(g, j), p, i, Append(q, j))
        <4>1. g = Append(p, i) \o q
          BY <3>1 DEF CutAt
        <4> DEFINE r == Append(p, i)
        <4>2. r \in Seq(Items)
          OBVIOUS
        <4> HIDE DEF r
        <4>3. r \o Append(q, j) = Append(r \o q, j)
          BY <4>2
        <4>4. Append(q, j) \in Seq(Items)
          OBVIOUS
        <4> QED BY <4>1, <4>3, <4>4 DEF CutAt, r
      <3> QED BY <3>1, <3>2
    <2>2. CASE ~(m < TurnsIn(g))
      <3>1. BeginsTurn(j) /\ TurnsIn(g) = m
        BY <2>2, TurnsInAppend, TurnsInType
      <3>2. <<>> \in Seq(Items) /\ CutAt(Append(g, j), g, j, <<>>)
        BY DEF CutAt
      <3> QED BY <3>1, <3>2
    <2> QED BY <2>1, <2>2
  <1>3. Seq(Items) \subseteq T
    <2> HIDE DEF T
    <2> QED BY <1>1, <1>2, SeqInduction
  <1> QED BY <1>3

\* A longer prefix has no fewer turns.
LEMMA TurnsInPrefix ==
  ASSUME NEW h \in Seq(Items), NEW k \in 0..Len(h), NEW m \in k..Len(h)
  PROVE  TurnsIn(SubSeq(h, 1, k)) <= TurnsIn(SubSeq(h, 1, m))
  <1>1. /\ SubSeq(h, 1, k) \in Seq(Items) /\ SubSeq(h, k + 1, m) \in Seq(Items)
        /\ SubSeq(h, 1, m) = SubSeq(h, 1, k) \o SubSeq(h, k + 1, m)
    OBVIOUS
  <1> DEFINE a == SubSeq(h, 1, k)
             b == SubSeq(h, k + 1, m)
  <1>2. TurnsIn(a \o b) = TurnsIn(a) + TurnsIn(b) /\ TurnsIn(a) \in Nat /\ TurnsIn(b) \in Nat
    BY <1>1, TurnsInConcat, TurnsInType
  <1> HIDE DEF a, b
  <1>3. TurnsIn(a) <= TurnsIn(a \o b)
    BY <1>2
  <1> QED BY <1>1, <1>3 DEF a, b

\* A prefix that ends with the beginning of a turn has one turn more.
LEMMA TurnsInBegin ==
  ASSUME NEW h \in Seq(Items), NEW k \in DOMAIN h, BeginsTurn(h[k])
  PROVE  TurnsIn(SubSeq(h, 1, k)) = TurnsIn(SubSeq(h, 1, k - 1)) + 1
  <1>1. /\ SubSeq(h, 1, k - 1) \in Seq(Items) /\ h[k] \in Items
        /\ SubSeq(h, 1, k) = Append(SubSeq(h, 1, k - 1), h[k])
    OBVIOUS
  <1> QED BY <1>1, TurnsInAppend

\* The turns that a rollback keeps.
Kept(h, n) == IF n >= TurnsIn(h) THEN 0 ELSE TurnsIn(h) - n

\* A rollback (drop_last_n_user_turns) is the cut in front of the first turn to go.
LEMMA DropLastIsCut ==
  ASSUME NEW h \in Seq(Items), NEW n \in Nat,
         NEW p \in Seq(Items), NEW i \in Items, NEW q \in Seq(Items),
         BeginsTurn(i), CutAt(h, p, i, q), TurnsIn(p) = Kept(h, n)
  PROVE  DropLastUserTurns(h, n) = p
  <1> DEFINE c == Len(p) + 1
             kept == Kept(h, n)
             Cut(k) == BeginsTurn(h[k]) /\ TurnsIn(SubSeq(h, 1, k - 1)) = kept
             first == CHOOSE k \in DOMAIN h : Cut(k)
  <1>1. c \in DOMAIN h /\ h[c] = i /\ SubSeq(h, 1, c - 1) = p
    <2>1. h = Append(p, i) \o q
      BY DEF CutAt
    <2> QED BY <2>1
  <1>2. \A k, m \in DOMAIN h : Cut(k) /\ Cut(m) => ~(k < m)
    <2> SUFFICES ASSUME NEW k \in DOMAIN h, NEW m \in DOMAIN h, Cut(k), Cut(m), k < m
                 PROVE  FALSE
      OBVIOUS
    <2>1. TurnsIn(SubSeq(h, 1, k)) = kept + 1
      BY TurnsInBegin
    <2>2. k \in 0..Len(h) /\ m - 1 \in k..Len(h) /\ SubSeq(h, 1, m - 1) \in Seq(Items)
      OBVIOUS
    <2>3. TurnsIn(SubSeq(h, 1, k)) <= TurnsIn(SubSeq(h, 1, m - 1))
      BY <2>2, TurnsInPrefix
    <2>4. kept \in Nat
      BY <2>2, TurnsInType
    <2> HIDE DEF kept
    <2> QED BY <2>1, <2>3, <2>4
  <1>3. Cut(c)
    BY <1>1
  <1>4. first \in DOMAIN h /\ Cut(first)
    <2> HIDE DEF Cut
    <2> QED BY <1>1, <1>3
  <1>5. first = c
    <2>1. first \in Nat /\ c \in Nat
      BY <1>1, <1>4
    <2> HIDE DEF first, c, Cut
    <2> QED BY <1>1, <1>2, <1>3, <1>4, <2>1
  <1>6. TurnsIn(h) # 0
    <2>1. Append(p, i) \in Seq(Items) /\ TurnsIn(Append(p, i)) = TurnsIn(p) + 1
      BY TurnsInAppend
    <2>2. TurnsIn(h) = TurnsIn(Append(p, i)) + TurnsIn(q)
      BY <2>1, TurnsInConcat DEF CutAt
    <2> QED BY <2>1, <2>2, TurnsInType
  <1>7. DropLastUserTurns(h, n) = SubSeq(h, 1, first - 1)
    BY <1>6 DEF DropLastUserTurns, Kept
  <1> HIDE DEF first
  <1> QED BY <1>1, <1>5, <1>7

\* A rollback of a history without turns leaves it alone.
LEMMA DropLastNone ==
  ASSUME NEW h \in Seq(Items), NEW n \in Nat, TurnsIn(h) = 0
  PROVE  DropLastUserTurns(h, n) = h
  BY DEF DropLastUserTurns

\* A rollback cuts in front of a turn, if there is one.
LEMMA DropLastCuts ==
  ASSUME NEW h \in Seq(Items), NEW n \in Nat \ {0}, TurnsIn(h) # 0
  PROVE  \E p, q \in Seq(Items), i \in Items :
            /\ BeginsTurn(i) /\ CutAt(h, p, i, q) /\ TurnsIn(p) = Kept(h, n)
            /\ DropLastUserTurns(h, n) = p
  <1>1. Kept(h, n) \in Nat /\ Kept(h, n) < TurnsIn(h)
    BY TurnsInType DEF Kept
  <1>2. PICK p \in Seq(Items), q \in Seq(Items), i \in Items :
           BeginsTurn(i) /\ CutAt(h, p, i, q) /\ TurnsIn(p) = Kept(h, n)
    BY <1>1, CutExists
  <1>3. DropLastUserTurns(h, n) = p
    BY <1>2, DropLastIsCut
  <1> QED BY <1>2, <1>3

\* A rollback leaves items.
LEMMA DropLastType ==
  ASSUME NEW h \in Seq(Items), NEW n \in Nat \ {0}
  PROVE  DropLastUserTurns(h, n) \in Seq(Items)
  BY DropLastCuts, DropLastNone

\* A rollback does not depend on the items that begin no turn.
LEMMA DropLastOfKind ==
  ASSUME NEW h \in Seq(Items), NEW n \in Nat \ {0}, NEW K, Boundaries \subseteq K
  PROVE  OfKind(DropLastUserTurns(h, n), K) = DropLastUserTurns(OfKind(h, K), n)
  <1> DEFINE k == OfKind(h, K)
  <1>1. \A g \in Seq(Items) : OfKind(g, K) \in Seq(Items) /\ TurnsIn(OfKind(g, K)) = TurnsIn(g)
    <2>1. K \cap Boundaries = Boundaries
      OBVIOUS
    <2>2. ASSUME NEW g \in Seq(Items)
          PROVE  OfKind(g, K) \in Seq(Items) /\ OfKind(OfKind(g, K), Boundaries) = OfKind(g, Boundaries)
      BY <2>1, OfKindItems, OfKindTwice
    <2> QED BY <2>2 DEF TurnsIn
  <1>2. CASE TurnsIn(h) = 0
    <2>1. TurnsIn(k) = 0 /\ k \in Seq(Items)
      BY <1>1, <1>2
    <2> HIDE DEF k
    <2>2. DropLastUserTurns(k, n) = k
      BY <2>1, DropLastNone
    <2>3. DropLastUserTurns(h, n) = h
      BY <1>2, DropLastNone
    <2> QED BY <2>2, <2>3 DEF k
  <1>3. CASE TurnsIn(h) # 0
    <2>1. PICK p \in Seq(Items), q \in Seq(Items), i \in Items :
             /\ BeginsTurn(i) /\ CutAt(h, p, i, q) /\ TurnsIn(p) = Kept(h, n)
             /\ DropLastUserTurns(h, n) = p
      BY <1>3, DropLastCuts
    <2>2. i[1] \in K
      BY <2>1 DEF BeginsTurn
    <2>4. k = Append(OfKind(p, K), i) \o OfKind(q, K)
      <3>1. h = Joined(Append(p, i), q)
        BY <2>1 DEF CutAt, Joined
      <3>2. p \in Seq(Items) /\ q \in Seq(Items) /\ i \in Items
        OBVIOUS
      <3>3. Append(p, i) \in Seq(Items) /\ OfKind(Append(p, i), K) = Append(OfKind(p, K), i)
        BY <2>2, <3>2, OfKindAppend
      <3>4. OfKind(Joined(Append(p, i), q), K) = Joined(OfKind(Append(p, i), K), OfKind(q, K))
        <4> DEFINE r == Append(p, i)
        <4> HIDE DEF r
        <4>1. OfKind(Joined(r, q), K) = Joined(OfKind(r, K), OfKind(q, K))
          <5>1. r \in Seq(Items) /\ q \in Seq(Items)
            BY <3>2, <3>3 DEF r
          <5> QED BY <5>1, OfKindJoined
        <4> QED BY <4>1 DEF r
      <3> QED BY <3>1, <3>3, <3>4 DEF Joined
    <2>5. OfKind(p, K) \in Seq(Items) /\ OfKind(q, K) \in Seq(Items) /\ k \in Seq(Items)
      BY <1>1
    <2>6. TurnsIn(OfKind(p, K)) = Kept(k, n)
      BY <1>1, <2>1 DEF Kept
    <2>7. CutAt(k, OfKind(p, K), i, OfKind(q, K))
      BY <2>4 DEF CutAt
    <2> HIDE DEF k
    <2>8. DropLastUserTurns(k, n) = OfKind(p, K)
      BY <2>1, <2>5, <2>6, <2>7, DropLastIsCut
    <2> QED BY <2>1, <2>8 DEF k
  <1> QED BY <1>2, <1>3

----------------------------------------------------------------------------
\* Where an item was taken out of a history.
LEMMA RemoveAtItems ==
  ASSUME NEW h \in Seq(Items), NEW k \in DOMAIN h
  PROVE  /\ RemoveAt(h, k) \in Seq(Items)
         /\ \A K : h[k][1] \notin K => OfKind(RemoveAt(h, k), K) = OfKind(h, K)
  <1> DEFINE a == SubSeq(h, 1, k - 1)
             b == SubSeq(h, k + 1, Len(h))
             i == h[k]
  <1>1. a \in Seq(Items) /\ b \in Seq(Items) /\ i \in Items /\ h = Append(a, i) \o b
    <2>1. a \in Seq(Items) /\ Len(a) = k - 1 /\ \A j \in 1..(k - 1) : a[j] = h[j]
      OBVIOUS
    <2>2. b \in Seq(Items) /\ Len(b) = Len(h) - k /\ \A j \in 1..(Len(h) - k) : b[j] = h[k + j]
      OBVIOUS
    <2>3. i \in Items
      OBVIOUS
    <2> HIDE DEF a, b
    <2> DEFINE c == Append(a, i) \o b
    <2>4. c \in Seq(Items) /\ Len(c) = Len(h)
      BY <2>1, <2>2, <2>3
    <2>5. \A j \in 1..Len(h) : c[j] = h[j]
      <3>1. ASSUME NEW j \in 1..(k - 1) PROVE c[j] = h[j]
        BY <2>1, <2>2, <2>3
      <3>2. c[k] = h[k]
        <4>1. Append(a, i) \in Seq(Items) /\ Len(Append(a, i)) = k /\ Append(a, i)[k] = i
          BY <2>1, <2>3
        <4>2. c[k] = Append(a, i)[k]
          BY <2>2, <4>1
        <4> QED BY <4>1, <4>2 DEF i
      <3>3. ASSUME NEW j \in (k + 1)..Len(h) PROVE c[j] = h[j]
        <4>1. Append(a, i) \in Seq(Items) /\ Len(Append(a, i)) = k
          BY <2>1, <2>3
        <4>2. j - k \in 1..Len(b) /\ j = k + (j - k)
          BY <2>2
        <4> DEFINE r == Append(a, i)
                   m == j - k
        <4>3. r \in Seq(Items) /\ Len(r) = k /\ m \in 1..Len(b)
          BY <4>1, <4>2
        <4>4. (r \o b)[k + m] = b[m]
          <5>1. b \in Seq(Items)
            BY <2>2
          <5> HIDE DEF r, m
          <5>2. (r \o b)[Len(r) + m] = b[m]
            BY <4>3, <5>1
          <5> QED BY <4>3, <5>2
        <4>5. c[j] = b[j - k]
          BY <4>2, <4>4
        <4>6. b[j - k] = h[k + (j - k)]
          BY <2>2, <4>2
        <4> QED BY <4>2, <4>5, <4>6
      <3>4. \A j \in 1..Len(h) : j \in 1..(k - 1) \/ j = k \/ j \in (k + 1)..Len(h)
        OBVIOUS
      <3> HIDE DEF c
      <3> QED BY <3>1, <3>2, <3>3, <3>4
    <2>6. h = c
      <3> HIDE DEF c
      <3> QED BY <2>4, <2>5
    <2> QED BY <2>1, <2>2, <2>3, <2>6
  <1>2. RemoveAt(h, k) = a \o b
    BY DEF RemoveAt
  <1> HIDE DEF a, b, i
  <1>3. ASSUME NEW K, i[1] \notin K PROVE OfKind(a \o b, K) = OfKind(h, K)
    <2>1. OfKind(h, K) = OfKind(a, K) \o OfKind(b, K)
      <3>1. Append(a, i) \in Seq(Items) /\ OfKind(Append(a, i), K) = OfKind(a, K)
        BY <1>1, <1>3, OfKindAppend
      <3>2. h = Joined(Append(a, i), b)
        BY <1>1 DEF Joined
      <3>3. OfKind(Joined(Append(a, i), b), K) = Joined(OfKind(Append(a, i), K), OfKind(b, K))
        BY <1>1, <3>1, OfKindJoined
      <3> QED BY <3>1, <3>2, <3>3 DEF Joined
    <2>2. OfKind(a \o b, K) = OfKind(a, K) \o OfKind(b, K)
      BY <1>1, OfKindConcat
    <2> QED BY <2>1, <2>2
  <1>4. a \o b \in Seq(Items)
    BY <1>1
  <1> QED BY <1>2, <1>3, <1>4 DEF i

\* The last snapshot of a history that has one.
LEMMA LastGhost ==
  ASSUME NEW h \in Seq(Items), Ghosts(h) # <<>>
  PROVE  LET IsGhost(i) == i[1] = "ghost"
             k == SelectLastInSeq(h, IsGhost)
         IN  k \in DOMAIN h /\ h[k][1] = "ghost"
  <1> DEFINE I == {k \in 1..Len(h) : h[k][1] = "ghost"}
             D == {Len(h) - k : k \in I}
  <1>1. I # {}
    <2> SUFFICES ASSUME I = {} PROVE FALSE
      OBVIOUS
    <2>1. \A k \in DOMAIN h : h[k][1] \notin {"ghost"}
      OBVIOUS
    <2> QED BY <2>1, OfKindNone DEF Ghosts
  <1>2. \E x \in I : \A y \in I : x >= y
    <2>1. D \subseteq Nat /\ D # {}
      BY <1>1
    <2>2. PICK d \in D : \A e \in D : d <= e
      <3> HIDE DEF D
      <3> QED BY <2>1, LeastNat
    <2>3. PICK x \in I : d = Len(h) - x
      BY <2>2
    <2>4. \A y \in I : Len(h) - y \in D
      OBVIOUS
    <2>5. \A y \in I : Len(h) - x <= Len(h) - y
      BY <2>2, <2>3, <2>4
    <2>6. \A y \in I : x >= y
      BY <2>5
    <2> HIDE DEF I
    <2> QED BY <2>6
  <1>3. Max(I) \in I
    <2> HIDE DEF I
    <2> QED BY <1>2 DEF Max
  <1> QED BY <1>1, <1>3 DEF SelectLastInSeq

----------------------------------------------------------------------------
\* The lines, each with the fields of its kind.
LEMMA LineFields ==
  ASSUME NEW l \in LogLines
  PROVE  /\ l.kind \in {"item", "compacted", "replaced", "rolledBack"}
         /\ l.kind \in {"item", "compacted"} => l.item \in Items
         /\ l.kind = "replaced" => l.items \in Seq(Items)
         /\ l.kind = "rolledBack" => l.turns \in Nat \ {0}
  <1>1. CASE l \in [kind : {"item", "compacted"}, item : Items]
    BY <1>1
  <1>2. CASE l \in [kind : {"replaced"}, items : Seq(Items)]
    BY <1>2
  <1>3. CASE l \in [kind : {"rolledBack"}, turns : 1..MaxRollback]
    <2>1. l.kind = "rolledBack" /\ l.turns \in 1..MaxRollback
      BY <1>3
    <2> QED BY <2>1, BoundAssumption
  <1> QED BY <1>1, <1>2, <1>3 DEF LogLines

\* The constructors of lines make lines.
LEMMA LineTypes ==
  /\ \A i \in Items : ItemLine(i) \in LogLines /\ CompactedLine(i) \in LogLines
  /\ \A h \in Seq(Items) : ReplacedLine(h) \in LogLines
  /\ \A n \in 1..MaxRollback : RolledBackLine(n) \in LogLines
  <1>1. ASSUME NEW i \in Items PROVE ItemLine(i) \in LogLines /\ CompactedLine(i) \in LogLines
    BY DEF LogLines, ItemLine, CompactedLine
  <1>2. ASSUME NEW h \in Seq(Items) PROVE ReplacedLine(h) \in LogLines
    BY DEF LogLines, ReplacedLine
  <1>3. ASSUME NEW n \in 1..MaxRollback PROVE RolledBackLine(n) \in LogLines
    BY DEF LogLines, RolledBackLine
  <1> QED BY <1>1, <1>2, <1>3

\* What each kind of line does to the history.
LEMMA ReplayLineKinds ==
  ASSUME NEW h, NEW l
  PROVE  /\ l.kind = "item" => ReplayLine(h, l) = Append(h, l.item)
         /\ l.kind = "replaced" => ReplayLine(h, l) = l.items
         /\ l.kind = "compacted" => ReplayLine(h, l) = BuildCompactedHistory(h, l.item)
         /\ l.kind = "rolledBack" => ReplayLine(h, l) = DropLastUserTurns(h, l.turns)
  <1> HIDE DEF BuildCompactedHistory, DropLastUserTurns
  <1>1. CASE l.kind = "item"
    BY <1>1 DEF ReplayLine
  <1>2. CASE l.kind = "replaced"
    BY <1>2 DEF ReplayLine
  <1>3. CASE l.kind = "compacted"
    BY <1>3 DEF ReplayLine
  <1>4. CASE l.kind = "rolledBack"
    BY <1>4 DEF ReplayLine
  <1> QED BY <1>1, <1>2, <1>3, <1>4

\* The context is an item, and so is the marker of a turn.
LEMMA ContextIsItem == Context \in Items /\ (turns \in Nat => Marker \in Items)
  BY DEF Context, Marker, Items, Kinds

Weighed(messages) ==
    CHOOSE g : g = [m \in 0..Len(messages) |->
        IF m = 0 THEN 0 ELSE g[m - 1] + Size(messages[Len(messages) + 1 - m])]

\* Tokens takes its steps: the recursive function of its definition is a fold.
LEMMA TokensSteps ==
  ASSUME NEW s \in Seq(Items)
  PROVE  /\ Tokens(s)[0] = 0
         /\ \A m \in 1..Len(s) : Tokens(s)[m] = Tokens(s)[m - 1] + Size(s[Len(s) + 1 - m])
  <1> DEFINE S == Nat
             Step(v, k) == v + Size(s[Len(s) + 1 - k])
             Body(g) == [m \in 0..Len(s) |-> IF m = 0 THEN 0 ELSE g[m - 1] + Size(s[Len(s) + 1 - m])]
             F == [k \in 1..Len(s) |-> [v \in S |-> Step(v, k)]]
             G == Weighed(s)
  <1>1. \A k \in 1..Len(s) : \A v \in S : Step(v, k) \in S
    BY DEF Size
  <1>2. Len(s) \in Nat /\ 0 \in S /\ StepsIn(Len(s), S, F)
    <2> HIDE DEF Step, S
    <2>1. StepsIn(Len(s), S, F)
      BY <1>1 DEF StepsIn
    <2> USE DEF S
    <2> QED BY <2>1
  <1>3. PICK f : IsFold(f, Len(s), S, 0, F)
    <2> HIDE DEF F, S
    <2> QED BY <1>2, FoldExists DEF HasFold
  <1>4. f = Body(f)
    <2>1. f \in [0..Len(s) -> S] /\ f[0] = 0
      BY <1>3 DEF IsFold
    <2>2. ASSUME NEW k \in 1..Len(s) PROVE f[k] = Step(f[k - 1], k)
      <3>1. f[k - 1] \in S
        BY <2>1
      <3>2. f[k] = F[k][f[k - 1]]
        BY <1>3 DEF IsFold
      <3> HIDE DEF Step, S
      <3> QED BY <3>1, <3>2
    <2>3. \A k \in 0..Len(s) : f[k] = Body(f)[k]
      <3> HIDE DEF S
      <3>1. \A k \in 0..Len(s) : k = 0 \/ k \in 1..Len(s)
        BY <1>2
      <3> QED BY <2>1, <2>2, <3>1
    <2> HIDE DEF S
    <2> QED BY <2>1, <2>3
  <1>5. G = Body(G)
    <2>1. G = CHOOSE g : g = Body(g)
      BY DEF Weighed
    <2> HIDE DEF Body
    <2> QED BY <1>4, <2>1
  <1>6. \A k \in 0..Len(s) : G[k] = Body(G)[k]
    BY <1>5
  <1>7. \A k \in 1..Len(s) : k \in 0..Len(s) /\ k # 0
    BY <1>2
  <1>8. Tokens(s) = G
    BY DEF Tokens, Weighed
  <1>9. G[0] = 0 /\ \A k \in 1..Len(s) : G[k] = Step(G[k - 1], k)
    <2> HIDE DEF G
    <2> QED BY <1>2, <1>6, <1>7
  <1> QED BY <1>8, <1>9

\* Tokens are counted in numbers.
LEMMA TokensType ==
  ASSUME NEW s \in Seq(Items), NEW m \in 0..Len(s)
  PROVE  Tokens(s)[m] \in Nat
  <1> DEFINE T == {n \in Nat : n <= Len(s) => Tokens(s)[n] \in Nat}
  <1>1. 0 \in T
    BY TokensSteps
  <1>2. ASSUME NEW n \in Nat, n \in T PROVE n + 1 \in T
    <2> SUFFICES ASSUME n + 1 <= Len(s) PROVE Tokens(s)[n + 1] \in Nat
      OBVIOUS
    <2>1. n + 1 \in 1..Len(s) /\ (n + 1) - 1 = n /\ Tokens(s)[n] \in Nat
      BY <1>2
    <2>2. Size(s[Len(s) + 1 - (n + 1)]) \in Nat
      BY DEF Size
    <2>3. Tokens(s)[n + 1] = Tokens(s)[n] + Size(s[Len(s) + 1 - (n + 1)])
      BY <2>1, TokensSteps
    <2> QED BY <2>1, <2>2, <2>3
  <1>3. Nat \subseteq T
    <2> HIDE DEF T
    <2> QED BY <1>1, <1>2, SetInduction
  <1> QED BY <1>3

\* The newest messages that fit are some of all, and no more of them fit.
LEMMA WholeFits ==
  ASSUME NEW s \in Seq(Items)
  PROVE  /\ Whole(s) \in 0..Len(s)
         /\ \A m \in 0..Len(s) : Tokens(s)[m] <= MaxTokens => m <= Whole(s)
  <1> DEFINE fits == {m \in 0..Len(s) : Tokens(s)[m] <= MaxTokens}
             rest == {Len(s) - m : m \in fits}
  <1>1. Len(s) \in Nat /\ 0 \in fits
    BY TokensSteps, TokensAssumption
  <1>2. fits \subseteq 0..Len(s)
    OBVIOUS
  <1> HIDE DEF fits
  <1>3. rest \subseteq Nat /\ rest # {}
    BY <1>1, <1>2
  <1>4. PICK r \in rest : \A y \in rest : r <= y
    BY <1>3, LeastNat
  <1>5. PICK w \in fits : r = Len(s) - w
    BY <1>4
  <1>6. ASSUME NEW m \in fits PROVE m <= w
    <2>1. Len(s) - m \in rest /\ m \in 0..Len(s) /\ w \in 0..Len(s)
      BY <1>2
    <2>2. Len(s) - w <= Len(s) - m
      BY <1>4, <1>5, <2>1
    <2>3. \A n, x, y \in Nat : n - y <= n - x => x <= y
      OBVIOUS
    <2>4. Len(s) \in Nat /\ m \in Nat /\ w \in Nat
      BY <2>1
    <2> QED BY <2>2, <2>3, <2>4
  <1>7. \E x \in fits : \A m \in fits : x >= m
    BY <1>1, <1>2, <1>6
  <1>8. Max(fits) \in fits /\ \A m \in fits : Max(fits) >= m
    BY <1>7 DEF Max
  <1>9. Whole(s) = Max(fits)
    BY DEF Whole, fits
  <1>10. \A m \in fits : m <= Whole(s)
    BY <1>1, <1>2, <1>8, <1>9
  <1> QED BY <1>2, <1>8, <1>9, <1>10 DEF fits

\* What the limit leaves are items.
LEMMA LimitedType ==
  ASSUME NEW s \in Seq(Items)
  PROVE  Limited(s) \in Seq(Items)
  <1> DEFINE older == Len(s) - Whole(s)
             newest == SubSeq(s, older + 1, Len(s))
  <1>1. older \in 0..Len(s) /\ Len(s) \in Nat
    BY WholeFits
  <1>2. newest \in Seq(Items)
    BY <1>1
  <1>3. ASSUME older # 0 PROVE <<Clip(s[older])>> \in Seq(Items)
    <2>1. s[older] \in Items
      BY <1>1, <1>3
    <2>2. Clip(s[older]) \in Items
      BY <2>1 DEF Clip, Items, Kinds
    <2> QED BY <2>2
  <1> HIDE DEF newest
  <1>4. older # 0 => <<Clip(s[older])>> \o newest \in Seq(Items)
    BY <1>2, <1>3
  <1>5. Limited(s) = newest \/ (older # 0 /\ Limited(s) = <<Clip(s[older])>> \o newest)
    BY DEF Limited, newest
  <1> QED BY <1>2, <1>4, <1>5

\* The limit leaves every message that fits together with the newer ones.
LEMMA LimitedKeeps ==
  ASSUME NEW s \in Seq(Items), NEW k \in DOMAIN s, Tokens(s)[Len(s) + 1 - k] <= MaxTokens
  PROVE  s[k] \in Range(Limited(s))
  <1> DEFINE older == Len(s) - Whole(s)
             newest == SubSeq(s, older + 1, Len(s))
  <1>1. older \in 0..Len(s) /\ Len(s) \in Nat /\ Whole(s) \in Nat /\ k \in 1..Len(s)
    BY WholeFits
  <1>2. Len(s) + 1 - k <= Whole(s)
    BY <1>1, WholeFits
  <1>3. k - older \in 1..(Len(s) - older) /\ older + (k - older) = k
    <2>1. ASSUME NEW n \in Nat, NEW w \in 0..n, NEW j \in 1..n, n + 1 - j <= w
          PROVE  j - (n - w) \in 1..(n - (n - w)) /\ (n - w) + (j - (n - w)) = j
      BY <2>1
    <2>2. Whole(s) \in 0..Len(s)
      BY WholeFits
    <2> QED BY <1>1, <1>2, <2>1, <2>2
  <1>4. newest \in Seq(Items) /\ Len(newest) = Len(s) - older /\ newest[k - older] = s[k]
    <2>1. ASSUME NEW o \in 0..Len(s), NEW j \in 1..(Len(s) - o)
          PROVE  /\ SubSeq(s, o + 1, Len(s)) \in Seq(Items)
                 /\ Len(SubSeq(s, o + 1, Len(s))) = Len(s) - o
                 /\ SubSeq(s, o + 1, Len(s))[j] = s[o + j]
      <3>1. /\ o + 1 \in Nat /\ Len(s) \in Nat /\ o + 1 >= 1
            /\ Len(s) - (o + 1) + 1 = Len(s) - o /\ (o + 1) + j - 1 = o + j
        OBVIOUS
      <3>2. SubSeq(s, o + 1, Len(s)) \in Seq(Items)
        BY <3>1
      <3>3. Len(SubSeq(s, o + 1, Len(s))) = Len(s) - o
        <4>1. ASSUME NEW f \in 1..(Len(s) + 1)
              PROVE  Len(SubSeq(s, f, Len(s))) = Len(s) - f + 1
          OBVIOUS
        <4>2. o + 1 \in 1..(Len(s) + 1)
          OBVIOUS
        <4> QED BY <3>1, <4>1, <4>2
      <3>4. SubSeq(s, o + 1, Len(s))[j] = s[o + j]
        <4>1. ASSUME NEW f \in 1..(Len(s) + 1), NEW i \in 1..(Len(s) - f + 1)
              PROVE  SubSeq(s, f, Len(s))[i] = s[f + i - 1]
          OBVIOUS
        <4>2. o + 1 \in 1..(Len(s) + 1) /\ j \in 1..(Len(s) - (o + 1) + 1)
          BY <3>1
        <4>3. SubSeq(s, o + 1, Len(s))[j] = s[(o + 1) + j - 1]
          BY <4>1, <4>2
        <4> QED BY <3>1, <4>3
      <3> QED BY <3>2, <3>3, <3>4
    <2>2. older \in 0..Len(s)
      BY <1>1
    <2> HIDE DEF older
    <2> QED BY <1>3, <2>1, <2>2
  <1>5. s[k] \in Range(newest)
    BY <1>3, <1>4 DEF Range
  <1> HIDE DEF newest
  <1>6. CASE Limited(s) = newest
    BY <1>5, <1>6
  <1>7. CASE older # 0 /\ Limited(s) = <<Clip(s[older])>> \o newest
    <2>1. /\ (k - older) + 1 \in DOMAIN (<<Clip(s[older])>> \o newest)
          /\ (<<Clip(s[older])>> \o newest)[(k - older) + 1] = newest[k - older]
      <3>1. ASSUME NEW x, NEW q \in Seq(Items), NEW j \in 1..Len(q)
            PROVE  j + 1 \in DOMAIN (<<x>> \o q) /\ (<<x>> \o q)[j + 1] = q[j]
        OBVIOUS
      <3>2. k - older \in 1..Len(newest)
        BY <1>3, <1>4
      <3> HIDE DEF older
      <3> QED BY <1>4, <3>1, <3>2
    <2> QED BY <1>4, <1>7, <2>1 DEF Range
  <1>8. Limited(s) = newest \/ (older # 0 /\ Limited(s) = <<Clip(s[older])>> \o newest)
    BY DEF Limited, newest
  <1> QED BY <1>6, <1>7, <1>8

\* A compacted history consists of items.
LEMMA CompactedType ==
  ASSUME NEW h \in Seq(Items), NEW i \in Items
  PROVE  BuildCompactedHistory(h, i) \in Seq(Items)
  <1>1. Limited(CollectUserMessages(h)) \in Seq(Items)
    BY OfKindItems, LimitedType DEF CollectUserMessages
  <1> QED BY <1>1, ContextIsItem DEF BuildCompactedHistory

\* Every line leaves a history.
LEMMA ReplayLineType ==
  ASSUME NEW h \in Seq(Items), NEW l \in LogLines
  PROVE  ReplayLine(h, l) \in Seq(Items)
  <1>1. CASE l.kind = "item"
    BY <1>1, LineFields, ReplayLineKinds
  <1>2. CASE l.kind = "replaced"
    BY <1>2, LineFields, ReplayLineKinds
  <1>3. CASE l.kind = "compacted"
    BY <1>3, LineFields, ReplayLineKinds, CompactedType
  <1>4. CASE l.kind = "rolledBack"
    BY <1>4, LineFields, ReplayLineKinds, DropLastType
  <1> QED BY <1>1, <1>2, <1>3, <1>4, LineFields

Rebuilt(lines) ==
    CHOOSE g : g = [k \in 0..Len(lines) |->
        IF k = 0 THEN <<>> ELSE ReplayLine(g[k - 1], lines[k])]

\* Replay takes its steps: the recursive function of its definition is a fold.
LEMMA RebuiltSteps ==
  ASSUME NEW lines \in Seq(LogLines)
  PROVE  /\ Rebuilt(lines)[0] = <<>>
         /\ \A k \in 1..Len(lines) : Rebuilt(lines)[k] = ReplayLine(Rebuilt(lines)[k - 1], lines[k])
         /\ Replay(lines) = Rebuilt(lines)[Len(lines)]
  <1> DEFINE S == Seq(Items)
             Step(v, k) == ReplayLine(v, lines[k])
             Body(g) == [k \in 0..Len(lines) |-> IF k = 0 THEN <<>> ELSE ReplayLine(g[k - 1], lines[k])]
             F == [k \in 1..Len(lines) |-> [v \in S |-> Step(v, k)]]
             G == Rebuilt(lines)
  <1>1. \A k \in 1..Len(lines) : \A v \in S : Step(v, k) \in S
    BY ReplayLineType
  <1>2. Len(lines) \in Nat /\ <<>> \in S /\ StepsIn(Len(lines), S, F)
    <2> HIDE DEF Step, S
    <2>1. StepsIn(Len(lines), S, F)
      BY <1>1 DEF StepsIn
    <2> USE DEF S
    <2> QED BY <2>1
  <1>3. PICK f : IsFold(f, Len(lines), S, <<>>, F)
    <2> HIDE DEF F, S
    <2> QED BY <1>2, FoldExists DEF HasFold
  <1>4. f = Body(f)
    <2>1. f \in [0..Len(lines) -> S] /\ f[0] = <<>>
      BY <1>3 DEF IsFold
    <2>2. ASSUME NEW k \in 1..Len(lines) PROVE f[k] = Step(f[k - 1], k)
      <3>1. f[k - 1] \in S
        BY <2>1
      <3>2. f[k] = F[k][f[k - 1]]
        BY <1>3 DEF IsFold
      <3> HIDE DEF Step, S
      <3> QED BY <3>1, <3>2
    <2>3. \A k \in 0..Len(lines) : f[k] = Body(f)[k]
      <3> HIDE DEF S
      <3>1. \A k \in 0..Len(lines) : k = 0 \/ k \in 1..Len(lines)
        BY <1>2
      <3> QED BY <2>1, <2>2, <3>1
    <2> HIDE DEF S
    <2> QED BY <2>1, <2>3
  <1>5. G = Body(G)
    <2>1. G = CHOOSE g : g = Body(g)
      BY DEF Rebuilt
    <2> HIDE DEF Body
    <2> QED BY <1>4, <2>1
  <1>6. \A k \in 0..Len(lines) : G[k] = Body(G)[k]
    BY <1>5
  <1>7. \A k \in 1..Len(lines) : k \in 0..Len(lines) /\ k # 0
    BY <1>2
  <1>8. Replay(lines) = G[Len(lines)]
    BY DEF Replay, Rebuilt
  <1>9. G[0] = <<>> /\ \A k \in 1..Len(lines) : G[k] = Step(G[k - 1], k)
    <2> HIDE DEF G
    <2> QED BY <1>2, <1>6, <1>7
  <1> QED BY <1>8, <1>9

\* An empty rollout replays to an empty history.
LEMMA ReplayEmpty == Replay(<<>>) = <<>>
  <1>1. <<>> \in Seq(LogLines) /\ Len(<<>>) = 0
    OBVIOUS
  <1>2. Rebuilt(<<>>)[0] = <<>> /\ Replay(<<>>) = Rebuilt(<<>>)[Len(<<>>)]
    BY <1>1, RebuiltSteps, Zenon
  <1> QED BY <1>1, <1>2

\* The last line is replayed on top of the others.
LEMMA ReplayAppend ==
  ASSUME NEW lines \in Seq(LogLines), NEW l \in LogLines
  PROVE  Replay(Append(lines, l)) = ReplayLine(Replay(lines), l)
  <1> DEFINE a == Append(lines, l)
             G == Rebuilt(lines)
             A == Rebuilt(a)
             T == {k \in Nat : k <= Len(lines) => A[k] = G[k]}
  <1>1. a \in Seq(LogLines) /\ Len(a) = Len(lines) + 1 /\ Len(lines) \in Nat /\ a[Len(lines) + 1] = l
        /\ \A k \in 1..Len(lines) : a[k] = lines[k]
    OBVIOUS
  <1> HIDE DEF a
  <1>2. /\ G[0] = <<>>
        /\ \A k \in 1..Len(lines) : G[k] = ReplayLine(G[k - 1], lines[k])
        /\ Replay(lines) = G[Len(lines)]
    BY RebuiltSteps
  <1>3. /\ A[0] = <<>>
        /\ \A k \in 1..Len(a) : A[k] = ReplayLine(A[k - 1], a[k])
        /\ Replay(a) = A[Len(a)]
    BY <1>1, RebuiltSteps
  <1> HIDE DEF G, A
  <1>4. 0 \in T
    BY <1>2, <1>3
  <1>5. ASSUME NEW k \in Nat, k \in T PROVE k + 1 \in T
    <2> SUFFICES ASSUME k + 1 <= Len(lines) PROVE A[k + 1] = G[k + 1]
      OBVIOUS
    <2>1. k + 1 \in 1..Len(lines) /\ k + 1 \in 1..Len(a) /\ (k + 1) - 1 = k /\ A[k] = G[k]
      BY <1>1, <1>5
    <2> QED BY <1>1, <1>2, <1>3, <2>1
  <1>6. Nat \subseteq T
    <2> HIDE DEF T
    <2> QED BY <1>4, <1>5, SetInduction
  <1>7. A[Len(lines)] = G[Len(lines)]
    BY <1>1, <1>6
  <1>8. Len(a) \in 1..Len(a) /\ Len(a) - 1 = Len(lines)
    BY <1>1
  <1>9. Replay(a) = ReplayLine(A[Len(lines)], l)
    BY <1>1, <1>3, <1>8
  <1> QED BY <1>2, <1>7, <1>9 DEF a

\* A rollout replays to a history.
LEMMA ReplayType ==
  ASSUME NEW lines \in Seq(LogLines)
  PROVE  Replay(lines) \in Seq(Items)
  <1> DEFINE T == {g \in Seq(LogLines) : Replay(g) \in Seq(Items)}
  <1>1. <<>> \in T
    <2>1. <<>> \in Seq(LogLines) /\ <<>> \in Seq(Items)
      OBVIOUS
    <2> QED BY <2>1, ReplayEmpty
  <1>2. ASSUME NEW g \in Seq(LogLines), NEW l \in LogLines, g \in T PROVE Append(g, l) \in T
    <2>1. Append(g, l) \in Seq(LogLines) /\ Replay(g) \in Seq(Items)
      BY <1>2
    <2> QED BY <2>1, ReplayAppend, ReplayLineType
  <1>3. Seq(LogLines) \subseteq T
    <2> HIDE DEF T
    <2> QED BY <1>1, <1>2, SeqInduction
  <1> QED BY <1>3

\* What a line makes of a history depends, for kinds that have the turns and the markers
\* among them, on the items of these kinds alone.
Telling(K) == Boundaries \cup {"marker"} \subseteq K

\* A compaction reads the words and the markers, nothing else.
LEMMA CompactedOfKind ==
  ASSUME NEW g \in Seq(Items), NEW h \in Seq(Items), NEW i, NEW K, Telling(K),
         OfKind(g, K) = OfKind(h, K)
  PROVE  BuildCompactedHistory(g, i) = BuildCompactedHistory(h, i)
  <1> DEFINE M == {"user", "clipped", "marker"}
  <1>1. K \cap M = M
    BY DEF Telling, Boundaries
  <1>2. \A f \in Seq(Items) : OfKind(OfKind(f, K), M) = OfKind(f, M)
    BY <1>1, OfKindTwice
  <1> QED BY <1>2 DEF BuildCompactedHistory, CollectUserMessages

\* Histories that agree on kinds that tell enough agree after any line:
\* the lemma by which replaying may forget the snapshots, and what was cut off.
LEMMA ReplayLineOfKind ==
  ASSUME NEW g \in Seq(Items), NEW h \in Seq(Items), NEW l \in LogLines, NEW K, Telling(K),
         OfKind(g, K) = OfKind(h, K)
  PROVE  OfKind(ReplayLine(g, l), K) = OfKind(ReplayLine(h, l), K)
  <1>1. CASE l.kind = "item"
    <2>1. l.item \in Items
      BY <1>1, LineFields
    <2> DEFINE i == l.item
    <2>2. \A f \in Seq(Items) : OfKind(Append(f, i), K) =
             IF i[1] \in K THEN Append(OfKind(f, K), i) ELSE OfKind(f, K)
      <3>1. i \in Items
        BY <2>1
      <3> HIDE DEF i
      <3> QED BY <3>1, OfKindAppend
    <2>3. \A f : ReplayLine(f, l) = Append(f, l.item)
      BY <1>1, ReplayLineKinds
    <2> QED BY <2>2, <2>3
  <1>2. CASE l.kind = "replaced"
    BY <1>2, LineFields, ReplayLineKinds
  <1>3. CASE l.kind = "compacted"
    BY <1>3, LineFields, ReplayLineKinds, CompactedOfKind
  <1>4. CASE l.kind = "rolledBack"
    <2>1. l.turns \in Nat \ {0}
      BY <1>4, LineFields
    <2>2. \A f \in Seq(Items) : OfKind(DropLastUserTurns(f, l.turns), K) = DropLastUserTurns(OfKind(f, K), l.turns)
      BY <2>1, DropLastOfKind DEF Telling
    <2> QED BY <1>4, <2>2, ReplayLineKinds
  <1> QED BY <1>1, <1>2, <1>3, <1>4, LineFields

----------------------------------------------------------------------------
(* The steps and the invariant, part by part.                              *)

\* The two parts are the type invariant.
LEMMA TypeParts == TypeOK <=> DataOK /\ TasksOK
  BY DEF TypeOK, DataOK, TasksOK

\* The next item is an item, and takes the next number.
LEMMA FreshType ==
  ASSUME DataOK, TakeNumber, NEW kind \in Kinds
  PROVE  Fresh(kind) \in Items /\ Fresh(kind)[1] = kind /\ number' \in 1..(MaxNumber + 1)
  BY BoundAssumption DEF DataOK, TakeNumber, Fresh, Items

\* What is remembered is typed: an item in the history and a line for the rollout.
LEMMA RememberType ==
  ASSUME DataOK, NEW o \in Owners, NEW i \in Items, Remember(o, i)
  PROVE  history' \in Seq(Items) /\ owed' \in [Owners -> Seq(LogLines)]
  <1>1. <<ItemLine(i)>> \in Seq(LogLines)
    BY LineTypes
  <1> HIDE DEF LogLines
  <1> QED BY <1>1 DEF DataOK, Remember

\* What replaces the history is typed, with its line.
LEMMA ReplaceType ==
  ASSUME DataOK, NEW o \in Owners, NEW h \in Seq(Items), NEW l \in LogLines, Replace(o, h, l)
  PROVE  history' \in Seq(Items) /\ owed' \in [Owners -> Seq(LogLines)]
  BY DEF DataOK, Replace

\* Every item is of one of the kinds.
LEMMA KindsOfItems ==
  {"context", "user", "clipped", "reply", "marker", "summary", "packed", "ghost"} \subseteq Kinds
  BY DEF Kinds

\* Every step keeps the types of histories and lines.
LEMMA DataStep ==
  ASSUME DataOK, TasksOK, InTurn, Copies, Next
  PROVE  DataOK'
  <1> USE DEF data, tasks
  <1>e. "loop" \in Owners /\ "turn" \in Owners
    BY DEF Owners
  <1>f. <<>> \in Seq(Items) /\ <<>> \in Seq(LogLines)
    <2> HIDE DEF Items, LogLines
    <2> QED OBVIOUS
  <1>1. ASSUME NEW kind \in TurnKinds, BeginTurn(kind) PROVE DataOK'
    <2>1. history' \in Seq(Items) /\ owed' \in [Owners -> Seq(LogLines)]
      BY <1>1, <1>e, RememberType, ContextIsItem DEF BeginTurn, DataOK
    <2> QED BY <1>1, <2>1 DEF BeginTurn, DataOK
  <1>2. CASE Launch
    BY <1>2 DEF Launch, DataOK
  <1>3. CASE Interrupt
    <2>1. owed' \in [Owners -> Seq(LogLines)]
      BY <1>3, <1>f DEF Interrupt, DataOK
    <2>2. shot' \in Seq(Items)
      BY <1>3, <1>f DEF Interrupt, DataOK
    <2>3. copy' \in [Owners -> Seq(Items)]
      BY <1>3, <1>f DEF Interrupt, DataOK
    <2> QED BY <1>3, <2>1, <2>2, <2>3 DEF Interrupt, DataOK
  <1>4. CASE MarkAborted
    <2>1. Marker \in Items
      BY ContextIsItem, BoundAssumption DEF TasksOK
    <2>2. history' \in Seq(Items) /\ owed' \in [Owners -> Seq(LogLines)]
      BY <1>4, <1>e, <2>1, RememberType DEF MarkAborted
    <2> QED BY <1>4, <2>2 DEF MarkAborted, DataOK
  <1>5. ASSUME NEW n \in 1..MaxRollback, ReadForRollback(n) PROVE DataOK'
    <2>1. copy' \in [Owners -> Seq(Items)]
      BY <1>5 DEF ReadForRollback, DataOK
    <2> QED BY <1>5, <2>1, BoundAssumption DEF ReadForRollback, DataOK, TakeNumber
  <1>6. CASE RollBack
    <2>1. drop \in 1..MaxRollback /\ drop \in Nat \ {0}
      BY <1>6, BoundAssumption DEF RollBack, InTurn, TasksOK
    <2>2. RolledBackLine(drop) \in LogLines
      BY <2>1, LineTypes
    <2>3. copy["loop"] \in Seq(Items)
      BY <1>e DEF DataOK
    <2>4. DropLastUserTurns(copy["loop"], drop) \in Seq(Items)
      BY <2>1, <2>3, DropLastType
    <2>5. history' \in Seq(Items) /\ owed' \in [Owners -> Seq(LogLines)]
      BY <1>6, <1>e, <2>2, <2>4, ReplaceType DEF RollBack
    <2>6. copy' \in [Owners -> Seq(Items)]
      BY <1>6, <1>f DEF RollBack, DataOK
    <2> QED BY <1>6, <2>5, <2>6 DEF RollBack, DataOK
  <1>7. ASSUME NEW o \in Owners, Persist(o) PROVE DataOK'
    <2>1. log' \in Seq(LogLines) /\ owed' \in [Owners -> Seq(LogLines)]
      <3> HIDE DEF LogLines
      <3>1. owed[o] \in Seq(LogLines)
        BY DEF DataOK
      <3>2. log' \in Seq(LogLines)
        BY <1>7, <3>1 DEF Persist, DataOK
      <3> QED BY <1>7, <3>2 DEF Persist, DataOK
    <2> QED BY <1>7, <2>1 DEF Persist, DataOK
  <1>8. CASE TakePrompt
    <2>1. Fresh("user") \in Items /\ number' \in 1..(MaxNumber + 1)
      BY <1>8, FreshType, KindsOfItems DEF TakePrompt
    <2>2. history' \in Seq(Items) /\ owed' \in [Owners -> Seq(LogLines)]
      BY <1>8, <1>e, <2>1, RememberType DEF TakePrompt
    <2> QED BY <1>8, <2>1, <2>2 DEF TakePrompt, DataOK
  <1>9. CASE StartSnapshot
    BY <1>9 DEF StartSnapshot, DataOK
  <1>10. CASE RecordReply
    <2>1. Fresh("reply") \in Items /\ number' \in 1..(MaxNumber + 1)
      BY <1>10, FreshType, KindsOfItems DEF RecordReply
    <2>2. history' \in Seq(Items) /\ owed' \in [Owners -> Seq(LogLines)]
      BY <1>10, <1>e, <2>1, RememberType DEF RecordReply
    <2> QED BY <1>10, <2>1, <2>2 DEF RecordReply, DataOK
  <1>11. CASE EndTurn
    BY <1>11 DEF EndTurn, DataOK
  <1>12. ASSUME NEW way \in {"local", "remote"}, BeginCompaction(way) PROVE DataOK'
    <2>1. copy' \in [Owners -> Seq(Items)]
      BY <1>12 DEF BeginCompaction, DataOK
    <2> QED BY <1>12, <2>1 DEF BeginCompaction, DataOK
  <1>13. CASE DrainReply
    <2>1. Fresh("reply") \in Items /\ number' \in 1..(MaxNumber + 1)
      BY <1>13, FreshType, KindsOfItems DEF DrainReply
    <2>2. history' \in Seq(Items)
      BY <1>13, <2>1 DEF DrainReply, DataOK
    <2> QED BY <1>13, <2>1, <2>2 DEF DrainReply, DataOK
  <1>14. CASE CompactionFails
    <2>1. copy' \in [Owners -> Seq(Items)]
      BY <1>14, <1>f DEF CompactionFails, DataOK
    <2> QED BY <1>14, <2>1 DEF CompactionFails, DataOK
  <1>15. CASE ReadForSummary
    <2>1. copy' \in [Owners -> Seq(Items)]
      BY <1>15 DEF ReadForSummary, DataOK
    <2> QED BY <1>15, <2>1 DEF ReadForSummary, DataOK
  <1>16. CASE Summarise
    <2> DEFINE summary == Fresh("summary")
               new == BuildCompactedHistory(copy["turn"], summary) \o Ghosts(copy["turn"])
    <2>1. summary \in Items /\ number' \in 1..(MaxNumber + 1)
      BY <1>16, FreshType, KindsOfItems DEF Summarise
    <2>2. copy["turn"] \in Seq(Items)
      BY <1>e DEF DataOK
    <2>3. new \in Seq(Items)
      BY <2>1, <2>2, CompactedType, OfKindItems DEF Ghosts
    <2>4. CompactedLine(summary) \in LogLines
      BY <2>1, LineTypes
    <2>5. Replace("turn", new, CompactedLine(summary))
      BY <1>16 DEF Summarise
    <2> HIDE DEF new
    <2>6. history' \in Seq(Items) /\ owed' \in [Owners -> Seq(LogLines)]
      BY <1>e, <2>3, <2>4, <2>5, ReplaceType
    <2>7. copy' \in [Owners -> Seq(Items)]
      BY <1>16, <1>f DEF Summarise, EndCompaction, DataOK
    <2> QED BY <1>16, <2>1, <2>6, <2>7 DEF Summarise, EndCompaction, DataOK
  <1>17. CASE TakeRemote
    <2> DEFINE new == OfKind(copy["turn"], {"user", "clipped"}) \o <<Fresh("packed")>> \o Ghosts(copy["turn"])
    <2>1. Fresh("packed") \in Items /\ number' \in 1..(MaxNumber + 1)
      BY <1>17, FreshType, KindsOfItems DEF TakeRemote
    <2>2. copy["turn"] \in Seq(Items)
      BY <1>e DEF DataOK
    <2>3. new \in Seq(Items)
      BY <2>1, <2>2, OfKindItems DEF Ghosts
    <2>4. ReplacedLine(new) \in LogLines
      BY <2>3, LineTypes
    <2>5. Replace("turn", new, ReplacedLine(new))
      BY <1>17 DEF TakeRemote
    <2> HIDE DEF new
    <2>6. history' \in Seq(Items) /\ owed' \in [Owners -> Seq(LogLines)]
      BY <1>e, <2>3, <2>4, <2>5, ReplaceType
    <2>7. copy' \in [Owners -> Seq(Items)]
      BY <1>17, <1>f DEF TakeRemote, EndCompaction, DataOK
    <2> QED BY <1>17, <2>1, <2>6, <2>7 DEF TakeRemote, EndCompaction, DataOK
  <1>18. CASE ReadForUndo
    <2>1. copy' \in [Owners -> Seq(Items)]
      <3>1. CASE Ghosts(history) = <<>>
        BY <1>18, <1>f, <3>1 DEF ReadForUndo, DataOK
      <3>2. CASE Ghosts(history) # <<>>
        BY <1>18, <3>2 DEF ReadForUndo, DataOK
      <3> QED BY <3>1, <3>2
    <2> QED BY <1>18, <2>1 DEF ReadForUndo, DataOK
  <1>19. CASE Undo
    <2>1. copy["turn"] \in Seq(Items) /\ Ghosts(copy["turn"]) # <<>>
      BY <1>19, <1>e DEF DataOK, Copies, Undo
    <2>2. history' \in Seq(Items)
      BY <1>19, <2>1, LastGhost, RemoveAtItems DEF Undo, DataOK
    <2>3. copy' \in [Owners -> Seq(Items)]
      BY <1>19, <1>f DEF Undo, DataOK
    <2> QED BY <1>19, <2>2, <2>3 DEF Undo, DataOK
  <1>20. CASE Shoot
    <2>1. CASE UNCHANGED <<history, shot, number>>
      BY <1>20, <2>1 DEF Shoot, DataOK
    <2>2. CASE TakeNumber /\ history' = Append(history, Fresh("ghost")) /\ shot' = Append(shot, Fresh("ghost"))
      <3>1. Fresh("ghost") \in Items /\ number' \in 1..(MaxNumber + 1)
        BY <2>2, FreshType, KindsOfItems
      <3>2. history' \in Seq(Items) /\ shot' \in Seq(Items)
        BY <2>2, <3>1 DEF DataOK
      <3> QED BY <1>20, <3>1, <3>2 DEF Shoot, DataOK
    <2> QED BY <1>20, <2>1, <2>2 DEF Shoot
  <1>21. CASE PersistShot
    <2>1. PICK k \in DOMAIN shot : log' = Append(log, ItemLine(shot[k])) /\ shot' = RemoveAt(shot, k)
      BY <1>21 DEF PersistShot
    <2>2. shot[k] \in Items
      BY DEF DataOK
    <2>3. log' \in Seq(LogLines)
      <3>1. ItemLine(shot[k]) \in LogLines
        BY <2>2, LineTypes
      <3> QED BY <2>1, <3>1 DEF DataOK
    <2>4. shot' \in Seq(Items)
      BY <2>1, RemoveAtItems DEF DataOK
    <2> QED BY <1>21, <2>3, <2>4 DEF PersistShot, DataOK
  <1>22. CASE Resume
    <2>1. PICK k \in 1..Len(log) : log' = SubSeq(log, 1, k) /\ history' = Replay(log')
      BY <1>22 DEF Resume
    <2>2. log' \in Seq(LogLines)
      BY <2>1 DEF DataOK
    <2>3. history' \in Seq(Items)
      BY <2>1, <2>2, ReplayType
    <2>4. owed' \in [Owners -> Seq(LogLines)] /\ copy' \in [Owners -> Seq(Items)] /\ shot' \in Seq(Items)
      BY <1>22 DEF Resume
    <2> QED BY <1>22, <2>2, <2>3, <2>4 DEF Resume, DataOK
  <1>23. CASE DropTask
    <2>1. owed' \in [Owners -> Seq(LogLines)] /\ copy' \in [Owners -> Seq(Items)]
      BY <1>23, <1>f DEF DropTask, DataOK
    <2> QED BY <1>23, <2>1 DEF DropTask, DataOK
  <1> QED BY <1>1, <1>2, <1>3, <1>4, <1>5, <1>6, <1>7, <1>8, <1>9, <1>10, <1>11, <1>12, <1>13,
             <1>14, <1>15, <1>16, <1>17, <1>18, <1>19, <1>20, <1>21, <1>22, <1>23, <1>e
             DEF Next, LoopStep, TurnStep, SnapshotStep

\* Every step keeps the count of snapshots: a turn takes one at most.
LEMMA ShotsStep ==
  ASSUME DataOK, TasksOK, Snapshots, InTurn, Next
  PROVE  shooting' + Expected' <= turns'
  <1> USE DEF data, tasks
  <1>e. "loop" \in Owners /\ "turn" \in Owners
    BY DEF Owners
  <1>1. ASSUME NEW kind \in TurnKinds, BeginTurn(kind) PROVE shooting' + Expected' <= turns'
    BY <1>1, BoundAssumption DEF BeginTurn, Remember, Snapshots, Expected, MayShoot, TasksOK, InTurn, TurnKinds
  <1>2. CASE Launch
    BY <1>2, BoundAssumption DEF Launch, Snapshots, Expected, MayShoot, TasksOK, InTurn, TurnKinds
  <1>3. CASE Interrupt
    <2>1. shooting \in Nat /\ shooting' \in Nat /\ shooting' <= shooting
      BY <1>3 DEF Interrupt, TasksOK
    <2>2. turns' = turns /\ turns \in Nat /\ turns' \in Nat
      BY <1>3, BoundAssumption DEF Interrupt, TasksOK
    <2>3. (MayShoot' => MayShoot) /\ loop = "idle" /\ loop' = "marker"
      BY <1>3 DEF Interrupt, MayShoot
    <2>4. shooting + (IF MayShoot THEN 1 ELSE 0) <= turns
      BY <2>3 DEF Snapshots, Expected
    <2> HIDE DEF MayShoot
    <2>5. (MayShoot => shooting + 1 <= turns) /\ shooting <= turns
      BY <2>1, <2>2, <2>4
    <2>6. shooting' <= turns'
      BY <2>1, <2>2, <2>5
    <2>7. ASSUME MayShoot' PROVE shooting' + 1 <= turns'
      <3>1. shooting + 1 <= turns
        BY <2>3, <2>5, <2>7, Zenon
      <3>2. \A a, b, t \in Nat : b <= a /\ a + 1 <= t => b + 1 <= t
        OBVIOUS
      <3> QED BY <2>1, <2>2, <3>1, <3>2, Zenon
    <2> QED BY <2>1, <2>3, <2>6, <2>7 DEF Expected
  <1>4. CASE MarkAborted
    BY <1>4, BoundAssumption DEF MarkAborted, Remember, Snapshots, Expected, MayShoot, TasksOK, InTurn, TurnKinds
  <1>5. ASSUME NEW n \in 1..MaxRollback, ReadForRollback(n) PROVE shooting' + Expected' <= turns'
    BY <1>5, BoundAssumption DEF ReadForRollback, Snapshots, Expected, MayShoot, TasksOK, InTurn, TurnKinds
  <1>6. CASE RollBack
    BY <1>6, BoundAssumption DEF RollBack, Replace, Snapshots, Expected, MayShoot, TasksOK, InTurn, TurnKinds
  <1>7. ASSUME NEW o \in Owners, Persist(o) PROVE shooting' + Expected' <= turns'
    BY <1>7, BoundAssumption DEF Persist, Snapshots, Expected, MayShoot, TasksOK, InTurn, TurnKinds
  <1>8. CASE TakePrompt
    BY <1>8, BoundAssumption DEF TakePrompt, Remember, Snapshots, Expected, MayShoot, TasksOK, InTurn, TurnKinds
  <1>9. CASE StartSnapshot
    <2>1. shooting \in Nat /\ (shooting' = shooting \/ shooting' = shooting + 1)
      BY <1>9 DEF StartSnapshot, TasksOK
    <2>2. turns' = turns /\ turns \in Nat
      BY <1>9, BoundAssumption DEF StartSnapshot, TasksOK
    <2>3. MayShoot /\ ~MayShoot' /\ loop' = loop
      BY <1>9 DEF StartSnapshot, MayShoot
    <2> DEFINE coming == IF loop = "regular" THEN 1 ELSE 0
    <2>4. shooting + coming + 1 <= turns /\ coming \in Nat
      BY <2>1, <2>3 DEF Snapshots, Expected
    <2>5. shooting' + coming <= turns
      <3> HIDE DEF coming
      <3> QED BY <2>1, <2>2, <2>4
    <2> QED BY <2>2, <2>3, <2>5 DEF Expected
  <1>10. CASE RecordReply
    BY <1>10, BoundAssumption DEF RecordReply, Remember, Snapshots, Expected, MayShoot, TasksOK, InTurn, TurnKinds
  <1>11. CASE EndTurn
    BY <1>11, BoundAssumption DEF EndTurn, Snapshots, Expected, MayShoot, TasksOK, InTurn, TurnKinds
  <1>12. ASSUME NEW way \in {"local", "remote"}, BeginCompaction(way) PROVE shooting' + Expected' <= turns'
    BY <1>12, BoundAssumption DEF BeginCompaction, Snapshots, Expected, MayShoot, TasksOK, InTurn, TurnKinds
  <1>13. CASE DrainReply
    BY <1>13, BoundAssumption DEF DrainReply, Snapshots, Expected, MayShoot, TasksOK, InTurn, TurnKinds
  <1>14. CASE CompactionFails
    BY <1>14, BoundAssumption DEF CompactionFails, Snapshots, Expected, MayShoot, TasksOK, InTurn, TurnKinds
  <1>15. CASE ReadForSummary
    BY <1>15, BoundAssumption DEF ReadForSummary, Snapshots, Expected, MayShoot, TasksOK, InTurn, TurnKinds
  <1>16. CASE Summarise
    BY <1>16, BoundAssumption DEF Summarise, EndCompaction, Replace, Snapshots, Expected, MayShoot, TasksOK, InTurn, TurnKinds
  <1>17. CASE TakeRemote
    BY <1>17, BoundAssumption DEF TakeRemote, EndCompaction, Replace, Snapshots, Expected, MayShoot, TasksOK, InTurn, TurnKinds
  <1>18. CASE ReadForUndo
    BY <1>18, BoundAssumption DEF ReadForUndo, Snapshots, Expected, MayShoot, TasksOK, InTurn, TurnKinds
  <1>19. CASE Undo
    BY <1>19, BoundAssumption DEF Undo, Snapshots, Expected, MayShoot, TasksOK, InTurn, TurnKinds
  <1>20. CASE Shoot
    BY <1>20, BoundAssumption DEF Shoot, Snapshots, Expected, MayShoot, TasksOK, InTurn, TurnKinds
  <1>21. CASE PersistShot
    BY <1>21, BoundAssumption DEF PersistShot, Snapshots, Expected, MayShoot, TasksOK, InTurn, TurnKinds
  <1>22. CASE Resume
    BY <1>22, BoundAssumption DEF Resume, Snapshots, Expected, MayShoot, TasksOK, InTurn, TurnKinds
  <1>23. CASE DropTask
    BY <1>23 DEF DropTask, Snapshots, Expected, MayShoot, TasksOK
  <1> QED BY <1>1, <1>2, <1>3, <1>4, <1>5, <1>6, <1>7, <1>8, <1>9, <1>10, <1>11, <1>12, <1>13,
             <1>14, <1>15, <1>16, <1>17, <1>18, <1>19, <1>20, <1>21, <1>22, <1>23, <1>e
             DEF Next, LoopStep, TurnStep, SnapshotStep

\* Every step keeps the types of the program counters.
LEMMA TasksStep ==
  ASSUME DataOK, TasksOK, Snapshots, InTurn, Next
  PROVE  TasksOK'
  <1> USE DEF data, tasks
  <1>e. "loop" \in Owners /\ "turn" \in Owners
    BY DEF Owners
  <1>s. ASSUME turns' \in 0..MaxTurns, shooting' \in Nat PROVE shooting' \in 0..MaxTurns
    <2>1. shooting' + Expected' <= turns'
      BY ShotsStep
    <2>2. Expected' \in {0, 1, 2}
      BY DEF Expected
    <2>3. shooting' \in Nat /\ turns' \in Nat
      BY <1>s, BoundAssumption
    <2>4. \A b, t \in Nat : \A e \in {0, 1, 2} : b + e <= t => b <= t
      OBVIOUS
    <2>5. shooting' <= turns'
      BY <2>1, <2>2, <2>3, <2>4, Zenon
    <2> QED BY <1>s, <2>3, <2>5, BoundAssumption
  <1>1. ASSUME NEW kind \in TurnKinds, BeginTurn(kind) PROVE TasksOK'
    BY <1>1, <1>s, BoundAssumption DEF BeginTurn, Remember, TasksOK, LoopPCs, TurnPCs, TurnKinds
  <1>2. CASE Launch
    BY <1>2, <1>s, BoundAssumption DEF Launch, TasksOK, LoopPCs, TurnPCs, TurnKinds
  <1>3. CASE Interrupt
    <2>1. turns' \in 0..MaxTurns /\ shooting' \in Nat
      BY <1>3, BoundAssumption DEF Interrupt, TasksOK
    <2>2. shooting' \in 0..MaxTurns
      BY <1>s, <2>1
    <2>3. seeded' \in BOOLEAN /\ drained' \in BOOLEAN /\ cut' \in BOOLEAN /\ doomed' \in BOOLEAN
      <3>1. cut' \in BOOLEAN
        BY <1>3, Zenon DEF Interrupt, TasksOK
      <3> QED BY <1>3, <3>1 DEF Interrupt, TasksOK
    <2> QED BY <1>3, <2>1, <2>2, <2>3 DEF Interrupt, TasksOK, LoopPCs, TurnPCs
  <1>4. CASE MarkAborted
    BY <1>4, <1>s, BoundAssumption DEF MarkAborted, Remember, TasksOK, LoopPCs, TurnPCs, TurnKinds
  <1>5. ASSUME NEW n \in 1..MaxRollback, ReadForRollback(n) PROVE TasksOK'
    BY <1>5, <1>s, BoundAssumption DEF ReadForRollback, TasksOK, LoopPCs, TurnPCs, TurnKinds
  <1>6. CASE RollBack
    BY <1>6, <1>s, BoundAssumption DEF RollBack, Replace, TasksOK, LoopPCs, TurnPCs, TurnKinds
  <1>7. ASSUME NEW o \in Owners, Persist(o) PROVE TasksOK'
    BY <1>7, <1>s, BoundAssumption DEF Persist, TasksOK, LoopPCs, TurnPCs, TurnKinds
  <1>8. CASE TakePrompt
    BY <1>8, <1>s, BoundAssumption DEF TakePrompt, Remember, TasksOK, LoopPCs, TurnPCs, TurnKinds
  <1>9. CASE StartSnapshot
    BY <1>9, <1>s, BoundAssumption DEF StartSnapshot, TasksOK, LoopPCs, TurnPCs, TurnKinds
  <1>10. CASE RecordReply
    BY <1>10, <1>s, BoundAssumption DEF RecordReply, Remember, TasksOK, LoopPCs, TurnPCs, TurnKinds
  <1>11. CASE EndTurn
    BY <1>11, <1>s, BoundAssumption DEF EndTurn, TasksOK, LoopPCs, TurnPCs, TurnKinds
  <1>12. ASSUME NEW way \in {"local", "remote"}, BeginCompaction(way) PROVE TasksOK'
    BY <1>12, <1>s, BoundAssumption DEF BeginCompaction, TasksOK, LoopPCs, TurnPCs, TurnKinds
  <1>13. CASE DrainReply
    BY <1>13, <1>s, BoundAssumption DEF DrainReply, TasksOK, LoopPCs, TurnPCs, TurnKinds
  <1>14. CASE CompactionFails
    BY <1>14, <1>s, BoundAssumption DEF CompactionFails, TasksOK, LoopPCs, TurnPCs, TurnKinds
  <1>15. CASE ReadForSummary
    BY <1>15, <1>s, BoundAssumption DEF ReadForSummary, TasksOK, LoopPCs, TurnPCs, TurnKinds
  <1>16. CASE Summarise
    BY <1>16, <1>s, BoundAssumption DEF Summarise, EndCompaction, Replace, TasksOK, LoopPCs, TurnPCs, TurnKinds
  <1>17. CASE TakeRemote
    BY <1>17, <1>s, BoundAssumption DEF TakeRemote, EndCompaction, Replace, TasksOK, LoopPCs, TurnPCs, TurnKinds
  <1>18. CASE ReadForUndo
    BY <1>18, <1>s, BoundAssumption DEF ReadForUndo, TasksOK, LoopPCs, TurnPCs, TurnKinds
  <1>19. CASE Undo
    BY <1>19, <1>s, BoundAssumption DEF Undo, TasksOK, LoopPCs, TurnPCs, TurnKinds
  <1>20. CASE Shoot
    BY <1>20, <1>s, BoundAssumption DEF Shoot, TasksOK, LoopPCs, TurnPCs, TurnKinds
  <1>21. CASE PersistShot
    BY <1>21, <1>s, BoundAssumption DEF PersistShot, TasksOK, LoopPCs, TurnPCs, TurnKinds
  <1>22. CASE Resume
    <2>1. processes' \in 1..MaxProcesses
      BY <1>22, BoundAssumption DEF Resume, TasksOK
    <2>2. drop' \in 0..MaxRollback /\ shooting' \in 0..MaxTurns
      BY <1>22, BoundAssumption DEF Resume
    <2> QED BY <1>22, <2>1, <2>2 DEF Resume, TasksOK, LoopPCs, TurnPCs
  <1>23. CASE DropTask
    BY <1>23, <1>s DEF DropTask, TasksOK, TurnPCs
  <1> QED BY <1>1, <1>2, <1>3, <1>4, <1>5, <1>6, <1>7, <1>8, <1>9, <1>10, <1>11, <1>12, <1>13,
             <1>14, <1>15, <1>16, <1>17, <1>18, <1>19, <1>20, <1>21, <1>22, <1>23, <1>e
             DEF Next, LoopStep, TurnStep, SnapshotStep

\* Every step keeps loop and turn apart, and the line that is owed with whom it belongs to.
LEMMA InTurnStep ==
  ASSUME DataOK, TasksOK, InTurn, Next
  PROVE  InTurn'
  <1> USE DEF data, tasks
  <1>e. "loop" \in Owners /\ "turn" \in Owners
    BY DEF Owners
  <1>n. Len(<<>>) = 0 /\ \A l : Len(<<l>>) = 1 /\ <<l>> # <<>>
    OBVIOUS
  <1>1. ASSUME NEW kind \in TurnKinds, BeginTurn(kind) PROVE InTurn'
    <2>1. CASE UNCHANGED owed
      BY <1>1, <1>e, <1>n, <2>1 DEF BeginTurn, NoTurn, InTurn, Free, TurnKinds, Owners, DataOK, TasksOK
    <2>2. CASE Remember("loop", Context)
      BY <1>1, <1>e, <1>n, <2>2 DEF BeginTurn, NoTurn, Remember, InTurn, Free, TurnKinds, Owners, DataOK, TasksOK
    <2> QED BY <1>1, <2>1, <2>2 DEF BeginTurn
  <1>2. CASE Launch
    BY <1>2, <1>e, <1>n DEF Launch, InTurn, Free, TurnKinds, Owners, DataOK, TasksOK
  <1>3. CASE Interrupt
    <2>1. CASE doomed' = TRUE /\ UNCHANGED <<turn, owed, after, copy>>
      BY <1>3, <1>e, <1>n, <2>1 DEF Interrupt, InTurn, Free, TurnKinds, Owners, DataOK, TasksOK
    <2>2. CASE /\ turn' = "off" /\ owed' = [owed EXCEPT !["turn"] = <<>>]
               /\ after' = "off" /\ copy' = [copy EXCEPT !["turn"] = <<>>]
               /\ UNCHANGED doomed
      BY <1>3, <1>e, <1>n, <2>2 DEF Interrupt, InTurn, Free, TurnKinds, Owners, DataOK, TasksOK
    <2> QED BY <1>3, <2>1, <2>2 DEF Interrupt
  <1>4. CASE MarkAborted
    BY <1>4, <1>e, <1>n DEF MarkAborted, Remember, InTurn, Free, TurnKinds, Owners, DataOK, TasksOK
  <1>5. ASSUME NEW n \in 1..MaxRollback, ReadForRollback(n) PROVE InTurn'
    BY <1>5, <1>e, <1>n DEF ReadForRollback, NoTurn, InTurn, Free, TurnKinds, Owners, DataOK, TasksOK
  <1>6. CASE RollBack
    BY <1>6, <1>e, <1>n DEF RollBack, Replace, InTurn, Free, TurnKinds, Owners, DataOK, TasksOK
  <1>7. ASSUME NEW o \in Owners, Persist(o) PROVE InTurn'
    BY <1>7, <1>e, <1>n DEF Persist, InTurn, Free, TurnKinds, Owners, DataOK, TasksOK
  <1>8. CASE TakePrompt
    BY <1>8, <1>e, <1>n DEF TakePrompt, Remember, InTurn, Free, TurnKinds, Owners, DataOK, TasksOK
  <1>9. CASE StartSnapshot
    BY <1>9, <1>e, <1>n DEF StartSnapshot, InTurn, Free, TurnKinds, Owners, DataOK, TasksOK
  <1>10. CASE RecordReply
    BY <1>10, <1>e, <1>n DEF RecordReply, Remember, InTurn, Free, TurnKinds, Owners, DataOK, TasksOK
  <1>11. CASE EndTurn
    BY <1>11, <1>e, <1>n DEF EndTurn, InTurn, Free, TurnKinds, Owners, DataOK, TasksOK
  <1>12. ASSUME NEW way \in {"local", "remote"}, BeginCompaction(way) PROVE InTurn'
    BY <1>12, <1>e, <1>n DEF BeginCompaction, InTurn, Free, TurnKinds, Owners, DataOK, TasksOK
  <1>13. CASE DrainReply
    BY <1>13, <1>e, <1>n DEF DrainReply, InTurn, Free, TurnKinds, Owners, DataOK, TasksOK
  <1>14. CASE CompactionFails
    BY <1>14, <1>e, <1>n DEF CompactionFails, InTurn, Free, TurnKinds, Owners, DataOK, TasksOK
  <1>15. CASE ReadForSummary
    BY <1>15, <1>e, <1>n DEF ReadForSummary, InTurn, Free, TurnKinds, Owners, DataOK, TasksOK
  <1>16. CASE Summarise
    BY <1>16, <1>e, <1>n DEF Summarise, EndCompaction, Replace, InTurn, Free, TurnKinds, Owners, DataOK, TasksOK
  <1>17. CASE TakeRemote
    BY <1>17, <1>e, <1>n DEF TakeRemote, EndCompaction, Replace, InTurn, Free, TurnKinds, Owners, DataOK, TasksOK
  <1>18. CASE ReadForUndo
    BY <1>18, <1>e, <1>n DEF ReadForUndo, InTurn, Free, TurnKinds, Owners, DataOK, TasksOK
  <1>19. CASE Undo
    BY <1>19, <1>e, <1>n DEF Undo, InTurn, Free, TurnKinds, Owners, DataOK, TasksOK
  <1>20. CASE Shoot
    BY <1>20, <1>e, <1>n DEF Shoot, InTurn, Free, TurnKinds, Owners, DataOK, TasksOK
  <1>21. CASE PersistShot
    BY <1>21, <1>e, <1>n DEF PersistShot, InTurn, Free, TurnKinds, Owners, DataOK, TasksOK
  <1>22. CASE Resume
    BY <1>22, <1>e, <1>n DEF Resume, InTurn, Free, TurnKinds, Owners, DataOK, TasksOK
  <1>23. CASE DropTask
    BY <1>23, <1>e, <1>n DEF DropTask, InTurn, Free, Owners, DataOK, TasksOK
  <1> QED BY <1>1, <1>2, <1>3, <1>4, <1>5, <1>6, <1>7, <1>8, <1>9, <1>10, <1>11, <1>12, <1>13,
             <1>14, <1>15, <1>16, <1>17, <1>18, <1>19, <1>20, <1>21, <1>22, <1>23, <1>e
             DEF Next, LoopStep, TurnStep, SnapshotStep

\* An item is part of the talk unless it is a snapshot.
LEMMA TalkAppend ==
  ASSUME NEW h \in Seq(Items), NEW i \in Items, i[1] = "ghost"
  PROVE  Talk(Append(h, i)) = Talk(h)
  BY OfKindAppend DEF Talk

\* What has no talk is snapshots only.
LEMMA OnlyGhosts ==
  ASSUME NEW h \in Seq(Items), Talk(h) = <<>>, NEW k \in DOMAIN h
  PROVE  h[k] \in Items /\ h[k][1] = "ghost"
  <1>1. Range(Talk(h)) = {i \in Range(h) : i[1] \in Kinds \ {"ghost"}}
    BY OfKindRange DEF Talk
  <1>2. Range(<<>>) = {}
    BY DEF Range
  <1>3. h[k] \in Items /\ h[k] \in Range(h)
    BY DEF Range
  <1>4. h[k][1] \in Kinds
    BY <1>3 DEF Items
  <1> QED BY <1>1, <1>2, <1>3, <1>4

\* What the snapshot task leaves are snapshots.
LEMMA ShotGhostsStep ==
  ASSUME DataOK, Snapshots, Next
  PROVE  (Talk(shot) = <<>>)'
  <1> USE DEF data, tasks
  <1>e. "loop" \in Owners /\ "turn" \in Owners
    BY DEF Owners
  <1>1. ASSUME NEW kind \in TurnKinds, BeginTurn(kind) PROVE (Talk(shot) = <<>>)'
    BY <1>1 DEF BeginTurn, Remember, Snapshots
  <1>2. CASE Launch
    BY <1>2 DEF Launch, Snapshots
  <1>3. CASE Interrupt
    <2>1. Talk(<<>>) = <<>>
      BY OfKindEmpty DEF Talk
    <2> QED BY <1>3, <2>1 DEF Interrupt, Snapshots
  <1>4. CASE MarkAborted
    BY <1>4 DEF MarkAborted, Remember, Snapshots
  <1>5. ASSUME NEW n \in 1..MaxRollback, ReadForRollback(n) PROVE (Talk(shot) = <<>>)'
    BY <1>5 DEF ReadForRollback, Snapshots
  <1>6. CASE RollBack
    BY <1>6 DEF RollBack, Replace, Snapshots
  <1>7. ASSUME NEW o \in Owners, Persist(o) PROVE (Talk(shot) = <<>>)'
    BY <1>7 DEF Persist, Snapshots
  <1>8. CASE TakePrompt
    BY <1>8 DEF TakePrompt, Remember, Snapshots
  <1>9. CASE StartSnapshot
    BY <1>9 DEF StartSnapshot, Snapshots
  <1>10. CASE RecordReply
    BY <1>10 DEF RecordReply, Remember, Snapshots
  <1>11. CASE EndTurn
    BY <1>11 DEF EndTurn, Snapshots
  <1>12. ASSUME NEW way \in {"local", "remote"}, BeginCompaction(way) PROVE (Talk(shot) = <<>>)'
    BY <1>12 DEF BeginCompaction, Snapshots
  <1>13. CASE DrainReply
    BY <1>13 DEF DrainReply, Snapshots
  <1>14. CASE CompactionFails
    BY <1>14 DEF CompactionFails, Snapshots
  <1>15. CASE ReadForSummary
    BY <1>15 DEF ReadForSummary, Snapshots
  <1>16. CASE Summarise
    BY <1>16 DEF Summarise, EndCompaction, Replace, Snapshots
  <1>17. CASE TakeRemote
    BY <1>17 DEF TakeRemote, EndCompaction, Replace, Snapshots
  <1>18. CASE ReadForUndo
    BY <1>18 DEF ReadForUndo, Snapshots
  <1>19. CASE Undo
    BY <1>19 DEF Undo, Snapshots
  <1>20. CASE Shoot
    <2>1. CASE UNCHANGED shot
      BY <2>1 DEF Snapshots
    <2>2. CASE TakeNumber /\ shot' = Append(shot, Fresh("ghost"))
      <3>1. Fresh("ghost") \in Items /\ Fresh("ghost")[1] = "ghost"
        BY <2>2, FreshType, KindsOfItems
      <3>2. Talk(shot') = Talk(shot)
        BY <2>2, <3>1, TalkAppend DEF DataOK
      <3> QED BY <3>2 DEF Snapshots
    <2> QED BY <1>20, <2>1, <2>2 DEF Shoot
  <1>21. CASE PersistShot
    <2>1. PICK k \in DOMAIN shot : shot' = RemoveAt(shot, k)
      BY <1>21 DEF PersistShot
    <2>2. shot[k][1] = "ghost"
      BY OnlyGhosts DEF Snapshots, DataOK
    <2>3. Talk(shot') = Talk(shot)
      BY <2>1, <2>2, RemoveAtItems DEF Talk, DataOK
    <2> QED BY <2>3 DEF Snapshots
  <1>22. CASE Resume
    <2>1. Talk(<<>>) = <<>>
      BY OfKindEmpty DEF Talk
    <2> QED BY <1>22, <2>1 DEF Resume
  <1>23. CASE DropTask
    BY <1>23 DEF DropTask, Snapshots
  <1> QED BY <1>1, <1>2, <1>3, <1>4, <1>5, <1>6, <1>7, <1>8, <1>9, <1>10, <1>11, <1>12, <1>13,
             <1>14, <1>15, <1>16, <1>17, <1>18, <1>19, <1>20, <1>21, <1>22, <1>23, <1>e
             DEF Next, LoopStep, TurnStep, SnapshotStep

\* A copy of the history stays true: whoever copies keeps others from the talk.
LEMMA CopiesStep ==
  ASSUME DataOK, InTurn, Copies, Next
  PROVE  Copies'
  <1> USE DEF data, tasks
  <1>e. "loop" \in Owners /\ "turn" \in Owners
    BY DEF Owners
  <1>1. ASSUME NEW kind \in TurnKinds, BeginTurn(kind) PROVE Copies'
    BY <1>1, <1>e DEF BeginTurn, NoTurn, Remember, Copies, InTurn, TurnKinds, DataOK
  <1>2. CASE Launch
    BY <1>2, <1>e DEF Launch, Copies, InTurn, TurnKinds, DataOK
  <1>3. CASE Interrupt
    BY <1>3, <1>e DEF Interrupt, Copies, InTurn, TurnKinds, DataOK
  <1>4. CASE MarkAborted
    BY <1>4, <1>e DEF MarkAborted, Remember, Copies, InTurn, TurnKinds, DataOK
  <1>5. ASSUME NEW n \in 1..MaxRollback, ReadForRollback(n) PROVE Copies'
    BY <1>5, <1>e DEF ReadForRollback, NoTurn, Copies, InTurn, TurnKinds, DataOK
  <1>6. CASE RollBack
    BY <1>6, <1>e DEF RollBack, Replace, Copies, InTurn, TurnKinds, DataOK
  <1>7. ASSUME NEW o \in Owners, Persist(o) PROVE Copies'
    BY <1>7, <1>e DEF Persist, Copies, InTurn, TurnKinds, DataOK
  <1>8. CASE TakePrompt
    BY <1>8, <1>e DEF TakePrompt, Remember, Copies, InTurn, TurnKinds, DataOK
  <1>9. CASE StartSnapshot
    BY <1>9, <1>e DEF StartSnapshot, Copies, InTurn, TurnKinds, DataOK
  <1>10. CASE RecordReply
    BY <1>10, <1>e DEF RecordReply, Remember, Copies, InTurn, TurnKinds, DataOK
  <1>11. CASE EndTurn
    BY <1>11, <1>e DEF EndTurn, Copies, InTurn, TurnKinds, DataOK
  <1>12. ASSUME NEW way \in {"local", "remote"}, BeginCompaction(way) PROVE Copies'
    BY <1>12, <1>e DEF BeginCompaction, Copies, InTurn, TurnKinds, DataOK
  <1>13. CASE DrainReply
    BY <1>13, <1>e DEF DrainReply, Copies, InTurn, TurnKinds, DataOK
  <1>14. CASE CompactionFails
    BY <1>14, <1>e DEF CompactionFails, Copies, InTurn, TurnKinds, DataOK
  <1>15. CASE ReadForSummary
    BY <1>15, <1>e DEF ReadForSummary, Copies, InTurn, TurnKinds, DataOK
  <1>16. CASE Summarise
    BY <1>16, <1>e DEF Summarise, EndCompaction, Replace, Copies, InTurn, TurnKinds, DataOK
  <1>17. CASE TakeRemote
    BY <1>17, <1>e DEF TakeRemote, EndCompaction, Replace, Copies, InTurn, TurnKinds, DataOK
  <1>18. CASE ReadForUndo
    BY <1>18, <1>e DEF ReadForUndo, Copies, InTurn, TurnKinds, DataOK
  <1>19. CASE Undo
    BY <1>19, <1>e DEF Undo, Copies, InTurn, TurnKinds, DataOK
  <1>20. CASE Shoot
    <2>1. CASE UNCHANGED history
      BY <1>20, <2>1 DEF Shoot, Copies
    <2>2. CASE TakeNumber /\ history' = Append(history, Fresh("ghost"))
      <3>1. Fresh("ghost") \in Items /\ Fresh("ghost")[1] = "ghost"
        BY <2>2, FreshType, KindsOfItems
      <3>2. Talk(history') = Talk(history)
        BY <2>2, <3>1, TalkAppend DEF DataOK
      <3> QED BY <1>20, <3>2 DEF Shoot, Copies
    <2> QED BY <1>20, <2>1, <2>2 DEF Shoot
  <1>21. CASE PersistShot
    BY <1>21, <1>e DEF PersistShot, Copies, InTurn, TurnKinds, DataOK
  <1>22. CASE Resume
    BY <1>22, <1>e DEF Resume, Copies, InTurn, TurnKinds, DataOK
  <1>23. CASE DropTask
    BY <1>23, <1>e DEF DropTask, Copies, InTurn, DataOK
  <1> QED BY <1>1, <1>2, <1>3, <1>4, <1>5, <1>6, <1>7, <1>8, <1>9, <1>10, <1>11, <1>12, <1>13,
             <1>14, <1>15, <1>16, <1>17, <1>18, <1>19, <1>20, <1>21, <1>22, <1>23, <1>e
             DEF Next, LoopStep, TurnStep, SnapshotStep

----------------------------------------------------------------------------
\* The lines that the session writes are proper.
LEMMA ProperLines ==
  /\ Proper(<<>>)
  /\ \A l \in LogLines : ProperLine(l) => Proper(<<l>>)
  /\ \A a, b \in Seq(LogLines) : Proper(a) /\ Proper(b) => Proper(a \o b)
  /\ \A a \in Seq(LogLines) : \A k \in 1..Len(a) : Proper(a) => Proper(SubSeq(a, 1, k))
  <1>1. Proper(<<>>)
    BY DEF Proper
  <1>2. ASSUME NEW l \in LogLines, ProperLine(l) PROVE Proper(<<l>>)
    BY <1>2 DEF Proper
  <1>3. ASSUME NEW a \in Seq(LogLines), NEW b \in Seq(LogLines), Proper(a), Proper(b)
        PROVE  Proper(a \o b)
    <2> SUFFICES ASSUME NEW k \in DOMAIN (a \o b) PROVE ProperLine((a \o b)[k])
      BY DEF Proper
    <2>1. CASE k \in DOMAIN a
      <3>1. (a \o b)[k] = a[k]
        BY <2>1
      <3> QED BY <1>3, <2>1, <3>1 DEF Proper
    <2>2. CASE k \notin DOMAIN a
      <3>1. (a \o b)[k] = b[k - Len(a)] /\ k - Len(a) \in DOMAIN b
        BY <2>2
      <3> QED BY <1>3, <3>1 DEF Proper
    <2> QED BY <2>1, <2>2
  <1>4. ASSUME NEW a \in Seq(LogLines), NEW k \in 1..Len(a), Proper(a) PROVE Proper(SubSeq(a, 1, k))
    <2>1. \A j \in DOMAIN SubSeq(a, 1, k) : j \in DOMAIN a /\ SubSeq(a, 1, k)[j] = a[j]
      OBVIOUS
    <2> QED BY <1>4, <2>1 DEF Proper
  <1> QED BY <1>1, <1>2, <1>3, <1>4

\* What is remembered is a proper line.
LEMMA RememberProper ==
  ASSUME DataOK, NEW o \in Owners, NEW i \in Items, i[1] \notin {"summary", "clipped"}, Remember(o, i), LogProper, log' = log
  PROVE  LogProper'
  <1>1. ItemLine(i) \in LogLines /\ ProperLine(ItemLine(i))
    BY LineTypes DEF ItemLine, ProperLine
  <1>2. Proper(<<ItemLine(i)>>)
    BY <1>1, ProperLines
  <1>3. owed' = [owed EXCEPT ![o] = <<ItemLine(i)>>]
    BY DEF Remember
  <1> QED BY <1>2, <1>3 DEF LogProper, DataOK

\* What replaces the history is a proper line.
LEMMA ReplaceProper ==
  ASSUME DataOK, NEW o \in Owners, NEW h, NEW l \in LogLines, ProperLine(l), Replace(o, h, l), LogProper, log' = log
  PROVE  LogProper'
  <1>2. Proper(<<l>>)
    BY ProperLines
  <1>3. owed' = [owed EXCEPT ![o] = <<l>>]
    BY DEF Replace
  <1> QED BY <1>2, <1>3 DEF LogProper, DataOK

\* Every step keeps the lines proper, in the rollout and on their way there.
LEMMA LogProperStep ==
  ASSUME DataOK, TasksOK, InTurn, Snapshots, Copies, LogProper, Next
  PROVE  LogProper'
  <1> USE DEF data, tasks
  <1>e. "loop" \in Owners /\ "turn" \in Owners
    BY DEF Owners
  <1>1. ASSUME NEW kind \in TurnKinds, BeginTurn(kind) PROVE LogProper'
    <2>1. CASE UNCHANGED owed
      BY <1>1, <2>1 DEF BeginTurn, LogProper
    <2>2. CASE Remember("loop", Context)
      BY <1>1, <1>e, <2>2, RememberProper, ContextIsItem DEF BeginTurn, Context
    <2> QED BY <1>1, <2>1, <2>2 DEF BeginTurn
  <1>2. CASE Launch
    BY <1>2 DEF Launch, LogProper
  <1>3. CASE Interrupt
    BY <1>3, ProperLines DEF Interrupt, LogProper, DataOK
  <1>4. CASE MarkAborted
    <2>1. Marker \in Items /\ Marker[1] \notin {"summary", "clipped"}
      BY ContextIsItem, BoundAssumption DEF TasksOK, Marker
    <2> QED BY <1>4, <1>e, <2>1, RememberProper DEF MarkAborted
  <1>5. ASSUME NEW n \in 1..MaxRollback, ReadForRollback(n) PROVE LogProper'
    BY <1>5 DEF ReadForRollback, LogProper
  <1>6. CASE RollBack
    <2>1. drop \in 1..MaxRollback
      BY <1>6, BoundAssumption DEF RollBack, InTurn, TasksOK
    <2>2. RolledBackLine(drop) \in LogLines /\ ProperLine(RolledBackLine(drop))
      BY <2>1, LineTypes DEF RolledBackLine, ProperLine
    <2> QED BY <1>6, <1>e, <2>2, ReplaceProper DEF RollBack
  <1>7. ASSUME NEW o \in Owners, Persist(o) PROVE LogProper'
    <2>1. Proper(log') /\ owed' = [owed EXCEPT ![o] = <<>>]
      BY <1>7, ProperLines DEF Persist, LogProper, DataOK
    <2> QED BY <2>1, ProperLines DEF LogProper, DataOK
  <1>8. CASE TakePrompt
    <2>1. Fresh("user") \in Items /\ Fresh("user")[1] = "user"
      BY <1>8, FreshType, KindsOfItems DEF TakePrompt
    <2> QED BY <1>8, <1>e, <2>1, RememberProper DEF TakePrompt
  <1>9. CASE StartSnapshot
    BY <1>9 DEF StartSnapshot, LogProper
  <1>10. CASE RecordReply
    <2>1. Fresh("reply") \in Items /\ Fresh("reply")[1] = "reply"
      BY <1>10, FreshType, KindsOfItems DEF RecordReply
    <2> QED BY <1>10, <1>e, <2>1, RememberProper DEF RecordReply
  <1>11. CASE EndTurn
    BY <1>11 DEF EndTurn, LogProper
  <1>12. ASSUME NEW way \in {"local", "remote"}, BeginCompaction(way) PROVE LogProper'
    BY <1>12 DEF BeginCompaction, LogProper
  <1>13. CASE DrainReply
    BY <1>13 DEF DrainReply, LogProper
  <1>14. CASE CompactionFails
    BY <1>14 DEF CompactionFails, LogProper
  <1>15. CASE ReadForSummary
    BY <1>15 DEF ReadForSummary, LogProper
  <1>16. CASE Summarise
    <2>1. Fresh("summary") \in Items /\ Fresh("summary")[1] = "summary"
      BY <1>16, FreshType, KindsOfItems DEF Summarise
    <2>2. CompactedLine(Fresh("summary")) \in LogLines /\ ProperLine(CompactedLine(Fresh("summary")))
      BY <2>1, LineTypes DEF CompactedLine, ProperLine
    <2>3. log' = log /\ \E h : Replace("turn", h, CompactedLine(Fresh("summary")))
      BY <1>16 DEF Summarise, EndCompaction
    <2> QED BY <1>e, <2>2, <2>3, ReplaceProper
  <1>17. CASE TakeRemote
    <2> DEFINE new == OfKind(copy["turn"], {"user", "clipped"}) \o <<Fresh("packed")>> \o Ghosts(copy["turn"])
    <2>1. Fresh("packed") \in Items /\ copy["turn"] \in Seq(Items)
      BY <1>17, <1>e, FreshType, KindsOfItems DEF TakeRemote, DataOK
    <2>2. new \in Seq(Items)
      BY <2>1, OfKindItems DEF Ghosts
    <2>3. ReplacedLine(new) \in LogLines /\ ProperLine(ReplacedLine(new))
      BY <2>2, LineTypes DEF ReplacedLine, ProperLine
    <2>4. log' = log /\ Replace("turn", new, ReplacedLine(new))
      BY <1>17 DEF TakeRemote, EndCompaction
    <2> HIDE DEF new
    <2> QED BY <1>e, <2>3, <2>4, ReplaceProper
  <1>18. CASE ReadForUndo
    BY <1>18 DEF ReadForUndo, LogProper
  <1>19. CASE Undo
    BY <1>19 DEF Undo, LogProper
  <1>20. CASE Shoot
    BY <1>20 DEF Shoot, LogProper
  <1>21. CASE PersistShot
    <2>1. PICK k \in DOMAIN shot : log' = Append(log, ItemLine(shot[k]))
      BY <1>21 DEF PersistShot
    <2>2. shot[k] \in Items /\ shot[k][1] = "ghost"
      BY OnlyGhosts DEF Snapshots, DataOK
    <2> DEFINE l == ItemLine(shot[k])
    <2>3. l \in LogLines /\ ProperLine(l)
      BY <2>2, LineTypes DEF ItemLine, ProperLine
    <2> HIDE DEF l
    <2>4. Proper(<<l>>) /\ log' = log \o <<l>>
      BY <2>1, <2>3, ProperLines DEF DataOK, l
    <2>5. Proper(log')
      <3>1. <<l>> \in Seq(LogLines) /\ log \in Seq(LogLines) /\ Proper(log)
        BY <2>3 DEF DataOK, LogProper
      <3> QED BY <2>4, <3>1, ProperLines
    <2> QED BY <1>21, <2>5 DEF LogProper, PersistShot
  <1>22. CASE Resume
    <2>1. PICK k \in 1..Len(log) : log' = SubSeq(log, 1, k)
      BY <1>22 DEF Resume
    <2> QED BY <1>22, <2>1, ProperLines DEF Resume, LogProper, DataOK
  <1>23. CASE DropTask
    BY <1>23, ProperLines DEF DropTask, LogProper, DataOK
  <1> QED BY <1>1, <1>2, <1>3, <1>4, <1>5, <1>6, <1>7, <1>8, <1>9, <1>10, <1>11, <1>12, <1>13,
             <1>14, <1>15, <1>16, <1>17, <1>18, <1>19, <1>20, <1>21, <1>22, <1>23, <1>e
             DEF Next, LoopStep, TurnStep, SnapshotStep

\* What both tell is enough to replay lines.
LEMMA ToldKinds == Telling(Told) /\ Told \subseteq Kinds \ {"ghost"}
  BY DEF Telling, Told, Boundaries, Kinds

\* The same talk is the same of what both tell.
LEMMA TalkTold ==
  ASSUME NEW g \in Seq(Items), NEW h \in Seq(Items), Talk(g) = Talk(h)
  PROVE  OfKind(g, Told) = OfKind(h, Told)
  <1>1. (Kinds \ {"ghost"}) \cap Told = Told
    BY ToldKinds
  <1>2. \A f \in Seq(Items) : OfKind(Talk(f), Told) = OfKind(f, Told)
    BY <1>1, OfKindTwice DEF Talk
  <1> QED BY <1>2

\* What is owed, and what replays, when nothing is owed and then one line.
LEMMA OwedNothing ==
  ASSUME DataOK, Free("loop"), Free("turn")
  PROVE  Owed = <<>> /\ log \o Owed = log
  <1>1. Owed = <<>>
    BY DEF Owed, Free
  <1> QED BY <1>1 DEF DataOK

\* With a line of the owner, that line replays last.
LEMMA OwedLine ==
  ASSUME DataOK, Free("loop"), Free("turn"), NEW o \in Owners, NEW l \in LogLines,
         owed' = [owed EXCEPT ![o] = <<l>>], log' = log
  PROVE  Replay(log' \o Owed') = ReplayLine(Replay(log), l)
  <1>1. Owed' = <<l>>
    <2>1. CASE o = "loop"
      <3>1. owed'["loop"] = <<l>> /\ owed'["turn"] = <<>>
        BY <2>1 DEF DataOK, Free, Owners
      <3>2. Owed' = <<l>> \o <<>>
        BY <3>1 DEF Owed
      <3> QED BY <3>2
    <2>2. CASE o = "turn"
      <3>1. owed'["turn"] = <<l>> /\ owed'["loop"] = <<>>
        BY <2>2 DEF DataOK, Free, Owners
      <3>2. Owed' = <<>> \o <<l>>
        BY <3>1 DEF Owed
      <3> QED BY <3>2
    <2> QED BY <2>1, <2>2 DEF Owners
  <1>2. log' \o Owed' = Append(log, l)
    BY <1>1 DEF DataOK
  <1> QED BY <1>2, ReplayAppend DEF DataOK

\* An item that is remembered replays as it is in the history.
LEMMA RememberReplays ==
  ASSUME DataOK, Replays, Free("loop"), Free("turn"), NEW o \in Owners, NEW i \in Items,
         Remember(o, i), log' = log, drained' = drained, cut' = cut
  PROVE  Replays'
  <1> DEFINE l == ItemLine(i)
  <1>1. l \in LogLines /\ l.kind = "item" /\ l.item = i
    BY LineTypes DEF ItemLine
  <1>2. owed' = [owed EXCEPT ![o] = <<l>>] /\ history' = Append(history, i)
    BY DEF Remember
  <1> HIDE DEF l
  <1>3. Replay(log' \o Owed') = Append(Replay(log), i)
    BY <1>1, <1>2, OwedLine, ReplayLineKinds
  <1>4. Told' = Told
    BY DEF Told
  <1>5. Replay(log) \in Seq(Items) /\ history \in Seq(Items)
    BY ReplayType DEF DataOK
  <1>6. \A f \in Seq(Items) : OfKind(Append(f, i), Told) =
           IF i[1] \in Told THEN Append(OfKind(f, Told), i) ELSE OfKind(f, Told)
    BY OfKindAppend
  <1>7. ~cut => OfKind(Replay(log), Told) = OfKind(history, Told)
    BY OwedNothing DEF Replays
  <1>8. ~cut => OfKind(Append(Replay(log), i), Told) = OfKind(Append(history, i), Told)
    BY <1>5, <1>6, <1>7
  <1> QED BY <1>2, <1>3, <1>4, <1>8 DEF Replays

\* An undo leaves the history, or its copy without a snapshot.
LEMMA UndoCopy ==
  ASSUME DataOK, Copies, Undo
  PROVE  history' = history \/ (history' \in Seq(Items) /\ Talk(history') = Talk(copy["turn"]))
  <1> DEFINE read == copy["turn"]
  <1>1. read \in Seq(Items) /\ history \in Seq(Items)
    BY DEF DataOK, Owners
  <1>2. Ghosts(read) # <<>>
    BY DEF Undo, Copies
  <1>3. CASE UNCHANGED history
    BY <1>3
  <1>4. CASE \E k \in DOMAIN read : read[k][1] = "ghost" /\ history' = RemoveAt(read, k)
    <2>1. PICK k \in DOMAIN read : read[k][1] = "ghost" /\ history' = RemoveAt(read, k)
      BY <1>4
    <2> HIDE DEF read
    <2>2. history' \in Seq(Items) /\ Talk(history') = Talk(read)
      BY <1>1, <2>1, RemoveAtItems DEF Talk
    <2> QED BY <2>2 DEF read
  <1>5. \/ UNCHANGED history
        \/ \E k \in DOMAIN read : read[k][1] = "ghost" /\ history' = RemoveAt(read, k)
    BY <1>1, <1>2, LastGhost DEF Undo
  <1> QED BY <1>3, <1>4, <1>5

\* An undo takes a snapshot out of the history and leaves the talk.
LEMMA UndoTalk ==
  ASSUME DataOK, Copies, Undo, ~doomed
  PROVE  Talk(history') = Talk(history) /\ history' \in Seq(Items)
  <1>1. Talk(copy["turn"]) = Talk(history)
    BY DEF Undo, Copies
  <1>2. history \in Seq(Items)
    BY DEF DataOK
  <1> QED BY <1>1, <1>2, UndoCopy

\* The words and the talk of a compacted history.
LEMMA SummariseReplays ==
  ASSUME DataOK, InTurn, Copies, Replays, Summarise
  PROVE  Replays'
  <1> SUFFICES ASSUME ~cut PROVE Replays'
    BY DEF Summarise, EndCompaction, Replays
  <1>a. ~doomed
    BY DEF InTurn
  <1> DEFINE read == copy["turn"]
             s == Fresh("summary")
             l == CompactedLine(s)
             rebuilt == BuildCompactedHistory(read, s)
             new == rebuilt \o Ghosts(read)
  <1>1. read \in Seq(Items) /\ history \in Seq(Items) /\ Talk(read) = Talk(history)
    BY <1>a DEF DataOK, Owners, Summarise, Copies
  <1>2. s \in Items
    BY FreshType, KindsOfItems DEF Summarise
  <1>3. l \in LogLines /\ l.kind = "compacted" /\ l.item = s
    BY <1>2, LineTypes DEF CompactedLine
  <1>4. Free("loop") /\ Free("turn") /\ log' = log /\ ~drained' /\ cut' = cut
    BY <1>a DEF Summarise, EndCompaction, Replace, InTurn
  <1>5. history' = new /\ owed' = [owed EXCEPT !["turn"] = <<l>>]
    BY DEF Summarise, Replace
  <1>6. rebuilt \in Seq(Items) /\ Ghosts(read) \in Seq(Items)
    BY <1>1, <1>2, CompactedType, OfKindItems DEF Ghosts
  <1>7. Replay(log) \in Seq(Items)
    BY ReplayType DEF DataOK
  <1> HIDE DEF read, s, l
  <1>8. Replay(log' \o Owed') = BuildCompactedHistory(Replay(log), s)
    BY <1>3, <1>4, <1>5, OwedLine, ReplayLineKinds DEF Owners
  <1>9. ASSUME ~cut PROVE BuildCompactedHistory(Replay(log), s) = rebuilt
    <2>1. OfKind(Replay(log), Told) = OfKind(history, Told)
      BY <1>4, <1>9, OwedNothing DEF Replays
    <2>2. OfKind(read, Told) = OfKind(history, Told)
      BY <1>1, TalkTold
    <2> QED BY <1>1, <1>7, <2>1, <2>2, ToldKinds, CompactedOfKind
  <1>10. OfKind(new, Told') = OfKind(rebuilt, Told')
    <2>1. {"ghost"} \cap Told' = {}
      BY <1>4 DEF Told
    <2>2. OfKind(Ghosts(read), Told') = OfKind(read, {})
      BY <1>1, <2>1, OfKindTwice DEF Ghosts
    <2>3. OfKind(read, {}) = <<>>
      BY <1>1, OfKindNone
    <2>4. OfKind(new, Told') = OfKind(rebuilt, Told') \o OfKind(Ghosts(read), Told')
      <3> HIDE DEF rebuilt
      <3> QED BY <1>6, OfKindConcat
    <2>5. OfKind(rebuilt, Told') \in Seq(Items)
      BY <1>6, OfKindItems
    <2> HIDE DEF rebuilt, new
    <2> QED BY <2>2, <2>3, <2>4, <2>5
  <1> HIDE DEF rebuilt, new
  <1> QED BY <1>4, <1>5, <1>8, <1>9, <1>10 DEF Replays

\* A remote compaction replaces the history by what the line carries.
LEMMA TakeRemoteReplays ==
  ASSUME DataOK, InTurn, Replays, TakeRemote
  PROVE  Replays'
  <1> SUFFICES ASSUME ~cut PROVE Replays'
    BY DEF TakeRemote, EndCompaction, Replays
  <1>a. ~doomed
    BY DEF InTurn
  <1> DEFINE new == OfKind(copy["turn"], {"user", "clipped"}) \o <<Fresh("packed")>> \o Ghosts(copy["turn"])
             l == ReplacedLine(new)
  <1>1. copy["turn"] \in Seq(Items)
    BY DEF DataOK, Owners
  <1>2. Fresh("packed") \in Items
    BY FreshType, KindsOfItems DEF TakeRemote
  <1>3. new \in Seq(Items)
    BY <1>1, <1>2, OfKindItems DEF Ghosts
  <1>4. l \in LogLines /\ l.kind = "replaced" /\ l.items = new
    BY <1>3, LineTypes DEF ReplacedLine
  <1>5. Free("loop") /\ Free("turn") /\ log' = log
    BY <1>a DEF TakeRemote, EndCompaction, Replace, InTurn
  <1>6. history' = new /\ owed' = [owed EXCEPT !["turn"] = <<l>>]
    BY DEF TakeRemote, Replace
  <1> HIDE DEF new, l
  <1>7. Replay(log' \o Owed') = new
    BY <1>4, <1>5, <1>6, OwedLine, ReplayLineKinds DEF Owners
  <1> QED BY <1>6, <1>7 DEF Replays

\* A rollback in memory drops the turns that its line drops in the replay.
LEMMA RollBackReplays ==
  ASSUME DataOK, TasksOK, InTurn, Copies, Replays, RollBack
  PROVE  Replays'
  <1> SUFFICES ASSUME ~cut PROVE Replays'
    BY DEF RollBack, Replays
  <1>a. ~doomed
    BY DEF InTurn
  <1> DEFINE read == copy["loop"]
             l == RolledBackLine(drop)
  <1>1. read \in Seq(Items) /\ history \in Seq(Items) /\ Talk(read) = Talk(history)
    BY DEF DataOK, Owners, RollBack, Copies
  <1>2. drop \in 1..MaxRollback /\ drop \in Nat \ {0}
    BY BoundAssumption DEF RollBack, InTurn, TasksOK
  <1>3. l \in LogLines /\ l.kind = "rolledBack" /\ l.turns = drop
    BY <1>2, LineTypes DEF RolledBackLine
  <1>4. Free("loop") /\ Free("turn") /\ log' = log /\ drained' = drained /\ cut' = cut
    BY <1>a DEF RollBack, Replace, InTurn
  <1>5. history' = DropLastUserTurns(read, drop) /\ owed' = [owed EXCEPT !["loop"] = <<l>>]
    BY DEF RollBack, Replace
  <1>6. Replay(log) \in Seq(Items)
    BY ReplayType DEF DataOK
  <1> HIDE DEF read, l
  <1>7. Replay(log' \o Owed') = DropLastUserTurns(Replay(log), drop)
    BY <1>3, <1>4, <1>5, OwedLine, ReplayLineKinds DEF Owners
  <1>8. Told' = Told
    BY <1>4 DEF Told
  <1>9. \A f \in Seq(Items) : OfKind(DropLastUserTurns(f, drop), Told) = DropLastUserTurns(OfKind(f, Told), drop)
    BY <1>2, ToldKinds, DropLastOfKind DEF Telling
  <1>10. ~cut => OfKind(Replay(log), Told) = OfKind(history, Told)
    BY <1>4, OwedNothing DEF Replays
  <1>11. OfKind(read, Told) = OfKind(history, Told)
    BY <1>1, TalkTold
  <1> QED BY <1>1, <1>4, <1>5, <1>6, <1>7, <1>8, <1>9, <1>10, <1>11 DEF Replays

\* The answer of a compaction that goes on or fails is in memory only: both tell the same
\* without replies.
LEMMA DrainReplays ==
  ASSUME DataOK, Replays, DrainReply
  PROVE  Replays'
  <1> DEFINE i == Fresh("reply")
  <1>1. i \in Items /\ i[1] = "reply"
    BY FreshType, KindsOfItems DEF DrainReply
  <1>2. history' = Append(history, i) /\ drained' /\ UNCHANGED <<log, owed, cut>>
    BY DEF DrainReply, tasks
  <1>3. Told' \subseteq Told /\ "reply" \notin Told'
    BY <1>2 DEF Told
  <1>4. history \in Seq(Items) /\ log \o Owed \in Seq(LogLines)
    BY DEF DataOK, Owed, Owners
  <1>5. Replay(log \o Owed) \in Seq(Items)
    BY <1>4, ReplayType
  <1> HIDE DEF i
  <1>6. OfKind(history', Told') = OfKind(history, Told')
    BY <1>1, <1>2, <1>3, <1>4, OfKindAppend
  <1>7. Told \cap Told' = Told'
    BY <1>3
  <1>8. \A f \in Seq(Items) : OfKind(OfKind(f, Told), Told') = OfKind(f, Told')
    BY <1>7, OfKindTwice
  <1>9. ~cut => OfKind(Replay(log \o Owed), Told') = OfKind(history, Told')
    BY <1>4, <1>5, <1>8 DEF Replays
  <1>10. log' \o Owed' = log \o Owed
    BY <1>2 DEF Owed
  <1> QED BY <1>2, <1>6, <1>9, <1>10 DEF Replays

\* The same talk replays as well.
LEMMA TalkReplays ==
  ASSUME DataOK, history' \in Seq(Items), Replays, Talk(history') = Talk(history),
         UNCHANGED <<log, owed, drained, cut>>
  PROVE  Replays'
  <1>1. history \in Seq(Items)
    BY DEF DataOK
  <1>2. OfKind(history', Told) = OfKind(history, Told)
    BY <1>1, TalkTold
  <1>3. Told' = Told /\ Owed' = Owed
    BY DEF Told, Owed
  <1> QED BY <1>2, <1>3 DEF Replays

\* A line that is persisted goes from the owed to the rollout.
LEMMA PersistReplays ==
  ASSUME DataOK, InTurn, Replays, NEW o \in Owners, Persist(o)
  PROVE  Replays'
  <1> SUFFICES ASSUME ~cut PROVE Replays'
    BY DEF Persist, Replays
  <1>a. ~doomed
    BY DEF InTurn
  <1>1. log \in Seq(LogLines) /\ owed["loop"] \in Seq(LogLines) /\ owed["turn"] \in Seq(LogLines)
    BY DEF DataOK, Owners
  <1>2. log' \o Owed' = log \o Owed
    <2>1. CASE o = "loop"
      <3>1. log' = log \o owed["loop"] /\ owed'["loop"] = <<>> /\ owed'["turn"] = owed["turn"]
        BY <2>1 DEF Persist, DataOK, Owners
      <3>2. Owed' = owed["turn"]
        BY <1>1, <3>1 DEF Owed
      <3>3. (log \o owed["loop"]) \o owed["turn"] = log \o (owed["loop"] \o owed["turn"])
        <4>1. ASSUME NEW a \in Seq(LogLines), NEW b \in Seq(LogLines), NEW c \in Seq(LogLines)
              PROVE  (a \o b) \o c = a \o (b \o c)
          OBVIOUS
        <4> QED BY <1>1, <4>1
      <3> QED BY <3>1, <3>2, <3>3 DEF Owed
    <2>2. CASE o = "turn"
      <3>1. log' = log \o owed["turn"] /\ owed'["turn"] = <<>> /\ owed'["loop"] = owed["loop"]
        BY <2>2 DEF Persist, DataOK, Owners
      <3>2. owed["loop"] = <<>>
        BY <1>a, <2>2 DEF Persist, InTurn, Free
      <3>3. Owed' = <<>> /\ Owed = owed["turn"]
        BY <1>1, <3>1, <3>2 DEF Owed
      <3>4. log' \in Seq(LogLines)
        BY <1>1, <3>1
      <3> QED BY <3>1, <3>3, <3>4
    <2> QED BY <2>1, <2>2 DEF Owners
  <1>3. UNCHANGED <<history, drained, cut>>
    BY DEF Persist
  <1>4. Told' = Told
    BY <1>3 DEF Told
  <1> QED BY <1>2, <1>3, <1>4 DEF Replays

\* A snapshot that is persisted late changes nothing that both tell.
LEMMA PersistShotReplays ==
  ASSUME DataOK, InTurn, Snapshots, Replays, PersistShot
  PROVE  Replays'
  <1> SUFFICES ASSUME ~cut PROVE Replays'
    BY DEF PersistShot, Replays
  <1>a. ~doomed
    BY DEF InTurn
  <1>1. PICK k \in DOMAIN shot : log' = Append(log, ItemLine(shot[k]))
    BY DEF PersistShot
  <1> DEFINE i == shot[k]
             g == ItemLine(i)
  <1>2. i \in Items /\ i[1] = "ghost"
    BY OnlyGhosts DEF Snapshots, DataOK
  <1>3. g \in LogLines /\ g.kind = "item" /\ g.item = i
    BY <1>2, LineTypes DEF ItemLine
  <1>4. UNCHANGED <<history, owed, drained, cut>>
    BY DEF PersistShot
  <1>5. log \in Seq(LogLines) /\ log' = Append(log, g)
    BY <1>1 DEF DataOK
  <1> HIDE DEF i, g
  <1>6. Replay(log) \in Seq(Items) /\ Replay(log') = Append(Replay(log), i)
    BY <1>3, <1>5, ReplayAppend, ReplayType, ReplayLineKinds
  <1>7. OfKind(Replay(log'), Told) = OfKind(Replay(log), Told)
    BY <1>2, <1>6, ToldKinds, OfKindAppend
  <1>8. Owed = <<>> \/ \E l \in LogLines : Owed = <<l>>
    <2>1. /\ owed["loop"] \in Seq(LogLines) /\ Len(owed["loop"]) <= 1
          /\ owed["turn"] \in Seq(LogLines) /\ Len(owed["turn"]) <= 1
          /\ owed["loop"] = <<>> \/ owed["turn"] = <<>>
      BY <1>a DEF DataOK, InTurn, Owners, Free
    <2>2. \A s \in Seq(LogLines) : Len(s) <= 1 => s = <<>> \/ \E l \in LogLines : s = <<l>>
      BY ShortSeq
    <2>3. Owed = owed["loop"] \/ Owed = owed["turn"]
      BY <2>1, Concatenation DEF Owed
    <2> QED BY <2>1, <2>2, <2>3
  <1>9. OfKind(Replay(log' \o Owed), Told) = OfKind(Replay(log \o Owed), Told)
    <2>1. CASE Owed = <<>>
      <3>1. log' \o Owed = log' /\ log \o Owed = log
        BY <1>3, <1>5, <2>1
      <3> QED BY <1>7, <3>1
    <2>2. CASE \E l \in LogLines : Owed = <<l>>
      <3>1. PICK l \in LogLines : Owed = <<l>>
        BY <2>2
      <3>2. log' \in Seq(LogLines) /\ log' \o Owed = Append(log', l) /\ log \o Owed = Append(log, l)
        BY <1>3, <1>5, <3>1
      <3>3. /\ Replay(log' \o Owed) = ReplayLine(Replay(log'), l)
            /\ Replay(log \o Owed) = ReplayLine(Replay(log), l)
        BY <1>5, <3>2, ReplayAppend
      <3>4. Replay(log') \in Seq(Items)
        BY <3>2, ReplayType
      <3>5. Telling(Told)
        BY ToldKinds
      <3>6. OfKind(ReplayLine(Replay(log'), l), Told) = OfKind(ReplayLine(Replay(log), l), Told)
        BY <1>6, <1>7, <3>4, <3>5, ReplayLineOfKind
      <3> QED BY <3>3, <3>6
    <2> QED BY <1>8, <2>1, <2>2
  <1>10. Told' = Told /\ Owed' = Owed
    BY <1>4 DEF Told, Owed
  <1> QED BY <1>4, <1>9, <1>10 DEF Replays

\* A resumed session has what its rollout replays to.
LEMMA ResumeReplays ==
  ASSUME DataOK, DataOK', Resume
  PROVE  Replays'
  <1>1. history' = Replay(log') /\ owed'["loop"] = <<>> /\ owed'["turn"] = <<>>
    BY DEF Resume, Owners
  <1>2. Owed' = <<>>
    BY <1>1 DEF Owed
  <1>3. log' \o Owed' = log'
    BY <1>2 DEF DataOK
  <1> QED BY <1>1, <1>3 DEF Replays

\* What touches neither history nor rollout replays as before.
LEMMA SameReplays ==
  ASSUME Replays, UNCHANGED <<history, log, owed, drained, cut>>
  PROVE  Replays'
  BY DEF Replays, Told, Owed

\* Within a process nothing takes back that a turn was aborted as the invariant excepts it.
LEMMA CutStays ==
  ASSUME Next, cut, ~Resume
  PROVE  cut'
  <1>e. "loop" \in Owners /\ "turn" \in Owners
    BY DEF Owners
  <1>1. ASSUME NEW kind \in TurnKinds, BeginTurn(kind) PROVE cut'
    BY <1>1 DEF BeginTurn
  <1>2. CASE Launch
    BY <1>2 DEF Launch
  <1>3. CASE Interrupt
    BY <1>3 DEF Interrupt
  <1>4. CASE MarkAborted
    BY <1>4 DEF MarkAborted
  <1>5. ASSUME NEW n \in 1..MaxRollback, ReadForRollback(n) PROVE cut'
    BY <1>5 DEF ReadForRollback
  <1>6. CASE RollBack
    BY <1>6 DEF RollBack
  <1>7. ASSUME NEW o \in Owners, Persist(o) PROVE cut'
    BY <1>7 DEF Persist
  <1>8. CASE TakePrompt
    BY <1>8 DEF TakePrompt
  <1>9. CASE StartSnapshot
    BY <1>9 DEF StartSnapshot
  <1>10. CASE RecordReply
    BY <1>10 DEF RecordReply
  <1>11. CASE EndTurn
    BY <1>11 DEF EndTurn
  <1>12. ASSUME NEW way \in {"local", "remote"}, BeginCompaction(way) PROVE cut'
    BY <1>12 DEF BeginCompaction
  <1>13. CASE DrainReply
    BY <1>13 DEF DrainReply
  <1>14. CASE CompactionFails
    BY <1>14 DEF CompactionFails
  <1>15. CASE ReadForSummary
    BY <1>15 DEF ReadForSummary
  <1>16. CASE Summarise
    BY <1>16 DEF Summarise, EndCompaction
  <1>17. CASE TakeRemote
    BY <1>17 DEF TakeRemote, EndCompaction
  <1>18. CASE ReadForUndo
    BY <1>18 DEF ReadForUndo
  <1>19. CASE Undo
    BY <1>19 DEF Undo
  <1>20. CASE Shoot
    BY <1>20 DEF Shoot
  <1>21. CASE PersistShot
    BY <1>21 DEF PersistShot
  <1>23. CASE DropTask
    BY <1>23 DEF DropTask
  <1> QED BY <1>1, <1>2, <1>3, <1>4, <1>5, <1>6, <1>7, <1>8, <1>9, <1>10, <1>11, <1>12, <1>13,
             <1>14, <1>15, <1>16, <1>17, <1>18, <1>19, <1>20, <1>21, <1>23, <1>e
             DEF Next, LoopStep, TurnStep, SnapshotStep

\* Every step keeps the rollout replaying to the history.
LEMMA ReplaysStep ==
  ASSUME DataOK, DataOK', TasksOK, InTurn, Snapshots, Copies, Replays, Next
  PROVE  Replays'
  <1> USE DEF data, tasks
  <1>v. SUFFICES ASSUME ~cut' PROVE Replays'
    BY DEF Replays
  <1>e. "loop" \in Owners /\ "turn" \in Owners
    BY DEF Owners
  <1>22. CASE Resume
    BY <1>22, ResumeReplays
  <1>r. SUFFICES ASSUME ~Resume PROVE Replays'
    BY <1>22
  <1>u. ~cut /\ ~doomed
    BY <1>v, <1>r, CutStays DEF InTurn
  <1>1. ASSUME NEW kind \in TurnKinds, BeginTurn(kind) PROVE Replays'
    <2>1. CASE UNCHANGED <<history, owed>>
      BY <1>1, <2>1, SameReplays DEF BeginTurn
    <2>2. CASE Remember("loop", Context)
      <3>1. Free("loop") /\ Free("turn") /\ UNCHANGED <<log, drained, cut>>
        BY <1>1, <1>u DEF BeginTurn, NoTurn, InTurn
      <3> QED BY <1>e, <2>2, <3>1, ContextIsItem, RememberReplays
    <2> QED BY <1>1, <2>1, <2>2 DEF BeginTurn
  <1>2. CASE Launch
    BY <1>2, SameReplays DEF Launch
  <1>3. CASE Interrupt
    <2>1. CASE Free("turn") /\ turn' = "off"
      <3>1. owed' = owed /\ UNCHANGED <<history, log, drained>>
        BY <1>3, <1>u, <2>1 DEF Interrupt, Free, DataOK
      <3>2. cut' = cut
        BY <1>3, <1>u, <1>v DEF Interrupt, TasksOK
      <3> QED BY <3>1, <3>2, SameReplays
    <2>2. CASE ~(Free("turn") /\ turn' = "off")
      BY <1>3, <1>v, <2>2 DEF Interrupt
    <2> QED BY <2>1, <2>2
  <1>4. CASE MarkAborted
    <2>1. Remember("loop", Marker) /\ UNCHANGED <<log, drained, cut>>
      BY <1>4 DEF MarkAborted
    <2>2. Free("loop") /\ Free("turn")
      BY <1>4, <1>u, <2>1 DEF MarkAborted, Remember, InTurn
    <2>3. Marker \in Items
      BY ContextIsItem, BoundAssumption DEF TasksOK
    <2> QED BY <1>e, <2>1, <2>2, <2>3, RememberReplays
  <1>5. ASSUME NEW n \in 1..MaxRollback, ReadForRollback(n) PROVE Replays'
    BY <1>5, SameReplays DEF ReadForRollback
  <1>6. CASE RollBack
    BY <1>6, RollBackReplays
  <1>7. ASSUME NEW o \in Owners, Persist(o) PROVE Replays'
    BY <1>7, PersistReplays
  <1>8. CASE TakePrompt
    <2>1. Fresh("user") \in Items
      BY <1>8, FreshType, KindsOfItems DEF TakePrompt
    <2>2. Remember("turn", Fresh("user")) /\ UNCHANGED <<log, drained, cut>>
      BY <1>8 DEF TakePrompt
    <2>3. Free("loop") /\ Free("turn")
      BY <1>8, <1>u, <2>2 DEF TakePrompt, Remember, InTurn
    <2> QED BY <1>e, <2>1, <2>2, <2>3, RememberReplays
  <1>9. CASE StartSnapshot
    BY <1>9, SameReplays DEF StartSnapshot
  <1>10. CASE RecordReply
    <2>1. Fresh("reply") \in Items
      BY <1>10, FreshType, KindsOfItems DEF RecordReply
    <2>2. Remember("turn", Fresh("reply")) /\ UNCHANGED <<log, drained, cut>>
      BY <1>10 DEF RecordReply
    <2>3. Free("loop") /\ Free("turn")
      BY <1>10, <1>u, <2>2 DEF RecordReply, Remember, InTurn
    <2> QED BY <1>e, <2>1, <2>2, <2>3, RememberReplays
  <1>11. CASE EndTurn
    BY <1>11, SameReplays DEF EndTurn
  <1>12. ASSUME NEW way \in {"local", "remote"}, BeginCompaction(way) PROVE Replays'
    BY <1>12, SameReplays DEF BeginCompaction
  <1>13. CASE DrainReply
    BY <1>13, DrainReplays
  <1>14. CASE CompactionFails
    BY <1>14, SameReplays DEF CompactionFails
  <1>15. CASE ReadForSummary
    BY <1>15, SameReplays DEF ReadForSummary
  <1>16. CASE Summarise
    BY <1>16, SummariseReplays
  <1>17. CASE TakeRemote
    BY <1>17, TakeRemoteReplays
  <1>18. CASE ReadForUndo
    BY <1>18, SameReplays DEF ReadForUndo
  <1>19. CASE Undo
    <2>1. UNCHANGED <<log, owed, drained, cut>>
      BY <1>19 DEF Undo
    <2> QED BY <1>19, <1>u, <2>1, UndoTalk, TalkReplays
  <1>20. CASE Shoot
    <2>1. CASE UNCHANGED history
      BY <1>20, <2>1, SameReplays DEF Shoot
    <2>2. CASE TakeNumber /\ history' = Append(history, Fresh("ghost"))
      <3>1. Fresh("ghost") \in Items /\ Fresh("ghost")[1] = "ghost"
        BY <2>2, FreshType, KindsOfItems
      <3>2. Talk(history') = Talk(history) /\ history' \in Seq(Items)
        BY <2>2, <3>1, TalkAppend DEF DataOK
      <3>3. UNCHANGED <<log, owed, drained, cut>>
        BY <1>20 DEF Shoot
      <3> QED BY <3>2, <3>3, TalkReplays
    <2> QED BY <1>20, <2>1, <2>2 DEF Shoot
  <1>21. CASE PersistShot
    BY <1>21, PersistShotReplays
  <1>23. CASE DropTask
    BY <1>23, <1>u DEF DropTask
  <1> QED BY <1>1, <1>2, <1>3, <1>4, <1>5, <1>6, <1>7, <1>8, <1>9, <1>10, <1>11, <1>12, <1>13,
             <1>14, <1>15, <1>16, <1>17, <1>18, <1>19, <1>20, <1>21, <1>r, <1>23, <1>e
             DEF Next, LoopStep, TurnStep, SnapshotStep

----------------------------------------------------------------------------
(* The theorems.                                                           *)

\* The invariant holds at first.
LEMMA InvInit == Init => Inv
  <1> SUFFICES ASSUME Init PROVE Inv
    OBVIOUS
  <1>1. Context \in Items /\ ItemLine(Context) \in LogLines /\ ItemLine(Context).kind = "item" /\ ItemLine(Context).item = Context
    BY ContextIsItem, LineTypes DEF ItemLine
  <1>2. DataOK
    <2>1. history \in Seq(Items) /\ log \in Seq(LogLines)
      BY <1>1 DEF Init
    <2>2. owed \in [Owners -> Seq(LogLines)] /\ copy \in [Owners -> Seq(Items)] /\ shot \in Seq(Items)
      BY DEF Init
    <2> QED BY <2>1, <2>2, BoundAssumption DEF Init, DataOK
  <1>3. TasksOK
    <2>1. 0 \in 0..MaxRollback /\ 0 \in 0..MaxTurns /\ 1 \in 1..MaxProcesses
      BY BoundAssumption
    <2> QED BY <2>1 DEF Init, TasksOK, LoopPCs, TurnPCs
  <1>4. InTurn
    <2>1. \A o \in Owners : owed[o] = <<>> /\ Len(owed[o]) <= 1
      BY DEF Init
    <2> QED BY <2>1 DEF Init, InTurn, Free, Owners
  <1>5. Snapshots
    <2>1. Talk(<<>>) = <<>>
      BY OfKindEmpty DEF Talk
    <2>2. shooting = 0 /\ turns = 0 /\ Expected = 0
      BY DEF Init, Expected, MayShoot
    <2> QED BY <2>1, <2>2 DEF Init, Snapshots
  <1>6. Copies
    BY DEF Init, Copies
  <1>7. Replays
    <2>1. Owed = <<>> /\ log = <<ItemLine(Context)>>
      BY DEF Init, Owed, Owners
    <2>2. log \o Owed = Append(<<>>, ItemLine(Context)) /\ <<>> \in Seq(LogLines)
      BY <1>1, <2>1
    <2>3. Replay(log \o Owed) = ReplayLine(Replay(<<>>), ItemLine(Context))
      BY <1>1, <2>2, ReplayAppend
    <2>4. Replay(log \o Owed) = Append(<<>>, Context)
      BY <1>1, <2>3, ReplayEmpty, ReplayLineKinds
    <2>5. Replay(log \o Owed) = history
      BY <2>4 DEF Init
    <2> QED BY <2>5 DEF Replays
  <1>8. LogProper
    <2>1. Proper(<<ItemLine(Context)>>)
      BY <1>1, ProperLines DEF ProperLine, Context
    <2> QED BY <2>1, ProperLines DEF Init, LogProper, Owners
  <1> QED BY <1>2, <1>3, <1>4, <1>5, <1>6, <1>7, <1>8, TypeParts DEF Inv

\* The invariant is inductive.
LEMMA InvStep == Inv /\ [Next]_vars => Inv'
  <1> SUFFICES ASSUME Inv, [Next]_vars PROVE Inv'
    OBVIOUS
  <1>1. DataOK /\ TasksOK /\ InTurn /\ Snapshots /\ Copies /\ Replays /\ LogProper
    BY TypeParts DEF Inv
  <1>2. CASE Next
    <2>1. DataOK'
      BY <1>1, <1>2, DataStep
    <2>2. TasksOK'
      BY <1>1, <1>2, TasksStep
    <2>3. InTurn'
      BY <1>1, <1>2, InTurnStep
    <2>4. Snapshots'
      BY <1>1, <1>2, ShotsStep, ShotGhostsStep DEF Snapshots
    <2>5. Copies'
      BY <1>1, <1>2, CopiesStep
    <2>6. Replays'
      BY <1>1, <1>2, <2>1, ReplaysStep
    <2>7. LogProper'
      BY <1>1, <1>2, LogProperStep
    <2>8. TypeOK'
      BY <2>1, <2>2 DEF TypeOK, DataOK, TasksOK
    <2> QED BY <2>3, <2>4, <2>5, <2>6, <2>7, <2>8 DEF Inv
  <1>3. CASE UNCHANGED vars
    <2> USE <1>3 DEF vars, data, tasks
    <2>1. TypeOK'
      BY DEF Inv, TypeOK
    <2>2. InTurn' /\ Snapshots' /\ Copies'
      BY <1>1 DEF InTurn, Snapshots, Expected, MayShoot, Copies, Free
    <2>3. Replays'
      BY <1>1, SameReplays
    <2>4. LogProper'
      BY <1>1 DEF LogProper
    <2> QED BY <2>1, <2>2, <2>3, <2>4 DEF Inv
  <1> QED BY <1>2, <1>3

\* The invariant always holds.
LEMMA InvAlways == Spec => []Inv
  BY InvInit, InvStep, PTL DEF Spec

\* The state stays of its types, for any bounds: the history and its copies are items, the
\* rollout is lines (Session::record_into_history, RolloutRecorder::record_items).
THEOREM HistoryTypeOK == Spec => []TypeOK
  <1>1. Inv => TypeOK
    BY DEF Inv
  <1> QED BY <1>1, InvAlways, PTL

\* When nothing is owed and nothing was cut, the talk replays.
LEMMA InvReplays == Inv => ReplayIsHistory
  <1> SUFFICES ASSUME Inv, Settled, ~cut, ~drained
               PROVE  Talk(Replay(log)) = Talk(history)
    BY DEF ReplayIsHistory
  <1>1. DataOK /\ Replays
    BY TypeParts DEF Inv
  <1>2. Free("loop") /\ Free("turn")
    BY DEF Settled, Owners
  <1>3. log \o Owed = log
    BY <1>1, <1>2, OwedNothing
  <1>4. Told = Kinds \ {"ghost"}
    BY DEF Told
  <1> QED BY <1>1, <1>3, <1>4 DEF Replays, Talk

\* Whenever nothing is owed to the rollout, no turn was aborted between memory and rollout or
\* ran on beside its marker, and no failed compaction left its answer behind, replaying the rollout
\* (reconstruct_history_from_rollout) gives the history in memory, snapshots aside.
THEOREM HistoryReplays == Spec => []ReplayIsHistory
  BY InvReplays, InvAlways, PTL

----------------------------------------------------------------------------
Spoken == {"user", "clipped", "marker"}

\* The two ways to keep the words, one of them by a copy that is put back.
Lasting == Range(history) \subseteq Range(history')
Known == IF doomed /\ PutsCopyBack THEN copy["turn"] ELSE history
WordsKept ==
    \A k \in DOMAIN Words(Known) :
        Words(Known)[k] \in Range(history) \ Range(history') =>
            /\ turn = "rebuild"
            /\ Tokens(Words(Known))[Len(Words(Known)) + 1 - k] > MaxTokens

\* The words of a history are items.
LEMMA WordsType == ASSUME NEW h \in Seq(Items) PROVE Words(h) \in Seq(Items)
  BY OfKindItems DEF Words

\* The same talk has the same words.
LEMMA TalkWords ==
  ASSUME NEW g \in Seq(Items), NEW h \in Seq(Items), Talk(g) = Talk(h)
  PROVE  Words(g) = Words(h)
  <1>1. (Kinds \ {"ghost"}) \cap Spoken = Spoken
    BY DEF Kinds, Spoken
  <1>2. \A f \in Seq(Items) : OfKind(Talk(f), Spoken) = OfKind(f, Spoken)
    BY <1>1, OfKindTwice DEF Talk
  <1> QED BY <1>2 DEF Words, Spoken

\* An item that is appended takes nothing away.
LEMMA WordsAppend ==
  ASSUME NEW h \in Seq(Items), NEW i \in Items
  PROVE  Range(h) \subseteq Range(Append(h, i))
  BY RangeAppend

\* What lasts is kept.
LEMMA LastingKept == ASSUME Lasting PROVE WordsKept
  BY DEF Lasting, WordsKept

\* What the session knows, or the aborted turn, is what was copied.
LEMMA KnownCopied ==
  ASSUME DataOK, Copies, turn \in {"rebuild", "restore"}, turn' # turn
  PROVE  Words(Known) = Words(copy["turn"]) /\ copy["turn"] \in Seq(Items)
  <1>1. copy["turn"] \in Seq(Items) /\ history \in Seq(Items)
    BY DEF DataOK, Owners
  <1>2. CASE doomed
    BY <1>1, <1>2 DEF Known, PutsCopyBack
  <1>3. CASE ~doomed
    <2>1. Talk(copy["turn"]) = Talk(history)
      BY <1>3 DEF Copies
    <2>2. Known = history
      BY <1>3 DEF Known
    <2> QED BY <1>1, <2>1, <2>2, TalkWords
  <1> QED BY <1>2, <1>3

\* A compaction keeps the words that fit.
LEMMA SummariseWords ==
  ASSUME DataOK, InTurn, Copies, Summarise
  PROVE  WordsKept
  <1> DEFINE read == copy["turn"]
             s == Fresh("summary")
             words == Words(read)
             left == Limited(words)
  <1>0. turn = "rebuild" /\ turn' # turn
    BY DEF Summarise, EndCompaction, InTurn
  <1>1. read \in Seq(Items) /\ Words(Known) = words
    BY <1>0, KnownCopied
  <1>2. s \in Items
    BY FreshType, KindsOfItems DEF Summarise
  <1>3. history' = (<<Context>> \o left \o <<s>>) \o Ghosts(read)
    BY DEF Summarise, Replace, BuildCompactedHistory, CollectUserMessages, Words
  <1>4. words \in Seq(Items) /\ left \in Seq(Items) /\ Ghosts(read) \in Seq(Items)
    BY <1>1, WordsType, LimitedType, OfKindItems DEF Ghosts
  <1> HIDE DEF s, words, left
  <1>5. \A k \in DOMAIN left : k + 1 \in DOMAIN history' /\ history'[k + 1] = left[k]
    <2> DEFINE tail == <<s>> \o Ghosts(read)
               front == <<Context>> \o left
    <2>1. front \in Seq(Items) /\ Len(front) = Len(left) + 1
          /\ \A k \in DOMAIN left : k + 1 \in DOMAIN front /\ front[k + 1] = left[k]
      BY <1>4, ContextIsItem
    <2>2. tail \in Seq(Items)
      BY <1>2, <1>4
    <2>3. <<Context>> \in Seq(Items) /\ <<s>> \in Seq(Items)
      BY <1>2, ContextIsItem
    <2> HIDE DEF front
    <2>4. (front \o <<s>>) \o Ghosts(read) = front \o tail
      BY <1>4, <2>1, <2>3, Concatenation
    <2>5. history' = front \o tail
      BY <1>3, <2>4 DEF front
    <2> HIDE DEF tail
    <2> QED BY <2>1, <2>2, <2>5
  <1>6. Range(left) \subseteq Range(history')
    BY <1>5 DEF Range
  <1>7. ASSUME NEW k \in DOMAIN words, words[k] \notin Range(history')
        PROVE  Tokens(words)[Len(words) + 1 - k] > MaxTokens
    <2>1. ~(Tokens(words)[Len(words) + 1 - k] <= MaxTokens)
      BY <1>4, <1>6, <1>7, LimitedKeeps DEF left
    <2>2. Len(words) + 1 - k \in 0..Len(words)
      BY <1>4
    <2>3. Tokens(words)[Len(words) + 1 - k] \in Nat
      BY <1>4, <2>2, TokensType
    <2> QED BY <2>1, <2>3, TokensAssumption
  <1> QED BY <1>0, <1>1, <1>7 DEF WordsKept

\* An undo keeps the words that its copy has.
LEMMA UndoWords ==
  ASSUME DataOK, Copies, Undo
  PROVE  WordsKept
  <1>1. CASE history' = history
    BY <1>1, LastingKept DEF Lasting
  <1>2. CASE history' \in Seq(Items) /\ Talk(history') = Talk(copy["turn"])
    <2>1. turn = "restore" /\ turn' # turn
      BY DEF Undo
    <2>2. copy["turn"] \in Seq(Items) /\ Words(Known) = Words(copy["turn"])
      BY <2>1, KnownCopied
    <2>3. Words(Known) = Words(history')
      BY <1>2, <2>2, TalkWords
    <2>4. Range(Words(history')) \subseteq Range(history')
      BY <1>2, OfKindRange DEF Words
    <2>5. Range(Words(Known)) \subseteq Range(history')
      BY <2>3, <2>4
    <2>6. \A k \in DOMAIN Words(Known) : Words(Known)[k] \in Range(Words(Known))
      BY DEF Range
    <2> QED BY <2>5, <2>6 DEF WordsKept
  <1> QED BY <1>1, <1>2, UndoCopy

\* Every step but a rollback, a remote compaction and a resume keeps the words.
LEMMA WordsStep ==
  ASSUME DataOK, TasksOK, InTurn, Copies, Next
  PROVE  RollsBack \/ ServerReplaces \/ processes' # processes \/ Lasting \/ WordsKept
  <1> USE DEF data, tasks
  <1>e. "loop" \in Owners /\ "turn" \in Owners
    BY DEF Owners
  <1>1. ASSUME NEW kind \in TurnKinds, BeginTurn(kind) PROVE Lasting
    BY <1>1, ContextIsItem, WordsAppend DEF BeginTurn, Remember, Lasting, DataOK
  <1>2. CASE Launch
    BY <1>2 DEF Launch, Lasting
  <1>3. CASE Interrupt
    BY <1>3 DEF Interrupt, Lasting
  <1>4. CASE MarkAborted
    <2>1. Marker \in Items /\ history' = Append(history, Marker)
      BY <1>4, ContextIsItem, BoundAssumption DEF TasksOK, MarkAborted, Remember
    <2> QED BY <2>1, WordsAppend DEF Lasting, DataOK
  <1>5. ASSUME NEW n \in 1..MaxRollback, ReadForRollback(n) PROVE Lasting
    BY <1>5 DEF ReadForRollback, Lasting
  <1>6. CASE RollBack
    BY <1>6 DEF RollBack, RollsBack
  <1>7. ASSUME NEW o \in Owners, Persist(o) PROVE Lasting
    BY <1>7 DEF Persist, Lasting
  <1>8. CASE TakePrompt
    <2>1. Fresh("user") \in Items /\ history' = Append(history, Fresh("user"))
      BY <1>8, FreshType, KindsOfItems DEF TakePrompt, Remember
    <2> QED BY <2>1, WordsAppend DEF Lasting, DataOK
  <1>9. CASE StartSnapshot
    BY <1>9 DEF StartSnapshot, Lasting
  <1>10. CASE RecordReply
    <2>1. Fresh("reply") \in Items /\ history' = Append(history, Fresh("reply"))
      BY <1>10, FreshType, KindsOfItems DEF RecordReply, Remember
    <2> QED BY <2>1, WordsAppend DEF Lasting, DataOK
  <1>11. CASE EndTurn
    BY <1>11 DEF EndTurn, Lasting
  <1>12. ASSUME NEW way \in {"local", "remote"}, BeginCompaction(way) PROVE Lasting
    BY <1>12 DEF BeginCompaction, Lasting
  <1>13. CASE DrainReply
    <2>1. Fresh("reply") \in Items /\ history' = Append(history, Fresh("reply"))
      BY <1>13, FreshType, KindsOfItems DEF DrainReply, Remember
    <2> QED BY <2>1, WordsAppend DEF Lasting, DataOK
  <1>14. CASE CompactionFails
    BY <1>14 DEF CompactionFails, Lasting
  <1>15. CASE ReadForSummary
    BY <1>15 DEF ReadForSummary, Lasting
  <1>16. CASE Summarise
    BY <1>16, SummariseWords
  <1>17. CASE TakeRemote
    BY <1>17 DEF TakeRemote, EndCompaction, ServerReplaces, InTurn
  <1>18. CASE ReadForUndo
    BY <1>18 DEF ReadForUndo, Lasting
  <1>19. CASE Undo
    BY <1>19, UndoWords
  <1>20. CASE Shoot
    <2>1. CASE UNCHANGED history
      BY <2>1 DEF Lasting
    <2>2. CASE TakeNumber /\ history' = Append(history, Fresh("ghost"))
      <3>1. Fresh("ghost") \in Items
        BY <2>2, FreshType, KindsOfItems
      <3> QED BY <2>2, <3>1, WordsAppend DEF Lasting, DataOK
    <2> QED BY <1>20, <2>1, <2>2 DEF Shoot
  <1>21. CASE PersistShot
    BY <1>21 DEF PersistShot, Lasting
  <1>22. CASE Resume
    BY <1>22 DEF Resume, TasksOK
  <1>23. CASE DropTask
    BY <1>23 DEF DropTask, Lasting
  <1> QED BY <1>1, <1>2, <1>3, <1>4, <1>5, <1>6, <1>7, <1>8, <1>9, <1>10, <1>11, <1>12, <1>13,
             <1>14, <1>15, <1>16, <1>17, <1>18, <1>19, <1>20, <1>21, <1>22, <1>23, <1>e
             DEF Next, LoopStep, TurnStep, SnapshotStep

\* What the user said and the markers of interrupted turns stay in the history until a rollback,
\* the server or a new process replaces it, for any limit of the tokens: a local compaction takes
\* out only what is older than the limit keeps of the history at that moment, an undo and a late
\* snapshot nothing; and the copy of an aborted turn that runs on takes out what was recorded
\* since it was made, or is beyond the limit in it, and no more.
THEOREM HistoryKeepsWords == Spec => UserWordsKept
  <1>1. Inv /\ Inv' /\ [Next]_vars =>
           [\/ RollsBack \/ ServerReplaces \/ processes' # processes
            \/ LET known == IF doomed /\ PutsCopyBack THEN copy["turn"] ELSE history
                   words == Words(known)
               IN  \A k \in DOMAIN words :
                       words[k] \in Range(history) \ Range(history') =>
                           /\ turn = "rebuild"
                           /\ Tokens(words)[Len(words) + 1 - k] > MaxTokens]_vars
    <2> SUFFICES ASSUME Inv, Next
                 PROVE  RollsBack \/ ServerReplaces \/ processes' # processes \/ WordsKept
      BY DEF WordsKept, Known
    <2>1. DataOK /\ TasksOK /\ InTurn /\ Copies
      BY TypeParts DEF Inv
    <2> QED BY <2>1, WordsStep, LastingKept
  <1> QED BY <1>1, InvAlways, PTL DEF Spec, UserWordsKept

----------------------------------------------------------------------------
\* The positions of the user's messages in the rollout.
LEMMA CountPositionKinds ==
  ASSUME NEW lines, NEW p, NEW k
  PROVE  /\ lines[k].kind = "item" /\ BeginsTurn(lines[k].item) => CountPosition(lines, p, k) = Append(p, k)
         /\ lines[k].kind = "rolledBack" =>
               CountPosition(lines, p, k) = SubSeq(p, 1, Len(p) - lines[k].turns)
         /\ lines[k].kind # "rolledBack" /\ ~(lines[k].kind = "item" /\ BeginsTurn(lines[k].item)) =>
               CountPosition(lines, p, k) = p
  <1>1. CASE lines[k].kind = "item" /\ BeginsTurn(lines[k].item)
    BY <1>1 DEF CountPosition
  <1>2. CASE lines[k].kind = "rolledBack"
    BY <1>2 DEF CountPosition
  <1>3. CASE lines[k].kind # "rolledBack" /\ ~(lines[k].kind = "item" /\ BeginsTurn(lines[k].item))
    BY <1>3 DEF CountPosition
  <1> QED BY <1>1, <1>2, <1>3

\* The positions without the last n of them.
LEMMA Shortened ==
  ASSUME NEW p \in Seq(Nat), NEW n \in Nat \ {0}
  PROVE  /\ SubSeq(p, 1, Len(p) - n) \in Seq(Nat)
         /\ Len(SubSeq(p, 1, Len(p) - n)) = IF n >= Len(p) THEN 0 ELSE Len(p) - n
         /\ \A j \in 1..Len(SubSeq(p, 1, Len(p) - n)) : SubSeq(p, 1, Len(p) - n)[j] = p[j]
  <1>1. CASE n >= Len(p)
    <2>1. SubSeq(p, 1, Len(p) - n) = <<>>
      BY <1>1
    <2> QED BY <1>1, <2>1
  <1>2. CASE ~(n >= Len(p))
    <2>1. Len(p) - n \in 1..Len(p)
      BY <1>2
    <2> DEFINE q == SubSeq(p, 1, Len(p) - n)
    <2>2. q \in Seq(Nat) /\ Len(q) = Len(p) - n /\ \A j \in 1..(Len(p) - n) : q[j] = p[j]
      BY <2>1
    <2> HIDE DEF q
    <2>3. \A j \in 1..Len(q) : q[j] = p[j]
      BY <2>2
    <2> QED BY <1>2, <2>2, <2>3 DEF q
  <1> QED BY <1>1, <1>2

\* Every line leaves positions.
LEMMA CountPositionType ==
  ASSUME NEW lines \in Seq(LogLines), NEW p \in Seq(Nat), NEW k \in 1..Len(lines)
  PROVE  CountPosition(lines, p, k) \in Seq(Nat)
  <1>1. lines[k] \in LogLines /\ k \in Nat
    OBVIOUS
  <1>2. CASE lines[k].kind = "item" /\ BeginsTurn(lines[k].item)
    <2>1. CountPosition(lines, p, k) = Append(p, k)
      BY <1>2, CountPositionKinds
    <2> QED BY <1>1, <2>1
  <1>3. CASE lines[k].kind = "rolledBack"
    <2>1. CountPosition(lines, p, k) = SubSeq(p, 1, Len(p) - lines[k].turns)
      BY <1>3, CountPositionKinds
    <2>2. lines[k].turns \in Nat \ {0}
      BY <1>1, <1>3, LineFields
    <2> QED BY <2>1, <2>2, Shortened
  <1>4. CASE lines[k].kind # "rolledBack" /\ ~(lines[k].kind = "item" /\ BeginsTurn(lines[k].item))
    BY <1>1, <1>4, CountPositionKinds
  <1> QED BY <1>2, <1>3, <1>4

Counted(lines) ==
    CHOOSE g : g = [k \in 0..Len(lines) |->
        IF k = 0 THEN <<>> ELSE CountPosition(lines, g[k - 1], k)]

\* UserPositions takes its steps: the recursive function of its definition is a fold.
LEMMA CountedSteps ==
  ASSUME NEW lines \in Seq(LogLines)
  PROVE  /\ Counted(lines)[0] = <<>>
         /\ \A k \in 1..Len(lines) :
               Counted(lines)[k] = CountPosition(lines, Counted(lines)[k - 1], k)
         /\ UserPositions(lines) = Counted(lines)[Len(lines)]
  <1> DEFINE S == Seq(Nat)
             Step(v, k) == CountPosition(lines, v, k)
             Body(g) == [k \in 0..Len(lines) |-> IF k = 0 THEN <<>> ELSE CountPosition(lines, g[k - 1], k)]
             F == [k \in 1..Len(lines) |-> [v \in S |-> Step(v, k)]]
             G == Counted(lines)
  <1>1. \A k \in 1..Len(lines) : \A v \in S : Step(v, k) \in S
    BY CountPositionType
  <1>2. Len(lines) \in Nat /\ <<>> \in S /\ StepsIn(Len(lines), S, F)
    <2> HIDE DEF Step, S
    <2>1. StepsIn(Len(lines), S, F)
      BY <1>1 DEF StepsIn
    <2> USE DEF S
    <2> QED BY <2>1
  <1>3. PICK f : IsFold(f, Len(lines), S, <<>>, F)
    <2> HIDE DEF F, S
    <2> QED BY <1>2, FoldExists DEF HasFold
  <1>4. f = Body(f)
    <2>1. f \in [0..Len(lines) -> S] /\ f[0] = <<>>
      BY <1>3 DEF IsFold
    <2>2. ASSUME NEW k \in 1..Len(lines) PROVE f[k] = Step(f[k - 1], k)
      <3>1. f[k - 1] \in S
        BY <2>1
      <3>2. f[k] = F[k][f[k - 1]]
        BY <1>3 DEF IsFold
      <3> HIDE DEF Step, S
      <3> QED BY <3>1, <3>2
    <2>3. \A k \in 0..Len(lines) : f[k] = Body(f)[k]
      <3> HIDE DEF S
      <3>1. \A k \in 0..Len(lines) : k = 0 \/ k \in 1..Len(lines)
        BY <1>2
      <3> QED BY <2>1, <2>2, <3>1
    <2> HIDE DEF S
    <2> QED BY <2>1, <2>3
  <1>5. G = Body(G)
    <2>1. G = CHOOSE g : g = Body(g)
      BY DEF Counted
    <2> HIDE DEF Body
    <2> QED BY <1>4, <2>1
  <1>6. \A k \in 0..Len(lines) : G[k] = Body(G)[k]
    BY <1>5
  <1>7. \A k \in 1..Len(lines) : k \in 0..Len(lines) /\ k # 0
    BY <1>2
  <1>8. UserPositions(lines) = G[Len(lines)]
    BY DEF UserPositions, Counted
  <1>9. G[0] = <<>> /\ \A k \in 1..Len(lines) : G[k] = Step(G[k - 1], k)
    <2> HIDE DEF G
    <2> QED BY <1>2, <1>6, <1>7
  <1> QED BY <1>8, <1>9

\* An empty rollout has no positions.
LEMMA PositionsEmpty == UserPositions(<<>>) = <<>>
  <1>1. <<>> \in Seq(LogLines) /\ Len(<<>>) = 0
    OBVIOUS
  <1>2. Counted(<<>>)[0] = <<>> /\ UserPositions(<<>>) = Counted(<<>>)[Len(<<>>)]
    BY <1>1, CountedSteps, Zenon
  <1> QED BY <1>1, <1>2

\* The last line is counted after the others.
LEMMA PositionsAppend ==
  ASSUME NEW lines \in Seq(LogLines), NEW l \in LogLines
  PROVE  UserPositions(Append(lines, l)) =
            CountPosition(Append(lines, l), UserPositions(lines), Len(lines) + 1)
  <1> DEFINE a == Append(lines, l)
             G == Counted(lines)
             A == Counted(a)
             T == {k \in Nat : k <= Len(lines) => A[k] = G[k]}
  <1>1. a \in Seq(LogLines) /\ Len(a) = Len(lines) + 1 /\ Len(lines) \in Nat /\ a[Len(lines) + 1] = l
        /\ \A k \in 1..Len(lines) : a[k] = lines[k]
    OBVIOUS
  <1> HIDE DEF a
  <1>2. /\ G[0] = <<>>
        /\ \A k \in 1..Len(lines) : G[k] = CountPosition(lines, G[k - 1], k)
        /\ UserPositions(lines) = G[Len(lines)]
    BY CountedSteps
  <1>3. /\ A[0] = <<>>
        /\ \A k \in 1..Len(a) : A[k] = CountPosition(a, A[k - 1], k)
        /\ UserPositions(a) = A[Len(a)]
    BY <1>1, CountedSteps
  <1> HIDE DEF G, A
  <1>0. ASSUME NEW k \in 1..Len(lines), NEW p PROVE CountPosition(a, p, k) = CountPosition(lines, p, k)
    BY <1>1 DEF CountPosition
  <1>4. 0 \in T
    BY <1>2, <1>3
  <1>5. ASSUME NEW k \in Nat, k \in T PROVE k + 1 \in T
    <2> SUFFICES ASSUME k + 1 <= Len(lines) PROVE A[k + 1] = G[k + 1]
      OBVIOUS
    <2>1. k + 1 \in 1..Len(lines) /\ k + 1 \in 1..Len(a) /\ (k + 1) - 1 = k /\ A[k] = G[k]
      BY <1>1, <1>5
    <2>2. A[k + 1] = CountPosition(a, A[k], k + 1) /\ G[k + 1] = CountPosition(lines, G[k], k + 1)
      BY <1>2, <1>3, <2>1
    <2> QED BY <1>0, <2>1, <2>2
  <1>6. Nat \subseteq T
    <2> HIDE DEF T
    <2> QED BY <1>4, <1>5, SetInduction
  <1>7. A[Len(lines)] = G[Len(lines)]
    BY <1>1, <1>6
  <1>8. Len(a) \in 1..Len(a) /\ Len(a) - 1 = Len(lines)
    BY <1>1
  <1>9. UserPositions(a) = CountPosition(a, A[Len(lines)], Len(lines) + 1)
    BY <1>1, <1>3, <1>8
  <1> QED BY <1>2, <1>7, <1>9 DEF a

\* Positions are numbers.
LEMMA PositionsType ==
  ASSUME NEW lines \in Seq(LogLines)
  PROVE  UserPositions(lines) \in Seq(Nat)
  <1> DEFINE T == {g \in Seq(LogLines) : UserPositions(g) \in Seq(Nat)}
  <1>1. <<>> \in T
    <2>1. <<>> \in Seq(LogLines) /\ <<>> \in Seq(Nat)
      OBVIOUS
    <2> QED BY <2>1, PositionsEmpty
  <1>2. ASSUME NEW g \in Seq(LogLines), NEW l \in LogLines, g \in T PROVE Append(g, l) \in T
    <2>1. Append(g, l) \in Seq(LogLines) /\ UserPositions(g) \in Seq(Nat)
          /\ Len(g) + 1 \in 1..Len(Append(g, l))
      BY <1>2
    <2> QED BY <2>1, PositionsAppend, CountPositionType
  <1>3. Seq(LogLines) \subseteq T
    <2> HIDE DEF T
    <2> QED BY <1>1, <1>2, SeqInduction
  <1> QED BY <1>3

----------------------------------------------------------------------------
\* The conditions of ForkKeepsTurnsBefore on any lines; they hold of what precedes as well.
Counts(lines) ==
    /\ \A k \in DOMAIN lines : lines[k].kind # "replaced"
    /\ \A k, m \in DOMAIN lines :
           k < m /\ lines[k].kind = "compacted" => lines[m].kind # "rolledBack"
    /\ \A k \in DOMAIN lines :
           lines[k].kind = "compacted" =>
               Fits(CollectUserMessages(Replay(SubSeq(lines, 1, k - 1))))
NoneCompacted(lines) == \A k \in DOMAIN lines : lines[k].kind # "compacted"
Users(lines) == OfKind(Replay(lines), {"user"})

\* The conditions hold of the lines before the last.
LEMMA CountsBefore ==
  ASSUME NEW lines \in Seq(LogLines), NEW l \in LogLines, Counts(Append(lines, l)), Proper(Append(lines, l))
  PROVE  /\ Counts(lines) /\ Proper(lines)
         /\ l.kind # "replaced"
         /\ l.kind = "rolledBack" => NoneCompacted(lines)
         /\ l.kind = "compacted" => Fits(CollectUserMessages(Replay(lines)))
         /\ ProperLine(l)
  <1> DEFINE a == Append(lines, l)
  <1>1. /\ DOMAIN a = DOMAIN lines \cup {Len(lines) + 1}
        /\ a[Len(lines) + 1] = l
        /\ \A k \in DOMAIN lines : a[k] = lines[k] /\ k < Len(lines) + 1
                                   /\ SubSeq(a, 1, k - 1) = SubSeq(lines, 1, k - 1)
        /\ SubSeq(a, 1, (Len(lines) + 1) - 1) = lines
    OBVIOUS
  <1> HIDE DEF a
  <1>2. Counts(a) /\ Proper(a)
    BY DEF a
  <1>3. Counts(lines) /\ Proper(lines)
    BY <1>1, <1>2 DEF Counts, Proper
  <1>4. /\ l.kind # "replaced" /\ ProperLine(l)
        /\ l.kind = "rolledBack" => NoneCompacted(lines)
    BY <1>1, <1>2 DEF Counts, Proper, NoneCompacted
  <1>5. l.kind = "compacted" => Fits(CollectUserMessages(Replay(lines)))
    BY <1>1, <1>2 DEF Counts
  <1> QED BY <1>3, <1>4, <1>5

\* What a compaction puts in place of messages.
Compacted == {"summary", "clipped"}

\* Without a compaction there is none of it, and the turns are the user's messages.
LEMMA SummaryReplayed ==
  ASSUME NEW lines \in Seq(LogLines), Counts(lines), Proper(lines), NoneCompacted(lines)
  PROVE  OfKind(Replay(lines), Compacted) = <<>>
  <1> DEFINE Pre(g) == Counts(g) /\ Proper(g) /\ NoneCompacted(g)
             T == {g \in Seq(LogLines) : Pre(g) => OfKind(Replay(g), Compacted) = <<>>}
  <1>1. <<>> \in T
    <2>1. <<>> \in Seq(LogLines)
      OBVIOUS
    <2> QED BY <2>1, ReplayEmpty, OfKindEmpty
  <1>2. ASSUME NEW g \in Seq(LogLines), NEW l \in LogLines, g \in T PROVE Append(g, l) \in T
    <2> SUFFICES ASSUME Pre(Append(g, l)) PROVE OfKind(Replay(Append(g, l)), Compacted) = <<>>
      OBVIOUS
    <2>1. NoneCompacted(g) /\ l.kind # "compacted"
      <3>1. /\ \A k \in DOMAIN g : k \in DOMAIN Append(g, l) /\ Append(g, l)[k] = g[k]
            /\ Len(g) + 1 \in DOMAIN Append(g, l) /\ Append(g, l)[Len(g) + 1] = l
        OBVIOUS
      <3>2. NoneCompacted(Append(g, l))
        OBVIOUS
      <3> QED BY <3>1, <3>2 DEF NoneCompacted
    <2>2. Counts(g) /\ Proper(g) /\ l.kind # "replaced" /\ ProperLine(l)
      BY CountsBefore
    <2>3. OfKind(Replay(g), Compacted) = <<>> /\ Replay(g) \in Seq(Items)
      BY <1>2, <2>1, <2>2, ReplayType
    <2>4. Replay(Append(g, l)) = ReplayLine(Replay(g), l)
      BY ReplayAppend
    <2>5. CASE l.kind = "item"
      <3>1. l.item \in Items /\ l.item[1] \notin Compacted
        BY <2>2, <2>5, LineFields DEF ProperLine, Compacted
      <3>2. Replay(Append(g, l)) = Append(Replay(g), l.item)
        BY <2>4, <2>5, ReplayLineKinds
      <3>3. OfKind(Append(Replay(g), l.item), Compacted) = OfKind(Replay(g), Compacted)
        BY <2>3, <3>1, OfKindAppend
      <3> QED BY <2>3, <3>2, <3>3
    <2>6. CASE l.kind = "rolledBack"
      <3>1. l.turns \in Nat \ {0} /\ Replay(Append(g, l)) = DropLastUserTurns(Replay(g), l.turns)
        BY <2>4, <2>6, LineFields, ReplayLineKinds
      <3>2. CASE TurnsIn(Replay(g)) = 0
        BY <2>3, <3>1, <3>2, DropLastNone
      <3>3. CASE TurnsIn(Replay(g)) # 0
        <4>1. PICK p \in Seq(Items), q \in Seq(Items), i \in Items :
                 CutAt(Replay(g), p, i, q) /\ DropLastUserTurns(Replay(g), l.turns) = p
          BY <2>3, <3>1, <3>3, DropLastCuts
        <4>2. Append(p, i) \in Seq(Items)
          OBVIOUS
        <4>3. <<>> = OfKind(Append(p, i), Compacted) \o OfKind(q, Compacted)
          <5>1. Replay(g) = Append(p, i) \o q
            BY <4>1 DEF CutAt
          <5>2. OfKind(Append(p, i) \o q, Compacted) =
                   OfKind(Append(p, i), Compacted) \o OfKind(q, Compacted)
            BY <4>2, OfKindConcat
          <5> QED BY <2>3, <5>1, <5>2
        <4>4. /\ OfKind(Append(p, i), Compacted) \in Seq(Items)
              /\ OfKind(q, Compacted) \in Seq(Items)
              /\ OfKind(p, Compacted) \in Seq(Items)
          BY <4>2, OfKindItems
        <4>5. OfKind(Append(p, i), Compacted) = <<>>
          BY <4>3, <4>4, BothEmpty
        <4>6. OfKind(Append(p, i), Compacted) =
                 IF i[1] \in Compacted THEN Append(OfKind(p, Compacted), i) ELSE OfKind(p, Compacted)
          BY OfKindAppend
        <4>7. OfKind(p, Compacted) = <<>>
          <5>1. Append(OfKind(p, Compacted), i) # <<>>
            BY <4>4, AppendNotEmpty
          <5> QED BY <4>5, <4>6, <5>1
        <4> QED BY <3>1, <4>1, <4>7
      <3> QED BY <3>2, <3>3
    <2> QED BY <2>1, <2>2, <2>5, <2>6, LineFields
  <1>3. Seq(LogLines) \subseteq T
    <2> HIDE DEF T
    <2> QED BY <1>1, <1>2, SeqInduction
  <1> QED BY <1>3

\* Without it the turns are the user's messages.
LEMMA TurnsAreUsers ==
  ASSUME NEW h \in Seq(Items), OfKind(h, Compacted) = <<>>
  PROVE  OfKind(h, Boundaries) = OfKind(h, {"user"})
  <1> DEFINE b == OfKind(h, Boundaries)
  <1>1. b \in Seq(Items)
    BY OfKindItems
  <1>2. Range(b) = {i \in Range(h) : i[1] \in Boundaries}
    BY OfKindRange
  <1>3. \A i \in Range(h) : i[1] \notin Compacted
    <2>1. Range(OfKind(h, Compacted)) = {i \in Range(h) : i[1] \in Compacted}
      BY OfKindRange
    <2>2. Range(<<>>) = {}
      BY DEF Range
    <2> QED BY <2>1, <2>2
  <1>4. \A k \in DOMAIN b : b[k] \in Range(b)
    BY DEF Range
  <1>5. \A k \in DOMAIN b : b[k][1] \in {"user"}
    BY <1>2, <1>3, <1>4 DEF Boundaries, Compacted
  <1>6. OfKind(b, {"user"}) = OfKind(h, {"user"})
    <2>1. Boundaries \cap {"user"} = {"user"}
      BY DEF Boundaries
    <2> QED BY <2>1, OfKindTwice
  <1> HIDE DEF b
  <1>7. OfKind(b, {"user"}) = b
    BY <1>1, <1>5, OfKindAll
  <1> QED BY <1>6, <1>7 DEF b

\* A rollback drops the last of the user's messages.
LEMMA DropLastUsers ==
  ASSUME NEW h \in Seq(Items), NEW n \in Nat \ {0}, OfKind(h, Compacted) = <<>>
  PROVE  LET us == OfKind(h, {"user"})
             kept == OfKind(DropLastUserTurns(h, n), {"user"})
         IN  /\ Len(kept) = IF n >= Len(us) THEN 0 ELSE Len(us) - n
             /\ \A j \in 1..Len(kept) : kept[j] = us[j]
  <1> DEFINE us == OfKind(h, {"user"})
             kept == OfKind(DropLastUserTurns(h, n), {"user"})
  <1>1. OfKind(h, Boundaries) = us
    BY TurnsAreUsers
  <1>2. CASE TurnsIn(h) = 0
    <2>1. DropLastUserTurns(h, n) = h /\ Len(us) = 0
      BY <1>1, <1>2, DropLastNone DEF TurnsIn
    <2> QED BY <2>1
  <1>3. CASE TurnsIn(h) # 0
    <2>1. PICK p \in Seq(Items), q \in Seq(Items), i \in Items :
             /\ BeginsTurn(i) /\ CutAt(h, p, i, q) /\ TurnsIn(p) = Kept(h, n)
             /\ DropLastUserTurns(h, n) = p
      BY <1>3, DropLastCuts
    <2>2. PICK rest \in Seq(Items) : h = p \o rest
      <3>1. <<i>> \o q \in Seq(Items) /\ h = p \o (<<i>> \o q)
        BY <2>1 DEF CutAt
      <3> QED BY <3>1
    <2>3. ASSUME NEW K PROVE OfKind(h, K) = OfKind(p, K) \o OfKind(rest, K)
      <3>1. p \in Seq(Items) /\ h = Joined(p, rest)
        BY <2>2 DEF Joined
      <3>2. OfKind(Joined(p, rest), K) = Joined(OfKind(p, K), OfKind(rest, K))
        BY <3>1, OfKindJoined
      <3> QED BY <3>1, <3>2 DEF Joined
    <2>4. OfKind(p, Compacted) = <<>>
      <3>1. OfKind(p, Compacted) \o OfKind(rest, Compacted) = <<>>
        BY <2>3
      <3>2. OfKind(p, Compacted) \in Seq(Items) /\ OfKind(rest, Compacted) \in Seq(Items)
        BY <2>2, OfKindItems
      <3> QED BY <3>1, <3>2, BothEmpty
    <2>5. OfKind(p, Boundaries) = OfKind(p, {"user"})
      BY <2>4, TurnsAreUsers
    <2>6. Len(kept) = IF n >= Len(us) THEN 0 ELSE Len(us) - n
      BY <1>1, <2>1, <2>5 DEF TurnsIn, Kept
    <2>7. us = kept \o OfKind(rest, {"user"}) /\ kept \in Seq(Items) /\ OfKind(rest, {"user"}) \in Seq(Items)
      BY <2>1, <2>2, <2>3, OfKindItems
    <2> HIDE DEF us, kept
    <2>8. \A j \in 1..Len(kept) : kept[j] = us[j]
      BY <2>7
    <2> QED BY <2>6, <2>8 DEF us, kept
  <1> QED BY <1>2, <1>3

\* The n-th position is that of the n-th message.
Placed(lines) ==
    LET p == UserPositions(lines)
    IN  /\ Len(p) = Len(Users(lines))
        /\ \A j \in 1..Len(p) :
               /\ p[j] \in 1..Len(lines)
               /\ Users(SubSeq(lines, 1, p[j] - 1)) = SubSeq(Users(lines), 1, j - 1)

\* A line that keeps or shortens positions and messages alike keeps them placed.
LEMMA PlacedStays ==
  ASSUME NEW lines \in Seq(LogLines), NEW l \in LogLines, Placed(lines),
         LET a == Append(lines, l)
         IN  /\ Len(UserPositions(a)) = Len(Users(a))
             /\ Len(Users(a)) <= Len(Users(lines))
             /\ \A j \in 1..Len(Users(a)) : /\ UserPositions(a)[j] = UserPositions(lines)[j]
                                            /\ Users(a)[j] = Users(lines)[j]
  PROVE  Placed(Append(lines, l))
  <1> DEFINE a == Append(lines, l)
             p == UserPositions(a)
             q == UserPositions(lines)
  <1>1. Len(a) = Len(lines) + 1 /\ a \in Seq(LogLines)
        /\ \A m \in 0..Len(lines) : SubSeq(a, 1, m) = SubSeq(lines, 1, m)
    OBVIOUS
  <1>2. Users(a) \in Seq(Items) /\ Users(lines) \in Seq(Items)
    BY <1>1, ReplayType, OfKindItems DEF Users
  <1>3. q \in Seq(Nat) /\ p \in Seq(Nat)
    BY <1>1, PositionsType
  <1> HIDE DEF a, p, q
  <1>4. /\ Len(p) = Len(Users(a)) /\ Len(p) <= Len(q)
        /\ \A j \in 1..Len(p) : p[j] = q[j] /\ Users(a)[j] = Users(lines)[j]
    BY DEF a, p, q, Placed
  <1>5. ASSUME NEW j \in 1..Len(p)
        PROVE  p[j] \in 1..Len(a) /\ Users(SubSeq(a, 1, p[j] - 1)) = SubSeq(Users(a), 1, j - 1)
    <2>1. j \in 1..Len(q)
      BY <1>3, <1>4
    <2>2. q[j] \in 1..Len(lines) /\ Users(SubSeq(lines, 1, q[j] - 1)) = SubSeq(Users(lines), 1, j - 1)
      BY <2>1 DEF Placed, q
    <2>3. SubSeq(a, 1, p[j] - 1) = SubSeq(lines, 1, q[j] - 1)
      <3>1. p[j] - 1 = q[j] - 1 /\ q[j] - 1 \in 0..Len(lines)
        BY <1>4, <2>2
      <3> QED BY <1>1, <3>1
    <2>4. SubSeq(Users(a), 1, j - 1) = SubSeq(Users(lines), 1, j - 1)
      <3> DEFINE u == Users(a)
                 v == Users(lines)
      <3>0. Len(q) = Len(v) /\ Len(p) = Len(u)
        BY <1>4 DEF Placed, q
      <3>1. u \in Seq(Items) /\ v \in Seq(Items) /\ j - 1 \in 0..Len(u) /\ j - 1 \in 0..Len(v)
        <4> HIDE DEF u, v
        <4>1. j - 1 \in 0..Len(p) /\ j - 1 \in 0..Len(q)
          BY <1>3, <2>1
        <4>2. u \in Seq(Items) /\ v \in Seq(Items)
          BY <1>2 DEF u, v
        <4> QED BY <3>0, <4>1, <4>2
      <3>2. \A m \in 1..(j - 1) : u[m] = v[m]
        <4> SUFFICES ASSUME NEW m \in 1..(j - 1) PROVE u[m] = v[m]
          OBVIOUS
        <4>1. m \in 1..Len(p)
          BY <1>3
        <4> HIDE DEF u, v
        <4> QED BY <1>4, <4>1 DEF u, v
      <3>3. j - 1 <= Len(v)
        BY <3>1
      <3> HIDE DEF u, v
      <3>4. SubSeq(u, 1, j - 1) = SubSeq(v, 1, j - 1)
        BY <3>1, <3>2, <3>3, SamePrefix
      <3> QED BY <3>4 DEF u, v
    <2>5. p[j] \in 1..Len(a)
      BY <1>1, <1>4, <2>2
    <2>6. p[j] = q[j]
      BY <1>4
    <2> QED BY <2>2, <2>3, <2>4, <2>5
  <1> QED BY <1>4, <1>5 DEF Placed, a, p

\* A line that adds a message and its position keeps them placed.
LEMMA PlacedGrows ==
  ASSUME NEW lines \in Seq(LogLines), NEW l \in LogLines, Placed(lines), NEW i \in Items,
         LET a == Append(lines, l)
         IN  /\ UserPositions(a) = Append(UserPositions(lines), Len(lines) + 1)
             /\ Users(a) = Append(Users(lines), i)
  PROVE  Placed(Append(lines, l))
  <1> DEFINE a == Append(lines, l)
             p == UserPositions(lines)
             u == Users(lines)
  <1>1. Len(a) = Len(lines) + 1 /\ a \in Seq(LogLines) /\ Len(lines) \in Nat
        /\ \A m \in 0..Len(lines) : SubSeq(a, 1, m) = SubSeq(lines, 1, m)
        /\ SubSeq(lines, 1, Len(lines)) = lines
    OBVIOUS
  <1>2. u \in Seq(Items)
    BY <1>1, ReplayType, OfKindItems DEF Users
  <1>3. p \in Seq(Nat)
    BY <1>1, PositionsType
  <1>4. UserPositions(a) = Append(p, Len(lines) + 1) /\ Users(a) = Append(u, i) /\ Len(p) = Len(u)
    BY DEF Placed
  <1>5. \A j \in 1..Len(p) : p[j] \in 1..Len(lines) /\ Users(SubSeq(lines, 1, p[j] - 1)) = SubSeq(u, 1, j - 1)
    BY DEF Placed
  <1>6. \A j \in 1..(Len(u) + 1) : SubSeq(Append(u, i), 1, j - 1) = SubSeq(u, 1, j - 1)
    BY <1>2
  <1>7. SubSeq(u, 1, Len(u)) = u
    BY <1>2
  <1>10. u = Users(lines)
    OBVIOUS
  <1> HIDE DEF a, p, u
  <1> DEFINE q == Append(p, Len(lines) + 1)
  <1>8. ASSUME NEW j \in 1..(Len(p) + 1)
        PROVE  q[j] \in 1..Len(a) /\ Users(SubSeq(a, 1, q[j] - 1)) = SubSeq(Append(u, i), 1, j - 1)
    <2>1. CASE j \in 1..Len(p)
      <3>1. q[j] = p[j] /\ p[j] \in 1..Len(lines) /\ Users(SubSeq(lines, 1, p[j] - 1)) = SubSeq(u, 1, j - 1)
        BY <1>1, <1>3, <1>5, <2>1
      <3>2. SubSeq(a, 1, q[j] - 1) = SubSeq(lines, 1, p[j] - 1) /\ q[j] \in 1..Len(a)
        <4> HIDE DEF q
        <4>1. p[j] - 1 \in 0..Len(lines) /\ q[j] \in 1..Len(a)
          BY <1>1, <3>1
        <4> QED BY <1>1, <3>1, <4>1
      <3>3. SubSeq(Append(u, i), 1, j - 1) = SubSeq(u, 1, j - 1)
        <4>1. j \in 1..(Len(u) + 1)
          BY <1>3, <1>4
        <4> QED BY <1>6, <4>1
      <3> QED BY <3>1, <3>2, <3>3
    <2>2. CASE j = Len(p) + 1
      <3>1. q[j] = Len(lines) + 1
        BY <1>1, <1>3, <2>2
      <3>2. q[j] - 1 = Len(lines) /\ q[j] \in 1..Len(a) /\ SubSeq(a, 1, Len(lines)) = lines
        <4> HIDE DEF q
        <4>1. q[j] - 1 = Len(lines) /\ q[j] \in 1..Len(a) /\ Len(lines) \in 0..Len(lines)
          BY <1>1, <3>1
        <4> QED BY <1>1, <4>1
      <3>3. SubSeq(Append(u, i), 1, j - 1) = u
        <4>1. j - 1 = Len(u) /\ j \in 1..(Len(u) + 1)
          BY <1>3, <1>4, <2>2
        <4> QED BY <1>6, <1>7, <4>1
      <3> QED BY <1>10, <3>2, <3>3
    <2>3. j \in 1..Len(p) \/ j = Len(p) + 1
      <3>1. Len(p) \in Nat
        BY <1>3
      <3> QED BY <3>1
    <2> QED BY <2>1, <2>2, <2>3
  <1>9. Len(q) = Len(p) + 1 /\ Len(Append(u, i)) = Len(p) + 1
    BY <1>1, <1>2, <1>3, <1>4
  <1> QED BY <1>4, <1>8, <1>9 DEF Placed, a

\* A compaction that the limit does not touch keeps the user's messages.
LEMMA CompactedUsers ==
  ASSUME NEW h \in Seq(Items), NEW s \in Items, s[1] = "summary", Fits(CollectUserMessages(h))
  PROVE  OfKind(BuildCompactedHistory(h, s), {"user"}) = OfKind(h, {"user"})
  <1> DEFINE c == OfKind(h, {"user", "clipped", "marker"})
             K == {"user"}
  <1>1. c \in Seq(Items)
    BY OfKindItems
  <1>2. OfKind(c, K) = OfKind(h, K)
    <2>1. {"user", "clipped", "marker"} \cap K = K
      OBVIOUS
    <2> QED BY <2>1, OfKindTwice
  <1>3. BuildCompactedHistory(h, s) = Append(<<Context>> \o c, s)
    BY <1>1, ContextIsItem DEF BuildCompactedHistory, CollectUserMessages, Fits
  <1>4. <<Context>> \in Seq(Items) /\ <<Context>> \o c \in Seq(Items)
    BY <1>1, ContextIsItem
  <1>5. OfKind(<<Context>>, K) = <<>>
    <2>1. \A k \in DOMAIN <<Context>> : <<Context>>[k][1] \notin K
      BY DEF Context
    <2> QED BY <1>4, <2>1, OfKindNone
  <1>6. OfKind(c, K) \in Seq(Items)
    BY <1>1, OfKindItems
  <1> HIDE DEF c
  <1>7. OfKind(<<Context>> \o c, K) = <<>> \o OfKind(c, K)
    <2>1. OfKind(<<Context>> \o c, K) = OfKind(<<Context>>, K) \o OfKind(c, K)
      <3> DEFINE x == <<Context>>
      <3>1. x \in Seq(Items) /\ c \in Seq(Items)
        BY <1>1, <1>4
      <3> HIDE DEF x, K
      <3>2. OfKind(x \o c, K) = OfKind(x, K) \o OfKind(c, K)
        BY <3>1, OfKindConcat
      <3> QED BY <3>2 DEF x
    <2> QED BY <1>5, <2>1
  <1>8. OfKind(Append(<<Context>> \o c, s), K) = OfKind(<<Context>> \o c, K)
    <2> DEFINE d == <<Context>> \o c
    <2>1. d \in Seq(Items) /\ s[1] \notin K
      BY <1>4
    <2> HIDE DEF d, K
    <2>2. OfKind(Append(d, s), K) = OfKind(d, K)
      BY <2>1, OfKindAppend
    <2> QED BY <2>2 DEF d
  <1> QED BY <1>2, <1>3, <1>6, <1>7, <1>8

\* Every line keeps the messages placed.
LEMMA PlacedStep ==
  ASSUME NEW lines \in Seq(LogLines), NEW l \in LogLines, Placed(lines),
         Counts(Append(lines, l)), Proper(Append(lines, l))
  PROVE  Placed(Append(lines, l))
  <1> DEFINE a == Append(lines, l)
             h == Replay(lines)
             p == UserPositions(lines)
             k == Len(lines) + 1
  <1>1. a[k] = l /\ h \in Seq(Items) /\ p \in Seq(Nat)
    BY ReplayType, PositionsType
  <1>2. Replay(a) = ReplayLine(h, l) /\ UserPositions(a) = CountPosition(a, p, k)
    BY ReplayAppend, PositionsAppend
  <1>3. /\ Counts(lines) /\ Proper(lines) /\ ProperLine(l) /\ l.kind # "replaced"
        /\ l.kind = "rolledBack" => NoneCompacted(lines)
        /\ l.kind = "compacted" => Fits(CollectUserMessages(h))
    BY CountsBefore
  <1>4. Len(p) = Len(Users(lines)) /\ Users(lines) = OfKind(h, {"user"}) /\ Users(lines) \in Seq(Items)
    BY <1>1, OfKindItems DEF Placed, Users
  <1> HIDE DEF a, h, p, k
  <1>5. CASE l.kind = "item"
    <2>1. l.item \in Items /\ l.item[1] \notin {"summary", "clipped"}
      BY <1>3, <1>5, LineFields DEF ProperLine
    <2>2. Replay(a) = Append(h, l.item)
      BY <1>2, <1>5, ReplayLineKinds
    <2>3. Users(a) = IF l.item[1] \in {"user"} THEN Append(Users(lines), l.item) ELSE Users(lines)
      <3>1. OfKind(Append(h, l.item), {"user"}) =
               IF l.item[1] \in {"user"} THEN Append(OfKind(h, {"user"}), l.item) ELSE OfKind(h, {"user"})
        <4> DEFINE i == l.item
        <4>1. i \in Items /\ h \in Seq(Items)
          BY <1>1, <2>1
        <4> HIDE DEF i
        <4>2. OfKind(Append(h, i), {"user"}) =
                 IF i[1] \in {"user"} THEN Append(OfKind(h, {"user"}), i) ELSE OfKind(h, {"user"})
          BY <4>1, OfKindAppend
        <4> QED BY <4>2 DEF i
      <3>2. Users(a) = OfKind(Append(h, l.item), {"user"})
        BY <2>2 DEF Users
      <3> QED BY <1>4, <3>1, <3>2
    <2>4. CASE l.item[1] = "user"
      <3>1. UserPositions(a) = Append(p, k)
        BY <1>1, <1>2, <1>5, <2>4, CountPositionKinds DEF BeginsTurn, Boundaries
      <3> QED BY <2>1, <2>3, <2>4, <3>1, PlacedGrows DEF a, p, k
    <2>5. CASE l.item[1] # "user"
      <3>1. UserPositions(a) = p
        BY <1>1, <1>2, <1>5, <2>1, <2>5, CountPositionKinds DEF BeginsTurn, Boundaries
      <3>2. Users(a) = Users(lines)
        BY <2>3, <2>5
      <3>3. /\ Len(UserPositions(a)) = Len(Users(a))
            /\ Len(Users(a)) <= Len(Users(lines))
            /\ \A j \in 1..Len(Users(a)) : /\ UserPositions(a)[j] = p[j]
                                           /\ Users(a)[j] = Users(lines)[j]
        BY <1>4, <3>1, <3>2
      <3> QED BY <3>3, PlacedStays DEF a, p
    <2> QED BY <2>4, <2>5
  <1>6. CASE l.kind = "compacted"
    <2>1. l.item \in Items /\ l.item[1] = "summary"
      BY <1>3, <1>6, LineFields DEF ProperLine
    <2>2. Replay(a) = BuildCompactedHistory(h, l.item)
      BY <1>2, <1>6, ReplayLineKinds
    <2>3. Users(a) = Users(lines)
      BY <1>1, <1>3, <1>4, <1>6, <2>1, <2>2, CompactedUsers DEF Users
    <2>4. UserPositions(a) = p
      BY <1>1, <1>2, <1>6, CountPositionKinds
    <2>5. /\ Len(UserPositions(a)) = Len(Users(a))
          /\ Len(Users(a)) <= Len(Users(lines))
          /\ \A j \in 1..Len(Users(a)) : /\ UserPositions(a)[j] = p[j]
                                         /\ Users(a)[j] = Users(lines)[j]
      BY <1>4, <2>3, <2>4
    <2> QED BY <2>5, PlacedStays DEF a, p
  <1>7. CASE l.kind = "rolledBack"
    <2> DEFINE n == l.turns
               kept == OfKind(DropLastUserTurns(h, n), {"user"})
               cutp == SubSeq(p, 1, Len(p) - n)
    <2>1. n \in Nat \ {0}
      BY <1>7, LineFields
    <2>2. OfKind(h, Compacted) = <<>>
      BY <1>3, <1>7, SummaryReplayed DEF h
    <2>3. Users(a) = kept
      BY <1>2, <1>7, ReplayLineKinds DEF Users
    <2>4. UserPositions(a) = cutp
      BY <1>1, <1>2, <1>7, CountPositionKinds
    <2>5. /\ Len(kept) = IF n >= Len(Users(lines)) THEN 0 ELSE Len(Users(lines)) - n
          /\ \A j \in 1..Len(kept) : kept[j] = Users(lines)[j]
      <3>1. /\ Len(kept) = IF n >= Len(OfKind(h, {"user"})) THEN 0 ELSE Len(OfKind(h, {"user"})) - n
            /\ \A j \in 1..Len(kept) : kept[j] = OfKind(h, {"user"})[j]
        <4>1. h \in Seq(Items)
          BY <1>1
        <4> QED BY <2>1, <2>2, <4>1, DropLastUsers
      <3> HIDE DEF kept, n
      <3> QED BY <1>4, <3>1
    <2>6. /\ Len(cutp) = IF n >= Len(p) THEN 0 ELSE Len(p) - n
          /\ \A j \in 1..Len(cutp) : cutp[j] = p[j]
      BY <1>1, <2>1, Shortened
    <2> HIDE DEF n, kept, cutp
    <2>7. Len(cutp) = Len(kept) /\ Len(kept) <= Len(Users(lines))
      BY <1>4, <2>1, <2>5, <2>6
    <2>8. /\ Len(UserPositions(a)) = Len(Users(a))
          /\ Len(Users(a)) <= Len(Users(lines))
          /\ \A j \in 1..Len(Users(a)) : /\ UserPositions(a)[j] = p[j]
                                         /\ Users(a)[j] = Users(lines)[j]
      BY <2>3, <2>4, <2>5, <2>6, <2>7
    <2> QED BY <2>8, PlacedStays DEF a, p
  <1> QED BY <1>3, <1>5, <1>6, <1>7, LineFields

\* The messages of every rollout are placed.
LEMMA AllPlaced ==
  ASSUME NEW lines \in Seq(LogLines), Counts(lines), Proper(lines)
  PROVE  Placed(lines)
  <1> DEFINE T == {g \in Seq(LogLines) : Counts(g) /\ Proper(g) => Placed(g)}
  <1>1. <<>> \in T
    <2>1. <<>> \in Seq(LogLines) /\ Len(<<>>) = 0
      OBVIOUS
    <2>2. UserPositions(<<>>) = <<>> /\ Users(<<>>) = <<>>
      BY PositionsEmpty, ReplayEmpty, OfKindEmpty DEF Users
    <2> QED BY <2>1, <2>2 DEF Placed
  <1>2. ASSUME NEW g \in Seq(LogLines), NEW l \in LogLines, g \in T PROVE Append(g, l) \in T
    <2>1. Append(g, l) \in Seq(LogLines)
      OBVIOUS
    <2> SUFFICES ASSUME Counts(Append(g, l)), Proper(Append(g, l)) PROVE Placed(Append(g, l))
      BY <2>1
    <2>2. Placed(g)
      BY <1>2, CountsBefore
    <2> QED BY <2>2, PlacedStep
  <1>3. Seq(LogLines) \subseteq T
    <2> HIDE DEF T
    <2> QED BY <1>1, <1>2, SeqInduction
  <1> QED BY <1>3

\* A fork before the n-th message keeps the messages before it.
LEMMA InvForks == Inv => ForkKeepsTurnsBefore
  <1> DEFINE users == Users(log)
             p == UserPositions(log)
  <1> SUFFICES ASSUME Inv, LinesCount
               PROVE  /\ Len(p) = Len(users)
                      /\ \A n \in 0..(Len(users) - 1) :
                            OfKind(Replay(TruncateBefore(log, n)), {"user"}) = SubSeq(users, 1, n)
    BY DEF ForkKeepsTurnsBefore, Users
  <1>1. log \in Seq(LogLines) /\ Proper(log) /\ Counts(log)
    BY TypeParts DEF Inv, DataOK, LogProper, LinesCount, Counts
  <1>2. Placed(log) /\ users \in Seq(Items) /\ p \in Seq(Nat)
    BY <1>1, AllPlaced, ReplayType, OfKindItems, PositionsType DEF Users
  <1>3. Len(p) = Len(users)
    BY <1>2 DEF Placed
  <1>4. ASSUME NEW n \in 0..(Len(users) - 1)
        PROVE  OfKind(Replay(TruncateBefore(log, n)), {"user"}) = SubSeq(users, 1, n)
    <2>1. n + 1 \in 1..Len(p) /\ ~(Len(p) <= n) /\ (n + 1) - 1 = n
      BY <1>2, <1>3
    <2>2. TruncateBefore(log, n) = SubSeq(log, 1, p[n + 1] - 1)
      BY <2>1 DEF TruncateBefore
    <2>3. Users(SubSeq(log, 1, p[n + 1] - 1)) = SubSeq(users, 1, (n + 1) - 1)
      BY <1>2, <2>1 DEF Placed
    <2> QED BY <2>1, <2>2, <2>3 DEF Users
  <1> QED BY <1>3, <1>4

\* A fork (truncate_rollout_before_nth_user_message_from_start) replays to exactly the user's
\* messages before the n-th one, as long as no rollback follows a compaction, no compaction
\* had to leave messages out, and the server has not replaced the history.
THEOREM HistoryForks == Spec => []ForkKeepsTurnsBefore
  BY InvForks, InvAlways, PTL
=============================================================================
