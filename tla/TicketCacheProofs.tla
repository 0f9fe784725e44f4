-------------------------- MODULE TicketCacheProofs --------------------------
(***************************************************************************)
(* Theorems about TicketCache, for any number of connections, any lists of *)
(* tickets and any limit: the shape of the state, that only the holder of  *)
(* a Config's mutex changes its list, that storeSessionTicket with its     *)
(* in-place filter implements TicketStore, and that no ticket is lost.     *)
(***************************************************************************)
EXTENDS TicketCache, SequenceTheorems, FiniteSetTheorems, NaturalsInduction, TLAPS

---------------------------------------------------------------------------
(* Loops *)

(* A set of natural numbers with an element has a smallest one.            *)
LEMMA Smallest ==
  ASSUME NEW S, S \subseteq Nat, S # {}
  PROVE  \E x \in S : \A y \in S : x <= y
<1> DEFINE R == {p \in Nat \X Nat : p[1] < p[2]}
<1>1. IsWellFoundedOn(R, Nat)
  BY NatLessThanWellFounded DEF OpToRel
<1>2. PICK x \in S : \A y \in S : <<y, x>> \notin R
  BY <1>1, WFMin
<1>3. \A y \in S : x <= y
  <2> TAKE y \in S
  <2>1. <<y, x>> \in Nat \X Nat /\ <<y, x>>[1] = y /\ <<y, x>>[2] = x
    OBVIOUS
  <2> QED
    BY <1>2, <2>1
<1> QED
  BY <1>3

(* What holds before a loop and after each of its n turns if it did before *)
(* the turn, holds after the loop.                                         *)
LEMMA Turns ==
  ASSUME NEW n \in Nat, NEW S, 0 \in S, \A i \in 1..n : i - 1 \in S => i \in S
  PROVE  \A i \in 0..n : i \in S
<1> DEFINE Bad == {i \in 0..n : i \notin S}
<1>1. SUFFICES ASSUME Bad # {} PROVE FALSE
  OBVIOUS
<1>2. Bad \subseteq Nat
  OBVIOUS
<1>3. PICK x \in Bad : \A y \in Bad : x <= y
  BY <1>1, <1>2, Smallest
<1>4. x \in 1..n /\ x - 1 \notin Bad /\ x - 1 \in 0..n
  BY <1>3
<1> QED
  BY <1>3, <1>4

(* The values a variable takes in a loop of n turns: a before it, and      *)
(* turn[i][v] after turn i if it was v before.                             *)
Loops(n, X, a, turn) ==
  \E f \in [0..n -> X] : f[0] = a /\ \A i \in 1..n : f[i] = turn[i][f[i - 1]]

(* A loop has such a run.                                                  *)
LEMMA LoopRuns ==
  ASSUME NEW n \in Nat, NEW X, NEW a \in X, NEW turn \in [1..n -> [X -> X]]
  PROVE  Loops(n, X, a, turn)
<1> DEFINE Runs(m, f) == f[0] = a /\ \A i \in 1..m : f[i] = turn[i][f[i - 1]]
           S == {m \in 0..n : \E f \in [0..m -> X] : Runs(m, f)}
<1>1. 0 \in S
  <2> DEFINE f == [i \in 0..0 |-> a]
  <2>1. f \in [0..0 -> X] /\ Runs(0, f)
    OBVIOUS
  <2>2. 0 \in 0..n
    OBVIOUS
  <2> HIDE DEF f, Runs
  <2> QED
    BY <2>1, <2>2
<1>2. ASSUME NEW m \in 1..n, m - 1 \in S PROVE m \in S
  <2>1. PICK g \in [0 .. m - 1 -> X] : Runs(m - 1, g)
    BY <1>2
  <2> DEFINE f == [i \in 0..m |-> IF i = m THEN turn[m][g[m - 1]] ELSE g[i]]
  <2>2. turn[m] \in [X -> X] /\ g[m - 1] \in X
    BY <1>2
  <2>3. f \in [0..m -> X]
    BY <2>2
  <2>4. \A i \in 1..m : f[i] = turn[i][f[i - 1]]
    <3> TAKE i \in 1..m
    <3>1. f[i - 1] = g[i - 1]
      OBVIOUS
    <3>2. CASE i = m
      BY <3>1, <3>2
    <3>3. CASE i # m
      <4>1. i \in 1 .. m - 1 /\ f[i] = g[i]
        BY <3>3
      <4> QED
        BY <2>1, <3>1, <4>1
    <3> QED
      BY <3>2, <3>3
  <2>5. Runs(m, f)
    BY <2>1, <2>4
  <2> HIDE DEF f, Runs
  <2> QED
    BY <1>2, <2>3, <2>5
<1>3. \A m \in 0..n : m \in S
  <2> HIDE DEF S
  <2> QED
    BY <1>1, <1>2, Turns
<1> QED
  BY <1>3 DEF Loops

(* The variable keeps its type.                                            *)
LEMMA LoopType ==
  ASSUME NEW n \in Nat, NEW X, NEW g, g = [i \in 0..n |-> g[i]], g[0] \in X,
         \A i \in 1..n : g[i - 1] \in X => g[i] \in X
  PROVE  g \in [0..n -> X]
<1> DEFINE S == {i \in 0..n : g[i] \in X}
<1>1. 0 \in S
  OBVIOUS
<1>2. \A i \in 1..n : i - 1 \in S => i \in S
  OBVIOUS
<1> HIDE DEF S
<1>3. \A i \in 0..n : i \in S
  BY <1>1, <1>2, Turns
<1>4. \A i \in 0..n : g[i] \in X
  BY <1>3 DEF S
<1> QED
  BY <1>4

---------------------------------------------------------------------------
(* The lists storeSessionTicket makes *)

(* The list without the tickets that have the bytes id is made in a turn   *)
(* per ticket.                                                             *)
WithoutTurns(f, s, id) ==
  /\ Store!Without(s, id) = f[Len(s)]
  /\ f[0] = <<>>
  /\ \A i \in 1..Len(s) :
       f[i] = IF s[i].id = id THEN f[i - 1] ELSE Append(f[i - 1], s[i])

(* The loop that leaves out a ticket's other copies ends in Without.       *)
LEMMA WithoutRuns ==
  ASSUME NEW T, NEW s \in Seq(T), NEW id
  PROVE  \E f \in [0..Len(s) -> Seq(T)] : WithoutTurns(f, s, id)
<1> DEFINE n == Len(s)
           X == Seq(T)
           a == <<>>
           Skips(i, v) == s[i].id = id
           Turn(i, v) == IF Skips(i, v) THEN v ELSE Append(v, s[i])
           Body(f) == [i \in 0..n |-> IF i = 0 THEN a ELSE Turn(i, f[i - 1])]
           turn == [i \in 1..n |-> [v \in X |-> Turn(i, v)]]
           g == CHOOSE f : f = Body(f)
<1>1. n \in Nat /\ a \in X /\ \A i \in 1..n : s[i] \in T
  OBVIOUS
<1>2. \A i \in 1..n, v \in X : Turn(i, v) \in X
  <2> HIDE DEF Skips
  <2> QED
    BY <1>1
<1>3. Store!Without(s, id) = g[n]
  BY DEF Store!Without
<1> HIDE DEF n, X, a, Turn
<1>4. turn \in [1..n -> [X -> X]]
  BY <1>2
<1>5. \E f : f = Body(f)
  <2>1. PICK f \in [0..n -> X] : f[0] = a /\ \A i \in 1..n : f[i] = turn[i][f[i - 1]]
    <3> HIDE DEF turn
    <3>1. Loops(n, X, a, turn)
      BY <1>1, <1>4, LoopRuns
    <3> QED
      BY <3>1 DEF Loops
  <2>2. \A i \in 0..n : f[i] = IF i = 0 THEN a ELSE Turn(i, f[i - 1])
    <3>1. \A i \in 1..n : f[i - 1] \in X
      BY <1>1
    <3>2. \A i \in 1..n : turn[i][f[i - 1]] = Turn(i, f[i - 1])
      BY <3>1
    <3> HIDE DEF turn
    <3> QED
      BY <1>1, <2>1, <3>2
  <2>3. f = [i \in 0..n |-> f[i]]
    BY <2>1
  <2>4. f = Body(f)
    BY <2>2, <2>3
  <2> QED
    BY <2>4
<1>6. g = Body(g)
  <2> HIDE DEF Body
  <2> QED
    BY <1>5, Zenon
<1> HIDE DEF g
<1>7. /\ g = [i \in 0..n |-> g[i]] /\ g[0] = a
      /\ \A i \in 1..n : g[i] = Turn(i, g[i - 1])
  BY <1>1, <1>6
<1>8. g \in [0..n -> X]
  <2>1. g[0] \in X /\ \A i \in 1..n : g[i - 1] \in X => g[i] \in X
    BY <1>1, <1>2, <1>7
  <2> QED
    BY <1>1, <1>7, <2>1, LoopType, Zenon
<1> QED
  BY <1>3, <1>7, <1>8 DEF WithoutTurns, n, X, a, Turn

(* The new list is made in a turn per ticket of the old one.               *)
PrependedTurns(f, t, s) ==
  /\ Prepended(t, s) = f[Len(s)]
  /\ f[0] = <<t>>
  /\ \A i \in 1..Len(s) :
       f[i] = IF \/ s[i].id = t.id
                 \/ Len(f[i - 1]) > 1 /\ Len(f[i - 1]) >= EffectiveLimit
              THEN f[i - 1] ELSE Append(f[i - 1], s[i])

(* The loop of storeSessionTicket ends in Prepended.                       *)
LEMMA PrependedRuns ==
  ASSUME NEW T, NEW t \in T, NEW s \in Seq(T)
  PROVE  \E f \in [0..Len(s) -> Seq(T)] : PrependedTurns(f, t, s)
<1> DEFINE n == Len(s)
           X == Seq(T)
           a == <<t>>
           Skips(i, v) == s[i].id = t.id \/ (Len(v) > 1 /\ Len(v) >= EffectiveLimit)
           Turn(i, v) == IF Skips(i, v) THEN v ELSE Append(v, s[i])
           Body(f) == [i \in 0..n |-> IF i = 0 THEN a ELSE Turn(i, f[i - 1])]
           turn == [i \in 1..n |-> [v \in X |-> Turn(i, v)]]
           g == CHOOSE f : f = Body(f)
<1>1. n \in Nat /\ a \in X /\ \A i \in 1..n : s[i] \in T
  OBVIOUS
<1>2. \A i \in 1..n, v \in X : Turn(i, v) \in X
  <2> HIDE DEF Skips
  <2> QED
    BY <1>1
<1>3. Prepended(t, s) = g[n]
  BY DEF Prepended
<1> HIDE DEF n, X, a, Turn
<1>4. turn \in [1..n -> [X -> X]]
  BY <1>2
<1>5. \E f : f = Body(f)
  <2>1. PICK f \in [0..n -> X] : f[0] = a /\ \A i \in 1..n : f[i] = turn[i][f[i - 1]]
    <3> HIDE DEF turn
    <3>1. Loops(n, X, a, turn)
      BY <1>1, <1>4, LoopRuns
    <3> QED
      BY <3>1 DEF Loops
  <2>2. \A i \in 0..n : f[i] = IF i = 0 THEN a ELSE Turn(i, f[i - 1])
    <3>1. \A i \in 1..n : f[i - 1] \in X
      BY <1>1
    <3>2. \A i \in 1..n : turn[i][f[i - 1]] = Turn(i, f[i - 1])
      BY <3>1
    <3> HIDE DEF turn
    <3> QED
      BY <1>1, <2>1, <3>2
  <2>3. f = [i \in 0..n |-> f[i]]
    BY <2>1
  <2>4. f = Body(f)
    BY <2>2, <2>3
  <2> QED
    BY <2>4
<1>6. g = Body(g)
  <2> HIDE DEF Body
  <2> QED
    BY <1>5, Zenon
<1> HIDE DEF g
<1>7. /\ g = [i \in 0..n |-> g[i]] /\ g[0] = a
      /\ \A i \in 1..n : g[i] = Turn(i, g[i - 1])
  BY <1>1, <1>6
<1>8. g \in [0..n -> X]
  <2>1. g[0] \in X /\ \A i \in 1..n : g[i - 1] \in X => g[i] \in X
    BY <1>1, <1>2, <1>7
  <2> QED
    BY <1>1, <1>7, <2>1, LoopType, Zenon
<1> QED
  BY <1>3, <1>7, <1>8 DEF PrependedTurns, n, X, a, Turn

(* The new ticket and those of the others there is room for.               *)
Full(t, s) == <<t>> \o SubSeq(s, 1, IF Len(s) < Room THEN Len(s) ELSE Room - 1)

(* The limit is positive, and an insertion leaves room for two.            *)
LEMMA LimitType == EffectiveLimit \in Nat \ {0} /\ Room \in Nat /\ Room >= 2
  BY TicketAssumption DEF EffectiveLimit, Room

Filled(q, t, s) ==
  /\ Len(q) = IF Len(s) < Room THEN Len(s) + 1 ELSE Room
  /\ \A i \in 1..Len(q) : q[i] = IF i = 1 THEN t ELSE s[i - 1]

(* Full is what its name says: the new ticket, then the old ones in order. *)
LEMMA FullType ==
  ASSUME NEW T, NEW t \in T, NEW s \in Seq(T)
  PROVE  Full(t, s) \in Seq(T) /\ Filled(Full(t, s), t, s)
<1> DEFINE k == IF Len(s) < Room THEN Len(s) ELSE Room - 1
           u == SubSeq(s, 1, k)
<1>1. k \in Nat /\ k <= Len(s) /\ Len(s) \in Nat
  BY LimitType
<1>2. \A i \in 1..k : s[i] \in T
  BY <1>1
<1> HIDE DEF k
<1>3. u \in Seq(T) /\ Len(u) = k /\ \A i \in 1..k : u[i] = s[i]
  BY <1>1, <1>2, SubSeqProperties
<1> HIDE DEF u
<1>4. /\ <<t>> \o u \in Seq(T) /\ Len(<<t>> \o u) = 1 + k
      /\ \A i \in 1 .. 1 + k : (<<t>> \o u)[i] = IF i = 1 THEN t ELSE u[i - 1]
  BY <1>1, <1>3
<1>5. \A i \in 1 .. 1 + k : (<<t>> \o u)[i] = IF i = 1 THEN t ELSE s[i - 1]
  BY <1>1, <1>3, <1>4
<1>6. Full(t, s) = <<t>> \o u
  BY DEF Full, u, k
<1>7. 1 + k = IF Len(s) < Room THEN Len(s) + 1 ELSE Room
  BY <1>1, LimitType DEF k
<1> QED
  BY <1>4, <1>5, <1>6, <1>7 DEF Filled

(* One other ticket more, if there is room for it.                         *)
LEMMA OneMore ==
  ASSUME NEW T, NEW t \in T, NEW x \in T, NEW s \in Seq(T)
  PROVE  Full(t, Append(s, x)) =
           IF Len(Full(t, s)) >= Room THEN Full(t, s) ELSE Append(Full(t, s), x)
<1> DEFINE a == Full(t, Append(s, x))
           f == Full(t, s)
           b == IF Len(f) >= Room THEN f ELSE Append(f, x)
<1>1. /\ Append(s, x) \in Seq(T) /\ Len(Append(s, x)) = Len(s) + 1 /\ Len(s) \in Nat
      /\ \A i \in 1..Len(s) : Append(s, x)[i] = s[i]
      /\ Append(s, x)[Len(s) + 1] = x
  BY AppendProperties
<1>2. /\ f \in Seq(T) /\ Len(f) = IF Len(s) < Room THEN Len(s) + 1 ELSE Room
      /\ \A i \in 1..Len(f) : f[i] = IF i = 1 THEN t ELSE s[i - 1]
  BY FullType DEF Filled
<1>3. /\ a \in Seq(T) /\ Len(a) = IF Len(s) + 1 < Room THEN Len(s) + 2 ELSE Room
      /\ \A i \in 1..Len(a) : a[i] = IF i = 1 THEN t ELSE Append(s, x)[i - 1]
  <2>1. a \in Seq(T) /\ Filled(a, t, Append(s, x))
    BY <1>1, FullType
  <2> HIDE DEF a
  <2>2. Len(a) = IF Len(Append(s, x)) < Room THEN Len(Append(s, x)) + 1 ELSE Room
    BY <2>1 DEF Filled
  <2>3. \A i \in 1..Len(a) : a[i] = IF i = 1 THEN t ELSE Append(s, x)[i - 1]
    BY <2>1 DEF Filled
  <2> QED
    BY <1>1, <2>1, <2>2, <2>3, LimitType
<1> HIDE DEF a, f
<1>4. /\ Append(f, x) \in Seq(T) /\ Len(Append(f, x)) = Len(f) + 1
      /\ \A i \in 1..Len(f) : Append(f, x)[i] = f[i]
      /\ Append(f, x)[Len(f) + 1] = x
  BY <1>2, AppendProperties
<1>5. CASE Len(f) >= Room
  <2>1. Len(s) >= Room - 1 /\ Len(f) = Room /\ Len(a) = Room
    BY <1>1, <1>2, <1>3, <1>5, LimitType
  <2>2. \A i \in 1..Len(a) : a[i] = f[i]
    BY <1>1, <1>2, <1>3, <2>1, LimitType
  <2>3. a = f
    BY <1>2, <1>3, <2>1, <2>2, SeqEqual
  <2> QED
    BY <1>5, <2>3 DEF a, f
<1>6. CASE ~(Len(f) >= Room)
  <2>1. Len(s) + 1 < Room /\ Len(f) = Len(s) + 1 /\ Len(a) = Len(f) + 1
    BY <1>1, <1>2, <1>3, <1>6, LimitType
  <2>2. \A i \in 1..Len(a) : a[i] = Append(f, x)[i]
    <3> TAKE i \in 1..Len(a)
    <3>1. CASE i = 1
      BY <1>1, <1>2, <1>3, <1>4, <2>1, <3>1
    <3>2. CASE i \in 2..Len(f)
      <4>1. i - 1 \in 1..Len(s) /\ i \in 1..Len(f) /\ i \in 1..Len(a) /\ i # 1
        BY <1>1, <2>1, <3>2
      <4>2. a[i] = s[i - 1] /\ f[i] = s[i - 1]
        BY <1>1, <1>2, <1>3, <4>1
      <4> QED
        BY <1>4, <4>1, <4>2
    <3>3. CASE i = Len(f) + 1
      BY <1>1, <1>2, <1>3, <1>4, <2>1, <3>3
    <3> QED
      BY <1>1, <2>1, <3>1, <3>2, <3>3
  <2>3. a = Append(f, x)
    BY <1>3, <1>4, <2>1, <2>2, SeqEqual
  <2> QED
    BY <1>6, <2>3 DEF a, f
<1> QED
  BY <1>5, <1>6

(* The list storeSessionTicket makes is the one TicketStore asks for.      *)
LEMMA PrependedIsInsert ==
  ASSUME NEW T, NEW t \in T, NEW s \in Seq(T)
  PROVE  Prepended(t, s) = Full(t, Store!Without(s, t.id))
<1>1. PICK f \in [0..Len(s) -> Seq(T)] : PrependedTurns(f, t, s)
  BY PrependedRuns
<1>2. PICK w \in [0..Len(s) -> Seq(T)] : WithoutTurns(w, s, t.id)
  BY WithoutRuns
<1> DEFINE S == {i \in 0..Len(s) : f[i] = Full(t, w[i])}
<1>3. Len(s) \in Nat /\ \A i \in 1..Len(s) : s[i] \in T
  OBVIOUS
<1>4. 0 \in S
  <2>1. /\ <<>> \in Seq(T) /\ Len(<<>>) = 0
    OBVIOUS
  <2>2. /\ Full(t, <<>>) \in Seq(T) /\ Len(Full(t, <<>>)) = 1
        /\ Full(t, <<>>)[1] = t
    <3>1. Full(t, <<>>) \in Seq(T) /\ Filled(Full(t, <<>>), t, <<>>)
      BY <2>1, FullType
    <3> QED
      BY <2>1, <3>1, LimitType DEF Filled
  <2>3. /\ <<t>> \in Seq(T) /\ Len(<<t>>) = 1 /\ <<t>>[1] = t
    OBVIOUS
  <2>4. Full(t, <<>>) = <<t>>
    BY <2>2, <2>3, SeqEqual
  <2> QED
    BY <1>1, <1>2, <1>3, <2>4 DEF PrependedTurns, WithoutTurns
<1>5. ASSUME NEW i \in 1..Len(s), i - 1 \in S PROVE i \in S
  <2>1. i - 1 \in 0..Len(s) /\ w[i - 1] \in Seq(T) /\ f[i - 1] = Full(t, w[i - 1])
    BY <1>3, <1>5
  <2>2. Len(f[i - 1]) \in Nat
    BY <1>3, <2>1
  <2>3. (Len(f[i - 1]) > 1 /\ Len(f[i - 1]) >= EffectiveLimit) <=> Len(f[i - 1]) >= Room
    BY <2>2, LimitType DEF Room
  <2>4. CASE s[i].id = t.id
    BY <1>1, <1>2, <2>1, <2>4 DEF PrependedTurns, WithoutTurns
  <2>5. CASE s[i].id # t.id
    <3>1. w[i] = Append(w[i - 1], s[i])
      BY <1>2, <2>5 DEF WithoutTurns
    <3>2. f[i] = IF Len(f[i - 1]) >= Room THEN f[i - 1] ELSE Append(f[i - 1], s[i])
      BY <1>1, <2>3, <2>5 DEF PrependedTurns
    <3>3. Full(t, Append(w[i - 1], s[i])) =
            IF Len(Full(t, w[i - 1])) >= Room
            THEN Full(t, w[i - 1]) ELSE Append(Full(t, w[i - 1]), s[i])
      <4>1. \A v \in Seq(T), x \in T :
              Full(t, Append(v, x)) =
                IF Len(Full(t, v)) >= Room THEN Full(t, v) ELSE Append(Full(t, v), x)
        BY OneMore
      <4> QED
        BY <1>3, <2>1, <4>1
    <3>4. f[i] = Full(t, w[i])
      BY <2>1, <3>1, <3>2, <3>3
    <3> QED
      BY <1>3, <3>4
  <2> QED
    BY <2>4, <2>5
<1>6. \A i \in 0..Len(s) : i \in S
  <2> HIDE DEF S
  <2> QED
    BY <1>3, <1>4, <1>5, Turns
<1> QED
  BY <1>1, <1>2, <1>3, <1>6 DEF PrependedTurns, WithoutTurns
(* A list without some of its tickets is a list of tickets.                *)
LEMMA WithoutType ==
  ASSUME NEW T, NEW s \in Seq(T), NEW id
  PROVE  Store!Without(s, id) \in Seq(T)
<1>1. PICK f \in [0..Len(s) -> Seq(T)] : WithoutTurns(f, s, id)
  BY WithoutRuns
<1> QED
  BY <1>1 DEF WithoutTurns

(* storeSessionTicket makes a list of tickets.                             *)
LEMMA PrependedType ==
  ASSUME NEW T, NEW t \in T, NEW s \in Seq(T)
  PROVE  Prepended(t, s) \in Seq(T)
<1>1. PICK f \in [0..Len(s) -> Seq(T)] : PrependedTurns(f, t, s)
  BY PrependedRuns
<1> QED
  BY <1>1 DEF PrependedTurns

---------------------------------------------------------------------------
(* The invariant *)

Header == [array : Nat, len : Nat]
Valid(h, arrays) == h.array \in DOMAIN arrays /\ h.len \in 0..Len(arrays[h.array])

(* The shape of the state.                                                 *)
CacheTypes ==
  /\ now \in 1..MaxTime
  /\ heap \in Seq(Seq(Ticket))
  /\ header \in [Configs -> Header]
  /\ mutex \in [Configs -> Conns \cup {None}]
  /\ pc \in [Conns -> {"dial", "range", "copy", "panic", "hello", "connected",
                       "lock", "filter", "publish"}]
  /\ work \in [Conns -> [ticket : Ticket, time : Nat, at : Nat, kept : Nat]]
  /\ clone \in [Conns -> [copy : Seq(Ticket), header : Header, at : Nat \ {0}]]
  /\ offer \in [Conns -> STRING]
  /\ own \in [Conns -> Seq(Ticket)]

(* A header points into its array.                                         *)
Headers ==
  /\ \A g \in Configs : Valid(header[g], heap)
  /\ \A c \in Conns : Valid(clone[c].header, heap)

(* The mutex of a Config is held by the connection that stores a ticket.   *)
Held ==
  /\ \A c \in Conns : pc[c] \in {"filter", "publish"} => mutex[ConfigOf(c)] = c
  /\ \A g \in Configs : mutex[g] # None =>
       ConfigOf(mutex[g]) = g /\ pc[mutex[g]] \in {"filter", "publish"}

(* The ticket came in the past, and the filter does not overtake itself.   *)
Filtering ==
  \A c \in Conns :
    /\ pc[c] \in {"lock", "filter", "publish"} => work[c].ticket.received <= now
    /\ pc[c] = "lock" => work[c].at = 1 /\ work[c].kept = 0
    /\ pc[c] = "filter" => /\ work[c].kept < work[c].at
                           /\ work[c].at <= header[ConfigOf(c)].len + 1
                           /\ work[c].time <= now

Made(g) == g = Caller \/ pc[g] \in {"hello", "connected", "lock", "filter", "publish"}

(* Every Config has an array of its own, from the moment there is one; only*)
(* Dial makes one.                                                         *)
Apart ==
  /\ \A c \in Conns : c \in Dialled \/ Made(c)
  /\ \A g \in Configs : Made(g) \/ header[g] = NoHeader
  /\ \A g, h \in Configs :
       Made(g) /\ Made(h) /\ g # h => header[g].array # header[h].array

CacheInv == CacheTypes /\ Headers /\ Held /\ Filtering /\ Apart

(* What selectResumptionTicket selects is a ticket's content, or None.     *)
LEMMA Selected == ASSUME CacheTypes, Headers, NEW g \in Configs
                  PROVE  SelectTicket(Elements(header[g])) \in STRING
<1> DEFINE s == Elements(header[g])
           fits(i) == /\ Usable(s[i], now) /\ s[i].psk
                      /\ \A u \in ToSet(s) :
                           (Usable(u, now) /\ u.psk) => u.received <= s[i].received
           I == {i \in 1..Len(s) : fits(i)}
<1>1. s \in Seq(Ticket)
  BY DEF CacheTypes, Headers, Valid, Header, Elements, Array
<1>2. SelectTicket(s) = LET i == IF I # {} THEN Min(I) ELSE 0
                        IN  IF i = 0 THEN None ELSE s[i].id
  BY DEF SelectTicket, SelectInSeq
<1> HIDE DEF s, fits
<1>3. CASE I = {}
  <2> HIDE DEF I
  <2> QED
    BY <1>2, <1>3, StringAssumption DEF s
<1>4. CASE I # {}
  <2>1. I \subseteq Nat
    BY <1>1
  <2>2. PICK x \in I : \A y \in I : x <= y
    BY <1>4, <2>1, Smallest
  <2>3. Min(I) \in I
    <3> HIDE DEF I
    <3> QED
      BY <2>2 DEF Min
  <2>4. Min(I) \in 1..Len(s)
    BY <2>3
  <2>5. s[Min(I)] \in Ticket
    BY <1>1, <2>4
  <2> HIDE DEF I
  <2> QED
    BY <1>1, <1>2, <1>4, <2>4, <2>5 DEF Ticket, s
<1> QED
  BY <1>3, <1>4

(* append and make add an array and leave the others as they are.          *)
LEMMA Allocated ==
  ASSUME CacheTypes, Headers, NEW s \in Seq(Ticket), Allocate(s)
  PROVE  /\ heap' \in Seq(Seq(Ticket))
         /\ NewHeader(s) \in Header
         /\ NewHeader(s).array \notin DOMAIN heap
         /\ Valid(NewHeader(s), heap')
         /\ heap'[NewHeader(s).array] = s /\ NewHeader(s).len = Len(s)
         /\ \A h \in Header : Valid(h, heap) =>
              Valid(h, heap') /\ heap'[h.array] = heap[h.array]
<1>1. /\ heap' \in Seq(Seq(Ticket)) /\ Len(heap') = Len(heap) + 1 /\ Len(heap) \in Nat
      /\ heap'[Len(heap) + 1] = s
      /\ \A a \in 1..Len(heap) : heap'[a] = heap[a]
      /\ DOMAIN heap = 1..Len(heap) /\ DOMAIN heap' = 1..Len(heap')
  BY AppendProperties DEF CacheTypes, Allocate
<1>2. NewHeader(s) = [array |-> Len(heap) + 1, len |-> Len(s)] /\ Len(s) \in Nat
  BY DEF NewHeader
<1> DEFINE k == NewHeader(s)
<1>3. k \in Header /\ k.array = Len(heap) + 1 /\ k.len = Len(s)
  BY <1>1, <1>2 DEF Header
<1> HIDE DEF k
<1>4. k.array \notin DOMAIN heap /\ Valid(k, heap') /\ heap'[k.array] = s
  BY <1>1, <1>2, <1>3 DEF Valid
<1>5. \A h \in Header : Valid(h, heap) => Valid(h, heap') /\ heap'[h.array] = heap[h.array]
  BY <1>1 DEF Header, Valid
<1> QED
  BY <1>1, <1>3, <1>4, <1>5 DEF k

(* Every connection works with a Config.                                   *)
LEMMA ConfigType == ASSUME NEW c \in Conns
                    PROVE  /\ ConfigOf(c) \in Configs /\ Caller \in Configs
                           /\ c # None /\ c # Caller /\ (c \in Dialled => c \in Configs)
  BY TicketAssumption DEF ConfigOf, Configs

(* The zero values are values.                                             *)
LEMMA NothingYet == NoTicket \in Ticket /\ NoHeader \in Header
<1>1. FALSE \in BOOLEAN /\ 0 \in Nat
  OBVIOUS
<1>2. NoTicket \in Ticket
  BY <1>1, StringAssumption, Zenon DEF NoTicket, Ticket
<1>3. NoHeader \in Header
  BY DEF NoHeader, Header
<1> QED
  BY <1>2, <1>3

(* The program starts in the invariant.                                    *)
LEMMA CacheInit == Init => CacheInv
<1> SUFFICES ASSUME Init PROVE CacheInv
  OBVIOUS
<1> USE NothingYet
<1>1. PICK list \in Loaded :
        /\ heap = <<list>>
        /\ header = [g \in Configs |-> IF g = Caller
                                      THEN [NoHeader EXCEPT !.len = Len(list)]
                                      ELSE NoHeader]
  BY DEF Init
<1>2. list \in Seq(Ticket) /\ heap \in Seq(Seq(Ticket)) /\ Len(heap) = 1 /\ heap[1] = list
  BY <1>1, TicketAssumption
<1>3. \A g \in Configs : header[g] = [array |-> 1, len |-> IF g = Caller THEN Len(list) ELSE 0]
  BY <1>1 DEF NoHeader
<1>4. header \in [Configs -> Header]
  BY <1>1, <1>2 DEF Header, NoHeader
<1>5. \A g \in Configs : Valid(header[g], heap)
  <2> TAKE g \in Configs
  <2>1. header[g] = [array |-> 1, len |-> IF g = Caller THEN Len(list) ELSE 0]
    BY <1>3
  <2>2. DOMAIN heap = 1..1 /\ Len(list) \in Nat
    BY <1>2
  <2> QED
    BY <1>2, <2>1, <2>2 DEF Valid
<1>6. CacheTypes
  <2>1. work \in [Conns -> [ticket : Ticket, time : Nat, at : Nat, kept : Nat]]
    BY DEF Init, NoWork
  <2>2. clone \in [Conns -> [copy : Seq(Ticket), header : Header, at : Nat \ {0}]]
    BY DEF Init, NoClone
  <2>3. now \in 1..MaxTime
    BY TicketAssumption DEF Init
  <2>4. mutex = [g \in Configs |-> None] /\ offer = [c \in Conns |-> None]
    BY Zenon DEF Init
  <2>7. None \in STRING
    BY StringAssumption
  <2>5. pc \in [Conns -> {"dial", "range", "copy", "panic", "hello", "connected",
                           "lock", "filter", "publish"}]
    BY DEF Init
  <2>6. own \in [Conns -> Seq(Ticket)]
    BY DEF Init
  <2> QED
    BY <1>2, <1>4, <2>1, <2>2, <2>3, <2>4, <2>5, <2>6, <2>7 DEF CacheTypes
<1>7. \A c \in Conns : Valid(clone[c].header, heap)
  BY <1>2 DEF Init, NoClone, NoHeader, Valid
<1>8. Held /\ Filtering
  BY DEF Held, Filtering, Init
<1>9. Apart
  <2>1. \A g \in Configs : Made(g) <=> g = Caller
    BY TicketAssumption DEF Init, Made, Configs
  <2>2. \A c \in Conns : c \in Dialled \/ Made(c)
    BY DEF Init, Made
  <2> QED
    BY <1>1, <2>1, <2>2 DEF Apart
<1> QED
  BY <1>5, <1>6, <1>7, <1>8, <1>9 DEF CacheInv, Headers

(* The actions keep the invariant, one lemma for each.                     *)
LEMMA CacheHello == ASSUME CacheInv, NEW c \in Conns, Hello(c) PROVE CacheInv'
<1> USE ConfigType DEF Hello, Goto
<1>1. CacheTypes'
  BY Selected DEF CacheTypes, CacheInv
<1>2. Headers'
  BY DEF CacheInv, Headers
<1>3. Held'
  BY DEF CacheInv, Held, CacheTypes
<1>4. Filtering'
  BY DEF CacheInv, Filtering, CacheTypes
<1>5. Apart'
  BY DEF CacheInv, Apart, Made, CacheTypes
<1> QED
  BY <1>1, <1>2, <1>3, <1>4, <1>5 DEF CacheInv

(* make allocates as many zero tickets as the Config lists.                *)
LEMMA CacheCloneMake == ASSUME CacheInv, NEW c \in Conns, CloneMake(c) PROVE CacheInv'
<1> USE ConfigType DEF CloneMake, Goto
<1> DEFINE new == [i \in 1..header[Caller].len |-> NoTicket]
<1>1. new \in Seq(Ticket)
  <2>1. header[Caller].len \in Nat
    BY DEF CacheInv, CacheTypes, Header
  <2> HIDE DEF CloneMake, Goto
  <2> QED
    BY <2>1, NothingYet
<1> HIDE DEF new
<1>2. clone' = [clone EXCEPT ![c].copy = new]
  BY DEF new
<1>3. clone' \in [Conns -> [copy : Seq(Ticket), header : Header, at : Nat \ {0}]]
  <2> DEFINE k == clone[c]
  <2>1. k \in [copy : Seq(Ticket), header : Header, at : Nat \ {0}]
    BY DEF CacheInv, CacheTypes
  <2> DEFINE v == [k EXCEPT !.copy = new]
  <2>2. v \in [copy : Seq(Ticket), header : Header, at : Nat \ {0}]
    BY <1>1, <2>1
  <2>3. clone' = [clone EXCEPT ![c] = v]
    BY <1>2
  <2> HIDE DEF v, CloneMake
  <2> QED
    BY <2>2, <2>3 DEF CacheInv, CacheTypes
<1>4. \A d \in Conns : clone'[d].header = clone[d].header
  BY <1>2 DEF CacheInv, CacheTypes
<1> HIDE DEF new
<1>5. CacheTypes'
  BY <1>3 DEF CacheTypes, CacheInv
<1>6. Headers'
  BY <1>4 DEF CacheInv, Headers
<1>7. Held'
  BY DEF CacheInv, Held, CacheTypes
<1>8. Filtering'
  BY DEF CacheInv, Filtering, CacheTypes
<1>9. Apart'
  BY DEF CacheInv, Apart, Made, CacheTypes
<1> QED
  BY <1>5, <1>6, <1>7, <1>8, <1>9 DEF CacheInv

(* The header ranged over points into its array.                           *)
LEMMA CacheCloneRange == ASSUME CacheInv, NEW c \in Conns, CloneRange(c) PROVE CacheInv'
<1> USE ConfigType DEF CloneRange, Goto
<1>1. CacheTypes'
  BY DEF CacheTypes, CacheInv
<1>2. Headers'
  BY DEF CacheInv, Headers, CacheTypes
<1>3. Held'
  BY DEF CacheInv, Held, CacheTypes
<1>4. Filtering'
  BY DEF CacheInv, Filtering, CacheTypes
<1>5. Apart'
  BY DEF CacheInv, Apart, Made, CacheTypes
<1> QED
  BY <1>1, <1>2, <1>3, <1>4, <1>5 DEF CacheInv

(* What a header shows is a list of tickets.                               *)
LEMMA ShownTickets ==
  ASSUME CacheTypes, NEW h \in Header, Valid(h, heap)
  PROVE  /\ heap[h.array] \in Seq(Ticket) /\ Elements(h) \in Seq(Ticket)
         /\ Len(Elements(h)) = h.len /\ h.len \in Nat /\ h.len <= Len(heap[h.array])
         /\ \A i \in 1..h.len : Elements(h)[i] = heap[h.array][i]
<1>1. heap[h.array] \in Seq(Ticket) /\ h.len \in Nat /\ h.len <= Len(heap[h.array])
  BY DEF CacheTypes, Valid, Header
<1>2. \A i \in 1..h.len : heap[h.array][i] \in Ticket
  BY <1>1
<1> QED
  BY <1>1, <1>2, SubSeqProperties DEF Elements, Array

(* The element copied is a ticket of an array, and the array stays.        *)
LEMMA CacheCloneElement == ASSUME CacheInv, NEW c \in Conns, CloneElement(c) PROVE CacheInv'
<1> DEFINE k == clone[c]
           x == Array(k.header)[k.at]
<1>1. k.copy \in Seq(Ticket) /\ k.header \in Header /\ k.at \in Nat \ {0}
  BY DEF CacheInv, CacheTypes
<1>2. x \in Ticket
  <2>1. k.at \in 1..Len(heap[k.header.array]) /\ heap[k.header.array] \in Seq(Ticket)
    BY <1>1, ShownTickets DEF CacheInv, Headers, CloneElement
  <2> QED
    BY <2>1 DEF Array
<1> HIDE DEF x
<1>3. CASE k.at <= Len(k.copy)
  <2> DEFINE copied == [k.copy EXCEPT ![k.at] = x]
  <2>1. /\ clone' = [clone EXCEPT ![c] = [copy |-> copied, header |-> k.header,
                                          at |-> k.at + 1]]
        /\ UNCHANGED pc
    BY <1>3 DEF CloneElement, x
  <2>2. copied \in Seq(Ticket)
    BY <1>1, <1>2, <1>3, ExceptSeq
  <2> HIDE DEF copied
  <2>4. clone' \in [Conns -> [copy : Seq(Ticket), header : Header, at : Nat \ {0}]]
    BY <1>1, <2>1, <2>2 DEF CacheInv, CacheTypes
  <2>5. \A d \in Conns : clone'[d].header = clone[d].header
    BY <2>1 DEF CacheInv, CacheTypes
  <2>6. UNCHANGED <<now, heap, header, mutex, pc, work, offer, own, reported>>
    BY <2>1 DEF CloneElement
  <2> QED
    BY <2>4, <2>5, <2>6
       DEF CacheInv, CacheTypes, Headers, Held, Filtering, Apart, Made
<1>4. CASE ~(k.at <= Len(k.copy))
  <2> USE ConfigType
  <2>1. /\ pc[c] = "copy" /\ pc' = [pc EXCEPT ![c] = "panic"]
        /\ UNCHANGED <<now, heap, header, mutex, work, clone, offer, own, reported>>
    BY <1>4 DEF CloneElement, Goto
  <2>2. CacheTypes'
    BY <2>1 DEF CacheInv, CacheTypes
  <2>3. Headers'
    BY <2>1 DEF CacheInv, Headers
  <2>4. Held'
    BY <2>1 DEF CacheInv, Held, CacheTypes
  <2>5. Filtering'
    BY <2>1 DEF CacheInv, Filtering, CacheTypes
  <2>6. Apart'
    BY <2>1 DEF CacheInv, Apart, Made, CacheTypes
  <2> QED
    BY <2>2, <2>3, <2>4, <2>5, <2>6 DEF CacheInv
<1> QED
  BY <1>3, <1>4

(* The ticket stamped now came in the past.                                *)
LEMMA CacheReceive ==
  ASSUME CacheInv, NEW c \in Conns, NEW id \in Ids, NEW lifetime \in Lifetimes,
         Receive(c, id, lifetime)
  PROVE  CacheInv'
<1> USE ConfigType
<1> DEFINE t == [id |-> id, received |-> now, lifetime |-> lifetime, psk |-> TRUE]
<1>1. t \in Ticket
  <2>1. id \in STRING /\ now \in Nat /\ lifetime \in Nat /\ TRUE \in BOOLEAN
    BY TicketAssumption DEF CacheInv, CacheTypes
  <2> QED
    BY <2>1, Zenon DEF Ticket
<1>2. t.received = now
  OBVIOUS
<1> HIDE DEF t
<1>3. /\ pc[c] = "connected" /\ pc' = [pc EXCEPT ![c] = "lock"]
      /\ own' = [own EXCEPT ![c] = Append(@, t)]
      /\ work' = [work EXCEPT ![c] = [NoWork EXCEPT !.ticket = t]]
      /\ UNCHANGED <<now, heap, header, mutex, clone, offer>>
  BY DEF Receive, Goto, t
<1>4. [NoWork EXCEPT !.ticket = t] = [ticket |-> t, time |-> 0, at |-> 1, kept |-> 0]
  BY DEF NoWork
<1>5. CacheTypes'
  <2>1. own' \in [Conns -> Seq(Ticket)]
    BY <1>1, <1>3 DEF CacheInv, CacheTypes
  <2>2. work' \in [Conns -> [ticket : Ticket, time : Nat, at : Nat, kept : Nat]]
    BY <1>1, <1>3, <1>4 DEF CacheInv, CacheTypes
  <2> QED
    BY <1>3, <2>1, <2>2 DEF CacheInv, CacheTypes
<1>6. Headers'
  BY <1>3 DEF CacheInv, Headers
<1>7. Held'
  BY <1>3 DEF CacheInv, Held, CacheTypes
<1>8. Filtering'
  BY <1>2, <1>3, <1>4 DEF CacheInv, Filtering, CacheTypes
<1>9. Apart'
  BY <1>3 DEF CacheInv, Apart, Made, CacheTypes
<1> QED
  BY <1>5, <1>6, <1>7, <1>8, <1>9 DEF CacheInv

(* The clone gets an array no other Config has.                            *)
LEMMA CacheCloneDone == ASSUME CacheInv, NEW c \in Dialled, CloneDone(c) PROVE CacheInv'
<1> DEFINE s == clone[c].copy
           n == NewHeader(s)
<1> USE ConfigType
<1>1. c \in Conns /\ ConfigOf(c) = c /\ c \in Configs /\ c # Caller
  BY TicketAssumption DEF ConfigOf, Configs
<1>2. s \in Seq(Ticket)
  BY <1>1 DEF CacheInv, CacheTypes
<1>3. /\ pc[c] = "copy" /\ pc' = [pc EXCEPT ![c] = "hello"]
      /\ Allocate(s) /\ header' = [header EXCEPT ![c] = n]
      /\ UNCHANGED <<now, mutex, work, clone, offer, own, reported>>
  BY DEF CloneDone, Goto
<1>4. /\ heap' \in Seq(Seq(Ticket)) /\ n \in Header /\ n.array \notin DOMAIN heap
      /\ Valid(n, heap')
      /\ \A h \in Header : Valid(h, heap) => Valid(h, heap') /\ heap'[h.array] = heap[h.array]
  BY <1>2, <1>3, Allocated DEF CacheInv
<1> HIDE DEF n, s
<1>5. CacheTypes'
  BY <1>1, <1>3, <1>4 DEF CacheInv, CacheTypes
<1>6. Headers'
  <2>1. \A g \in Configs : Valid(header'[g], heap')
    BY <1>1, <1>3, <1>4 DEF CacheInv, CacheTypes, Headers
  <2>2. \A d \in Conns : Valid(clone'[d].header, heap')
    BY <1>3, <1>4 DEF CacheInv, CacheTypes, Headers
  <2> QED
    BY <2>1, <2>2 DEF Headers
<1>7. Held'
  BY <1>3 DEF CacheInv, Held, CacheTypes
<1>8. Filtering'
  <2>1. \A d \in Conns : pc[d] = "filter" => ConfigOf(d) # c
    <3> TAKE d \in Conns
    <3> HAVE pc[d] = "filter"
    <3> QED
      BY <1>1, <1>3 DEF ConfigOf
  <2>2. \A d \in Conns : pc'[d] \in {"lock", "filter", "publish"} => pc'[d] = pc[d]
    BY <1>3 DEF CacheInv, CacheTypes
  <2>3. \A d \in Conns : pc[d] = "filter" => header'[ConfigOf(d)] = header[ConfigOf(d)]
    BY <1>3, <2>1 DEF CacheInv, CacheTypes
  <2> QED
    BY <1>3, <2>2, <2>3 DEF CacheInv, Filtering
<1>9. Apart'
  <2>1. \A g \in Configs \ {c} : header'[g] = header[g] /\ (Made(g)' <=> Made(g))
    <3> TAKE g \in Configs \ {c}
    <3>1. header'[g] = header[g]
      BY <1>3 DEF CacheInv, CacheTypes
    <3>2. CASE g = Caller
      BY <3>1, <3>2 DEF Made
    <3>3. CASE g # Caller
      <4>1. g \in Conns
        BY <3>3, TicketAssumption DEF Configs
      <4>2. pc'[g] = pc[g]
        BY <1>3, <4>1 DEF CacheInv, CacheTypes
      <4> QED
        BY <3>1, <4>2 DEF Made
    <3> QED
      BY <3>2, <3>3
  <2>2. Made(c)' /\ header'[c] = n
    BY <1>1, <1>3 DEF CacheInv, CacheTypes, Made
  <2>3. \A g \in Configs : header[g].array # n.array
    BY <1>4 DEF CacheInv, Headers, Valid
  <2>4. \A d \in Conns : d \in Dialled \/ Made(d)'
    BY <1>3 DEF CacheInv, CacheTypes, Apart, Made
  <2> QED
    BY <2>1, <2>2, <2>3, <2>4 DEF CacheInv, Apart
<1> QED
  BY <1>5, <1>6, <1>7, <1>8, <1>9 DEF CacheInv

(* Nobody else holds the mutex or is in the filter.                        *)
LEMMA CacheLock == ASSUME CacheInv, NEW c \in Conns, Lock(c) PROVE CacheInv'
<1> USE ConfigType
<1>1. /\ pc[c] = "lock" /\ mutex[ConfigOf(c)] = None
      /\ mutex' = [mutex EXCEPT ![ConfigOf(c)] = c]
      /\ work' = [work EXCEPT ![c].time = now]
      /\ pc' = [pc EXCEPT ![c] = "filter"]
      /\ UNCHANGED <<now, heap, header, clone, offer, own, reported>>
  BY DEF Lock, Goto
<1>2. /\ work' \in [Conns -> [ticket : Ticket, time : Nat, at : Nat, kept : Nat]]
      /\ \A d \in Conns : /\ work'[d].ticket = work[d].ticket
                          /\ work'[d].at = work[d].at /\ work'[d].kept = work[d].kept
                          /\ work'[d].time = IF d = c THEN now ELSE work[d].time
  <2> DEFINE k == work[c]
             v == [k EXCEPT !.time = now]
  <2>1. k \in [ticket : Ticket, time : Nat, at : Nat, kept : Nat] /\ now \in Nat
    BY DEF CacheInv, CacheTypes
  <2> HIDE DEF k
  <2>2. /\ v \in [ticket : Ticket, time : Nat, at : Nat, kept : Nat]
        /\ v.ticket = k.ticket /\ v.at = k.at /\ v.kept = k.kept /\ v.time = now
    BY <2>1
  <2>3. work' = [work EXCEPT ![c] = v]
    BY <1>1 DEF k
  <2> HIDE DEF v
  <2> QED
    BY <2>2, <2>3 DEF CacheInv, CacheTypes, k
<1>3. \A d \in Conns : pc'[d] = IF d = c THEN "filter" ELSE pc[d]
  BY <1>1 DEF CacheInv, CacheTypes
<1>4. \A g \in Configs : mutex'[g] = IF g = ConfigOf(c) THEN c ELSE mutex[g]
  BY <1>1 DEF CacheInv, CacheTypes
<1>5. CacheTypes'
  <2>1. mutex' \in [Configs -> Conns \cup {None}]
    BY <1>1 DEF CacheInv, CacheTypes
  <2>2. pc' \in [Conns -> {"dial", "range", "copy", "panic", "hello", "connected",
                           "lock", "filter", "publish"}]
    BY <1>1 DEF CacheInv, CacheTypes
  <2> QED
    BY <1>1, <1>2, <2>1, <2>2 DEF CacheInv, CacheTypes
<1>6. Headers'
  BY <1>1 DEF CacheInv, Headers
<1>7. Held'
  <2>1. \A d \in Conns : pc'[d] \in {"filter", "publish"} => mutex'[ConfigOf(d)] = d
    <3> TAKE d \in Conns
    <3> HAVE pc'[d] \in {"filter", "publish"}
    <3>1. CASE d = c
      BY <1>4, <3>1
    <3>2. CASE d # c
      <4>1. mutex[ConfigOf(d)] = d
        BY <1>3, <3>2 DEF CacheInv, Held
      <4> QED
        BY <1>1, <1>4, <4>1
    <3> QED
      BY <3>1, <3>2
  <2>2. \A g \in Configs : mutex'[g] # None =>
          ConfigOf(mutex'[g]) = g /\ pc'[mutex'[g]] \in {"filter", "publish"}
    <3> TAKE g \in Configs
    <3> HAVE mutex'[g] # None
    <3>1. CASE g = ConfigOf(c)
      BY <1>3, <1>4, <3>1
    <3>2. CASE g # ConfigOf(c)
      <4>1. mutex'[g] = mutex[g] /\ mutex[g] \in Conns
        BY <1>4, <3>2 DEF CacheInv, CacheTypes
      <4> QED
        BY <1>3, <4>1 DEF CacheInv, Held
    <3> QED
      BY <3>1, <3>2
  <2> QED
    BY <2>1, <2>2 DEF Held
<1>8. Filtering'
  <2>1. header[ConfigOf(c)].len \in Nat /\ now \in Nat
    BY DEF CacheInv, CacheTypes, Header
  <2> QED
    BY <1>1, <1>2, <1>3, <2>1 DEF CacheInv, Filtering
<1>9. Apart'
  <2>1. \A g \in Configs \cup Conns : Made(g)' <=> Made(g)
    BY <1>1, <1>3, TicketAssumption DEF Made, Configs
  <2> QED
    BY <1>1, <2>1 DEF CacheInv, Apart
<1> QED
  BY <1>5, <1>6, <1>7, <1>8, <1>9 DEF CacheInv

(* What a turn of the filter does: the ticket the loop has come to is kept *)
(* by writing it behind those already kept.                                *)
Keeps(c) == Usable(Array(header[ConfigOf(c)])[work[c].at], work[c].time)

(* The locals and the arrays after a turn of the filter.                   *)
LEMMA FilterTurn ==
  ASSUME CacheInv, NEW c \in Conns, Filter(c)
  PROVE  LET h == header[ConfigOf(c)]
             w == work[c]
         IN  /\ pc[c] = "filter" /\ h \in Header /\ Valid(h, heap)
             /\ w.kept \in Nat /\ w.at \in Nat /\ w.kept < w.at /\ w.at <= h.len
             /\ heap[h.array] \in Seq(Ticket) /\ heap[h.array][w.at] \in Ticket
             /\ Elements(h) \in Seq(Ticket) /\ Len(Elements(h)) = h.len
             /\ h.len \in Nat /\ h.len <= Len(heap[h.array])
             /\ h.array \in DOMAIN heap /\ w.kept + 1 \in 1..Len(heap[h.array])
             /\ \A d \in Conns : d # c => work'[d] = work[d]
             /\ work' \in [Conns -> [ticket : Ticket, time : Nat, at : Nat, kept : Nat]]
             /\ work'[c].at = w.at + 1 /\ work'[c].time = w.time
             /\ work'[c].ticket = w.ticket
             /\ work'[c].kept = IF Keeps(c) THEN w.kept + 1 ELSE w.kept
             /\ heap' = IF Keeps(c)
                        THEN [heap EXCEPT ![h.array] =
                                [heap[h.array] EXCEPT ![w.kept + 1] = heap[h.array][w.at]]]
                        ELSE heap
             /\ UNCHANGED <<now, header, mutex, pc, clone, offer, own, reported>>
<1> DEFINE h == header[ConfigOf(c)]
           w == work[c]
           t == heap[h.array][w.at]
<1>1. /\ pc[c] = "filter" /\ w.at <= h.len
      /\ UNCHANGED <<now, header, mutex, pc, clone, offer, own, reported>>
  BY DEF Filter
<1>2. /\ h \in Header /\ Valid(h, heap) /\ w.kept < w.at
      /\ w \in [ticket : Ticket, time : Nat, at : Nat, kept : Nat]
  BY <1>1, ConfigType DEF CacheInv, CacheTypes, Headers, Filtering
<1>3. /\ heap[h.array] \in Seq(Ticket) /\ Len(Elements(h)) = h.len
      /\ Elements(h) \in Seq(Ticket) /\ h.len \in Nat /\ h.len <= Len(heap[h.array])
  BY <1>2, ShownTickets DEF CacheInv
<1>4. t \in Ticket
  <2>1. w.at \in 1..Len(heap[h.array])
    BY <1>1, <1>2, <1>3
  <2> QED
    BY <1>3, <2>1
<1> DEFINE v == IF Keeps(c) THEN [w EXCEPT !.at = @ + 1, !.kept = @ + 1]
                            ELSE [w EXCEPT !.at = @ + 1]
<1>5. work' = [work EXCEPT ![c] = v]
  BY DEF Filter, Keeps
<1>6. heap' = IF Keeps(c)
              THEN [heap EXCEPT ![h.array] = [heap[h.array] EXCEPT ![w.kept + 1] = t]]
              ELSE heap
  BY DEF Filter, Keeps, Array
<1>7. /\ v \in [ticket : Ticket, time : Nat, at : Nat, kept : Nat]
      /\ v.at = w.at + 1 /\ v.time = w.time /\ v.ticket = w.ticket
      /\ v.kept = IF Keeps(c) THEN w.kept + 1 ELSE w.kept
  <2> HIDE DEF w
  <2>1. CASE Keeps(c)
    <3> DEFINE u == [w EXCEPT !.at = @ + 1]
    <3>1. /\ u \in [ticket : Ticket, time : Nat, at : Nat, kept : Nat]
          /\ u.at = w.at + 1 /\ u.time = w.time /\ u.ticket = w.ticket /\ u.kept = w.kept
      BY <1>2
    <3>2. v = [u EXCEPT !.kept = w.kept + 1]
      BY <2>1
    <3>3. w.kept + 1 \in Nat
      BY <1>2
    <3> HIDE DEF u, v
    <3> QED
      BY <2>1, <3>1, <3>2, <3>3
  <2>2. CASE ~Keeps(c)
    BY <1>2, <2>2
  <2> QED
    BY <2>1, <2>2
<1> HIDE DEF v
<1>8. /\ \A d \in Conns : d # c => work'[d] = work[d]
      /\ work' \in [Conns -> [ticket : Ticket, time : Nat, at : Nat, kept : Nat]]
      /\ work'[c] = v
  BY <1>5, <1>7 DEF CacheInv, CacheTypes
<1>9. w.kept \in Nat /\ w.at \in Nat
  BY <1>2
<1>10. h.array \in DOMAIN heap
  BY <1>2 DEF Valid
<1>11. w.kept + 1 \in 1..Len(heap[h.array])
  <2> DEFINE l == Len(heap[h.array])
  <2>1. l \in Nat /\ w.at <= l /\ w.kept < w.at /\ w.kept \in Nat /\ w.at \in Nat
    BY <1>1, <1>2, <1>3, <1>9
  <2>2. \A a, b, m \in Nat : a < b /\ b <= m => a + 1 \in 1..m
    OBVIOUS
  <2> QED
    BY <2>1, <2>2
<1> HIDE DEF h, t
<1> QED
  BY <1>1, <1>2, <1>3, <1>4, <1>6, <1>7, <1>8, <1>9, <1>10, <1>11 DEF h, t

(* The filter writes inside the array of its own Config.                   *)
LEMMA CacheFilter == ASSUME CacheInv, NEW c \in Conns, Filter(c) PROVE CacheInv'
<1> DEFINE h == header[ConfigOf(c)]
           w == work[c]
           t == heap[h.array][w.at]
<1> USE ConfigType
<1>1. /\ pc[c] = "filter" /\ h \in Header /\ Valid(h, heap)
      /\ w.kept \in Nat /\ w.at \in Nat /\ w.kept < w.at /\ w.at <= h.len
      /\ heap[h.array] \in Seq(Ticket) /\ t \in Ticket
      /\ \A d \in Conns : d # c => work'[d] = work[d]
      /\ work' \in [Conns -> [ticket : Ticket, time : Nat, at : Nat, kept : Nat]]
      /\ work'[c].at = w.at + 1 /\ work'[c].time = w.time /\ work'[c].ticket = w.ticket
      /\ work'[c].kept = IF Keeps(c) THEN w.kept + 1 ELSE w.kept
      /\ heap' = IF Keeps(c)
                 THEN [heap EXCEPT ![h.array] = [heap[h.array] EXCEPT ![w.kept + 1] = t]]
                 ELSE heap
      /\ UNCHANGED <<now, header, mutex, pc, clone, offer, own, reported>>
  BY FilterTurn
<1> HIDE DEF t
<1>2. /\ heap' \in Seq(Seq(Ticket)) /\ Len(heap') = Len(heap)
      /\ \A a \in DOMAIN heap : Len(heap'[a]) = Len(heap[a])
  <2>1. CASE Keeps(c)
    <3> DEFINE s == heap[h.array]
               new == [s EXCEPT ![w.kept + 1] = t]
    <3>1. h.array \in 1..Len(heap) /\ heap \in Seq(Seq(Ticket)) /\ w.kept + 1 \in 1..Len(s)
      <4>1. heap \in Seq(Seq(Ticket))
        BY DEF CacheInv, CacheTypes
      <4>2. h.array \in DOMAIN heap /\ w.kept + 1 \in 1..Len(s)
        BY FilterTurn
      <4> QED
        BY <4>1, <4>2
    <3>2. new \in Seq(Ticket) /\ Len(new) = Len(s)
      BY <1>1, <3>1, ExceptSeq
    <3>3. heap' = [heap EXCEPT ![h.array] = new]
      BY <1>1, <2>1
    <3> HIDE DEF new
    <3>4. /\ heap' \in Seq(Seq(Ticket)) /\ Len(heap') = Len(heap)
          /\ \A a \in 1..Len(heap) : heap'[a] = IF a = h.array THEN new ELSE heap[a]
      BY <3>1, <3>2, <3>3, ExceptSeq
    <3>5. DOMAIN heap = 1..Len(heap)
      BY <3>1
    <3>6. \A a \in DOMAIN heap : Len(heap'[a]) = Len(heap[a])
      <4> TAKE a \in DOMAIN heap
      <4>1. heap'[a] = IF a = h.array THEN new ELSE heap[a]
        BY <3>4, <3>5
      <4> QED
        BY <3>2, <4>1
    <3> QED
      BY <3>4, <3>6
  <2>2. CASE ~Keeps(c)
    BY <1>1, <2>2 DEF CacheInv, CacheTypes
  <2> QED
    BY <2>1, <2>2
<1>3. \A k \in Header : Valid(k, heap) => Valid(k, heap')
  <2>1. heap \in Seq(Seq(Ticket))
    BY DEF CacheInv, CacheTypes
  <2>2. DOMAIN heap' = DOMAIN heap
    BY <1>2, <2>1
  <2> QED
    BY <1>2, <2>2 DEF Valid
<1>4. CacheTypes'
  BY <1>1, <1>2 DEF CacheInv, CacheTypes
<1>5. Headers'
  BY <1>1, <1>3 DEF CacheInv, CacheTypes, Headers
<1>6. Held'
  BY <1>1 DEF CacheInv, Held
<1>7. Filtering'
  <2>1. \A d \in Conns \ {c} :
          /\ work'[d] = work[d] /\ pc'[d] = pc[d]
          /\ header'[ConfigOf(d)] = header[ConfigOf(d)]
    BY <1>1
  <2>2. h.len \in Nat /\ work[c].time <= now /\ work[c].ticket.received <= now
    BY <1>1 DEF CacheInv, Filtering, Header
  <2>3. /\ pc'[c] = "filter" /\ work'[c].ticket.received <= now'
        /\ work'[c].kept < work'[c].at /\ work'[c].at <= header'[ConfigOf(c)].len + 1
        /\ work'[c].time <= now'
    BY <1>1, <2>2
  <2> QED
    BY <1>1, <2>1, <2>3 DEF CacheInv, Filtering
<1>8. Apart'
  BY <1>1 DEF CacheInv, Apart, Made
<1> QED
  BY <1>4, <1>5, <1>6, <1>7, <1>8 DEF CacheInv

(* The slice that is left is no longer than the one before.                *)
LEMMA CacheShrink == ASSUME CacheInv, NEW c \in Conns, Shrink(c) PROVE CacheInv'
<1> DEFINE g == ConfigOf(c)
           h == header[g]
           k == work[c].kept
<1> USE ConfigType
<1>1. /\ pc[c] = "filter" /\ pc' = [pc EXCEPT ![c] = "publish"]
      /\ header' = [header EXCEPT ![g].len = k]
      /\ UNCHANGED <<now, heap, mutex, work, clone, offer, own, reported>>
  BY DEF Shrink, Goto
<1>2. h \in Header /\ Valid(h, heap) /\ k \in Nat /\ k <= h.len
  BY <1>1 DEF CacheInv, CacheTypes, Headers, Filtering, Header
<1> DEFINE n == [h EXCEPT !.len = k]
<1>3. n \in Header /\ n.array = h.array /\ n.len = k
  BY <1>2 DEF Header
<1>4. header' = [header EXCEPT ![g] = n]
  BY <1>1
<1> HIDE DEF n, g
<1>5. Valid(n, heap)
  <2>1. h.len \in Nat /\ h.len <= Len(heap[h.array]) /\ Len(heap[h.array]) \in Nat
    <3>1. heap[h.array] \in Seq(Ticket) /\ h.len \in Nat /\ h.len <= Len(heap[h.array])
      BY <1>2, ShownTickets DEF CacheInv
    <3> QED
      BY <3>1
  <2> HIDE DEF h
  <2> QED
    BY <1>2, <1>3, <2>1 DEF Valid
<1>6. g \in Configs
  BY DEF g
<1>7. \A d \in Conns : pc'[d] = IF d = c THEN "publish" ELSE pc[d]
  BY <1>1 DEF CacheInv, CacheTypes
<1>8. CacheTypes'
  <2>1. header' \in [Configs -> Header]
    BY <1>3, <1>4 DEF CacheInv, CacheTypes
  <2>2. pc' \in [Conns -> {"dial", "range", "copy", "panic", "hello", "connected",
                           "lock", "filter", "publish"}]
    BY <1>1 DEF CacheInv, CacheTypes
  <2> QED
    BY <1>1, <2>1, <2>2 DEF CacheInv, CacheTypes
<1>9. Headers'
  BY <1>1, <1>4, <1>5 DEF CacheInv, CacheTypes, Headers
<1>10. Held'
  BY <1>1, <1>7 DEF CacheInv, Held, CacheTypes
<1>11. Filtering'
  <2>1. \A d \in Conns : d # c /\ pc[d] = "filter" => ConfigOf(d) # g
    BY <1>1 DEF CacheInv, Held, g
  <2>2. \A d \in Conns : d # c /\ pc[d] = "filter" => header'[ConfigOf(d)] = header[ConfigOf(d)]
    BY <1>4, <2>1 DEF CacheInv, CacheTypes
  <2>3. UNCHANGED <<work, now>> /\ pc[c] = "filter"
    BY <1>1
  <2> QED
    BY <1>7, <2>2, <2>3 DEF CacheInv, Filtering
<1>12. Apart'
  <2>1. \A d \in Configs \cup Conns : Made(d)' <=> Made(d)
    BY <1>1, <1>7, TicketAssumption DEF Made, Configs
  <2>2. \A d \in Configs : header'[d].array = header[d].array
    BY <1>3, <1>4 DEF CacheInv, CacheTypes
  <2>3. Made(g)
    BY <1>1 DEF Made, g, ConfigOf
  <2>4. \A d \in Configs : Made(d) \/ header'[d] = header[d]
    BY <1>4, <2>3 DEF CacheInv, CacheTypes
  <2> QED
    BY <2>1, <2>2, <2>4 DEF CacheInv, Apart
<1> QED
  BY <1>8, <1>9, <1>10, <1>11, <1>12 DEF CacheInv

(* The new list gets an array of its own.                                  *)
LEMMA CachePublish == ASSUME CacheInv, NEW c \in Conns, Publish(c) PROVE CacheInv'
<1> DEFINE g == ConfigOf(c)
           s == Prepended(work[c].ticket, Elements(header[g]))
           n == NewHeader(s)
<1> USE ConfigType
<1>1. /\ pc[c] = "publish" /\ pc' = [pc EXCEPT ![c] = "connected"]
      /\ Allocate(s) /\ header' = [header EXCEPT ![g] = n]
      /\ mutex' = [mutex EXCEPT ![g] = None]
      /\ work' = [work EXCEPT ![c] = NoWork]
      /\ UNCHANGED <<now, clone, offer, own, reported>>
  BY DEF Publish, Goto
<1>2. s \in Seq(Ticket)
  <2>1. header[g] \in Header /\ Valid(header[g], heap) /\ work[c].ticket \in Ticket
    BY DEF CacheInv, CacheTypes, Headers
  <2>2. Elements(header[g]) \in Seq(Ticket)
    BY <2>1, ShownTickets DEF CacheInv
  <2> QED
    BY <2>1, <2>2, PrependedType
<1>3. /\ heap' \in Seq(Seq(Ticket)) /\ n \in Header /\ n.array \notin DOMAIN heap
      /\ Valid(n, heap')
      /\ \A h \in Header : Valid(h, heap) => Valid(h, heap') /\ heap'[h.array] = heap[h.array]
  BY <1>1, <1>2, Allocated DEF CacheInv
<1>4. g \in Configs
  OBVIOUS
<1>5. NoWork \in [ticket : Ticket, time : Nat, at : Nat, kept : Nat]
  BY NothingYet DEF NoWork
<1>6. Made(g)
  BY <1>1 DEF Made, ConfigOf
<1>7. mutex[g] = c
  BY <1>1 DEF CacheInv, Held
<1> HIDE DEF n, s, g
<1>8. \A d \in Conns : pc'[d] = IF d = c THEN "connected" ELSE pc[d]
  BY <1>1 DEF CacheInv, CacheTypes
<1>9. \A d \in Configs : /\ header'[d] = IF d = g THEN n ELSE header[d]
                         /\ mutex'[d] = IF d = g THEN None ELSE mutex[d]
  BY <1>1 DEF CacheInv, CacheTypes
<1>10. CacheTypes'
  <2>1. header' \in [Configs -> Header] /\ mutex' \in [Configs -> Conns \cup {None}]
    BY <1>1, <1>3, <1>4 DEF CacheInv, CacheTypes
  <2>2. pc' \in [Conns -> {"dial", "range", "copy", "panic", "hello", "connected",
                           "lock", "filter", "publish"}]
    BY <1>1 DEF CacheInv, CacheTypes
  <2>3. work' \in [Conns -> [ticket : Ticket, time : Nat, at : Nat, kept : Nat]]
    BY <1>1, <1>5 DEF CacheInv, CacheTypes
  <2> QED
    BY <1>1, <1>3, <2>1, <2>2, <2>3 DEF CacheInv, CacheTypes
<1>11. Headers'
  <2>1. \A d \in Configs : Valid(header'[d], heap')
    BY <1>3, <1>9 DEF CacheInv, CacheTypes, Headers
  <2>2. \A d \in Conns : Valid(clone'[d].header, heap')
    BY <1>1, <1>3 DEF CacheInv, CacheTypes, Headers
  <2> QED
    BY <2>1, <2>2 DEF Headers
<1>12. \A d \in Conns : d # c /\ pc[d] \in {"filter", "publish"} => ConfigOf(d) # g
  BY <1>7 DEF CacheInv, Held
<1>13. Held'
  <2>1. \A d \in Conns : pc'[d] \in {"filter", "publish"} => mutex'[ConfigOf(d)] = d
    BY <1>8, <1>9, <1>12 DEF CacheInv, Held
  <2>2. \A d \in Configs : mutex'[d] # None =>
          ConfigOf(mutex'[d]) = d /\ pc'[mutex'[d]] \in {"filter", "publish"}
    <3> TAKE d \in Configs
    <3> HAVE mutex'[d] # None
    <3>1. d # g /\ mutex'[d] = mutex[d] /\ mutex[d] \in Conns
      BY <1>9 DEF CacheInv, CacheTypes
    <3>2. ConfigOf(mutex[d]) = d /\ pc[mutex[d]] \in {"filter", "publish"}
      BY <3>1 DEF CacheInv, Held
    <3>3. mutex[d] # c
      BY <3>1, <3>2 DEF g
    <3> QED
      BY <1>8, <3>1, <3>2, <3>3
  <2> QED
    BY <2>1, <2>2 DEF Held
<1>14. Filtering'
  <2>1. \A d \in Conns : d # c => work'[d] = work[d] /\ pc'[d] = pc[d]
    BY <1>1, <1>8 DEF CacheInv, CacheTypes
  <2>2. \A d \in Conns : d # c /\ pc[d] = "filter" => header'[ConfigOf(d)] = header[ConfigOf(d)]
    BY <1>9, <1>12
  <2>3. pc'[c] = "connected" /\ now' = now
    BY <1>1, <1>8
  <2> QED
    BY <2>1, <2>2, <2>3 DEF CacheInv, Filtering
<1>15. Apart'
  <2>1. \A d \in Configs \cup Conns : Made(d)' <=> Made(d)
    BY <1>1, <1>8, TicketAssumption DEF Made, Configs
  <2>2. \A d \in Configs : header[d].array # n.array
    BY <1>3 DEF CacheInv, Headers, Valid
  <2> QED
    BY <1>6, <1>9, <2>1, <2>2 DEF CacheInv, Apart
<1> QED
  BY <1>10, <1>11, <1>13, <1>14, <1>15 DEF CacheInv

(* The past stays the past.                                                *)
LEMMA CacheTick == ASSUME CacheInv, Tick PROVE CacheInv'
<1>1. /\ now' = now + 1 /\ now' \in 1..MaxTime
      /\ UNCHANGED <<heap, header, mutex, pc, work, clone, offer, own, reported>>
  BY TicketAssumption DEF Tick, CacheInv, CacheTypes
<1>2. CacheTypes' /\ Headers' /\ Held' /\ Apart'
  BY <1>1 DEF CacheInv, CacheTypes, Headers, Held, Apart, Made
<1>3. Filtering'
  <2> USE ConfigType
  <2>1. now \in Nat
    BY DEF CacheInv, CacheTypes
  <2> QED
    BY <1>1, <2>1 DEF CacheInv, CacheTypes, Filtering, Ticket
<1> QED
  BY <1>2, <1>3 DEF CacheInv

(* A stuttering step keeps the invariant.                                  *)
LEMMA CacheUnchanged == ASSUME CacheInv, UNCHANGED vars PROVE CacheInv'
  BY DEF vars, CacheInv, CacheTypes, Headers, Held, Filtering, Apart, Made

(* Only Dial clones.                                                       *)
LEMMA OnlyDialled == ASSUME CacheInv, NEW c \in Conns, pc[c] = "copy" PROVE c \in Dialled
  BY ConfigType DEF CacheInv, Apart, Made

(* Every step keeps the invariant.                                         *)
LEMMA CacheStep == CacheInv /\ [Next]_vars => CacheInv'
<1> SUFFICES ASSUME CacheInv, [Next]_vars PROVE CacheInv'
  OBVIOUS
<1>1. ASSUME NEW c \in Conns, Hello(c) PROVE CacheInv'
  BY <1>1, CacheHello
<1>2. ASSUME NEW c \in Conns, Cloning(c) PROVE CacheInv'
  <2>1. CloneDone(c) => c \in Dialled
    BY OnlyDialled DEF CloneDone
  <2> QED
    BY <1>2, <2>1, CacheCloneMake, CacheCloneRange, CacheCloneElement, CacheCloneDone DEF Cloning
<1>3. ASSUME NEW c \in Conns, Storing(c) PROVE CacheInv'
  BY <1>3, CacheLock, CacheFilter, CacheShrink, CachePublish DEF Storing
<1>4. ASSUME NEW c \in Conns, NEW id \in Ids, NEW lifetime \in Lifetimes,
             Receive(c, id, lifetime)
      PROVE  CacheInv'
  BY <1>4, CacheReceive
<1>5. ASSUME Tick PROVE CacheInv'
  BY <1>5, CacheTick
<1>6. ASSUME Terminated \/ UNCHANGED vars PROVE CacheInv'
  BY <1>6, CacheUnchanged DEF Terminated
<1> QED
  BY <1>1, <1>2, <1>3, <1>4, <1>5, <1>6 DEF Next

(* Every reachable state is in the invariant.                              *)
LEMMA CacheInvariant == Spec => []CacheInv
  BY CacheInit, CacheStep, PTL DEF Spec

(* The state keeps its shape; in particular no slice ever shows more than  *)
(* its array holds.                                                        *)
THEOREM TypesAreCorrect == Spec => []TypeOK
<1>1. CacheInv => TypeOK
  <2> SUFFICES ASSUME CacheInv PROVE TypeOK
    OBVIOUS
  <2>1. \A g \in Configs : /\ header[g].array \in DOMAIN heap
                           /\ header[g].len \in 0..Len(Array(header[g]))
    BY DEF CacheInv, Headers, Valid, Array
  <2> QED
    BY <2>1 DEF CacheInv, CacheTypes, TypeOK
<1> QED
  BY <1>1, CacheInvariant, PTL

---------------------------------------------------------------------------
(* The list of a Config *)

(* What a concatenation is, element by element.                            *)
Joined(l, p, q) ==
  /\ Len(l) = Len(p) + Len(q)
  /\ \A i \in 1..Len(p) : l[i] = p[i]
  /\ \A i \in 1..Len(q) : l[Len(p) + i] = q[i]

(* A concatenation is its two parts, one after the other.                  *)
LEMMA Joins ==
  ASSUME NEW T, NEW p \in Seq(T), NEW q \in Seq(T)
  PROVE  p \o q \in Seq(T) /\ Joined(p \o q, p, q)
<1> DEFINE l == p \o q
<1>1. /\ l \in Seq(T) /\ Len(l) = Len(p) + Len(q) /\ Len(p) \in Nat /\ Len(q) \in Nat
      /\ \A i \in 1..Len(p) + Len(q) : l[i] = IF i <= Len(p) THEN p[i] ELSE q[i - Len(p)]
  BY ConcatProperties
<1> HIDE DEF l
<1>2. \A i \in 1..Len(p) : l[i] = p[i]
  BY <1>1
<1>3. ASSUME NEW i \in 1..Len(q) PROVE l[Len(p) + i] = q[i]
  <2>1. Len(p) + i \in 1..Len(p) + Len(q) /\ ~(Len(p) + i <= Len(p)) /\ Len(p) + i - Len(p) = i
    BY <1>1
  <2> QED
    BY <1>1, <2>1
<1> QED
  BY <1>1, <1>2, <1>3 DEF Joined, l

(* What a filter has kept of the first len elements of an array, and what  *)
(* it has not seen of them.                                                *)
Remains(a, kept, at, len) ==
  SubSeq(a, 1, kept) \o SubSeq(SubSeq(a, 1, len), at, len)

Left(l, a, kept, at, len) ==
  /\ Len(l) = kept + (len + 1 - at)
  /\ \A i \in 1..kept : l[i] = a[i]
  /\ \A i \in 1 .. len + 1 - at : l[kept + i] = a[at + i - 1]

(* Remains is what its name says, element by element.                      *)
LEMMA RemainsLeft ==
  ASSUME NEW T, NEW a \in Seq(T), NEW kept \in Nat, NEW at \in Nat, NEW len \in Nat,
         kept < at, at <= len + 1, len <= Len(a)
  PROVE  /\ Remains(a, kept, at, len) \in Seq(T)
         /\ Left(Remains(a, kept, at, len), a, kept, at, len)
<1> DEFINE e == SubSeq(a, 1, len)
           p == SubSeq(a, 1, kept)
           q == SubSeq(e, at, len)
<1>1. e \in Seq(T) /\ Len(e) = len /\ \A i \in 1..len : e[i] = a[i]
  <2>1. \A i \in 1..len : a[i] \in T
    OBVIOUS
  <2> QED
    BY <2>1, SubSeqProperties
<1>2. p \in Seq(T) /\ Len(p) = kept /\ \A i \in 1..kept : p[i] = a[i]
  <2>1. \A i \in 1..kept : a[i] \in T
    OBVIOUS
  <2> QED
    BY <2>1, SubSeqProperties
<1> HIDE DEF e, p
<1>3. /\ q \in Seq(T) /\ Len(q) = len + 1 - at
      /\ \A i \in 1 .. len + 1 - at : q[i] = a[at + i - 1]
  <2>1. \A i \in at..len : e[i] \in T
    BY <1>1
  <2>2. /\ q \in Seq(T) /\ Len(q) = IF at <= len THEN len - at + 1 ELSE 0
        /\ \A i \in 1 .. len - at + 1 : q[i] = e[at + i - 1]
    BY <2>1, SubSeqProperties
  <2> HIDE DEF q
  <2>3. ASSUME NEW i \in 1 .. len + 1 - at PROVE q[i] = a[at + i - 1]
    <3>1. i \in 1 .. len - at + 1 /\ at + i - 1 \in 1..len
      OBVIOUS
    <3> QED
      BY <1>1, <2>2, <3>1
  <2>4. Len(q) = len + 1 - at
    BY <2>2
  <2> QED
    BY <2>2, <2>3, <2>4
<1> HIDE DEF q
<1>4. p \o q \in Seq(T) /\ Joined(p \o q, p, q)
  BY <1>2, <1>3, Joins
<1>5. Left(p \o q, a, kept, at, len)
  BY <1>2, <1>3, <1>4 DEF Joined, Left
<1> QED
  BY <1>4, <1>5 DEF Remains, p, q, e

(* Before the first turn nothing has gone, after the last one what is kept *)
(* is what is left.                                                        *)
LEMMA RemainsAtEnds ==
  ASSUME NEW T, NEW a \in Seq(T), NEW len \in 0..Len(a), NEW kept \in 0..len
  PROVE  /\ Remains(a, 0, 1, len) = SubSeq(a, 1, len)
         /\ Remains(a, kept, len + 1, len) = SubSeq(a, 1, kept)
<1> DEFINE e == SubSeq(a, 1, len)
           p == SubSeq(a, 1, kept)
<1>1. e \in Seq(T) /\ Len(e) = len /\ p \in Seq(T)
  <2>1. \A i \in 1..len : a[i] \in T
    OBVIOUS
  <2>2. \A i \in 1..kept : a[i] \in T
    OBVIOUS
  <2>3. len \in Int /\ kept \in Int /\ len >= 0
    OBVIOUS
  <2>4. e \in Seq(T) /\ Len(e) = IF 1 <= len THEN len - 1 + 1 ELSE 0
    BY <2>1, <2>3, SubSeqProperties
  <2>5. p \in Seq(T)
    BY <2>2, <2>3, SubSeqProperties
  <2> HIDE DEF e
  <2> QED
    BY <2>3, <2>4, <2>5
<1> HIDE DEF e, p
<1>2. SubSeq(a, 1, 0) = <<>> /\ SubSeq(e, len + 1, len) = <<>>
  BY SubSeqEmpty
<1>3. SubSeq(e, 1, len) = e
  BY <1>1, SubSeqFull
<1>4. <<>> \o e = e /\ p \o <<>> = p
  BY <1>1, ConcatEmptySeq
<1> QED
  BY <1>2, <1>3, <1>4 DEF Remains, e, p

(* A turn that keeps the ticket changes nothing in the list.               *)
LEMMA RemainsKept ==
  ASSUME NEW T, NEW a \in Seq(T), NEW kept \in Nat, NEW at \in Nat, NEW len \in Nat,
         kept < at, at <= len, len <= Len(a)
  PROVE  Remains([a EXCEPT ![kept + 1] = a[at]], kept + 1, at + 1, len)
           = Remains(a, kept, at, len)
<1> DEFINE b == [a EXCEPT ![kept + 1] = a[at]]
           r == Remains(a, kept, at, len)
           s == Remains(b, kept + 1, at + 1, len)
<1>1. /\ b \in Seq(T) /\ Len(b) = Len(a)
      /\ \A j \in 1..Len(a) : b[j] = IF j = kept + 1 THEN a[at] ELSE a[j]
  <2>1. kept + 1 \in 1..Len(a) /\ a[at] \in T
    OBVIOUS
  <2> QED
    BY <2>1, ExceptSeq
<1> HIDE DEF b
<1>2. r \in Seq(T) /\ Left(r, a, kept, at, len)
  <2>1. at <= len + 1
    OBVIOUS
  <2> QED
    BY <2>1, RemainsLeft
<1>3. s \in Seq(T) /\ Left(s, b, kept + 1, at + 1, len)
  <2>1. kept + 1 \in Nat /\ at + 1 \in Nat /\ kept + 1 < at + 1 /\ at + 1 <= len + 1
        /\ len <= Len(b)
    BY <1>1
  <2> QED
    BY <1>1, <2>1, RemainsLeft
<1> HIDE DEF r, s
<1>4. Len(r) = kept + (len + 1 - at) /\ Len(s) = Len(r)
  BY <1>2, <1>3 DEF Left
<1>5. ASSUME NEW i \in 1..Len(r) PROVE s[i] = r[i]
  <2>1. CASE i <= kept
    <3>1. i \in 1..kept /\ i \in 1 .. kept + 1 /\ i \in 1..Len(a) /\ i # kept + 1
      BY <1>4, <2>1
    <3> QED
      BY <1>1, <1>2, <1>3, <3>1 DEF Left
  <2>2. CASE i = kept + 1
    <3>1. 1 \in 1 .. len + 1 - at /\ at + 1 - 1 = at
          /\ kept + 1 \in 1..Len(a) /\ kept + 1 \in 1 .. kept + 1
      OBVIOUS
    <3>2. r[kept + 1] = a[at]
      BY <1>2, <3>1 DEF Left
    <3>3. s[kept + 1] = b[kept + 1] /\ b[kept + 1] = a[at]
      BY <1>1, <1>3, <3>1 DEF Left
    <3> QED
      BY <2>2, <3>2, <3>3
  <2>3. CASE i > kept + 1
    <3> DEFINE j == i - (kept + 1)
    <3>1. /\ j \in 1 .. len + 1 - (at + 1) /\ j + 1 \in 1 .. len + 1 - at
          /\ kept + 1 + j = i /\ kept + (j + 1) = i
          /\ at + 1 + j - 1 = at + j /\ at + (j + 1) - 1 = at + j
          /\ at + j \in 1..Len(a) /\ at + j # kept + 1
      BY <1>4, <2>3
    <3> HIDE DEF j
    <3>2. r[i] = a[at + j]
      BY <1>2, <3>1 DEF Left
    <3>3. s[i] = b[at + j]
      BY <1>3, <3>1 DEF Left
    <3> QED
      BY <1>1, <3>1, <3>2, <3>3
  <2> QED
    BY <1>4, <2>1, <2>2, <2>3
<1>6. s = r
  BY <1>2, <1>3, <1>4, <1>5, SeqEqual
<1> QED
  BY <1>6 DEF r, s, b

(* A turn that drops the ticket takes it out of the list.                  *)
LEMMA RemainsDropped ==
  ASSUME NEW T, NEW a \in Seq(T), NEW kept \in Nat, NEW at \in Nat, NEW len \in Nat,
         kept < at, at <= len, len <= Len(a)
  PROVE  /\ kept + 1 \in 1..Len(Remains(a, kept, at, len))
         /\ Remains(a, kept, at, len)[kept + 1] = a[at]
         /\ Remains(a, kept, at + 1, len) = RemoveAt(Remains(a, kept, at, len), kept + 1)
<1> DEFINE r == Remains(a, kept, at, len)
           s == Remains(a, kept, at + 1, len)
           p == SubSeq(r, 1, kept)
           q == SubSeq(r, kept + 2, Len(r))
<1>1. r \in Seq(T) /\ Left(r, a, kept, at, len)
  <2>1. at <= len + 1
    OBVIOUS
  <2> QED
    BY <2>1, RemainsLeft
<1>2. s \in Seq(T) /\ Left(s, a, kept, at + 1, len)
  <2>1. at + 1 \in Nat /\ kept < at + 1 /\ at + 1 <= len + 1
    OBVIOUS
  <2> QED
    BY <2>1, RemainsLeft
<1> HIDE DEF r, s
<1>3. Len(r) = kept + (len + 1 - at) /\ Len(s) = kept + (len - at) /\ Len(r) \in Nat
  BY <1>1, <1>2 DEF Left
<1>4. kept + 1 \in 1..Len(r) /\ r[kept + 1] = a[at]
  <2>1. 1 \in 1 .. len + 1 - at /\ at + 1 - 1 = at
    OBVIOUS
  <2>2. kept + 1 \in 1..Len(r)
    BY <1>3
  <2>3. \A i \in 1 .. len + 1 - at : r[kept + i] = a[at + i - 1]
    BY <1>1 DEF Left
  <2>4. r[kept + 1] = a[at + 1 - 1]
    BY <2>1, <2>3
  <2> QED
    BY <2>1, <2>2, <2>4
<1>5. p \in Seq(T) /\ Len(p) = kept /\ \A i \in 1..kept : p[i] = r[i]
  <2>1. \A i \in 1..kept : r[i] \in T
    BY <1>1, <1>4
  <2> QED
    BY <2>1, SubSeqProperties
<1>6. /\ q \in Seq(T) /\ Len(q) = len - at
      /\ \A i \in 1 .. len - at : q[i] = r[kept + 1 + i]
  <2>1. \A i \in kept + 2 .. Len(r) : r[i] \in T
    BY <1>1
  <2>2. /\ q \in Seq(T)
        /\ Len(q) = IF kept + 2 <= Len(r) THEN Len(r) - (kept + 2) + 1 ELSE 0
        /\ \A i \in 1 .. Len(r) - (kept + 2) + 1 : q[i] = r[kept + 2 + i - 1]
    BY <1>3, <2>1, SubSeqProperties
  <2> HIDE DEF q
  <2>3. Len(q) = len - at
    BY <1>3, <2>2
  <2>4. ASSUME NEW i \in 1 .. len - at PROVE q[i] = r[kept + 1 + i]
    <3>1. i \in 1 .. Len(r) - (kept + 2) + 1 /\ kept + 2 + i - 1 = kept + 1 + i
      BY <1>3
    <3> QED
      BY <2>2, <3>1
  <2> QED
    BY <2>2, <2>3, <2>4
<1> HIDE DEF p, q
<1>7. p \o q \in Seq(T) /\ Joined(p \o q, p, q)
  BY <1>5, <1>6, Joins
<1>8. Len(p \o q) = Len(s)
  BY <1>3, <1>5, <1>6, <1>7 DEF Joined
<1>9. ASSUME NEW i \in 1..Len(s) PROVE s[i] = (p \o q)[i]
  <2>1. CASE i <= kept
    <3>1. i \in 1..kept
      BY <1>3, <2>1
    <3> QED
      BY <1>1, <1>2, <1>5, <1>7, <3>1 DEF Left, Joined
  <2>2. CASE i > kept
    <3> DEFINE j == i - kept
    <3>1. /\ j \in 1 .. len + 1 - (at + 1) /\ j + 1 \in 1 .. len + 1 - at /\ j \in 1 .. len - at
          /\ kept + j = i /\ kept + 1 + j = kept + (j + 1)
          /\ at + 1 + j - 1 = at + j /\ at + (j + 1) - 1 = at + j
      BY <1>3, <2>2
    <3> HIDE DEF j
    <3>2. s[i] = a[at + j]
      BY <1>2, <3>1 DEF Left
    <3>3. r[kept + (j + 1)] = a[at + j]
      BY <1>1, <3>1 DEF Left
    <3>4. q[j] = r[kept + (j + 1)]
      BY <1>6, <3>1
    <3>5. (p \o q)[i] = q[j]
      BY <1>5, <1>6, <1>7, <3>1 DEF Joined
    <3> QED
      BY <3>2, <3>3, <3>4, <3>5
  <2>3. i \in Int
    OBVIOUS
  <2>4. i <= kept \/ i > kept
    BY <2>3
  <2> QED
    BY <2>1, <2>2, <2>4
<1>10. s = p \o q
  BY <1>2, <1>7, <1>8, <1>9, SeqEqual
<1>11. RemoveAt(r, kept + 1) = p \o q
  <2> DEFINE k == kept + 1
  <2>1. RemoveAt(r, k) = SubSeq(r, 1, k - 1) \o SubSeq(r, k + 1, Len(r))
    BY DEF RemoveAt
  <2>2. k - 1 = kept /\ k + 1 = kept + 2
    OBVIOUS
  <2> HIDE DEF k
  <2>3. RemoveAt(r, k) = p \o q
    BY <2>1, <2>2, Zenon DEF p, q
  <2> QED
    BY <2>3 DEF k
<1> QED
  BY <1>4, <1>10, <1>11 DEF r, s

Filters(g) == mutex[g] # None /\ pc[mutex[g]] = "filter"

(* What a filter works with.                                               *)
LEMMA FilterState ==
  ASSUME CacheInv, NEW c \in Conns, pc[c] = "filter"
  PROVE  LET g == ConfigOf(c)
             a == heap[header[g].array]
         IN  /\ g \in Configs /\ Filters(g) /\ mutex[g] = c /\ c # None
             /\ a \in Seq(Ticket) /\ header[g].len \in Nat /\ header[g].len <= Len(a)
             /\ work[c].kept \in Nat /\ work[c].at \in Nat
             /\ work[c].kept < work[c].at /\ work[c].at <= header[g].len + 1
             /\ List(g) = Remains(a, work[c].kept, work[c].at, header[g].len)
<1> DEFINE g == ConfigOf(c)
<1>1. /\ mutex[g] = c /\ c # None /\ g \in Configs
      /\ work[c] \in [ticket : Ticket, time : Nat, at : Nat, kept : Nat]
      /\ header[g] \in Header /\ Valid(header[g], heap)
      /\ work[c].kept < work[c].at /\ work[c].at <= header[g].len + 1
  BY ConfigType DEF CacheInv, CacheTypes, Headers, Held, Filtering
<1>2. /\ heap[header[g].array] \in Seq(Ticket) /\ header[g].len \in Nat
      /\ header[g].len <= Len(heap[header[g].array])
  BY <1>1, ShownTickets DEF CacheInv
<1>3. List(g) = Remains(heap[header[g].array], work[c].kept, work[c].at, header[g].len)
  BY <1>1 DEF List, Elements, Array, Remains
<1>4. work[c].kept \in Nat /\ work[c].at \in Nat /\ Filters(g)
  BY <1>1 DEF Filters
<1> QED
  BY <1>1, <1>2, <1>3, <1>4

(* Without a filter at work a Config's list is its slice.                  *)
LEMMA WholeList ==
  ASSUME CacheInv, NEW g \in Configs, ~Filters(g)
  PROVE  List(g) = Elements(header[g]) /\ List(g) \in Seq(Ticket)
<1>1. List(g) = Elements(header[g])
  BY DEF List, Filters
<1>2. header[g] \in Header /\ Valid(header[g], heap)
  BY DEF CacheInv, CacheTypes, Headers
<1> QED
  BY <1>1, <1>2, ShownTickets DEF CacheInv

(* The list of a Config is a list of tickets.                              *)
LEMMA ListType == ASSUME CacheInv, NEW g \in Configs PROVE List(g) \in Seq(Ticket)
<1>1. CASE Filters(g)
  <2>1. mutex[g] \in Conns /\ ConfigOf(mutex[g]) = g /\ pc[mutex[g]] = "filter"
    BY <1>1 DEF CacheInv, CacheTypes, Held, Filters
  <2> DEFINE c == mutex[g]
  <2>2. LET a == heap[header[g].array]
        IN  /\ a \in Seq(Ticket) /\ header[g].len \in Nat /\ header[g].len <= Len(a)
            /\ work[c].kept \in Nat /\ work[c].at \in Nat
            /\ work[c].kept < work[c].at /\ work[c].at <= header[g].len + 1
            /\ List(g) = Remains(a, work[c].kept, work[c].at, header[g].len)
    BY <2>1, FilterState
  <2> QED
    BY <2>2, RemainsLeft
<1>2. CASE ~Filters(g)
  BY <1>2, WholeList
<1> QED
  BY <1>1, <1>2

(* A step that leaves alone what a list is made of leaves the list alone.  *)
LEMMA ListKept ==
  ASSUME NEW g \in Configs,
         header'[g] = header[g], heap'[header[g].array] = heap[header[g].array],
         mutex'[g] = mutex[g],
         mutex[g] # None => pc'[mutex[g]] = pc[mutex[g]] /\ work'[mutex[g]] = work[mutex[g]]
  PROVE  List(g)' = List(g)
<1>1. Elements(header[g])' = Elements(header[g]) /\ Array(header[g])' = Array(header[g])
  BY DEF Elements, Array
<1> QED
  BY <1>1 DEF List

(* A connection that does not hold the mutex touches no list by what it    *)
(* does on its own.                                                        *)
LEMMA OwnStep ==
  ASSUME CacheInv, NEW c \in Conns, pc[c] \notin {"filter", "publish"},
         UNCHANGED <<heap, header, mutex>>,
         \A d \in Conns : d # c => pc'[d] = pc[d] /\ work'[d] = work[d],
         NEW g \in Configs
  PROVE  List(g)' = List(g)
<1>1. mutex[g] # None => mutex[g] \in Conns /\ mutex[g] # c
  BY DEF CacheInv, CacheTypes, Held
<1> QED
  BY <1>1, ListKept

(* A Config that is not there yet shows no tickets.                        *)
LEMMA NoListYet ==
  ASSUME CacheInv, NEW g \in Configs, ~Made(g),
         header'[g] = header[g], mutex'[g] = mutex[g]
  PROVE  List(g) = <<>> /\ List(g)' = <<>>
<1>1. header[g] = NoHeader
  BY DEF CacheInv, Apart
<1>2. mutex[g] = None
  <2>1. SUFFICES ASSUME mutex[g] # None PROVE FALSE
    OBVIOUS
  <2>2. mutex[g] \in Conns /\ ConfigOf(mutex[g]) = g /\ pc[mutex[g]] \in {"filter", "publish"}
    BY <2>1 DEF CacheInv, CacheTypes, Held
  <2> QED
    BY <2>2, TicketAssumption DEF Made, ConfigOf, Configs
<1>3. List(g) = SubSeq(heap[1], 1, 0) /\ List(g)' = SubSeq(heap'[1], 1, 0)
  BY <1>1, <1>2 DEF List, Elements, Array, NoHeader
<1> QED
  BY <1>3, SubSeqEmpty

(* Whoever holds the mutex of one Config does not hold that of another.    *)
LEMMA OneMutex ==
  ASSUME CacheInv, NEW c \in Conns, NEW g \in Configs, g # ConfigOf(c), mutex[g] # None
  PROVE  mutex[g] \in Conns /\ mutex[g] # c
  BY DEF CacheInv, CacheTypes, Held

(* What the list of a Config will be while a filter is at work.            *)
LEMMA FilteredThen ==
  ASSUME NEW g \in Configs, NEW c, mutex'[g] = c, c # None, pc'[c] = "filter"
  PROVE  List(g)' = Remains(heap'[header'[g].array], work'[c].kept, work'[c].at, header'[g].len)
<1>1. /\ Elements(header[g])' = SubSeq(heap'[header'[g].array], 1, header'[g].len)
      /\ Array(header[g])' = heap'[header'[g].array]
  BY DEF Elements, Array
<1>2. List(g)' = SubSeq(Array(header[g])', 1, work'[c].kept)
                   \o SubSeq(Elements(header[g])', work'[c].at, header'[g].len)
  BY DEF List
<1> QED
  BY <1>1, <1>2 DEF Remains

(* A filter that has not begun has taken nothing out.                      *)
LEMMA LockList ==
  ASSUME CacheInv, NEW c \in Conns, Lock(c), NEW g \in Configs
  PROVE  List(g)' = List(g)
<1> USE ConfigType
<1>1. /\ pc[c] = "lock" /\ mutex[ConfigOf(c)] = None
      /\ mutex' = [mutex EXCEPT ![ConfigOf(c)] = c]
      /\ work' = [work EXCEPT ![c].time = now]
      /\ pc' = [pc EXCEPT ![c] = "filter"]
      /\ UNCHANGED <<now, heap, header, clone, offer, own, reported>>
  BY DEF Lock, Goto
<1>2. \A d \in Conns : d # c => pc'[d] = pc[d] /\ work'[d] = work[d]
  BY <1>1 DEF CacheInv, CacheTypes
<1>3. CASE g # ConfigOf(c)
  <2>1. mutex'[g] = mutex[g]
    BY <1>1, <1>3 DEF CacheInv, CacheTypes
  <2>2. mutex[g] # None => mutex[g] \in Conns /\ mutex[g] # c
    BY <1>3, OneMutex
  <2> QED
    BY <1>1, <1>2, <2>1, <2>2, ListKept
<1>4. CASE g = ConfigOf(c)
  <2> DEFINE a == heap[header[g].array]
  <2>1. List(g) = Elements(header[g])
    BY <1>1, <1>4, WholeList DEF Filters
  <2>2. mutex'[g] = c /\ pc'[c] = "filter" /\ c # None
    BY <1>1, <1>4 DEF CacheInv, CacheTypes
  <2>3. work'[c].at = 1 /\ work'[c].kept = 0
    <3>1. work[c].at = 1 /\ work[c].kept = 0
      BY <1>1 DEF CacheInv, Filtering
    <3> QED
      BY <1>1, <3>1 DEF CacheInv, CacheTypes
  <2>4. List(g)' = Remains(a, 0, 1, header[g].len)
    <3>1. List(g)' = Remains(heap'[header'[g].array], work'[c].kept, work'[c].at, header'[g].len)
      BY <2>2, FilteredThen
    <3> QED
      BY <1>1, <2>3, <3>1
  <2>5. a \in Seq(Ticket) /\ header[g].len \in 0..Len(a)
    <3>1. header[g] \in Header /\ Valid(header[g], heap)
      BY DEF CacheInv, CacheTypes, Headers
    <3>2. a \in Seq(Ticket) /\ header[g].len \in Nat /\ header[g].len <= Len(a)
      BY <3>1, ShownTickets DEF CacheInv
    <3> QED
      BY <3>2
  <2>6. Remains(a, 0, 1, header[g].len) = SubSeq(a, 1, header[g].len)
    <3>1. 0 \in 0..header[g].len
      BY <2>5
    <3> HIDE DEF a
    <3> QED
      BY <2>5, <3>1, RemainsAtEnds
  <2> QED
    BY <2>1, <2>4, <2>6 DEF Elements, Array
<1> QED
  BY <1>3, <1>4

(* When the filter has seen every ticket, the list is what it has kept.    *)
LEMMA ShrinkList ==
  ASSUME CacheInv, NEW c \in Conns, Shrink(c), NEW g \in Configs
  PROVE  List(g)' = List(g)
<1> USE ConfigType
<1>1. /\ pc[c] = "filter" /\ pc' = [pc EXCEPT ![c] = "publish"]
      /\ work[c].at > header[ConfigOf(c)].len
      /\ header' = [header EXCEPT ![ConfigOf(c)].len = work[c].kept]
      /\ UNCHANGED <<now, heap, mutex, work, clone, offer, own, reported>>
  BY DEF Shrink, Goto
<1>2. \A d \in Conns : d # c => pc'[d] = pc[d]
  BY <1>1 DEF CacheInv, CacheTypes
<1>3. CASE g # ConfigOf(c)
  <2>1. header'[g] = header[g]
    BY <1>1, <1>3 DEF CacheInv, CacheTypes
  <2>2. mutex[g] # None => mutex[g] \in Conns /\ mutex[g] # c
    BY <1>3, OneMutex
  <2> QED
    BY <1>1, <1>2, <2>1, <2>2, ListKept
<1>4. CASE g = ConfigOf(c)
  <2> DEFINE a == heap[header[g].array]
             k == work[c].kept
             l == header[g].len
  <2>1. /\ mutex[g] = c /\ a \in Seq(Ticket) /\ l \in Nat /\ l <= Len(a)
        /\ k \in Nat /\ work[c].at \in Nat /\ k < work[c].at /\ work[c].at <= l + 1
        /\ List(g) = Remains(a, k, work[c].at, l)
    BY <1>1, <1>4, FilterState
  <2>2. pc'[c] = "publish"
    BY <1>1 DEF CacheInv, CacheTypes
  <2>3. header'[g].array = header[g].array /\ header'[g].len = k
    BY <1>1, <1>4 DEF CacheInv, CacheTypes, Header
  <2>4. List(g)' = SubSeq(a, 1, k)
    BY <1>1, <2>1, <2>2, <2>3 DEF List, Elements, Array
  <2>5. work[c].at = l + 1 /\ k \in 0..l /\ l \in 0..Len(a)
    <3>1. work[c].at > l
      BY <1>1, <1>4
    <3>2. \A x, y, z \in Nat : x < y /\ y <= z + 1 /\ y > z => y = z + 1 /\ x \in 0..z
      OBVIOUS
    <3>3. Len(a) \in Nat
      BY <2>1
    <3> DEFINE n == work[c].at
    <3>4. k \in Nat /\ n \in Nat /\ l \in Nat /\ k < n /\ n <= l + 1 /\ n > l
      BY <2>1, <3>1
    <3>5. l <= Len(a)
      BY <2>1
    <3> HIDE DEF a, k, l, n
    <3>6. n = l + 1 /\ k \in 0..l
      BY <3>2, <3>4
    <3>7. l \in 0..Len(a)
      BY <3>3, <3>4, <3>5
    <3> QED
      BY <3>6, <3>7 DEF n
  <2>6. Remains(a, k, l + 1, l) = SubSeq(a, 1, k)
    <3> HIDE DEF a, k, l
    <3> QED
      BY <2>1, <2>5, RemainsAtEnds
  <2> QED
    BY <2>1, <2>4, <2>5, <2>6
<1> QED
  BY <1>3, <1>4

(* The filter drops a ticket that is not usable, or nothing.               *)
LEMMA FilterList ==
  ASSUME CacheInv, NEW c \in Conns, Filter(c)
  PROVE  LET g == ConfigOf(c)
             k == work[c].kept + 1
         IN  /\ Keeps(c) => List(g)' = List(g)
             /\ ~Keeps(c) => /\ k \in 1..Len(List(g))
                             /\ ~Usable(List(g)[k], work[c].time)
                             /\ List(g)' = RemoveAt(List(g), k)
<1> DEFINE g == ConfigOf(c)
           h == header[g]
           w == work[c]
           a == heap[h.array]
<1>1. /\ pc[c] = "filter" /\ w.at <= h.len /\ h.array \in DOMAIN heap
      /\ work'[c].at = w.at + 1
      /\ work'[c].kept = IF Keeps(c) THEN w.kept + 1 ELSE w.kept
      /\ heap' = IF Keeps(c)
                 THEN [heap EXCEPT ![h.array] = [a EXCEPT ![w.kept + 1] = a[w.at]]]
                 ELSE heap
      /\ UNCHANGED <<now, header, mutex, pc, clone, offer, own, reported>>
  BY FilterTurn
<1>2. /\ mutex[g] = c /\ c # None /\ a \in Seq(Ticket) /\ h.len \in Nat /\ h.len <= Len(a)
      /\ w.kept \in Nat /\ w.at \in Nat /\ w.kept < w.at
      /\ List(g) = Remains(a, w.kept, w.at, h.len)
  BY <1>1, FilterState
<1>3. List(g)' = Remains(heap'[h.array], work'[c].kept, work'[c].at, h.len)
  <2>1. mutex'[g] = c /\ pc'[c] = "filter" /\ g \in Configs
    BY <1>1, <1>2, ConfigType
  <2>2. List(g)' = Remains(heap'[header'[g].array], work'[c].kept, work'[c].at, header'[g].len)
    BY <1>2, <2>1, FilteredThen
  <2>3. header' = header
    BY <1>1
  <2> HIDE DEF g
  <2> QED
    BY <2>2, <2>3 DEF h
<1>4. CASE Keeps(c)
  <2>1. heap'[h.array] = [a EXCEPT ![w.kept + 1] = a[w.at]]
    BY <1>1, <1>4 DEF CacheInv, CacheTypes
  <2>2. Remains([a EXCEPT ![w.kept + 1] = a[w.at]], w.kept + 1, w.at + 1, h.len)
          = Remains(a, w.kept, w.at, h.len)
    <3>1. w.at <= h.len
      BY <1>1
    <3> HIDE DEF a, h, w
    <3> QED
      BY <1>2, <3>1, RemainsKept
  <2>3. work'[c].kept = w.kept + 1 /\ work'[c].at = w.at + 1
    BY <1>1, <1>4
  <2>4. List(g)' = List(g)
    BY <1>2, <1>3, <2>1, <2>2, <2>3
  <2> QED
    BY <1>4, <2>4
<1>5. CASE ~Keeps(c)
  <2>1. heap' = heap /\ work'[c].kept = w.kept /\ work'[c].at = w.at + 1
    BY <1>1, <1>5
  <2> DEFINE l == Remains(a, w.kept, w.at, h.len)
  <2>2. /\ w.kept + 1 \in 1..Len(l) /\ l[w.kept + 1] = a[w.at]
        /\ Remains(a, w.kept, w.at + 1, h.len) = RemoveAt(l, w.kept + 1)
    <3>1. \A b \in Seq(Ticket), m, n, o \in Nat :
            m < n /\ n <= o /\ o <= Len(b) =>
              /\ m + 1 \in 1..Len(Remains(b, m, n, o)) /\ Remains(b, m, n, o)[m + 1] = b[n]
              /\ Remains(b, m, n + 1, o) = RemoveAt(Remains(b, m, n, o), m + 1)
      BY RemainsDropped
    <3>2. /\ a \in Seq(Ticket) /\ w.kept \in Nat /\ w.at \in Nat /\ h.len \in Nat
          /\ w.kept < w.at /\ w.at <= h.len /\ h.len <= Len(a)
      BY <1>1, <1>2
    <3> HIDE DEF a, h, w
    <3> QED
      BY <3>1, <3>2
  <2>3. ~Usable(a[w.at], w.time)
    BY <1>5 DEF Keeps, Array
  <2>4. List(g)' = RemoveAt(List(g), w.kept + 1)
    BY <1>2, <1>3, <2>1, <2>2
  <2>5. w.kept + 1 \in 1..Len(List(g)) /\ List(g)[w.kept + 1] = a[w.at]
    BY <1>2, <2>2
  <2> QED
    BY <1>5, <2>3, <2>4, <2>5
<1> QED
  BY <1>4, <1>5

(* A filter writes to no array but that of its Config.                     *)
LEMMA FilterOthers ==
  ASSUME CacheInv, NEW c \in Conns, Filter(c), NEW g \in Configs, g # ConfigOf(c)
  PROVE  List(g)' = List(g)
<1> DEFINE h == header[ConfigOf(c)]
<1> USE ConfigType
<1>1. /\ pc[c] = "filter" /\ h.array \in DOMAIN heap
      /\ \A d \in Conns : d # c => work'[d] = work[d]
      /\ heap' = IF Keeps(c)
                 THEN [heap EXCEPT ![h.array] =
                         [heap[h.array] EXCEPT ![work[c].kept + 1] = heap[h.array][work[c].at]]]
                 ELSE heap
      /\ UNCHANGED <<now, header, mutex, pc, clone, offer, own, reported>>
  BY FilterTurn
<1>2. CASE ~Made(g)
  BY <1>1, <1>2, NoListYet
<1>3. CASE Made(g)
  <2>1. Made(ConfigOf(c))
    BY <1>1 DEF Made, ConfigOf
  <2>2. header[g].array # h.array
    BY <1>3, <2>1 DEF CacheInv, Apart
  <2>3. header[g].array \in DOMAIN heap
    BY DEF CacheInv, Headers, Valid
  <2>4. heap'[header[g].array] = heap[header[g].array]
    BY <1>1, <2>2, <2>3 DEF CacheInv, CacheTypes
  <2>5. mutex[g] # None => mutex[g] \in Conns /\ mutex[g] # c
    BY OneMutex
  <2> QED
    BY <1>1, <2>4, <2>5, ListKept
<1> QED
  BY <1>2, <1>3

(* What is published is the list storeSessionTicket made, to one Config.   *)
LEMMA PublishList ==
  ASSUME CacheInv, NEW c \in Conns, Publish(c)
  PROVE  /\ List(ConfigOf(c))' = Prepended(work[c].ticket, List(ConfigOf(c)))
         /\ \A g \in Configs : g # ConfigOf(c) => List(g)' = List(g)
<1> DEFINE g == ConfigOf(c)
           s == Prepended(work[c].ticket, Elements(header[g]))
           n == NewHeader(s)
<1> USE ConfigType
<1>1. /\ pc[c] = "publish" /\ pc' = [pc EXCEPT ![c] = "connected"]
      /\ Allocate(s) /\ header' = [header EXCEPT ![g] = n]
      /\ mutex' = [mutex EXCEPT ![g] = None]
      /\ work' = [work EXCEPT ![c] = NoWork]
  BY DEF Publish, Goto
<1>2. mutex[g] = c /\ g \in Configs
  BY <1>1 DEF CacheInv, Held
<1>3. List(g) = Elements(header[g]) /\ List(g) \in Seq(Ticket)
  BY <1>1, <1>2, WholeList DEF Filters
<1>4. s \in Seq(Ticket)
  BY <1>3, PrependedType DEF CacheInv, CacheTypes
<1>5. /\ heap'[n.array] = s /\ n.len = Len(s)
      /\ \A h \in Header : Valid(h, heap) => heap'[h.array] = heap[h.array]
  BY <1>1, <1>4, Allocated DEF CacheInv
<1>6. List(g)' = s
  <2> HIDE DEF n, s, g
  <2>1. header'[g] = n /\ mutex'[g] = None
    BY <1>1, <1>2 DEF CacheInv, CacheTypes
  <2>2. List(g)' = SubSeq(heap'[n.array], 1, n.len)
    BY <2>1 DEF List, Elements, Array
  <2> QED
    BY <1>4, <1>5, <2>2, SubSeqFull
<1>7. ASSUME NEW d \in Configs, d # g PROVE List(d)' = List(d)
  <2>1. header'[d] = header[d] /\ mutex'[d] = mutex[d]
    BY <1>1, <1>7 DEF CacheInv, CacheTypes
  <2>2. heap'[header[d].array] = heap[header[d].array]
    BY <1>5 DEF CacheInv, CacheTypes, Headers
  <2>3. mutex[d] # None => mutex[d] \in Conns /\ mutex[d] # c
    BY <1>7, OneMutex
  <2>4. \A e \in Conns : e # c => pc'[e] = pc[e] /\ work'[e] = work[e]
    BY <1>1 DEF CacheInv, CacheTypes
  <2> QED
    BY <2>1, <2>2, <2>3, <2>4, ListKept
<1> QED
  BY <1>3, <1>6, <1>7

(* The array of a new Config is nobody else's.                             *)
LEMMA CloneDoneOthers ==
  ASSUME CacheInv, NEW c \in Dialled, CloneDone(c), NEW g \in Configs, g # c
  PROVE  List(g)' = List(g)
<1> DEFINE s == clone[c].copy
           n == NewHeader(s)
<1>1. c \in Conns /\ ConfigOf(c) = c
  BY TicketAssumption DEF ConfigOf
<1>2. /\ pc[c] = "copy" /\ pc' = [pc EXCEPT ![c] = "hello"]
      /\ Allocate(s) /\ header' = [header EXCEPT ![c] = n]
      /\ UNCHANGED <<now, mutex, work, clone, offer, own, reported>>
  BY DEF CloneDone, Goto
<1>3. s \in Seq(Ticket)
  BY <1>1 DEF CacheInv, CacheTypes
<1>4. \A h \in Header : Valid(h, heap) => heap'[h.array] = heap[h.array]
  BY <1>2, <1>3, Allocated DEF CacheInv
<1>5. heap'[header[g].array] = heap[header[g].array] /\ header'[g] = header[g]
  BY <1>2, <1>4 DEF CacheInv, CacheTypes, Headers
<1>6. mutex[g] # None => mutex[g] \in Conns /\ mutex[g] # c
  BY <1>1, OneMutex
<1>7. \A e \in Conns : e # c => pc'[e] = pc[e]
  BY <1>2 DEF CacheInv, CacheTypes
<1> QED
  BY <1>2, <1>5, <1>6, <1>7, ListKept

---------------------------------------------------------------------------
(* What the properties say *)

(* A step of c changes no list but that of its own Config.                 *)
LEMMA OthersKeep ==
  ASSUME CacheInv, NEW c \in Conns, NEW g \in Configs, g # ConfigOf(c),
         \/ Hello(c) \/ Cloning(c) \/ Storing(c)
         \/ \E id \in Ids, lifetime \in Lifetimes : Receive(c, id, lifetime)
  PROVE  List(g)' = List(g)
<1>1. CASE \/ Hello(c) \/ CloneMake(c) \/ CloneRange(c) \/ CloneElement(c)
           \/ \E id \in Ids, lifetime \in Lifetimes : Receive(c, id, lifetime)
  <2>1. /\ pc[c] \notin {"filter", "publish"} /\ UNCHANGED <<heap, header, mutex>>
        /\ \A d \in Conns : d # c => pc'[d] = pc[d] /\ work'[d] = work[d]
    BY <1>1 DEF Hello, CloneMake, CloneRange, CloneElement, Receive, Goto, CacheInv, CacheTypes
  <2> QED
    BY <2>1, OwnStep
<1>2. CASE CloneDone(c)
  <2>1. c \in Dialled /\ ConfigOf(c) = c
    BY <1>2, OnlyDialled DEF CloneDone, ConfigOf
  <2> QED
    BY <1>2, <2>1, CloneDoneOthers
<1>3. CASE Storing(c)
  BY <1>3, LockList, FilterOthers, ShrinkList, PublishList DEF Storing
<1> QED
  BY <1>1, <1>2, <1>3 DEF Cloning

(* The step that changes the list of c's own Config.                       *)
LEMMA OwnChanges ==
  ASSUME CacheInv, NEW c \in Conns, List(ConfigOf(c))' # List(ConfigOf(c)),
         \/ Hello(c) \/ Cloning(c) \/ Storing(c)
         \/ \E id \in Ids, lifetime \in Lifetimes : Receive(c, id, lifetime)
  PROVE  \/ CloneDone(c) /\ c \in Dialled
         \/ Filter(c) /\ ~Keeps(c)
         \/ Publish(c)
<1> USE ConfigType
<1>1. CASE \/ Hello(c) \/ CloneMake(c) \/ CloneRange(c) \/ CloneElement(c)
           \/ \E id \in Ids, lifetime \in Lifetimes : Receive(c, id, lifetime)
  <2>1. /\ pc[c] \notin {"filter", "publish"} /\ UNCHANGED <<heap, header, mutex>>
        /\ \A d \in Conns : d # c => pc'[d] = pc[d] /\ work'[d] = work[d]
    BY <1>1 DEF Hello, CloneMake, CloneRange, CloneElement, Receive, Goto, CacheInv, CacheTypes
  <2> QED
    BY <2>1, OwnStep
<1>2. CASE CloneDone(c)
  BY <1>2, OnlyDialled DEF CloneDone
<1>3. CASE Storing(c)
  BY <1>3, LockList, FilterList, ShrinkList DEF Storing
<1> QED
  BY <1>1, <1>2, <1>3 DEF Cloning

(* Time changes no list.                                                   *)
LEMMA TickList == ASSUME Tick \/ UNCHANGED vars, NEW g \in Configs PROVE List(g)' = List(g)
  BY ListKept DEF Tick, vars

(* Whoever changes the list of a Config works with it and holds its mutex, *)
(* or has just cloned it.                                                  *)
LEMMA HolderStep ==
  CacheInv /\ [Next]_vars =>
    \A g \in Configs :
      List(g)' # List(g) =>
        \E c \in Conns : /\ ConfigOf(c) = g
                         /\ mutex[g] = c \/ pc[c] = "copy"
                         /\ pc[c]' # pc[c] \/ work[c]' # work[c]
<1> SUFFICES ASSUME CacheInv, [Next]_vars, NEW g \in Configs, List(g)' # List(g)
             PROVE  \E c \in Conns : /\ ConfigOf(c) = g
                                     /\ mutex[g] = c \/ pc[c] = "copy"
                                     /\ pc[c]' # pc[c] \/ work[c]' # work[c]
  OBVIOUS
<1>1. PICK c \in Conns :
        \/ Hello(c) \/ Cloning(c) \/ Storing(c)
        \/ \E id \in Ids, lifetime \in Lifetimes : Receive(c, id, lifetime)
  BY TickList DEF Next, Terminated
<1>2. ConfigOf(c) = g
  BY <1>1, OthersKeep
<1>3. \/ CloneDone(c) /\ c \in Dialled
      \/ Filter(c) /\ ~Keeps(c)
      \/ Publish(c)
  BY <1>1, <1>2, OwnChanges
<1>4. CASE CloneDone(c)
  <2>1. pc[c] = "copy" /\ pc'[c] = "hello"
    BY <1>4 DEF CloneDone, Goto, CacheInv, CacheTypes
  <2> QED
    BY <1>2, <2>1
<1>5. CASE Filter(c)
  <2>1. mutex[ConfigOf(c)] = c
    BY <1>5 DEF Filter, CacheInv, Held
  <2>2. work'[c].at = work[c].at + 1 /\ work[c].at \in Nat
    BY <1>5, FilterTurn
  <2>3. work'[c] # work[c]
    BY <2>2
  <2> QED
    BY <1>2, <2>1, <2>3
<1>6. CASE Publish(c)
  <2>1. pc[c] = "publish" /\ pc'[c] = "connected" /\ mutex[ConfigOf(c)] = c
    BY <1>6 DEF Publish, Goto, CacheInv, CacheTypes, Held
  <2> QED
    BY <1>2, <2>1
<1> QED
  BY <1>3, <1>4, <1>5, <1>6

(* The list of one Config changes only in steps of a connection that works *)
(* with that Config and holds its mutex; a clone shares no array with the  *)
(* Config it was made from.                                                *)
THEOREM OnlyTheHolderChanges == Spec => OnlyHolderChanges
  BY CacheInvariant, HolderStep, PTL DEF Spec, OnlyHolderChanges

---------------------------------------------------------------------------
(* The refinement *)

(* The Config starts with a list of tickets, as TicketStore does.          *)
LEMMA StoreInit == Init => Store!Init
<1> SUFFICES ASSUME Init PROVE Store!Init
  OBVIOUS
<1>1. CacheInv
  BY CacheInit
<1>2. List(Caller) \in Seq(Ticket) /\ now \in Nat
  BY <1>1, ListType DEF Configs, CacheInv, CacheTypes
<1> QED
  BY <1>2 DEF Store!Init, Ticket

(* A ticket the filter drops is dead.                                      *)
LEMMA DroppedIsDead ==
  ASSUME NEW t \in Ticket, NEW time \in Nat, ~Usable(t, time), NEW later \in Nat, time <= later
  PROVE  Store!Dead(t, later)
<1>1. t.received \in Nat /\ t.lifetime \in Nat
  BY DEF Ticket
<1> QED
  BY <1>1 DEF Usable, Store!Dead

(* A turn of the filter that drops a ticket is Expire.                     *)
LEMMA StoreExpires ==
  ASSUME CacheInv, NEW c \in Conns, Filter(c), ~Keeps(c), ConfigOf(c) = Caller
  PROVE  Store!Expire
<1> DEFINE k == work[c].kept + 1
           l == List(Caller)
<1>1. k \in 1..Len(l) /\ ~Usable(l[k], work[c].time) /\ l' = RemoveAt(l, k)
  BY FilterList
<1>2. l \in Seq(Ticket)
  BY ListType DEF Configs
<1>3. work[c].time \in Nat /\ now \in Nat /\ work[c].time <= now /\ now' = now
  BY DEF Filter, CacheInv, CacheTypes, Filtering
<1>4. Store!Dead(l[k], now)
  BY <1>1, <1>2, <1>3, DroppedIsDead
<1> HIDE DEF k
<1> QED
  BY <1>1, <1>3, <1>4 DEF Store!Expire, RemoveAt, Store!RemoveAt

(* The second array is Add.                                                *)
LEMMA StoreAdds ==
  ASSUME CacheInv, NEW c \in Conns, Publish(c), ConfigOf(c) = Caller
  PROVE  Store!Add
<1> DEFINE t == work[c].ticket
           l == List(Caller)
           m == Full(t, Store!Without(l, t.id))
<1>1. l' = Prepended(t, l)
  BY PublishList
<1>2. l \in Seq(Ticket) /\ t \in Ticket
  BY ListType DEF Configs, CacheInv, CacheTypes
<1>3. Store!Without(l, t.id) \in Seq(Ticket)
  BY <1>2, WithoutType
<1>4. l' = m
  BY <1>1, <1>2, PrependedIsInsert
<1>5. m = Store!Insert(t, l)
  BY DEF Full, Store!Insert
<1>6. m # <<>> /\ Head(m) = t
  <2>1. m \in Seq(Ticket) /\ Filled(m, t, Store!Without(l, t.id))
    BY <1>2, <1>3, FullType
  <2>2. Len(m) \in Nat \ {0} /\ m[1] = t
    BY <1>3, <2>1, LimitType DEF Filled
  <2> HIDE DEF m
  <2> QED
    BY <2>1, <2>2
<1>7. t.received <= now /\ now' = now
  BY DEF Publish, CacheInv, Filtering
<1> HIDE DEF t, m
<1> QED
  BY <1>4, <1>5, <1>6, <1>7 DEF Store!Add

(* Every step is one of TicketStore's or changes nothing it sees.          *)
LEMMA StoreStep == CacheInv /\ [Next]_vars => [Store!Next]_(Store!vars)
<1> SUFFICES ASSUME CacheInv, [Next]_vars PROVE [Store!Next]_(Store!vars)
  OBVIOUS
<1>1. Caller \in Configs
  BY DEF Configs
<1>2. CASE Tick
  <2>1. List(Caller)' = List(Caller) /\ now' = now + 1
    BY <1>1, <1>2, TickList DEF Tick
  <2> QED
    BY <2>1 DEF Store!Next, Store!Tick
<1>3. CASE Terminated \/ UNCHANGED vars
  <2>1. List(Caller)' = List(Caller) /\ now' = now
    BY <1>1, <1>3, TickList DEF Terminated, vars
  <2> QED
    BY <2>1 DEF Store!vars
<1>4. ASSUME NEW c \in Conns,
             \/ Hello(c) \/ Cloning(c) \/ Storing(c)
             \/ \E id \in Ids, lifetime \in Lifetimes : Receive(c, id, lifetime)
      PROVE  [Store!Next]_(Store!vars)
  <2>1. now' = now
    BY <1>4 DEF Hello, Cloning, CloneMake, CloneRange, CloneElement, CloneDone,
                Storing, Lock, Filter, Shrink, Publish, Receive
  <2>2. CASE List(Caller)' = List(Caller)
    BY <2>1, <2>2 DEF Store!vars
  <2>3. CASE List(Caller)' # List(Caller)
    <3>1. ConfigOf(c) = Caller
      BY <1>1, <1>4, <2>3, OthersKeep
    <3>2. c \notin Dialled
      BY <3>1, TicketAssumption DEF ConfigOf
    <3>3. (Filter(c) /\ ~Keeps(c)) \/ Publish(c)
      BY <1>4, <2>3, <3>1, <3>2, OwnChanges
    <3>4. Store!Expire \/ Store!Add
      BY <3>1, <3>3, StoreExpires, StoreAdds
    <3> QED
      BY <3>4 DEF Store!Next
  <2> QED
    BY <2>2, <2>3
<1> QED
  BY <1>2, <1>3, <1>4 DEF Next

(* storeSessionTicket, run by any number of connections that share a       *)
(* Config, with its in-place filter and its second array, only ever drops  *)
(* dead tickets and puts new ones in front.                                *)
THEOREM TicketStoreIsImplemented == Spec => ImplementsTicketStore
  BY CacheInvariant, StoreInit, StoreStep, PTL DEF Spec, ImplementsTicketStore, Store!Spec

---------------------------------------------------------------------------
(* No ticket is lost *)

(* v are the tickets of s among the first k that have other bytes than id. *)
Others(v, s, k, id) ==
  /\ \A m \in 1..Len(v) : \E j \in 1..k : v[m] = s[j] /\ s[j].id # id
  /\ \A j \in 1..k : s[j].id # id => \E m \in 1..Len(v) : v[m] = s[j]

Distinct(v) == \A l, m \in 1..Len(v) : l # m => v[l].id # v[m].id

(* Before the first ticket there are no others.                            *)
LEMMA OthersOfNone ==
  ASSUME NEW s, NEW id
  PROVE  Others(<<>>, s, 0, id) /\ Distinct(<<>>)
<1>1. Len(<<>>) = 0
  OBVIOUS
<1>2. 1..0 = {}
  OBVIOUS
<1> QED
  BY <1>1, <1>2 DEF Others, Distinct

(* One ticket more is one other more, unless it has the bytes id.          *)
LEMMA OthersOfOneMore ==
  ASSUME NEW T, NEW s \in Seq(T), NEW k \in 1..Len(s), NEW id, NEW v \in Seq(T),
         Others(v, s, k - 1, id), Distinct(v),
         \A l, m \in 1..k : l # m => s[l].id # s[m].id,
         NEW w, w = IF s[k].id = id THEN v ELSE Append(v, s[k])
  PROVE  Others(w, s, k, id) /\ Distinct(w)
<1>1. CASE s[k].id = id
  <2>1. w = v
    BY <1>1
  <2>2. \A m \in 1..Len(v) : \E j \in 1..k : v[m] = s[j] /\ s[j].id # id
    <3>1. \A j \in 1 .. k - 1 : j \in 1..k
      OBVIOUS
    <3> QED
      BY <3>1 DEF Others
  <2>3. \A j \in 1..k : s[j].id # id => j \in 1 .. k - 1
    BY <1>1
  <2> QED
    BY <2>1, <2>2, <2>3 DEF Others
<1>2. CASE s[k].id # id
  <2>1. w = Append(v, s[k]) /\ s[k] \in T
    BY <1>2
  <2>2. /\ Len(w) = Len(v) + 1 /\ Len(v) \in Nat
        /\ \A m \in 1..Len(v) : w[m] = v[m]
        /\ w[Len(v) + 1] = s[k]
    BY <2>1, AppendProperties
  <2> HIDE <2>1
  <2>3. \A m \in 1..Len(w) : m \in 1..Len(v) \/ m = Len(v) + 1
    BY <2>2
  <2>4. \A j \in 1..k : j \in 1 .. k - 1 \/ j = k
    OBVIOUS
  <2>5. k \in 1..k /\ Len(v) + 1 \in 1..Len(w) /\ \A m \in 1..Len(v) : m \in 1..Len(w)
    BY <2>2
  <2>6. \A j \in 1 .. k - 1 : j \in 1..k /\ j # k
    OBVIOUS
  <2>7. ASSUME NEW m \in 1..Len(w) PROVE \E j \in 1..k : w[m] = s[j] /\ s[j].id # id
    <3>1. CASE m \in 1..Len(v)
      BY <2>2, <2>6, <3>1 DEF Others
    <3>2. CASE m = Len(v) + 1
      BY <1>2, <2>2, <2>5, <3>2
    <3> QED
      BY <2>3, <3>1, <3>2
  <2>8. ASSUME NEW j \in 1..k, s[j].id # id PROVE \E m \in 1..Len(w) : w[m] = s[j]
    <3>1. CASE j \in 1 .. k - 1
      BY <2>2, <2>5, <2>8, <3>1 DEF Others
    <3>2. CASE j = k
      BY <2>2, <2>5, <3>2
    <3> QED
      BY <2>4, <3>1, <3>2
  <2>9. \A m \in 1..Len(v) : v[m].id # s[k].id
    <3> TAKE m \in 1..Len(v)
    <3>1. PICK j \in 1 .. k - 1 : v[m] = s[j]
      BY DEF Others
    <3> QED
      BY <2>5, <2>6, <3>1
  <2>10. ASSUME NEW l \in 1..Len(w), NEW m \in 1..Len(w), l # m PROVE w[l].id # w[m].id
    <3>1. CASE l \in 1..Len(v) /\ m \in 1..Len(v)
      BY <2>2, <2>10, <3>1 DEF Distinct
    <3>2. CASE l \in 1..Len(v) /\ m = Len(v) + 1
      BY <2>2, <2>9, <3>2
    <3>3. CASE m \in 1..Len(v) /\ l = Len(v) + 1
      BY <2>2, <2>9, <3>3
    <3> QED
      BY <2>3, <2>10, <3>1, <3>2, <3>3
  <2> QED
    BY <2>7, <2>8, <2>10 DEF Others, Distinct
<1> QED
  BY <1>1, <1>2

Begins(v, u) == Len(v) <= Len(u) /\ \A m \in 1..Len(v) : u[m] = v[m]

(* If the first k tickets of a list are distinct, the list without the     *)
(* bytes id starts with the others among these.                            *)
LEMMA WithoutBegins ==
  ASSUME NEW T, NEW s \in Seq(T), NEW k \in 0..Len(s), NEW id,
         \A l, m \in 1..k : l # m => s[l].id # s[m].id
  PROVE  \E v \in Seq(T) : /\ Others(v, s, k, id) /\ Distinct(v)
                           /\ Begins(v, Store!Without(s, id))
<1>1. PICK w \in [0..Len(s) -> Seq(T)] : WithoutTurns(w, s, id)
  BY WithoutRuns
<1>2. /\ Store!Without(s, id) = w[Len(s)] /\ w[0] = <<>>
      /\ \A i \in 1..Len(s) : w[i] = IF s[i].id = id THEN w[i - 1] ELSE Append(w[i - 1], s[i])
      /\ Len(s) \in Nat /\ \A i \in 1..Len(s) : s[i] \in T
  BY <1>1 DEF WithoutTurns
<1> DEFINE A == {i \in 0..k : Others(w[i], s, i, id) /\ Distinct(w[i])}
           B == {i \in 0..Len(s) : i < k \/ Begins(w[k], w[i])}
<1>3. \A i \in 0..k : i \in A
  <2>1. 0 \in A
    BY <1>2, OthersOfNone
  <2>2. ASSUME NEW i \in 1..k, i - 1 \in A PROVE i \in A
    <3>1. /\ i \in 1..Len(s) /\ i \in 0..k /\ w[i - 1] \in Seq(T)
          /\ Others(w[i - 1], s, i - 1, id) /\ Distinct(w[i - 1])
      BY <1>2, <2>2
    <3>2. \A l, m \in 1..i : l # m => s[l].id # s[m].id
      OBVIOUS
    <3>3. w[i] = IF s[i].id = id THEN w[i - 1] ELSE Append(w[i - 1], s[i])
      BY <1>2, <3>1
    <3>4. Others(w[i], s, i, id) /\ Distinct(w[i])
      BY <3>1, <3>2, <3>3, OthersOfOneMore
    <3> QED
      BY <3>1, <3>4
  <2>3. k \in Nat
    OBVIOUS
  <2> HIDE DEF A
  <2> QED
    BY <2>1, <2>2, <2>3, Turns
<1>4. \A i \in 0..Len(s) : i \in B
  <2>1. w[k] \in Seq(T) /\ Begins(w[k], w[k])
    BY <1>2 DEF Begins
  <2>2. 0 \in B
    BY <1>2, <2>1
  <2>3. ASSUME NEW i \in 1..Len(s), i - 1 \in B PROVE i \in B
    <3>1. CASE i <= k
      BY <1>2, <2>1, <3>1
    <3>2. CASE i > k
      <4>1. Begins(w[k], w[i - 1]) /\ i - 1 \in 0..Len(s) /\ w[i - 1] \in Seq(T)
        BY <1>2, <2>3, <3>2
      <4>2. CASE s[i].id = id
        BY <1>2, <4>1, <4>2
      <4>3. CASE s[i].id # id
        <5>1. w[i] = Append(w[i - 1], s[i]) /\ s[i] \in T
          BY <1>2, <4>3
        <5>2. /\ Len(w[i]) = Len(w[i - 1]) + 1 /\ Len(w[i - 1]) \in Nat
              /\ \A m \in 1..Len(w[i - 1]) : w[i][m] = w[i - 1][m]
          BY <4>1, <5>1, AppendProperties
        <5>3. Begins(w[k], w[i])
          BY <2>1, <4>1, <5>2 DEF Begins
        <5> QED
          BY <1>2, <5>3
      <4> QED
        BY <4>2, <4>3
    <3> QED
      BY <3>1, <3>2
  <2> HIDE DEF B
  <2> QED
    BY <1>2, <2>2, <2>3, Turns
<1>5. k \in A /\ Len(s) \in B /\ ~(Len(s) < k) /\ w[k] \in Seq(T)
  <2>1. k \in 0..k /\ Len(s) \in 0..Len(s) /\ ~(Len(s) < k) /\ w[k] \in Seq(T)
    BY <1>2
  <2> HIDE DEF A, B
  <2> QED
    BY <1>3, <1>4, <2>1
<1> QED
  BY <1>2, <1>5

(* A ticket with these bytes is among the first k of l.                    *)
In(id, l, k) == \E i \in 1..k : l[i].id = id

(* l starts with k different tickets that a server sent.                   *)
Lead(l, k, sent) ==
  /\ \A i \in 1..k : l[i] \in sent /\ l[i].id \in Ids
  /\ \A i, j \in 1..k : i # j => l[i].id # l[j].id

Shortened(r, l, k, m, sent) ==
  \E n \in 0..Len(r) :
    Lead(r, n, sent) /\ \A i \in 1..k : i # m => In(l[i].id, r, n)

(* Taking a ticket out of a list leaves the others of its lead.            *)
LEMMA LeadDropped ==
  ASSUME NEW T, NEW l \in Seq(T), NEW k \in 0..Len(l), NEW m \in 1..Len(l), NEW sent,
         Lead(l, k, sent)
  PROVE  Shortened(RemoveAt(l, m), l, k, m, sent)
<1> DEFINE p == SubSeq(l, 1, m - 1)
           q == SubSeq(l, m + 1, Len(l))
           r == p \o q
           n == IF m <= k THEN k - 1 ELSE k
           from(i) == IF i < m THEN i ELSE i + 1
<1>1. /\ Len(l) \in Nat /\ m \in Nat /\ k \in Nat /\ m >= 1 /\ m <= Len(l) /\ k <= Len(l)
      /\ \A i \in 1..Len(l) : l[i] \in T
  OBVIOUS
<1>2. p \in Seq(T) /\ Len(p) = m - 1 /\ \A i \in 1 .. m - 1 : p[i] = l[i]
  <2>1. m - 1 \in Nat /\ m - 1 <= Len(l) /\ \A i \in 1 .. m - 1 : l[i] \in T
    BY <1>1
  <2>2. \A j \in Nat : j <= Len(l) /\ (\A i \in 1..j : l[i] \in T) =>
          /\ SubSeq(l, 1, j) \in Seq(T) /\ Len(SubSeq(l, 1, j)) = j
          /\ \A i \in 1..j : SubSeq(l, 1, j)[i] = l[i]
    BY <1>1, SubSeqProperties
  <2> QED
    BY <2>1, <2>2
<1>3. q \in Seq(T) /\ Len(q) = Len(l) - m /\ \A i \in 1 .. Len(l) - m : q[i] = l[m + i]
  <2>1. m + 1 \in 1 .. Len(l) + 1 /\ \A i \in m + 1 .. Len(l) : l[i] \in T
    BY <1>1
  <2>2. /\ q \in Seq(T)
        /\ Len(q) = IF m + 1 <= Len(l) THEN Len(l) - (m + 1) + 1 ELSE 0
        /\ \A i \in 1 .. Len(l) - (m + 1) + 1 : q[i] = l[m + 1 + i - 1]
    BY <1>1, <2>1, SubSeqProperties
  <2> HIDE DEF q
  <2>3. Len(q) = Len(l) - m
    BY <1>1, <2>2
  <2>4. ASSUME NEW i \in 1 .. Len(l) - m PROVE q[i] = l[m + i]
    <3>1. i \in 1 .. Len(l) - (m + 1) + 1 /\ m + 1 + i - 1 = m + i
      BY <1>1
    <3> QED
      BY <2>2, <3>1
  <2> QED
    BY <2>2, <2>3, <2>4
<1> HIDE DEF p, q
<1>4. r \in Seq(T) /\ Joined(r, p, q)
  BY <1>2, <1>3, Joins
<1>5. Len(r) = Len(l) - 1
  BY <1>1, <1>2, <1>3, <1>4 DEF Joined
<1> HIDE DEF r
<1>6. ASSUME NEW i \in 1..Len(r) PROVE r[i] = l[from(i)]
  <2>1. CASE i < m
    <3>1. i \in 1 .. m - 1
      BY <1>1, <1>5, <2>1
    <3> QED
      BY <1>2, <1>4, <2>1, <3>1 DEF Joined
  <2>2. CASE ~(i < m)
    <3> DEFINE j == i - (m - 1)
    <3>1. j \in 1 .. Len(l) - m /\ (m - 1) + j = i /\ m + j = i + 1
      BY <1>1, <1>5, <2>2
    <3> HIDE DEF j
    <3>2. q[j] = l[i + 1] /\ r[i] = q[j]
      BY <1>2, <1>3, <1>4, <3>1 DEF Joined
    <3> QED
      BY <2>2, <3>2
  <2> QED
    BY <2>1, <2>2
<1>7. n \in 0..Len(r)
  BY <1>1, <1>5
<1>8. \A i \in 1..n : i \in 1..Len(r) /\ from(i) \in 1..k
  BY <1>1, <1>5
<1>9. \A i, j \in 1..n : i # j => from(i) # from(j)
  BY <1>1
<1>10. ASSUME NEW i \in 1..k, i # m PROVE In(l[i].id, r, n)
  <2> DEFINE j == IF i < m THEN i ELSE i - 1
  <2>1. j \in 1..n /\ from(j) = i
    BY <1>1, <1>10
  <2> HIDE DEF j, n, from
  <2>2. r[j] = l[i]
    BY <1>6, <1>8, <2>1
  <2> QED
    BY <2>1, <2>2 DEF In
<1>11. RemoveAt(l, m) = r
  BY DEF RemoveAt, r, p, q
<1>12. Lead(r, n, sent)
  <2> HIDE DEF n, from, r
  <2>1. \A i \in 1..n : r[i] = l[from(i)] /\ from(i) \in 1..k
    BY <1>6, <1>8
  <2>2. \A i \in 1..n : r[i] \in sent /\ r[i].id \in Ids
    BY <2>1 DEF Lead
  <2>3. ASSUME NEW i \in 1..n, NEW j \in 1..n, i # j PROVE r[i].id # r[j].id
    BY <1>9, <2>1, <2>3 DEF Lead
  <2> QED
    BY <2>2, <2>3 DEF Lead
<1> HIDE DEF n, from
<1> QED
  BY <1>7, <1>10, <1>11, <1>12 DEF Shortened

Renewed(q, t, l, k, sent) ==
  \E n \in 0..Len(q) :
    Lead(q, n, sent) /\ In(t.id, q, n) /\ \A id : In(id, l, k) => In(id, q, n)

(* Where there is room for every ticket a server may send, a new ticket in *)
(* front pushes out none that a server sent before.                        *)
LEMMA LeadRenewed ==
  ASSUME NEW T, NEW l \in Seq(T), NEW k \in 0..Len(l), NEW sent, Lead(l, k, sent),
         NEW t \in T, t \in sent, t.id \in Ids,
         IsFiniteSet(Ids), Cardinality(Ids) <= Room
  PROVE  Renewed(Full(t, Store!Without(l, t.id)), t, l, k, sent)
<1> DEFINE u == Store!Without(l, t.id)
           q == Full(t, u)
<1>1. PICK v \in Seq(T) : Others(v, l, k, t.id) /\ Distinct(v) /\ Begins(v, u)
  <2>1. \A i, j \in 1..k : i # j => l[i].id # l[j].id
    BY DEF Lead
  <2> QED
    BY <2>1, WithoutBegins
<1>2. u \in Seq(T)
  BY WithoutType
<1> HIDE DEF u
<1>3. q \in Seq(T) /\ Filled(q, t, u)
  BY <1>2, FullType
<1> HIDE DEF q
<1> DEFINE n == Len(v) + 1
           f == [i \in 1..n |-> IF i = 1 THEN t.id ELSE v[i - 1].id]
<1>4. Len(v) \in Nat /\ Len(u) \in Nat /\ Len(v) <= Len(u) /\ n \in Nat
  BY <1>1, <1>2 DEF Begins
<1>5. \A i \in 1..n : i = 1 \/ i - 1 \in 1..Len(v)
  BY <1>4
<1>6. \A i \in 1..Len(v) : v[i] \in sent /\ v[i].id \in Ids /\ v[i].id # t.id
  BY <1>1 DEF Others, Lead
<1>7. \A i, j \in 1..n : i # j =>
        (IF i = 1 THEN t.id ELSE v[i - 1].id) # (IF j = 1 THEN t.id ELSE v[j - 1].id)
  <2> TAKE i, j \in 1..n
  <2> HAVE i # j
  <2>1. i - 1 # j - 1
    BY <1>4
  <2> QED
    BY <1>1, <1>5, <1>6, <2>1 DEF Distinct
<1>8. f \in Injection(1..n, Ids)
  <2>1. f \in [1..n -> Ids]
    BY <1>5, <1>6
  <2>2. DOMAIN f = 1..n /\ \A i \in 1..n : f[i] = IF i = 1 THEN t.id ELSE v[i - 1].id
    OBVIOUS
  <2> HIDE DEF f, n
  <2>3. IsInjective(f)
    BY <1>7, <2>2 DEF IsInjective
  <2> QED
    BY <2>1, <2>3 DEF Injection
<1>9. n <= Room
  <2>1. Cardinality(1..n) <= Cardinality(Ids)
    BY <1>8, FS_Injection
  <2>2. Cardinality(1..n) = n
    <3>1. 1 \in Int /\ n \in Int /\ ~(1 > n) /\ n - 1 + 1 = n
      BY <1>4
    <3> HIDE DEF n
    <3> QED
      BY <3>1, FS_Interval
  <2>3. Cardinality(Ids) \in Nat
    BY FS_CardinalityType
  <2> QED
    BY <1>4, <2>1, <2>2, <2>3, LimitType
<1>10. /\ n \in 0..Len(q) /\ q[1] = t /\ 1 \in 1..n
       /\ \A i \in 1..Len(v) : q[i + 1] = v[i] /\ i + 1 \in 1..n
  <2>1. Len(q) = IF Len(u) < Room THEN Len(u) + 1 ELSE Room
    BY <1>3 DEF Filled
  <2>2. n <= Len(q) /\ Len(q) \in Nat /\ 1 \in 1..n /\ 1 \in 1..Len(q)
    BY <1>4, <1>9, <2>1, LimitType
  <2>3. q[1] = t
    BY <1>3, <2>2 DEF Filled
  <2>4. ASSUME NEW i \in 1..Len(v) PROVE q[i + 1] = v[i] /\ i + 1 \in 1..n
    <3>1. i + 1 \in 1..n /\ i + 1 \in 1..Len(q) /\ i + 1 # 1 /\ i + 1 - 1 = i
      BY <1>4, <2>2
    <3>2. q[i + 1] = u[i]
      BY <1>3, <3>1 DEF Filled
    <3> QED
      BY <1>1, <3>1, <3>2 DEF Begins
  <2> QED
    BY <1>4, <2>2, <2>3, <2>4
<1>11. \A i \in 1..n : q[i] = IF i = 1 THEN t ELSE v[i - 1]
  <2> TAKE i \in 1..n
  <2>1. CASE i = 1
    BY <1>10, <2>1
  <2>2. CASE i # 1
    <3>1. i - 1 \in 1..Len(v) /\ (i - 1) + 1 = i
      BY <1>4, <2>2
    <3> QED
      BY <1>10, <2>2, <3>1
  <2> QED
    BY <2>1, <2>2
<1>12. Lead(q, n, sent)
  <2> HIDE DEF n
  <2>1. \A i \in 1..n : q[i] \in sent /\ q[i].id \in Ids
    BY <1>5, <1>6, <1>11
  <2>2. \A i \in 1..n : q[i].id = IF i = 1 THEN t.id ELSE v[i - 1].id
    BY <1>11
  <2>3. \A i, j \in 1..n : i # j => q[i].id # q[j].id
    BY <1>7, <2>2
  <2> QED
    BY <2>1, <2>3 DEF Lead
<1> HIDE DEF n
<1>13. In(t.id, q, n)
  BY <1>10 DEF In
<1>14. ASSUME NEW id, In(id, l, k) PROVE In(id, q, n)
  <2>1. PICK i \in 1..k : l[i].id = id
    BY <1>14 DEF In
  <2>2. CASE id = t.id
    BY <1>13, <2>2
  <2>3. CASE id # t.id
    <3>1. PICK m \in 1..Len(v) : v[m] = l[i]
      BY <1>1, <2>1, <2>3 DEF Others
    <3> QED
      BY <1>10, <2>1, <3>1 DEF In
  <2> QED
    BY <2>2, <2>3
<1> QED
  BY <1>10, <1>12, <1>13, <1>14 DEF Renewed, q, u

(* No ticket with these bytes has died.                                    *)
Alive(id) == \A u \in reported : u.id = id => Usable(u, now)

(* c is about to put a ticket with these bytes in front of its list.       *)
Waiting(c, id) == pc[c] \in {"lock", "filter", "publish"} /\ work[c].ticket.id = id

(* Every ticket c has received and that lives is in the lead of its list,  *)
(* unless c is about to put it there.                                      *)
Stored(c, l, k) ==
  \A t \in ToSet(own[c]) : Alive(t.id) => In(t.id, l, k) \/ Waiting(c, t.id)

Kept(g) ==
  \E k \in 0..Len(List(g)) :
    /\ Lead(List(g), k, reported)
    /\ \A c \in Conns : ConfigOf(c) = g => Stored(c, List(g), k)

(* Where the tickets come from.                                            *)
Sources ==
  /\ reported \subseteq Ticket
  /\ \A c \in Conns : pc[c] \in {"lock", "filter", "publish"} =>
       work[c].ticket \in reported /\ work[c].ticket.id \in Ids
  /\ \A c \in Conns : Made(c) \/ own[c] = <<>>

KeptInv == Sources /\ \A g \in Configs : Kept(g)

(* The dead stay dead.                                                     *)
LEMMA DeadStay ==
  ASSUME NEW t \in Ticket, NEW time \in Nat, NEW later \in Nat, time <= later, Usable(t, later)
  PROVE  Usable(t, time)
<1>1. t.received \in Nat /\ t.lifetime \in Nat
  BY DEF Ticket
<1> QED
  BY <1>1 DEF Usable

(* What became of the list m and of its lead of k tickets.                 *)
Carried(m, k, l, n) == \A id : Alive(id) /\ In(id, m, k) => In(id, l, n)

(* A list that still leads with the tickets it led with keeps them.        *)
LEMMA StillKept ==
  ASSUME NEW g \in Configs, NEW k, NEW l, NEW n \in 0..Len(l), List(g)' = l,
         Lead(l, n, reported),
         \A c \in Conns : ConfigOf(c) = g => Stored(c, List(g), k),
         Carried(List(g), k, l, n),
         reported \subseteq reported', reported \subseteq Ticket,
         now \in Nat, now' \in Nat, now <= now',
         \A c \in Conns : ConfigOf(c) = g =>
           /\ \A t \in ToSet(own'[c]) : t \in ToSet(own[c]) \/ Waiting(c, t.id)'
           /\ \A id : Waiting(c, id) => Waiting(c, id)' \/ In(id, l, n)
  PROVE  Kept(g)'
<1>1. \A id : Alive(id)' => Alive(id)
  <2>1. SUFFICES ASSUME NEW id, NEW u \in reported, u.id = id,
                        \A r \in reported' : r.id = id => Usable(r, now')
                 PROVE  Usable(u, now)
    <3>1. \A id : Alive(id)' <=> \A r \in reported' : r.id = id => Usable(r, now')
      BY DEF Alive, Usable
    <3> QED
      BY <3>1 DEF Alive
  <2>2. u \in Ticket /\ Usable(u, now')
    BY <2>1
  <2> QED
    BY <2>2, DeadStay
<1>2. Lead(l, n, reported')
  BY DEF Lead
<1>3. ASSUME NEW c \in Conns, ConfigOf(c) = g, NEW t \in ToSet(own'[c]), Alive(t.id)'
      PROVE  In(t.id, l, n) \/ Waiting(c, t.id)'
  <2>1. Alive(t.id)
    BY <1>1, <1>3
  <2>2. CASE t \in ToSet(own[c])
    <3>1. In(t.id, List(g), k) \/ Waiting(c, t.id)
      BY <1>3, <2>1, <2>2 DEF Stored
    <3> QED
      BY <1>3, <2>1, <3>1 DEF Carried
  <2> QED
    BY <1>3, <2>2
<1>4. \A c \in Conns : ConfigOf(c) = g =>
        \A t \in ToSet(own'[c]) : Alive(t.id)' => In(t.id, l, n) \/ Waiting(c, t.id)'
  BY <1>3
<1>5. Kept(g)' <=> \E i \in 0..Len(List(g)') :
                     /\ Lead(List(g)', i, reported')
                     /\ \A c \in Conns : ConfigOf(c) = g =>
                          \A t \in ToSet(own'[c]) :
                            Alive(t.id)' => In(t.id, List(g)', i) \/ Waiting(c, t.id)'
  BY DEF Kept, Stored, Lead, In, ToSet
<1> QED
  BY <1>2, <1>4, <1>5

(* What c shows of a ticket it waits to store stays as long as its locals. *)
LEMMA StillWaiting ==
  ASSUME NEW c, pc'[c] = pc[c], work'[c] = work[c], NEW id, Waiting(c, id)
  PROVE  Waiting(c, id)'
<1>1. Waiting(c, id)' <=> /\ pc'[c] \in {"lock", "filter", "publish"}
                          /\ work'[c].ticket.id = id
  BY DEF Waiting
<1> QED
  BY <1>1 DEF Waiting

(* A list that does not change keeps its tickets, unless a connection      *)
(* forgets the one it is about to store.                                   *)
LEMMA KeptSame ==
  ASSUME KeptInv, NEW g \in Configs, List(g)' = List(g),
         reported \subseteq reported', now \in Nat, now' \in Nat, now <= now',
         \A c \in Conns : ConfigOf(c) = g =>
           /\ \A t \in ToSet(own'[c]) : t \in ToSet(own[c]) \/ Waiting(c, t.id)'
           /\ \A id : Waiting(c, id) => Waiting(c, id)'
  PROVE  Kept(g)'
<1> DEFINE l == List(g)
<1>1. PICK k \in 0..Len(l) :
        /\ Lead(l, k, reported)
        /\ \A c \in Conns : ConfigOf(c) = g => Stored(c, l, k)
  BY DEF KeptInv, Kept
<1>2. Carried(l, k, l, k)
  BY DEF Carried
<1>3. reported \subseteq Ticket
  BY DEF KeptInv, Sources
<1> HIDE DEF l
<1>4. List(g)' = l
  BY DEF l
<1>5. \A c \in Conns : ConfigOf(c) = g => Stored(c, List(g), k)
  BY <1>1 DEF l
<1>6. Carried(List(g), k, l, k)
  BY <1>2 DEF l
<1> QED
  BY <1>1, <1>3, <1>4, <1>5, <1>6, StillKept

(* What a step of c leaves to the other connections.                       *)
LEMMA StepFrame ==
  ASSUME CacheInv, NEW c \in Conns,
         \/ Hello(c) \/ Cloning(c) \/ Storing(c)
         \/ \E id \in Ids, lifetime \in Lifetimes : Receive(c, id, lifetime)
  PROVE  /\ reported \subseteq reported' /\ now' = now /\ now \in Nat
         /\ \A d \in Conns : d # c =>
              pc'[d] = pc[d] /\ work'[d] = work[d] /\ own'[d] = own[d]
<1>1. now \in Nat
  BY DEF CacheInv, CacheTypes
<1>2. reported \subseteq reported' /\ now' = now
  BY DEF Hello, Cloning, CloneMake, CloneRange, CloneElement, CloneDone,
         Storing, Lock, Filter, Shrink, Publish, Receive
<1>3. CASE Filter(c)
  <2>1. UNCHANGED <<pc, own>> /\ \A d \in Conns : d # c => work'[d] = work[d]
    BY <1>3, FilterTurn
  <2> QED
    BY <1>1, <1>2, <2>1
<1>4. CASE Hello(c) \/ Cloning(c)
  BY <1>1, <1>2, <1>4 DEF Hello, Cloning, CloneMake, CloneRange, CloneElement, CloneDone, Goto,
                          CacheInv, CacheTypes
<1>5. CASE Lock(c) \/ Shrink(c) \/ Publish(c)
  BY <1>1, <1>2, <1>5 DEF Lock, Shrink, Publish, Goto, CacheInv, CacheTypes
<1>6. CASE \E id \in Ids, lifetime \in Lifetimes : Receive(c, id, lifetime)
  BY <1>1, <1>2, <1>6 DEF Receive, Goto, CacheInv, CacheTypes
<1> QED
  BY <1>3, <1>4, <1>5, <1>6 DEF Storing

(* A step of c loses no ticket of another Config.                          *)
LEMMA KeptElsewhere ==
  ASSUME CacheInv, KeptInv, NEW c \in Conns, NEW g \in Configs, g # ConfigOf(c),
         \/ Hello(c) \/ Cloning(c) \/ Storing(c)
         \/ \E id \in Ids, lifetime \in Lifetimes : Receive(c, id, lifetime)
  PROVE  Kept(g)'
<1>1. List(g)' = List(g)
  BY OthersKeep
<1>2. /\ reported \subseteq reported' /\ now' = now /\ now \in Nat
      /\ \A d \in Conns : d # c =>
           pc'[d] = pc[d] /\ work'[d] = work[d] /\ own'[d] = own[d]
  BY StepFrame
<1>3. \A d \in Conns : ConfigOf(d) = g =>
        /\ \A t \in ToSet(own'[d]) : t \in ToSet(own[d]) \/ Waiting(d, t.id)'
        /\ \A id : Waiting(d, id) => Waiting(d, id)'
  BY <1>2, StillWaiting
<1>4. now <= now' /\ now' \in Nat
  BY <1>2
<1> QED
  BY <1>1, <1>2, <1>3, <1>4, KeptSame

(* A connection that says hello or clones.                                 *)
LEMMA KeptQuiet ==
  ASSUME CacheInv, KeptInv, NEW c \in Conns,
         Hello(c) \/ CloneMake(c) \/ CloneRange(c) \/ CloneElement(c)
  PROVE  Kept(ConfigOf(c))'
<1>1. /\ pc[c] \notin {"lock", "filter", "publish"} /\ UNCHANGED <<heap, header, mutex, own>>
      /\ \A d \in Conns : d # c => pc'[d] = pc[d] /\ work'[d] = work[d]
  BY DEF Hello, CloneMake, CloneRange, CloneElement, Goto, CacheInv, CacheTypes
<1>2. reported \subseteq reported' /\ now' = now /\ now \in Nat
  BY StepFrame DEF Cloning
<1>3. ConfigOf(c) \in Configs /\ List(ConfigOf(c))' = List(ConfigOf(c))
  <2>1. pc[c] \notin {"filter", "publish"}
    BY <1>1
  <2> QED
    BY <1>1, <2>1, OwnStep, ConfigType
<1>4. \A d \in Conns :
        /\ \A t \in ToSet(own'[d]) : t \in ToSet(own[d]) \/ Waiting(d, t.id)'
        /\ \A id : Waiting(d, id) => Waiting(d, id)'
  <2>1. \A id : ~Waiting(c, id)
    BY <1>1 DEF Waiting
  <2> QED
    BY <1>1, <2>1, StillWaiting
<1>5. now <= now' /\ now' \in Nat
  BY <1>2
<1> QED
  BY <1>2, <1>3, <1>4, <1>5, KeptSame

(* The ticket that came in waits to be stored.                             *)
LEMMA KeptReceive ==
  ASSUME CacheInv, KeptInv, NEW c \in Conns, NEW id \in Ids, NEW lifetime \in Lifetimes,
         Receive(c, id, lifetime)
  PROVE  Kept(ConfigOf(c))' /\ Sources'
<1> DEFINE t == [id |-> id, received |-> now, lifetime |-> lifetime, psk |-> TRUE]
<1>1. t \in Ticket
  <2>1. id \in STRING /\ now \in Nat /\ lifetime \in Nat /\ TRUE \in BOOLEAN
    BY TicketAssumption DEF CacheInv, CacheTypes
  <2> QED
    BY <2>1, Zenon DEF Ticket
<1>2. t.id = id
  OBVIOUS
<1> HIDE DEF t
<1>3. /\ pc[c] = "connected" /\ pc' = [pc EXCEPT ![c] = "lock"]
      /\ own' = [own EXCEPT ![c] = Append(@, t)]
      /\ work' = [work EXCEPT ![c] = [NoWork EXCEPT !.ticket = t]]
      /\ reported' = reported \cup {t}
      /\ UNCHANGED <<now, heap, header, mutex, clone, offer>>
  BY DEF Receive, Goto, t
<1>4. [NoWork EXCEPT !.ticket = t] = [ticket |-> t, time |-> 0, at |-> 1, kept |-> 0]
  BY DEF NoWork
<1>5. /\ pc'[c] = "lock" /\ work'[c].ticket = t /\ own'[c] = Append(own[c], t)
      /\ own[c] \in Seq(Ticket)
      /\ \A d \in Conns : d # c => pc'[d] = pc[d] /\ work'[d] = work[d] /\ own'[d] = own[d]
  BY <1>3, <1>4 DEF CacheInv, CacheTypes
<1>6. ConfigOf(c) \in Configs /\ List(ConfigOf(c))' = List(ConfigOf(c))
  <2>1. pc[c] \notin {"filter", "publish"} /\ UNCHANGED <<heap, header, mutex>>
    BY <1>3
  <2> QED
    BY <1>5, <2>1, OwnStep, ConfigType
<1>7. Waiting(c, id)'
  BY <1>2, <1>5 DEF Waiting
<1>8. \A u \in ToSet(own'[c]) : u \in ToSet(own[c]) \/ u = t
  <2>1. /\ Len(own'[c]) = Len(own[c]) + 1 /\ Len(own[c]) \in Nat
        /\ DOMAIN own[c] = 1..Len(own[c]) /\ DOMAIN own'[c] = 1..Len(own'[c])
        /\ \A i \in 1..Len(own[c]) : own'[c][i] = own[c][i]
        /\ own'[c][Len(own[c]) + 1] = t
    BY <1>1, <1>5, AppendProperties
  <2>2. \A i \in 1..Len(own'[c]) : i \in 1..Len(own[c]) \/ i = Len(own[c]) + 1
    BY <2>1
  <2> QED
    BY <2>1, <2>2 DEF ToSet
<1>9. \A d \in Conns :
        /\ \A u \in ToSet(own'[d]) : u \in ToSet(own[d]) \/ Waiting(d, u.id)'
        /\ \A i : Waiting(d, i) => Waiting(d, i)'
  <2>1. \A i : ~Waiting(c, i)
    BY <1>3 DEF Waiting
  <2>2. \A u \in ToSet(own'[c]) : u \in ToSet(own[c]) \/ Waiting(c, u.id)'
    <3>1. \A u : u.id = id => Waiting(c, u.id)'
      BY <1>7 DEF Waiting
    <3> QED
      BY <1>2, <1>8, <3>1
  <2> QED
    BY <1>5, <2>1, <2>2, StillWaiting
<1>10. Kept(ConfigOf(c))'
  <2>1. now' = now /\ now \in Nat /\ now' \in Nat /\ now <= now' /\ reported \subseteq reported'
    BY <1>3 DEF CacheInv, CacheTypes
  <2> QED
    BY <1>6, <1>9, <2>1, KeptSame
<1>11. Sources'
  <2>1. reported' \subseteq Ticket
    BY <1>1, <1>3 DEF KeptInv, Sources
  <2>2. \A d \in Conns : pc'[d] \in {"lock", "filter", "publish"} =>
          work'[d].ticket \in reported' /\ work'[d].ticket.id \in Ids
    BY <1>2, <1>3, <1>5 DEF KeptInv, Sources
  <2>3. \A d \in Conns : Made(d)' \/ own'[d] = <<>>
    BY <1>5 DEF KeptInv, Sources, Made
  <2> QED
    BY <2>1, <2>2, <2>3 DEF Sources
<1> QED
  BY <1>10, <1>11

(* Once it waits, a connection does not forget its ticket before it stores *)
(* it.                                                                     *)
LEMMA KeptLocked ==
  ASSUME CacheInv, KeptInv, NEW c \in Conns, Lock(c) \/ Shrink(c)
  PROVE  Kept(ConfigOf(c))'
<1>1. ConfigOf(c) \in Configs /\ List(ConfigOf(c))' = List(ConfigOf(c))
  BY LockList, ShrinkList, ConfigType
<1>2. /\ reported \subseteq reported' /\ now' = now /\ now \in Nat
      /\ \A d \in Conns : d # c =>
           pc'[d] = pc[d] /\ work'[d] = work[d] /\ own'[d] = own[d]
  BY StepFrame DEF Storing
<1>3. /\ own' = own /\ pc'[c] \in {"lock", "filter", "publish"}
      /\ work'[c].ticket = work[c].ticket
  BY DEF Lock, Shrink, Goto, CacheInv, CacheTypes
<1>4. \A d \in Conns :
        /\ \A t \in ToSet(own'[d]) : t \in ToSet(own[d]) \/ Waiting(d, t.id)'
        /\ \A id : Waiting(d, id) => Waiting(d, id)'
  <2>1. \A id : Waiting(c, id) => Waiting(c, id)'
    BY <1>3 DEF Waiting
  <2> QED
    BY <1>2, <1>3, <2>1, StillWaiting
<1>5. now <= now' /\ now' \in Nat
  BY <1>2
<1> QED
  BY <1>1, <1>2, <1>4, <1>5, KeptSame

(* The filter takes out only what is dead.                                 *)
LEMMA KeptFilter ==
  ASSUME CacheInv, KeptInv, NEW c \in Conns, Filter(c)
  PROVE  Kept(ConfigOf(c))'
<1> DEFINE g == ConfigOf(c)
           l == List(g)
           m == work[c].kept + 1
<1>1. g \in Configs /\ l \in Seq(Ticket)
  BY ConfigType, ListType
<1>2. /\ reported \subseteq reported' /\ now' = now /\ now \in Nat
      /\ \A d \in Conns : d # c =>
           pc'[d] = pc[d] /\ work'[d] = work[d] /\ own'[d] = own[d]
  BY StepFrame DEF Storing
<1>3. own' = own /\ pc' = pc /\ work'[c].ticket = work[c].ticket
  BY FilterTurn
<1>4. \A d \in Conns :
        /\ \A t \in ToSet(own'[d]) : t \in ToSet(own[d]) \/ Waiting(d, t.id)'
        /\ \A id : Waiting(d, id) => Waiting(d, id)'
  <2>1. \A id : Waiting(c, id) => Waiting(c, id)'
    BY <1>3 DEF Waiting
  <2> QED
    BY <1>2, <1>3, <2>1, StillWaiting
<1>5. now <= now' /\ now' \in Nat
  BY <1>2
<1>6. CASE Keeps(c)
  <2>1. List(g)' = List(g)
    BY <1>6, FilterList
  <2> QED
    BY <1>1, <1>2, <1>4, <1>5, <2>1, KeptSame
<1>7. CASE ~Keeps(c)
  <2>1. m \in 1..Len(l) /\ ~Usable(l[m], work[c].time) /\ l' = RemoveAt(l, m)
    BY <1>7, FilterList
  <2>2. PICK k \in 0..Len(l) :
          /\ Lead(l, k, reported)
          /\ \A d \in Conns : ConfigOf(d) = g => Stored(d, l, k)
    BY <1>1 DEF KeptInv, Kept
  <2> DEFINE r == RemoveAt(l, m)
  <2>3. reported \subseteq Ticket /\ work[c].time \in Nat /\ work[c].time <= now
    BY DEF Filter, KeptInv, Sources, CacheInv, CacheTypes, Filtering
  <2> HIDE DEF m, l
  <2>4. PICK n \in 0..Len(r) :
          Lead(r, n, reported) /\ \A i \in 1..k : i # m => In(l[i].id, r, n)
    BY <1>1, <2>1, <2>2, LeadDropped DEF Shortened
  <2>5. Carried(l, k, r, n)
    <3>1. SUFFICES ASSUME NEW id, Alive(id), In(id, l, k) PROVE In(id, r, n)
      BY DEF Carried
    <3>2. PICK i \in 1..k : l[i].id = id
      BY <3>1 DEF In
    <3>3. l[i] \in reported
      BY <2>2 DEF Lead
    <3>4. Usable(l[i], now) /\ l[i] \in Ticket
      BY <2>3, <3>1, <3>2, <3>3 DEF Alive
    <3>5. Usable(l[i], work[c].time)
      BY <1>2, <2>3, <3>4, DeadStay
    <3>6. i # m
      BY <2>1, <3>5
    <3> QED
      BY <2>4, <3>2, <3>6
  <2> HIDE DEF r
  <2>6. List(g)' = r
    BY <2>1 DEF l, r
  <2>7. \A d \in Conns : ConfigOf(d) = g => Stored(d, List(g), k)
    BY <2>2 DEF l
  <2>8. Carried(List(g), k, r, n)
    BY <2>5 DEF l
  <2>9. Lead(r, n, reported) /\ n \in 0..Len(r)
    BY <2>4
  <2> QED
    BY <1>1, <1>2, <1>4, <1>5, <2>3, <2>6, <2>7, <2>8, <2>9, StillKept
<1> QED
  BY <1>6, <1>7

(* The new ticket goes in front, and where there is room for all of them   *)
(* it pushes out none that a connection stored.                            *)
LEMMA KeptPublish ==
  ASSUME CacheInv, KeptInv, NEW c \in Conns, Publish(c),
         IsFiniteSet(Ids), Cardinality(Ids) <= Room
  PROVE  Kept(ConfigOf(c))'
<1> DEFINE g == ConfigOf(c)
           l == List(g)
           t == work[c].ticket
           q == Full(t, Store!Without(l, t.id))
<1>1. g \in Configs /\ l \in Seq(Ticket) /\ t \in Ticket
  BY ConfigType, ListType DEF CacheInv, CacheTypes
<1>2. /\ reported \subseteq reported' /\ now' = now /\ now \in Nat
      /\ \A d \in Conns : d # c =>
           pc'[d] = pc[d] /\ work'[d] = work[d] /\ own'[d] = own[d]
  BY StepFrame DEF Storing
<1>3. own' = own /\ t \in reported /\ t.id \in Ids
  BY DEF Publish, KeptInv, Sources
<1>4. List(g)' = q
  <2>1. List(g)' = Prepended(t, l)
    BY PublishList
  <2> HIDE DEF t, l
  <2> QED
    BY <1>1, <2>1, PrependedIsInsert
<1>5. PICK k \in 0..Len(l) :
        /\ Lead(l, k, reported)
        /\ \A d \in Conns : ConfigOf(d) = g => Stored(d, l, k)
  BY <1>1 DEF KeptInv, Kept
<1>6. \A id : Waiting(c, id) => id = t.id
  BY DEF Waiting
<1> HIDE DEF l, t
<1>7. PICK n \in 0..Len(q) :
        Lead(q, n, reported) /\ In(t.id, q, n) /\ \A id : In(id, l, k) => In(id, q, n)
  BY <1>1, <1>3, <1>5, LeadRenewed DEF Renewed
<1> HIDE DEF q
<1>8. \A d \in Conns :
        /\ \A u \in ToSet(own'[d]) : u \in ToSet(own[d]) \/ Waiting(d, u.id)'
        /\ \A id : Waiting(d, id) => Waiting(d, id)' \/ In(id, q, n)
  BY <1>2, <1>3, <1>6, <1>7, StillWaiting
<1>9. Carried(List(g), k, q, n)
  BY <1>7 DEF Carried, l
<1>10. \A d \in Conns : ConfigOf(d) = g => Stored(d, List(g), k)
  BY <1>5 DEF l
<1>11. now <= now' /\ now' \in Nat /\ reported \subseteq Ticket
  BY <1>2 DEF KeptInv, Sources
<1>12. Lead(q, n, reported)
  BY <1>7
<1> QED
  BY <1>1, <1>2, <1>4, <1>8, <1>9, <1>10, <1>11, <1>12, StillKept

(* ListType, as a formula about one state.                                 *)
LEMMA ListsAre == CacheInv => \A g \in Configs : List(g) \in Seq(Ticket)
  BY ListType

(* A Config that has just been cloned owes its connection nothing.         *)
LEMMA KeptCloneDone ==
  ASSUME CacheInv, KeptInv, NEW c \in Dialled, CloneDone(c)
  PROVE  Kept(c)'
<1>1. c \in Conns /\ ConfigOf(c) = c /\ \A d \in Conns : ConfigOf(d) = c => d = c
  BY TicketAssumption DEF ConfigOf
<1>2. own' = own /\ own[c] = <<>>
  <2>1. pc[c] = "copy" /\ c # Caller
    BY <1>1, TicketAssumption DEF CloneDone
  <2>2. ~Made(c)
    BY <2>1 DEF Made
  <2> QED
    BY <1>1, <2>2 DEF CloneDone, KeptInv, Sources
<1>3. ToSet(own'[c]) = {}
  <2>1. DOMAIN own[c] = {}
    BY <1>2
  <2> QED
    BY <1>2, <2>1 DEF ToSet
<1>4. 0 \in 0..Len(List(c)')
  <2>1. CacheInv'
    BY CacheCloneDone
  <2>2. List(c)' \in Seq(Ticket)
    <3>1. CacheInv' => (\A g \in Configs : List(g) \in Seq(Ticket))'
      BY ListsAre, PTL
    <3> QED
      BY <2>1, <3>1 DEF Configs
  <2> QED
    BY <2>2
<1> QED
  BY <1>1, <1>3, <1>4 DEF Kept, Lead, Stored

(* A connection that works on a ticket has received it.                    *)
LEMMA SourcesStep ==
  ASSUME CacheInv, Sources, NEW c \in Conns, Hello(c) \/ Cloning(c) \/ Storing(c)
  PROVE  Sources'
<1>1. UNCHANGED <<own, reported>>
  BY DEF Hello, Cloning, CloneMake, CloneRange, CloneElement, CloneDone,
         Storing, Lock, Filter, Shrink, Publish
<1>2. \A d \in Conns : d # c => pc'[d] = pc[d] /\ work'[d] = work[d]
  BY StepFrame
<1>3. pc'[c] \in {"lock", "filter", "publish"} =>
        pc[c] \in {"lock", "filter", "publish"} /\ work'[c].ticket = work[c].ticket
  <2>1. CASE Filter(c)
    BY <2>1, FilterTurn
  <2>2. CASE Hello(c) \/ Cloning(c)
    BY <2>2 DEF Hello, Cloning, CloneMake, CloneRange, CloneElement, CloneDone, Goto,
                CacheInv, CacheTypes
  <2>3. CASE Lock(c) \/ Shrink(c) \/ Publish(c)
    BY <2>3 DEF Lock, Shrink, Publish, Goto, CacheInv, CacheTypes
  <2> QED
    BY <2>1, <2>2, <2>3 DEF Storing
<1>4. Made(c) => Made(c)'
  <2>1. CASE Filter(c)
    BY <2>1, FilterTurn DEF Made
  <2>2. CASE Hello(c) \/ Cloning(c)
    BY <2>2, TicketAssumption
       DEF Hello, Cloning, CloneMake, CloneRange, CloneElement, CloneDone, Goto,
           CacheInv, CacheTypes, Made
  <2>3. CASE Lock(c) \/ Shrink(c) \/ Publish(c)
    BY <2>3 DEF Lock, Shrink, Publish, Goto, CacheInv, CacheTypes, Made
  <2> QED
    BY <2>1, <2>2, <2>3 DEF Storing
<1>5. \A d \in Conns : Made(d) => Made(d)'
  BY <1>2, <1>4 DEF Made
<1> QED
  BY <1>1, <1>2, <1>3, <1>5 DEF Sources

(* At the start nothing is owed.                                           *)
LEMMA KeptInit == Init => KeptInv
<1> SUFFICES ASSUME Init PROVE KeptInv
  OBVIOUS
<1>1. /\ reported = {} /\ own = [c \in Conns |-> <<>>]
      /\ pc = [c \in Conns |-> IF c \in Dialled THEN "dial" ELSE "hello"]
  BY DEF Init
<1>2. Sources
  BY <1>1 DEF Sources
<1>3. ASSUME NEW g \in Configs PROVE Kept(g)
  <2>1. 0 \in 0..Len(List(g))
    BY CacheInit, ListType
  <2>2. \A c \in Conns : ToSet(own[c]) = {}
    <3>1. DOMAIN <<>> = {}
      OBVIOUS
    <3> QED
      BY <1>1, <3>1 DEF ToSet
  <2> QED
    BY <2>1, <2>2 DEF Kept, Lead, Stored
<1> QED
  BY <1>2, <1>3 DEF KeptInv

Fits == IsFiniteSet(Ids) /\ Cardinality(Ids) <= Room

(* Where there is room for every ticket, every step keeps what is stored.  *)
LEMMA KeptStep == Fits /\ CacheInv /\ KeptInv /\ [Next]_vars => KeptInv'
<1> SUFFICES ASSUME Fits, CacheInv, KeptInv, [Next]_vars PROVE KeptInv'
  OBVIOUS
<1>1. CASE Tick \/ Terminated \/ UNCHANGED vars
  <2>1. /\ UNCHANGED <<pc, work, own, reported>> /\ now \in Nat /\ now' \in Nat /\ now <= now'
    BY <1>1 DEF Tick, Terminated, vars, CacheInv, CacheTypes
  <2>2. Sources'
    BY <2>1 DEF KeptInv, Sources, Made
  <2>3. ASSUME NEW g \in Configs PROVE Kept(g)'
    <3>1. List(g)' = List(g)
      BY <1>1, TickList DEF Terminated
    <3>2. \A c \in Conns :
            /\ \A t \in ToSet(own'[c]) : t \in ToSet(own[c]) \/ Waiting(c, t.id)'
            /\ \A id : Waiting(c, id) => Waiting(c, id)'
      BY <2>1, StillWaiting
    <3> QED
      BY <2>1, <3>1, <3>2, KeptSame
  <2> QED
    BY <2>2, <2>3 DEF KeptInv, Configs
<1>2. ASSUME NEW c \in Conns,
             \/ Hello(c) \/ Cloning(c) \/ Storing(c)
             \/ \E id \in Ids, lifetime \in Lifetimes : Receive(c, id, lifetime)
      PROVE  KeptInv'
  <2>1. \A g \in Configs : g # ConfigOf(c) => Kept(g)'
    BY <1>2, KeptElsewhere
  <2>2. Kept(ConfigOf(c))'
    <3>1. CASE CloneDone(c)
      <4>1. c \in Dialled /\ ConfigOf(c) = c
        BY <3>1, OnlyDialled DEF CloneDone, ConfigOf
      <4> QED
        BY <3>1, <4>1, KeptCloneDone DEF ConfigOf
    <3>2. CASE Hello(c) \/ CloneMake(c) \/ CloneRange(c) \/ CloneElement(c)
      BY <3>2, KeptQuiet
    <3>3. CASE Storing(c)
      BY <3>3, KeptLocked, KeptFilter, KeptPublish DEF Storing, Fits
    <3>4. CASE \E id \in Ids, lifetime \in Lifetimes : Receive(c, id, lifetime)
      BY <3>4, KeptReceive
    <3> QED
      BY <1>2, <3>1, <3>2, <3>3, <3>4 DEF Cloning
  <2>3. Sources'
    BY <1>2, SourcesStep, KeptReceive DEF KeptInv
  <2>4. \A g \in Configs : Kept(g)'
    BY <2>1, <2>2
  <2> QED
    BY <2>3, <2>4 DEF KeptInv, Configs
<1> QED
  BY <1>1, <1>2 DEF Next

(* A connection that stores no ticket has all of its tickets in the list.  *)
LEMMA KeptIsInTheList == CacheInv /\ KeptInv => NoTicketLost
<1> SUFFICES ASSUME CacheInv, KeptInv, NEW c \in Conns, pc[c] = "connected",
                    NEW t \in ToSet(own[c]),
                    \A u \in reported : u.id = t.id => Usable(u, now)
             PROVE  \E u \in ToSet(List(ConfigOf(c))) : u.id = t.id
  BY DEF NoTicketLost
<1> DEFINE l == List(ConfigOf(c))
<1>1. PICK k \in 0..Len(l) : Stored(c, l, k)
  BY ConfigType DEF KeptInv, Kept
<1>2. l \in Seq(Ticket)
  BY ConfigType, ListType
<1>3. ~Waiting(c, t.id) /\ Alive(t.id)
  BY DEF Waiting, Alive
<1>4. PICK i \in 1..k : l[i].id = t.id
  BY <1>1, <1>3 DEF Stored, In
<1> QED
  BY <1>2, <1>4 DEF ToSet

(* No update is lost: as long as there are no more different tickets than  *)
(* the limit allows, a ticket that some connection has stored in its Config*)
(* is there until it, or one with the same bytes that took its place, dies.*)
THEOREM NoTicketIsLost == Spec => []NoTicketLost
<1>1. CASE Fits
  <2>1. CacheInv /\ KeptInv /\ [Next]_vars => KeptInv'
    BY <1>1, KeptStep
  <2>2. CacheInv /\ KeptInv => NoTicketLost
    BY KeptIsInTheList
  <2> QED
    BY <2>1, <2>2, CacheInvariant, KeptInit, PTL DEF Spec
<1>2. CASE ~Fits
  <2>1. ~Fits => NoTicketLost
    BY DEF Fits, NoTicketLost
  <2> QED
    BY <1>2, <2>1, PTL
<1> QED
  BY <1>1, <1>2
=============================================================================
