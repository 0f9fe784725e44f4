-------------------------- MODULE NegotiationProofs --------------------------
(***************************************************************************)
(* What the choices of Negotiation return, for lists of any length.  All   *)
(* of them take the first element of a list that passes a test.            *)
(***************************************************************************)
EXTENDS Negotiation, WellFoundedInduction, NaturalsInduction, TLAPS

(* A set of natural numbers with an element has a smallest one.            *)
LEMMA Smallest ==
  ASSUME NEW S, S \subseteq Nat, S # {}
  PROVE  Min(S) \in S /\ \A y \in S : Min(S) <= y
<1> DEFINE R == {p \in Nat \X Nat : p[1] < p[2]}
<1>1. OpToRel(<, Nat) = R
  BY DEF OpToRel
<1>2. IsWellFoundedOn(R, Nat)
  BY <1>1, NatLessThanWellFounded
<1>3. PICK x \in S : \A y \in S : <<y, x>> \notin R
  BY <1>2, WFMin
<1>4. \A y \in S : x <= y
  <2> TAKE y \in S
  <2>1. <<y, x>> \in Nat \X Nat /\ <<y, x>>[1] = y /\ <<y, x>>[2] = x
    OBVIOUS
  <2> QED
    BY <1>3, <2>1
<1> QED
  BY <1>4 DEF Min

(* The same for the positions of a sequence, as SelectInSeq uses it.       *)
LEMMA FirstPosition ==
  ASSUME NEW n \in Nat, NEW I, I \subseteq 1..n, NEW k,
         k = IF I # {} THEN Min(I) ELSE 0
  PROVE  /\ k \in 0..n
         /\ k = 0 <=> I = {}
         /\ k # 0 => k \in I /\ \A j \in I : k <= j
<1>1. CASE I = {}
  BY <1>1
<1>2. CASE I # {}
  <2>1. I \subseteq Nat
    OBVIOUS
  <2>2. k \in I /\ \A y \in I : k <= y
    BY <1>2, <2>1, Smallest
  <2>3. k \in 1..n
    BY <2>2
  <2> QED
    BY <1>2, <2>2, <2>3
<1> QED
  BY <1>1, <1>2

---------------------------------------------------------------------------
(* Protocols *)

(* selectALPNProtocol: the server's first protocol among the client's.     *)
LEMMA SelectALPNFirstCommon ==
  ASSUME NEW s \in Seq(STRING), NEW c
  PROVE  \E i \in 0..Len(s) :
           /\ SelectALPN(s, c) = IF i = 0 THEN None ELSE s[i]
           /\ i # 0 => Contains(c, s[i])
           /\ \A j \in 1..Len(s) : Contains(c, s[j]) => i # 0 /\ i <= j
<1> DEFINE I == {j \in 1..Len(s) : Contains(c, s[j])}
           i == SelectInSeq(s, LAMBDA p : Contains(c, p))
<1>1. i = IF I # {} THEN Min(I) ELSE 0
  BY DEF SelectInSeq
<1>2. /\ i \in 0..Len(s)
      /\ i = 0 <=> I = {}
      /\ i # 0 => i \in I /\ \A j \in I : i <= j
  <2>1. Len(s) \in Nat /\ I \subseteq 1..Len(s)
    OBVIOUS
  <2> HIDE DEF I, i
  <2> QED
    BY <1>1, <2>1, FirstPosition
<1>3. SelectALPN(s, c) = IF i = 0 THEN None ELSE s[i]
  BY DEF SelectALPN, FirstOr
<1> HIDE DEF i
<1> QED
  BY <1>2, <1>3

(* So the client that offered protocols accepts the answer (readEncrypted- *)
(* ExtensionsTLS13 compares it with its own list).                         *)
LEMMA ServerProtocolAccepted ==
  ASSUME NEW s \in Seq(STRING), NEW c
  PROVE  AcceptsALPN(c, SelectALPN(s, c))
<1>1. SelectALPN(s, c) = None \/ Contains(c, SelectALPN(s, c))
  BY SelectALPNFirstCommon
<1> QED
  BY <1>1 DEF AcceptsALPN

---------------------------------------------------------------------------
(* Cipher suites *)

(* The two numbers of a suite, and nothing else, mean the same.            *)
LEMMA SameSuite ==
  ASSUME NEW a, NEW b, Normalize(a) = Normalize(b), a \in KnownSuites
  PROVE  /\ b \in KnownSuites
         /\ a \in {"GCM", "GCM_ALT"} => b \in {"GCM", "GCM_ALT"}
BY DEF Normalize, KnownSuites

(* The match of a preference is an identifier of the client's that means   *)
(* the same suite, the preference itself if the client has it, and there is*)
(* one if the client has any such identifier.                              *)
LEMMA MatchForMeansTheSame ==
  ASSUME NEW c \in Seq(KnownSuites \cup {"OTHER"}), NEW p
  PROVE  /\ Contains(c, p) => MatchFor(p, c) = p
         /\ \/ Contains(c, MatchFor(p, c)) /\ Normalize(MatchFor(p, c)) = Normalize(p)
            \/ MatchFor(p, c) = None /\ \A j \in 1..Len(c) : Normalize(c[j]) # Normalize(p)
<1> DEFINE I == {j \in 1..Len(c) : Normalize(c[j]) = Normalize(p)}
           i == SelectInSeq(c, LAMBDA x : Normalize(x) = Normalize(p))
<1>1. CASE Contains(c, p)
  BY <1>1 DEF MatchFor
<1>2. CASE ~Contains(c, p)
  <2>1. i = IF I # {} THEN Min(I) ELSE 0
    BY DEF SelectInSeq
  <2>2. /\ i = 0 <=> I = {}
        /\ i # 0 => i \in I
    <3>1. Len(c) \in Nat /\ I \subseteq 1..Len(c)
      OBVIOUS
    <3> HIDE DEF I, i
    <3> QED
      BY <2>1, <3>1, FirstPosition
  <2>3. MatchFor(p, c) = IF i = 0 THEN None ELSE c[i]
    BY <1>2 DEF MatchFor, FirstOr
  <2> HIDE DEF i
  <2> QED
    BY <1>2, <2>2, <2>3 DEF Contains
<1> QED
  BY <1>1, <1>2

(* selectCipherSuite: the match of the first preference that has a known   *)
(* one, or none at all.                                                    *)
LEMMA SelectCipherSuiteFirst ==
  ASSUME NEW c \in Seq(KnownSuites \cup {"OTHER"}), NEW s \in Seq(KnownSuites), s # <<>>
  PROVE  LET choice == SelectCipherSuite(c, s, TRUE) IN
         \/ choice = None /\ \A j \in 1..Len(s) : MatchFor(s[j], c) \notin KnownSuites
         \/ \E i \in 1..Len(s) :
              /\ choice = MatchFor(s[i], c) /\ choice \in KnownSuites
              /\ \A j \in 1 .. i - 1 : MatchFor(s[j], c) \notin KnownSuites
<1> DEFINE I == {j \in 1..Len(s) : TRUE /\ MatchFor(s[j], c) \in KnownSuites}
           i == SelectInSeq(s, LAMBDA p : TRUE /\ MatchFor(p, c) \in KnownSuites)
<1>1. i = IF I # {} THEN Min(I) ELSE 0
  BY DEF SelectInSeq
<1>2. /\ i \in 0..Len(s)
      /\ i = 0 <=> I = {}
      /\ i # 0 => i \in I /\ \A j \in I : i <= j
  <2>1. Len(s) \in Nat /\ I \subseteq 1..Len(s)
    OBVIOUS
  <2> HIDE DEF I, i
  <2> QED
    BY <1>1, <2>1, FirstPosition
<1>3. SelectCipherSuite(c, s, TRUE) =
        IF (IF i = 0 THEN None ELSE s[i]) = None THEN None
        ELSE MatchFor(IF i = 0 THEN None ELSE s[i], c)
  BY DEF SelectCipherSuite, FirstOr
<1> HIDE DEF i
<1>4. CASE i = 0
  BY <1>2, <1>3, <1>4
<1>5. CASE i # 0
  <2>1. s[i] \in KnownSuites /\ None \notin KnownSuites
    BY <1>2, <1>5 DEF KnownSuites, None
  <2>2. SelectCipherSuite(c, s, TRUE) = MatchFor(s[i], c)
    BY <1>3, <1>5, <2>1
  <2>3. \A j \in 1 .. i - 1 : j \in 1..Len(s) /\ ~(i <= j)
    BY <1>2, <1>5
  <2> QED
    BY <1>2, <1>5, <2>2, <2>3
<1> QED
  BY <1>4, <1>5

(* The hello of this implementation's client has the two GCM identifiers   *)
(* only, so a server with a list of its own must have one of them too.     *)
LEMMA OwnHelloNeedsGCM ==
  ASSUME NEW s \in Seq(KnownSuites), s # <<>>,
         SelectCipherSuite(OwnClientSuites, s, TRUE) # None
  PROVE  ToSet(s) \cap {"GCM", "GCM_ALT"} # {}
<1>1. /\ OwnClientSuites \in Seq(KnownSuites \cup {"OTHER"})
      /\ \A x : Contains(OwnClientSuites, x) => x \in {"GCM", "GCM_ALT", "OTHER"}
  BY DEF OwnClientSuites, KnownSuites, Contains
<1>2. PICK i \in 1..Len(s) : MatchFor(s[i], OwnClientSuites) \in KnownSuites
  BY <1>1, SelectCipherSuiteFirst
<1> DEFINE m == MatchFor(s[i], OwnClientSuites)
<1>3. Contains(OwnClientSuites, m) /\ Normalize(m) = Normalize(s[i])
  BY <1>1, <1>2, MatchForMeansTheSame DEF None, KnownSuites
<1>4. m \in {"GCM", "GCM_ALT"}
  BY <1>1, <1>2, <1>3 DEF KnownSuites
<1>5. s[i] \in {"GCM", "GCM_ALT"}
  BY <1>2, <1>3, <1>4, SameSuite
<1> QED
  BY <1>5 DEF ToSet
=============================================================================
