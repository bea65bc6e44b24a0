--------------------------- MODULE RotationProofs ---------------------------
(***************************************************************************)
(* What holds of Rotation for every number of members, every window and    *)
(* every mixture of calls and ticks: nothing that is fresh is lost, the    *)
(* skipping design is a round robin, and the removing one starves nobody.  *)
(***************************************************************************)
EXTENDS Rotation, FiniteSetTheorems, SequenceTheorems, TLAPS

-----------------------------------------------------------------------------
(* Lemmas about the operators Rotation is built from.                      *)

\* A set of naturals that is not empty has a minimum, and Min is it.
LEMMA MinOfNaturals ==
  ASSUME NEW S \in SUBSET Nat, S # {}
  PROVE  /\ Min(S) \in S
         /\ \A x \in S : Min(S) <= x
  <1>1. PICK x \in S : \A y \in S : ~(<<y, x>> \in OpToRel(<, Nat))
    BY NatLessThanWellFounded, WFMin
  <1>2. ASSUME NEW y \in S PROVE x <= y
    <2>1. x \in Nat /\ y \in Nat
      OBVIOUS
    <2>2. y < x => <<y, x>> \in OpToRel(<, Nat)
      BY <2>1 DEF OpToRel
    <2>3. ~(y < x)
      BY <1>1, <2>2, Zenon
    <2> QED
      BY <2>1, <2>3
  <1> QED
    BY <1>1, <1>2 DEF Min

\* A quotient and a remainder are what division yields.
LEMMA DivisionIsUnique ==
  ASSUME NEW n \in Nat \ {0}, NEW a \in Nat, NEW q \in Int, NEW b \in 0..(n - 1), a = n * q + b
  PROVE  a % n = b
  <1> DEFINE p == a \div n
             s == a % n
             k == p - q
  <1>1. a = n * p + s /\ p \in Int /\ s \in 0..(n - 1)
    BY SMTT(30)
  <1> HIDE DEF p, s
  <1>2. k \in Int /\ p = q + k
    BY <1>1
  <1>3. n * p = n * q + n * k
    BY <1>2
  <1>4. n * k = b - s
    BY <1>1, <1>2, <1>3
  <1> HIDE DEF k
  <1>5. (k >= 1 => n * k >= n) /\ (k <= -1 => n * k <= -n)
    BY <1>2
  <1>6. k = 0
    BY <1>1, <1>2, <1>4, <1>5
  <1>7. s = b
    BY <1>1, <1>4, <1>6
  <1> QED
    BY <1>7 DEF s

\* A whole round leaves a place where it is.
LEMMA RoundTrip ==
  ASSUME NEW n \in Nat \ {0}, NEW a \in Nat
  PROVE  (a + n) % n = a % n
  <1>1. PICK q \in Int, r \in 0..(n - 1) : a = n * q + r
    <2>1. a = n * (a \div n) + (a % n) /\ a \div n \in Int /\ a % n \in 0..(n - 1)
      BY SMTT(30)
    <2> QED
      BY <2>1, Zenon
  <1>2. a % n = r
    BY <1>1, DivisionIsUnique
  <1>3. a + n = n * (q + 1) + r /\ a + n \in Nat /\ q + 1 \in Int
    <2>1. n * (q + 1) = n * q + n
      OBVIOUS
    <2> QED
      BY <1>1, <2>1
  <1>4. (a + n) % n = r
    BY <1>3, DivisionIsUnique
  <1> QED
    BY <1>2, <1>4

\* Behind a whole round the index points to a place of the sequence.
LEMMA PlaceInRange ==
  ASSUME NEW n \in Nat \ {0}, NEW a \in Nat
  PROVE  (a % n) + 1 \in 1..n
  BY SMTT(30)

LEMMA SmallPlace ==
  ASSUME NEW n \in Nat \ {0}, NEW a \in 0..(n - 1)
  PROVE  a % n = a
  BY SMTT(30)

\* Within a round different distances lead to different places.
LEMMA DistanceIsUnique ==
  ASSUME NEW n \in Nat \ {0}, NEW a \in Nat, NEW d \in 0..(n - 1), NEW e \in 0..(n - 1),
         (a + d) % n = (a + e) % n
  PROVE  d = e
  <1>1. PICK q \in Int, r \in 0..(n - 1) : a = n * q + r
    <2>1. a = n * (a \div n) + (a % n) /\ a \div n \in Int /\ a % n \in 0..(n - 1)
      BY SMTT(30)
    <2> QED
      BY <2>1, Zenon
  <1>2. ASSUME NEW c \in 0..(n - 1)
        PROVE  (a + c) % n = IF r + c < n THEN r + c ELSE r + c - n
    <2>1. CASE r + c < n
      <3>1. a + c = n * q + (r + c) /\ a + c \in Nat /\ r + c \in 0..(n - 1)
        BY <1>1, <2>1
      <3> QED
        BY <2>1, <3>1, DivisionIsUnique
    <2>2. CASE ~(r + c < n)
      <3>1. n * (q + 1) = n * q + n
        BY <1>1
      <3>2. /\ a + c = n * (q + 1) + (r + c - n) /\ a + c \in Nat /\ q + 1 \in Int
            /\ r + c - n \in 0..(n - 1)
        BY <1>1, <2>2, <3>1
      <3> QED
        BY <2>2, <3>2, DivisionIsUnique
    <2> QED
      BY <2>1, <2>2
  <1>3. (IF r + d < n THEN r + d ELSE r + d - n) = (IF r + e < n THEN r + e ELSE r + e - n)
    BY <1>2
  <1> QED
    BY <1>1, <1>3

\* When the index has moved behind the place k away, a place that was further
\* is nearer by that much, and the others come a round later.
FromBehind(k, d, n) == IF d > k THEN d - k - 1 ELSE d - k - 1 + n

LEMMA PlacesComeNearer ==
  ASSUME NEW n \in Nat \ {0}, NEW a \in Nat, NEW k \in 0..(n - 1), NEW d \in 0..(n - 1)
  PROVE  /\ FromBehind(k, d, n) \in 0..(n - 1)
         /\ (a + k + 1 + FromBehind(k, d, n)) % n = (a + d) % n
  <1>1. CASE d > k
    <2>1. FromBehind(k, d, n) = d - k - 1
      BY <1>1 DEF FromBehind
    <2>2. a + k + 1 + (d - k - 1) = a + d /\ d - k - 1 \in 0..(n - 1)
      BY <1>1
    <2> QED
      BY <2>1, <2>2
  <1>2. CASE ~(d > k)
    <2>1. FromBehind(k, d, n) = d - k - 1 + n
      BY <1>2 DEF FromBehind
    <2>2. a + k + 1 + (d - k - 1 + n) = (a + d) + n /\ d - k - 1 + n \in 0..(n - 1)
      BY <1>2
    <2>3. ((a + d) + n) % n = (a + d) % n
      <3>1. a + d \in Nat
        OBVIOUS
      <3> QED
        BY <3>1, RoundTrip
    <2> QED
      BY <2>1, <2>2, <2>3
  <1> QED
    BY <1>1, <1>2

\* RemoveFirst of a member of a ranking without repetitions: it is gone, the
\* others stay, in their order.
LEMMA RemoveFirstKeepsOthers ==
  ASSUME NEW S, NEW s \in Seq(S), NEW p \in 1..Len(s),
         \A i \in 1..Len(s) : s[i] = s[p] => i = p
  PROVE  LET t == RemoveFirst(s, s[p]) IN
         /\ t \in Seq(S)
         /\ Len(t) = Len(s) - 1
         /\ \A i \in 1..Len(t) : t[i] = IF i < p THEN s[i] ELSE s[i + 1]
  <1> DEFINE front == SubSeq(s, 1, p - 1)
             back == SubSeq(s, p + 1, Len(s))
             I == {i \in 1..Len(s) : s[i] = s[p]}
  <1>0. Len(s) \in Nat /\ \A i \in 1..Len(s) : s[i] \in S
    BY LenProperties, ElementOfSeq
  <1>1. I = {p}
    OBVIOUS
  <1>2. Min(I) = p
    BY <1>0, <1>1 DEF Min
  <1>3. SelectInSeq(s, LAMBDA v : v = s[p]) = p
    BY <1>1, <1>2 DEF SelectInSeq
  <1>4. RemoveFirst(s, s[p]) = front \o back
    BY <1>3 DEF RemoveFirst, RemoveAt
  <1>5. /\ front \in Seq(S) /\ Len(front) = p - 1
        /\ \A i \in 1..(p - 1) : front[i] = s[i]
    <2>1. \A i \in 1..(p - 1) : s[i] \in S
      BY <1>0
    <2> QED
      BY <1>0, <2>1, SubSeqProperties
  <1>6. /\ back \in Seq(S) /\ Len(back) = Len(s) - p
        /\ \A i \in 1..(Len(s) - p) : back[i] = s[p + i]
    <2>1. \A i \in (p + 1)..Len(s) : s[i] \in S
      BY <1>0
    <2>2. /\ back \in Seq(S)
          /\ Len(back) = IF p + 1 <= Len(s) THEN Len(s) - (p + 1) + 1 ELSE 0
          /\ \A i \in 1..(Len(s) - (p + 1) + 1) : back[i] = s[p + 1 + i - 1]
      BY <1>0, <2>1, SubSeqProperties
    <2> QED
      BY <1>0, <2>2
  <1> HIDE DEF front, back
  <1>7. /\ front \o back \in Seq(S)
        /\ Len(front \o back) = Len(front) + Len(back)
        /\ \A i \in 1..(Len(front) + Len(back)) :
             (front \o back)[i] = IF i <= Len(front) THEN front[i] ELSE back[i - Len(front)]
    BY <1>5, <1>6, ConcatProperties
  <1>8. ASSUME NEW i \in 1..(Len(s) - 1)
        PROVE  (front \o back)[i] = IF i < p THEN s[i] ELSE s[i + 1]
    <2>1. CASE i < p
      BY <1>0, <1>5, <1>6, <1>7, <2>1
    <2>2. CASE i >= p
      <3>1. i - (p - 1) \in 1..(Len(s) - p) /\ p + (i - (p - 1)) = i + 1
        BY <1>0, <2>2
      <3>2. back[i - (p - 1)] = s[i + 1]
        BY <1>6, <3>1
      <3> QED
        BY <1>0, <1>5, <1>6, <1>7, <2>2, <3>2
    <2>3. i < p \/ i >= p
      BY <1>0
    <2> QED
      BY <2>1, <2>2, <2>3
  <1>9. Len(front \o back) = Len(s) - 1
    BY <1>0, <1>5, <1>6, <1>7
  <1>10. /\ RemoveFirst(s, s[p]) \in Seq(S)
         /\ Len(RemoveFirst(s, s[p])) = Len(s) - 1
         /\ \A i \in 1..(Len(s) - 1) :
              RemoveFirst(s, s[p])[i] = IF i < p THEN s[i] ELSE s[i + 1]
    BY <1>4, <1>7, <1>8, <1>9
  <1> HIDE DEF I
  <1> QED
    BY <1>10, Zenon

-----------------------------------------------------------------------------
(* The inductive invariant.                                                *)

\* A member is never too far in the future: it was not when the rotation
\* began, and the clock only grows.
NoneInFuture == \A m \in Members : checked[m] <= Future

\* A generator that has read a cutoff has a row to look at.
GeneratorOK ==
  /\ running => design = "remove"
  /\ cutoff # Unread => running /\ cutoff <= now - Within /\ rows # <<>>

\* The index reaches member m in d looks.
ReachedIn(m, d) == (index + d) % Len(checked) = m - 1

\* Since a fresh m was delivered, the members the index will reach before it
\* were not, and those it reaches after it at most once.
InTurn(m, x, d, e) ==
  /\ ReachedIn(m, d) /\ ReachedIn(x, e)
  /\ Fresh(m) => turns[m][x] <= IF d < e THEN 1 ELSE 0

RoundOK ==
  design = "skip" =>
    /\ rows = [i \in Members |-> i]
    /\ \A m, x \in Members : \E d, e \in 0..(Len(checked) - 1) : InTurn(m, x, d, e)

\* What the generator has removed is stale, and stays so.
RemovedAreStale ==
  design = "remove" =>
    \A m \in Members : (\A i \in DOMAIN rows : rows[i] # m) => ~Fresh(m)

IInv ==
  /\ TypeOK /\ NoneInFuture /\ GeneratorOK
  /\ RoundOK /\ RemovedAreStale /\ EndsOnlyStale

\* The members are 1, 2, ..., the rows are some of them.
LEMMA Domains ==
  ASSUME TypeOK
  PROVE  /\ Len(checked) \in Nat /\ Members = 1..Len(checked)
         /\ \A m \in Members : checked[m] \in Int
         /\ Len(rows) \in Nat /\ DOMAIN rows = 1..Len(rows)
         /\ \A i \in 1..Len(rows) : rows[i] \in Members
         /\ rows # <<>> => Len(rows) # 0
  <1>1. checked \in Seq(Int) /\ rows \in Seq(Members)
    BY DEF TypeOK
  <1>2. Len(checked) \in Nat /\ DOMAIN checked = 1..Len(checked) /\ checked \in [1..Len(checked) -> Int]
    BY <1>1, LenProperties
  <1>3. Len(rows) \in Nat /\ DOMAIN rows = 1..Len(rows) /\ rows \in [1..Len(rows) -> Members]
    BY <1>1, LenProperties
  <1>4. rows # <<>> => Len(rows) # 0
    BY <1>1, EmptySeq
  <1> QED
    BY <1>2, <1>3, <1>4 DEF Members

\* In the skipping design a place of the rows is the member itself.
LEMMA SkipRows ==
  ASSUME IInv, design = "skip"
  PROVE  /\ Len(rows) = Len(checked)
         /\ \A i \in Members : rows[i] = i
  <1>1. rows = [i \in Members |-> i]
    BY DEF IInv, RoundOK
  <1>2. DOMAIN rows = Members
    BY <1>1
  <1>3. 1..Len(rows) = 1..Len(checked) /\ Len(rows) \in Nat /\ Len(checked) \in Nat
    BY <1>2, Domains DEF IInv
  <1> QED
    BY <1>1, <1>3

\* Time makes nothing fresh.
LEMMA FreshShrinks ==
  ASSUME IInv, NEW m \in Members, checked' = checked, now' \in Int, now <= now', Fresh(m)'
  PROVE  Fresh(m)
  <1>1. checked[m] \in Int /\ now \in Nat /\ checked[m] <= Future
    BY Domains DEF IInv, TypeOK, NoneInFuture
  <1> QED
    BY <1>1, RotationAssumption DEF Fresh, InWindow

-----------------------------------------------------------------------------
(* The invariant holds at the start and is kept by every action.           *)

LEMMA InitInv == Init => IInv
  <1> SUFFICES ASSUME Init PROVE IInv
    OBVIOUS
  <1>1. PICK n \in 0..MaxMembers :
          /\ checked \in [1..n -> (0 - Within)..Future]
          /\ rows = [i \in 1..n |-> i]
          /\ waiting = [m \in 1..n |-> 0]
          /\ turns = [m \in 1..n |-> [x \in 1..n |-> 0]]
    BY DEF Init
  <1>2. /\ design \in Designs /\ now = 0 /\ index = 0 /\ cutoff = Unread
        /\ running = FALSE /\ ended = FALSE /\ calls = 0
    BY DEF Init
  <1>3. n \in Nat /\ checked \in [1..n -> Int] /\ Members = 1..n
    BY <1>1, RotationAssumption DEF Members
  <1>4. checked \in Seq(Int) /\ Len(checked) = n
    <2>1. checked \in Seq(Int)
      BY <1>3, SeqDef
    <2>2. DOMAIN checked = 1..Len(checked) /\ Len(checked) \in Nat
      BY <2>1, LenProperties
    <2> QED
      BY <1>3, <2>1, <2>2
  <1>5. rows \in Seq(Members) /\ Len(rows) = n
    <2>1. rows \in [1..n -> Members] /\ DOMAIN rows = 1..n
      BY <1>1, <1>3
    <2>2. rows \in Seq(Members)
      BY <1>3, <2>1, SeqDef
    <2>3. DOMAIN rows = 1..Len(rows) /\ Len(rows) \in Nat
      BY <2>2, LenProperties
    <2> QED
      BY <1>3, <2>1, <2>2, <2>3
  <1>6. TypeOK
    <2>1. waiting \in [Members -> Nat] /\ turns \in [Members -> [Members -> Nat]]
      BY <1>1, <1>3
    <2>2. \A i, j \in DOMAIN rows : i < j => rows[i] < rows[j]
      BY <1>1
    <2>3. cutoff \in (0 - Within)..Unread /\ now \in 0..MaxTime /\ calls \in 0..MaxCalls
      BY <1>2, RotationAssumption DEF Unread
    <2> QED
      BY <1>2, <1>4, <1>5, <2>1, <2>2, <2>3 DEF TypeOK
  <1>7. NoneInFuture
    BY <1>1, <1>3, RotationAssumption DEF NoneInFuture
  <1>8. GeneratorOK /\ EndsOnlyStale
    BY <1>2 DEF GeneratorOK, EndsOnlyStale
  <1>9. RoundOK
    <2>1. rows = [i \in Members |-> i]
      BY <1>1, <1>3
    <2>2. ASSUME NEW m \in Members
          PROVE  m - 1 \in 0..(Len(checked) - 1) /\ ReachedIn(m, m - 1)
      <3>1. n \in Nat \ {0} /\ m - 1 \in 0..(n - 1)
        BY <1>3
      <3>2. (index + (m - 1)) % n = m - 1
        BY <1>2, <3>1, SmallPlace
      <3> QED
        BY <1>4, <3>1, <3>2 DEF ReachedIn
    <2>3. ASSUME NEW m \in Members, NEW x \in Members
          PROVE  \E d, e \in 0..(Len(checked) - 1) : InTurn(m, x, d, e)
      <3>1. turns[m][x] = 0
        BY <1>1, <1>3
      <3>2. InTurn(m, x, m - 1, x - 1)
        BY <2>2, <3>1 DEF InTurn
      <3> QED
        BY <2>2, <3>2
    <2> QED
      BY <2>1, <2>3 DEF RoundOK
  <1>10. RemovedAreStale
    BY <1>1, <1>3 DEF RemovedAreStale
  <1> QED
    BY <1>6, <1>7, <1>8, <1>9, <1>10 DEF IInv

\* The clock: members may only grow stale.
LEMMA TickInv == ASSUME IInv, Tick PROVE IInv'
  <1>1. /\ now' = now + 1 /\ now < MaxTime
        /\ UNCHANGED <<design, checked, rows, index, cutoff, running, ended, calls, waiting, turns>>
    BY DEF Tick, history
  <1>2. now \in Nat /\ now' \in 0..MaxTime /\ now <= now'
    BY <1>1, RotationAssumption DEF IInv, TypeOK
  <1>3. \A m \in Members : Fresh(m)' => Fresh(m)
    BY <1>1, <1>2, FreshShrinks
  <1>4. Members' = Members
    BY <1>1 DEF Members
  <1>5. TypeOK'
    BY <1>1, <1>2, <1>4 DEF IInv, TypeOK, Unread
  <1>6. NoneInFuture'
    BY <1>1, <1>4 DEF IInv, NoneInFuture
  <1>7. GeneratorOK'
    <2>1. cutoff # Unread => cutoff <= now' - Within
      <3>1. cutoff # Unread => cutoff <= now - Within
        BY DEF IInv, GeneratorOK
      <3>2. cutoff \in Int
        BY RotationAssumption DEF IInv, TypeOK, Unread
      <3>3. cutoff <= now - Within => cutoff <= now' - Within
        <4>1. now - Within <= (now + 1) - Within /\ now - Within \in Int
          BY <1>2, RotationAssumption
        <4>2. (now + 1) - Within \in Int
          BY <1>2, RotationAssumption
        <4> QED
          BY <1>1, <3>2, <4>1, <4>2
      <3> QED
        BY <3>1, <3>3
    <2> QED
      BY <1>1, <2>1 DEF IInv, GeneratorOK, Unread
  <1>8. RoundOK'
    <2>1. ASSUME NEW m \in Members, NEW x, NEW d, NEW e, InTurn(m, x, d, e)
          PROVE  InTurn(m, x, d, e)'
      BY <1>1, <1>3, <2>1 DEF InTurn, ReachedIn
    <2> QED
      BY <1>1, <1>4, <2>1 DEF IInv, RoundOK
  <1>9. RemovedAreStale'
    BY <1>1, <1>3, <1>4 DEF IInv, RemovedAreStale
  <1>10. EndsOnlyStale'
    BY <1>1, <1>3, <1>4 DEF IInv, EndsOnlyStale
  <1> QED
    BY <1>5, <1>6, <1>7, <1>8, <1>9, <1>10 DEF IInv

\* Resuming a generator touches nothing the other parts speak of.
LEMMA ResumeInv == ASSUME IInv, Resume PROVE IInv'
  <1>1. /\ design = "remove" /\ running' = TRUE /\ calls < MaxCalls /\ calls' = calls + 1
        /\ UNCHANGED <<design, now, checked, rows, index, cutoff, ended, waiting, turns>>
    BY DEF Resume, Call, history
  <1>2. Members' = Members /\ \A m \in Members : Fresh(m)' <=> Fresh(m)
    BY <1>1 DEF Members, Fresh, InWindow
  <1>3. TypeOK'
    BY <1>1, <1>2, RotationAssumption DEF IInv, TypeOK, Unread
  <1>4. NoneInFuture' /\ GeneratorOK'
    BY <1>1, <1>2 DEF IInv, NoneInFuture, GeneratorOK, Unread
  <1>5. RoundOK'
    BY <1>1 DEF RoundOK
  <1>6. RemovedAreStale'
    BY <1>1, <1>2 DEF IInv, RemovedAreStale
  <1>7. EndsOnlyStale'
    BY <1>1, <1>2 DEF IInv, EndsOnlyStale
  <1> QED
    BY <1>3, <1>4, <1>5, <1>6, <1>7 DEF IInv

\* The head of the generator's loop: it returns only when no row is left.
LEMMA ReadCutoffInv == ASSUME IInv, ReadCutoff PROVE IInv'
  <1>1. /\ running /\ cutoff = Unread /\ design = "remove"
        /\ UNCHANGED <<design, now, checked, rows, index, calls, waiting, turns>>
    BY DEF IInv, GeneratorOK, ReadCutoff, Nothing, history
  <1>2. Members' = Members /\ \A m \in Members : Fresh(m)' <=> Fresh(m)
    BY <1>1 DEF Members, Fresh, InWindow
  <1>3. \/ rows # <<>> /\ cutoff' = now - Within /\ UNCHANGED <<running, ended>>
        \/ rows = <<>> /\ ended' = TRUE /\ running' = FALSE /\ cutoff' = cutoff
    BY DEF ReadCutoff, Nothing
  <1>4. now \in 0..MaxTime /\ now - Within \in (0 - Within)..Unread
    BY RotationAssumption DEF IInv, TypeOK, Unread
  <1>5. TypeOK'
    BY <1>1, <1>2, <1>3, <1>4 DEF IInv, TypeOK, Unread
  <1>6. NoneInFuture'
    BY <1>1, <1>2 DEF IInv, NoneInFuture
  <1>7. GeneratorOK'
    <2>1. now - Within <= now - Within
      BY <1>4, RotationAssumption
    <2>2. Unread' = Unread
      BY DEF Unread
    <2>3. running' => design' = "remove"
      BY <1>1
    <2>4. cutoff' # Unread => running' /\ cutoff' <= now' - Within /\ rows' # <<>>
      BY <1>1, <1>3, <2>1
    <2> QED
      BY <2>2, <2>3, <2>4 DEF GeneratorOK
  <1>8. RoundOK'
    BY <1>1 DEF RoundOK
  <1>9. RemovedAreStale'
    BY <1>1, <1>2 DEF IInv, RemovedAreStale
  <1>10. EndsOnlyStale'
    <2>1. CASE rows # <<>>
      BY <1>2, <1>3, <2>1 DEF IInv, EndsOnlyStale
    <2>2. CASE rows = <<>>
      <3>1. \A i \in DOMAIN rows : FALSE
        BY <2>2
      <3>2. \A m \in Members : ~Fresh(m)
        BY <1>1, <3>1 DEF IInv, RemovedAreStale
      <3> QED
        BY <1>2, <3>2 DEF EndsOnlyStale
    <2> QED
      BY <2>1, <2>2
  <1> QED
    BY <1>5, <1>6, <1>7, <1>8, <1>9, <1>10 DEF IInv

\* next() of the skipping design finds the nearest fresh member, or none is.
LEMMA NextSkipInv == ASSUME IInv, NextSkip PROVE IInv'
  <1> DEFINE hits == {k \in Places : Fresh(At(k))}
  <1>0. PICK n \in Nat : n = Len(checked)
    BY Domains DEF IInv
  <1>1. /\ design = "skip" /\ calls < MaxCalls /\ calls' = calls + 1
        /\ UNCHANGED <<design, now, checked, rows, cutoff, running>>
    BY DEF NextSkip, Call
  <1>2. \/ hits # {} /\ Advance(Min(hits)) /\ Deliver(At(Min(hits)))
        \/ hits = {} /\ index' = index + Len(rows) /\ Nothing
    BY DEF NextSkip
  <1>3. /\ n \in Nat /\ Members = 1..n /\ Len(rows) = n
        /\ \A i \in 1..n : rows[i] = i
    BY <1>0, <1>1, Domains, SkipRows DEF IInv
  <1>4. Members' = Members /\ \A m \in Members : Fresh(m)' <=> Fresh(m)
    BY <1>1 DEF Members, Fresh, InWindow
  <1>5. /\ index \in Nat /\ waiting \in [Members -> Nat]
        /\ turns \in [Members -> [Members -> Nat]]
    BY DEF IInv, TypeOK
  <1>6. ASSUME n # 0, NEW k \in 0..(n - 1)
        PROVE  At(k) = ((index + k) % n) + 1 /\ At(k) \in Members
    <2>1. index + k \in Nat /\ n \in Nat \ {0}
      BY <1>3, <1>5, <1>6
    <2>2. ((index + k) % n) + 1 \in 1..n
      BY <2>1, PlaceInRange
    <2> QED
      BY <1>3, <2>2 DEF At
  <1>7. Places = 0..(n - 1)
    BY <1>3 DEF Places
  <1>8. ASSUME NEW m \in Members, NEW x \in Members
        PROVE  \E d, e \in 0..(n - 1) : InTurn(m, x, d, e)
    BY <1>0, <1>1 DEF IInv, RoundOK
  <1>9. ASSUME NEW m \in Members, NEW d \in 0..(n - 1), ReachedIn(m, d)
        PROVE  At(d) = m /\ (Fresh(m) => d \in hits)
    <2>1. n # 0 /\ m \in Int
      BY <1>3
    <2>2. At(d) = m
      BY <1>0, <1>6, <1>9, <2>1 DEF ReachedIn
    <2> QED
      BY <1>7, <2>2
  <1>10. NoneInFuture' /\ GeneratorOK' /\ RemovedAreStale'
    BY <1>1, <1>4 DEF IInv, NoneInFuture, GeneratorOK, RemovedAreStale, Unread
  <1>11. CASE hits # {}
    <2>0. PICK k : k = Min(hits)
      OBVIOUS
    <2>1. /\ k \in Nat /\ k \in 0..(n - 1) /\ n # 0
          /\ \A d \in hits : k <= d
      <3>1. hits \in SUBSET Nat
        BY <1>3, <1>7
      <3>2. k \in hits /\ \A d \in hits : k <= d
        BY <1>11, <2>0, <3>1, MinOfNaturals
      <3> QED
        BY <1>3, <1>7, <3>2
    <2> HIDE DEF hits
    <2>2. index' = index + k + 1 /\ index' \in Nat
      BY <1>2, <1>5, <1>11, <2>0, <2>1 DEF Advance
    <2>3. /\ waiting' = [i \in Members |-> IF i = At(k) THEN 0 ELSE waiting[i] + 1]
          /\ turns' = [i \in Members |->
                        IF i = At(k) THEN [x \in Members |-> 0]
                        ELSE [turns[i] EXCEPT ![At(k)] = @ + 1]]
          /\ ended' = FALSE
      BY <1>2, <1>11, <2>0 DEF Deliver
    <2>4. TypeOK'
      <3>1. waiting' \in [Members -> Nat] /\ turns' \in [Members -> [Members -> Nat]]
        <4>1. waiting' \in [Members -> Nat]
          BY <1>5, <2>3
        <4>2. ASSUME NEW i \in Members
              PROVE  turns'[i] \in [Members -> Nat]
          <5>1. turns[i] \in [Members -> Nat] /\ At(k) \in Members
            BY <1>5, <1>6, <2>1
          <5>2. turns[i][At(k)] + 1 \in Nat
            BY <5>1
          <5> QED
            BY <2>3, <5>1, <5>2
        <4> QED
          BY <2>3, <4>1, <4>2
      <3> QED
        <4>1. ended' = FALSE /\ index' \in Nat
          BY <2>2, <2>3
        <4>2. calls' \in 0..MaxCalls
          BY <1>1, RotationAssumption DEF IInv, TypeOK
        <4> QED
          BY <1>1, <1>4, <3>1, <4>1, <4>2 DEF IInv, TypeOK, Unread
    <2>5. EndsOnlyStale'
      BY <2>3 DEF EndsOnlyStale
    <2>6. ASSUME NEW m \in Members, NEW x \in Members
          PROVE  \E d, e \in 0..(n - 1) : InTurn(m, x, d, e)'
      <3>1. PICK d \in 0..(n - 1), e \in 0..(n - 1) : InTurn(m, x, d, e)
        BY <1>8
      <3>2. ReachedIn(m, d) /\ ReachedIn(x, e) /\ n \in Nat \ {0} /\ At(k) \in Members
        BY <1>3, <1>6, <2>1, <3>1 DEF InTurn
      <3>3. At(d) = m /\ (Fresh(m) => d \in hits) /\ At(e) = x
        BY <1>9, <3>2
      <3>4. ASSUME NEW y \in Members, NEW f \in 0..(n - 1), ReachedIn(y, f)
            PROVE  FromBehind(k, f, n) \in 0..(n - 1) /\ ReachedIn(y, FromBehind(k, f, n))'
        <4>1. /\ FromBehind(k, f, n) \in 0..(n - 1)
              /\ (index + k + 1 + FromBehind(k, f, n)) % n = (index + f) % n
          BY <1>5, <2>1, <3>2, PlacesComeNearer
        <4>2. (index' + FromBehind(k, f, n)) % n = y - 1
          BY <1>0, <2>2, <3>4, <4>1 DEF ReachedIn
        <4> QED
          BY <1>0, <1>1, <4>1, <4>2 DEF ReachedIn
      <3>5. /\ FromBehind(k, d, n) \in 0..(n - 1) /\ ReachedIn(m, FromBehind(k, d, n))'
            /\ FromBehind(k, e, n) \in 0..(n - 1) /\ ReachedIn(x, FromBehind(k, e, n))'
        BY <3>2, <3>4
      <3>6. ASSUME Fresh(m)
            PROVE  turns'[m][x] <= IF FromBehind(k, d, n) < FromBehind(k, e, n) THEN 1 ELSE 0
        <4>1. d >= k /\ turns[m][x] \in Nat /\ turns[m][x] <= IF d < e THEN 1 ELSE 0
          BY <1>5, <2>1, <3>1, <3>3, <3>6 DEF InTurn
        <4>2. CASE m = At(k)
          <5>1. turns'[m][x] = 0
            BY <2>3, <4>2
          <5> QED
            BY <3>5, <5>1
        <4>3. CASE m # At(k)
          <5>1. d > k /\ turns'[m] = [turns[m] EXCEPT ![At(k)] = @ + 1] /\ turns[m] \in [Members -> Nat]
            <6>1. d > k
              BY <2>1, <3>3, <4>1, <4>3
            <6>2. turns'[m] = [turns[m] EXCEPT ![At(k)] = @ + 1]
              BY <2>3, <4>3, Zenon
            <6> QED
              BY <1>5, <6>1, <6>2
          <5>2. FromBehind(k, d, n) = d - k - 1
            BY <5>1 DEF FromBehind
          <5>3. CASE x = At(k)
            <6>1. e = k
              <7>1. (index + e) % n = (index + k) % n
                <8>1. At(k) = ((index + k) % n) + 1 /\ (index + e) % n = x - 1
                  BY <1>0, <1>6, <2>1, <3>2 DEF ReachedIn
                <8>2. (index + k) % n \in Int
                  BY <1>5, <2>1, <3>2, PlaceInRange, SMTT(30)
                <8> QED
                  BY <5>3, <8>1, <8>2
              <7> QED
                BY <1>5, <2>1, <3>2, <7>1, DistanceIsUnique
            <6>2. turns'[m][x] = turns[m][x] + 1 /\ turns[m][x] = 0
              BY <3>2, <4>1, <5>1, <5>3, <6>1
            <6>3. FromBehind(k, e, n) = n - 1
              BY <6>1, <2>1, <3>2 DEF FromBehind
            <6> QED
              BY <2>1, <3>2, <5>1, <5>2, <6>2, <6>3
          <5>4. CASE x # At(k)
            <6>1. turns'[m][x] = turns[m][x] /\ e # k
              BY <3>3, <5>1, <5>4
            <6>2. d < e => FromBehind(k, d, n) < FromBehind(k, e, n)
              BY <2>1, <5>1, <5>2 DEF FromBehind
            <6> QED
              BY <3>5, <4>1, <6>1, <6>2
          <5> QED
            BY <5>3, <5>4
        <4> QED
          BY <4>2, <4>3
      <3>7. InTurn(m, x, FromBehind(k, d, n), FromBehind(k, e, n))'
        BY <1>4, <3>5, <3>6 DEF InTurn
      <3> QED
        BY <3>5, <3>7
    <2>7. RoundOK'
      BY <1>0, <1>1, <1>4, <2>6 DEF IInv, RoundOK
    <2> QED
      BY <1>10, <2>4, <2>5, <2>7 DEF IInv
  <1>12. CASE hits = {}
    <2>1. index' = index + n /\ index' \in Nat /\ ended' = TRUE /\ UNCHANGED <<waiting, turns>>
      BY <1>2, <1>3, <1>5, <1>12 DEF Nothing, history
    <2>2. TypeOK'
      BY <1>1, <1>4, <2>1, RotationAssumption DEF IInv, TypeOK, Unread
    <2>3. ASSUME NEW m \in Members PROVE ~Fresh(m)
      <3>1. PICK d \in 0..(n - 1), e \in 0..(n - 1) : InTurn(m, m, d, e)
        BY <1>8
      <3> QED
        BY <1>9, <1>12, <3>1 DEF InTurn
    <2>4. EndsOnlyStale'
      BY <1>4, <2>3 DEF EndsOnlyStale
    <2>5. ASSUME NEW m \in Members, NEW x \in Members
          PROVE  \E d, e \in 0..(n - 1) : InTurn(m, x, d, e)'
      <3>1. PICK d \in 0..(n - 1), e \in 0..(n - 1) : InTurn(m, x, d, e)
        BY <1>8
      <3>2. ASSUME NEW y \in Members, NEW f \in 0..(n - 1), ReachedIn(y, f)
            PROVE  ReachedIn(y, f)'
        <4>1. n \in Nat \ {0} /\ index + f \in Nat /\ index' + f = (index + f) + n
          BY <1>3, <1>5, <2>1
        <4>2. (index' + f) % n = (index + f) % n
          BY <4>1, RoundTrip
        <4> QED
          BY <1>0, <1>1, <3>2, <4>2 DEF ReachedIn
      <3> QED
        BY <1>4, <2>1, <2>3, <3>1, <3>2 DEF InTurn
    <2>6. RoundOK'
      BY <1>0, <1>1, <1>4, <2>5 DEF IInv, RoundOK
    <2> QED
      BY <1>10, <2>2, <2>4, <2>6 DEF IInv
  <1> QED
    BY <1>11, <1>12

\* What the generator takes out of its rows: one place, the others move up.
LEMMA LookRemoves ==
  ASSUME IInv, NEW p \in 1..Len(rows)
  PROVE  LET t == Without(rows[p]) IN
         /\ t \in Seq(Members)
         /\ Len(t) = Len(rows) - 1
         /\ \A i \in 1..(Len(rows) - 1) : t[i] = IF i < p THEN rows[i] ELSE rows[i + 1]
  <1>0. /\ Len(rows) \in Nat /\ \A i \in 1..Len(rows) : rows[i] \in Int
        /\ rows \in Seq(Members)
        /\ \A i, j \in 1..Len(rows) : i < j => rows[i] < rows[j]
    <2>1. TypeOK
      BY DEF IInv
    <2>2. \A i \in 1..Len(rows) : rows[i] \in Int
      BY <2>1, Domains
    <2>3. DOMAIN rows = 1..Len(rows) /\ Len(rows) \in Nat
      BY <2>1, Domains
    <2> QED
      BY <2>1, <2>2, <2>3 DEF TypeOK
  <1>1. ASSUME NEW i \in 1..Len(rows), i # p PROVE rows[i] # rows[p]
    <2>1. i < p \/ p < i
      BY <1>0, <1>1
    <2>2. rows[i] < rows[p] \/ rows[p] < rows[i]
      BY <1>0, <2>1
    <2> QED
      BY <1>0, <2>2
  <1>2. \A i \in 1..Len(rows) : rows[i] = rows[p] => i = p
    BY <1>1
  <1>3. /\ RemoveFirst(rows, rows[p]) \in Seq(Members)
        /\ Len(RemoveFirst(rows, rows[p])) = Len(rows) - 1
        /\ \A i \in 1..Len(RemoveFirst(rows, rows[p])) :
             RemoveFirst(rows, rows[p])[i] = IF i < p THEN rows[i] ELSE rows[i + 1]
    BY <1>0, <1>2, RemoveFirstKeepsOthers
  <1> QED
    BY <1>3 DEF Without

\* The second reading of the clock may be later than the cutoff, but a member
\* outside that window is stale by now.
LEMMA LookStale ==
  ASSUME IInv, NEW m \in Members, cutoff # Unread, ~InWindow(m, cutoff, now)
  PROVE  ~Fresh(m)
  <1>1. checked[m] \in Int /\ checked[m] <= Future
    BY Domains DEF IInv, NoneInFuture
  <1>2. cutoff <= now - Within /\ cutoff \in Int /\ now \in Nat
    BY RotationAssumption DEF IInv, GeneratorOK, TypeOK, Unread
  <1> QED
    BY <1>1, <1>2, RotationAssumption DEF Fresh, InWindow

\* The body of the generator's loop: a member is delivered, or is stale and
\* removed, and the others stay.
LEMMA LookInv == ASSUME IInv, Look PROVE IInv'
  <1> DEFINE p == (index % Len(rows)) + 1
             m == rows[p]
  <1>1. /\ running /\ cutoff # Unread /\ design = "remove"
        /\ UNCHANGED <<design, now, checked, calls>>
        /\ cutoff' = Unread
    BY DEF IInv, GeneratorOK, Look
  <1>2. /\ cutoff <= now - Within /\ rows # <<>>
        /\ cutoff \in Int /\ now \in Nat /\ index \in Nat /\ waiting \in [Members -> Nat]
    BY <1>1, RotationAssumption DEF IInv, GeneratorOK, TypeOK, Unread
  <1>3. Members' = Members /\ \A x \in Members : Fresh(x)' <=> Fresh(x)
    BY <1>1 DEF Members, Fresh, InWindow
  <1>4. /\ Len(rows) \in Nat \ {0} /\ DOMAIN rows = 1..Len(rows)
        /\ \A i \in 1..Len(rows) : rows[i] \in Members
        /\ \A x \in Members : checked[x] \in Int
    BY <1>2, Domains DEF IInv
  <1>5. p \in 1..Len(rows) /\ At(0) = m /\ m \in Members
    <2>1. p \in 1..Len(rows)
      BY <1>2, <1>4, PlaceInRange
    <2>2. index + 0 = index
      BY <1>2
    <2> QED
      BY <1>4, <2>1, <2>2 DEF At
  <1> HIDE DEF p
  <1>6. index' = index + 1 /\ index' \in Nat
    BY <1>2 DEF Look, Advance
  <1>7. NoneInFuture'
    BY <1>1, <1>3 DEF IInv, NoneInFuture
  <1>8. GeneratorOK'
    BY <1>1 DEF GeneratorOK, Unread
  <1>9. RoundOK'
    BY <1>1 DEF RoundOK
  <1>10. cutoff' \in ((0 - Within)..Unread)'
    BY <1>1, RotationAssumption DEF Unread
  <1>11. CASE InWindow(m, cutoff, now) /\ Deliver(m) /\ running' = FALSE /\ rows' = rows
    <2>1. /\ waiting' \in [Members -> Nat] /\ ended' = FALSE
          /\ turns' \in [Members -> [Members -> Nat]]
      <3>1. turns \in [Members -> [Members -> Nat]]
        BY DEF IInv, TypeOK
      <3>2. ASSUME NEW i \in Members
            PROVE  turns'[i] \in [Members -> Nat]
        <4>1. turns[i] \in [Members -> Nat] /\ turns[i][m] + 1 \in Nat
          BY <1>5, <3>1
        <4> QED
          BY <1>11, <4>1 DEF Deliver
      <3>3. turns' = [i \in Members |-> turns'[i]]
        BY <1>11 DEF Deliver
      <3> QED
        BY <1>2, <1>11, <3>2, <3>3 DEF Deliver
    <2>2. TypeOK'
      BY <1>1, <1>3, <1>6, <1>10, <1>11, <2>1 DEF IInv, TypeOK
    <2>3. RemovedAreStale'
      BY <1>1, <1>3, <1>11 DEF IInv, RemovedAreStale
    <2>4. EndsOnlyStale'
      BY <2>1 DEF EndsOnlyStale
    <2> QED
      BY <1>7, <1>8, <1>9, <2>2, <2>3, <2>4 DEF IInv
  <1>12. CASE ~InWindow(m, cutoff, now) /\ rows' = Without(m) /\ UNCHANGED <<running, ended, waiting, turns>>
    <2>1. \A i, j \in 1..Len(rows) : i < j => rows[i] < rows[j]
      BY <1>4 DEF IInv, TypeOK
    <2>2. /\ rows' \in Seq(Members)
          /\ Len(rows') = Len(rows) - 1
          /\ \A i \in 1..(Len(rows) - 1) : rows'[i] = IF i < p THEN rows[i] ELSE rows[i + 1]
      BY <1>5, <1>12, LookRemoves
    <2>3. DOMAIN rows' = 1..(Len(rows) - 1)
      BY <2>2, LenProperties
    <2>4. TypeOK'
      <3>1. \A i, j \in DOMAIN rows' : i < j => rows'[i] < rows'[j]
        <4> SUFFICES ASSUME NEW i \in 1..(Len(rows) - 1), NEW j \in 1..(Len(rows) - 1), i < j
                     PROVE  rows'[i] < rows'[j]
          BY <2>3
        <4>1. /\ i \in 1..Len(rows) /\ j \in 1..Len(rows)
              /\ i + 1 \in 1..Len(rows) /\ j + 1 \in 1..Len(rows)
          BY <1>4
        <4>2. /\ rows'[i] = IF i < p THEN rows[i] ELSE rows[i + 1]
              /\ rows'[j] = IF j < p THEN rows[j] ELSE rows[j + 1]
          BY <2>2
        <4>3. CASE i < p /\ j < p
          BY <2>1, <4>1, <4>2, <4>3
        <4>4. CASE i < p /\ ~(j < p)
          <5>1. i < j + 1
            BY <1>4
          <5> QED
            BY <2>1, <4>1, <4>2, <4>4, <5>1
        <4>5. CASE ~(i < p) /\ ~(j < p)
          <5>1. i + 1 < j + 1
            BY <1>4
          <5> QED
            BY <2>1, <4>1, <4>2, <4>5, <5>1
        <4>6. i < p \/ ~(j < p)
          BY <1>4, <1>5
        <4> QED
          BY <4>3, <4>4, <4>5, <4>6
      <3> QED
        BY <1>1, <1>3, <1>6, <1>10, <1>12, <2>2, <3>1 DEF IInv, TypeOK
    <2>5. ~Fresh(m)
      BY <1>1, <1>5, <1>12, LookStale
    <2>6. RemovedAreStale'
      <3> SUFFICES ASSUME NEW x \in Members, \A i \in DOMAIN rows' : rows'[i] # x
                   PROVE  ~Fresh(x)
        BY <1>3 DEF RemovedAreStale
      <3>1. CASE x = m
        BY <2>5, <3>1
      <3>2. CASE x # m
        <4>1. ASSUME NEW i \in 1..Len(rows) PROVE rows[i] # x
          <5>1. CASE i < p
            <6>1. i \in 1..(Len(rows) - 1)
              BY <1>4, <1>5, <5>1
            <6> QED
              BY <2>2, <2>3, <5>1, <6>1
          <5>2. CASE i > p
            <6>1. i - 1 \in 1..(Len(rows) - 1) /\ ~(i - 1 < p) /\ (i - 1) + 1 = i
              BY <1>4, <1>5, <5>2
            <6>2. rows'[i - 1] = rows[i]
              BY <2>2, <6>1
            <6> QED
              BY <2>3, <6>1, <6>2
          <5>3. i < p \/ i > p \/ i = p
            BY <1>4, <1>5
          <5> QED
            BY <3>2, <5>1, <5>2, <5>3
        <4> QED
          BY <1>1, <1>4, <4>1 DEF IInv, RemovedAreStale
      <3> QED
        BY <3>1, <3>2
    <2>7. EndsOnlyStale'
      BY <1>3, <1>12 DEF IInv, EndsOnlyStale
    <2> QED
      BY <1>7, <1>8, <1>9, <2>4, <2>6, <2>7 DEF IInv
  <1> QED
    BY <1>5, <1>11, <1>12 DEF Look, history

\* A step that changes nothing.
LEMMA StutterInv == ASSUME IInv, UNCHANGED vars PROVE IInv'
  BY DEF IInv, TypeOK, NoneInFuture, GeneratorOK, RoundOK, RemovedAreStale, EndsOnlyStale,
         InTurn, ReachedIn, Fresh, InWindow, Members, Unread, vars, history

LEMMA NextInv == IInv /\ [Next]_vars => IInv'
  <1> SUFFICES ASSUME IInv, [Next]_vars PROVE IInv'
    OBVIOUS
  <1>1. CASE NextSkip
    BY <1>1, NextSkipInv
  <1>2. CASE Resume
    BY <1>2, ResumeInv
  <1>3. CASE ReadCutoff
    BY <1>3, ReadCutoffInv
  <1>4. CASE Look
    BY <1>4, LookInv
  <1>5. CASE Tick
    BY <1>5, TickInv
  <1>6. CASE UNCHANGED vars
    BY <1>6, StutterInv
  <1> QED
    BY <1>1, <1>2, <1>3, <1>4, <1>5, <1>6 DEF Next

-----------------------------------------------------------------------------
(* Theorems.                                                               *)

\* The strengthened invariant holds in every reachable state.
THEOREM Invariance == Spec => []IInv
  BY InitInv, NextInv, PTL DEF Spec

\* Every variable of a rotation keeps its type, and the rows that are left
\* stay in the order of the ranking, in both designs.
THEOREM TypeCorrect == Spec => []TypeOK
  <1>1. IInv => TypeOK
    BY DEF IInv
  <1> QED
    BY <1>1, Invariance, PTL

\* A rotation of any length, in either design, ends only when nothing fresh
\* is left: next() of the clients returns nothing for no other reason.
THEOREM EndsOnlyStaleHolds == Spec => []EndsOnlyStale
  <1>1. IInv => EndsOnlyStale
    BY DEF IInv
  <1> QED
    BY <1>1, Invariance, PTL

\* next() of the JavaScript, Go and Rust clients is a round robin over the
\* members that stay fresh: whatever ages out between the calls, no other is
\* returned twice before a fresh one is returned again.
THEOREM OneRoundHolds == Spec => []OneRound
  <1>1. IInv => OneRound
    <2> SUFFICES ASSUME IInv, design = "skip", NEW m \in Members, NEW x \in Members, Fresh(m)
                 PROVE  turns[m][x] <= 1
      BY DEF OneRound
    <2>1. turns[m][x] \in Nat
      BY DEF IInv, TypeOK
    <2>2. PICK d \in 0..(Len(checked) - 1), e \in 0..(Len(checked) - 1) : InTurn(m, x, d, e)
      BY DEF IInv, RoundOK
    <2> QED
      BY <2>1, <2>2 DEF InTurn
  <1> QED
    BY <1>1, Invariance, PTL

-----------------------------------------------------------------------------
(* The removing design passes no fresh member over too often.              *)

\* Twice the others that can pass while k rows are removed down to one, and
\* twice those that can still pass after the next removal.
Twice(k) == (k - 1) * (k - 2)
Pending(k) == IF k = 1 THEN 0 ELSE Twice(k - 1)

\* Member m is at place p, the index reaches it in d steps, and even if all
\* other rows are removed one after the other the bound is kept.
ComesIn(m, p, d) ==
  /\ rows[p] = m
  /\ (index + d) % Len(rows) = p - 1
  /\ 2 * (waiting[m] + d) + Pending(Len(rows)) <= 2 + Twice(Len(checked))

InTime ==
  design = "remove" =>
    /\ Len(rows) <= Len(checked)
    /\ \A m \in Members :
         Fresh(m) => \E p \in 1..Len(rows), d \in 0..(Len(rows) - 1) : ComesIn(m, p, d)

\* From every index every place is less than a round away.
LEMMA EveryPlaceComes ==
  ASSUME NEW n \in Nat \ {0}, NEW a \in Nat, NEW b \in 0..(n - 1)
  PROVE  \E d \in 0..(n - 1) : (a + d) % n = b
  <1>1. PICK q \in Int, r \in 0..(n - 1) : a = n * q + r
    <2>1. a = n * (a \div n) + (a % n) /\ a \div n \in Int /\ a % n \in 0..(n - 1)
      BY SMTT(30)
    <2> QED
      BY <2>1, Zenon
  <1>2. CASE b >= r
    <2>1. b - r \in 0..(n - 1) /\ a + (b - r) = n * q + b /\ a + (b - r) \in Nat
      BY <1>1, <1>2
    <2>2. (a + (b - r)) % n = b
      BY <2>1, DivisionIsUnique
    <2> QED
      BY <2>1, <2>2
  <1>3. CASE b < r
    <2>1. n * (q + 1) = n * q + n
      OBVIOUS
    <2>2. /\ b - r + n \in 0..(n - 1) /\ a + (b - r + n) = n * (q + 1) + b
          /\ a + (b - r + n) \in Nat /\ q + 1 \in Int
      BY <1>1, <1>3, <2>1
    <2>3. (a + (b - r + n)) % n = b
      BY <2>2, DivisionIsUnique
    <2> QED
      BY <2>2, <2>3
  <1> QED
    BY <1>2, <1>3

LEMMA TwiceGrows ==
  ASSUME NEW k \in Nat \ {0}, NEW n \in Nat, k <= n
  PROVE  Twice(k) \in Int /\ Twice(n) \in Int /\ Twice(k) <= Twice(n)
  <1>1. Twice(n) - Twice(k) = (n - k) * (n + k - 3)
    BY DEF Twice
  <1>2. CASE n = k
    BY <1>2 DEF Twice
  <1>3. CASE n > k
    <2>1. n - k \in Nat /\ n + k - 3 \in Nat
      BY <1>3
    <2>2. (n - k) * (n + k - 3) \in Nat
      BY <2>1
    <2> QED
      BY <1>1, <2>2 DEF Twice
  <1> QED
    BY <1>2, <1>3

\* What a removal takes away from what is pending: k - 2 others.
LEMMA PendingShrinks ==
  ASSUME NEW k \in Nat, k >= 3
  PROVE  Pending(k) = Pending(k - 1) + 2 * (k - 3) /\ Pending(k - 1) \in Int
  BY DEF Pending, Twice

LEMMA InitInTime == Init => InTime
  <1> SUFFICES ASSUME Init PROVE InTime
    OBVIOUS
  <1>1. PICK n \in 0..MaxMembers :
          /\ checked \in [1..n -> (0 - Within)..Future]
          /\ rows = [i \in 1..n |-> i]
          /\ waiting = [m \in 1..n |-> 0]
    BY DEF Init
  <1>2. IInv /\ index = 0
    BY InitInv DEF Init
  <1>3. n \in Nat /\ Members = 1..n /\ Len(rows) = n /\ Len(checked) = n
    <2>1. DOMAIN rows = 1..n /\ Members = 1..n
      BY <1>1 DEF Members
    <2> QED
      BY <1>1, <1>2, <2>1, Domains, RotationAssumption DEF IInv
  <1>4. ASSUME NEW m \in Members
        PROVE  m \in 1..Len(rows) /\ m - 1 \in 0..(Len(rows) - 1) /\ ComesIn(m, m, m - 1)
    <2>1. n \in Nat \ {0} /\ m \in 1..n /\ m - 1 \in 0..(n - 1)
      BY <1>3
    <2>2. (index + (m - 1)) % n = m - 1
      BY <1>2, <2>1, SmallPlace
    <2>3. 2 * (waiting[m] + (m - 1)) <= 2 * (n - 1)
      BY <1>1, <2>1
    <2>4. 2 * (n - 1) + Pending(n) <= 2 + Twice(n) /\ Pending(n) \in Int /\ Twice(n) \in Int
      BY <2>1 DEF Pending, Twice
    <2>5. waiting[m] + (m - 1) \in Int
      BY <1>1, <2>1
    <2>6. 2 * (waiting[m] + (m - 1)) + Pending(n) <= 2 + Twice(n)
      BY <2>1, <2>3, <2>4, <2>5
    <2>7. rows[m] = m
      BY <1>1, <2>1
    <2> QED
      BY <1>3, <2>1, <2>2, <2>6, <2>7 DEF ComesIn
  <1> QED
    BY <1>3, <1>4 DEF InTime

\* Steps that leave rows, index and deliveries alone.
LEMMA InTimeKept ==
  ASSUME IInv, InTime, UNCHANGED <<design, checked, rows, index, waiting>>,
         \A m \in Members : Fresh(m)' => Fresh(m)
  PROVE  InTime'
  <1>1. Members' = Members
    BY DEF Members
  <1>2. ASSUME NEW m, NEW p, NEW d, ComesIn(m, p, d) PROVE ComesIn(m, p, d)'
    BY <1>2 DEF ComesIn
  <1> QED
    BY <1>1, <1>2 DEF InTime

LEMMA LookInTime == ASSUME IInv, IInv', InTime, Look PROVE InTime'
  <1>1. /\ design = "remove" /\ design' = design /\ now' = now /\ checked' = checked
        /\ index' = index + 0 + 1 /\ cutoff # Unread
    BY DEF IInv, GeneratorOK, Look, Advance
  <1>2. rows # <<>> /\ index \in Nat /\ waiting \in [Members -> Nat]
    BY <1>1 DEF IInv, GeneratorOK, TypeOK
  <1>3. PICK n \in Nat \ {0} : n = Len(rows)
    BY <1>2, Domains DEF IInv
  <1>4. /\ Members' = Members /\ \A x \in Members : Fresh(x)' <=> Fresh(x)
        /\ \A i \in 1..n : rows[i] \in Members
    BY <1>1, <1>3, Domains DEF IInv, Members, Fresh, InWindow
  <1>5. PICK q \in 1..n : q = (index % n) + 1 /\ At(0) = rows[q]
    <2>1. (index % n) + 1 \in 1..n /\ index + 0 = index
      BY <1>2, PlaceInRange
    <2> QED
      BY <1>3, <2>1 DEF At
  <1>6. n <= Len(checked) /\ Len(checked) \in Nat /\ Len(checked)' = Len(checked)
    BY <1>1, <1>3, Domains DEF IInv, InTime
  <1>7. PICK bound \in Int : bound = 2 + Twice(Len(checked)) /\ 2 + Twice(n) <= bound
    BY <1>6, TwiceGrows
  <1>8. ASSUME NEW m \in Members, Fresh(m)
        PROVE  \E o \in 1..n, d \in 0..(n - 1) :
                 /\ rows[o] = m /\ (index + d) % n = o - 1
                 /\ 2 * (waiting[m] + d) + Pending(n) <= bound
                 /\ d = 0 => o = q
    <2>1. PICK o \in 1..n, d \in 0..(n - 1) : ComesIn(m, o, d)
      BY <1>1, <1>3, <1>8 DEF InTime
    <2>2. d = 0 => o = q
      BY <1>2, <1>5, <2>1, <1>3 DEF ComesIn
    <2> QED
      BY <1>3, <1>7, <2>1, <2>2 DEF ComesIn
  <1>9. \A i, j \in 1..n : i < j => rows[i] < rows[j]
    BY <1>3, Domains DEF IInv, TypeOK
  <1>10. Pending(n) \in Int /\ 2 * (n - 1) + Pending(n) <= 2 + Twice(n)
    BY DEF Pending, Twice
  <1>11. CASE Deliver(rows[q]) /\ rows' = rows
    <2>1. waiting' = [i \in Members |-> IF i = rows[q] THEN 0 ELSE waiting[i] + 1]
      BY <1>11 DEF Deliver
    <2>2. ASSUME NEW m \in Members, Fresh(m)
          PROVE  \E o \in 1..n, d \in 0..(n - 1) : ComesIn(m, o, d)'
      <3>1. PICK o \in 1..n, d \in 0..(n - 1) :
                 /\ rows[o] = m /\ (index + d) % n = o - 1
                 /\ 2 * (waiting[m] + d) + Pending(n) <= bound
                 /\ d = 0 => o = q
        BY <1>8, <2>2
      <3>2. waiting[m] \in Nat
        BY <1>2
      <3>3. CASE m = rows[q]
        <4>1. waiting'[m] = 0
          BY <2>1, <3>3
        <4>2. index' + (n - 1) = index + n
          BY <1>1, <1>2
        <4>3. (index' + (n - 1)) % n = q - 1
          <5>1. (index + n) % n = index % n
            BY <1>2, RoundTrip
          <5>2. index % n \in Int
            BY <1>2, SMT
          <5> QED
            BY <1>5, <4>2, <5>1, <5>2
        <4>4. 2 * (waiting'[m] + (n - 1)) + Pending(n) <= bound
          <5>1. waiting'[m] + (n - 1) = n - 1
            BY <4>1
          <5> QED
            BY <1>7, <1>10, <5>1 DEF Twice
        <4>5. ComesIn(m, q, n - 1)'
          BY <1>3, <1>6, <1>7, <1>11, <3>3, <4>3, <4>4 DEF ComesIn
        <4> QED
          BY <4>5
      <3>4. CASE m # rows[q]
        <4>1. d # 0 /\ waiting'[m] = waiting[m] + 1
          BY <2>1, <3>1, <3>4
        <4>2. index' + (d - 1) = index + d /\ d - 1 \in 0..(n - 1)
          BY <1>1, <1>2, <4>1
        <4>3. waiting'[m] + (d - 1) = waiting[m] + d
          BY <3>2, <4>1
        <4>4. 2 * (waiting'[m] + (d - 1)) + Pending(n) <= bound
          BY <3>1, <4>3
        <4>5. ComesIn(m, o, d - 1)'
          BY <1>3, <1>6, <1>7, <1>11, <3>1, <4>2, <4>4 DEF ComesIn
        <4> QED
          BY <4>2, <4>5
      <3> QED
        BY <3>3, <3>4
    <2>3. Len(rows)' = n /\ Len(rows)' <= Len(checked)'
      BY <1>3, <1>6, <1>11
    <2> QED
      BY <1>4, <2>2, <2>3 DEF InTime
  <1>12. CASE rows' = Without(rows[q]) /\ waiting' = waiting /\ ~InWindow(rows[q], cutoff, now)
    <2>1. /\ Len(rows)' = n - 1
          /\ \A i \in 1..(n - 1) : rows'[i] = IF i < q THEN rows[i] ELSE rows[i + 1]
      BY <1>3, <1>5, <1>12, LookRemoves
    <2>2. n - 1 <= Len(checked)
      BY <1>6
    <2>3. ASSUME NEW m \in Members, Fresh(m)
          PROVE  \E o \in 1..(n - 1), d \in 0..(n - 2) : ComesIn(m, o, d)'
      <3>1. PICK o \in 1..n, d \in 0..(n - 1) :
                 /\ rows[o] = m /\ (index + d) % n = o - 1
                 /\ 2 * (waiting[m] + d) + Pending(n) <= bound
                 /\ d = 0 => o = q
        BY <1>8, <2>3
      <3>2. m # rows[q]
        <4>1. ~Fresh(rows[q])
          <5>1. rows[q] \in Members
            BY <1>4
          <5> QED
            BY <1>1, <1>12, <5>1, LookStale
        <4> QED
          BY <2>3, <4>1
      <3>3. d >= 1 /\ n >= 2 /\ o # q /\ waiting[m] \in Nat
        BY <1>2, <3>1, <3>2
      <3>4. PICK r \in 1..(n - 1) : rows'[r] = m
        <4>1. CASE o < q
          <5>1. o \in 1..(n - 1)
            BY <4>1
          <5> QED
            BY <2>1, <3>1, <4>1, <5>1
        <4>2. CASE o > q
          <5>1. o - 1 \in 1..(n - 1) /\ ~(o - 1 < q) /\ (o - 1) + 1 = o
            BY <4>2
          <5>2. rows'[o - 1] = rows[o]
            BY <2>1, <5>1
          <5> QED
            BY <3>1, <5>1, <5>2
        <4>3. o < q \/ o > q
          BY <3>3
        <4> QED
          BY <4>1, <4>2, <4>3
      <3>5. PICK e \in 0..(n - 2) : (index' + e) % (n - 1) = r - 1
        <4>1. n - 1 \in Nat \ {0} /\ index' \in Nat /\ r - 1 \in 0..(n - 1 - 1)
          BY <1>1, <1>2, <3>3
        <4>2. \E e \in 0..(n - 1 - 1) : (index' + e) % (n - 1) = r - 1
          BY <4>1, EveryPlaceComes
        <4> QED
          BY <4>2
      <3>6. 2 * (waiting'[m] + e) + Pending(n - 1) <= bound
        <4>1. CASE n = 2
          <5>1. Pending(n - 1) = 0 /\ Pending(n) = 0 /\ e = 0
            BY <4>1 DEF Pending, Twice
          <5> QED
            BY <1>12, <3>1, <3>3, <5>1
        <4>2. CASE n >= 3
          <5>1. Pending(n) = Pending(n - 1) + 2 * (n - 3) /\ Pending(n - 1) \in Int
            BY <4>2, PendingShrinks
          <5>2. 2 * (waiting[m] + e) <= 2 * (waiting[m] + d) + 2 * (n - 3)
            BY <3>3
          <5> QED
            BY <1>10, <1>12, <3>1, <3>3, <5>1, <5>2
        <4> QED
          BY <3>3, <4>1, <4>2
      <3>7. ComesIn(m, r, e)'
        BY <1>6, <1>7, <2>1, <3>4, <3>5, <3>6 DEF ComesIn
      <3> QED
        BY <3>7
    <2> QED
      <3>1. (n - 1) - 1 = n - 2
        OBVIOUS
      <3>2. \A m \in Members' : Fresh(m)' =>
              \E o \in 1..Len(rows)', d \in 0..(Len(rows)' - 1) : ComesIn(m, o, d)'
        BY <1>4, <2>1, <2>3, <3>1
      <3>3. Len(rows)' <= Len(checked)'
        BY <1>6, <2>1, <2>2
      <3> QED
        BY <3>2, <3>3 DEF InTime
  <1> QED
    BY <1>5, <1>11, <1>12 DEF Look, history

LEMMA NextInTime == IInv /\ IInv' /\ InTime /\ [Next]_vars => InTime'
  <1> SUFFICES ASSUME IInv, IInv', InTime, [Next]_vars PROVE InTime'
    OBVIOUS
  <1>1. CASE NextSkip
    BY <1>1 DEF NextSkip, InTime
  <1>2. CASE Look
    BY <1>2, LookInTime
  <1>3. CASE Resume \/ ReadCutoff \/ UNCHANGED vars
    <2>1. UNCHANGED <<design, now, checked, rows, index, waiting>>
      BY <1>3 DEF Resume, ReadCutoff, Nothing, vars, history
    <2>2. \A m \in Members : Fresh(m)' => Fresh(m)
      BY <2>1 DEF Fresh, InWindow
    <2> QED
      BY <2>1, <2>2, InTimeKept
  <1>4. CASE Tick
    <2>1. UNCHANGED <<design, checked, rows, index, waiting>> /\ now' = now + 1
      BY <1>4 DEF Tick, history
    <2>2. now \in Nat /\ now' \in Int /\ now <= now'
      BY <2>1 DEF IInv, TypeOK
    <2>3. \A m \in Members : Fresh(m)' => Fresh(m)
      BY <2>1, <2>2, FreshShrinks
    <2> QED
      BY <2>1, <2>3, InTimeKept
  <1> QED
    BY <1>1, <1>2, <1>3, <1>4 DEF Next

\* The Python generator, whose index jumps whenever a row is removed, still
\* delivers a member that stays fresh after a bounded number of others, for
\* any number of members and in whichever order the others age out.
THEOREM NotStarvedHolds == Spec => []NotStarved
  <1>1. IInv /\ InTime => NotStarved
    <2> SUFFICES ASSUME IInv, InTime, design = "remove", NEW m \in Members, Fresh(m)
                 PROVE  waiting[m] <= MostOthers(Len(checked))
      BY DEF NotStarved
    <2>1. waiting[m] \in Nat /\ Len(checked) \in Nat /\ Len(rows) \in Nat
      BY Domains DEF IInv, TypeOK
    <2>2. PICK p \in 1..Len(rows), d \in 0..(Len(rows) - 1) : ComesIn(m, p, d)
      BY DEF InTime
    <2>3. PICK t \in Int : t = Twice(Len(checked))
      BY <2>1 DEF Twice
    <2>4. Pending(Len(rows)) \in Nat
      <3>1. PICK k \in Nat \ {0} : k = Len(rows)
        BY <2>1, <2>2
      <3>2. CASE k \in {1, 2}
        BY <3>2 DEF Pending, Twice
      <3>3. CASE k >= 3
        <4>1. (k - 1) - 1 \in Nat /\ (k - 1) - 2 \in Nat
          BY <3>3
        <4>2. ((k - 1) - 1) * ((k - 1) - 2) \in Nat
          BY <4>1
        <4> QED
          BY <3>3, <4>2 DEF Pending, Twice
      <3> QED
        BY <3>1, <3>2, <3>3
    <2>5. 2 * waiting[m] <= 2 + t
      BY <2>1, <2>2, <2>3, <2>4 DEF ComesIn
    <2>6. waiting[m] <= 1 + (t \div 2)
      BY <2>1, <2>3, <2>5
    <2> QED
      BY <2>3, <2>6 DEF MostOthers, Twice
  <1> QED
    BY <1>1, InitInTime, NextInTime, Invariance, PTL DEF Spec
=============================================================================
