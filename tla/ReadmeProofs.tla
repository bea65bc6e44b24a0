---------------------------- MODULE ReadmeProofs ----------------------------
(***************************************************************************)
(* What sync-readmes.mjs makes of the READMEs, proved for all shared       *)
(* blocks, all texts, and every sequence of edits, runs and kills.         *)
(*                                                                         *)
(* Where a README follows the root from a marker on and then leaves it, it *)
(* has a defect.  A round that changes a README leaves it with fewer       *)
(* defects, so no later round can undo it: that is why --check accepts     *)
(* only READMEs that are in sync.  In a README whose blocks are flat, a    *)
(* block put in the place of another only moves what comes after it: that  *)
(* is why everything else stays, and why a run that writes ends in sync.   *)
(***************************************************************************)
EXTENDS SyncReadmes, FiniteSetTheorems, SequenceTheorems, WellFoundedInduction, TLAPS

Readme == Seq(Token)

\* Markers are told apart by their edge and their name.
LEMMA MarkersDiffer ==
  ASSUME NEW a, NEW b
  PROVE  /\ Start(a) # End(b)
         /\ Start(a) = Start(b) => a = b
         /\ End(a) = End(b) => a = b
         /\ IsMarker(Start(a)) /\ IsMarker(End(a))
         /\ a \in Words => Start(a) \in Token /\ End(a) \in Token
  BY DEF Start, End, IsMarker, Token

\* Refused is no README.
LEMMA RefusedIsNone == Refused \notin Readme
  <1>1. Refused[1] \notin Token /\ 1 \in 1..Len(Refused)
    BY DEF Refused, Token
  <1> QED
    BY <1>1, ElementOfSeq DEF Readme

\* The two markers of a block, and where they are.
At(c, name, s, e) ==
  /\ s \in 1..Len(c) /\ e \in 1..Len(c) /\ s < e
  /\ Occurrences(c, Start(name)) = {s} /\ Occurrences(c, End(name)) = {e}

\* A block is marked if its markers are somewhere, and they are found there.
LEMMA MarkedAt ==
  ASSUME NEW c \in Readme, NEW name
  PROVE  /\ IsMarked(c, name) => At(c, name, StartIndex(c, name), EndIndex(c, name))
         /\ \A s, e : At(c, name, s, e) =>
              IsMarked(c, name) /\ s = StartIndex(c, name) /\ e = EndIndex(c, name)
  <1>1. DOMAIN c = 1..Len(c)
    BY LenProperties DEF Readme
  <1>2. ASSUME NEW s, NEW e, At(c, name, s, e)
        PROVE  IsMarked(c, name) /\ s = StartIndex(c, name) /\ e = EndIndex(c, name)
    BY <1>1, <1>2 DEF At, IsMarked, StartIndex, EndIndex
  <1>3. ASSUME IsMarked(c, name) PROVE At(c, name, StartIndex(c, name), EndIndex(c, name))
    <2>1. PICK i, j \in DOMAIN c :
            /\ Occurrences(c, Start(name)) = {i}
            /\ Occurrences(c, End(name)) = {j}
            /\ i < j
      BY <1>3 DEF IsMarked
    <2>2. At(c, name, i, j)
      BY <1>1, <2>1 DEF At
    <2> QED
      BY <1>2, <2>2
  <1> QED
    BY <1>2, <1>3

\* What At says of single tokens.
LEMMA AtTokens ==
  ASSUME NEW c \in Readme, NEW name, NEW s, NEW e, At(c, name, s, e)
  PROVE  /\ c[s] = Start(name) /\ c[e] = End(name)
         /\ \A i \in 1..Len(c) : (c[i] = Start(name) => i = s) /\ (c[i] = End(name) => i = e)
  <1>1. DOMAIN c = 1..Len(c)
    BY LenProperties DEF Readme
  <1> QED
    BY <1>1 DEF At, Occurrences

\* And what it takes for a block to be at s and e.
LEMMA AtFromTokens ==
  ASSUME NEW c \in Readme, NEW name, NEW s \in 1..Len(c), NEW e \in 1..Len(c), s < e,
         c[s] = Start(name), c[e] = End(name),
         \A i \in 1..Len(c) : (c[i] = Start(name) => i = s) /\ (c[i] = End(name) => i = e)
  PROVE  At(c, name, s, e)
  <1>1. DOMAIN c = 1..Len(c)
    BY LenProperties DEF Readme
  <1> QED
    BY <1>1 DEF At, Occurrences

-----------------------------------------------------------------------------
(* Cutting and joining.                                                    *)

\* The tokens of two texts, one after the other.
LEMMA JoinIs ==
  ASSUME NEW u \in Readme, NEW v \in Readme
  PROVE  /\ u \o v \in Readme /\ Len(u \o v) = Len(u) + Len(v)
         /\ \A i \in 1..(Len(u) + Len(v)) : (u \o v)[i] = IF i <= Len(u) THEN u[i] ELSE v[i - Len(u)]
  BY ConcatProperties, Zenon DEF Readme

Splice(c, s, e, b) == SubSeq(c, 1, s - 1) \o b \o SubSeq(c, e + 1, Len(c))

\* The tokens of a text with b in the place of s..e.
LEMMA SpliceIs ==
  ASSUME NEW c \in Readme, NEW b \in Readme, NEW s \in 1..Len(c), NEW e \in 1..Len(c), s <= e
  PROVE  /\ Splice(c, s, e, b) \in Readme
         /\ Len(Splice(c, s, e, b)) = Len(c) - (e - s + 1) + Len(b)
         /\ \A i \in 1..Len(Splice(c, s, e, b)) :
              Splice(c, s, e, b)[i] =
                IF i < s THEN c[i]
                ELSE IF i < s + Len(b) THEN b[i - s + 1]
                ELSE c[i - Len(b) + (e - s + 1)]
  <1> DEFINE u == SubSeq(c, 1, s - 1)
             v == SubSeq(c, e + 1, Len(c))
  <1>0. Len(c) \in Nat /\ Len(b) \in Nat
    BY LenProperties DEF Readme
  <1>1. u \in Seq(Token) /\ Len(u) = s - 1 /\ \A i \in 1..(s - 1) : u[i] = c[i]
    <2>1. \A i \in 1..(s - 1) : c[i] \in Token
      BY <1>0, ElementOfSeq DEF Readme
    <2> QED
      BY <1>0, <2>1, SubSeqProperties DEF Readme
  <1>2. v \in Seq(Token) /\ Len(v) = Len(c) - e /\ \A i \in 1..(Len(c) - e) : v[i] = c[e + i]
    <2>1. \A i \in (e + 1)..Len(c) : c[i] \in Token
      BY <1>0, ElementOfSeq DEF Readme
    <2> QED
      BY <1>0, <2>1, SubSeqProperties DEF Readme
  <1> HIDE DEF u, v
  <1>3. /\ u \o b \in Readme /\ Len(u \o b) = s - 1 + Len(b)
        /\ \A i \in 1..(s - 1 + Len(b)) : (u \o b)[i] = IF i <= s - 1 THEN u[i] ELSE b[i - (s - 1)]
    <2>1. u \in Readme
      BY <1>1 DEF Readme
    <2>2. /\ u \o b \in Readme /\ Len(u \o b) = Len(u) + Len(b)
          /\ \A i \in 1..(Len(u) + Len(b)) : (u \o b)[i] = IF i <= Len(u) THEN u[i] ELSE b[i - Len(u)]
      BY <2>1, JoinIs, Zenon
    <2>3. Len(u) = s - 1
      BY <1>1
    <2> HIDE DEF Readme
    <2> QED
      BY <2>2, <2>3, Zenon
  <1>4. /\ (u \o b) \o v \in Readme
        /\ Len((u \o b) \o v) = Len(u \o b) + Len(v)
        /\ \A i \in 1..(Len(u \o b) + Len(v)) :
             ((u \o b) \o v)[i] = IF i <= Len(u \o b) THEN (u \o b)[i] ELSE v[i - Len(u \o b)]
    <2>1. v \in Readme
      BY <1>2 DEF Readme
    <2> QED
      BY <2>1, <1>3, JoinIs, Zenon
  <1>5. Splice(c, s, e, b) = (u \o b) \o v
    BY DEF Splice, u, v
  <1>6. Len((u \o b) \o v) = Len(c) - (e - s + 1) + Len(b)
    BY <1>0, <1>2, <1>3, <1>4
  <1>7. ASSUME NEW i \in 1..(Len(c) - (e - s + 1) + Len(b))
        PROVE  ((u \o b) \o v)[i] =
                 IF i < s THEN c[i]
                 ELSE IF i < s + Len(b) THEN b[i - s + 1]
                 ELSE c[i - Len(b) + (e - s + 1)]
    <2>1. ((u \o b) \o v)[i] = IF i <= s - 1 + Len(b) THEN (u \o b)[i] ELSE v[i - (s - 1 + Len(b))]
      BY <1>3, <1>4, <1>6
    <2>2. CASE i < s
      BY <1>0, <1>1, <1>3, <2>1, <2>2
    <2>3. CASE i >= s /\ i < s + Len(b)
      <3>1. i - (s - 1) = i - s + 1 /\ ~(i <= s - 1) /\ i <= s - 1 + Len(b)
        BY <1>0, <2>3
      <3> QED
        BY <1>0, <1>3, <2>1, <2>3, <3>1
    <2>4. CASE i >= s + Len(b)
      <3> DEFINE k == i - (s - 1 + Len(b))
                 j == i - Len(b) + (e - s + 1)
      <3>1. /\ k \in 1..(Len(c) - e) /\ e + k = j
            /\ ~(i <= s - 1 + Len(b)) /\ ~(i < s) /\ ~(i < s + Len(b))
        BY <1>0, <2>4
      <3>2. ((u \o b) \o v)[i] = v[k]
        BY <2>1, <3>1
      <3> HIDE DEF k, j
      <3>3. v[k] = c[e + k]
        BY <1>2, <3>1
      <3>4. ((u \o b) \o v)[i] = c[j]
        BY <3>1, <3>2, <3>3
      <3> QED
        BY <3>1, <3>4, Zenon DEF j
    <2>5. i < s \/ (i >= s /\ i < s + Len(b)) \/ i >= s + Len(b)
      BY <1>0
    <2> QED
      BY <2>2, <2>3, <2>4, <2>5, Zenon
  <1> QED
    BY <1>4, <1>5, <1>6, <1>7 DEF Readme

\* The block between two places.
LEMMA BlockIs ==
  ASSUME NEW c \in Readme, NEW s \in 1..Len(c), NEW e \in 1..Len(c), s <= e
  PROVE  /\ SubSeq(c, s, e) \in Readme /\ Len(SubSeq(c, s, e)) = e - s + 1
         /\ \A i \in 1..(e - s + 1) : SubSeq(c, s, e)[i] = c[s + i - 1]
  <1>0. Len(c) \in Nat
    BY LenProperties DEF Readme
  <1>1. \A i \in s..e : c[i] \in Token
    BY <1>0, ElementOfSeq DEF Readme
  <1> QED
    BY <1>0, <1>1, SubSeqProperties DEF Readme

\* READMEs that agree token by token are equal.
LEMMA SameTokens ==
  ASSUME NEW c \in Readme, NEW d \in Readme, Len(c) = Len(d), \A i \in 1..Len(c) : c[i] = d[i]
  PROVE  c = d
  BY SeqEqual DEF Readme

-----------------------------------------------------------------------------
(* The loop over the blocks, round by round.                               *)

\* The names are texts, and the banner is the first of them.
LEMMA NamesAre ==
  /\ Len(Names) \in Nat /\ Len(Names) >= 1 /\ Names[1] = "banner"
  /\ \A n \in 1..Len(Names) : Names[n] \in Words /\ Names[n] \in ToSet(Names)
  /\ \A n \in 2..Len(Names) : Names[n] \in ToSet(SharedBlocks)
  /\ \A name \in ToSet(Names) : \E n \in 1..Len(Names) : name = Names[n]
  /\ "banner" \notin ToSet(SharedBlocks)
  /\ ToSet(SharedBlocks) \subseteq ToSet(Names)
  <1>1. SharedBlocks \in Seq(Words) /\ <<"banner">> \in Seq(Words) /\ Len(<<"banner">>) = 1
    <2>1. SharedBlocks \in Seq(Words)
      <3>1. SharedBlocks \in Seq(Words \ {"banner"}) /\ Words \ {"banner"} \subseteq Words
        BY BlocksAssumption
      <3> QED
        BY <3>1, SeqMonotonic, Zenon
    <2>2. "banner" \in Words
      BY BlocksAssumption
    <2> QED
      BY <2>1, <2>2
  <1>2. Len(SharedBlocks) \in Nat /\ DOMAIN SharedBlocks = 1..Len(SharedBlocks)
    BY <1>1, LenProperties
  <1>3. /\ Names \in Seq(Words) /\ Len(Names) = 1 + Len(SharedBlocks)
        /\ \A n \in 1..(1 + Len(SharedBlocks)) :
             Names[n] = IF n <= 1 THEN <<"banner">>[n] ELSE SharedBlocks[n - 1]
    <2> DEFINE b == <<"banner">>
    <2> HIDE DEF b
    <2>1. b \in Seq(Words) /\ Len(b) = 1 /\ SharedBlocks \in Seq(Words)
      BY <1>1 DEF b
    <2>2. /\ b \o SharedBlocks \in Seq(Words) /\ Len(b \o SharedBlocks) = Len(b) + Len(SharedBlocks)
          /\ \A n \in 1..(Len(b) + Len(SharedBlocks)) :
               (b \o SharedBlocks)[n] = IF n <= Len(b) THEN b[n] ELSE SharedBlocks[n - Len(b)]
      BY <2>1, ConcatProperties, Zenon
    <2>3. Names = b \o SharedBlocks
      BY DEF Names, b
    <2> QED
      BY <2>1, <2>2, <2>3, Zenon DEF b
  <1>4. DOMAIN Names = 1..Len(Names)
    BY <1>3, LenProperties
  <1>5. \A n \in 1..Len(SharedBlocks) : SharedBlocks[n] \in Words /\ SharedBlocks[n] # "banner"
    <2>1. SharedBlocks \in Seq(Words \ {"banner"})
      BY BlocksAssumption
    <2>2. \A n \in 1..Len(SharedBlocks) : SharedBlocks[n] \in Words \ {"banner"}
      BY <2>1, ElementOfSeq
    <2> QED
      BY <2>2
  <1>6. \A n \in 2..Len(Names) : Names[n] = SharedBlocks[n - 1] /\ n - 1 \in 1..Len(SharedBlocks)
    BY <1>2, <1>3
  <1>7. Names[1] = "banner"
    BY <1>2, <1>3
  <1>8. \A n \in 1..Len(SharedBlocks) : n + 1 \in 1..Len(Names) /\ SharedBlocks[n] = Names[n + 1]
    BY <1>2, <1>3
  <1>9. "banner" \notin ToSet(SharedBlocks)
    BY <1>2, <1>5 DEF ToSet
  <1>10. \A n \in 1..Len(Names) : Names[n] \in Words
    BY <1>3, ElementOfSeq
  <1>11. \A n \in 2..Len(Names) : Names[n] \in ToSet(SharedBlocks)
    BY <1>2, <1>6 DEF ToSet
  <1>12. ToSet(SharedBlocks) \subseteq ToSet(Names)
    BY <1>2, <1>4, <1>8 DEF ToSet
  <1>13. \A n \in 1..Len(Names) : Names[n] \in ToSet(Names)
    BY <1>4 DEF ToSet
  <1>14. \A name \in ToSet(Names) : \E n \in 1..Len(Names) : name = Names[n]
    BY <1>4 DEF ToSet
  <1>15. Len(Names) \in Nat /\ Len(Names) >= 1
    BY <1>2, <1>3
  <1> QED
    BY <1>7, <1>9, <1>10, <1>11, <1>12, <1>13, <1>14, <1>15

\* f holds what the first m rounds make of c.
Reworks(f, c, canonical, m) ==
  f = [n \in 0..m |-> IF n = 0 THEN c ELSE Replaced(f[n - 1], Names[n], canonical)]

\* Round by round.
LEMMA ReworksAt ==
  ASSUME NEW c, NEW canonical, NEW m \in Nat, NEW f
  PROVE  Reworks(f, c, canonical, m) <=>
           /\ f = [n \in 0..m |-> f[n]]
           /\ f[0] = c /\ \A n \in 1..m : f[n] = Replaced(f[n - 1], Names[n], canonical)
  <1> DEFINE F(n) == IF n = 0 THEN c ELSE Replaced(f[n - 1], Names[n], canonical)
  <1>1. Reworks(f, c, canonical, m) <=> f = [n \in 0..m |-> F(n)]
    BY Zenon DEF Reworks
  <1>2. F(0) = c /\ \A n \in 1..m : F(n) = Replaced(f[n - 1], Names[n], canonical)
    OBVIOUS
  <1>3. 0 \in 0..m /\ \A n \in 1..m : n \in 0..m
    OBVIOUS
  <1>4. \A n \in 0..m : n = 0 \/ n \in 1..m
    OBVIOUS
  <1> HIDE DEF F
  <1>5. ASSUME f = [n \in 0..m |-> F(n)]
        PROVE  /\ f = [n \in 0..m |-> f[n]]
               /\ \A n \in 0..m : f[n] = F(n)
    BY <1>5
  <1>6. ASSUME f = [n \in 0..m |-> f[n]], \A n \in 0..m : f[n] = F(n)
        PROVE  f = [n \in 0..m |-> F(n)]
    BY <1>6
  <1>7. (\A n \in 0..m : f[n] = F(n)) <=>
          f[0] = c /\ \A n \in 1..m : f[n] = Replaced(f[n - 1], Names[n], canonical)
    BY <1>2, <1>3, <1>4
  <1> QED
    BY <1>1, <1>5, <1>6, <1>7

\* A set of naturals that is not empty has a least element.
LEMMA LeastOfNaturals ==
  ASSUME NEW S \in SUBSET Nat, S # {}
  PROVE  \E x \in S : \A y \in S : x <= y
  <1>1. PICK x \in S : \A y \in S : ~(<<y, x>> \in OpToRel(<, Nat))
    BY NatLessThanWellFounded, WFMin
  <1>2. ASSUME NEW y \in S PROVE x <= y
    <2>1. x \in Nat /\ y \in Nat
      OBVIOUS
    <2>2. y < x => <<y, x>> \in OpToRel(<, Nat)
      BY <2>1 DEF OpToRel
    <2>3. ~(y < x)
      BY <1>1, <2>2, Zenon
    <2> QED
      BY <2>1, <2>3
  <1> QED
    BY <1>2

\* What holds of 0 and goes from each number to the next holds up to N.
LEMMA UpTo ==
  ASSUME NEW N \in Nat, NEW S, 0 \in S, \A n \in 1..N : n - 1 \in S => n \in S
  PROVE  0..N \subseteq S
  <1> DEFINE Bad == {n \in 0..N : n \notin S}
  <1> SUFFICES ASSUME Bad # {} PROVE FALSE
    OBVIOUS
  <1>1. PICK m \in Bad : \A n \in Bad : m <= n
    <2>1. Bad \in SUBSET Nat
      OBVIOUS
    <2> QED
      BY <2>1, LeastOfNaturals
  <1>2. m \in 1..N /\ m - 1 \in 0..N /\ ~(m <= m - 1)
    BY <1>1
  <1> QED
    BY <1>1, <1>2

\* The recursive function exists, and computes one round after the other.
LEMMA DraftsUnfold ==
  ASSUME NEW c, NEW canonical
  PROVE  /\ Drafts(c, canonical)[0] = c
         /\ \A n \in 1..Len(Names) :
              Drafts(c, canonical)[n] = Replaced(Drafts(c, canonical)[n - 1], Names[n], canonical)
  <1> DEFINE S == {m \in Nat : \E f : Reworks(f, c, canonical, m)}
             N == Len(Names)
  <1>0. N \in Nat
    BY NamesAre
  <1>1. 0 \in S
    <2> DEFINE f == [n \in 0..0 |-> c]
    <2>1. f = [n \in 0..0 |-> f[n]] /\ f[0] = c /\ 1..0 = {}
      OBVIOUS
    <2> HIDE DEF f
    <2>2. Reworks(f, c, canonical, 0)
      BY <2>1, ReworksAt
    <2> QED
      BY <2>2
  <1>2. ASSUME NEW m \in 1..N, m - 1 \in S PROVE m \in S
    <2>1. PICK g : Reworks(g, c, canonical, m - 1)
      BY <1>2
    <2> DEFINE f == [n \in 0..m |-> IF n = m THEN Replaced(g[m - 1], Names[m], canonical) ELSE g[n]]
    <2>2. m - 1 \in Nat /\ m \in Nat /\ m # 0
      BY <1>0
    <2>3. g[0] = c /\ \A n \in 1..(m - 1) : g[n] = Replaced(g[n - 1], Names[n], canonical)
      BY <2>1, <2>2, ReworksAt
    <2>4. f = [n \in 0..m |-> f[n]]
      OBVIOUS
    <2>5. /\ f[m] = Replaced(g[m - 1], Names[m], canonical)
          /\ \A n \in 0..(m - 1) : f[n] = g[n]
      BY <2>2
    <2> HIDE DEF f
    <2>6. f[0] = c
      BY <2>2, <2>3, <2>5
    <2>7. ASSUME NEW n \in 1..m PROVE f[n] = Replaced(f[n - 1], Names[n], canonical)
      <3>1. n - 1 \in 0..(m - 1) /\ (n = m \/ (n \in 1..(m - 1) /\ n \in 0..(m - 1)))
        BY <2>2
      <3> QED
        BY <2>3, <2>5, <3>1
    <2>8. Reworks(f, c, canonical, m)
      BY <2>2, <2>4, <2>6, <2>7, ReworksAt
    <2> QED
      BY <2>2, <2>8
  <1>3. N \in S
    <2>1. 0..N \subseteq S
      <3> HIDE DEF S
      <3> QED
        BY <1>0, <1>1, <1>2, UpTo
    <2> QED
      BY <1>0, <2>1
  <1>4. Drafts(c, canonical) = CHOOSE f : Reworks(f, c, canonical, N)
    BY DEF Drafts, Reworks
  <1>5. Reworks(Drafts(c, canonical), c, canonical, N)
    BY <1>3, <1>4
  <1> QED
    BY <1>0, <1>5, ReworksAt

-----------------------------------------------------------------------------
(* Blocks.                                                                 *)

\* A text that is one block: its markers are at its ends and nowhere else.
IsBlock(b, name) == b \in Readme /\ At(b, name, 1, Len(b))

\* The root's blocks are blocks.
LEMMA CanonicalIs ==
  ASSUME NEW root \in Readme, HasBlocks(root), NEW name \in ToSet(Names)
  PROVE  /\ IsBlock(Canonical(root)[name], name)
         /\ name # "banner" =>
              \E s, e : At(root, name, s, e) /\ Canonical(root)[name] = SubSeq(root, s, e)
         /\ name = "banner" => Canonical(root)[name] = BannerBlock
  <1>1. Canonical(root)[name] = IF name = "banner" THEN BannerBlock ELSE MarkedBlock(root, name)
    BY DEF Canonical
  <1>2. CASE name = "banner"
    <2>1. BannerBlock \in Readme /\ Len(BannerBlock) = 3
      <3>1. Start("banner") \in Token /\ StaticBanner \in Token /\ End("banner") \in Token
        BY BlocksAssumption DEF Start, End, StaticBanner, Text, Token
      <3> QED
        BY <3>1 DEF BannerBlock, Readme
    <2>2. BannerBlock[1] = Start("banner") /\ BannerBlock[3] = End("banner") /\ BannerBlock[2] = StaticBanner
      BY DEF BannerBlock
    <2>3. StaticBanner # Start("banner") /\ StaticBanner # End("banner") /\ Start("banner") # End("banner")
      BY DEF StaticBanner, Start, End, Text
    <2>4. At(BannerBlock, "banner", 1, 3)
      <3>1. 1 \in 1..Len(BannerBlock) /\ 3 \in 1..Len(BannerBlock) /\ 1 < 3
            /\ \A i \in 1..Len(BannerBlock) : i = 1 \/ i = 2 \/ i = 3
        BY <2>1
      <3> HIDE DEF BannerBlock
      <3>2. \A i \in 1..Len(BannerBlock) :
              (BannerBlock[i] = Start("banner") => i = 1) /\ (BannerBlock[i] = End("banner") => i = 3)
        BY <2>2, <2>3, <3>1
      <3> QED
        BY <2>1, <2>2, <3>1, <3>2, AtFromTokens
    <2> QED
      BY <1>1, <1>2, <2>1, <2>4 DEF IsBlock
  <1>3. CASE name # "banner"
    <2>1. name \in ToSet(SharedBlocks)
      BY <1>3, NamesAre
    <2> DEFINE s == StartIndex(root, name)
               e == EndIndex(root, name)
               b == SubSeq(root, s, e)
    <2>2. At(root, name, s, e)
      BY <2>1, MarkedAt DEF HasBlocks
    <2>3. s \in 1..Len(root) /\ e \in 1..Len(root) /\ s < e /\ Len(root) \in Nat
      BY <2>2, LenProperties DEF At, Readme
    <2>4. Canonical(root)[name] = b
      BY <1>1, <1>3 DEF MarkedBlock
    <2> HIDE DEF s, e
    <2>5. b \in Readme /\ Len(b) = e - s + 1 /\ \A i \in 1..(e - s + 1) : b[i] = root[s + i - 1]
      BY <2>3, BlockIs
    <2> HIDE DEF b
    <2>6. At(b, name, 1, e - s + 1)
      <3>1. 1 \in 1..Len(b) /\ e - s + 1 \in 1..Len(b) /\ 1 < e - s + 1 /\ s + (e - s + 1) - 1 = e /\ s + 1 - 1 = s
        BY <2>3, <2>5
      <3>2. b[1] = Start(name) /\ b[e - s + 1] = End(name)
        BY <2>2, <2>5, <3>1, AtTokens
      <3>3. ASSUME NEW i \in 1..Len(b)
            PROVE  (b[i] = Start(name) => i = 1) /\ (b[i] = End(name) => i = e - s + 1)
        <4>1. s + i - 1 \in 1..Len(root) /\ b[i] = root[s + i - 1]
          BY <2>3, <2>5
        <4>2. (b[i] = Start(name) => s + i - 1 = s) /\ (b[i] = End(name) => s + i - 1 = e)
          BY <2>2, <4>1, AtTokens
        <4> QED
          BY <2>3, <2>5, <4>2
      <3> QED
        BY <2>5, <3>1, <3>2, <3>3, AtFromTokens
    <2>7. At(root, name, s, e) /\ Canonical(root)[name] = SubSeq(root, s, e)
      BY <2>2, <2>4 DEF b
    <2> QED
      BY <1>3, <2>4, <2>5, <2>6, <2>7 DEF IsBlock
  <1> QED
    BY <1>2, <1>3

\* Once a block is spliced in, it is the block of that name.
LEMMA SpliceBlock ==
  ASSUME NEW c \in Readme, NEW name, NEW s, NEW e, At(c, name, s, e), NEW b, IsBlock(b, name)
  PROVE  /\ Splice(c, s, e, b) \in Readme
         /\ At(Splice(c, s, e, b), name, s, s + Len(b) - 1)
         /\ SubSeq(Splice(c, s, e, b), s, s + Len(b) - 1) = b
  <1> DEFINE d == Splice(c, s, e, b)
  <1>1. s \in 1..Len(c) /\ e \in 1..Len(c) /\ s < e /\ Len(c) \in Nat
    BY LenProperties DEF At, Readme
  <1>2. b \in Readme /\ Len(b) \in Nat /\ Len(b) > 1
    BY LenProperties DEF IsBlock, At, Readme
  <1>3. /\ d \in Readme
        /\ Len(d) = Len(c) - (e - s + 1) + Len(b)
        /\ \A i \in 1..Len(d) : d[i] = IF i < s THEN c[i] ELSE IF i < s + Len(b) THEN b[i - s + 1]
                                        ELSE c[i - Len(b) + (e - s + 1)]
    BY <1>1, <1>2, SpliceIs
  <1> HIDE DEF d
  <1>4. s \in 1..Len(d) /\ s + Len(b) - 1 \in 1..Len(d) /\ s < s + Len(b) - 1
    BY <1>1, <1>2, <1>3
  <1>5. \A i \in s..(s + Len(b) - 1) : d[i] = b[i - s + 1] /\ i - s + 1 \in 1..Len(b)
    BY <1>1, <1>2, <1>3
  <1>6. b[1] = Start(name) /\ b[Len(b)] = End(name)
    BY AtTokens DEF IsBlock
  <1>7. d[s] = Start(name) /\ d[s + Len(b) - 1] = End(name)
    <2>1. s - s + 1 = 1 /\ (s + Len(b) - 1) - s + 1 = Len(b)
          /\ s \in s..(s + Len(b) - 1) /\ s + Len(b) - 1 \in s..(s + Len(b) - 1)
      BY <1>1, <1>2
    <2> QED
      BY <1>5, <1>6, <2>1
  <1>8. ASSUME NEW i \in 1..Len(d)
        PROVE  (d[i] = Start(name) => i = s) /\ (d[i] = End(name) => i = s + Len(b) - 1)
    <2>1. CASE i < s
      <3>1. d[i] = c[i] /\ i \in 1..Len(c) /\ i # s /\ i # e
        BY <1>1, <1>3, <2>1
      <3> QED
        BY <3>1, AtTokens
    <2>2. CASE i >= s /\ i < s + Len(b)
      <3>1. d[i] = b[i - s + 1] /\ i - s + 1 \in 1..Len(b)
        BY <1>1, <1>2, <1>5, <2>2
      <3>2. (d[i] = Start(name) => i - s + 1 = 1) /\ (d[i] = End(name) => i - s + 1 = Len(b))
        BY <1>2, <3>1, AtTokens DEF IsBlock
      <3> QED
        BY <1>1, <1>2, <3>2
    <2>3. CASE i >= s + Len(b)
      <3> DEFINE j == i - Len(b) + (e - s + 1)
      <3>1. d[i] = c[j] /\ j \in 1..Len(c) /\ j # s /\ j # e
        BY <1>1, <1>2, <1>3, <2>3
      <3> HIDE DEF j
      <3> QED
        BY <3>1, AtTokens
    <2> QED
      BY <1>1, <1>2, <2>1, <2>2, <2>3
  <1>9. At(d, name, s, s + Len(b) - 1)
    BY <1>3, <1>4, <1>7, <1>8, AtFromTokens
  <1>10. SubSeq(d, s, s + Len(b) - 1) = b
    <2>1. /\ SubSeq(d, s, s + Len(b) - 1) \in Readme
          /\ Len(SubSeq(d, s, s + Len(b) - 1)) = (s + Len(b) - 1) - s + 1
          /\ \A i \in 1..((s + Len(b) - 1) - s + 1) : SubSeq(d, s, s + Len(b) - 1)[i] = d[s + i - 1]
      BY <1>3, <1>4, BlockIs
    <2>2. (s + Len(b) - 1) - s + 1 = Len(b)
      BY <1>1, <1>2
    <2>3. \A i \in 1..Len(b) : d[s + i - 1] = b[i]
      <3>1. \A i \in 1..Len(b) : s + i - 1 \in s..(s + Len(b) - 1) /\ (s + i - 1) - s + 1 = i
        BY <1>1, <1>2
      <3> QED
        BY <1>5, <3>1
    <2> QED
      BY <1>2, <2>1, <2>2, <2>3, SameTokens
  <1> QED
    BY <1>3, <1>9, <1>10 DEF d

\* A README's own block put in its place changes nothing, and no other does.
LEMMA SpliceOwn ==
  ASSUME NEW c \in Readme, NEW name, NEW s, NEW e, At(c, name, s, e), NEW b, IsBlock(b, name)
  PROVE  Splice(c, s, e, b) = c <=> b = SubSeq(c, s, e)
  <1> DEFINE d == Splice(c, s, e, b)
  <1>1. s \in 1..Len(c) /\ e \in 1..Len(c) /\ s < e /\ s <= e /\ Len(c) \in Nat
    BY LenProperties DEF At, Readme
  <1>2. ASSUME d = c PROVE b = SubSeq(c, s, e)
    <2>1. At(c, name, s, s + Len(b) - 1) /\ SubSeq(c, s, s + Len(b) - 1) = b
      BY <1>2, SpliceBlock
    <2>2. s + Len(b) - 1 = EndIndex(c, name) /\ e = EndIndex(c, name)
      BY <2>1, MarkedAt, Zenon
    <2> QED
      BY <2>1, <2>2
  <1>3. ASSUME b = SubSeq(c, s, e) PROVE d = c
    <2>1. b \in Readme /\ Len(b) = e - s + 1 /\ \A i \in 1..(e - s + 1) : b[i] = c[s + i - 1]
      BY <1>1, <1>3, BlockIs
    <2>2. /\ d \in Readme
          /\ Len(d) = Len(c) - (e - s + 1) + Len(b)
          /\ \A i \in 1..Len(d) : d[i] = IF i < s THEN c[i] ELSE IF i < s + Len(b) THEN b[i - s + 1]
                                          ELSE c[i - Len(b) + (e - s + 1)]
      BY <1>1, <2>1, SpliceIs, Zenon
    <2> HIDE DEF d
    <2>3. Len(d) = Len(c)
      BY <1>1, <2>1, <2>2
    <2>4. ASSUME NEW i \in 1..Len(d) PROVE d[i] = c[i]
      <3>1. CASE i < s
        BY <2>2, <3>1
      <3>2. CASE i >= s /\ i < s + Len(b)
        <4>1. i - s + 1 \in 1..(e - s + 1) /\ s + (i - s + 1) - 1 = i /\ ~(i < s)
          BY <1>1, <2>1, <3>2
        <4> QED
          BY <2>1, <2>2, <3>2, <4>1
      <3>3. CASE i >= s + Len(b)
        <4>1. i - Len(b) + (e - s + 1) = i /\ ~(i < s) /\ ~(i < s + Len(b))
          BY <1>1, <2>1, <3>3
        <4> QED
          BY <2>2, <4>1
      <3> QED
        BY <1>1, <2>1, <3>1, <3>2, <3>3
    <2> QED
      BY <2>2, <2>3, <2>4, SameTokens
  <1> QED
    BY <1>2, <1>3 DEF d

\* One round, for a README that is not refused.
LEMMA ReplacedIs ==
  ASSUME NEW c, NEW name \in ToSet(Names), NEW root \in Readme, HasBlocks(root),
         c \in Readme \cup {Refused}
  PROVE  LET r == Replaced(c, name, Canonical(root))
             s == StartIndex(c, name)
             e == EndIndex(c, name)
         IN  /\ r \in Readme \cup {Refused}
             /\ r = Refused <=> c = Refused \/ ~IsMarked(c, name)
             /\ r # Refused => /\ c \in Readme /\ At(c, name, s, e)
                               /\ r = Splice(c, s, e, Canonical(root)[name])
  <1> DEFINE r == Replaced(c, name, Canonical(root))
             s == StartIndex(c, name)
             e == EndIndex(c, name)
  <1>1. CASE c = Refused \/ ~IsMarked(c, name)
    BY <1>1 DEF Replaced
  <1>2. CASE c # Refused /\ IsMarked(c, name)
    <2>1. c \in Readme /\ At(c, name, s, e)
      BY <1>2, MarkedAt
    <2>2. r = Splice(c, s, e, Canonical(root)[name])
      BY <1>2 DEF Replaced, Spliced, Splice
    <2>3. r \in Readme
      BY <2>1, <2>2, CanonicalIs, SpliceBlock
    <2> QED
      BY <1>2, <2>1, <2>2, <2>3, RefusedIsNone
  <1> QED
    BY <1>1, <1>2

-----------------------------------------------------------------------------
(* Where a README follows the root from a marker on, and where it stops.   *)

IsSharedMarker(token) == \E name \in ToSet(SharedBlocks) : token \in {Start(name), End(name)}

\* Place y of c is place p of the root, and the next tokens are the same too.
GoesOn(c, root, y, p) == y < Len(c) /\ p < Len(root) /\ c[y + 1] = root[p + 1]

\* From the marker at x, which is at q in the root, up to y: the same tokens.
Follows(c, root, x, q, y) ==
  /\ x \in 1..y /\ q \in 1..Len(root) /\ q + (y - x) <= Len(root)
  /\ IsSharedMarker(c[x])
  /\ \A i \in 0..(y - x) : c[x + i] = root[q + i]

\* The places at which c, having followed the root from a marker on, leaves it.
Defects(c, root) ==
  {y \in 1..Len(c) : \E x, q : Follows(c, root, x, q, y) /\ ~GoesOn(c, root, y, q + (y - x))}

\* They are finitely many.
LEMMA DefectsFinite ==
  ASSUME NEW c \in Readme, NEW root
  PROVE  IsFiniteSet(Defects(c, root)) /\ Cardinality(Defects(c, root)) \in Nat
  <1>1. Len(c) \in Nat
    BY LenProperties DEF Readme
  <1>2. IsFiniteSet(1..Len(c))
    BY <1>1, FS_Interval
  <1>3. Defects(c, root) \in SUBSET (1..Len(c))
    BY DEF Defects
  <1> QED
    BY <1>2, <1>3, FS_Subset, FS_CardinalityType

\* A marker of a shared block is at one place of the root.
LEMMA OnePlace ==
  ASSUME NEW root \in Readme, HasBlocks(root), NEW p \in 1..Len(root), NEW q \in 1..Len(root),
         root[p] = root[q], IsSharedMarker(root[p])
  PROVE  p = q
  <1>1. PICK name \in ToSet(SharedBlocks) : root[p] \in {Start(name), End(name)}
    BY DEF IsSharedMarker
  <1>2. At(root, name, StartIndex(root, name), EndIndex(root, name))
    BY MarkedAt DEF HasBlocks
  <1> QED
    BY <1>1, <1>2, AtTokens

\* A block of the root in place of another text: as before up to s, the root
\* from there to f, and as before from f on.
Renews(c, d, root, s, e, ks, ke, f) ==
  /\ s \in 1..Len(c) /\ e \in 1..Len(c) /\ s < e
  /\ ks \in 1..Len(root) /\ ke \in 1..Len(root) /\ ks < ke /\ f = s + (ke - ks)
  /\ Len(d) = Len(c) + (f - e)
  /\ \A i \in 1..s : d[i] = c[i]
  /\ \A i \in s..f : d[i] = root[i - s + ks]
  /\ \A i \in f..Len(d) : d[i] = c[i - f + e]
  /\ IsSharedMarker(d[s]) /\ IsSharedMarker(d[f])

\* A round does so.
LEMMA SpliceRenews ==
  ASSUME NEW c \in Readme, NEW root \in Readme, HasBlocks(root), NEW name \in ToSet(SharedBlocks),
         NEW s, NEW e, At(c, name, s, e)
  PROVE  LET d == Splice(c, s, e, Canonical(root)[name])
         IN  d \in Readme /\ \E ks, ke, f : Renews(c, d, root, s, e, ks, ke, f)
  <1> DEFINE b == Canonical(root)[name]
             d == Splice(c, s, e, b)
  <1>1. s \in 1..Len(c) /\ e \in 1..Len(c) /\ s < e /\ s <= e /\ Len(c) \in Nat /\ Len(root) \in Nat
    BY LenProperties DEF At, Readme
  <1>2. name \in ToSet(Names) /\ name # "banner"
    BY NamesAre
  <1>3. PICK ks, ke : At(root, name, ks, ke) /\ b = SubSeq(root, ks, ke)
    BY <1>2, CanonicalIs
  <1>4. ks \in 1..Len(root) /\ ke \in 1..Len(root) /\ ks < ke /\ ks <= ke
    BY <1>1, <1>3 DEF At
  <1>5. b \in Readme /\ Len(b) = ke - ks + 1 /\ \A i \in 1..(ke - ks + 1) : b[i] = root[ks + i - 1]
    BY <1>3, <1>4, BlockIs
  <1> HIDE DEF b
  <1>6. /\ d \in Readme
        /\ Len(d) = Len(c) - (e - s + 1) + Len(b)
        /\ \A i \in 1..Len(d) : d[i] = IF i < s THEN c[i] ELSE IF i < s + Len(b) THEN b[i - s + 1]
                                        ELSE c[i - Len(b) + (e - s + 1)]
    BY <1>1, <1>5, SpliceIs, Zenon
  <1>7. IsBlock(b, name)
    BY <1>2, CanonicalIs DEF b
  <1>8. At(d, name, s, s + Len(b) - 1)
    BY <1>7, SpliceBlock
  <1> HIDE DEF d
  <1> DEFINE f == s + (ke - ks)
  <1>9. s + Len(b) - 1 = f /\ f > s /\ f \in Int
    BY <1>1, <1>4, <1>5
  <1>10. Len(d) = Len(c) + (f - e)
    BY <1>1, <1>4, <1>5, <1>6
  <1>11. c[s] = Start(name) /\ c[e] = End(name) /\ d[s] = Start(name) /\ d[f] = End(name)
    BY <1>6, <1>8, <1>9, AtTokens
  <1>12. ASSUME NEW i \in 1..s PROVE d[i] = c[i]
    <2>1. i = s \/ (i < s /\ i \in 1..Len(d))
      BY <1>1, <1>4, <1>10
    <2> QED
      BY <2>1, <1>6, <1>11
  <1>13. ASSUME NEW i \in s..f PROVE d[i] = root[i - s + ks]
    <2>1. /\ i \in 1..Len(d) /\ ~(i < s) /\ i < s + Len(b) /\ i - s + 1 \in 1..(ke - ks + 1)
          /\ ks + (i - s + 1) - 1 = i - s + ks
      BY <1>1, <1>4, <1>5, <1>10
    <2>2. d[i] = b[i - s + 1]
      BY <1>6, <2>1
    <2> QED
      BY <1>5, <2>1, <2>2
  <1>14. ASSUME NEW i \in f..Len(d) PROVE d[i] = c[i - f + e]
    <2>1. CASE i = f
      <3>1. i - f + e = e
        BY <1>1, <1>9, <2>1
      <3> QED
        BY <1>11, <2>1, <3>1
    <2>2. CASE i > f
      <3>1. /\ i \in 1..Len(d) /\ ~(i < s) /\ ~(i < s + Len(b))
            /\ i - Len(b) + (e - s + 1) = i - f + e
        BY <1>1, <1>4, <1>5, <1>9, <1>10, <2>2
      <3> QED
        BY <1>6, <3>1
    <2> QED
      BY <1>9, <2>1, <2>2
  <1>15. IsSharedMarker(d[s]) /\ IsSharedMarker(d[f])
    BY <1>11 DEF IsSharedMarker
  <1>16. Renews(c, d, root, s, e, ks, ke, f)
    BY <1>1, <1>4, <1>10, <1>12, <1>13, <1>14, <1>15 DEF Renews
  <1> QED
    BY <1>6, <1>16 DEF b, d

\* Before the block, the defects are those there were.
LEMMA DefectBefore ==
  ASSUME NEW c \in Readme, NEW d \in Readme, NEW root \in Readme, HasBlocks(root),
         NEW s, NEW e, NEW ks, NEW ke, NEW f, Renews(c, d, root, s, e, ks, ke, f),
         NEW y \in Defects(d, root), y < s
  PROVE  y \in Defects(c, root)
  <1>1. PICK x, q : Follows(d, root, x, q, y) /\ ~GoesOn(d, root, y, q + (y - x))
    BY DEF Defects
  <1>2. y \in 1..Len(c) /\ y \in 1..Len(d) /\ Len(c) \in Nat /\ Len(d) \in Nat /\ s \in 1..Len(c)
    BY LenProperties DEF Defects, Renews, Readme
  <1>3. x \in 1..y /\ x \in 1..s /\ y + 1 \in 1..s /\ \A i \in 0..(y - x) : x + i \in 1..s
    BY <1>1, <1>2 DEF Follows
  <1>4. \A i \in 1..s : d[i] = c[i]
    BY DEF Renews
  <1>5. Follows(c, root, x, q, y)
    BY <1>1, <1>3, <1>4 DEF Follows
  <1>6. ~GoesOn(c, root, y, q + (y - x))
    <2>1. y < Len(d)
      BY <1>2 DEF Renews
    <2>2. y < Len(c) /\ d[y + 1] = c[y + 1]
      BY <1>2, <1>3, <1>4
    <2> QED
      BY <1>1, <2>1, <2>2 DEF GoesOn
  <1> QED
    BY <1>2, <1>5, <1>6 DEF Defects

\* A text that follows the root into a shared marker is there at its place.
LEMMA ThroughMarker ==
  ASSUME NEW c \in Readme, NEW root \in Readme, HasBlocks(root), NEW x, NEW q, NEW y \in 1..Len(c),
         Follows(c, root, x, q, y), NEW z \in x..y, NEW p \in 1..Len(root),
         c[z] = root[p], IsSharedMarker(c[z])
  PROVE  q + (z - x) = p
  <1>0. Len(c) \in Nat /\ Len(root) \in Nat
    BY LenProperties DEF Readme
  <1>1. x \in 1..y /\ q \in 1..Len(root) /\ q + (y - x) <= Len(root) /\ \A i \in 0..(y - x) : c[x + i] = root[q + i]
    BY DEF Follows
  <1>2. z - x \in 0..(y - x) /\ x + (z - x) = z /\ q + (z - x) \in 1..Len(root)
    BY <1>0, <1>1
  <1>3. c[z] = root[q + (z - x)]
    BY <1>1, <1>2
  <1> QED
    BY <1>2, <1>3, OnePlace

\* In the block there is none: whatever follows the root up to there goes on.
LEMMA NoDefectInside ==
  ASSUME NEW c \in Readme, NEW d \in Readme, NEW root \in Readme, HasBlocks(root),
         NEW s, NEW e, NEW ks, NEW ke, NEW f, Renews(c, d, root, s, e, ks, ke, f),
         NEW y \in Defects(d, root), s <= y, y < f
  PROVE  FALSE
  <1>1. PICK x, q : Follows(d, root, x, q, y) /\ ~GoesOn(d, root, y, q + (y - x))
    BY DEF Defects
  <1>2. /\ y \in 1..Len(d) /\ Len(c) \in Nat /\ Len(d) \in Nat /\ Len(root) \in Nat
        /\ s \in 1..Len(c) /\ e \in 1..Len(c) /\ ks \in 1..Len(root) /\ ke \in 1..Len(root)
        /\ f = s + (ke - ks) /\ Len(d) = Len(c) + (f - e)
        /\ \A i \in s..f : d[i] = root[i - s + ks]
    BY LenProperties DEF Defects, Renews, Readme
  <1>3. x \in 1..y /\ q \in 1..Len(root)
    BY <1>1 DEF Follows
  <1>4. q + (y - x) = y - s + ks
    <2>1. CASE x <= s
      <3>1. s \in x..y /\ s \in s..f /\ s - s + ks = ks
        BY <1>2, <1>3, <2>1
      <3>2. d[s] = root[ks] /\ IsSharedMarker(d[s])
        <4>1. d[s] = root[s - s + ks]
          BY <1>2, <3>1
        <4> QED
          BY <3>1, <4>1 DEF Renews
      <3>3. q + (s - x) = ks
        BY <1>1, <1>2, <3>1, <3>2, ThroughMarker
      <3> QED
        BY <1>2, <1>3, <3>3
    <2>2. CASE x > s
      <3>1. x \in x..y /\ x \in s..f /\ x - s + ks \in 1..Len(root)
        BY <1>2, <1>3, <2>2
      <3>2. d[x] = root[x - s + ks] /\ IsSharedMarker(d[x])
        BY <1>1, <1>2, <3>1 DEF Follows
      <3>3. d[x] = root[q]
        <4>1. 0 \in 0..(y - x) /\ x + 0 = x /\ q + 0 = q
          BY <1>2, <1>3
        <4> QED
          BY <1>1, <4>1 DEF Follows
      <3>4. q = x - s + ks
        BY <1>3, <3>1, <3>2, <3>3, OnePlace
      <3> QED
        BY <1>2, <1>3, <3>4
    <2> QED
      BY <1>2, <1>3, <2>1, <2>2
  <1>5. y + 1 \in s..f /\ (y + 1) - s + ks = (y - s + ks) + 1 /\ y < Len(d) /\ y - s + ks < Len(root)
    BY <1>2
  <1>6. d[y + 1] = root[(y - s + ks) + 1]
    BY <1>2, <1>5
  <1> QED
    BY <1>1, <1>4, <1>5, <1>6 DEF GoesOn

\* After the block, the defects are those there were, moved with the text.
LEMMA DefectAfter ==
  ASSUME NEW c \in Readme, NEW d \in Readme, NEW root \in Readme, HasBlocks(root),
         NEW s, NEW e, NEW ks, NEW ke, NEW f, Renews(c, d, root, s, e, ks, ke, f),
         NEW y \in Defects(d, root), y >= f
  PROVE  y - f + e \in Defects(c, root)
  <1>1. PICK x, q : Follows(d, root, x, q, y) /\ ~GoesOn(d, root, y, q + (y - x))
    BY DEF Defects
  <1>2. /\ y \in 1..Len(d) /\ Len(c) \in Nat /\ Len(d) \in Nat /\ Len(root) \in Nat
        /\ s \in 1..Len(c) /\ e \in 1..Len(c) /\ ks \in 1..Len(root) /\ ke \in 1..Len(root) /\ s < e /\ ks < ke
        /\ f = s + (ke - ks) /\ Len(d) = Len(c) + (f - e)
        /\ \A i \in f..Len(d) : d[i] = c[i - f + e]
    BY LenProperties DEF Defects, Renews, Readme
  <1>3. x \in 1..y /\ q \in 1..Len(root) /\ q + (y - x) <= Len(root) /\ \A i \in 0..(y - x) : d[x + i] = root[q + i]
    BY <1>1 DEF Follows
  <1> DEFINE z == y - f + e
  <1>4. z \in 1..Len(c) /\ z \in Int /\ e <= z
    BY <1>2
  \* c follows the root from some place on, up to z, where d does up to y.
  <1>5. \E u, v : Follows(c, root, u, v, z) /\ v + (z - u) = q + (y - x)
    <2>1. CASE x <= f
      <3>1. f \in x..y /\ f \in f..Len(d) /\ f - f + e = e
        BY <1>2, <1>3, <2>1
      <3>2. d[f] = root[ke] /\ IsSharedMarker(d[f])
        <4>1. f \in s..f /\ f - s + ks = ke
          BY <1>2
        <4> QED
          BY <4>1 DEF Renews
      <3>3. q + (f - x) = ke
        BY <1>1, <1>2, <3>1, <3>2, ThroughMarker
      <3>4. IsSharedMarker(c[e])
        BY <1>2, <3>1, <3>2
      <3>5. ASSUME NEW i \in 0..(z - e) PROVE c[e + i] = root[ke + i]
        <4>1. /\ f + i \in f..Len(d) /\ (f + i) - f + e = e + i
              /\ (f - x) + i \in 0..(y - x) /\ x + ((f - x) + i) = f + i /\ q + ((f - x) + i) = ke + i
          BY <1>2, <1>3, <2>1, <3>3
        <4>2. d[f + i] = c[e + i]
          BY <1>2, <4>1
        <4>3. d[f + i] = root[ke + i]
          BY <1>3, <4>1
        <4> QED
          BY <4>2, <4>3
      <3>6. e \in 1..z /\ ke + (z - e) <= Len(root) /\ ke + (z - e) = q + (y - x)
        BY <1>2, <1>3, <3>3
      <3>7. Follows(c, root, e, ke, z)
        BY <1>2, <3>4, <3>5, <3>6 DEF Follows
      <3> QED
        BY <3>6, <3>7
    <2>2. CASE x > f
      <3> DEFINE u == x - f + e
      <3>1. u \in 1..z /\ z - u = y - x /\ x \in f..Len(d)
        BY <1>2, <1>3, <2>2
      <3>2. IsSharedMarker(c[u])
        <4>1. d[x] = c[u]
          BY <1>2, <3>1
        <4>2. IsSharedMarker(d[x])
          BY <1>1 DEF Follows
        <4> QED
          BY <4>1, <4>2
      <3>3. ASSUME NEW i \in 0..(z - u) PROVE c[u + i] = root[q + i]
        <4>1. x + i \in f..Len(d) /\ (x + i) - f + e = u + i /\ i \in 0..(y - x)
          BY <1>2, <1>3, <2>2, <3>1
        <4>2. d[x + i] = c[u + i]
          BY <1>2, <4>1
        <4>3. d[x + i] = root[q + i]
          BY <1>3, <4>1
        <4> QED
          BY <4>2, <4>3
      <3> HIDE DEF u, z
      <3>4. Follows(c, root, u, q, z)
        BY <1>3, <3>1, <3>2, <3>3 DEF Follows
      <3> QED
        BY <3>1, <3>4
    <2> QED
      BY <1>2, <1>3, <2>1, <2>2
  <1>6. PICK u, v : Follows(c, root, u, v, z) /\ v + (z - u) = q + (y - x)
    BY <1>5
  <1>7. ~GoesOn(c, root, z, v + (z - u))
    <2>1. z < Len(c) <=> y < Len(d)
      BY <1>2
    <2>2. ASSUME y < Len(d) PROVE d[y + 1] = c[z + 1]
      <3>1. y + 1 \in f..Len(d) /\ (y + 1) - f + e = z + 1
        BY <1>2, <2>2
      <3> QED
        BY <1>2, <3>1
    <2> HIDE DEF z
    <2> QED
      BY <1>1, <1>6, <2>1, <2>2 DEF GoesOn
  <1> HIDE DEF z
  <1>8. z \in Defects(c, root)
    BY <1>4, <1>6, <1>7 DEF Defects
  <1> QED
    BY <1>8 DEF z

\* A block that is not the root's leaves the root somewhere before its end.
LEMMA DefectInside ==
  ASSUME NEW c \in Readme, NEW d \in Readme, NEW root \in Readme, HasBlocks(root),
         NEW s, NEW e, NEW ks, NEW ke, NEW f, Renews(c, d, root, s, e, ks, ke, f),
         IsSharedMarker(c[e]), root[ke] = c[e], c # d
  PROVE  \E y \in Defects(c, root) : s <= y /\ y < e
  <1>1. /\ Len(c) \in Nat /\ Len(d) \in Nat /\ Len(root) \in Nat
        /\ s \in 1..Len(c) /\ e \in 1..Len(c) /\ ks \in 1..Len(root) /\ ke \in 1..Len(root) /\ s < e /\ ks < ke
        /\ f = s + (ke - ks) /\ Len(d) = Len(c) + (f - e)
        /\ \A i \in 1..s : d[i] = c[i]
        /\ \A i \in s..f : d[i] = root[i - s + ks]
        /\ \A i \in f..Len(d) : d[i] = c[i - f + e]
        /\ IsSharedMarker(d[s])
    BY LenProperties DEF Renews, Readme
  \* How far c follows the root from s.
  <1> DEFINE Off == {i \in Nat : s + i > e \/ ks + i > Len(root) \/ c[s + i] # root[ks + i]}
  <1>2. PICK m \in Off : \A i \in Off : m <= i
    <2>1. Off \in SUBSET Nat /\ (e - s) + 1 \in Off
      BY <1>1
    <2> HIDE DEF Off
    <2> QED
      BY <2>1, LeastOfNaturals
  <1>3. c[s] = root[ks]
    <2>1. s \in 1..s /\ s \in s..f /\ s - s + ks = ks
      BY <1>1
    <2> QED
      BY <1>1, <2>1
  <1>4. m \in Nat /\ m >= 1 /\ m <= (e - s) + 1
    <2>1. 0 \notin Off
      BY <1>1, <1>3
    <2>2. (e - s) + 1 \in Off
      BY <1>1
    <2>3. m \in Nat /\ m # 0 /\ m <= (e - s) + 1
      <3> HIDE DEF Off
      <3>1. m # 0
        BY <1>2, <2>1
      <3>2. m \in Nat
        BY <1>2 DEF Off
      <3>3. m <= (e - s) + 1
        BY <1>2, <2>2
      <3> QED
        BY <3>1, <3>2, <3>3
    <2> QED
      BY <2>3
  <1>5. \A i \in 0..(m - 1) : s + i <= e /\ ks + i <= Len(root) /\ c[s + i] = root[ks + i]
    <2>1. ASSUME NEW i \in 0..(m - 1) PROVE i \in Nat /\ i \notin Off
      <3>1. i \in Nat /\ ~(m <= i)
        BY <1>4
      <3> HIDE DEF Off
      <3> QED
        BY <1>2, <3>1
    <2> QED
      BY <1>1, <2>1
  <1> DEFINE y == s + m - 1
  <1>6. m <= e - s
    <2> SUFFICES ASSUME m = (e - s) + 1 PROVE FALSE
      BY <1>1, <1>4
    <2>0. e - s \in 0..(m - 1) /\ s + (e - s) = e
      BY <1>1
    <2>1. e - s \in 0..(m - 1) /\ s + (e - s) = e /\ ks + (e - s) \in 1..Len(root)
      <3>1. ks + (e - s) <= Len(root)
        BY <1>5, <2>0
      <3> QED
        BY <1>1, <2>0, <3>1
    <2>2. c[e] = root[ks + (e - s)]
      BY <1>5, <2>1
    <2>3. ks + (e - s) = ke
      BY <1>1, <2>1, <2>2, OnePlace
    <2>4. f = e /\ Len(d) = Len(c)
      BY <1>1, <2>3
    <2>5. ASSUME NEW i \in 1..Len(c) PROVE c[i] = d[i]
      <3>1. CASE i <= s
        BY <1>1, <3>1
      <3>2. CASE i >= s /\ i <= f
        <4>1. i \in s..f /\ i - s \in 0..(m - 1) /\ s + (i - s) = i /\ ks + (i - s) = i - s + ks
          BY <1>1, <2>4, <3>2
        <4>2. d[i] = root[i - s + ks]
          BY <1>1, <4>1
        <4>3. c[i] = root[i - s + ks]
          BY <1>5, <4>1
        <4> QED
          BY <4>2, <4>3
      <3>3. CASE i >= f
        <4>1. i \in f..Len(d) /\ i - f + e = i
          BY <1>1, <2>4, <3>3
        <4> QED
          BY <1>1, <4>1
      <3> QED
        BY <1>1, <3>1, <3>2, <3>3
    <2> QED
      BY <2>4, <2>5, SameTokens
  <1>7. y \in 1..Len(c) /\ s \in 1..y /\ y - s = m - 1 /\ s <= y /\ y < e
    BY <1>1, <1>4, <1>6
  <1>8. ks + (y - s) <= Len(root) /\ \A i \in 0..(y - s) : c[s + i] = root[ks + i]
    <2>1. m - 1 \in 0..(m - 1)
      BY <1>4
    <2> QED
      BY <1>5, <1>7, <2>1
  <1>9. IsSharedMarker(c[s])
    <2>1. s \in 1..s
      BY <1>1
    <2> QED
      BY <1>1, <2>1
  <1>10. Follows(c, root, s, ks, y)
    BY <1>1, <1>7, <1>8, <1>9 DEF Follows
  <1>11. ~GoesOn(c, root, y, ks + (y - s))
    <2> SUFFICES ASSUME GoesOn(c, root, y, ks + (y - s)) PROVE FALSE
      OBVIOUS
    <2>1. y + 1 = s + m /\ (ks + (y - s)) + 1 = ks + m
      BY <1>1, <1>4, <1>7
    <2>2. c[s + m] = root[ks + m] /\ ks + (y - s) < Len(root)
      <3> HIDE DEF y
      <3> QED
        BY <2>1 DEF GoesOn
    <2>3. s + m <= e /\ ks + m <= Len(root)
      BY <1>1, <1>4, <1>6, <1>7, <2>2
    <2> QED
      BY <1>1, <1>2, <1>4, <2>2, <2>3
  <1> HIDE DEF y
  <1> QED
    BY <1>7, <1>10, <1>11 DEF Defects

\* So a round that changes the README leaves it with fewer defects.
LEMMA FewerDefects ==
  ASSUME NEW c \in Readme, NEW root \in Readme, HasBlocks(root), NEW name \in ToSet(SharedBlocks),
         NEW s, NEW e, At(c, name, s, e), Splice(c, s, e, Canonical(root)[name]) # c
  PROVE  Cardinality(Defects(Splice(c, s, e, Canonical(root)[name]), root)) < Cardinality(Defects(c, root))
  <1> DEFINE d == Splice(c, s, e, Canonical(root)[name])
  <1>1. d \in Readme
    BY SpliceRenews
  <1>2. PICK ks, ke, f : Renews(c, d, root, s, e, ks, ke, f)
    BY SpliceRenews
  <1>3. d # c
    OBVIOUS
  <1>4. c[e] = End(name)
    BY AtTokens
  <1>5. d[f] = End(name) /\ d[f] = root[ke]
    <2>1. /\ Len(c) \in Nat /\ Len(d) \in Nat
          /\ s \in 1..Len(c) /\ e \in 1..Len(c) /\ s < e /\ ks \in 1..Len(root) /\ ke \in 1..Len(root) /\ ks < ke
          /\ f = s + (ke - ks) /\ Len(d) = Len(c) + (f - e)
          /\ \A i \in s..f : d[i] = root[i - s + ks]
          /\ \A i \in f..Len(d) : d[i] = c[i - f + e]
      BY <1>1, <1>2, LenProperties DEF Renews, Readme
    <2>2. f \in f..Len(d) /\ f - f + e = e /\ f \in s..f /\ f - s + ks = ke
      BY <2>1
    <2>3. d[f] = c[f - f + e] /\ d[f] = root[f - s + ks]
      BY <2>1, <2>2
    <2> QED
      BY <1>4, <2>2, <2>3
  <1> HIDE DEF d
  <1>6. IsSharedMarker(c[e]) /\ root[ke] = c[e]
    BY <1>4, <1>5 DEF IsSharedMarker
  <1>7. PICK y0 \in Defects(c, root) : s <= y0 /\ y0 < e
    BY <1>1, <1>2, <1>3, <1>6, DefectInside
  <1>8. /\ Len(c) \in Nat /\ Len(d) \in Nat /\ Len(root) \in Nat
        /\ s \in 1..Len(c) /\ e \in 1..Len(c) /\ s < e /\ ks \in 1..Len(root) /\ ke \in 1..Len(root) /\ ks < ke
        /\ f = s + (ke - ks)
        /\ \A y \in Defects(d, root) : y \in 1..Len(d)
        /\ y0 \in 1..Len(c)
    BY <1>1, <1>2, LenProperties DEF Renews, Readme, Defects
  <1> DEFINE D == Defects(d, root)
             C == Defects(c, root)
             T == C \ {y0}
             g == [y \in D |-> IF y < s THEN y ELSE y - f + e]
  <1>9. ASSUME NEW y \in D
        PROVE  \/ y < s /\ g[y] = y /\ y \in T
               \/ y >= f /\ g[y] = y - f + e /\ y - f + e \in T
    <2>1. CASE y < s
      <3>1. y \in C
        BY <1>1, <1>2, <2>1, DefectBefore
      <3>2. y # y0
        BY <1>7, <1>8, <2>1
      <3> QED
        BY <2>1, <3>1, <3>2
    <2>2. CASE s <= y /\ y < f
      BY <1>1, <1>2, <2>2, NoDefectInside
    <2>3. CASE y >= f
      <3>1. y - f + e \in C
        BY <1>1, <1>2, <2>3, DefectAfter
      <3>2. y - f + e # y0 /\ ~(y < s)
        BY <1>7, <1>8, <2>3
      <3> QED
        BY <2>3, <3>1, <3>2
    <2> QED
      BY <1>8, <2>1, <2>2, <2>3
  <1>10. g \in Injection(D, T)
    <2>1. g \in [D -> T]
      BY <1>9
    <2>2. ASSUME NEW y \in D, NEW z \in D, g[y] = g[z] PROVE y = z
      <3>1. /\ (y < s /\ g[y] = y) \/ (y >= f /\ g[y] = y - f + e)
            /\ (z < s /\ g[z] = z) \/ (z >= f /\ g[z] = z - f + e)
        BY <1>9
      <3> HIDE DEF g
      <3>2. y \in Int /\ z \in Int
        BY <1>8
      <3> QED
        BY <1>8, <2>2, <3>1, <3>2
    <2> HIDE DEF g
    <2> QED
      BY <2>1, <2>2 DEF Injection, IsInjective
  <1>11. IsFiniteSet(T) /\ Cardinality(T) = Cardinality(C) - 1
    BY <1>7, DefectsFinite, FS_RemoveElement
  <1>12. Cardinality(D) <= Cardinality(T)
    <2> HIDE DEF g, D, T
    <2> QED
      BY <1>10, <1>11, FS_Injection
  <1>13. Cardinality(D) \in Nat /\ Cardinality(C) \in Nat
    BY <1>1, DefectsFinite
  <1> QED
    BY <1>11, <1>12, <1>13 DEF d

-----------------------------------------------------------------------------
(* What the whole loop does.                                               *)

\* The README after n rounds.
Draft(c, root, n) == Drafts(c, Canonical(root))[n]

\* A round is refused, or puts a block in its place.
LEMMA RoundIs ==
  ASSUME NEW c \in Readme, NEW root \in Readme, HasBlocks(root), NEW n \in 1..Len(Names)
  PROVE  LET old == Draft(c, root, n - 1)
             new == Draft(c, root, n)
             name == Names[n]
             s == StartIndex(old, name)
             e == EndIndex(old, name)
         IN  /\ old \in Readme \cup {Refused} /\ new \in Readme \cup {Refused}
             /\ new = Refused <=> old = Refused \/ ~IsMarked(old, name)
             /\ new # Refused => /\ old \in Readme /\ At(old, name, s, e)
                                 /\ new = Splice(old, s, e, Canonical(root)[name])
  <1> DEFINE N == Len(Names)
             D(k) == Draft(c, root, k)
             S == {k \in Nat : D(k) \in Readme \cup {Refused}}
  <1>1. N \in Nat /\ \A k \in 1..N : Names[k] \in ToSet(Names)
    BY NamesAre
  <1>2. D(0) = c /\ \A k \in 1..N : D(k) = Replaced(D(k - 1), Names[k], Canonical(root))
    BY DraftsUnfold DEF Draft
  <1> HIDE DEF D
  <1>3. 0 \in S
    BY <1>2
  <1>4. ASSUME NEW k \in 1..N, k - 1 \in S PROVE k \in S
    <2>1. Replaced(D(k - 1), Names[k], Canonical(root)) \in Readme \cup {Refused}
      BY <1>1, <1>4, ReplacedIs
    <2> QED
      BY <1>1, <1>2, <2>1
  <1>5. 0..N \subseteq S
    <2> HIDE DEF S
    <2> QED
      BY <1>1, <1>3, <1>4, UpTo
  <1>6. n \in 1..N /\ n - 1 \in 0..N /\ n \in 0..N
    BY <1>1
  <1>7. D(n) \in Readme \cup {Refused} /\ D(n - 1) \in Readme \cup {Refused}
    BY <1>5, <1>6
  <1>8. D(n) = Replaced(D(n - 1), Names[n], Canonical(root)) /\ Names[n] \in ToSet(Names)
    BY <1>1, <1>2, <1>6
  <1> HIDE DEF S
  <1> QED
    BY <1>7, <1>8, ReplacedIs, Zenon DEF D

\* A loop that ends well was never refused.
LEMMA NeverRefused ==
  ASSUME NEW c \in Readme, NEW root \in Readme, HasBlocks(root), Draft(c, root, Len(Names)) # Refused
  PROVE  \A n \in 0..Len(Names) : Draft(c, root, n) \in Readme
  <1> DEFINE N == Len(Names)
             S == {k \in 0..N : Draft(c, root, N - k) # Refused}
  <1>1. N \in Nat /\ N >= 1 /\ N - 0 = N
    BY NamesAre
  <1>2. 0 \in S
    BY <1>1
  <1>3. ASSUME NEW k \in 1..N, k - 1 \in S PROVE k \in S
    <2>1. N - (k - 1) \in 1..N /\ (N - (k - 1)) - 1 = N - k /\ k \in 0..N
      BY <1>1
    <2>2. Draft(c, root, N - (k - 1)) # Refused
      BY <1>3
    <2>3. Draft(c, root, (N - (k - 1)) - 1) # Refused
      BY <2>1, <2>2, RoundIs
    <2> QED
      BY <2>1, <2>3
  <1>4. 0..N \subseteq S
    <2> HIDE DEF S
    <2> QED
      BY <1>1, <1>2, <1>3, UpTo
  <1>5. ASSUME NEW n \in 0..N PROVE Draft(c, root, n) \in Readme
    <2>1. N - n \in 0..N /\ N - (N - n) = n
      BY <1>1
    <2>2. Draft(c, root, n) # Refused
      BY <1>4, <2>1
    <2>3. Draft(c, root, n) \in Readme \cup {Refused}
      <3>1. CASE n \in 1..N
        BY <3>1, RoundIs
      <3>2. CASE n = 0
        BY <3>2, DraftsUnfold DEF Draft
      <3> QED
        BY <1>1, <3>1, <3>2
    <2> QED
      BY <2>2, <2>3
  <1> QED
    BY <1>5

\* What Updated returns, in terms of the last round.
LEMMA UpdatedIs ==
  ASSUME NEW c \in Readme, NEW root \in Readme, HasBlocks(root)
  PROVE  /\ Updated(c, Canonical(root)) \in Readme \cup {Refused}
         /\ Updated(c, Canonical(root)) # Refused =>
              /\ Updated(c, Canonical(root)) = Draft(c, root, Len(Names))
              /\ BannerIsFirst(Updated(c, Canonical(root)))
  <1>1. Len(Names) \in 1..Len(Names)
    BY NamesAre
  <1>2. Draft(c, root, Len(Names)) \in Readme \cup {Refused}
    BY <1>1, RoundIs
  <1> QED
    BY <1>2 DEF Updated, Draft

\* A README that begins with the banner has the banner's block there.
LEMMA BannerIsBlock ==
  ASSUME NEW c \in Readme, BannerIsFirst(c), NEW s, NEW e, At(c, "banner", s, e)
  PROVE  SubSeq(c, s, e) = BannerBlock
  <1> DEFINE p == BannerBlock \o <<Title>>
  <1>1. Start("banner") \in Token /\ StaticBanner \in Token /\ End("banner") \in Token /\ Title \in Token
    BY BlocksAssumption DEF Start, End, StaticBanner, Title, Text, Token
  <1>2. BannerBlock \in Readme /\ <<Title>> \in Readme /\ Len(BannerBlock) = 3 /\ Len(<<Title>>) = 1
    BY <1>1 DEF BannerBlock, Readme
  <1>3. p \in Readme /\ Len(p) = 4 /\ \A i \in 1..3 : p[i] = BannerBlock[i]
    <2> DEFINE t == <<Title>>
    <2>1. t \in Readme /\ Len(t) = 1
      BY <1>2
    <2> HIDE DEF t
    <2>2. /\ BannerBlock \o t \in Readme /\ Len(BannerBlock \o t) = Len(BannerBlock) + Len(t)
          /\ \A i \in 1..(Len(BannerBlock) + Len(t)) :
               (BannerBlock \o t)[i] = IF i <= Len(BannerBlock) THEN BannerBlock[i] ELSE t[i - Len(BannerBlock)]
      BY <1>2, <2>1, JoinIs, Zenon
    <2>3. Len(BannerBlock) = 3
      BY <1>2
    <2> HIDE DEF BannerBlock
    <2>4. /\ BannerBlock \o t \in Readme /\ Len(BannerBlock \o t) = 4
          /\ \A i \in 1..3 : (BannerBlock \o t)[i] = BannerBlock[i]
      BY <2>1, <2>2, <2>3
    <2> QED
      BY <2>4 DEF t
  <1> HIDE DEF p
  <1>4. Len(p) <= Len(c) /\ SubSeq(p, 1, Len(p)) = SubSeq(c, 1, Len(p))
    BY DEF BannerIsFirst, IsPrefix, p
  <1>5. Len(c) \in Nat /\ 4 <= Len(c) /\ SubSeq(p, 1, 4) = SubSeq(c, 1, 4)
    BY <1>3, <1>4, LenProperties DEF Readme
  <1>6. \A i \in 1..3 : c[i] = BannerBlock[i]
    <2>1. \A i \in 1..4 : SubSeq(p, 1, 4)[i] = p[1 + i - 1]
      <3>1. 1 \in 1..Len(p) /\ 4 \in 1..Len(p) /\ 1 <= 4 /\ 4 - 1 + 1 = 4
        BY <1>3
      <3> QED
        BY <1>3, <3>1, BlockIs, Zenon
    <2>2. \A i \in 1..4 : SubSeq(c, 1, 4)[i] = c[1 + i - 1]
      <3>1. 1 \in 1..Len(c) /\ 4 \in 1..Len(c) /\ 1 <= 4 /\ 4 - 1 + 1 = 4
        BY <1>5
      <3> QED
        BY <3>1, BlockIs, Zenon
    <2>3. ASSUME NEW i \in 1..3 PROVE c[i] = BannerBlock[i]
      <3>1. i \in 1..4 /\ 1 + i - 1 = i
        OBVIOUS
      <3>2. c[i] = SubSeq(c, 1, 4)[i] /\ p[i] = SubSeq(p, 1, 4)[i]
        BY <2>1, <2>2, <3>1
      <3> HIDE DEF BannerBlock
      <3> QED
        BY <1>3, <1>5, <3>2
    <2> QED
      BY <2>3
  <1>7. s = 1 /\ e = 3
    <2>1. BannerBlock[1] = Start("banner") /\ BannerBlock[3] = End("banner")
      BY DEF BannerBlock
    <2>2. 1 \in 1..3 /\ 3 \in 1..3 /\ 1 \in 1..Len(c) /\ 3 \in 1..Len(c)
      BY <1>5
    <2>3. c[1] = Start("banner") /\ c[3] = End("banner")
      BY <1>6, <2>1, <2>2
    <2> QED
      BY <2>2, <2>3, AtTokens
  <1>8. /\ SubSeq(c, 1, 3) \in Readme /\ Len(SubSeq(c, 1, 3)) = 3
        /\ \A i \in 1..3 : SubSeq(c, 1, 3)[i] = c[1 + i - 1]
    <2>1. 1 \in 1..Len(c) /\ 3 \in 1..Len(c) /\ 1 <= 3 /\ 3 - 1 + 1 = 3
      BY <1>5
    <2> QED
      BY <2>1, BlockIs, Zenon
  <1>9. \A i \in 1..3 : SubSeq(c, 1, 3)[i] = BannerBlock[i]
    <2> HIDE DEF BannerBlock
    <2>1. \A i \in 1..3 : 1 + i - 1 = i
      OBVIOUS
    <2> QED
      BY <1>6, <1>8, <2>1
  <1>10. SubSeq(c, 1, 3) = BannerBlock
    <2>1. Len(SubSeq(c, 1, 3)) = Len(BannerBlock) /\ \A i \in 1..Len(SubSeq(c, 1, 3)) : SubSeq(c, 1, 3)[i] = BannerBlock[i]
      BY <1>2, <1>8, <1>9
    <2> QED
      BY <1>2, <1>8, <2>1, SameTokens, Zenon
  <1> QED
    BY <1>7, <1>10

\* A README in which each round finds the block it would put there repeats
\* every shared block.
LEMMA FixedShares ==
  ASSUME NEW c \in Readme, NEW root \in Readme, HasBlocks(root),
         \A n \in 0..Len(Names) : Draft(c, root, n) = c
  PROVE  SharesBlocks(c, root)
  <1>1. ASSUME NEW name \in ToSet(Names)
        PROVE  IsMarked(c, name) /\ MarkedBlock(c, name) = Canonical(root)[name]
    <2>1. PICK n \in 1..Len(Names) : name = Names[n]
      BY NamesAre
    <2>2. n \in 0..Len(Names) /\ n - 1 \in 0..Len(Names)
      BY NamesAre
    <2>3. Draft(c, root, n) = c /\ Draft(c, root, n - 1) = c /\ c # Refused
      BY <2>2, RefusedIsNone
    <2> DEFINE s == StartIndex(c, name)
               e == EndIndex(c, name)
    <2>4. At(c, name, s, e) /\ c = Splice(c, s, e, Canonical(root)[name])
      BY <2>1, <2>3, RoundIs
    <2>5. IsBlock(Canonical(root)[name], name)
      BY CanonicalIs
    <2>6. Canonical(root)[name] = SubSeq(c, s, e)
      BY <2>4, <2>5, SpliceOwn
    <2> QED
      BY <2>4, <2>6, MarkedAt DEF MarkedBlock
  <1> QED
    BY <1>1 DEF SharesBlocks

\* --check accepts a README only if it repeats every shared block: a round that
\* changed it would have to be undone by a later one, and none adds a defect.
LEMMA UnchangedShares ==
  ASSUME NEW c \in Readme, NEW root \in Readme, HasBlocks(root), Updated(c, Canonical(root)) = c
  PROVE  SharesBlocks(c, root)
  <1> DEFINE N == Len(Names)
             D(n) == Draft(c, root, n)
             Mu(n) == Cardinality(Defects(D(n), root))
  <1>1. N \in Nat /\ N >= 1 /\ 1 \in 1..N /\ Names[1] = "banner"
    BY NamesAre
  <1>2. D(N) = c /\ BannerIsFirst(c) /\ c # Refused
    BY UpdatedIs, RefusedIsNone
  <1>3. D(0) = c
    BY DraftsUnfold DEF Draft
  <1>4. \A n \in 0..N : D(n) \in Readme /\ D(n) # Refused
    BY <1>2, NeverRefused, RefusedIsNone
  <1>5. \A n \in 0..N : Mu(n) \in Nat
    BY <1>4, DefectsFinite
  \* The banner is at its place, so the first round changes nothing.
  <1>6. D(1) = c
    <2> DEFINE s == StartIndex(c, "banner")
               e == EndIndex(c, "banner")
    <2>1. 1 \in 0..N /\ 1 - 1 = 0
      BY <1>1
    <2>2. At(c, "banner", s, e) /\ D(1) = Splice(c, s, e, Canonical(root)["banner"])
      BY <1>1, <1>3, <1>4, <2>1, RoundIs
    <2>3. "banner" \in ToSet(Names)
      BY <1>1, NamesAre
    <2>4. IsBlock(Canonical(root)["banner"], "banner") /\ Canonical(root)["banner"] = BannerBlock
      BY <2>3, CanonicalIs
    <2>5. SubSeq(c, s, e) = BannerBlock
      BY <1>2, <2>2, BannerIsBlock
    <2> HIDE DEF s, e, D
    <2> DEFINE b == Canonical(root)["banner"]
    <2>6. SubSeq(c, s, e) = b
      BY <2>4, <2>5
    <2>9. IsBlock(b, "banner")
      BY <2>4
    <2> HIDE DEF b
    <2>10. At(c, "banner", s, e)
      BY <2>2
    <2>7. Splice(c, s, e, b) = c
      <3>1. Splice(c, s, e, b) = c <=> b = SubSeq(c, s, e)
        BY <2>9, <2>10, SpliceOwn
      <3> QED
        BY <2>6, <3>1
    <2>8. D(1) = Splice(c, s, e, b)
      BY <2>2 DEF b
    <2> QED
      BY <2>7, <2>8
  <1>7. ASSUME NEW n \in 2..N PROVE D(n) = D(n - 1) \/ Mu(n) < Mu(n - 1)
    <2> DEFINE old == D(n - 1)
               name == Names[n]
               s == StartIndex(old, name)
               e == EndIndex(old, name)
    <2>1. n \in 1..N /\ n \in 0..N /\ n - 1 \in 0..N
      BY <1>1
    <2>2. At(old, name, s, e) /\ D(n) = Splice(old, s, e, Canonical(root)[name])
      BY <1>4, <2>1, RoundIs
    <2>3. name \in ToSet(SharedBlocks) /\ old \in Readme
      BY <1>4, <2>1, NamesAre
    <2> HIDE DEF D, name, s, e
    <2> QED
      BY <2>2, <2>3, FewerDefects DEF D
  <1> HIDE DEF D, Mu
  <1> DEFINE S == {n \in 0..N : D(n) = c \/ Mu(n) < Mu(0)}
             T == {k \in 0..N : D(N - k) = c}
  <1>8. 0..N \subseteq S
    <2>1. 0 \in S
      BY <1>1, <1>3
    <2>2. ASSUME NEW n \in 1..N, n - 1 \in S PROVE n \in S
      <3>1. n \in 0..N /\ n - 1 \in 0..N /\ 0 \in 0..N /\ (n = 1 \/ n \in 2..N)
        BY <1>1
      <3>2. CASE n = 1
        BY <1>6, <3>1, <3>2
      <3>3. CASE n \in 2..N
        <4>1. D(n) = D(n - 1) \/ Mu(n) < Mu(n - 1)
          BY <1>7, <3>3
        <4>2. D(n - 1) = c => Mu(n - 1) = Mu(0)
          BY <1>3 DEF Mu
        <4>3. D(n) = D(n - 1) => Mu(n) = Mu(n - 1)
          BY DEF Mu
        <4>4. D(n - 1) = c \/ Mu(n - 1) < Mu(0)
          BY <2>2
        <4>5. Mu(n) \in Nat /\ Mu(n - 1) \in Nat /\ Mu(0) \in Nat
          BY <1>5, <3>1
        <4> QED
          BY <3>1, <4>1, <4>2, <4>3, <4>4, <4>5
      <3> QED
        BY <3>1, <3>2, <3>3
    <2> HIDE DEF S
    <2> QED
      BY <1>1, <2>1, <2>2, UpTo
  <1>9. 0..N \subseteq T
    <2>1. 0 \in T
      BY <1>1, <1>2
    <2>2. ASSUME NEW k \in 1..N, k - 1 \in T PROVE k \in T
      <3> DEFINE n == N - (k - 1)
      <3>1. n \in 1..N /\ n - 1 = N - k /\ k \in 0..N /\ n - 1 \in 0..N /\ n \in 0..N
            /\ 0 \in 0..N /\ (n = 1 \/ n \in 2..N)
        BY <1>1
      <3>2. D(n) = c
        BY <2>2
      <3> HIDE DEF n
      <3>3. D(n - 1) = c
        <4>1. CASE n = 1
          BY <1>3, <4>1
        <4>2. CASE n \in 2..N
          <5>1. D(n) = D(n - 1) \/ Mu(n) < Mu(n - 1)
            BY <1>7, <4>2
          <5>2. Mu(n) = Mu(0)
            BY <1>3, <3>2 DEF Mu
          <5>3. D(n - 1) = c \/ Mu(n - 1) < Mu(0)
            BY <1>8, <3>1
          <5>4. Mu(n - 1) \in Nat /\ Mu(0) \in Nat
            BY <1>5, <3>1
          <5> QED
            BY <3>2, <5>1, <5>2, <5>3, <5>4
        <4> QED
          BY <3>1, <4>1, <4>2
      <3> QED
        BY <3>1, <3>3
    <2> HIDE DEF T
    <2> QED
      BY <1>1, <2>1, <2>2, UpTo
  <1>10. ASSUME NEW n \in 0..N PROVE D(n) = c
    <2>1. N - n \in 0..N /\ N - (N - n) = n
      BY <1>1
    <2> QED
      BY <1>9, <2>1
  <1> QED
    BY <1>10, FixedShares DEF D

\* And a README that repeats every shared block is left alone.
LEMMA SharesUnchanged ==
  ASSUME NEW c \in Readme, NEW root \in Readme, SharesBlocks(c, root)
  PROVE  Updated(c, Canonical(root)) \in {c, Refused}
  <1> DEFINE N == Len(Names)
             S == {n \in 0..N : Draft(c, root, n) = c}
  <1>1. N \in Nat /\ N \in 0..N /\ HasBlocks(root)
    BY NamesAre DEF SharesBlocks
  <1>2. 0 \in S
    BY <1>1, DraftsUnfold DEF Draft
  <1>3. ASSUME NEW n \in 1..N, n - 1 \in S PROVE n \in S
    <2> DEFINE name == Names[n]
               s == StartIndex(c, name)
               e == EndIndex(c, name)
    <2>1. Draft(c, root, n - 1) = c /\ n \in 0..N
      BY <1>1, <1>3
    <2>2. name \in ToSet(Names)
      BY NamesAre
    <2>3. IsMarked(c, name) /\ SubSeq(c, s, e) = Canonical(root)[name]
      BY <2>2 DEF SharesBlocks, MarkedBlock
    <2>4. At(c, name, s, e) /\ IsBlock(Canonical(root)[name], name)
      BY <1>1, <2>2, <2>3, MarkedAt, CanonicalIs
    <2>5. Splice(c, s, e, Canonical(root)[name]) = c
      BY <2>3, <2>4, SpliceOwn
    <2>6. Draft(c, root, n) = c
      <3>1. Draft(c, root, n) # Refused
        BY <1>1, <2>1, <2>3, RoundIs, RefusedIsNone
      <3>2. Draft(c, root, n) = Splice(c, s, e, Canonical(root)[name])
        BY <1>1, <2>1, <3>1, RoundIs, Zenon
      <3> QED
        BY <2>5, <3>2
    <2> QED
      BY <2>1, <2>6
  <1>4. 0..N \subseteq S
    <2> HIDE DEF S
    <2> QED
      BY <1>1, <1>2, <1>3, UpTo
  <1>5. Draft(c, root, N) = c
    BY <1>1, <1>4
  <1> QED
    BY <1>1, <1>5, UpdatedIs

-----------------------------------------------------------------------------
(* READMEs in which no block holds a marker of another one.                *)

\* c and d are the same up to s, and the same from e and f on; in between,
\* neither has a marker.
Moved(c, d, s, e, f) ==
  /\ s \in 1..Len(c) /\ e \in 1..Len(c) /\ s < e
  /\ f \in 1..Len(d) /\ s < f /\ Len(d) - f = Len(c) - e
  /\ \A i \in 1..s : d[i] = c[i]
  /\ \A i \in e..Len(c) : d[i - e + f] = c[i]
  /\ \A i \in 1..Len(c) : s < i /\ i < e => ~IsMarker(c[i])
  /\ \A i \in 1..Len(d) : s < i /\ i < f => ~IsMarker(d[i])

\* Where a token of c that is not in between is in d.
Shift(i, s, e, f) == IF i <= s THEN i ELSE i - e + f

\* The same the other way round.
LEMMA MovedBack ==
  ASSUME NEW c \in Readme, NEW d \in Readme, NEW s, NEW e, NEW f, Moved(c, d, s, e, f)
  PROVE  Moved(d, c, s, f, e)
  <1>1. /\ Len(c) \in Nat /\ Len(d) \in Nat /\ s \in 1..Len(c) /\ e \in 1..Len(c) /\ f \in 1..Len(d)
        /\ s < e /\ s < f /\ Len(d) - f = Len(c) - e
        /\ \A i \in 1..s : d[i] = c[i]
        /\ \A i \in e..Len(c) : d[i - e + f] = c[i]
    BY LenProperties DEF Moved, Readme
  <1>2. s \in 1..Len(d) /\ Len(c) - e = Len(d) - f
    BY <1>1
  <1>3. ASSUME NEW i \in f..Len(d) PROVE c[i - f + e] = d[i]
    <2>1. i - f + e \in e..Len(c) /\ (i - f + e) - e + f = i
      BY <1>1
    <2> QED
      BY <1>1, <2>1
  <1> QED
    BY <1>1, <1>2, <1>3 DEF Moved

\* A token outside goes to a token outside, and the order stays.
LEMMA ShiftIs ==
  ASSUME NEW c \in Readme, NEW d \in Readme, NEW s, NEW e, NEW f, Moved(c, d, s, e, f),
         NEW i \in 1..Len(c), i <= s \/ e <= i
  PROVE  LET k == Shift(i, s, e, f)
         IN  /\ k \in 1..Len(d) /\ d[k] = c[i] /\ (k <= s \/ f <= k) /\ Shift(k, s, f, e) = i
             /\ k <= s <=> i <= s
             /\ k < s <=> i < s
             /\ f < k <=> e < i
  <1>1. /\ Len(c) \in Nat /\ Len(d) \in Nat /\ s \in 1..Len(c) /\ e \in 1..Len(c) /\ f \in 1..Len(d)
        /\ s < e /\ s < f /\ Len(d) - f = Len(c) - e
        /\ \A j \in 1..s : d[j] = c[j]
        /\ \A j \in e..Len(c) : d[j - e + f] = c[j]
    BY LenProperties DEF Moved, Readme
  <1>2. CASE i <= s
    <2>1. Shift(i, s, e, f) = i /\ i \in 1..s
      BY <1>1, <1>2 DEF Shift
    <2> QED
      BY <1>1, <1>2, <2>1 DEF Shift
  <1>3. CASE e <= i
    <2>1. Shift(i, s, e, f) = i - e + f /\ i \in e..Len(c) /\ ~(i <= s)
      BY <1>1, <1>3 DEF Shift
    <2>2. d[i - e + f] = c[i]
      BY <1>1, <2>1
    <2>3. ~(i - e + f <= s) /\ (i - e + f) - f + e = i /\ i - e + f \in 1..Len(d)
          /\ (f < i - e + f <=> e < i) /\ f <= i - e + f
      BY <1>1, <1>3
    <2>4. Shift(i - e + f, s, f, e) = i
      BY <2>3 DEF Shift
    <2> QED
      BY <1>1, <2>1, <2>2, <2>3, <2>4
  <1> QED
    BY <1>2, <1>3

\* So places in order stay in order.
LEMMA ShiftKeepsOrder ==
  ASSUME NEW c \in Readme, NEW d \in Readme, NEW s, NEW e, NEW f, Moved(c, d, s, e, f),
         NEW i \in 1..Len(c), i <= s \/ e <= i, NEW j \in 1..Len(c), j <= s \/ e <= j
  PROVE  i < j <=> Shift(i, s, e, f) < Shift(j, s, e, f)
  <1>1. Len(c) \in Nat /\ Len(d) \in Nat /\ s \in 1..Len(c) /\ e \in 1..Len(c) /\ f \in 1..Len(d) /\ s < e /\ s < f
    BY LenProperties DEF Moved, Readme
  <1> QED
    BY <1>1 DEF Shift

\* A marker is outside, so a block of c is a block of d.
LEMMA MovedAt ==
  ASSUME NEW c \in Readme, NEW d \in Readme, NEW s, NEW e, NEW f, Moved(c, d, s, e, f),
         NEW name, NEW u, NEW v, At(c, name, u, v)
  PROVE  /\ At(d, name, Shift(u, s, e, f), Shift(v, s, e, f))
         /\ (u <= s \/ e <= u) /\ (v <= s \/ e <= v)
  <1>1. u \in 1..Len(c) /\ v \in 1..Len(c) /\ u < v /\ Len(c) \in Nat /\ Len(d) \in Nat
        /\ s \in 1..Len(c) /\ e \in 1..Len(c) /\ f \in 1..Len(d)
    BY LenProperties DEF At, Moved, Readme
  <1>2. c[u] = Start(name) /\ c[v] = End(name)
    BY AtTokens
  <1>3. IsMarker(c[u]) /\ IsMarker(c[v])
    BY <1>2, MarkersDiffer
  <1>4. (u <= s \/ e <= u) /\ (v <= s \/ e <= v)
    BY <1>1, <1>3 DEF Moved
  <1> DEFINE x == Shift(u, s, e, f)
             y == Shift(v, s, e, f)
  <1>5. x \in 1..Len(d) /\ y \in 1..Len(d) /\ d[x] = Start(name) /\ d[y] = End(name) /\ x < y
    BY <1>1, <1>2, <1>4, ShiftIs, ShiftKeepsOrder
  <1>6. ASSUME NEW k \in 1..Len(d), d[k] = Start(name) \/ d[k] = End(name)
        PROVE  \E i \in 1..Len(c) : c[i] = d[k] /\ Shift(i, s, e, f) = k
    <2>1. IsMarker(d[k])
      BY <1>6, MarkersDiffer
    <2>2. k <= s \/ f <= k
      BY <1>1, <2>1 DEF Moved
    <2>3. Moved(d, c, s, f, e)
      BY MovedBack
    <2> DEFINE i == Shift(k, s, f, e)
    <2>4. i \in 1..Len(c) /\ c[i] = d[k] /\ Shift(i, s, e, f) = k
      BY <2>2, <2>3, ShiftIs
    <2> QED
      BY <2>4
  <1>7. ASSUME NEW k \in 1..Len(d)
        PROVE  (d[k] = Start(name) => k = x) /\ (d[k] = End(name) => k = y)
    <2>1. CASE d[k] = Start(name)
      <3>1. PICK i \in 1..Len(c) : c[i] = d[k] /\ Shift(i, s, e, f) = k
        BY <1>6, <2>1
      <3>2. i = u
        BY <2>1, <3>1, AtTokens
      <3> QED
        BY <2>1, <3>1, <3>2, MarkersDiffer
    <2>2. CASE d[k] = End(name)
      <3>1. PICK i \in 1..Len(c) : c[i] = d[k] /\ Shift(i, s, e, f) = k
        BY <1>6, <2>2
      <3>2. i = v
        BY <2>2, <3>1, AtTokens
      <3> QED
        BY <2>2, <3>1, <3>2, MarkersDiffer
    <2> QED
      BY <2>1, <2>2
  <1> HIDE DEF x, y
  <1>8. At(d, name, x, y)
    BY <1>5, <1>7, AtFromTokens
  <1> QED
    BY <1>4, <1>8 DEF x, y

\* Flatness, in terms of At.
LEMMA FlatIs ==
  ASSUME NEW c \in Readme
  PROVE  Flat(c) <=>
           \A name \in ToSet(Names) : \A u, v :
             At(c, name, u, v) => \A i \in 1..Len(c) : u < i /\ i < v => ~IsMarker(c[i])
  <1>1. DOMAIN c = 1..Len(c)
    BY LenProperties DEF Readme
  <1>2. ASSUME Flat(c), NEW name \in ToSet(Names), NEW u, NEW v, At(c, name, u, v),
               NEW i \in 1..Len(c), u < i, i < v
        PROVE  ~IsMarker(c[i])
    <2>1. IsMarked(c, name) /\ u = StartIndex(c, name) /\ v = EndIndex(c, name)
      BY <1>2, MarkedAt
    <2> QED
      BY <1>1, <1>2, <2>1 DEF Flat
  <1>3. ASSUME \A name \in ToSet(Names) : \A u, v :
                 At(c, name, u, v) => \A i \in 1..Len(c) : u < i /\ i < v => ~IsMarker(c[i])
        PROVE  Flat(c)
    <2>1. \A name \in ToSet(Names) : IsMarked(c, name) => At(c, name, StartIndex(c, name), EndIndex(c, name))
      BY MarkedAt
    <2> QED
      BY <1>1, <1>3, <2>1 DEF Flat
  <1> QED
    BY <1>2, <1>3

\* So flat texts stay flat.
LEMMA MovedFlat ==
  ASSUME NEW c \in Readme, NEW d \in Readme, NEW s, NEW e, NEW f, Moved(c, d, s, e, f), Flat(c)
  PROVE  Flat(d)
  <1>1. Moved(d, c, s, f, e)
    BY MovedBack
  <1>2. ASSUME NEW name \in ToSet(Names), NEW u, NEW v, At(d, name, u, v),
               NEW i \in 1..Len(d), u < i, i < v
        PROVE  ~IsMarker(d[i])
    <2>0. Len(d) \in Nat /\ s \in 1..Len(d) /\ f \in 1..Len(d) /\ u \in 1..Len(d) /\ v \in 1..Len(d)
      BY <1>1, <1>2, LenProperties DEF Moved, At, Readme
    <2>1. CASE s < i /\ i < f
      BY <2>1 DEF Moved
    <2>2. CASE i <= s \/ f <= i
      <3>1. /\ At(c, name, Shift(u, s, f, e), Shift(v, s, f, e))
            /\ (u <= s \/ f <= u) /\ (v <= s \/ f <= v)
        BY <1>1, <1>2, MovedAt
      <3>2. Shift(u, s, f, e) < Shift(i, s, f, e) /\ Shift(i, s, f, e) < Shift(v, s, f, e)
        BY <1>1, <1>2, <2>0, <2>2, <3>1, ShiftKeepsOrder
      <3>3. Shift(i, s, f, e) \in 1..Len(c) /\ c[Shift(i, s, f, e)] = d[i]
        BY <1>1, <2>2, ShiftIs
      <3>4. ~IsMarker(c[Shift(i, s, f, e)])
        BY <3>1, <3>2, <3>3, FlatIs
      <3> QED
        BY <3>3, <3>4
    <2> QED
      BY <2>0, <2>1, <2>2
  <1> QED
    BY <1>2, FlatIs

-----------------------------------------------------------------------------
(* A round on a flat README: what it keeps.                                *)

\* What the blocks of a flat root README hold between their markers.
LEMMA CanonicalIsFlat ==
  ASSUME NEW root \in Readme, HasBlocks(root), Flat(root), NEW name \in ToSet(Names)
  PROVE  \A i \in 1..Len(Canonical(root)[name]) :
           1 < i /\ i < Len(Canonical(root)[name]) => ~IsMarker(Canonical(root)[name][i])
  <1>1. CASE name = "banner"
    <2>1. Canonical(root)[name] = BannerBlock
      BY <1>1, CanonicalIs
    <2>2. Len(BannerBlock) = 3 /\ ~IsMarker(BannerBlock[2])
      BY DEF BannerBlock, StaticBanner, Text, IsMarker
    <2> QED
      <3>1. \A i \in 1..3 : 1 < i /\ i < 3 => i = 2
        OBVIOUS
      <3> HIDE DEF BannerBlock
      <3> QED
        BY <2>1, <2>2, <3>1
  <1>2. CASE name # "banner"
    <2>1. PICK s, e : At(root, name, s, e) /\ Canonical(root)[name] = SubSeq(root, s, e)
      BY <1>2, CanonicalIs
    <2>2. s \in 1..Len(root) /\ e \in 1..Len(root) /\ s <= e /\ Len(root) \in Nat
      BY <2>1, LenProperties DEF At, Readme
    <2>3. Len(SubSeq(root, s, e)) = e - s + 1 /\ \A i \in 1..(e - s + 1) : SubSeq(root, s, e)[i] = root[s + i - 1]
      BY <2>2, BlockIs
    <2>4. \A i \in 1..(e - s + 1) : 1 < i /\ i < e - s + 1 => ~IsMarker(root[s + i - 1])
      <3>1. \A k \in 1..Len(root) : s < k /\ k < e => ~IsMarker(root[k])
        BY <2>1, FlatIs
      <3>2. \A i \in 1..(e - s + 1) : s + i - 1 \in 1..Len(root)
              /\ (1 < i /\ i < e - s + 1 => s < s + i - 1 /\ s + i - 1 < e)
        BY <2>2
      <3> QED
        BY <3>1, <3>2
    <2> QED
      BY <2>1, <2>3, <2>4
  <1> QED
    BY <1>1, <1>2

\* A block put in the place of another moves what comes after it.
LEMMA SpliceMoves ==
  ASSUME NEW c \in Readme, Flat(c), NEW m \in ToSet(Names), NEW s, NEW e, At(c, m, s, e),
         NEW b, IsBlock(b, m), \A i \in 1..Len(b) : 1 < i /\ i < Len(b) => ~IsMarker(b[i])
  PROVE  Moved(c, Splice(c, s, e, b), s, e, s + Len(b) - 1)
  <1> DEFINE d == Splice(c, s, e, b)
             f == s + Len(b) - 1
  <1>1. s \in 1..Len(c) /\ e \in 1..Len(c) /\ s < e /\ s <= e /\ Len(c) \in Nat
    BY LenProperties DEF At, Readme
  <1>2. b \in Readme /\ Len(b) \in Nat /\ Len(b) > 1
    BY LenProperties DEF IsBlock, At, Readme
  <1>3. /\ Len(d) = Len(c) - (e - s + 1) + Len(b)
        /\ \A i \in 1..Len(d) : d[i] = IF i < s THEN c[i] ELSE IF i < s + Len(b) THEN b[i - s + 1]
                                        ELSE c[i - Len(b) + (e - s + 1)]
    BY <1>1, <1>2, SpliceIs
  <1> HIDE DEF d
  <1>4. f \in 1..Len(d) /\ s < f /\ Len(d) - f = Len(c) - e
    BY <1>1, <1>2, <1>3
  <1>5. b[1] = Start(m) /\ b[Len(b)] = End(m) /\ c[s] = Start(m) /\ c[e] = End(m)
    BY AtTokens DEF IsBlock
  <1>6. ASSUME NEW i \in 1..s PROVE d[i] = c[i]
    <2>1. CASE i < s
      <3>1. i \in 1..Len(d)
        BY <1>1, <1>4, <2>1
      <3> QED
        BY <1>3, <2>1, <3>1
    <2>2. CASE i = s
      <3>1. d[s] = b[s - s + 1] /\ s - s + 1 = 1
        BY <1>1, <1>2, <1>3, <1>4
      <3> QED
        BY <1>5, <2>2, <3>1
    <2> QED
      BY <1>1, <2>1, <2>2
  <1>7. ASSUME NEW i \in e..Len(c) PROVE d[i - e + f] = c[i]
    <2>1. CASE i = e
      <3>1. i - e + f = f /\ f - s + 1 = Len(b) /\ ~(f < s) /\ f < s + Len(b)
        BY <1>1, <1>2, <2>1
      <3>2. d[f] = b[f - s + 1]
        BY <1>3, <1>4, <3>1
      <3> QED
        BY <1>5, <2>1, <3>1, <3>2
    <2>2. CASE e < i
      <3> DEFINE k == i - e + f
      <3>1. k \in 1..Len(d) /\ ~(k < s) /\ ~(k < s + Len(b)) /\ k - Len(b) + (e - s + 1) = i
        BY <1>1, <1>2, <1>3, <2>2
      <3> HIDE DEF k
      <3>2. d[k] = c[i]
        BY <1>3, <3>1
      <3> QED
        BY <3>2 DEF k
    <2> QED
      BY <1>1, <2>1, <2>2
  <1>8. \A i \in 1..Len(c) : s < i /\ i < e => ~IsMarker(c[i])
    BY FlatIs
  <1>9. ASSUME NEW i \in 1..Len(d), s < i, i < f PROVE ~IsMarker(d[i])
    <2>1. i - s + 1 \in 1..Len(b) /\ 1 < i - s + 1 /\ i - s + 1 < Len(b) /\ ~(i < s) /\ i < s + Len(b)
      BY <1>1, <1>2, <1>9
    <2>2. d[i] = b[i - s + 1]
      BY <1>3, <2>1
    <2> QED
      BY <2>1, <2>2
  <1> HIDE DEF f
  <1>10. Moved(c, d, s, e, f)
    BY <1>1, <1>4, <1>6, <1>7, <1>8, <1>9 DEF Moved
  <1> QED
    BY <1>10 DEF d, f

\* The block of that name in c.
BlockOf(c, name, b) == \E u, v : At(c, name, u, v) /\ SubSeq(c, u, v) = b

\* The other blocks of a flat README are before it or after it, and go along
\* as they are.
LEMMA OtherBlocksKept ==
  ASSUME NEW c \in Readme, Flat(c), NEW d \in Readme, NEW m \in ToSet(Names), NEW s, NEW e,
         At(c, m, s, e), NEW f, Moved(c, d, s, e, f),
         NEW name \in ToSet(Names), name # m, NEW b, BlockOf(c, name, b)
  PROVE  BlockOf(d, name, b)
  <1>0. PICK u, v : At(c, name, u, v) /\ SubSeq(c, u, v) = b
    BY DEF BlockOf
  <1> DEFINE x == Shift(u, s, e, f)
             y == Shift(v, s, e, f)
  <1>1. /\ Len(c) \in Nat /\ Len(d) \in Nat /\ s \in 1..Len(c) /\ e \in 1..Len(c) /\ f \in 1..Len(d)
        /\ u \in 1..Len(c) /\ v \in 1..Len(c) /\ u < v /\ s < e /\ s < f
    BY <1>0, LenProperties DEF At, Moved, Readme
  <1>2. At(d, name, x, y) /\ (u <= s \/ e <= u) /\ (v <= s \/ e <= v)
    <2>1. At(c, name, u, v)
      BY <1>0
    <2> QED
      BY <2>1, MovedAt
  <1>3. x \in 1..Len(d) /\ y \in 1..Len(d) /\ x < y
    BY <1>2 DEF At
  <1>4. c[s] = Start(m) /\ c[u] = Start(name) /\ c[e] = End(m) /\ c[v] = End(name)
    BY <1>0, AtTokens
  <1>5. u # s /\ v # e /\ u # e /\ v # s
    BY <1>4, MarkersDiffer
  <1>6. v < s \/ e < u
    <2>1. SUFFICES ASSUME u < s, e < v PROVE FALSE
      BY <1>1, <1>2, <1>5
    <2>2. ~IsMarker(c[s])
      <3>1. At(c, name, u, v)
        BY <1>0
      <3> QED
        BY <1>1, <2>1, <3>1, FlatIs
    <2> QED
      BY <1>4, <2>2, MarkersDiffer
  <1>7. ASSUME NEW i \in u..v
        PROVE  i \in 1..Len(c) /\ (i <= s \/ e <= i) /\ Shift(i, s, e, f) = x + (i - u) /\ y - x = v - u
    BY <1>1, <1>6 DEF Shift
  <1>8. y - x = v - u
    BY <1>1, <1>7
  <1> HIDE DEF x, y
  <1>9. /\ SubSeq(c, u, v) \in Readme /\ Len(SubSeq(c, u, v)) = v - u + 1
        /\ \A i \in 1..(v - u + 1) : SubSeq(c, u, v)[i] = c[u + i - 1]
    <2>1. u <= v
      BY <1>1
    <2> QED
      BY <1>1, <2>1, BlockIs, Zenon
  <1>10. /\ SubSeq(d, x, y) \in Readme /\ Len(SubSeq(d, x, y)) = y - x + 1
         /\ \A i \in 1..(y - x + 1) : SubSeq(d, x, y)[i] = d[x + i - 1]
    <2>1. x <= y
      BY <1>1, <1>3
    <2> QED
      BY <1>3, <2>1, BlockIs, Zenon
  <1>11. ASSUME NEW i \in 1..(v - u + 1) PROVE SubSeq(d, x, y)[i] = SubSeq(c, u, v)[i]
    <2>1. u + i - 1 \in u..v /\ x + ((u + i - 1) - u) = x + i - 1
      BY <1>1, <1>3
    <2>2. u + i - 1 \in 1..Len(c) /\ (u + i - 1 <= s \/ e <= u + i - 1) /\ Shift(u + i - 1, s, e, f) = x + i - 1
      BY <1>7, <2>1
    <2>3. d[x + i - 1] = c[u + i - 1]
      BY <2>2, ShiftIs
    <2> QED
      BY <1>8, <1>9, <1>10, <2>3
  <1>12. SubSeq(d, x, y) = SubSeq(c, u, v)
    BY <1>8, <1>9, <1>10, <1>11, SameTokens
  <1> QED
    BY <1>0, <1>2, <1>12 DEF BlockOf

-----------------------------------------------------------------------------
(* The text of its own.                                                    *)

\* To be in a block, in terms of At.
LEMMA InBlockIs ==
  ASSUME NEW c \in Readme, NEW i \in 1..Len(c)
  PROVE  InBlock(c, i) <=> \E name \in ToSet(Names) : \E u, v : At(c, name, u, v) /\ u <= i /\ i <= v
  <1>1. ASSUME InBlock(c, i)
        PROVE  \E name \in ToSet(Names) : \E u, v : At(c, name, u, v) /\ u <= i /\ i <= v
    <2>1. PICK name \in ToSet(Names) :
            IsMarked(c, name) /\ i \in StartIndex(c, name)..EndIndex(c, name)
      BY <1>1 DEF InBlock
    <2> DEFINE u == StartIndex(c, name)
               v == EndIndex(c, name)
    <2>2. At(c, name, u, v)
      BY <2>1, MarkedAt
    <2>3. u \in 1..Len(c) /\ v \in 1..Len(c) /\ Len(c) \in Nat
      BY <2>2, LenProperties DEF At, Readme
    <2>4. u <= i /\ i <= v
      BY <2>1, <2>3
    <2> QED
      BY <2>2, <2>4
  <1>2. ASSUME NEW name \in ToSet(Names), NEW u, NEW v, At(c, name, u, v), u <= i, i <= v
        PROVE  InBlock(c, i)
    <2>1. IsMarked(c, name) /\ u = StartIndex(c, name) /\ v = EndIndex(c, name)
      BY <1>2, MarkedAt
    <2>2. i \in u..v
      BY <1>2, LenProperties DEF At, Readme
    <2> QED
      BY <2>1, <2>2 DEF InBlock
  <1> QED
    BY <1>1, <1>2

\* The places of what a README says outside its blocks.
OwnPlaces(c) == {i \in DOMAIN c : ~InBlock(c, i)}

\* What is outside the blocks goes to what is outside the blocks.
LEMMA OwnMoves ==
  ASSUME NEW c \in Readme, NEW d \in Readme, NEW m \in ToSet(Names), NEW s, NEW e, NEW f,
         Moved(c, d, s, e, f), At(c, m, s, e), NEW i \in OwnPlaces(c)
  PROVE  /\ i \in 1..Len(c) /\ (i <= s \/ e <= i)
         /\ Shift(i, s, e, f) \in OwnPlaces(d)
  <1>1. DOMAIN c = 1..Len(c) /\ DOMAIN d = 1..Len(d) /\ Len(c) \in Nat /\ Len(d) \in Nat
    BY LenProperties DEF Readme
  <1>2. i \in 1..Len(c) /\ ~InBlock(c, i)
    BY <1>1 DEF OwnPlaces
  <1>3. s \in 1..Len(c) /\ e \in 1..Len(c) /\ f \in 1..Len(d)
    BY DEF Moved
  <1>4. i <= s \/ e <= i
    <2>1. ~(s <= i /\ i <= e)
      BY <1>2, InBlockIs
    <2> QED
      BY <1>1, <1>2, <1>3, <2>1
  <1> DEFINE k == Shift(i, s, e, f)
  <1>5. k \in 1..Len(d) /\ (k <= s \/ f <= k) /\ Shift(k, s, f, e) = i
    BY <1>2, <1>4, ShiftIs
  <1> HIDE DEF k
  <1>6. Moved(d, c, s, f, e)
    BY MovedBack
  <1>7. ASSUME InBlock(d, k) PROVE FALSE
    <2>1. PICK name \in ToSet(Names) : \E u, v : At(d, name, u, v) /\ u <= k /\ k <= v
      BY <1>5, <1>7, InBlockIs
    <2>2. PICK u, v : At(d, name, u, v) /\ u <= k /\ k <= v
      BY <2>1
    <2>3. u \in 1..Len(d) /\ v \in 1..Len(d)
      BY <2>2 DEF At
    <2>4. /\ At(c, name, Shift(u, s, f, e), Shift(v, s, f, e))
          /\ (u <= s \/ f <= u) /\ (v <= s \/ f <= v)
      BY <1>6, <2>2, MovedAt
    <2>5. Shift(u, s, f, e) <= i /\ i <= Shift(v, s, f, e)
      <3>1. (k < u <=> i < Shift(u, s, f, e)) /\ (v < k <=> Shift(v, s, f, e) < i)
        BY <1>5, <1>6, <2>3, <2>4, ShiftKeepsOrder
      <3>2. Shift(u, s, f, e) \in 1..Len(c) /\ Shift(v, s, f, e) \in 1..Len(c)
        BY <2>4 DEF At
      <3> QED
        BY <1>1, <1>2, <1>5, <2>2, <2>3, <3>1, <3>2
    <2> QED
      BY <1>2, <2>4, <2>5, InBlockIs
  <1>8. k \in OwnPlaces(d)
    BY <1>1, <1>5, <1>7 DEF OwnPlaces
  <1> QED
    BY <1>2, <1>4, <1>8 DEF k

-----------------------------------------------------------------------------
(* The n-th member of a finite set of numbers.                             *)

UpToMember(D, i) == {j \in D : j <= i}
Nth(D, n) == CHOOSE i \in D : Cardinality(UpToMember(D, i)) = n

\* The later member has the larger count.
LEMMA CountsGrow ==
  ASSUME NEW D \in SUBSET Nat, IsFiniteSet(D)
  PROVE  /\ Cardinality(D) \in Nat
         /\ \A i \in D : IsFiniteSet(UpToMember(D, i)) /\ Cardinality(UpToMember(D, i)) \in 1..Cardinality(D)
         /\ \A i, j \in D : i < j => Cardinality(UpToMember(D, i)) < Cardinality(UpToMember(D, j))
         /\ \A i, j \in D : Cardinality(UpToMember(D, i)) = Cardinality(UpToMember(D, j)) => i = j
  <1>1. Cardinality(D) \in Nat
    BY FS_CardinalityType
  <1>2. ASSUME NEW i \in D
        PROVE  IsFiniteSet(UpToMember(D, i)) /\ Cardinality(UpToMember(D, i)) \in 1..Cardinality(D)
    <2>1. UpToMember(D, i) \in SUBSET D /\ i \in UpToMember(D, i)
      BY DEF UpToMember
    <2>2. IsFiniteSet(UpToMember(D, i)) /\ Cardinality(UpToMember(D, i)) <= Cardinality(D)
      BY <2>1, FS_Subset
    <2>3. Cardinality(UpToMember(D, i)) \in Nat
      BY <2>2, FS_CardinalityType
    <2>4. Cardinality(UpToMember(D, i)) # 0
      BY <2>1, <2>2, FS_EmptySet
    <2> QED
      BY <1>1, <2>2, <2>3, <2>4
  <1>3. ASSUME NEW i \in D, NEW j \in D, i < j
        PROVE  Cardinality(UpToMember(D, i)) < Cardinality(UpToMember(D, j))
    <2>1. i \in Nat /\ j \in Nat
      OBVIOUS
    <2>2. UpToMember(D, i) \in SUBSET UpToMember(D, j) /\ j \in UpToMember(D, j) /\ j \notin UpToMember(D, i)
      <3>1. ~(j <= i) /\ j <= j /\ \A k \in D : k <= i => k <= j
        BY <1>3, <2>1
      <3> QED
        BY <3>1, Zenon DEF UpToMember
    <2>3. Cardinality(UpToMember(D, i)) <= Cardinality(UpToMember(D, j))
          /\ Cardinality(UpToMember(D, j)) # Cardinality(UpToMember(D, i))
      BY <1>2, <2>2, FS_Subset
    <2>4. Cardinality(UpToMember(D, i)) \in Int /\ Cardinality(UpToMember(D, j)) \in Int
      BY <1>1, <1>2
    <2> QED
      BY <2>3, <2>4
  <1>4. ASSUME NEW i \in D, NEW j \in D, Cardinality(UpToMember(D, i)) = Cardinality(UpToMember(D, j))
        PROVE  i = j
    <2>1. i \in Nat /\ j \in Nat /\ Cardinality(UpToMember(D, i)) \in Int /\ Cardinality(UpToMember(D, j)) \in Int
      BY <1>1, <1>2
    <2>2. ~(i < j) /\ ~(j < i)
      BY <1>3, <1>4, <2>1
    <2> QED
      BY <2>1, <2>2
  <1> QED
    BY <1>1, <1>2, <1>3, <1>4

\* There is an n-th member, and each is the n-th for one n.
LEMMA NthIs ==
  ASSUME NEW D \in SUBSET Nat, IsFiniteSet(D), NEW n \in 1..Cardinality(D)
  PROVE  Nth(D, n) \in D /\ Cardinality(UpToMember(D, Nth(D, n))) = n
  <1> DEFINE N == Cardinality(D)
             f == [i \in D |-> Cardinality(UpToMember(D, i))]
  <1>1. N \in Nat
    BY CountsGrow
  <1>2. IsFiniteSet(1..N) /\ Cardinality(1..N) = N
    <2>1. 1 \in Int /\ N \in Int
      BY <1>1
    <2>2. IsFiniteSet(1..N) /\ Cardinality(1..N) = IF 1 > N THEN 0 ELSE N - 1 + 1
      BY <2>1, FS_Interval, Zenon
    <2> QED
      BY <1>1, <2>2
  <1>3. f \in [D -> 1..N]
    BY CountsGrow
  <1>4. \A i, j \in D : f[i] = f[j] => i = j
    BY CountsGrow
  <1>5. f \in Injection(D, 1..N)
    <2> HIDE DEF f, N
    <2> QED
      BY <1>3, <1>4 DEF Injection, IsInjective
  <1>6. f \in Surjection(D, 1..N)
    <2> HIDE DEF f
    <2> QED
      BY <1>2, <1>5, FS_Injection
  <1>7. \E i \in D : f[i] = n
    <2> HIDE DEF f
    <2> QED
      BY <1>6 DEF Surjection
  <1>8. \E i \in D : Cardinality(UpToMember(D, i)) = n
    BY <1>7
  <1> QED
    BY <1>8 DEF Nth

\* A map onto a set that keeps the order takes the n-th to the n-th.
LEMMA SamePlaces ==
  ASSUME NEW D \in SUBSET Nat, IsFiniteSet(D), NEW E \in SUBSET Nat, NEW g \in [D -> E],
         \A i, j \in D : i < j <=> g[i] < g[j], \A k \in E : \E i \in D : g[i] = k
  PROVE  /\ Cardinality(E) = Cardinality(D)
         /\ \A n \in 1..Cardinality(D) : Nth(D, n) \in D /\ g[Nth(D, n)] = Nth(E, n)
  <1>1. ASSUME NEW i \in D, NEW j \in D PROVE /\ g[i] = g[j] => i = j
                                              /\ i <= j <=> g[i] <= g[j]
    <2>1. i \in Nat /\ j \in Nat /\ g[i] \in Nat /\ g[j] \in Nat
      OBVIOUS
    <2>2. (i < j <=> g[i] < g[j]) /\ (j < i <=> g[j] < g[i])
      OBVIOUS
    <2> QED
      BY <2>1, <2>2
  <1>2. g \in Bijection(D, E)
    <2>1. g \in Injection(D, E)
      BY <1>1 DEF Injection, IsInjective
    <2>2. g \in Surjection(D, E)
      BY DEF Surjection
    <2> QED
      BY <2>1, <2>2 DEF Bijection
  <1>3. IsFiniteSet(E) /\ Cardinality(E) = Cardinality(D)
    <2>1. ExistsBijection(D, E)
      BY <1>2 DEF ExistsBijection
    <2> QED
      BY <2>1, FS_Bijection
  <1>4. ASSUME NEW i \in D PROVE Cardinality(UpToMember(E, g[i])) = Cardinality(UpToMember(D, i))
    <2> DEFINE S == UpToMember(D, i)
               T == UpToMember(E, g[i])
               h == [j \in S |-> g[j]]
    <2>1. S \subseteq D
      BY DEF UpToMember
    <2>2. \A j \in S : g[j] \in T
      BY <1>1 DEF UpToMember
    <2>3. \A k \in T : \E j \in S : g[j] = k
      <3>1. ASSUME NEW k \in T PROVE \E j \in S : g[j] = k
        <4>1. k \in E /\ k <= g[i]
          BY DEF UpToMember
        <4>2. PICK j \in D : g[j] = k
          BY <4>1
        <4>3. j \in S
          BY <1>1, <4>1, <4>2 DEF UpToMember
        <4> QED
          BY <4>2, <4>3
      <3> QED
        BY <3>1
    <2>4. IsFiniteSet(S)
      BY CountsGrow
    <2> HIDE DEF S, T
    <2>5. h \in Injection(S, T)
      BY <1>1, <2>1, <2>2 DEF Injection, IsInjective
    <2>6. h \in Surjection(S, T)
      BY <2>2, <2>3 DEF Surjection
    <2>7. ExistsBijection(S, T)
      <3> HIDE DEF h
      <3> QED
        BY <2>5, <2>6 DEF ExistsBijection, Bijection
    <2>8. Cardinality(T) = Cardinality(S)
      BY <2>4, <2>7, FS_Bijection
    <2> QED
      BY <2>8 DEF S, T
  <1>5. ASSUME NEW n \in 1..Cardinality(D) PROVE Nth(D, n) \in D /\ g[Nth(D, n)] = Nth(E, n)
    <2>1. Nth(D, n) \in D /\ Cardinality(UpToMember(D, Nth(D, n))) = n
      BY NthIs
    <2>2. Nth(E, n) \in E /\ Cardinality(UpToMember(E, Nth(E, n))) = n
      BY <1>3, NthIs
    <2>3. g[Nth(D, n)] \in E /\ Cardinality(UpToMember(E, g[Nth(D, n)])) = n
      BY <1>4, <2>1
    <2>4. \A i, j \in E : Cardinality(UpToMember(E, i)) = Cardinality(UpToMember(E, j)) => i = j
      BY <1>3, CountsGrow
    <2>5. g[Nth(D, n)] = Nth(E, n)
      BY <2>2, <2>3, <2>4, Zenon
    <2> QED
      BY <2>1, <2>5
  <1> QED
    BY <1>3, <1>5

\* A block put in the place of another leaves what is outside the blocks.
LEMMA OwnTextMoved ==
  ASSUME NEW c \in Readme, NEW d \in Readme, NEW m \in ToSet(Names), NEW s, NEW e, NEW f,
         Moved(c, d, s, e, f), At(c, m, s, e), At(d, m, s, f)
  PROVE  OwnText(d) = OwnText(c)
  <1> DEFINE C == OwnPlaces(c)
             D == OwnPlaces(d)
             g == [i \in C |-> Shift(i, s, e, f)]
  <1>1. DOMAIN c = 1..Len(c) /\ DOMAIN d = 1..Len(d) /\ Len(c) \in Nat /\ Len(d) \in Nat
    BY LenProperties DEF Readme
  <1>2. C \in SUBSET Nat /\ D \in SUBSET Nat /\ C \subseteq 1..Len(c)
    BY <1>1 DEF OwnPlaces
  <1>3. IsFiniteSet(C)
    <2>1. 1 \in Int /\ Len(c) \in Int
      BY <1>1
    <2>2. IsFiniteSet(1..Len(c))
      BY <2>1, FS_Interval
    <2> QED
      BY <1>2, <2>2, FS_Subset
  <1>4. \A i \in C : i \in 1..Len(c) /\ (i <= s \/ e <= i) /\ Shift(i, s, e, f) \in D
    BY OwnMoves
  <1>5. \A k \in D : k \in 1..Len(d) /\ (k <= s \/ f <= k) /\ Shift(k, s, f, e) \in C
    <2>1. Moved(d, c, s, f, e)
      BY MovedBack
    <2> QED
      BY <2>1, OwnMoves
  <1> HIDE DEF C, D
  <1>6. g \in [C -> D]
    BY <1>4
  <1>7. \A i, j \in C : i < j <=> g[i] < g[j]
    BY <1>4, ShiftKeepsOrder
  <1>8. ASSUME NEW k \in D PROVE \E i \in C : g[i] = k
    <2> DEFINE i == Shift(k, s, f, e)
    <2>1. Moved(d, c, s, f, e)
      BY MovedBack
    <2>2. i \in C
      BY <1>5
    <2>3. Shift(i, s, e, f) = k
      BY <1>5, <2>1, ShiftIs
    <2> QED
      BY <2>2, <2>3
  <1>9. \A i \in C : d[g[i]] = c[i]
    BY <1>4, ShiftIs
  <1> HIDE DEF g
  <1>10. /\ Cardinality(D) = Cardinality(C)
         /\ \A n \in 1..Cardinality(C) : Nth(C, n) \in C /\ g[Nth(C, n)] = Nth(D, n)
    BY <1>2, <1>3, <1>6, <1>7, <1>8, SamePlaces
  <1>11. \A n \in 1..Cardinality(C) : d[Nth(D, n)] = c[Nth(C, n)]
    BY <1>9, <1>10
  <1>12. OwnText(c) = [n \in 1..Cardinality(C) |-> c[Nth(C, n)]]
    BY DEF OwnText, C, OwnPlaces, Nth, UpToMember
  <1>13. OwnText(d) = [n \in 1..Cardinality(D) |-> d[Nth(D, n)]]
    BY DEF OwnText, D, OwnPlaces, Nth, UpToMember
  <1> QED
    BY <1>10, <1>11, <1>12, <1>13

-----------------------------------------------------------------------------
(* All rounds on a flat README.                                            *)

\* The block of the name is there, as it is in the root.
Shares(c, root, name) == BlockOf(c, name, Canonical(root)[name])

\* One round on a flat README.
LEMMA FlatRound ==
  ASSUME NEW c \in Readme, NEW root \in Readme, HasBlocks(root), Flat(c), Flat(root),
         NEW m \in ToSet(Names), NEW s, NEW e, At(c, m, s, e)
  PROVE  LET d == Splice(c, s, e, Canonical(root)[m])
         IN  /\ d \in Readme /\ Flat(d) /\ OwnText(d) = OwnText(c)
             /\ Shares(d, root, m)
             /\ \A name \in ToSet(Names) : Shares(c, root, name) => Shares(d, root, name)
  <1> DEFINE b == Canonical(root)[m]
             d == Splice(c, s, e, b)
             f == s + Len(b) - 1
  <1>1. IsBlock(b, m) /\ \A i \in 1..Len(b) : 1 < i /\ i < Len(b) => ~IsMarker(b[i])
    BY CanonicalIs, CanonicalIsFlat
  <1> HIDE DEF b
  <1>2. d \in Readme /\ At(d, m, s, f) /\ SubSeq(d, s, f) = b
    BY <1>1, SpliceBlock
  <1>3. Moved(c, d, s, e, f)
    BY <1>1, SpliceMoves
  <1> HIDE DEF d, f
  <1>4. Flat(d)
    BY <1>2, <1>3, MovedFlat
  <1>5. OwnText(d) = OwnText(c)
    BY <1>2, <1>3, OwnTextMoved
  <1>6. Shares(d, root, m)
    BY <1>2 DEF Shares, BlockOf, b
  <1>7. d \in Readme
    BY <1>2
  <1>8. ASSUME NEW name \in ToSet(Names), Shares(c, root, name) PROVE Shares(d, root, name)
    <2>1. CASE name = m
      BY <1>6, <2>1
    <2>2. CASE name # m
      <3>1. BlockOf(c, name, Canonical(root)[name])
        BY <1>8 DEF Shares
      <3>2. BlockOf(d, name, Canonical(root)[name])
        BY <1>3, <1>7, <2>2, <3>1, OtherBlocksKept
      <3> QED
        BY <3>2 DEF Shares
    <2> QED
      BY <2>1, <2>2
  <1> QED
    BY <1>2, <1>4, <1>5, <1>6, <1>8 DEF d, b

\* A flat README that is not refused ends up with every shared block, and
\* with its own text.
LEMMA FlatUpdated ==
  ASSUME NEW c \in Readme, NEW root \in Readme, HasBlocks(root), Flat(c), Flat(root),
         Updated(c, Canonical(root)) # Refused
  PROVE  LET d == Updated(c, Canonical(root))
         IN  d \in Readme /\ Flat(d) /\ OwnText(d) = OwnText(c) /\ SharesBlocks(d, root)
  <1> DEFINE N == Len(Names)
             D(n) == Draft(c, root, n)
             S == {n \in 0..N : /\ Flat(D(n)) /\ OwnText(D(n)) = OwnText(c)
                                /\ \A k \in 1..n : Shares(D(n), root, Names[k])}
  <1>1. N \in Nat /\ N \in 0..N /\ \A k \in 1..N : Names[k] \in ToSet(Names)
    BY NamesAre
  <1>2. Updated(c, Canonical(root)) = D(N) /\ D(N) # Refused
    BY UpdatedIs
  <1>3. \A n \in 0..N : D(n) \in Readme
    BY <1>2, NeverRefused
  <1>4. D(0) = c
    BY DraftsUnfold DEF Draft
  <1>5. \A n \in 1..N : \E s, e :
          At(D(n - 1), Names[n], s, e) /\ D(n) = Splice(D(n - 1), s, e, Canonical(root)[Names[n]])
    <2>1. ASSUME NEW n \in 1..N
          PROVE  \E s, e : At(D(n - 1), Names[n], s, e) /\ D(n) = Splice(D(n - 1), s, e, Canonical(root)[Names[n]])
      <3>1. n \in 0..N
        BY <1>1
      <3>2. D(n) # Refused
        BY <1>3, <3>1, RefusedIsNone
      <3> QED
        BY <3>2, RoundIs
    <2> QED
      BY <2>1
  <1> HIDE DEF D
  <1>6. 0 \in S
    BY <1>1, <1>4
  <1>7. ASSUME NEW n \in 1..N, n - 1 \in S PROVE n \in S
    <2>1. PICK s, e : At(D(n - 1), Names[n], s, e) /\ D(n) = Splice(D(n - 1), s, e, Canonical(root)[Names[n]])
      BY <1>5
    <2>2. /\ n \in 0..N /\ n - 1 \in 0..N /\ Names[n] \in ToSet(Names)
          /\ \A k \in 1..n : k = n \/ k \in 1..(n - 1)
      BY <1>1
    <2>3. /\ Flat(D(n - 1)) /\ OwnText(D(n - 1)) = OwnText(c)
          /\ \A k \in 1..(n - 1) : Shares(D(n - 1), root, Names[k])
      BY <1>7
    <2> DEFINE new == Splice(D(n - 1), s, e, Canonical(root)[Names[n]])
    <2>4. D(n - 1) \in Readme
      BY <1>3, <2>2
    <2>5. At(D(n - 1), Names[n], s, e)
      BY <2>1
    <2>6. /\ Flat(new) /\ OwnText(new) = OwnText(D(n - 1))
          /\ Shares(new, root, Names[n])
          /\ \A name \in ToSet(Names) : Shares(D(n - 1), root, name) => Shares(new, root, name)
      BY <2>2, <2>3, <2>4, <2>5, FlatRound
    <2>7. D(n) = new
      BY <2>1
    <2> HIDE DEF new
    <2>8. ASSUME NEW k \in 1..n PROVE Shares(D(n), root, Names[k])
      <3>1. CASE k = n
        BY <2>6, <2>7, <3>1
      <3>2. CASE k \in 1..(n - 1)
        <4>1. k \in 1..N
          BY <1>1
        <4> QED
          BY <1>1, <2>3, <2>6, <2>7, <3>2, <4>1
      <3> QED
        BY <2>2, <3>1, <3>2
    <2> QED
      BY <2>2, <2>3, <2>6, <2>7, <2>8
  <1>8. N \in S
    <2> HIDE DEF S
    <2> QED
      BY <1>1, <1>6, <1>7, UpTo
  <1>9. SharesBlocks(D(N), root)
    <2>1. ASSUME NEW name \in ToSet(Names)
          PROVE  IsMarked(D(N), name) /\ MarkedBlock(D(N), name) = Canonical(root)[name]
      <3>1. PICK k \in 1..N : name = Names[k]
        BY NamesAre
      <3>2. Shares(D(N), root, name)
        BY <1>8, <3>1
      <3>3. PICK u, v : At(D(N), name, u, v) /\ SubSeq(D(N), u, v) = Canonical(root)[name]
        BY <3>2 DEF Shares, BlockOf
      <3>4. IsMarked(D(N), name) /\ u = StartIndex(D(N), name) /\ v = EndIndex(D(N), name)
        BY <1>1, <1>3, <3>3, MarkedAt
      <3> QED
        BY <3>3, <3>4 DEF MarkedBlock
    <2> QED
      BY <2>1 DEF SharesBlocks
  <1> QED
    BY <1>1, <1>2, <1>3, <1>8, <1>9

-----------------------------------------------------------------------------
(* The script.                                                             *)

\* The package that a run deals with after k - 1 others.
Package(k) == PackageReadmes[k]

\* What a run that nobody disturbed knows: the root it read is the root that
\* is there; what it has found or written so far is true of the packages it
\* has dealt with; and READMEs that were flat stay flat.
RunKnows ==
  sync \in {"running", "writing"} =>
    /\ HasBlocks(rootContents)
    /\ untouched =>
         /\ rootContents = readme["root"]
         /\ checkOnly =>
              (drifted <=> \E k \in 1..synced : ~SharesBlocks(readme[Package(k)], rootContents))
         /\ tidy => \A r \in AllReadmes : Flat(readme[r])
         /\ tidy /\ ~checkOnly => \A k \in 1..synced : SharesBlocks(readme[Package(k)], rootContents)

\* A run that is about to write knows what it has read, and that it can be
\* synchronised; it is what is still there unless somebody edited it.
WriterKnows ==
  /\ sync = "writing" =>
       /\ ~checkOnly /\ synced \in 0..1 /\ ~CannotSync(original)
       /\ ~overtaken => original = readme[NextPackage]
  /\ overtaken => sync = "writing" /\ ~untouched

SyncInv == ReadmesTypeOK /\ RunKnows /\ WriterKnows /\ SyncOutcomeIsTrue

\* The packages are two, and neither is the root.
LEMMA PackagesAre ==
  /\ Len(PackageReadmes) = 2 /\ \A k \in 1..2 : Package(k) \in ToSet(PackageReadmes)
  /\ Package(1) = "packages/js" /\ Package(2) = "packages/python"
  /\ \A p \in ToSet(PackageReadmes) : p = Package(1) \/ p = Package(2)
  /\ \A p \in ToSet(PackageReadmes) : p # "root" /\ p \in AllReadmes
  /\ "root" \in AllReadmes
  BY DEF PackageReadmes, Package, ToSet, AllReadmes

\* A fresh checkout.
LEMMA InitSync == ReadmesInit => SyncInv
  <1> SUFFICES ASSUME ReadmesInit PROVE SyncInv
    OBVIOUS
  <1>1. readme \in [AllReadmes -> Seq(Token)] /\ {rootContents, original} \subseteq Seq(Token)
    BY ReadmesAssumption DEF ReadmesInit, NotRead
  <1>2. ReadmesTypeOK
    <2>1. 0 \in 0..Len(PackageReadmes) /\ 0 \in 0..MaxReadmeEdits
      BY PackagesAre, ReadmesAssumption
    <2> QED
      BY <1>1, <2>1 DEF ReadmesTypeOK, ReadmesInit
  <1> QED
    BY <1>2 DEF SyncInv, RunKnows, WriterKnows, SyncOutcomeIsTrue, ReadmesInit

\* An edit disturbs the run: untouched is gone.
LEMMA EditSync == ASSUME SyncInv, NEW r \in AllReadmes, EditReadme(r) PROVE SyncInv'
  <1>1. readmeEdits' \in 0..MaxReadmeEdits
    BY ReadmesAssumption DEF SyncInv, ReadmesTypeOK, EditReadme
  <1>2. readme' \in [AllReadmes -> Seq(Token)]
    <2>1. PICK contents \in Readmes : readme' = [readme EXCEPT ![r] = contents]
      BY DEF EditReadme
    <2>2. contents \in Seq(Token) /\ readme \in [AllReadmes -> Seq(Token)]
      BY ReadmesAssumption DEF SyncInv, ReadmesTypeOK
    <2> QED
      BY <2>1, <2>2
  <1>3. /\ UNCHANGED <<checkOnly, sync, synced, rootContents, original, drifted, tidy>>
        /\ untouched' = FALSE /\ overtaken' = (overtaken \/ (sync = "writing" /\ r = NextPackage))
    BY DEF EditReadme
  <1>4. ReadmesTypeOK'
    <2>1. overtaken' \in BOOLEAN
      BY <1>3
    <2> QED
      BY <1>1, <1>2, <1>3, <2>1 DEF SyncInv, ReadmesTypeOK
  <1>5. RunKnows'
    BY <1>3 DEF SyncInv, RunKnows
  <1>6. SyncOutcomeIsTrue'
    BY <1>3 DEF SyncOutcomeIsTrue
  <1>7. WriterKnows'
    <2>1. NextPackage' = NextPackage /\ (CannotSync(original)' <=> CannotSync(original))
      BY <1>3 DEF NextPackage, CannotSync, Synchronised
    <2>2. ASSUME sync = "writing", ~overtaken'
          PROVE  original = readme'[NextPackage]
      <3>1. ~overtaken /\ r # NextPackage
        BY <1>3, <2>2
      <3>2. original = readme[NextPackage]
        BY <2>2, <3>1 DEF SyncInv, WriterKnows
      <3>3. readme'[NextPackage] = readme[NextPackage]
        <4>1. NextPackage \in AllReadmes
          <5>1. synced + 1 \in 1..2
            BY <2>2 DEF SyncInv, WriterKnows
          <5> QED
            BY <5>1, PackagesAre DEF NextPackage, Package
        <4>2. PICK contents \in Readmes : readme' = [readme EXCEPT ![r] = contents]
          BY DEF EditReadme
        <4> QED
          BY <3>1, <4>1, <4>2 DEF SyncInv, ReadmesTypeOK
      <3> QED
        BY <3>2, <3>3
    <2>3. overtaken' => sync' = "writing" /\ ~untouched'
      BY <1>3 DEF SyncInv, WriterKnows
    <2> QED
      BY <1>3, <2>1, <2>2, <2>3 DEF SyncInv, WriterKnows
  <1> QED
    BY <1>4, <1>5, <1>6, <1>7 DEF SyncInv

\* A run that begins knows nothing but whether the READMEs are flat.
LEMMA BeginSyncInv == ASSUME SyncInv, NEW verify \in BOOLEAN, BeginSync(verify) PROVE SyncInv'
  <1>1. /\ checkOnly' = verify /\ rootContents' = readme["root"] /\ synced' = 0 /\ drifted' = FALSE
        /\ untouched' = TRUE /\ tidy' = (\A r \in AllReadmes : Flat(readme[r]))
        /\ UNCHANGED <<readme, original, readmeEdits, overtaken>> /\ sync # "writing"
        /\ sync' = IF HasBlocks(readme["root"]) THEN "running" ELSE "refused"
    BY DEF BeginSync
  <1>2. readme["root"] \in Seq(Token)
    BY PackagesAre DEF SyncInv, ReadmesTypeOK
  <1>3. ReadmesTypeOK'
    <2>1. 0 \in 0..Len(PackageReadmes) /\ tidy' \in BOOLEAN
      BY <1>1, PackagesAre
    <2> QED
      BY <1>1, <1>2, <2>1 DEF SyncInv, ReadmesTypeOK
  <1>4. RunKnows'
    <2>1. 1..0 = {}
      OBVIOUS
    <2> QED
      BY <1>1, <2>1 DEF RunKnows
  <1>5. SyncOutcomeIsTrue'
    BY <1>1 DEF SyncOutcomeIsTrue
  <1>6. WriterKnows'
    BY <1>1 DEF SyncInv, WriterKnows
  <1> QED
    BY <1>3, <1>4, <1>5, <1>6 DEF SyncInv

\* The package a run is at.
LEMMA PackageIs ==
  ASSUME SyncInv, sync \in {"running", "writing"}, synced \in 0..1
  PROVE  LET p == NextPackage
         IN  /\ p = Package(synced + 1) /\ p \in ToSet(PackageReadmes)
             /\ p \in AllReadmes /\ p # "root"
             /\ readme \in [AllReadmes -> Readme] /\ readme[p] \in Readme
             /\ rootContents \in Readme /\ original \in Readme /\ HasBlocks(rootContents)
  <1>1. synced + 1 \in 1..2
    OBVIOUS
  <1>2. NextPackage = Package(synced + 1) /\ NextPackage \in ToSet(PackageReadmes)
    BY <1>1, PackagesAre DEF NextPackage, Package
  <1>3. NextPackage \in AllReadmes /\ NextPackage # "root"
    BY <1>2, PackagesAre
  <1>4. /\ readme \in [AllReadmes -> Readme] /\ rootContents \in Readme /\ original \in Readme
        /\ HasBlocks(rootContents)
    BY DEF SyncInv, ReadmesTypeOK, RunKnows, Readme
  <1>5. readme[NextPackage] \in Readme
    BY <1>3, <1>4
  <1> QED
    BY <1>2, <1>3, <1>4, <1>5

\* What the script computes for a README.
LEMMA SynchronisedIs ==
  ASSUME rootContents \in Readme, HasBlocks(rootContents), NEW c \in Readme, ~CannotSync(c)
  PROVE  LET d == Synchronised(c)
         IN  /\ d \in Readme
             /\ d = c <=> SharesBlocks(c, rootContents)
             /\ Flat(c) /\ Flat(rootContents) =>
                  Flat(d) /\ SharesBlocks(d, rootContents) /\ OwnText(d) = OwnText(c)
  <1>1. Synchronised(c) = Updated(c, Canonical(rootContents)) /\ Synchronised(c) # Refused
    BY DEF Synchronised, CannotSync
  <1>2. Synchronised(c) \in Readme
    BY <1>1, UpdatedIs
  <1>3. Synchronised(c) = c <=> SharesBlocks(c, rootContents)
    BY <1>1, UnchangedShares, SharesUnchanged
  <1>4. Flat(c) /\ Flat(rootContents) =>
          /\ Flat(Synchronised(c)) /\ SharesBlocks(Synchronised(c), rootContents)
          /\ OwnText(Synchronised(c)) = OwnText(c)
    BY <1>1, FlatUpdated
  <1> QED
    BY <1>2, <1>3, <1>4

\* A package that cannot be synchronised ends the run.
LEMMA RefuseSync == ASSUME SyncInv, RefusePackage PROVE SyncInv'
  BY DEF RefusePackage, AtPackage, SyncInv, ReadmesTypeOK, RunKnows, WriterKnows, SyncOutcomeIsTrue

\* When one more package is dealt with, what the run knows of it is added to
\* what it knew of the others.
LEMMA OneMorePackage ==
  ASSUME SyncInv, sync \in {"running", "writing"}, synced \in 0..1,
         synced' = synced + 1, sync' = "running",
         UNCHANGED <<checkOnly, rootContents, untouched, tidy>>,
         NEW d \in Readme, readme' = [readme EXCEPT ![NextPackage] = d],
         untouched /\ checkOnly =>
           /\ readme' = readme
           /\ drifted' <=> drifted \/ ~SharesBlocks(readme[NextPackage], rootContents),
         untouched /\ tidy => Flat(d),
         untouched /\ tidy /\ ~checkOnly => SharesBlocks(d, rootContents)
  PROVE  RunKnows'
  <1> DEFINE p == NextPackage
             root == rootContents
             K == synced + 1
  <1>1. /\ p = Package(K) /\ p \in AllReadmes /\ p # "root"
        /\ readme \in [AllReadmes -> Readme] /\ HasBlocks(root)
    BY PackageIs
  <1>2. K \in 1..2 /\ \A k \in 1..K : k = K \/ k \in 1..synced
    OBVIOUS
  <1>3. \A k \in 1..synced : Package(k) # p /\ Package(k) \in AllReadmes
    BY <1>1, PackagesAre
  <1>4. readme'[p] = d /\ \A r \in AllReadmes \ {p} : readme'[r] = readme[r]
    BY <1>1
  <1> HIDE DEF p, K
  <1> SUFFICES ASSUME untouched
               PROVE  /\ root = readme'["root"]
                      /\ checkOnly => (drifted' <=> \E k \in 1..K : ~SharesBlocks(readme'[Package(k)], root))
                      /\ tidy => \A r \in AllReadmes : Flat(readme'[r])
                      /\ tidy /\ ~checkOnly => \A k \in 1..K : SharesBlocks(readme'[Package(k)], root)
    BY <1>1 DEF RunKnows, K
  <1>5. /\ root = readme["root"]
        /\ checkOnly => (drifted <=> \E k \in 1..synced : ~SharesBlocks(readme[Package(k)], root))
        /\ tidy => \A r \in AllReadmes : Flat(readme[r])
        /\ tidy /\ ~checkOnly => \A k \in 1..synced : SharesBlocks(readme[Package(k)], root)
    BY DEF SyncInv, RunKnows
  <1>6. root = readme'["root"]
    BY <1>1, <1>4, <1>5, PackagesAre
  <1>7. ASSUME checkOnly
        PROVE  drifted' <=> \E k \in 1..K : ~SharesBlocks(readme'[Package(k)], root)
    <2>1. readme' = readme /\ (drifted' <=> drifted \/ ~SharesBlocks(readme[p], root))
      BY <1>7 DEF p
    <2>2. K \in 1..K /\ \A k \in 1..synced : k \in 1..K
      BY DEF K
    <2>3. (\E k \in 1..K : ~SharesBlocks(readme[Package(k)], root))
            <=> (\E k \in 1..synced : ~SharesBlocks(readme[Package(k)], root)) \/ ~SharesBlocks(readme[Package(K)], root)
      BY <1>2, <2>2
    <2> QED
      BY <1>1, <1>5, <1>7, <2>1, <2>3
  <1>8. ASSUME tidy PROVE \A r \in AllReadmes : Flat(readme'[r])
    BY <1>4, <1>5, <1>8
  <1>9. ASSUME tidy, ~checkOnly, NEW k \in 1..K PROVE SharesBlocks(readme'[Package(k)], root)
    <2>1. CASE k = K
      BY <1>1, <1>4, <1>9, <2>1
    <2>2. CASE k \in 1..synced
      BY <1>3, <1>4, <1>5, <1>9, <2>2
    <2> QED
      BY <1>2, <2>1, <2>2
  <1> QED
    BY <1>6, <1>7, <1>8, <1>9

\* A package that can be synchronised is compared; the run writes it next, or
\* is done with it.
LEMMA ReadSync == ASSUME SyncInv, ReadPackage PROVE SyncInv'
  <1> DEFINE p == NextPackage
             c == readme[p]
             d == Synchronised(c)
  <1>1. /\ sync = "running" /\ ~CannotSync(c) /\ drifted' = (drifted \/ d # c)
        /\ UNCHANGED <<readme, checkOnly, rootContents, readmeEdits, untouched, tidy, overtaken>>
        /\ synced \in 0..1
    <2>1. synced \in 0..1
      BY PackagesAre DEF SyncInv, ReadmesTypeOK, ReadPackage, AtPackage
    <2> QED
      BY <2>1 DEF ReadPackage, AtPackage, DriftedNow
  <1>2. /\ p \in AllReadmes /\ readme \in [AllReadmes -> Readme] /\ c \in Readme
        /\ rootContents \in Readme /\ HasBlocks(rootContents)
    BY <1>1, PackageIs
  <1>3. d = c <=> SharesBlocks(c, rootContents)
    BY <1>1, <1>2, SynchronisedIs
  <1>4. ~overtaken
    BY <1>1 DEF SyncInv, WriterKnows
  <1>5. SyncOutcomeIsTrue'
    BY <1>1 DEF SyncOutcomeIsTrue, ReadPackage
  <1>6. (drifted \/ d # c) \in BOOLEAN
    BY DEF SyncInv, ReadmesTypeOK
  <1>7. CASE ~checkOnly /\ sync' = "writing" /\ original' = c /\ synced' = synced
    <2>1. ReadmesTypeOK'
      BY <1>1, <1>2, <1>6, <1>7 DEF SyncInv, ReadmesTypeOK, Readme
    <2>2. RunKnows'
      BY <1>1, <1>7 DEF SyncInv, RunKnows
    <2>3. WriterKnows'
      <3>1. NextPackage' = p /\ (CannotSync(original)' <=> CannotSync(c))
        BY <1>1, <1>7 DEF NextPackage, CannotSync, Synchronised
      <3> QED
        BY <1>1, <1>4, <1>7, <3>1 DEF WriterKnows
    <2> QED
      BY <1>5, <2>1, <2>2, <2>3 DEF SyncInv
  <1>8. CASE (checkOnly \/ d = c) /\ synced' = synced + 1 /\ UNCHANGED <<sync, original>>
    <2>1. ReadmesTypeOK'
      <3>1. synced + 1 \in 0..Len(PackageReadmes)
        BY <1>1, PackagesAre
      <3> QED
        BY <1>1, <1>6, <1>8, <3>1 DEF SyncInv, ReadmesTypeOK
    <2>2. RunKnows'
      <3>1. readme' = [readme EXCEPT ![p] = c]
        BY <1>1, <1>2
      <3>2. untouched /\ checkOnly =>
              readme' = readme /\ (drifted' <=> drifted \/ ~SharesBlocks(c, rootContents))
        BY <1>1, <1>3
      <3>3. untouched /\ tidy => Flat(c)
        BY <1>1, <1>2 DEF SyncInv, RunKnows
      <3>4. untouched /\ tidy /\ ~checkOnly => SharesBlocks(c, rootContents)
        BY <1>3, <1>8
      <3>5. sync \in {"running", "writing"} /\ sync' = "running"
        BY <1>1, <1>8
      <3> HIDE DEF c, p
      <3> QED
        BY <1>1, <1>2, <1>8, <3>1, <3>2, <3>3, <3>4, <3>5, OneMorePackage DEF c, p
    <2>3. WriterKnows'
      BY <1>1, <1>4, <1>8 DEF WriterKnows
    <2> QED
      BY <1>5, <2>1, <2>2, <2>3 DEF SyncInv
  <1> QED
    BY <1>7, <1>8 DEF ReadPackage, MayWrite

\* A README that is out of date is written.
LEMMA WriteSync == ASSUME SyncInv, WritePackage PROVE SyncInv'
  <1> DEFINE p == NextPackage
             d == Synchronised(original)
  <1>1. /\ sync = "writing" /\ readme' = [readme EXCEPT ![p] = d] /\ synced' = synced + 1
        /\ sync' = "running" /\ original' = NotRead /\ overtaken' = FALSE
        /\ UNCHANGED <<checkOnly, rootContents, drifted, readmeEdits, untouched, tidy>>
    BY DEF WritePackage
  <1>2. /\ ~checkOnly /\ synced \in 0..1 /\ ~CannotSync(original)
        /\ untouched => original = readme[p]
    BY <1>1 DEF SyncInv, WriterKnows
  <1>3. /\ p \in AllReadmes /\ readme \in [AllReadmes -> Readme] /\ original \in Readme
        /\ rootContents \in Readme /\ HasBlocks(rootContents)
    BY <1>1, <1>2, PackageIs
  <1>4. /\ d \in Readme
        /\ Flat(original) /\ Flat(rootContents) => Flat(d) /\ SharesBlocks(d, rootContents)
    BY <1>2, <1>3, SynchronisedIs
  <1>5. ReadmesTypeOK'
    <2>1. synced + 1 \in 0..Len(PackageReadmes) /\ NotRead \in Seq(Token)
      BY <1>2, PackagesAre DEF NotRead
    <2>2. readme' \in [AllReadmes -> Readme]
      BY <1>1, <1>3, <1>4
    <2> QED
      BY <1>1, <2>1, <2>2 DEF SyncInv, ReadmesTypeOK, Readme
  <1>6. untouched /\ tidy => Flat(d) /\ SharesBlocks(d, rootContents)
    <2> SUFFICES ASSUME untouched, tidy PROVE Flat(original) /\ Flat(rootContents)
      BY <1>4
    <2>1. rootContents = readme["root"] /\ \A r \in AllReadmes : Flat(readme[r])
      BY <1>1 DEF SyncInv, RunKnows
    <2>2. Flat(readme[p]) /\ Flat(readme["root"])
      BY <1>3, <2>1, PackagesAre
    <2> QED
      BY <1>2, <2>1, <2>2
  <1>7. RunKnows'
    <2>1. sync \in {"running", "writing"}
      BY <1>1
    <2> HIDE DEF d
    <2> QED
      BY <1>1, <1>2, <1>4, <1>6, <2>1, OneMorePackage
  <1>8. WriterKnows' /\ SyncOutcomeIsTrue'
    BY <1>1 DEF WriterKnows, SyncOutcomeIsTrue
  <1> QED
    BY <1>5, <1>7, <1>8 DEF SyncInv

\* At the end, what the run has found is true of all packages.
LEMMA FinishSyncInv == ASSUME SyncInv, FinishSync PROVE SyncInv'
  <1>1. /\ sync = "running" /\ synced = 2
        /\ sync' = IF checkOnly /\ drifted THEN "stale" ELSE "ok"
        /\ UNCHANGED <<readme, checkOnly, synced, rootContents, original, drifted, readmeEdits,
                       untouched, tidy, overtaken>>
    BY PackagesAre DEF FinishSync
  <1>2. ReadmesTypeOK'
    BY <1>1 DEF SyncInv, ReadmesTypeOK
  <1>3. SyncOutcomeIsTrue'
    <2> SUFFICES ASSUME untouched
                 PROVE  /\ sync' = "ok" /\ (checkOnly \/ tidy) => AllShare
                        /\ sync' = "stale" => ~AllShare
      BY <1>1 DEF SyncOutcomeIsTrue, AllShare
    <2>1. /\ rootContents = readme["root"]
          /\ checkOnly => (drifted <=> \E k \in 1..2 : ~SharesBlocks(readme[Package(k)], rootContents))
          /\ tidy /\ ~checkOnly => \A k \in 1..2 : SharesBlocks(readme[Package(k)], rootContents)
      BY <1>1 DEF SyncInv, RunKnows
    <2>2. AllShare <=> \A k \in 1..2 : SharesBlocks(readme[Package(k)], rootContents)
      <3>1. 1 \in 1..2 /\ 2 \in 1..2
        OBVIOUS
      <3> QED
        BY <2>1, <3>1, PackagesAre DEF AllShare
    <2> QED
      BY <1>1, <2>1, <2>2
  <1> QED
    BY <1>1, <1>2, <1>3 DEF SyncInv, RunKnows, WriterKnows

\* A killed run claims nothing.
LEMMA KillSyncInv == ASSUME SyncInv, KillSync PROVE SyncInv'
  <1>1. /\ sync' = "killed" /\ original' = NotRead /\ overtaken' = FALSE
        /\ UNCHANGED <<checkOnly, synced, rootContents, drifted, readmeEdits, untouched, tidy>>
    BY DEF KillSync
  <1>2. readme' \in [AllReadmes -> Seq(Token)]
    <2>1. readme \in [AllReadmes -> Seq(Token)] /\ Truncated \in Seq(Token)
      BY DEF SyncInv, ReadmesTypeOK, Truncated
    <2>2. readme' = readme \/ readme' = [readme EXCEPT ![NextPackage] = Truncated]
      BY DEF KillSync
    <2> QED
      BY <2>1, <2>2
  <1>3. ReadmesTypeOK'
    <2>1. NotRead \in Seq(Token)
      BY DEF NotRead
    <2> QED
      BY <1>1, <1>2, <2>1 DEF SyncInv, ReadmesTypeOK
  <1> QED
    BY <1>1, <1>3 DEF SyncInv, RunKnows, WriterKnows, SyncOutcomeIsTrue

\* So every step keeps the invariant.
LEMMA NextSync == SyncInv /\ [ReadmesNext]_readmeVars => SyncInv'
  <1> SUFFICES ASSUME SyncInv, [ReadmesNext]_readmeVars PROVE SyncInv'
    OBVIOUS
  <1>1. ASSUME NEW r \in AllReadmes, EditReadme(r) PROVE SyncInv'
    BY <1>1, EditSync
  <1>2. ASSUME NEW verify \in BOOLEAN, BeginSync(verify) PROVE SyncInv'
    BY <1>2, BeginSyncInv
  <1>3. CASE RefusePackage
    BY <1>3, RefuseSync
  <1>4. CASE ReadPackage
    BY <1>4, ReadSync
  <1>5. CASE FinishSync
    BY <1>5, FinishSyncInv
  <1>6. CASE KillSync
    BY <1>6, KillSyncInv
  <1>7. CASE WritePackage
    BY <1>7, WriteSync
  <1>8. CASE UNCHANGED readmeVars
    BY <1>8 DEF readmeVars, SyncInv, ReadmesTypeOK, RunKnows, WriterKnows, SyncOutcomeIsTrue, AllShare,
                NextPackage, CannotSync, Synchronised
  <1> QED
    BY <1>1, <1>2, <1>3, <1>4, <1>5, <1>6, <1>7, <1>8 DEF ReadmesNext

\* Whatever people and killed runs did to the READMEs, a run knows what it has
\* read, and what it has found out so far is true.
THEOREM SyncInvariance == ReadmesSpec => []SyncInv
  BY InitSync, NextSync, PTL DEF ReadmesSpec

\* The READMEs stay texts, and the script stays where it can be.
THEOREM ReadmesTypeOKHolds == ReadmesSpec => []ReadmesTypeOK
  <1>1. SyncInv => ReadmesTypeOK
    BY DEF SyncInv
  <1> QED
    BY <1>1, SyncInvariance, PTL

\* --check says that the READMEs are in sync only if they are, and that they
\* are not only if they are not; a run that writes leaves them in sync.
THEOREM SyncOutcomeIsTrueHolds == ReadmesSpec => []SyncOutcomeIsTrue
  <1>1. SyncInv => SyncOutcomeIsTrue
    BY DEF SyncInv
  <1> QED
    BY <1>1, SyncInvariance, PTL

\* The action of OwnTextKept.
KeepsOwnText ==
  \A p \in ToSet(PackageReadmes) :
    readmeEdits' = readmeEdits /\ readme'[p] # readme[p] =>
      /\ ~checkOnly
      /\ sync' = "killed" \/ (~overtaken /\ Flat(readme[p]) /\ Flat(rootContents) =>
                                OwnText(readme'[p]) = OwnText(readme[p]))

\* No step that is not an edit or a kill takes text from a README, but for a
\* write that overwrites an edit.
LEMMA StepKeepsOwnText == SyncInv /\ [ReadmesNext]_readmeVars => [KeepsOwnText]_readmeVars
  <1> SUFFICES ASSUME SyncInv, ReadmesNext, NEW p \in ToSet(PackageReadmes),
                      readmeEdits' = readmeEdits, readme'[p] # readme[p]
               PROVE  /\ ~checkOnly
                      /\ sync' = "killed" \/ (~overtaken /\ Flat(readme[p]) /\ Flat(rootContents) =>
                                                OwnText(readme'[p]) = OwnText(readme[p]))
    BY DEF KeepsOwnText
  <1>1. ASSUME NEW r \in AllReadmes, EditReadme(r) PROVE FALSE
    <2>1. readmeEdits' = readmeEdits + 1 /\ readmeEdits \in Int
      BY <1>1, ReadmesAssumption DEF EditReadme, SyncInv, ReadmesTypeOK
    <2> QED
      BY <2>1
  <1>2. ASSUME readme' = readme PROVE FALSE
    BY <1>2
  <1>3. CASE WritePackage
    <2>1. /\ sync = "writing" /\ readme' = [readme EXCEPT ![NextPackage] = Synchronised(original)]
          /\ ~checkOnly /\ synced \in 0..1 /\ ~CannotSync(original)
          /\ ~overtaken => original = readme[NextPackage]
      BY <1>3 DEF WritePackage, SyncInv, WriterKnows
    <2>2. /\ readme \in [AllReadmes -> Readme] /\ original \in Readme
          /\ rootContents \in Readme /\ HasBlocks(rootContents)
      BY <2>1, PackageIs
    <2>3. p \in AllReadmes
      BY PackagesAre
    <2>4. p = NextPackage /\ readme'[p] = Synchronised(original)
      BY <2>1, <2>2, <2>3
    <2>5. Flat(original) /\ Flat(rootContents) => OwnText(Synchronised(original)) = OwnText(original)
      BY <2>1, <2>2, SynchronisedIs
    <2> QED
      BY <2>1, <2>4, <2>5
  <1>4. CASE KillSync
    <2>1. sync' = "killed" /\ ~checkOnly
      BY <1>2, <1>4 DEF KillSync, SyncInv, WriterKnows
    <2> QED
      BY <2>1
  <1>5. RefusePackage \/ ReadPackage \/ FinishSync \/ (\E verify \in BOOLEAN : BeginSync(verify))
          => readme' = readme
    BY DEF RefusePackage, ReadPackage, FinishSync, BeginSync
  <1> QED
    BY <1>1, <1>2, <1>3, <1>4, <1>5 DEF ReadmesNext

\* What a package README says outside its blocks survives every run that is
\* not killed, unless somebody edits it between the run's reading it and
\* writing it back; edits at any other time survive, and --check changes
\* nothing.
THEOREM OwnTextKeptHolds == ReadmesSpec => OwnTextKept
  <1>1. ReadmesSpec => [][KeepsOwnText]_readmeVars
    BY SyncInvariance, StepKeepsOwnText, PTL DEF ReadmesSpec
  <1> QED
    BY <1>1 DEF OwnTextKept, KeepsOwnText
=============================================================================
