--------------------------- MODULE RegistryProofs ---------------------------
(***************************************************************************)
(* What ibc_denom and the traces of tokens promise, for any chains,        *)
(* channels, tokens and first states that the assumptions of Registry      *)
(* allow: DenomsLeadHome, with any number of transfers, lost writes and    *)
(* chains listed on the way, and GraphAddsUp; and the types of all that is *)
(* stored.                                                                 *)
(*                                                                         *)
(* The first part is about tokens: how far a trace gets with what is       *)
(* configured.  The second part is the inductive invariant of ibc_denom.   *)
(* It says of every base that is noted, in ibc_denom, in a transfer, or in *)
(* what a task has read, that it is a station on the way of its token, and *)
(* that the channels to it are configured; and of the bases that           *)
(* add_chain_task has gone over, that no configured channel leads on from  *)
(* there.                                                                  *)
(*                                                                         *)
(* The third part is about sums over finite sets.  The fourth is the       *)
(* inductive invariant of amounts: escrow accounts cover the vouchers, and *)
(* what is held of a token anywhere, with what is on its way, adds up to   *)
(* its supply at the origin.  The fifth carries this over to the traces    *)
(* that are derived from what the chains have, and to the tree of them.    *)
(*                                                                         *)
(* The sixth part is about shapes: nothing that is stored of a channel is  *)
(* later than now, what the tasks go over is finite and has a name, and    *)
(* every cache is about denoms of its chain.  With the two invariants      *)
(* above the types follow.                                                 *)
(***************************************************************************)
EXTENDS Registry, FiniteSetTheorems, SequenceTheorems, WellFoundedInduction, TLAPS

----------------------------------------------------------------------------
(* Tokens and their ways.                                                  *)

Hops(t) == t.path.hops
At(t, n) == <<t.via[n], StationDenom(t, n)>>
\* What a token was before it went over the last hops.
Suffix(t, n) == [path |-> StationDenom(t, n), via |-> SubSeq(t.via, n, Len(t.via))]

LEMMA TokenShape ==
  ASSUME NEW t, FollowsPath(t)
  PROVE  /\ t.path \in Denom /\ Hops(t) \in Seq(Hop \cup {NoHop}) /\ t.path.root \in Root \cup {NoHop}
         /\ t.via \in Seq(Chain) /\ Len(t.via) \in Nat \ {0} /\ Len(Hops(t)) \in Nat
         /\ DOMAIN t.via = 1 .. Len(t.via) /\ DOMAIN Hops(t) = 1 .. Len(Hops(t))
         /\ Head(t.via) = t.via[1]
         /\ Len(Hops(t)) \in {Len(t.via) - 1, Len(t.via)}
         /\ t = [path |-> t.path, via |-> t.via]
<1>1. t.path \in Denom /\ t.via \in Seq(Chain) /\ t.via # <<>>
  BY DEF FollowsPath
<1>2. Hops(t) \in Seq(Hop \cup {NoHop}) /\ t.path.root \in Root \cup {NoHop}
  BY <1>1 DEF Hops, Denom
<1>3. Len(t.via) \in Nat \ {0} /\ DOMAIN t.via = 1 .. Len(t.via)
  BY <1>1, EmptySeq, LenProperties
<1>4. Len(Hops(t)) \in Nat /\ DOMAIN Hops(t) = 1 .. Len(Hops(t))
  BY <1>2, LenProperties
<1>5. Head(t.via) = t.via[1]
  OBVIOUS
<1>6. Len(Hops(t)) \in {Len(t.via) - 1, Len(t.via)}
  BY DEF FollowsPath, Hops
<1>7. t = [path |-> t.path, via |-> t.via]
  BY DEF FollowsPath
<1> QED
  BY <1>1, <1>2, <1>3, <1>4, <1>5, <1>6, <1>7

LEMMA Lengths ==
  ASSUME NEW t, FollowsPath(t)
  PROVE  /\ Len(t.via) \in Nat \ {0} /\ Len(Hops(t)) \in Nat
         /\ Len(Hops(t)) = Len(t.via) - 1 \/ Len(Hops(t)) = Len(t.via)
BY TokenShape

LEMMA TokenElements ==
  ASSUME NEW t, FollowsPath(t)
  PROVE  /\ \A n \in 1 .. Len(t.via) : t.via[n] \in Chain
         /\ \A n \in 1 .. Len(Hops(t)) : Hops(t)[n] \in Hop \cup {NoHop}
         /\ \A n \in 1 .. Len(t.via) - 1 :
              /\ Leg(t, n) = <<t.via[n], Hops(t)[n]>> /\ Leg(t, n) \in End
              /\ Peer[Leg(t, n)][1] = t.via[n + 1] /\ Hops(t)[n] \in Hop
         /\ Len(Hops(t)) = Len(t.via) => Hops(t)[Len(t.via)] = NoHop
<1>1. \A n \in 1 .. Len(t.via) : t.via[n] \in Chain
  BY TokenShape, ElementOfSeq
<1>2. \A n \in 1 .. Len(Hops(t)) : Hops(t)[n] \in Hop \cup {NoHop}
  BY TokenShape, ElementOfSeq
<1>3. ASSUME NEW n \in 1 .. Len(t.via) - 1
      PROVE  /\ Leg(t, n) = <<t.via[n], Hops(t)[n]>> /\ Leg(t, n) \in End
             /\ Peer[Leg(t, n)][1] = t.via[n + 1] /\ Hops(t)[n] \in Hop
  <2>1. Leg(t, n) = <<t.via[n], Hops(t)[n]>>
    BY DEF Leg, Hops
  <2>2. Leg(t, n) \in End /\ Peer[Leg(t, n)][1] = t.via[n + 1]
    BY DEF FollowsPath
  <2>3. Leg(t, n) \in Chain \X Hop
    BY <2>2, ChannelsAssumption DEF End
  <2> QED
    BY <2>1, <2>2, <2>3
<1>4. Len(Hops(t)) = Len(t.via) => Hops(t)[Len(t.via)] = NoHop
  BY DEF FollowsPath, Hops
<1> QED
  BY <1>1, <1>2, <1>3, <1>4

LEMMA DenomEqual ==
  ASSUME NEW d \in Denom, NEW e \in Denom, d.hops = e.hops, d.root = e.root
  PROVE  d = e
BY DEF Denom

LEMMA StationShape ==
  ASSUME NEW t, FollowsPath(t), NEW n \in 1 .. Len(t.via)
  PROVE  /\ StationDenom(t, n) \in Denom
         /\ StationDenom(t, n).root = t.path.root
         /\ StationDenom(t, n).hops = SubSeq(Hops(t), n, Len(Hops(t)))
         /\ SubSeq(Hops(t), n, Len(Hops(t))) \in Seq(Hop \cup {NoHop})
         /\ Len(SubSeq(Hops(t), n, Len(Hops(t)))) = Len(Hops(t)) - n + 1
         /\ \A i \in 1 .. Len(Hops(t)) - n + 1 :
              SubSeq(Hops(t), n, Len(Hops(t)))[i] = Hops(t)[n + i - 1]
<1> DEFINE S == SubSeq(Hops(t), n, Len(Hops(t)))
<1>1. /\ n \in Int /\ Len(Hops(t)) \in Int /\ n <= Len(Hops(t)) + 1
      /\ \A i \in n .. Len(Hops(t)) : Hops(t)[i] \in Hop \cup {NoHop}
  BY TokenShape, TokenElements
<1>2. /\ S \in Seq(Hop \cup {NoHop})
      /\ Len(S) = IF n <= Len(Hops(t)) THEN Len(Hops(t)) - n + 1 ELSE 0
      /\ \A i \in 1 .. Len(Hops(t)) - n + 1 : S[i] = Hops(t)[n + i - 1]
  BY <1>1, SubSeqProperties
<1>3. Len(S) = Len(Hops(t)) - n + 1
  BY <1>1, <1>2
<1>4. StationDenom(t, n) = [t.path EXCEPT !.hops = S]
  BY DEF StationDenom, Hops
<1> HIDE DEF S
<1>5. /\ [t.path EXCEPT !.hops = S] \in Denom
      /\ [t.path EXCEPT !.hops = S].root = t.path.root
      /\ [t.path EXCEPT !.hops = S].hops = S
  BY <1>2, TokenShape DEF Denom
<1> QED
  BY <1>2, <1>3, <1>4, <1>5 DEF S

LEMMA AtShape ==
  ASSUME NEW t, FollowsPath(t), NEW n \in 1 .. Len(t.via)
  PROVE  At(t, n) \in Chain \X Denom
BY TokenElements, StationShape DEF At

\* A station is one of its kind on its way.
LEMMA AtInjective ==
  ASSUME NEW t, FollowsPath(t), NEW n \in 1 .. Len(t.via), NEW m \in 1 .. Len(t.via),
         At(t, n) = At(t, m)
  PROVE  n = m
<1>1. StationDenom(t, n).hops = StationDenom(t, m).hops
  BY DEF At
<1>2. Len(Hops(t)) - n + 1 = Len(Hops(t)) - m + 1
  BY <1>1, StationShape
<1> QED
  BY <1>2, TokenShape

----------------------------------------------------------------------------
(* Least numbers.                                                          *)

NatLess == {r \in Nat \X Nat : r[1] < r[2]}

LEMMA NatLessWellFounded == IsWellFoundedOn(NatLess, Nat)
<1>1. NatLess = OpToRel(<, Nat)
  BY DEF NatLess, OpToRel
<1> QED
  BY <1>1, NatLessThanWellFounded

\* A set of numbers that is not empty has a least one.
LEMMA LeastNumber ==
  ASSUME NEW T, T \subseteq Nat, T # {}
  PROVE  \E x \in T : \A y \in T : x <= y
<1>1. PICK x \in T : \A y \in T : <<y, x>> \notin NatLess
  BY NatLessWellFounded, WFMin
<1>2. ASSUME NEW y \in T
      PROVE  x <= y
  <2>1. <<y, x>> \notin NatLess
    BY <1>1
  <2>2. y \in Nat /\ x \in Nat
    OBVIOUS
  <2> QED
    BY <2>1, <2>2 DEF NatLess
<1> QED
  BY <1>2

----------------------------------------------------------------------------
(* Tokens are known by where they are and their path.                      *)

LEMMA SameLength ==
  ASSUME NEW s, NEW t, FollowsPath(s), FollowsPath(t), s.path = t.path
  PROVE  Len(s.via) <= Len(t.via)
<1> SUFFICES ASSUME Len(s.via) > Len(t.via)
             PROVE  FALSE
  BY TokenShape
<1>1. Hops(s) = Hops(t)
  BY DEF Hops
<1>2. Len(t.via) = Len(Hops(t)) /\ Len(t.via) \in 1 .. Len(s.via) - 1
  BY <1>1, TokenShape
<1>3. Hops(t)[Len(t.via)] = NoHop
  BY <1>2, TokenElements
<1>4. Hops(s)[Len(t.via)] \in Hop
  BY <1>2, TokenElements
<1> QED
  BY <1>1, <1>3, <1>4, ChannelsAssumption

LEMMA SameToken ==
  ASSUME NEW s, NEW t, FollowsPath(s), FollowsPath(t),
         Head(s.via) = Head(t.via), s.path = t.path
  PROVE  s = t
<1>1. Len(s.via) = Len(t.via)
  BY SameLength, TokenShape
<1>2. Hops(s) = Hops(t)
  BY DEF Hops
<1> DEFINE Bad == {n \in 1 .. Len(s.via) : s.via[n] # t.via[n]}
<1>3. Bad = {}
  <2> SUFFICES ASSUME Bad # {}
               PROVE  FALSE
    OBVIOUS
  <2>1. Bad \subseteq Nat
    BY TokenShape
  <2> HIDE DEF Bad
  <2>2. PICK n \in Bad : \A m \in Bad : n <= m
    BY <2>1, LeastNumber
  <2> USE DEF Bad
  <2>3. n \in 1 .. Len(s.via) /\ s.via[n] # t.via[n]
    OBVIOUS
  <2>4. n # 1
    BY <2>3, TokenShape
  <2>5. n - 1 \in 1 .. Len(s.via) - 1
    BY <2>3, <2>4, TokenShape
  <2>6. s.via[n - 1] = t.via[n - 1]
    <3>1. n - 1 \notin Bad /\ n - 1 \in 1 .. Len(s.via)
      BY <2>2, <2>3, <2>5, Lengths
    <3> QED
      BY <3>1
  <2>7. Leg(s, n - 1) = Leg(t, n - 1)
    BY <2>5, <2>6, <1>1, <1>2, TokenElements
  <2>8. (n - 1) + 1 = n
    BY <2>3
  <2>9. Peer[Leg(s, n - 1)][1] = s.via[n] /\ Peer[Leg(t, n - 1)][1] = t.via[n]
    BY <2>5, <2>8, <1>1, TokenElements
  <2> QED
    BY <2>3, <2>7, <2>9
<1>4. s.via = t.via
  BY <1>1, <1>3, TokenShape, SeqEqual
<1> QED
  BY <1>4, TokenShape

LEMMA SameKeySameToken ==
  ASSUME NEW s, NEW t, FollowsPath(s), FollowsPath(t), TokenKey(s) = TokenKey(t)
  PROVE  s = t
BY SameToken DEF TokenKey, KeyOf

----------------------------------------------------------------------------
(* What is left of a token's way is the way of a token.                    *)

LEMMA SuffixShape ==
  ASSUME NEW t, FollowsPath(t), NEW n \in 1 .. Len(t.via)
  PROVE  /\ Suffix(t, n).via \in Seq(Chain)
         /\ Len(Suffix(t, n).via) = Len(t.via) - n + 1
         /\ \A i \in 1 .. Len(t.via) - n + 1 : Suffix(t, n).via[i] = t.via[n + i - 1]
         /\ Suffix(t, n).path \in Denom
         /\ Len(Hops(Suffix(t, n))) = Len(Hops(t)) - n + 1
         /\ \A i \in 1 .. Len(Hops(t)) - n + 1 : Hops(Suffix(t, n))[i] = Hops(t)[n + i - 1]
<1> DEFINE V == SubSeq(t.via, n, Len(t.via))
<1>1. /\ n \in Int /\ Len(t.via) \in Int /\ n <= Len(t.via)
      /\ \A i \in n .. Len(t.via) : t.via[i] \in Chain
  BY TokenShape, TokenElements
<1>2. /\ V \in Seq(Chain)
      /\ Len(V) = IF n <= Len(t.via) THEN Len(t.via) - n + 1 ELSE 0
      /\ \A i \in 1 .. Len(t.via) - n + 1 : V[i] = t.via[n + i - 1]
  BY <1>1, SubSeqProperties
<1>3. Suffix(t, n).via = V /\ Suffix(t, n).path = StationDenom(t, n)
  BY DEF Suffix
<1> HIDE DEF V
<1>4. Hops(Suffix(t, n)) = SubSeq(Hops(t), n, Len(Hops(t)))
  BY <1>3, StationShape DEF Hops
<1>5. Len(V) = Len(t.via) - n + 1
  BY <1>1, <1>2
<1> QED
  BY <1>2, <1>3, <1>4, <1>5, StationShape

LEMMA SuffixFollows ==
  ASSUME NEW t, FollowsPath(t), NEW n \in 1 .. Len(t.via)
  PROVE  FollowsPath(Suffix(t, n))
<1> DEFINE s == Suffix(t, n)
<1>1. s = [path |-> s.path, via |-> s.via]
  BY DEF Suffix
<1>2. /\ s.via \in Seq(Chain) /\ s.path \in Denom
      /\ Len(s.via) = Len(t.via) - n + 1 /\ Len(Hops(s)) = Len(Hops(t)) - n + 1
      /\ \A i \in 1 .. Len(t.via) - n + 1 : s.via[i] = t.via[n + i - 1]
      /\ \A i \in 1 .. Len(Hops(t)) - n + 1 : Hops(s)[i] = Hops(t)[n + i - 1]
  BY SuffixShape
<1> HIDE DEF s
<1>3. Len(s.via) \in Nat \ {0}
  BY <1>2, TokenShape
<1>4. s.via # <<>>
  BY <1>3, EmptySeq
<1>5. s \in [path : Denom, via : Seq(Chain) \ {<<>>}]
  BY <1>1, <1>2, <1>4
<1>6. Len(Hops(s)) \in {Len(s.via) - 1, Len(s.via)}
  BY <1>2, TokenShape
<1>7. ASSUME Len(Hops(s)) = Len(s.via)
      PROVE  Hops(s)[Len(s.via)] = NoHop
  <2>1. Len(Hops(t)) = Len(t.via) /\ Len(s.via) \in 1 .. Len(Hops(t)) - n + 1
    BY <1>2, <1>3, <1>7, TokenShape
  <2>2. n + Len(s.via) - 1 = Len(t.via)
    BY <1>2, TokenShape
  <2>3. Hops(s)[Len(s.via)] = Hops(t)[n + Len(s.via) - 1]
    BY <1>2, <2>1
  <2> QED
    BY <2>1, <2>2, <2>3, TokenElements
<1>8. ASSUME NEW i \in 1 .. Len(s.via) - 1
      PROVE  Leg(s, i) \in End /\ Peer[Leg(s, i)][1] = s.via[i + 1]
  <2>1. /\ n + i - 1 \in 1 .. Len(t.via) - 1 /\ (n + i - 1) + 1 = n + (i + 1) - 1
        /\ i \in 1 .. Len(t.via) - n + 1 /\ i + 1 \in 1 .. Len(t.via) - n + 1
        /\ i \in 1 .. Len(Hops(t)) - n + 1
    <3>1. Len(s.via) = Len(t.via) - n + 1
      BY <1>2
    <3> QED
      BY <3>1, Lengths
  <2>2. /\ s.via[i] = t.via[n + i - 1] /\ Hops(s)[i] = Hops(t)[n + i - 1]
        /\ s.via[i + 1] = t.via[n + (i + 1) - 1]
    BY <1>2, <2>1
  <2>3. Leg(s, i) = Leg(t, n + i - 1)
    BY <2>1, <2>2, TokenElements DEF Leg, Hops
  <2>4. Leg(t, n + i - 1) \in End /\ Peer[Leg(t, n + i - 1)][1] = t.via[(n + i - 1) + 1]
    BY <2>1, TokenElements
  <2> QED
    BY <2>1, <2>2, <2>3, <2>4
<1>9. FollowsPath(s)
  BY <1>5, <1>6, <1>7, <1>8 DEF FollowsPath, Hops
<1> QED
  BY <1>9 DEF s

LEMMA SuffixStations ==
  ASSUME NEW t, FollowsPath(t), NEW n \in 1 .. Len(t.via), NEW i \in 1 .. Len(t.via) - n + 1
  PROVE  /\ At(Suffix(t, n), i) = At(t, n + i - 1)
         /\ i < Len(t.via) - n + 1 => Leg(Suffix(t, n), i) = Leg(t, n + i - 1)
<1> DEFINE s == Suffix(t, n)
           D == StationDenom(s, i)
           E == StationDenom(t, n + i - 1)
<1>1. n + i - 1 \in 1 .. Len(t.via) /\ FollowsPath(s) /\ i \in 1 .. Len(s.via)
  <2>1. n + i - 1 \in 1 .. Len(t.via)
    BY Lengths
  <2>2. Len(s.via) = Len(t.via) - n + 1
    BY SuffixShape
  <2> QED
    BY <2>1, <2>2, SuffixFollows
<1>2. /\ Len(Hops(s)) = Len(Hops(t)) - n + 1 /\ s.via[i] = t.via[n + i - 1]
      /\ \A j \in 1 .. Len(Hops(t)) - n + 1 : Hops(s)[j] = Hops(t)[n + j - 1]
  BY SuffixShape
<1>3. s.path.root = t.path.root
  BY StationShape DEF Suffix
<1> HIDE DEF s
<1>4. /\ D \in Denom /\ E \in Denom /\ D.root = E.root
      /\ D.hops \in Seq(Hop \cup {NoHop}) /\ E.hops \in Seq(Hop \cup {NoHop})
      /\ Len(D.hops) = Len(Hops(s)) - i + 1 /\ Len(E.hops) = Len(Hops(t)) - (n + i - 1) + 1
      /\ \A j \in 1 .. Len(Hops(s)) - i + 1 : D.hops[j] = Hops(s)[i + j - 1]
      /\ \A j \in 1 .. Len(Hops(t)) - (n + i - 1) + 1 : E.hops[j] = Hops(t)[(n + i - 1) + j - 1]
  BY <1>1, <1>3, StationShape
<1>5. Len(D.hops) = Len(E.hops)
  BY <1>2, <1>4, TokenShape
<1>6. ASSUME NEW j \in 1 .. Len(D.hops)
      PROVE  D.hops[j] = E.hops[j]
  <2>1. /\ j \in 1 .. Len(Hops(s)) - i + 1 /\ j \in 1 .. Len(Hops(t)) - (n + i - 1) + 1
        /\ i + j - 1 \in 1 .. Len(Hops(t)) - n + 1
        /\ n + (i + j - 1) - 1 = (n + i - 1) + j - 1
    <3>1. j \in 1 .. Len(Hops(s)) - i + 1 /\ Len(Hops(s)) = Len(Hops(t)) - n + 1
      BY <1>2, <1>4
    <3> QED
      BY <3>1, Lengths
  <2>2. D.hops[j] = Hops(s)[i + j - 1] /\ E.hops[j] = Hops(t)[(n + i - 1) + j - 1]
    BY <1>4, <2>1
  <2> QED
    BY <1>2, <2>1, <2>2
<1>7. D.hops = E.hops
  BY <1>4, <1>5, <1>6, SeqEqual
<1>8. D = E
  BY <1>4, <1>7, DenomEqual
<1>9. At(s, i) = At(t, n + i - 1)
  BY <1>2, <1>8 DEF At
<1>10. ASSUME i < Len(t.via) - n + 1
       PROVE  Leg(s, i) = Leg(t, n + i - 1)
  <2>1. i \in 1 .. Len(Hops(t)) - n + 1
    BY <1>10, TokenShape
  <2>2. Hops(s)[i] = Hops(t)[n + i - 1]
    BY <1>2, <2>1
  <2> QED
    BY <1>2, <2>2 DEF Leg, Hops
<1> QED
  BY <1>9, <1>10 DEF s

\* Tokens that meet at a station came the same way there.
LEMMA SameStation ==
  ASSUME NEW s, NEW t, FollowsPath(s), FollowsPath(t),
         NEW n \in 1 .. Len(s.via), NEW m \in 1 .. Len(t.via), At(s, n) = At(t, m)
  PROVE  /\ Len(s.via) - n = Len(t.via) - m
         /\ \A i \in 1 .. Len(s.via) - n + 1 : At(s, n + i - 1) = At(t, m + i - 1)
         /\ \A i \in 1 .. Len(s.via) - n : Leg(s, n + i - 1) = Leg(t, m + i - 1)
<1>1. FollowsPath(Suffix(s, n)) /\ FollowsPath(Suffix(t, m))
  BY SuffixFollows
<1>2. Suffix(s, n).path = Suffix(t, m).path
  BY DEF At, Suffix
<1>3. Head(Suffix(s, n).via) = Head(Suffix(t, m).via)
  <2>1. Suffix(s, n).via[1] = s.via[n + 1 - 1] /\ Suffix(t, m).via[1] = t.via[m + 1 - 1]
    <3>1. 1 \in 1 .. Len(s.via) - n + 1 /\ 1 \in 1 .. Len(t.via) - m + 1
      BY Lengths
    <3>2. \A i \in 1 .. Len(s.via) - n + 1 : Suffix(s, n).via[i] = s.via[n + i - 1]
      BY SuffixShape
    <3>3. \A i \in 1 .. Len(t.via) - m + 1 : Suffix(t, m).via[i] = t.via[m + i - 1]
      BY SuffixShape
    <3> QED
      BY <3>1, <3>2, <3>3
  <2>2. n + 1 - 1 = n /\ m + 1 - 1 = m
    OBVIOUS
  <2>3. s.via[n] = t.via[m]
    BY DEF At
  <2> QED
    BY <1>1, <2>1, <2>2, <2>3, TokenShape
<1>4. Suffix(s, n) = Suffix(t, m)
  BY <1>1, <1>2, <1>3, SameToken
<1>5. Len(s.via) - n + 1 = Len(t.via) - m + 1
  BY <1>4, SuffixShape
<1>6. Len(s.via) - n = Len(t.via) - m
  BY <1>5, TokenShape
<1>7. \A i \in 1 .. Len(s.via) - n + 1 : At(s, n + i - 1) = At(t, m + i - 1)
  <2>1. ASSUME NEW i \in 1 .. Len(s.via) - n + 1
        PROVE  At(s, n + i - 1) = At(t, m + i - 1)
    <3>1. At(Suffix(s, n), i) = At(s, n + i - 1)
      BY SuffixStations
    <3>2. At(Suffix(t, m), i) = At(t, m + i - 1)
      BY <1>5, SuffixStations
    <3> QED
      BY <1>4, <3>1, <3>2
  <2> QED
    BY <2>1
<1>8. ASSUME NEW i \in 1 .. Len(s.via) - n
      PROVE  Leg(s, n + i - 1) = Leg(t, m + i - 1)
  <2>1. i \in 1 .. Len(s.via) - n + 1 /\ i < Len(s.via) - n + 1
    BY Lengths
  <2>2. Leg(Suffix(s, n), i) = Leg(s, n + i - 1)
    BY <2>1, SuffixStations
  <2>3. Leg(Suffix(t, m), i) = Leg(t, m + i - 1)
    BY <1>5, <2>1, SuffixStations
  <2> QED
    BY <1>4, <2>2, <2>3
<1> QED
  BY <1>6, <1>7, <1>8

----------------------------------------------------------------------------
(* A token that moves on, or back.                                         *)

LEMMA HopsOfWay ==
  ASSUME NEW t, FollowsPath(t)
  PROVE  IBCHops(Hops(t)) = Len(t.via) - 1
<1>1. Len(t.via) - 1 \in Nat
  BY Lengths
<1>2. {i \in DOMAIN Hops(t) : Hops(t)[i] # NoHop} = 1 .. Len(t.via) - 1
  <2>1. DOMAIN Hops(t) = 1 .. Len(Hops(t))
    BY TokenShape
  <2>2. \A i \in 1 .. Len(t.via) - 1 : i \in 1 .. Len(Hops(t)) /\ Hops(t)[i] # NoHop
    BY Lengths, TokenElements, ChannelsAssumption
  <2>3. ASSUME NEW i \in 1 .. Len(Hops(t)), Hops(t)[i] # NoHop
        PROVE  i \in 1 .. Len(t.via) - 1
    <3>1. i # Len(t.via) \/ Len(Hops(t)) # Len(t.via)
      BY <2>3, TokenElements
    <3> QED
      BY <3>1, Lengths
  <2> QED
    BY <2>1, <2>2, <2>3
<1>3. Cardinality(1 .. Len(t.via) - 1) = Len(t.via) - 1
  BY <1>1, FS_Interval
<1> QED
  BY <1>2, <1>3 DEF IBCHops

LEMMA AboveOne == \A n \in Nat : n = 0 \/ n = 1 \/ n > 1
OBVIOUS

LEMMA FirstHop ==
  ASSUME NEW t, FollowsPath(t), Hops(t) # <<>>, Head(Hops(t)) # NoHop
  PROVE  Len(t.via) > 1
<1>1. Len(Hops(t)) \in Nat \ {0} /\ Hops(t)[1] # NoHop
  BY TokenShape, EmptySeq
<1>2. Len(Hops(t)) # Len(t.via) \/ Len(t.via) # 1
  BY <1>1, TokenElements
<1>3. Len(t.via) # 1
  BY <1>1, <1>2, Lengths
<1> QED
  BY <1>3, Lengths, AboveOne

\* Only what came over a channel goes back.
LEMMA BackHasCome ==
  ASSUME NEW t, FollowsPath(t), NEW e \in End, IsCrossBack(t.path, e[2])
  PROVE  Len(t.via) > 1
<1>1. Hops(t) # <<>> /\ Head(Hops(t)) = e[2] /\ e[2] # NoHop
  BY ChannelsAssumption DEF IsCrossBack, Hops
<1> QED
  BY <1>1, FirstHop

LEMMA ArrivedBack ==
  ASSUME NEW t, FollowsPath(t), NEW e \in End, e[1] = Head(t.via), IsCrossBack(t.path, e[2])
  PROVE  2 \in 1 .. Len(t.via) /\ Arrived(t, e) = Suffix(t, 2)
<1>1. Len(t.via) > 1 /\ 2 \in 1 .. Len(t.via)
  BY BackHasCome, Lengths
<1>2. Hops(t) # <<>> /\ t.via # <<>>
  BY <1>1, TokenShape, EmptySeq DEF IsCrossBack, Hops
<1>3. Tail(t.via) = SubSeq(t.via, 2, Len(t.via)) /\ Tail(Hops(t)) = SubSeq(Hops(t), 2, Len(Hops(t)))
  BY <1>2, TokenShape, TailIsSubSeq
<1>4. Arrived(t, e) = [path |-> [t.path EXCEPT !.hops = Tail(Hops(t))], via |-> Tail(t.via)]
  BY <1>1 DEF Arrived, CalculateNextDenomPath, Hops
<1> QED
  BY <1>1, <1>3, <1>4 DEF Suffix, StationDenom, Hops

LEMMA ArrivedOutShape ==
  ASSUME NEW t, FollowsPath(t), NEW e \in End, e[1] = Head(t.via), ~IsCrossBack(t.path, e[2])
  PROVE  /\ Arrived(t, e) = [path |-> Arrived(t, e).path, via |-> Arrived(t, e).via]
         /\ Arrived(t, e).path = CalculateNextDenomPath(t.path, e[2], Peer[e][2])
         /\ Arrived(t, e).path \in Denom /\ Arrived(t, e).path.root = t.path.root
         /\ Arrived(t, e).via \in Seq(Chain)
         /\ Len(Arrived(t, e).via) = Len(t.via) + 1
         /\ Len(Hops(Arrived(t, e))) = Len(Hops(t)) + 1
         /\ Arrived(t, e).via[1] = Peer[e][1] /\ Hops(Arrived(t, e))[1] = Peer[e][2]
         /\ \A i \in 1 .. Len(t.via) : Arrived(t, e).via[i + 1] = t.via[i]
         /\ \A i \in 1 .. Len(Hops(t)) : Hops(Arrived(t, e))[i + 1] = Hops(t)[i]
<1> DEFINE r == Arrived(t, e)
           V == <<Peer[e][1]>> \o t.via
           H == <<Peer[e][2]>> \o Hops(t)
<1>1. r = [path |-> [t.path EXCEPT !.hops = H], via |-> V]
  BY DEF Arrived, CalculateNextDenomPath, Hops
<1>2. Peer[e][1] \in Chain /\ Peer[e][2] \in Hop
  BY ChannelsAssumption
<1>3. <<Peer[e][1]>> \in Seq(Chain) /\ <<Peer[e][2]>> \in Seq(Hop \cup {NoHop})
  BY <1>2
<1>4. Len(<<Peer[e][1]>>) = 1 /\ Len(<<Peer[e][2]>>) = 1
  OBVIOUS
<1>5. /\ V \in Seq(Chain) /\ Len(V) = 1 + Len(t.via)
      /\ \A i \in 1 .. 1 + Len(t.via) : V[i] = IF i <= 1 THEN <<Peer[e][1]>>[i] ELSE t.via[i - 1]
  BY <1>3, <1>4, TokenShape, ConcatProperties
<1>6. /\ H \in Seq(Hop \cup {NoHop}) /\ Len(H) = 1 + Len(Hops(t))
      /\ \A i \in 1 .. 1 + Len(Hops(t)) : H[i] = IF i <= 1 THEN <<Peer[e][2]>>[i] ELSE Hops(t)[i - 1]
  BY <1>3, <1>4, TokenShape, ConcatProperties
<1> HIDE DEF V, H
<1>7. V[1] = Peer[e][1] /\ H[1] = Peer[e][2]
  <2>1. 1 \in 1 .. 1 + Len(t.via) /\ 1 \in 1 .. 1 + Len(Hops(t))
    BY Lengths
  <2> QED
    BY <1>5, <1>6, <2>1
<1>8. ASSUME NEW i \in 1 .. Len(t.via)
      PROVE  V[i + 1] = t.via[i]
  <2>1. i + 1 \in 1 .. 1 + Len(t.via) /\ ~(i + 1 <= 1) /\ (i + 1) - 1 = i
    BY Lengths
  <2> QED
    BY <1>5, <2>1
<1>9. ASSUME NEW i \in 1 .. Len(Hops(t))
      PROVE  H[i + 1] = Hops(t)[i]
  <2>1. i + 1 \in 1 .. 1 + Len(Hops(t)) /\ ~(i + 1 <= 1) /\ (i + 1) - 1 = i
    BY Lengths
  <2> QED
    BY <1>6, <2>1
<1>10. /\ [t.path EXCEPT !.hops = H] \in Denom /\ [t.path EXCEPT !.hops = H].root = t.path.root
       /\ [t.path EXCEPT !.hops = H].hops = H
  BY <1>6, TokenShape DEF Denom
<1>11. r.path = [t.path EXCEPT !.hops = H] /\ r.via = V /\ Hops(r) = H
  <2>1. r.path = [t.path EXCEPT !.hops = H]
    BY <1>1
  <2>2. r.via = V
    BY <1>1
  <2> HIDE DEF r
  <2> QED
    BY <2>1, <2>2, <1>10 DEF Hops
<1>12. r.path = CalculateNextDenomPath(t.path, e[2], Peer[e][2])
  BY DEF Arrived
<1>13. Len(V) = Len(t.via) + 1 /\ Len(H) = Len(Hops(t)) + 1
  BY <1>5, <1>6, Lengths
<1> HIDE DEF r
<1>14. r = [path |-> r.path, via |-> r.via]
  BY <1>1, <1>11
<1>15. r.path \in Denom /\ r.path.root = t.path.root
  BY <1>10, <1>11
<1>16. \A i \in 1 .. Len(t.via) : r.via[i + 1] = t.via[i]
  BY <1>8, <1>11
<1>17. \A i \in 1 .. Len(Hops(t)) : Hops(r)[i + 1] = Hops(t)[i]
  BY <1>9, <1>11
<1>18. r.via \in Seq(Chain) /\ Len(r.via) = Len(t.via) + 1 /\ Len(Hops(r)) = Len(Hops(t)) + 1
  BY <1>5, <1>11, <1>13
<1>19. r.via[1] = Peer[e][1] /\ Hops(r)[1] = Peer[e][2]
  BY <1>7, <1>11
<1> QED
  BY <1>12, <1>14, <1>15, <1>16, <1>17, <1>18, <1>19 DEF r

LEMMA ArrivedFollows ==
  ASSUME NEW t, FollowsPath(t), NEW e \in End, e[1] = Head(t.via)
  PROVE  FollowsPath(Arrived(t, e))
<1>1. CASE IsCrossBack(t.path, e[2])
  BY <1>1, ArrivedBack, SuffixFollows
<1>2. CASE ~IsCrossBack(t.path, e[2])
  <2> DEFINE r == Arrived(t, e)
  <2>1. /\ r = [path |-> r.path, via |-> r.via]
        /\ r.path \in Denom /\ r.via \in Seq(Chain)
        /\ Len(r.via) = Len(t.via) + 1 /\ Len(Hops(r)) = Len(Hops(t)) + 1
        /\ r.via[1] = Peer[e][1] /\ Hops(r)[1] = Peer[e][2]
        /\ \A i \in 1 .. Len(t.via) : r.via[i + 1] = t.via[i]
        /\ \A i \in 1 .. Len(Hops(t)) : Hops(r)[i + 1] = Hops(t)[i]
    BY <1>2, ArrivedOutShape
  <2> HIDE DEF r
  <2>2. Len(r.via) # 0
    BY <2>1, Lengths
  <2>3. r.via # <<>>
    BY <2>1, <2>2, EmptySeq
  <2>4. r \in [path : Denom, via : Seq(Chain) \ {<<>>}]
    BY <2>1, <2>3
  <2>5. Len(Hops(r)) \in {Len(r.via) - 1, Len(r.via)}
    BY <2>1, Lengths
  <2>6. ASSUME Len(Hops(r)) = Len(r.via)
        PROVE  Hops(r)[Len(r.via)] = NoHop
    <3>1. Len(Hops(t)) = Len(t.via) /\ Len(t.via) \in 1 .. Len(Hops(t))
      BY <2>1, <2>6, Lengths
    <3>2. Hops(r)[Len(t.via) + 1] = Hops(t)[Len(t.via)]
      BY <2>1, <3>1
    <3> QED
      BY <2>1, <3>1, <3>2, TokenElements
  <2>7. ASSUME NEW n \in 1 .. Len(r.via) - 1
        PROVE  Leg(r, n) \in End /\ Peer[Leg(r, n)][1] = r.via[n + 1]
    <3>1. CASE n = 1
      <4>1. Leg(r, 1) = <<Peer[e][1], Peer[e][2]>>
        BY <2>1 DEF Leg, Hops
      <4>2. Peer[e] \in End /\ Peer[e] = <<Peer[e][1], Peer[e][2]>> /\ Peer[Peer[e]] = e
        <5>1. Peer[e] \in End /\ Peer[Peer[e]] = e
          BY ChannelsAssumption
        <5>2. Peer[e] \in Chain \X Hop
          BY <5>1, ChannelsAssumption
        <5> QED
          BY <5>1, <5>2
      <4>3. 1 \in 1 .. Len(t.via)
        BY Lengths
      <4>4. r.via[2] = t.via[1]
        <5>1. r.via[1 + 1] = t.via[1]
          BY <2>1, <4>3
        <5> QED
          BY <5>1
      <4>5. Peer[Leg(r, 1)][1] = t.via[1] /\ Leg(r, 1) \in End
        BY <4>1, <4>2, TokenShape
      <4> QED
        BY <3>1, <4>4, <4>5
    <3>2. CASE n # 1
      <4>1. n - 1 \in 1 .. Len(t.via) - 1
        BY <2>1, <3>2, Lengths
      <4>2. /\ n - 1 \in 1 .. Len(t.via) /\ n \in 1 .. Len(t.via) /\ n - 1 \in 1 .. Len(Hops(t))
            /\ (n - 1) + 1 = n
        BY <4>1, Lengths
      <4>3. r.via[n] = t.via[n - 1] /\ r.via[n + 1] = t.via[n] /\ Hops(r)[n] = Hops(t)[n - 1]
        <5>1. r.via[(n - 1) + 1] = t.via[n - 1] /\ r.via[n + 1] = t.via[n]
          BY <2>1, <4>2
        <5>2. Hops(r)[(n - 1) + 1] = Hops(t)[n - 1]
          BY <2>1, <4>2
        <5> QED
          BY <5>1, <5>2, <4>2
      <4>4. Leg(r, n) = Leg(t, n - 1)
        BY <4>3 DEF Leg, Hops
      <4>5. Leg(t, n - 1) \in End /\ Peer[Leg(t, n - 1)][1] = t.via[(n - 1) + 1]
        BY <4>1, TokenElements
      <4> QED
        BY <4>2, <4>3, <4>4, <4>5
    <3> QED
      BY <3>1, <3>2
  <2>8. FollowsPath(r)
    BY <2>4, <2>5, <2>6, <2>7 DEF FollowsPath, Hops
  <2> QED
    BY <2>8 DEF r
<1> QED
  BY <1>1, <1>2

\* A token that moves on has the way it had, and one more hop in front.
LEMMA ArrivedOut ==
  ASSUME NEW t, FollowsPath(t), NEW e \in End, e[1] = Head(t.via), ~IsCrossBack(t.path, e[2])
  PROVE  /\ 2 \in 1 .. Len(Arrived(t, e).via) /\ Suffix(Arrived(t, e), 2) = t
         /\ Leg(Arrived(t, e), 1) = Peer[e]
         /\ TokenKey(Arrived(t, e)) = KeyOf(Peer[e][1], CalculateNextDenomPath(t.path, e[2], Peer[e][2]))
<1> DEFINE r == Arrived(t, e)
           s == Suffix(r, 2)
<1>1. FollowsPath(r)
  BY ArrivedFollows
<1>2. /\ r.path = CalculateNextDenomPath(t.path, e[2], Peer[e][2])
      /\ r.path.root = t.path.root
      /\ Len(r.via) = Len(t.via) + 1 /\ Len(Hops(r)) = Len(Hops(t)) + 1
      /\ r.via[1] = Peer[e][1] /\ Hops(r)[1] = Peer[e][2]
      /\ \A i \in 1 .. Len(t.via) : r.via[i + 1] = t.via[i]
      /\ \A i \in 1 .. Len(Hops(t)) : Hops(r)[i + 1] = Hops(t)[i]
  BY ArrivedOutShape
<1> HIDE DEF r
<1>3. 2 \in 1 .. Len(r.via)
  BY <1>2, Lengths
<1>4. FollowsPath(s)
  BY <1>1, <1>3, SuffixFollows
<1>5. s.path.root = t.path.root
  BY <1>1, <1>2, <1>3, StationShape DEF Suffix
<1>6. /\ Len(s.via) = Len(r.via) - 2 + 1 /\ Len(Hops(s)) = Len(Hops(r)) - 2 + 1
      /\ \A i \in 1 .. Len(r.via) - 2 + 1 : s.via[i] = r.via[2 + i - 1]
      /\ \A i \in 1 .. Len(Hops(r)) - 2 + 1 : Hops(s)[i] = Hops(r)[2 + i - 1]
  <2>1. Len(s.via) = Len(r.via) - 2 + 1 /\ Len(Hops(s)) = Len(Hops(r)) - 2 + 1
    BY <1>1, <1>3, SuffixShape
  <2>2. \A i \in 1 .. Len(r.via) - 2 + 1 : s.via[i] = r.via[2 + i - 1]
    BY <1>1, <1>3, SuffixShape
  <2>3. \A i \in 1 .. Len(Hops(r)) - 2 + 1 : Hops(s)[i] = Hops(r)[2 + i - 1]
    BY <1>1, <1>3, SuffixShape
  <2> QED
    BY <2>1, <2>2, <2>3
<1> HIDE DEF s
<1>7. Len(s.via) = Len(t.via) /\ Len(Hops(s)) = Len(Hops(t))
  BY <1>2, <1>6, Lengths
<1>8. ASSUME NEW i \in 1 .. Len(s.via)
      PROVE  s.via[i] = t.via[i]
  <2>1. i \in 1 .. Len(t.via) /\ 2 + i - 1 = i + 1 /\ i \in 1 .. Len(r.via) - 2 + 1
    BY <1>6, <1>7, Lengths
  <2> QED
    BY <1>2, <1>6, <2>1
<1>9. ASSUME NEW i \in 1 .. Len(Hops(s))
      PROVE  Hops(s)[i] = Hops(t)[i]
  <2>1. i \in 1 .. Len(Hops(t)) /\ 2 + i - 1 = i + 1 /\ i \in 1 .. Len(Hops(r)) - 2 + 1
    BY <1>6, <1>7, Lengths
  <2> QED
    BY <1>2, <1>6, <2>1
<1>10. s.via = t.via
  BY <1>4, <1>7, <1>8, TokenShape, SeqEqual
<1>11. Hops(s) = Hops(t)
  BY <1>4, <1>7, <1>9, TokenShape, SeqEqual
<1>12. s.path = t.path
  BY <1>4, <1>5, <1>11, TokenShape, DenomEqual DEF Hops
<1>13. s = t
  BY <1>4, <1>10, <1>12, TokenShape
<1>14. Leg(r, 1) = Peer[e]
  <2>1. Peer[e] \in Chain \X Hop
    BY ChannelsAssumption
  <2>2. Peer[e] = <<Peer[e][1], Peer[e][2]>>
    BY <2>1
  <2> QED
    BY <1>2, <2>2 DEF Leg, Hops
<1>15. TokenKey(r) = KeyOf(Peer[e][1], CalculateNextDenomPath(t.path, e[2], Peer[e][2]))
  BY <1>1, <1>2, TokenShape DEF TokenKey
<1> QED
  BY <1>3, <1>13, <1>14, <1>15 DEF r, s

LEMMA ArrivedStations ==
  ASSUME NEW t, FollowsPath(t), NEW e \in End, e[1] = Head(t.via), ~IsCrossBack(t.path, e[2]),
         NEW n \in 1 .. Len(t.via)
  PROVE  /\ n + 1 \in 1 .. Len(Arrived(t, e).via) /\ Len(Arrived(t, e).via) = Len(t.via) + 1
         /\ At(Arrived(t, e), n + 1) = At(t, n)
         /\ n < Len(t.via) => Leg(Arrived(t, e), n + 1) = Leg(t, n)
<1> DEFINE r == Arrived(t, e)
<1>1. FollowsPath(r) /\ Len(r.via) = Len(t.via) + 1
  BY ArrivedFollows, ArrivedOutShape
<1>2. 2 \in 1 .. Len(r.via) /\ Suffix(r, 2) = t
  BY ArrivedOut
<1> HIDE DEF r
<1>3. n \in 1 .. Len(r.via) - 2 + 1 /\ 2 + n - 1 = n + 1 /\ n + 1 \in 1 .. Len(r.via)
      /\ (n < Len(t.via) => n < Len(r.via) - 2 + 1)
  BY <1>1, Lengths
<1>4. At(Suffix(r, 2), n) = At(r, 2 + n - 1)
  BY <1>1, <1>2, <1>3, SuffixStations
<1>5. n < Len(t.via) => Leg(Suffix(r, 2), n) = Leg(r, 2 + n - 1)
  BY <1>1, <1>2, <1>3, SuffixStations
<1> QED
  BY <1>1, <1>2, <1>3, <1>4, <1>5 DEF r

----------------------------------------------------------------------------
(* How far a trace gets.                                                   *)

\* What is configured: channels of S, with the chains they lead to.
Has(cf, e) == e[1] \in DOMAIN cf /\ e[2] \in DOMAIN cf[e[1]]
ConfIn(cf, S) ==
  \A c \in DOMAIN cf : \A h \in DOMAIN cf[c] :
    /\ <<c, h>> \in S
    /\ cf[c][h].chain = Peer[<<c, h>>][1] /\ cf[c][h].other \in {NoHop, Peer[<<c, h>>][2]}
\* No configured channel leads on from a station.
Final(cf, b) == b[2].hops = <<>> \/ ~Has(cf, <<b[1], Head(b[2].hops)>>)

WalkStep(path, chain, cf, f, n) ==
  IF n = 0 THEN <<chain>>
  ELSE LET before == f[n - 1]
           next == MatchDcInfo(before[n], path.hops[n], cf).chain
       IN  IF Len(before) < n \/ next = NoChain THEN before ELSE Append(before, next)

LEMMA StationsDef ==
  ASSUME NEW path, NEW chain, NEW cf
  PROVE  Stations(path, chain, cf) =
           (CHOOSE f : f = [n \in 0 .. Len(path.hops) |-> WalkStep(path, chain, cf, f, n)])[Len(path.hops)]
BY DEF Stations, WalkStep

\* A walk is what its steps say.
LEMMA WalkIs ==
  ASSUME NEW path, NEW chain, NEW cf, NEW W, Len(path.hops) \in Nat,
         DOMAIN W = 0 .. Len(path.hops), W = [n \in DOMAIN W |-> W[n]],
         \A n \in 0 .. Len(path.hops) : W[n] = WalkStep(path, chain, cf, W, n)
  PROVE  Stations(path, chain, cf) = W[Len(path.hops)]
<1> DEFINE L == Len(path.hops)
           Is(f) == f = [n \in 0 .. L |-> WalkStep(path, chain, cf, f, n)]
<1>1. Is(W)
  <2>1. W = [n \in 0 .. L |-> W[n]]
    OBVIOUS
  <2>2. [n \in 0 .. L |-> W[n]] = [n \in 0 .. L |-> WalkStep(path, chain, cf, W, n)]
    OBVIOUS
  <2> QED
    BY <2>1, <2>2
<1>2. ASSUME NEW f, Is(f)
      PROVE  f[L] = W[L]
  <2> DEFINE Bad == {n \in 0 .. L : f[n] # W[n]}
  <2>1. Bad = {}
    <3> SUFFICES ASSUME Bad # {}
                 PROVE  FALSE
      OBVIOUS
    <3>1. Bad \subseteq Nat
      OBVIOUS
    <3> HIDE DEF Bad
    <3>2. PICK n \in Bad : \A m \in Bad : n <= m
      BY <3>1, LeastNumber
    <3> USE DEF Bad
    <3>3. n \in 0 .. L /\ f[n] # W[n]
      OBVIOUS
    <3>4. f[n] = WalkStep(path, chain, cf, f, n) /\ W[n] = WalkStep(path, chain, cf, W, n)
      BY <1>2, <3>3
    <3>5. n # 0
      BY <3>3, <3>4 DEF WalkStep
    <3>6. n - 1 \in 0 .. L /\ ~(n <= n - 1)
      BY <3>3, <3>5
    <3>7. f[n - 1] = W[n - 1]
      BY <3>2, <3>6
    <3>8. WalkStep(path, chain, cf, f, n) = WalkStep(path, chain, cf, W, n)
      BY <3>7 DEF WalkStep
    <3> QED
      BY <3>3, <3>4, <3>8
  <2>2. L \in 0 .. L
    OBVIOUS
  <2> QED
    BY <2>1, <2>2
<1>3. Stations(path, chain, cf) = (CHOOSE f : Is(f))[L]
  BY StationsDef
<1> HIDE DEF Is
<1>4. Is(CHOOSE f : Is(f))
  BY <1>1
<1> QED
  BY <1>2, <1>3, <1>4

LEMMA Walk ==
  ASSUME NEW t, FollowsPath(t), NEW cf, NEW S, S \subseteq End, ConfIn(cf, S)
  PROVE  \E m \in 1 .. Len(t.via) :
           /\ Stations(t.path, Head(t.via), cf) = SubSeq(t.via, 1, m)
           /\ \A j \in 1 .. m - 1 : Leg(t, j) \in S /\ Has(cf, Leg(t, j))
           /\ Final(cf, At(t, m))
<1> DEFINE V == Len(t.via)
           L == Len(Hops(t))
           Stop == {n \in 1 .. V : n = V \/ ~Has(cf, Leg(t, n))}
<1>1. V \in Nat \ {0} /\ L \in Nat /\ (L = V - 1 \/ L = V)
  BY Lengths
<1>2. Stop \subseteq Nat /\ V \in Stop
  BY <1>1
<1>3. PICK m \in Stop : \A n \in Stop : m <= n
  <2> HIDE DEF Stop
  <2> QED
    BY <1>2, LeastNumber
<1>4. m \in 1 .. V /\ (m = V \/ ~Has(cf, Leg(t, m)))
  OBVIOUS
<1>5. \A j \in 1 .. m - 1 : j \in 1 .. V - 1 /\ Has(cf, Leg(t, j))
  <2> TAKE j \in 1 .. m - 1
  <2>1. j \in 1 .. V /\ j \in 1 .. V - 1 /\ ~(m <= j)
    BY <1>1, <1>4
  <2> QED
    BY <1>3, <2>1
<1> HIDE DEF Stop
<1>6. ASSUME NEW j \in 1 .. m - 1
      PROVE  Leg(t, j) \in S /\ MatchDcInfo(t.via[j], Hops(t)[j], cf).chain = t.via[j + 1]
  <2>1. Leg(t, j) = <<t.via[j], Hops(t)[j]>> /\ Peer[Leg(t, j)][1] = t.via[j + 1]
    BY <1>5, TokenElements
  <2>2. t.via[j] \in DOMAIN cf /\ Hops(t)[j] \in DOMAIN cf[t.via[j]]
    BY <1>5, <2>1 DEF Has
  <2>3. Leg(t, j) \in S /\ cf[t.via[j]][Hops(t)[j]].chain = t.via[j + 1]
    BY <2>1, <2>2 DEF ConfIn
  <2>4. MatchDcInfo(t.via[j], Hops(t)[j], cf).chain = cf[t.via[j]][Hops(t)[j]].chain
    BY <2>2 DEF MatchDcInfo
  <2> QED
    BY <2>3, <2>4
<1>7. ASSUME m <= L
      PROVE  ~Has(cf, <<t.via[m], Hops(t)[m]>>)
  <2>1. CASE m = V
    <3>1. L = V
      BY <1>1, <1>7, <2>1
    <3>2. Hops(t)[m] = NoHop
      BY <2>1, <3>1, TokenElements
    <3>3. <<t.via[m], NoHop>> \notin S
      BY ChannelsAssumption
    <3> QED
      BY <3>2, <3>3 DEF Has, ConfIn
  <2>2. CASE m # V
    <3>1. m \in 1 .. V - 1
      BY <1>1, <1>4, <2>2
    <3>2. Leg(t, m) = <<t.via[m], Hops(t)[m]>>
      BY <3>1, TokenElements
    <3> QED
      BY <1>4, <2>2, <3>2
  <2> QED
    BY <2>1, <2>2
<1> DEFINE Far(n) == IF n + 1 <= m THEN n + 1 ELSE m
           W == [n \in 0 .. L |-> SubSeq(t.via, 1, Far(n))]
<1>8. \A k \in 1 .. V : /\ SubSeq(t.via, 1, k) \in Seq(Chain) /\ Len(SubSeq(t.via, 1, k)) = k
                        /\ \A i \in 1 .. k : SubSeq(t.via, 1, k)[i] = t.via[i]
  <2> TAKE k \in 1 .. V
  <2>1. 1 \in Int /\ k \in Int /\ 1 <= k /\ \A i \in 1 .. k : t.via[i] \in Chain
    BY <1>1, TokenElements
  <2>2. /\ SubSeq(t.via, 1, k) \in Seq(Chain)
        /\ Len(SubSeq(t.via, 1, k)) = IF 1 <= k THEN k - 1 + 1 ELSE 0
        /\ \A i \in 1 .. k - 1 + 1 : SubSeq(t.via, 1, k)[i] = t.via[1 + i - 1]
    BY <2>1, SubSeqProperties
  <2>3. k - 1 + 1 = k /\ \A i \in 1 .. k : 1 + i - 1 = i
    BY <2>1
  <2> QED
    BY <2>1, <2>2, <2>3
<1>9. ASSUME NEW n \in 0 .. L
      PROVE  W[n] = WalkStep(t.path, Head(t.via), cf, W, n)
  <2>1. CASE n = 0
    <3>1. Far(0) = 1 /\ 1 \in 1 .. V /\ 0 \in 0 .. L
      BY <1>1, <1>4
    <3>2. SubSeq(t.via, 1, 1) = <<t.via[1]>>
      <4>1. t.via[1] \in Chain
        BY <3>1, TokenElements
      <4>2. <<t.via[1]>> \in Seq(Chain) /\ Len(<<t.via[1]>>) = 1 /\ <<t.via[1]>>[1] = t.via[1]
        BY <4>1
      <4>3. /\ SubSeq(t.via, 1, 1) \in Seq(Chain) /\ Len(SubSeq(t.via, 1, 1)) = 1
            /\ \A i \in 1 .. 1 : SubSeq(t.via, 1, 1)[i] = t.via[i]
        BY <1>8, <3>1
      <4>4. \A i \in 1 .. Len(SubSeq(t.via, 1, 1)) : SubSeq(t.via, 1, 1)[i] = <<t.via[1]>>[i]
        <5>1. \A i \in 1 .. 1 : i = 1
          OBVIOUS
        <5> QED
          BY <4>2, <4>3, <5>1
      <4> QED
        BY <4>2, <4>3, <4>4, SeqEqual
    <3>3. W[0] = SubSeq(t.via, 1, 1)
      BY <3>1
    <3> HIDE DEF W
    <3>4. WalkStep(t.path, Head(t.via), cf, W, 0) = <<Head(t.via)>>
      BY DEF WalkStep
    <3> QED
      BY <2>1, <3>2, <3>3, <3>4, TokenShape
  <2>2. CASE n # 0
    <3> DEFINE before == W[n - 1]
               next == MatchDcInfo(before[n], t.path.hops[n], cf).chain
    <3>1. n - 1 \in 0 .. L /\ n \in 1 .. L /\ (n - 1) + 1 = n
      BY <1>1, <2>2
    <3>2. before = SubSeq(t.via, 1, IF n <= m THEN n ELSE m)
      BY <3>1
    <3>3. W[n] = SubSeq(t.via, 1, Far(n))
      OBVIOUS
    <3> HIDE DEF W
    <3>4. WalkStep(t.path, Head(t.via), cf, W, n) =
            IF Len(before) < n \/ next = NoChain THEN before ELSE Append(before, next)
      BY <2>2 DEF WalkStep
    <3> HIDE DEF before
    <3>5. CASE n < m
      <4>1. n \in 1 .. V /\ n \in 1 .. m - 1 /\ n + 1 \in 1 .. V /\ Far(n) = n + 1 /\ n <= m
        BY <1>1, <1>4, <3>1, <3>5
      <4>2. before = SubSeq(t.via, 1, n)
        BY <3>2, <4>1
      <4>3. Len(before) = n /\ before[n] = t.via[n]
        <5>1. n \in 1 .. n
          BY <4>1
        <5> QED
          BY <1>8, <4>1, <4>2, <5>1
      <4>4. next = t.via[n + 1] /\ t.via[n + 1] \in Chain
        BY <1>6, <4>1, <4>3, TokenElements DEF Hops
      <4>5. next # NoChain
        BY <4>4, ChannelsAssumption
      <4>6. ~(Len(before) < n)
        BY <3>1, <4>3
      <4>7. WalkStep(t.path, Head(t.via), cf, W, n) = Append(before, t.via[n + 1])
        BY <3>4, <4>4, <4>5, <4>6
      <4>8. SubSeq(t.via, 1, n + 1) = Append(before, t.via[n + 1])
        <5>1. /\ before \in Seq(Chain) /\ \A i \in 1 .. n : before[i] = t.via[i]
          BY <1>8, <4>1, <4>2
        <5>2. /\ SubSeq(t.via, 1, n + 1) \in Seq(Chain) /\ Len(SubSeq(t.via, 1, n + 1)) = n + 1
              /\ \A i \in 1 .. n + 1 : SubSeq(t.via, 1, n + 1)[i] = t.via[i]
          BY <1>8, <4>1
        <5> DEFINE A == Append(before, t.via[n + 1])
        <5>3. /\ A \in Seq(Chain) /\ Len(A) = n + 1
              /\ \A i \in 1 .. n : A[i] = before[i]
              /\ A[n + 1] = t.via[n + 1]
          BY <4>3, <4>4, <5>1, AppendProperties
        <5> HIDE DEF A
        <5>4. \A i \in 1 .. n + 1 : i \in 1 .. n \/ i = n + 1
          BY <3>1
        <5>5. \A i \in 1 .. n + 1 : SubSeq(t.via, 1, n + 1)[i] = A[i]
          BY <5>1, <5>2, <5>3, <5>4
        <5>6. SubSeq(t.via, 1, n + 1) = A
          BY <5>2, <5>3, <5>5, SeqEqual
        <5> QED
          BY <5>6 DEF A
      <4> QED
        BY <3>3, <4>1, <4>7, <4>8
    <3>6. CASE ~(n < m)
      <4>1. ~(n + 1 <= m) /\ Far(n) = m /\ m <= n /\ (n <= m => n = m)
        BY <1>4, <3>1, <3>6
      <4>2. before = SubSeq(t.via, 1, m)
        BY <3>2, <4>1
      <4>3. Len(before) = m /\ before[m] = t.via[m]
        <5>1. m \in 1 .. m
          BY <1>4
        <5> QED
          BY <1>4, <1>8, <4>2, <5>1
      <4>4. CASE m < n
        BY <3>3, <3>4, <4>1, <4>2, <4>3, <4>4
      <4>5. CASE m = n
        <5>1. ~Has(cf, <<t.via[m], Hops(t)[m]>>)
          BY <1>7, <3>1, <4>5
        <5>2. next = NoChain
          BY <4>3, <4>5, <5>1 DEF MatchDcInfo, Has, Hops
        <5> QED
          BY <3>3, <3>4, <4>1, <4>2, <5>2
      <4> QED
        BY <1>4, <3>1, <4>1, <4>4, <4>5
    <3> QED
      BY <3>5, <3>6
  <2> QED
    BY <2>1, <2>2
<1>10. Stations(t.path, Head(t.via), cf) = W[L]
  <2>1. DOMAIN W = 0 .. L /\ W = [n \in DOMAIN W |-> W[n]]
    OBVIOUS
  <2>2. \A n \in 0 .. L : W[n] = WalkStep(t.path, Head(t.via), cf, W, n)
    BY <1>9
  <2>3. L = Len(t.path.hops)
    BY DEF Hops
  <2> HIDE DEF W, L
  <2>4. Stations(t.path, Head(t.via), cf) = W[Len(t.path.hops)]
    BY <1>1, <2>1, <2>2, <2>3, WalkIs
  <2> QED
    BY <2>3, <2>4
<1>11. W[L] = SubSeq(t.via, 1, m)
  <2>1. L \in 0 .. L
    BY <1>1
  <2>2. Far(L) = m
    BY <1>1, <1>4
  <2> QED
    BY <2>1, <2>2
<1>12. Final(cf, At(t, m))
  <2>1. /\ At(t, m)[1] = t.via[m] /\ At(t, m)[2] = StationDenom(t, m)
    BY DEF At
  <2>2. /\ At(t, m)[2].hops \in Seq(Hop \cup {NoHop}) /\ Len(At(t, m)[2].hops) = L - m + 1
        /\ \A i \in 1 .. L - m + 1 : At(t, m)[2].hops[i] = Hops(t)[m + i - 1]
    <3> HIDE DEF L
    <3>1. /\ StationDenom(t, m).hops = SubSeq(Hops(t), m, Len(Hops(t)))
          /\ SubSeq(Hops(t), m, Len(Hops(t))) \in Seq(Hop \cup {NoHop})
          /\ Len(SubSeq(Hops(t), m, Len(Hops(t)))) = Len(Hops(t)) - m + 1
          /\ \A i \in 1 .. Len(Hops(t)) - m + 1 :
               SubSeq(Hops(t), m, Len(Hops(t)))[i] = Hops(t)[m + i - 1]
      BY <1>4, StationShape
    <3> QED
      BY <2>1, <3>1 DEF L
  <2>3. CASE m <= L
    <3>1. 1 \in 1 .. L - m + 1 /\ m + 1 - 1 = m
      BY <1>1, <1>4, <2>3
    <3>2. At(t, m)[2].hops[1] = Hops(t)[m]
      BY <2>2, <3>1
    <3>3. Head(At(t, m)[2].hops) = Hops(t)[m]
      BY <3>2
    <3> QED
      BY <1>7, <2>1, <2>3, <3>3 DEF Final
  <2>4. CASE ~(m <= L)
    <3>1. L - m + 1 = 0
      BY <1>1, <1>4, <2>4
    <3>2. At(t, m)[2].hops = <<>>
      BY <2>2, <3>1, EmptySeq
    <3> QED
      BY <3>2 DEF Final
  <2> QED
    BY <2>3, <2>4
<1> QED
  BY <1>4, <1>5, <1>6, <1>10, <1>11, <1>12

\* A final station that is not the origin has a next channel that is not configured.
LEMMA FinalStops ==
  ASSUME NEW t, FollowsPath(t), NEW cf, NEW n \in 1 .. Len(t.via) - 1, Final(cf, At(t, n))
  PROVE  ~Has(cf, Leg(t, n))
<1>1. n \in 1 .. Len(t.via) /\ n \in 1 .. Len(Hops(t)) /\ 1 \in 1 .. Len(Hops(t)) - n + 1 /\ n + 1 - 1 = n
  BY Lengths
<1>2. /\ StationDenom(t, n).hops = SubSeq(Hops(t), n, Len(Hops(t)))
      /\ SubSeq(Hops(t), n, Len(Hops(t))) \in Seq(Hop \cup {NoHop})
      /\ Len(SubSeq(Hops(t), n, Len(Hops(t)))) = Len(Hops(t)) - n + 1
      /\ \A i \in 1 .. Len(Hops(t)) - n + 1 :
           SubSeq(Hops(t), n, Len(Hops(t)))[i] = Hops(t)[n + i - 1]
  BY <1>1, StationShape
<1> DEFINE H == SubSeq(Hops(t), n, Len(Hops(t)))
<1>3. Len(H) # 0
  BY <1>1, <1>2, Lengths
<1>4. H # <<>> /\ H[1] = Hops(t)[n]
  BY <1>1, <1>2, <1>3, EmptySeq
<1>5. At(t, n)[1] = t.via[n] /\ At(t, n)[2].hops = H
  BY <1>2 DEF At
<1>6. Head(H) = Hops(t)[n]
  BY <1>4
<1> HIDE DEF H
<1>7. Leg(t, n) = <<t.via[n], Hops(t)[n]>>
  BY TokenElements
<1> QED
  BY <1>4, <1>5, <1>6, <1>7 DEF Final

LEMMA FinalHome ==
  ASSUME NEW t, FollowsPath(t), NEW cf, NEW n \in 1 .. Len(t.via), Final(cf, At(t, n)),
         \A j \in 1 .. Len(t.via) - 1 : Has(cf, Leg(t, j))
  PROVE  n = Len(t.via)
<1> SUFFICES ASSUME n # Len(t.via)
             PROVE  FALSE
  OBVIOUS
<1>1. n \in 1 .. Len(t.via) - 1
  BY Lengths
<1> QED
  BY <1>1, FinalStops

LEMMA KnowsLegs ==
  ASSUME NEW t, FollowsPath(t), NEW cf, NEW S, S \subseteq End, ConfIn(cf, S), KnowsWay(t, cf)
  PROVE  \A j \in 1 .. Len(t.via) - 1 : Has(cf, Leg(t, j))
<1>1. PICK m \in 1 .. Len(t.via) :
           /\ Stations(t.path, Head(t.via), cf) = SubSeq(t.via, 1, m)
           /\ \A j \in 1 .. m - 1 : Leg(t, j) \in S /\ Has(cf, Leg(t, j))
  BY Walk
<1>2. SubSeq(t.via, 1, m) = t.via
  BY <1>1 DEF KnowsWay
<1>3. 1 \in Int /\ m \in Int /\ 1 <= m /\ \A i \in 1 .. m : t.via[i] \in Chain
  BY TokenElements, Lengths
<1>4. Len(SubSeq(t.via, 1, m)) = IF 1 <= m THEN m - 1 + 1 ELSE 0
  BY <1>3, SubSeqProperties
<1>5. Len(t.via) = m
  BY <1>2, <1>3, <1>4
<1> QED
  BY <1>1, <1>5

LEMMA FirstStation ==
  ASSUME NEW t, FollowsPath(t)
  PROVE  1 \in 1 .. Len(t.via) /\ StationDenom(t, 1) = t.path /\ At(t, 1) = <<Head(t.via), t.path>>
<1>1. 1 \in 1 .. Len(t.via)
  BY Lengths
<1>2. StationDenom(t, 1).hops = SubSeq(Hops(t), 1, Len(Hops(t)))
      /\ StationDenom(t, 1) \in Denom /\ StationDenom(t, 1).root = t.path.root
  BY <1>1, StationShape
<1>3. SubSeq(Hops(t), 1, Len(Hops(t))) = Hops(t)
  BY TokenShape, SubSeqFull
<1>4. StationDenom(t, 1) = t.path
  BY <1>2, <1>3, TokenShape, DenomEqual DEF Hops
<1> QED
  BY <1>1, <1>4, TokenShape DEF At

----------------------------------------------------------------------------
(* Documents of denoms, and bases.                                         *)

DenomDoc ==
  [chain : Chain, denom : Denom, prevChain : Chain \cup {NoChain}, prevDenom : Denom,
   baseChain : Chain, baseDenom : Denom, isBase : BOOLEAN, ibcHops : Nat]
Base(d) == <<d.baseChain, d.baseDenom>>
\* A base is a station that channels of S lead to.
OnWay(t, b, S) == \E n \in 1 .. Len(t.via) : b = At(t, n) /\ \A j \in 1 .. n - 1 : Leg(t, j) \in S
DocOf(t, d, S) ==
  /\ d \in DenomDoc /\ OnWay(t, Base(d), S)
  /\ d.ibcHops = Len(t.via) - 1
  /\ d.prevChain # NoChain => Len(t.via) > 1 /\ <<d.prevChain, d.prevDenom>> = At(t, 2)
  /\ d.isBase => Base(d) = At(t, 1)

LEMMA DocMember ==
  ASSUME NEW c \in Chain, NEW n \in Denom, NEW pc \in Chain \cup {NoChain}, NEW pn \in Denom,
         NEW bc \in Chain, NEW bn \in Denom, NEW is \in BOOLEAN, NEW hops \in Nat
  PROVE  [chain |-> c, denom |-> n, prevChain |-> pc, prevDenom |-> pn, baseChain |-> bc,
          baseDenom |-> bn, isBase |-> is, ibcHops |-> hops] \in DenomDoc
BY DEF DenomDoc

LEMMA OnWayMore ==
  ASSUME NEW t, NEW b, NEW S, NEW T, OnWay(t, b, S), S \subseteq T
  PROVE  OnWay(t, b, T)
BY DEF OnWay

LEMMA DocOfMore ==
  ASSUME NEW t, NEW d, NEW S, NEW T, DocOf(t, d, S), S \subseteq T
  PROVE  DocOf(t, d, T)
BY OnWayMore DEF DocOf

\* What TraceDenom finds.
LEMMA Traced ==
  ASSUME NEW t, FollowsPath(t), NEW cf, NEW S, S \subseteq End, ConfIn(cf, S),
         NEW d, d = TraceDenom(t.path, Head(t.via), cf)
  PROVE  /\ DocOf(t, d, S)
         /\ \E m \in 1 .. Len(t.via) : /\ Base(d) = At(t, m) /\ Final(cf, At(t, m))
                                       /\ \A j \in 1 .. m - 1 : Has(cf, Leg(t, j))
<1>1. PICK m \in 1 .. Len(t.via) :
           /\ Stations(t.path, Head(t.via), cf) = SubSeq(t.via, 1, m)
           /\ \A j \in 1 .. m - 1 : Leg(t, j) \in S /\ Has(cf, Leg(t, j))
           /\ Final(cf, At(t, m))
  BY Walk
<1> DEFINE Q == SubSeq(t.via, 1, m)
           D(n) == CalculateIBCHash([t.path EXCEPT !.hops = SubSeq(@, n, Len(@))])
<1>2. Len(Q) = m /\ \A i \in 1 .. m : Q[i] = t.via[i]
  <2>1. 1 \in Int /\ m \in Int /\ 1 <= m /\ \A i \in 1 .. m : t.via[i] \in Chain
    BY TokenElements, Lengths
  <2>2. /\ Len(Q) = IF 1 <= m THEN m - 1 + 1 ELSE 0
        /\ \A i \in 1 .. m - 1 + 1 : Q[i] = t.via[1 + i - 1]
    BY <2>1, SubSeqProperties
  <2>3. m - 1 + 1 = m /\ \A i \in 1 .. m : 1 + i - 1 = i
    BY <2>1
  <2> QED
    BY <2>1, <2>2, <2>3
<1>3. \A n : D(n) = StationDenom(t, n)
  BY DEF CalculateIBCHash, StationDenom
<1>4. d = IF m = 1 THEN IBCDenom(Head(t.via), StationDenom(t, 1), NoChain, NoDenom,
                                 Head(t.via), StationDenom(t, 1), TRUE)
          ELSE IBCDenom(Head(t.via), StationDenom(t, 1), Q[2], StationDenom(t, 2),
                        Q[m], StationDenom(t, m), FALSE)
  BY <1>1, <1>2, <1>3 DEF TraceDenom, CalculateIBCHash, StationDenom
<1> HIDE DEF Q, D
<1>5. IBCHops(StationDenom(t, 1).hops) = Len(t.via) - 1
  BY FirstStation, HopsOfWay DEF Hops
<1>6. Len(t.via) - 1 \in Nat
  BY Lengths
<1>7. CASE m = 1
  <2>1. d = [chain |-> Head(t.via), denom |-> t.path, prevChain |-> NoChain, prevDenom |-> NoDenom,
             baseChain |-> Head(t.via), baseDenom |-> t.path, isBase |-> TRUE,
             ibcHops |-> Len(t.via) - 1]
    BY <1>4, <1>5, <1>7, FirstStation DEF IBCDenom
  <2>2. Base(d) = At(t, 1)
    BY <2>1, FirstStation DEF Base
  <2>3. NoDenom \in Denom
    BY DEF NoDenom, Denom, FullPath
  <2>4. Head(t.via) \in Chain /\ t.path \in Denom
    BY FirstStation, TokenElements, TokenShape
  <2>5. d \in DenomDoc
    BY <1>6, <2>1, <2>3, <2>4, DocMember
  <2>6. OnWay(t, Base(d), S)
    BY <1>1, <1>7, <2>2 DEF OnWay
  <2>7. DocOf(t, d, S)
    BY <2>1, <2>2, <2>5, <2>6 DEF DocOf
  <2> QED
    BY <1>1, <1>7, <2>2, <2>7
<1>8. CASE m # 1
  <2>1. 2 \in 1 .. m /\ m \in 1 .. m /\ 2 \in 1 .. Len(t.via)
    BY <1>8, Lengths
  <2>2. d = [chain |-> Head(t.via), denom |-> t.path, prevChain |-> t.via[2],
             prevDenom |-> StationDenom(t, 2), baseChain |-> t.via[m],
             baseDenom |-> StationDenom(t, m), isBase |-> FALSE, ibcHops |-> Len(t.via) - 1]
    BY <1>2, <1>4, <1>5, <1>8, <2>1, FirstStation DEF IBCDenom
  <2>3. Base(d) = At(t, m) /\ <<d.prevChain, d.prevDenom>> = At(t, 2)
    BY <2>2 DEF Base, At
  <2>4. Head(t.via) \in Chain /\ t.path \in Denom /\ t.via[2] \in Chain /\ t.via[m] \in Chain
    BY <2>1, FirstStation, TokenElements, TokenShape
  <2>5. StationDenom(t, 2) \in Denom /\ StationDenom(t, m) \in Denom
    BY <2>1, StationShape
  <2>6. d \in DenomDoc
    <3>1. t.via[2] \in Chain \cup {NoChain} /\ FALSE \in BOOLEAN
      BY <2>4
    <3> DEFINE N == Len(t.via) - 1
               P == StationDenom(t, 2)
               B == StationDenom(t, m)
    <3>2. N \in Nat /\ P \in Denom /\ B \in Denom
      BY <1>6, <2>5
    <3> HIDE DEF N, P, B
    <3>3. [chain |-> Head(t.via), denom |-> t.path, prevChain |-> t.via[2],
           prevDenom |-> P, baseChain |-> t.via[m],
           baseDenom |-> B, isBase |-> FALSE, ibcHops |-> N] \in DenomDoc
      BY <2>4, <3>1, <3>2, DocMember
    <3> QED
      BY <2>2, <3>3 DEF N, P, B
  <2>7. OnWay(t, Base(d), S)
    BY <1>1, <2>3 DEF OnWay
  <2>8. Len(t.via) > 1
    BY <2>1, Lengths
  <2>9. ~d.isBase /\ d.ibcHops = Len(t.via) - 1
    BY <2>2
  <2>10. DocOf(t, d, S)
    BY <2>3, <2>6, <2>7, <2>8, <2>9 DEF DocOf
  <2> QED
    BY <1>1, <2>3, <2>10
<1> QED
  BY <1>7, <1>8

----------------------------------------------------------------------------
(* The invariant.                                                          *)

\* Channels between listed chains
ShownEnds == {e \in End : Shown(e)}

\* What is configured, and will be.
ListedOnly ==
  /\ Listed \subseteq Chain /\ DOMAIN cfgConf \subseteq Listed
  /\ ConfIn(conf, ShownEnds) /\ ConfIn(cfgConf, ShownEnds)
AnswersInv ==
  /\ DOMAIN cfgList \subseteq DOMAIN cfgConf /\ cfgLeft \subseteq DOMAIN cfgConf
  /\ cfg = "write" => cfgLeft \subseteq DOMAIN cfgList
  /\ \A c \in DOMAIN cfgList : \A h \in DOMAIN cfgList[c] :
       /\ <<c, h>> \in End /\ ends[<<c, h>>] # "none"
       /\ {"chain", "other"} \subseteq DOMAIN cfgList[c][h]
       /\ cfgList[c][h].chain \in {NoChain, Peer[<<c, h>>][1]}
       /\ cfgList[c][h].other \in {NoHop, Peer[<<c, h>>][2]}
ConfigInv == ListedOnly /\ AnswersInv

TokensInv == \A t \in tokens : FollowsPath(t)
SendsInv ==
  /\ DOMAIN sends = Send
  /\ \A i \in Send : sends[i] # NoSend =>
       /\ sends[i].token \in tokens /\ sends[i].from \in End
       /\ sends[i].from[1] = Head(sends[i].token.via)
       /\ Works(sends[i].from) /\ Arrived(sends[i].token, sends[i].from) \in tokens

DocsInv == \A k \in DOMAIN denoms : \E t \in tokens : TokenKey(t) = k /\ DocOf(t, denoms[k], ShownEnds)
SettledInv ==
  /\ settled \subseteq DOMAIN denoms
  /\ \A t \in tokens : TokenKey(t) \in settled => Base(denoms[TokenKey(t)]) = At(t, Len(t.via))

TxDoc == [status : {"none", "setting", "processing", "success"}, base : Denom,
          baseChain : Chain \cup {NoChain}, sure : BOOLEAN]
TxBase(x) == <<x.baseChain, x.base>>
TxsInv ==
  /\ DOMAIN txs = Send
  /\ \A i \in Send : txs[i] \in TxDoc
  /\ \A i \in Send : txs[i] # NoTx =>
       /\ sends[i] # NoSend /\ txs[i].status # "none"
       /\ OnWay(sends[i].token, TxBase(txs[i]), ShownEnds)
       /\ txs[i].status # "setting" => sends[i].from \in ShownEnds
       /\ txs[i].status = "success" /\ ~IsCrossBack(sends[i].token.path, sends[i].from[2]) =>
            TokenKey(Arrived(sends[i].token, sends[i].from)) \in DOMAIN denoms \cup skipped

\* What the tasks have read.
SyncInv ==
  /\ ConfIn(sync.conf, ShownEnds)
  /\ \A k \in DOMAIN sync.known : \E t \in tokens : TokenKey(t) = k /\ DocOf(t, sync.known[k], ShownEnds)
RelateInv ==
  \A i \in DOMAIN relate.txs :
    /\ i \in Send /\ txs[i] # NoTx /\ sends[i].from \in ShownEnds
    /\ OnWay(sends[i].token, TxBase(relate.txs[i]), ShownEnds)

\* add_chain_task: the denoms left are as they were read, the configuration it has
\* leads to their bases, and from the one it found last no channel leads on.
AddInv ==
  /\ DOMAIN add = {"at", "chain", "conf", "list", "base"}
  /\ add.at = "idle" => DOMAIN add.list = {} /\ add.base = {}
  /\ ConfIn(add.conf, ShownEnds) /\ add.chain \in DOMAIN add.conf \cup {NoChain}
ListInv ==
  \A k \in DOMAIN add.list :
    /\ k \in DOMAIN denoms /\ add.list[k] = denoms[k]
    /\ \E t \in tokens : /\ TokenKey(t) = k
                         /\ \E n \in 1 .. Len(t.via) : /\ Base(denoms[k]) = At(t, n)
                                                       /\ \A j \in 1 .. n - 1 : Has(add.conf, Leg(t, j))
BaseInv ==
  /\ \A u, v \in add.base : u = v
  /\ \A u \in add.base :
       /\ u.key \in DOMAIN denoms \ DOMAIN add.list
       /\ Final(add.conf, Base(u.new))
       /\ u.lost = {} => Base(denoms[u.key]) = Base(u.new)
       /\ u.lost # {} => Base(denoms[u.key]) = Base(u.old)
       /\ \E t \in tokens : \E n, m \in 1 .. Len(t.via) :
            /\ TokenKey(t) = u.key /\ n <= m /\ Base(u.old) = At(t, n) /\ Base(u.new) = At(t, m)
            /\ \A j \in 1 .. m - 1 : Has(add.conf, Leg(t, j))

\* A base add_chain_task has still to move transfers from.
Pending(b) ==
  \/ \E u \in add.base : b = Base(u.old)
  \/ \E k \in DOMAIN add.list : b = Base(add.list[k])
Written == {u.key : u \in {v \in add.base : v.lost = {}}}
SureInv ==
  \A i \in Send : txs[i].sure =>
    LET t == sends[i].token
        b == TxBase(txs[i])
    IN  /\ txs[i] # NoTx
        /\ \/ \E k \in DOMAIN denoms : b = Base(denoms[k])
           \/ \E u \in add.base : b = Base(u.old)
        /\ TokenKey(t) \in DOMAIN add.list \cup Written => Pending(b) \/ Final(add.conf, b)
        /\ TokenKey(t) \in settled =>
             b = At(t, Len(t.via)) \/ (Pending(b) /\ \A j \in 1 .. Len(t.via) - 1 : Has(add.conf, Leg(t, j)))

DenomsInv ==
  /\ TokensInv /\ SendsInv /\ DocsInv /\ SettledInv /\ TxsInv
  /\ SyncInv /\ RelateInv /\ AddInv /\ ListInv /\ BaseInv /\ SureInv

----------------------------------------------------------------------------
(* The configuration.                                                      *)

LEMMA ConfInMore ==
  ASSUME NEW cf, NEW S, NEW T, ConfIn(cf, S), S \subseteq T
  PROVE  ConfIn(cf, T)
BY DEF ConfIn

LEMMA ConfInUpdated ==
  ASSUME NEW cf, NEW cg, NEW c \in Chain, NEW S, ConfIn(cf, S),
         \A d \in DOMAIN cg : d # c => d \in DOMAIN cf /\ cg[d] = cf[d],
         \A h \in DOMAIN cg[c] :
           /\ <<c, h>> \in S
           /\ cg[c][h].chain = Peer[<<c, h>>][1] /\ cg[c][h].other \in {NoHop, Peer[<<c, h>>][2]}
  PROVE  ConfIn(cg, S)
<1> SUFFICES ASSUME NEW d \in DOMAIN cg, NEW h \in DOMAIN cg[d]
             PROVE  /\ <<d, h>> \in S
                    /\ cg[d][h].chain = Peer[<<d, h>>][1] /\ cg[d][h].other \in {NoHop, Peer[<<d, h>>][2]}
  BY DEF ConfIn
<1>1. CASE d = c
  BY <1>1
<1>2. CASE d # c
  BY <1>2 DEF ConfIn
<1> QED
  BY <1>1, <1>2

LEMMA EmptyConf == DOMAIN Nothing = {} /\ DOMAIN NoInfo = {} /\ \A S : ConfIn(Nothing, S)
BY DEF Nothing, NoInfo, ConfIn

LEMMA ShownMore ==
  ASSUME ends' = ends, Listed \subseteq Listed'
  PROVE  ShownEnds \subseteq ShownEnds'
BY DEF ShownEnds, Shown

LEMMA ListChainKeeps ==
  ASSUME ConfigInv, NEW c \in Chain, ListChain(c)
  PROVE  ConfigInv' /\ ShownEnds \subseteq ShownEnds'
<1>1. /\ conf' = [d \in Listed \cup {c} |-> IF d = c THEN NoInfo ELSE conf[d]]
      /\ UNCHANGED <<ends, cfg, cfgConf, cfgLeft, cfgSeen, cfgList>>
  BY DEF ListChain, network, configTask
<1>2. Listed' = Listed \cup {c}
  BY <1>1 DEF Listed
<1>3. ShownEnds \subseteq ShownEnds'
  BY <1>1, <1>2, ShownMore
<1>4. ConfIn(conf', ShownEnds')
  <2>1. ConfIn(conf, ShownEnds)
    BY DEF ConfigInv, ListedOnly
  <2>2. ConfIn(conf, ShownEnds')
    BY <1>3, <2>1, ConfInMore
  <2>3. \A d \in DOMAIN conf' : conf'[d] = IF d = c THEN NoInfo ELSE conf[d]
    BY <1>1
  <2>4. \A d \in DOMAIN conf' : d = c \/ d \in DOMAIN conf
    BY <1>1 DEF Listed
  <2>5. \A d \in DOMAIN conf' : d # c => d \in DOMAIN conf /\ conf'[d] = conf[d]
    BY <2>3, <2>4
  <2>6. \A h \in DOMAIN conf'[c] :
          /\ <<c, h>> \in ShownEnds'
          /\ conf'[c][h].chain = Peer[<<c, h>>][1] /\ conf'[c][h].other \in {NoHop, Peer[<<c, h>>][2]}
    BY <1>1, EmptyConf
  <2> QED
    BY <2>2, <2>5, <2>6, ConfInUpdated
<1>5. ConfIn(cfgConf, ShownEnds')
  BY <1>3, ConfInMore DEF ConfigInv, ListedOnly
<1>6. ListedOnly'
  BY <1>1, <1>2, <1>4, <1>5 DEF ConfigInv, ListedOnly
<1>7. AnswersInv'
  BY <1>1 DEF ConfigInv, AnswersInv
<1> QED
  BY <1>3, <1>6, <1>7 DEF ConfigInv

LEMMA ConfigStartKeeps ==
  ASSUME ConfigInv, ConfigStart
  PROVE  ConfigInv' /\ ShownEnds \subseteq ShownEnds'
<1>1. /\ cfg' = "fetch" /\ cfgConf' = conf /\ cfgLeft' = Listed /\ cfgList' = Nothing
      /\ UNCHANGED <<ends, conf>>
  BY DEF ConfigStart, network
<1>2. Listed' = Listed
  BY <1>1 DEF Listed
<1>3. ShownEnds \subseteq ShownEnds'
  BY <1>1, <1>2, ShownMore
<1>4. ConfIn(conf, ShownEnds')
  BY <1>3, ConfInMore DEF ConfigInv, ListedOnly
<1>5. ListedOnly'
  BY <1>1, <1>2, <1>4 DEF ConfigInv, ListedOnly, Listed
<1>6. AnswersInv'
  BY <1>1, EmptyConf DEF ConfigInv, AnswersInv, Listed
<1> QED
  BY <1>3, <1>5, <1>6 DEF ConfigInv

LEMMA FetchKeeps ==
  ASSUME ConfigInv, NEW c \in Chain, Fetch(c)
  PROVE  ConfigInv' /\ ShownEnds \subseteq ShownEnds'
<1>1. c \in cfgLeft /\ cfgLeft' = cfgLeft \ {c} /\ cfg = "fetch" /\ UNCHANGED <<ends, conf, cfg, cfgConf>>
  BY DEF Fetch, network
<1>2. Listed' = Listed
  BY <1>1 DEF Listed
<1>3. ShownEnds \subseteq ShownEnds'
  BY <1>1, <1>2, ShownMore
<1>4. ConfIn(conf, ShownEnds') /\ ConfIn(cfgConf, ShownEnds')
  BY <1>3, ConfInMore DEF ConfigInv, ListedOnly
<1>5. ListedOnly'
  BY <1>1, <1>2, <1>4 DEF ConfigInv, ListedOnly
<1>6. c \in DOMAIN cfgConf
  BY <1>1 DEF ConfigInv, AnswersInv
<1>7. AnswersInv'
  <2>1. CASE cfgList' = cfgList
    BY <1>1, <2>1 DEF ConfigInv, AnswersInv
  <2>2. ASSUME NEW answered,
               cfgList' = [d \in DOMAIN cfgList \cup {c} |->
                             IF d = c THEN SetChainAndCounterpartyState(c, answered) ELSE cfgList[d]]
        PROVE  AnswersInv'
    <3> DEFINE G == SetChainAndCounterpartyState(c, answered)
    <3>1. DOMAIN G = {e[2] : e \in EndsOf(c)}
      BY DEF SetChainAndCounterpartyState
    <3>2. ASSUME NEW h \in DOMAIN G
          PROVE  /\ <<c, h>> \in End /\ ends[<<c, h>>] # "none"
                 /\ {"chain", "other"} \subseteq DOMAIN G[h]
                 /\ G[h].chain \in {NoChain, Peer[<<c, h>>][1]}
                 /\ G[h].other \in {NoHop, Peer[<<c, h>>][2]}
      <4>1. PICK e \in EndsOf(c) : h = e[2]
        BY <3>1
      <4>2. e \in End /\ e[1] = c /\ ends[e] # "none" /\ e \in Chain \X Hop
        BY <4>1, ChannelsAssumption DEF EndsOf
      <4>3. e = <<c, h>>
        BY <4>1, <4>2
      <4>4. G[h] = [state |-> ends[e], other |-> OtherHop(e),
                    otherState |-> IF Existing(c, h) THEN cfgConf[c][h].otherState ELSE "none",
                    client |-> Complete(c, h) \/ h \in answered,
                    chain |-> IF Complete(c, h) THEN cfgConf[c][h].chain
                              ELSE IF h \in answered THEN QueryClientState(e) ELSE NoChain]
        BY <3>1, <4>3 DEF SetChainAndCounterpartyState
      <4>5. Complete(c, h) => cfgConf[c][h].chain = Peer[e][1]
        BY <1>6, <4>3 DEF Complete, Existing, ConfigInv, ListedOnly, ConfIn
      <4>6. QueryClientState(e) \in {NoChain, Peer[e][1]}
        BY DEF QueryClientState
      <4>7. OtherHop(e) \in {NoHop, Peer[e][2]}
        BY DEF OtherHop
      <4>8. {"chain", "other"} \subseteq DOMAIN G[h]
        BY <4>4
      <4>9. G[h].chain \in {NoChain, Peer[e][1]}
        BY <4>4, <4>5, <4>6
      <4>10. G[h].other \in {NoHop, Peer[e][2]}
        BY <4>4, <4>7
      <4> QED
        BY <4>2, <4>3, <4>8, <4>9, <4>10
    <3> HIDE DEF G
    <3>3. DOMAIN cfgList' = DOMAIN cfgList \cup {c} /\ cfgList'[c] = G
      BY <2>2 DEF G
    <3>4. \A d \in DOMAIN cfgList : d # c => cfgList'[d] = cfgList[d]
      BY <2>2
    <3>5. ASSUME NEW d \in DOMAIN cfgList', NEW h \in DOMAIN cfgList'[d]
          PROVE  /\ <<d, h>> \in End /\ ends[<<d, h>>] # "none"
                 /\ {"chain", "other"} \subseteq DOMAIN cfgList'[d][h]
                 /\ cfgList'[d][h].chain \in {NoChain, Peer[<<d, h>>][1]}
                 /\ cfgList'[d][h].other \in {NoHop, Peer[<<d, h>>][2]}
      <4>1. CASE d = c
        BY <3>2, <3>3, <4>1
      <4>2. CASE d # c
        BY <3>3, <3>4, <4>2 DEF ConfigInv, AnswersInv
      <4> QED
        BY <4>1, <4>2
    <3> QED
      BY <1>1, <1>6, <3>3, <3>5 DEF ConfigInv, AnswersInv
  <2> QED
    BY <2>1, <2>2 DEF Fetch
<1> QED
  BY <1>3, <1>5, <1>7 DEF ConfigInv

LEMMA ConfigMatchKeeps ==
  ASSUME ConfigInv, ConfigMatch
  PROVE  ConfigInv' /\ ShownEnds \subseteq ShownEnds'
<1>1. /\ cfgLeft' = DOMAIN cfgList /\ UNCHANGED <<ends, conf, cfgConf>>
      /\ cfgList' = [c \in DOMAIN cfgList |-> SetCounterpartyState(c)]
  BY DEF ConfigMatch, network
<1>2. Listed' = Listed
  BY <1>1 DEF Listed
<1>3. ShownEnds \subseteq ShownEnds'
  BY <1>1, <1>2, ShownMore
<1>4. ConfIn(conf, ShownEnds') /\ ConfIn(cfgConf, ShownEnds')
  BY <1>3, ConfInMore DEF ConfigInv, ListedOnly
<1>5. ListedOnly'
  BY <1>1, <1>2, <1>4 DEF ConfigInv, ListedOnly
<1>6. DOMAIN cfgList' = DOMAIN cfgList
  BY <1>1
<1>7. ASSUME NEW c \in DOMAIN cfgList', NEW h \in DOMAIN cfgList'[c]
      PROVE  /\ <<c, h>> \in End /\ ends[<<c, h>>] # "none"
             /\ {"chain", "other"} \subseteq DOMAIN cfgList'[c][h]
             /\ cfgList'[c][h].chain \in {NoChain, Peer[<<c, h>>][1]}
             /\ cfgList'[c][h].other \in {NoHop, Peer[<<c, h>>][2]}
  <2> DEFINE v == cfgList[c][h]
             found == {s \in cfgSeen : s.end = <<v.chain, v.other>> /\ s.other = h}
             w == [v EXCEPT !.otherState = (CHOOSE s \in found : TRUE).state]
  <2>1. c \in DOMAIN cfgList /\ cfgList'[c] = SetCounterpartyState(c)
    BY <1>1, <1>6
  <2>2. h \in DOMAIN cfgList[c] /\ cfgList'[c][h] = IF found = {} THEN v ELSE w
    BY <2>1 DEF SetCounterpartyState
  <2>3. /\ <<c, h>> \in End /\ ends[<<c, h>>] # "none" /\ {"chain", "other"} \subseteq DOMAIN v
        /\ v.chain \in {NoChain, Peer[<<c, h>>][1]} /\ v.other \in {NoHop, Peer[<<c, h>>][2]}
    BY <2>1, <2>2 DEF ConfigInv, AnswersInv
  <2> HIDE DEF v, found
  <2>4. DOMAIN w = DOMAIN v /\ w.chain = v.chain /\ w.other = v.other
    BY <2>3
  <2> QED
    BY <2>2, <2>3, <2>4
<1>8. AnswersInv'
  BY <1>1, <1>6, <1>7 DEF ConfigInv, AnswersInv
<1> QED
  BY <1>3, <1>5, <1>8 DEF ConfigInv

LEMMA UpdateChainKeeps ==
  ASSUME ConfigInv, NEW c \in Chain, UpdateChain(c)
  PROVE  ConfigInv' /\ ShownEnds \subseteq ShownEnds'
<1> DEFINE kept == {h \in DOMAIN cfgList[c] : cfgList[c][h].chain \in DOMAIN cfgConf}
           G == [h \in kept |-> cfgList[c][h]]
<1>1. /\ cfg = "write" /\ c \in cfgLeft /\ cfgLeft' = cfgLeft \ {c}
      /\ UNCHANGED <<ends, cfg, cfgConf, cfgList>>
      /\ conf' = conf \/ conf' = [conf EXCEPT ![c] = G]
  BY DEF UpdateChain, UpdateIbcInfo, network
<1>2. Listed' = Listed
  BY <1>1 DEF Listed
<1>3. ShownEnds \subseteq ShownEnds'
  BY <1>1, <1>2, ShownMore
<1>4. ConfIn(conf, ShownEnds') /\ ConfIn(cfgConf, ShownEnds')
  BY <1>3, ConfInMore DEF ConfigInv, ListedOnly
<1>5. c \in DOMAIN cfgList /\ c \in Listed /\ NoChain \notin DOMAIN cfgConf
  BY <1>1, ChannelsAssumption DEF ConfigInv, AnswersInv, ListedOnly
<1>6. ASSUME NEW h \in DOMAIN G
      PROVE  /\ <<c, h>> \in ShownEnds'
             /\ G[h].chain = Peer[<<c, h>>][1] /\ G[h].other \in {NoHop, Peer[<<c, h>>][2]}
  <2>1. h \in DOMAIN cfgList[c] /\ G[h] = cfgList[c][h] /\ G[h].chain \in DOMAIN cfgConf
    OBVIOUS
  <2>2. /\ <<c, h>> \in End /\ ends[<<c, h>>] # "none"
        /\ cfgList[c][h].chain \in {NoChain, Peer[<<c, h>>][1]}
        /\ cfgList[c][h].other \in {NoHop, Peer[<<c, h>>][2]}
    BY <1>5, <2>1 DEF ConfigInv, AnswersInv
  <2>3. cfgList[c][h].chain = Peer[<<c, h>>][1]
    BY <1>5, <2>1, <2>2
  <2>4. Peer[<<c, h>>][1] \in Listed
    BY <2>1, <2>3 DEF ConfigInv, ListedOnly
  <2>5. <<c, h>>[1] = c
    OBVIOUS
  <2>6. <<c, h>> \in ShownEnds
    BY <1>5, <2>2, <2>4, <2>5 DEF ShownEnds, Shown
  <2> QED
    BY <1>3, <2>1, <2>2, <2>3, <2>6
<1> HIDE DEF G
<1>7. ConfIn(conf', ShownEnds')
  <2>1. CASE conf' = conf
    BY <1>4, <2>1
  <2>2. CASE conf' = [conf EXCEPT ![c] = G]
    <3>1. DOMAIN conf' = DOMAIN conf /\ conf'[c] = G /\ \A d \in DOMAIN conf : d # c => conf'[d] = conf[d]
      BY <1>5, <2>2 DEF Listed
    <3>2. \A d \in DOMAIN conf' : d # c => d \in DOMAIN conf /\ conf'[d] = conf[d]
      BY <3>1
    <3>3. \A h \in DOMAIN conf'[c] :
            /\ <<c, h>> \in ShownEnds'
            /\ conf'[c][h].chain = Peer[<<c, h>>][1] /\ conf'[c][h].other \in {NoHop, Peer[<<c, h>>][2]}
      BY <1>6, <3>1
    <3> QED
      BY <1>4, <3>2, <3>3, ConfInUpdated
  <2> QED
    BY <1>1, <2>1, <2>2
<1>8. ListedOnly'
  BY <1>1, <1>2, <1>4, <1>7 DEF ConfigInv, ListedOnly
<1>9. AnswersInv'
  BY <1>1 DEF ConfigInv, AnswersInv
<1> QED
  BY <1>3, <1>8, <1>9 DEF ConfigInv

LEMMA ConfigDoneKeeps ==
  ASSUME ConfigInv, ConfigDone
  PROVE  ConfigInv' /\ ShownEnds \subseteq ShownEnds'
<1>1. /\ cfg' = "idle" /\ cfgConf' = Nothing /\ cfgList' = Nothing /\ cfgLeft = {}
      /\ UNCHANGED <<ends, conf, cfgLeft>>
  BY DEF ConfigDone, network
<1>2. Listed' = Listed
  BY <1>1 DEF Listed
<1>3. ShownEnds \subseteq ShownEnds'
  BY <1>1, <1>2, ShownMore
<1>4. ConfIn(conf, ShownEnds')
  BY <1>3, ConfInMore DEF ConfigInv, ListedOnly
<1>5. ListedOnly'
  BY <1>1, <1>2, <1>4, EmptyConf DEF ConfigInv, ListedOnly
<1>6. AnswersInv'
  BY <1>1, EmptyConf DEF ConfigInv, AnswersInv
<1> QED
  BY <1>3, <1>5, <1>6 DEF ConfigInv

LEMMA ConfigKeeps ==
  ASSUME ConfigInv, ConfigRuns
  PROVE  ConfigInv' /\ ShownEnds \subseteq ShownEnds'
BY ListChainKeeps, ConfigStartKeeps, FetchKeeps, ConfigMatchKeeps, UpdateChainKeeps, ConfigDoneKeeps
   DEF ConfigRuns, ConfigTask

----------------------------------------------------------------------------
(* What may change and leaves what is known of denoms true: tokens, and    *)
(* channels that are shown.                                                *)

LEMMA OneToken ==
  ASSUME TokensInv, NEW s \in tokens, NEW t \in tokens, TokenKey(s) = TokenKey(t)
  PROVE  s = t
BY SameKeySameToken DEF TokensInv

LEMMA Grows ==
  ASSUME DenomsInv, ShownEnds \subseteq ShownEnds', tokens \subseteq tokens', TokensInv', SendsInv',
         \A i \in Send : sends[i] # NoSend => sends'[i] = sends[i],
         UNCHANGED <<denoms, txs, sync, relate, add, settled, skipped>>
  PROVE  DenomsInv'
<1>1. UNCHANGED denoms /\ UNCHANGED txs /\ UNCHANGED sync /\ UNCHANGED relate /\ UNCHANGED add
      /\ UNCHANGED settled /\ UNCHANGED skipped
  OBVIOUS
<1>2. ASSUME NEW i \in Send, txs[i] # NoTx
      PROVE  sends'[i] = sends[i] /\ sends[i] # NoSend
  BY <1>2 DEF DenomsInv, TxsInv
<1>3. DocsInv'
  <2> SUFFICES ASSUME NEW k \in DOMAIN denoms
               PROVE  \E t \in tokens' : TokenKey(t) = k /\ DocOf(t, denoms[k], ShownEnds')
    BY <1>1 DEF DocsInv
  <2>1. PICK t \in tokens : TokenKey(t) = k /\ DocOf(t, denoms[k], ShownEnds)
    BY DEF DenomsInv, DocsInv
  <2>2. DocOf(t, denoms[k], ShownEnds')
    BY <2>1, DocOfMore
  <2> QED
    BY <2>1, <2>2
<1>4. SettledInv'
  <2>1. settled \subseteq DOMAIN denoms
    BY DEF DenomsInv, SettledInv
  <2>2. ASSUME NEW t \in tokens', TokenKey(t) \in settled
        PROVE  Base(denoms[TokenKey(t)]) = At(t, Len(t.via))
    <3>1. PICK s \in tokens : TokenKey(s) = TokenKey(t)
      BY <2>1, <2>2 DEF DenomsInv, DocsInv
    <3>2. FollowsPath(s) /\ FollowsPath(t)
      BY DEF TokensInv
    <3>3. s = t
      BY <3>1, <3>2, SameKeySameToken
    <3> QED
      BY <2>2, <3>3 DEF DenomsInv, SettledInv
  <2> QED
    BY <1>1, <2>1, <2>2 DEF SettledInv
<1>5. TxsInv'
  <2>1. DOMAIN txs = Send /\ \A i \in Send : txs[i] \in TxDoc
    BY DEF DenomsInv, TxsInv
  <2>2. ASSUME NEW i \in Send, txs[i] # NoTx
        PROVE  /\ sends[i] # NoSend /\ txs[i].status # "none"
               /\ OnWay(sends[i].token, TxBase(txs[i]), ShownEnds)
               /\ txs[i].status # "setting" => sends[i].from \in ShownEnds
               /\ txs[i].status = "success" /\ ~IsCrossBack(sends[i].token.path, sends[i].from[2]) =>
                    TokenKey(Arrived(sends[i].token, sends[i].from)) \in DOMAIN denoms \cup skipped
    BY <2>2 DEF DenomsInv, TxsInv
  <2>3. ASSUME NEW i \in Send, txs[i] # NoTx
        PROVE  OnWay(sends[i].token, TxBase(txs[i]), ShownEnds')
    BY <2>2, <2>3, OnWayMore
  <2> QED
    BY <1>1, <1>2, <2>1, <2>2, <2>3 DEF TxsInv
<1>6. SyncInv'
  <2>1. ConfIn(sync.conf, ShownEnds')
    BY ConfInMore DEF DenomsInv, SyncInv
  <2>2. ASSUME NEW k \in DOMAIN sync.known
        PROVE  \E t \in tokens' : TokenKey(t) = k /\ DocOf(t, sync.known[k], ShownEnds')
    <3>1. PICK t \in tokens : TokenKey(t) = k /\ DocOf(t, sync.known[k], ShownEnds)
      BY DEF DenomsInv, SyncInv
    <3>2. DocOf(t, sync.known[k], ShownEnds')
      BY <3>1, DocOfMore
    <3> QED
      BY <3>1, <3>2
  <2> QED
    BY <1>1, <2>1, <2>2 DEF SyncInv
<1>7. RelateInv'
  <2>1. ASSUME NEW i \in DOMAIN relate.txs
        PROVE  /\ i \in Send /\ txs[i] # NoTx /\ sends[i].from \in ShownEnds
               /\ OnWay(sends[i].token, TxBase(relate.txs[i]), ShownEnds')
    BY OnWayMore DEF DenomsInv, RelateInv
  <2> QED
    BY <1>1, <1>2, <2>1 DEF RelateInv
<1>8. AddInv'
  <2>1. ConfIn(add.conf, ShownEnds')
    BY ConfInMore DEF DenomsInv, AddInv
  <2> QED
    BY <1>1, <2>1 DEF DenomsInv, AddInv
<1>9. ListInv'
  BY <1>1 DEF DenomsInv, ListInv
<1>10. BaseInv'
  BY <1>1 DEF DenomsInv, BaseInv
<1>11. SureInv'
  BY <1>1, <1>2 DEF DenomsInv, SureInv, Pending, Written
<1> QED
  BY <1>3, <1>4, <1>5, <1>6, <1>7, <1>8, <1>9, <1>10, <1>11 DEF DenomsInv

LEMMA SendTokenKeeps ==
  ASSUME DenomsInv, NEW t \in tokens, NEW e \in End, SendToken(t, e), UNCHANGED channelVars
  PROVE  DenomsInv'
<1>1. PICK i \in Send :
        /\ sends[i] = NoSend /\ e[1] = Head(t.via) /\ Works(e)
        /\ sends' = [sends EXCEPT ![i] = [token |-> t, from |-> e]]
        /\ tokens' = tokens \cup {Arrived(t, e)}
  BY DEF SendToken
<1>2. UNCHANGED <<denoms, txs, sync, relate, add, settled, skipped>> /\ UNCHANGED ends /\ UNCHANGED conf
  BY DEF SendToken, channelVars, network
<1>3. ShownEnds \subseteq ShownEnds'
  BY <1>2, ShownMore DEF Listed
<1>4. TokensInv'
  BY <1>1, ArrivedFollows DEF DenomsInv, TokensInv
<1>5. DOMAIN sends = Send /\ DOMAIN sends' = Send
  BY <1>1 DEF DenomsInv, SendsInv
<1>6. sends'[i] = [token |-> t, from |-> e] /\ \A j \in Send : j # i => sends'[j] = sends[j]
  BY <1>1, <1>5
<1>7. SendsInv'
  <2>1. ASSUME NEW j \in Send, sends'[j] # NoSend
        PROVE  /\ sends'[j].token \in tokens' /\ sends'[j].from \in End
               /\ sends'[j].from[1] = Head(sends'[j].token.via)
               /\ Works(sends'[j].from) /\ Arrived(sends'[j].token, sends'[j].from) \in tokens'
    <3>1. CASE j = i
      <4>1. sends'[j].token = t /\ sends'[j].from = e
        BY <1>6, <3>1
      <4> QED
        BY <1>1, <4>1
    <3>2. CASE j # i
      <4>1. sends'[j] = sends[j]
        BY <1>6, <3>2
      <4> QED
        BY <1>1, <2>1, <4>1 DEF DenomsInv, SendsInv
    <3> QED
      BY <3>1, <3>2
  <2> QED
    BY <1>2, <1>5, <2>1 DEF SendsInv, Works
<1>8. \A j \in Send : sends[j] # NoSend => sends'[j] = sends[j]
  BY <1>1, <1>6
<1> QED
  BY <1>1, <1>2, <1>3, <1>4, <1>7, <1>8, Grows

LEMMA ConfigRunsKeeps ==
  ASSUME DenomsInv, ConfigRuns, ShownEnds \subseteq ShownEnds'
  PROVE  DenomsInv'
<1>1. UNCHANGED <<tokens, sends, denoms, txs, sync, relate, add, settled, skipped>>
  BY DEF ConfigRuns, denomVars
<1>2. UNCHANGED ends
  BY DEF ConfigRuns, ConfigTask, ListChain, ConfigStart, Fetch, ConfigMatch, UpdateChain, ConfigDone, network
<1>3. TokensInv' /\ SendsInv'
  BY <1>1, <1>2 DEF DenomsInv, TokensInv, SendsInv, Works
<1> QED
  BY <1>1, <1>3, Grows

----------------------------------------------------------------------------
(* sync_transfer_tx_task.                                                  *)

LEMMA ChainsSame ==
  ASSUME UNCHANGED channelVars
  PROVE  ShownEnds' = ShownEnds /\ ends' = ends /\ ConfigInv' = ConfigInv
BY DEF channelVars, network, configTask, ShownEnds, Shown, Listed, ConfigInv, ListedOnly, AnswersInv

LEMMA SendsSame ==
  ASSUME DenomsInv, UNCHANGED ends, UNCHANGED tokens, UNCHANGED sends
  PROVE  TokensInv' /\ SendsInv'
BY DEF DenomsInv, TokensInv, SendsInv, Works

\* Denoms that are registered leave the others as they are.
LEMMA Registers ==
  ASSUME DenomsInv, ShownEnds' = ShownEnds, UNCHANGED tokens, UNCHANGED add, UNCHANGED settled,
         DOMAIN denoms \subseteq DOMAIN denoms',
         \A k \in DOMAIN denoms : denoms'[k] = denoms[k],
         \A k \in DOMAIN denoms' \ DOMAIN denoms :
           \E t \in tokens : TokenKey(t) = k /\ DocOf(t, denoms'[k], ShownEnds)
  PROVE  DocsInv' /\ SettledInv' /\ AddInv' /\ ListInv' /\ BaseInv'
<1>1. DocsInv'
  BY DEF DenomsInv, DocsInv
<1>2. SettledInv'
  BY DEF DenomsInv, SettledInv
<1>3. AddInv'
  BY DEF DenomsInv, AddInv
<1>4. ListInv'
  BY DEF DenomsInv, ListInv
<1>5. BaseInv'
  <2>1. ASSUME NEW u \in add.base
        PROVE  /\ u.key \in DOMAIN denoms' \ DOMAIN add.list
               /\ denoms'[u.key] = denoms[u.key]
    BY DEF DenomsInv, BaseInv
  <2> QED
    BY <2>1 DEF DenomsInv, BaseInv
<1> QED
  BY <1>1, <1>2, <1>3, <1>4, <1>5

LEMMA SyncReadKeeps ==
  ASSUME ConfigInv, DenomsInv, NEW c \in Chain, SyncRead(c), UNCHANGED channelVars
  PROVE  DenomsInv'
<1>1. /\ sync' = [chain |-> c, conf |-> conf, known |-> FindByChain(c)]
      /\ UNCHANGED tokens /\ UNCHANGED sends /\ UNCHANGED denoms /\ UNCHANGED txs
      /\ UNCHANGED relate /\ UNCHANGED add /\ UNCHANGED settled /\ UNCHANGED skipped
  BY DEF SyncRead
<1>2. ShownEnds' = ShownEnds /\ ends' = ends
  BY ChainsSame
<1>3. TokensInv' /\ SendsInv'
  BY <1>1, <1>2, SendsSame
<1>4. SyncInv'
  <2>1. sync'.conf = conf /\ sync'.known = FindByChain(c)
    BY <1>1
  <2>2. \A k \in DOMAIN FindByChain(c) : k \in DOMAIN denoms /\ FindByChain(c)[k] = denoms[k]
    BY DEF FindByChain
  <2> QED
    BY <1>1, <1>2, <2>1, <2>2 DEF SyncInv, DenomsInv, DocsInv, ConfigInv, ListedOnly
<1>5. DocsInv' /\ SettledInv' /\ AddInv' /\ ListInv' /\ BaseInv'
  BY <1>1, <1>2, Registers
<1>6. TxsInv'
  BY <1>1, <1>2 DEF DenomsInv, TxsInv
<1>7. RelateInv'
  BY <1>1, <1>2 DEF DenomsInv, RelateInv
<1>8. SureInv'
  BY <1>1 DEF DenomsInv, SureInv, Pending, Written
<1> QED
  BY <1>3, <1>4, <1>5, <1>6, <1>7, <1>8 DEF DenomsInv

\* The denom a transfer is noted with.
LEMMA SourceIsDoc ==
  ASSUME DenomsInv, NEW i \in Send, sends[i] # NoSend
  PROVE  DocOf(sends[i].token, SourceDenom(sends[i]), ShownEnds)
<1> DEFINE t == sends[i].token
           k == TokenKey(t)
<1>1. t \in tokens /\ FollowsPath(t)
  BY DEF DenomsInv, SendsInv, TokensInv
<1>2. k.denom = t.path /\ k.chain = Head(t.via)
  BY DEF TokenKey, KeyOf
<1>3. SourceDenom(sends[i]) = IF k \in DOMAIN sync.known THEN sync.known[k]
                              ELSE TraceDenom(t.path, Head(t.via), sync.conf)
  BY <1>2 DEF SourceDenom
<1> HIDE DEF k
<1>4. CASE k \in DOMAIN sync.known
  <2>1. PICK s \in tokens : TokenKey(s) = k /\ DocOf(s, sync.known[k], ShownEnds)
    BY <1>4 DEF DenomsInv, SyncInv
  <2>2. s = t
    BY <1>1, <2>1, OneToken DEF DenomsInv, k
  <2> QED
    BY <1>3, <1>4, <2>1, <2>2
<1>5. CASE k \notin DOMAIN sync.known
  <2>1. ConfIn(sync.conf, ShownEnds) /\ ShownEnds \subseteq End
    BY DEF DenomsInv, SyncInv, ShownEnds
  <2>2. SourceDenom(sends[i]) = TraceDenom(t.path, Head(t.via), sync.conf)
    BY <1>3, <1>5
  <2> QED
    BY <1>1, <2>1, <2>2, Traced
<1> QED
  BY <1>4, <1>5

LEMMA DestinedIsShown ==
  ASSUME DenomsInv, NEW i \in Send, sends[i] # NoSend, Destined(sends[i])
  PROVE  sends[i].from \in ShownEnds
<1> DEFINE e == sends[i].from
<1>1. e \in Chain \X Hop
  BY ChannelsAssumption DEF DenomsInv, SendsInv
<1>2. e[1] \in DOMAIN sync.conf /\ e[2] \in DOMAIN sync.conf[e[1]]
  BY DEF Destined, MatchDcInfo
<1>3. <<e[1], e[2]>> \in ShownEnds
  BY <1>2 DEF DenomsInv, SyncInv, ConfIn
<1> QED
  BY <1>1, <1>3

LEMMA BaseShape ==
  ASSUME NEW t, FollowsPath(t), NEW b, NEW S, OnWay(t, b, S)
  PROVE  b \in Chain \X Denom
BY AtShape DEF OnWay

LEMMA TxMember ==
  ASSUME NEW s \in {"none", "setting", "processing", "success"}, NEW b \in Denom, NEW c \in Chain,
         NEW sure \in BOOLEAN
  PROVE  [status |-> s, base |-> b, baseChain |-> c, sure |-> sure] \in TxDoc
BY DEF TxDoc

LEMMA SyncWriteKeeps ==
  ASSUME DenomsInv, SyncWrite, UNCHANGED channelVars
  PROVE  DenomsInv'
<1> DEFINE mine == {i \in Send : sends[i] # NoSend /\ txs[i] = NoTx /\ sends[i].from[1] = sync.chain}
           found == {TokenKey(sends[i].token) : i \in {j \in mine : Destined(sends[j])}} \ DOMAIN sync.known
           fresh == [k \in found |-> TraceDenom(k.denom, k.chain, sync.conf)]
           docs == InsertBatch(fresh)
           Sure(i) == LET k == TokenKey(sends[i].token)
                      IN  k \in DOMAIN docs /\ Base(docs[k]) = Base(SourceDenom(sends[i]))
<1>1. /\ denoms' = docs /\ sync' = NoSync
      /\ txs' = [i \in Send |->
            IF i \notin mine THEN txs[i]
            ELSE [status |-> IF Destined(sends[i]) THEN "processing" ELSE "setting",
                  base |-> SourceDenom(sends[i]).baseDenom, baseChain |-> SourceDenom(sends[i]).baseChain,
                  sure |-> LET k == TokenKey(sends[i].token)
                           IN  /\ k \in DOMAIN docs
                               /\ docs[k].baseDenom = SourceDenom(sends[i]).baseDenom
                               /\ docs[k].baseChain = SourceDenom(sends[i]).baseChain]]
      /\ UNCHANGED tokens /\ UNCHANGED sends
      /\ UNCHANGED relate /\ UNCHANGED add /\ UNCHANGED settled /\ UNCHANGED skipped
  BY DEF SyncWrite
<1>2. ShownEnds' = ShownEnds /\ ends' = ends
  BY ChainsSame
<1>3. TokensInv' /\ SendsInv'
  BY <1>1, <1>2, SendsSame
<1>4. SyncInv'
  <2>1. sync'.conf = Nothing /\ DOMAIN sync'.known = {}
    BY <1>1 DEF NoSync
  <2> QED
    BY <2>1, EmptyConf DEF SyncInv
<1>5. /\ DOMAIN docs = DOMAIN denoms \cup found
      /\ \A k \in DOMAIN denoms : docs[k] = denoms[k]
      /\ \A k \in found : k \notin DOMAIN denoms => docs[k] = TraceDenom(k.denom, k.chain, sync.conf)
  BY DEF InsertBatch
<1>6. ASSUME NEW k \in found
      PROVE  \E t \in tokens : TokenKey(t) = k /\ DocOf(t, TraceDenom(k.denom, k.chain, sync.conf), ShownEnds)
  <2>1. PICK i \in mine : k = TokenKey(sends[i].token)
    OBVIOUS
  <2> DEFINE t == sends[i].token
  <2>2. t \in tokens /\ FollowsPath(t)
    BY DEF DenomsInv, SendsInv, TokensInv
  <2>3. k.denom = t.path /\ k.chain = Head(t.via)
    BY <2>1 DEF TokenKey, KeyOf
  <2>4. ConfIn(sync.conf, ShownEnds) /\ ShownEnds \subseteq End
    BY DEF DenomsInv, SyncInv, ShownEnds
  <2>5. DocOf(t, TraceDenom(k.denom, k.chain, sync.conf), ShownEnds)
    BY <2>2, <2>3, <2>4, Traced
  <2> QED
    BY <2>1, <2>2, <2>5
<1> HIDE DEF found, fresh, docs
<1>7. \A i \in mine : i \in Send /\ sends[i] # NoSend /\ txs[i] = NoTx
  OBVIOUS
<1> HIDE DEF mine
<1>8. DocsInv' /\ SettledInv' /\ AddInv' /\ ListInv' /\ BaseInv'
  <2>1. /\ DOMAIN denoms \subseteq DOMAIN denoms'
        /\ \A k \in DOMAIN denoms : denoms'[k] = denoms[k]
    BY <1>1, <1>5
  <2>2. \A k \in DOMAIN denoms' \ DOMAIN denoms :
          \E t \in tokens : TokenKey(t) = k /\ DocOf(t, denoms'[k], ShownEnds)
    BY <1>1, <1>5, <1>6
  <2> QED
    BY <1>1, <1>2, <2>1, <2>2, Registers
<1>9. DOMAIN txs' = Send /\ \A i \in Send : i \notin mine => txs'[i] = txs[i]
  BY <1>1
<1>10. ASSUME NEW i \in mine
       PROVE  /\ txs'[i] \in TxDoc
              /\ txs'[i].status = (IF Destined(sends[i]) THEN "processing" ELSE "setting")
              /\ TxBase(txs'[i]) = Base(SourceDenom(sends[i]))
              /\ txs'[i].sure => Sure(i)
  <2> DEFINE d == SourceDenom(sends[i])
             k == TokenKey(sends[i].token)
             s == IF Destined(sends[i]) THEN "processing" ELSE "setting"
             sure == k \in DOMAIN docs /\ docs[k].baseDenom = d.baseDenom /\ docs[k].baseChain = d.baseChain
  <2>1. txs'[i] = [status |-> s, base |-> d.baseDenom, baseChain |-> d.baseChain, sure |-> sure]
    BY <1>1, <1>7
  <2>2. DocOf(sends[i].token, d, ShownEnds)
    BY <1>7, SourceIsDoc
  <2>3. d.baseDenom \in Denom /\ d.baseChain \in Chain
    BY <2>2 DEF DocOf, DenomDoc
  <2>4. s \in {"none", "setting", "processing", "success"} /\ sure \in BOOLEAN
    OBVIOUS
  <2>5. sure => Sure(i)
    BY DEF Base
  <2> HIDE DEF d, s, sure
  <2>6. txs'[i] \in TxDoc
    BY <2>1, <2>3, <2>4, TxMember
  <2>7. txs'[i].status = s /\ TxBase(txs'[i]) = Base(d) /\ txs'[i].sure = sure
    BY <2>1 DEF TxBase, Base
  <2> QED
    BY <2>5, <2>6, <2>7 DEF s, d
<1>11. TxsInv'
  <2>1. \A i \in Send : txs'[i] \in TxDoc
    BY <1>9, <1>10 DEF DenomsInv, TxsInv
  <2>2. ASSUME NEW i \in Send, txs'[i] # NoTx
        PROVE  /\ sends[i] # NoSend /\ txs'[i].status # "none"
               /\ OnWay(sends[i].token, TxBase(txs'[i]), ShownEnds)
               /\ txs'[i].status # "setting" => sends[i].from \in ShownEnds
               /\ txs'[i].status = "success" /\ ~IsCrossBack(sends[i].token.path, sends[i].from[2]) =>
                    TokenKey(Arrived(sends[i].token, sends[i].from)) \in DOMAIN denoms' \cup skipped
    <3>1. CASE i \in mine
      <4>1. sends[i] # NoSend /\ txs'[i].status \in {"setting", "processing"}
        BY <1>7, <1>10, <3>1
      <4>2. OnWay(sends[i].token, TxBase(txs'[i]), ShownEnds)
        BY <1>7, <1>10, <3>1, SourceIsDoc DEF DocOf
      <4>3. txs'[i].status # "setting" => sends[i].from \in ShownEnds
        BY <1>7, <1>10, <3>1, DestinedIsShown
      <4> QED
        BY <4>1, <4>2, <4>3
    <3>2. CASE i \notin mine
      BY <1>1, <1>5, <1>9, <2>2, <3>2 DEF DenomsInv, TxsInv
    <3> QED
      BY <3>1, <3>2
  <2> QED
    BY <1>1, <1>2, <1>9, <2>1, <2>2 DEF TxsInv
<1>12. RelateInv'
  <2>1. ASSUME NEW i \in DOMAIN relate.txs
        PROVE  txs'[i] = txs[i]
    <3>1. i \in Send /\ txs[i] # NoTx
      BY DEF DenomsInv, RelateInv
    <3> QED
      BY <1>7, <1>9, <3>1
  <2> QED
    BY <1>1, <1>2, <2>1 DEF DenomsInv, RelateInv
<1>13. SureInv'
  <2>1. Written' = Written /\ \A b : Pending(b)' <=> Pending(b)
    BY <1>1 DEF Written, Pending
  <2>2. ASSUME NEW i \in Send, txs'[i].sure
        PROVE  LET t == sends[i].token
                   b == TxBase(txs'[i])
               IN  /\ txs'[i] # NoTx
                   /\ \/ \E k \in DOMAIN denoms' : b = Base(denoms'[k])
                      \/ \E u \in add.base : b = Base(u.old)
                   /\ TokenKey(t) \in DOMAIN add.list \cup Written => Pending(b) \/ Final(add.conf, b)
                   /\ TokenKey(t) \in settled =>
                        b = At(t, Len(t.via)) \/ (Pending(b) /\ \A j \in 1 .. Len(t.via) - 1 : Has(add.conf, Leg(t, j)))
    <3> DEFINE t == sends[i].token
               k == TokenKey(t)
               b == TxBase(txs'[i])
    <3>1. CASE i \in mine
      <4>1. k \in DOMAIN docs /\ b = Base(docs[k])
        BY <1>10, <2>2, <3>1
      <4>2. txs'[i] # NoTx
        BY <1>10, <3>1 DEF NoTx
      <4>3. \E x \in DOMAIN denoms' : b = Base(denoms'[x])
        BY <1>1, <4>1
      <4>4. t \in tokens
        BY <1>7, <3>1 DEF DenomsInv, SendsInv
      <4>5. k \in DOMAIN add.list => Pending(b)
        BY <1>5, <4>1 DEF DenomsInv, ListInv, Pending
      <4>6. k \in Written => Final(add.conf, b)
        <5> SUFFICES ASSUME k \in Written
                     PROVE  Final(add.conf, b)
          OBVIOUS
        <5>1. PICK u \in add.base : u.key = k /\ u.lost = {}
          BY DEF Written
        <5>2. k \in DOMAIN denoms /\ Base(denoms[k]) = Base(u.new) /\ Final(add.conf, Base(u.new))
          BY <5>1 DEF DenomsInv, BaseInv
        <5> QED
          BY <1>5, <4>1, <5>2
      <4>7. k \in settled => b = At(t, Len(t.via))
        BY <1>5, <4>1, <4>4 DEF DenomsInv, SettledInv
      <4> QED
        BY <4>2, <4>3, <4>5, <4>6, <4>7
    <3>2. CASE i \notin mine
      <4>1. txs'[i] = txs[i]
        BY <1>9, <3>2
      <4>2. /\ txs[i] # NoTx
            /\ \/ \E x \in DOMAIN denoms : b = Base(denoms[x])
               \/ \E u \in add.base : b = Base(u.old)
            /\ k \in DOMAIN add.list \cup Written => Pending(b) \/ Final(add.conf, b)
            /\ k \in settled =>
                 b = At(t, Len(t.via)) \/ (Pending(b) /\ \A j \in 1 .. Len(t.via) - 1 : Has(add.conf, Leg(t, j)))
        BY <2>2, <4>1 DEF DenomsInv, SureInv
      <4>3. (\E x \in DOMAIN denoms : b = Base(denoms[x])) => \E x \in DOMAIN denoms' : b = Base(denoms'[x])
        BY <1>1, <1>5
      <4> QED
        BY <4>1, <4>2, <4>3
    <3> QED
      BY <3>1, <3>2
  <2> QED
    BY <1>1, <2>1, <2>2 DEF SureInv
<1> QED
  BY <1>3, <1>4, <1>8, <1>11, <1>12, <1>13 DEF DenomsInv

----------------------------------------------------------------------------
(* The relate task.                                                        *)

\* Transfers that keep their bases keep what is said of sure ones.
LEMMA SureKept ==
  ASSUME DenomsInv, UNCHANGED sends, UNCHANGED settled, add'.conf = add.conf, add'.list = add.list,
         add'.base = add.base, DOMAIN denoms \subseteq DOMAIN denoms',
         \A k \in DOMAIN denoms : denoms'[k] = denoms[k],
         \A i \in Send : txs'[i].sure =>
           txs[i].sure /\ txs'[i] # NoTx /\ TxBase(txs'[i]) = TxBase(txs[i])
  PROVE  SureInv'
<1>1. Written' = Written /\ \A b : Pending(b)' <=> Pending(b)
  BY DEF Written, Pending
<1>2. ASSUME NEW i \in Send, txs'[i].sure
      PROVE  LET t == sends[i].token
                 b == TxBase(txs'[i])
             IN  /\ txs'[i] # NoTx
                 /\ \/ \E k \in DOMAIN denoms' : b = Base(denoms'[k])
                    \/ \E u \in add.base : b = Base(u.old)
                 /\ TokenKey(t) \in DOMAIN add.list \cup Written => Pending(b) \/ Final(add.conf, b)
                 /\ TokenKey(t) \in settled =>
                      b = At(t, Len(t.via)) \/ (Pending(b) /\ \A j \in 1 .. Len(t.via) - 1 : Has(add.conf, Leg(t, j)))
  <2> DEFINE t == sends[i].token
             b == TxBase(txs[i])
  <2>1. txs'[i] # NoTx /\ TxBase(txs'[i]) = b
    BY <1>2
  <2>2. /\ \/ \E k \in DOMAIN denoms : b = Base(denoms[k])
           \/ \E u \in add.base : b = Base(u.old)
        /\ TokenKey(t) \in DOMAIN add.list \cup Written => Pending(b) \/ Final(add.conf, b)
        /\ TokenKey(t) \in settled =>
             b = At(t, Len(t.via)) \/ (Pending(b) /\ \A j \in 1 .. Len(t.via) - 1 : Has(add.conf, Leg(t, j)))
    BY <1>2 DEF DenomsInv, SureInv
  <2>3. (\E k \in DOMAIN denoms : b = Base(denoms[k])) => \E k \in DOMAIN denoms' : b = Base(denoms'[k])
    OBVIOUS
  <2> QED
    BY <2>1, <2>2, <2>3
<1> QED
  BY <1>1, <1>2 DEF SureInv

LEMMA RelateReadKeeps ==
  ASSUME DenomsInv, NEW c \in Chain, RelateRead(c), UNCHANGED channelVars
  PROVE  DenomsInv'
<1> DEFINE todo == {i \in Send : txs[i].status = "processing" /\ sends[i].from[1] = c}
<1>1. /\ relate' = [chain |-> c, txs |-> [i \in todo |-> txs[i]], known |-> GetChainDenomMap(c)]
      /\ UNCHANGED tokens /\ UNCHANGED sends /\ UNCHANGED denoms /\ UNCHANGED txs
      /\ UNCHANGED sync /\ UNCHANGED add /\ UNCHANGED settled /\ UNCHANGED skipped
  BY DEF RelateRead
<1>2. ShownEnds' = ShownEnds /\ ends' = ends
  BY ChainsSame
<1>3. TokensInv' /\ SendsInv'
  BY <1>1, <1>2, SendsSame
<1>4. RelateInv'
  <2>1. DOMAIN relate'.txs = todo /\ \A i \in todo : relate'.txs[i] = txs[i]
    BY <1>1
  <2>2. ASSUME NEW i \in todo
        PROVE  /\ i \in Send /\ txs[i] # NoTx /\ sends[i].from \in ShownEnds
               /\ OnWay(sends[i].token, TxBase(txs[i]), ShownEnds)
    <3>1. i \in Send /\ txs[i].status = "processing"
      OBVIOUS
    <3>2. txs[i] # NoTx
      BY <3>1 DEF NoTx
    <3> QED
      BY <3>1, <3>2 DEF DenomsInv, TxsInv
  <2> HIDE DEF todo
  <2> QED
    BY <1>1, <1>2, <2>1, <2>2 DEF RelateInv
<1>5. DocsInv' /\ SettledInv' /\ AddInv' /\ ListInv' /\ BaseInv'
  BY <1>1, <1>2, Registers
<1>6. TxsInv'
  BY <1>1, <1>2 DEF DenomsInv, TxsInv
<1>7. SyncInv'
  BY <1>1, <1>2 DEF DenomsInv, SyncInv
<1>8. SureInv'
  BY <1>1 DEF DenomsInv, SureInv, Pending, Written
<1> QED
  BY <1>3, <1>4, <1>5, <1>6, <1>7, <1>8 DEF DenomsInv

LEMMA PeerShown ==
  ASSUME NEW e \in ShownEnds, Works(e)
  PROVE  Peer[e] \in ShownEnds
BY ChannelsAssumption DEF ShownEnds, Shown, Works

\* The denom a token gets where it arrives.
LEMMA ReceivedIsDoc ==
  ASSUME DenomsInv, NEW i \in DOMAIN relate.txs, Lands(i)
  PROVE  /\ Arrived(sends[i].token, sends[i].from) \in tokens
         /\ KeyOf(Received(i).chain, Received(i).denom) = TokenKey(Arrived(sends[i].token, sends[i].from))
         /\ DocOf(Arrived(sends[i].token, sends[i].from), Received(i), ShownEnds)
<1> DEFINE t == sends[i].token
           e == sends[i].from
           r == Arrived(t, e)
           d == Received(i)
           x == relate.txs[i]
<1>1. /\ i \in Send /\ txs[i] # NoTx /\ e \in ShownEnds /\ OnWay(t, TxBase(x), ShownEnds)
  BY DEF DenomsInv, RelateInv
<1>2. sends[i] # NoSend
  BY <1>1 DEF DenomsInv, TxsInv
<1>3. t \in tokens /\ e \in End /\ e[1] = Head(t.via) /\ Works(e) /\ r \in tokens
  BY <1>1, <1>2 DEF DenomsInv, SendsInv
<1>4. FollowsPath(t) /\ FollowsPath(r)
  BY <1>3 DEF DenomsInv, TokensInv
<1>5. ~IsCrossBack(t.path, e[2])
  BY DEF Lands
<1>6. PICK n \in 1 .. Len(t.via) : TxBase(x) = At(t, n) /\ \A j \in 1 .. n - 1 : Leg(t, j) \in ShownEnds
  BY <1>1 DEF OnWay
<1>7. Peer[e] \in ShownEnds
  BY <1>1, <1>3, PeerShown
<1>8. d = [chain |-> Peer[e][1], denom |-> CalculateNextDenomPath(t.path, e[2], Peer[e][2]),
           prevChain |-> e[1], prevDenom |-> t.path, baseChain |-> x.baseChain, baseDenom |-> x.base,
           isBase |-> FALSE, ibcHops |-> IBCHops(CalculateNextDenomPath(t.path, e[2], Peer[e][2]).hops)]
  BY DEF Received, IBCDenom, CalculateIBCHash
<1> HIDE DEF t, e, d, x
<1>9. /\ r.path = CalculateNextDenomPath(t.path, e[2], Peer[e][2]) /\ r.path \in Denom
      /\ Len(r.via) = Len(t.via) + 1
  BY <1>3, <1>4, <1>5, ArrivedOutShape
<1>10. TokenKey(r) = KeyOf(Peer[e][1], r.path) /\ Leg(r, 1) = Peer[e]
  BY <1>3, <1>4, <1>5, <1>9, ArrivedOut
<1>11. /\ n + 1 \in 1 .. Len(r.via) /\ At(r, n + 1) = At(t, n)
       /\ \A j \in 1 .. Len(t.via) : At(r, j + 1) = At(t, j) /\ (j < Len(t.via) => Leg(r, j + 1) = Leg(t, j))
  BY <1>3, <1>4, <1>5, ArrivedStations
<1> HIDE DEF r
<1>12. IBCHops(r.path.hops) = Len(r.via) - 1 /\ Len(r.via) - 1 \in Nat /\ Len(r.via) > 1
  BY <1>4, <1>9, HopsOfWay, Lengths DEF Hops
<1>13. At(t, n) \in Chain \X Denom /\ x.baseChain \in Chain /\ x.base \in Denom
  <2>1. At(t, n) \in Chain \X Denom
    BY <1>4, AtShape
  <2> QED
    BY <1>6, <2>1 DEF TxBase
<1>14. Peer[e][1] \in Chain /\ e[1] \in Chain /\ t.path \in Denom
  BY <1>3, <1>4, TokenShape, ChannelsAssumption
<1>15. d = [chain |-> Peer[e][1], denom |-> r.path, prevChain |-> e[1], prevDenom |-> t.path,
            baseChain |-> x.baseChain, baseDenom |-> x.base, isBase |-> FALSE, ibcHops |-> Len(r.via) - 1]
  BY <1>8, <1>9, <1>12
<1>16. d \in DenomDoc
  <2>1. e[1] \in Chain \cup {NoChain} /\ FALSE \in BOOLEAN
    BY <1>14
  <2> DEFINE hops == Len(r.via) - 1
  <2>2. hops \in Nat
    BY <1>12
  <2> HIDE DEF hops
  <2>3. d = [chain |-> Peer[e][1], denom |-> r.path, prevChain |-> e[1], prevDenom |-> t.path,
             baseChain |-> x.baseChain, baseDenom |-> x.base, isBase |-> FALSE, ibcHops |-> hops]
    BY <1>15 DEF hops
  <2> QED
    BY <1>9, <1>13, <1>14, <2>1, <2>2, <2>3, DocMember
<1>17. Base(d) = At(r, n + 1)
  <2>1. Base(d) = TxBase(x)
    BY <1>15 DEF Base, TxBase
  <2> QED
    BY <1>6, <1>11, <2>1
<1>18. \A j \in 1 .. (n + 1) - 1 : Leg(r, j) \in ShownEnds
  <2> SUFFICES ASSUME NEW j \in 1 .. n
               PROVE  Leg(r, j) \in ShownEnds
    BY <1>6
  <2>1. CASE j = 1
    BY <1>7, <1>10, <2>1
  <2>2. CASE j # 1
    <3>1. j - 1 \in 1 .. n - 1 /\ j - 1 \in 1 .. Len(t.via) /\ j - 1 < Len(t.via) /\ (j - 1) + 1 = j
      BY <1>4, <2>2, Lengths
    <3>2. Leg(r, (j - 1) + 1) = Leg(t, j - 1)
      BY <1>11, <3>1
    <3> QED
      BY <1>6, <3>1, <3>2
  <2> QED
    BY <2>1, <2>2
<1>19. OnWay(r, Base(d), ShownEnds)
  BY <1>11, <1>17, <1>18 DEF OnWay
<1>20. <<d.prevChain, d.prevDenom>> = At(r, 2)
  <2>1. 1 \in 1 .. Len(t.via) /\ At(t, 1) = <<e[1], t.path>>
    BY <1>3, <1>4, FirstStation
  <2>2. At(r, 1 + 1) = At(t, 1)
    BY <1>11, <2>1
  <2> QED
    BY <1>15, <2>1, <2>2
<1>21. ~d.isBase /\ d.ibcHops = Len(r.via) - 1 /\ d.chain = Peer[e][1] /\ d.denom = r.path
  BY <1>15
<1>22. DocOf(r, d, ShownEnds)
  BY <1>12, <1>16, <1>19, <1>20, <1>21 DEF DocOf
<1> QED
  BY <1>3, <1>10, <1>21, <1>22 DEF r, t, e, d

LEMMA TxStatus ==
  ASSUME NEW x \in TxDoc, NEW s \in {"none", "setting", "processing", "success"}
  PROVE  /\ [x EXCEPT !.status = s] \in TxDoc /\ [x EXCEPT !.status = s].status = s
         /\ TxBase([x EXCEPT !.status = s]) = TxBase(x) /\ [x EXCEPT !.status = s].sure = x.sure
BY DEF TxDoc, TxBase

LEMMA RelateWriteKeeps ==
  ASSUME DenomsInv, RelateWrite, UNCHANGED channelVars
  PROVE  DenomsInv'
<1> DEFINE arrived == {i \in DOMAIN relate.txs : Lands(i)}
           Key1(i) == KeyOf(Received(i).chain, Received(i).denom)
           fresh == {i \in arrived : /\ Received(i).denom \notin relate.known
                                     /\ \A j \in arrived : j < i => Received(j).denom # Received(i).denom}
           new == [k \in {Key1(i) : i \in fresh} |-> Received(CHOOSE i \in fresh : Key1(i) = k)]
           Reached(i) == Arrived(sends[i].token, sends[i].from)
<1>1. /\ \/ denoms' = denoms /\ skipped' = skipped \cup {Key1(i) : i \in arrived}
         \/ denoms' = InsertBatch(new) /\ skipped' = skipped \cup {Key1(i) : i \in arrived \ fresh}
      /\ txs' = [i \in Send |-> IF i \in DOMAIN relate.txs THEN [txs[i] EXCEPT !.status = "success"] ELSE txs[i]]
      /\ relate' = NoRelate
      /\ UNCHANGED tokens /\ UNCHANGED sends /\ UNCHANGED sync /\ UNCHANGED add /\ UNCHANGED settled
  <2>1. PICK lost \in Lost({"insert"}) :
          /\ denoms' = IF lost # {} THEN denoms ELSE InsertBatch(new)
          /\ skipped' = skipped \cup {Key1(i) : i \in IF lost # {} THEN arrived ELSE arrived \ fresh}
    BY DEF RelateWrite
  <2>2. /\ txs' = [i \in Send |-> IF i \in DOMAIN relate.txs THEN [txs[i] EXCEPT !.status = "success"] ELSE txs[i]]
        /\ relate' = NoRelate
        /\ UNCHANGED tokens /\ UNCHANGED sends /\ UNCHANGED sync /\ UNCHANGED add /\ UNCHANGED settled
    BY DEF RelateWrite
  <2> HIDE DEF new, fresh, arrived
  <2>3. CASE lost # {}
    BY <2>1, <2>2, <2>3
  <2>4. CASE lost = {}
    BY <2>1, <2>2, <2>4
  <2> QED
    BY <2>3, <2>4
<1>2. ShownEnds' = ShownEnds /\ ends' = ends
  BY ChainsSame
<1>3. TokensInv' /\ SendsInv'
  BY <1>1, <1>2, SendsSame
<1>4. ASSUME NEW i \in arrived
      PROVE  Reached(i) \in tokens /\ Key1(i) = TokenKey(Reached(i)) /\ DocOf(Reached(i), Received(i), ShownEnds)
  BY ReceivedIsDoc
<1>5. ASSUME NEW k \in DOMAIN new
      PROVE  \E t \in tokens : TokenKey(t) = k /\ DocOf(t, new[k], ShownEnds)
  <2> DEFINE i == CHOOSE j \in fresh : Key1(j) = k
  <2>1. i \in fresh /\ Key1(i) = k
    OBVIOUS
  <2>2. new[k] = Received(i)
    OBVIOUS
  <2>3. i \in arrived
    BY <2>1
  <2> HIDE DEF i, new, fresh, arrived
  <2> QED
    BY <1>4, <2>1, <2>2, <2>3
<1>6. /\ DOMAIN new = {Key1(i) : i \in fresh} /\ fresh \subseteq arrived
      /\ \A i \in DOMAIN relate.txs : Lands(i) => i \in arrived
  OBVIOUS
<1> HIDE DEF arrived, fresh, new
<1>7. \/ denoms' = denoms
      \/ /\ DOMAIN denoms' = DOMAIN denoms \cup DOMAIN new
         /\ \A k \in DOMAIN denoms : denoms'[k] = denoms[k]
         /\ \A k \in DOMAIN new : k \notin DOMAIN denoms => denoms'[k] = new[k]
  BY <1>1 DEF InsertBatch
<1>8. DOMAIN denoms \subseteq DOMAIN denoms' /\ \A k \in DOMAIN denoms : denoms'[k] = denoms[k]
  BY <1>7
<1>9. DocsInv' /\ SettledInv' /\ AddInv' /\ ListInv' /\ BaseInv'
  <2>1. \A k \in DOMAIN denoms' \ DOMAIN denoms :
          \E t \in tokens : TokenKey(t) = k /\ DocOf(t, denoms'[k], ShownEnds)
    BY <1>5, <1>7
  <2> QED
    BY <1>1, <1>2, <1>8, <2>1, Registers
<1>10. ASSUME NEW i \in arrived
       PROVE  TokenKey(Reached(i)) \in DOMAIN denoms' \cup skipped'
  <2>1. TokenKey(Reached(i)) = Key1(i)
    BY <1>4
  <2> HIDE DEF Key1, Reached
  <2>2. DOMAIN InsertBatch(new) = DOMAIN denoms \cup DOMAIN new
    BY DEF InsertBatch
  <2> QED
    BY <1>1, <1>6, <2>1, <2>2
<1>11. ASSUME NEW i \in Send
       PROVE  /\ txs'[i] \in TxDoc /\ TxBase(txs'[i]) = TxBase(txs[i]) /\ txs'[i].sure = txs[i].sure
              /\ i \in DOMAIN relate.txs => txs'[i].status = "success" /\ txs[i] # NoTx
              /\ i \notin DOMAIN relate.txs => txs'[i] = txs[i]
  <2>1. txs[i] \in TxDoc
    BY DEF DenomsInv, TxsInv
  <2>2. i \in DOMAIN relate.txs => txs'[i] = [txs[i] EXCEPT !.status = "success"] /\ txs[i] # NoTx
    BY <1>1 DEF DenomsInv, RelateInv
  <2>3. i \notin DOMAIN relate.txs => txs'[i] = txs[i]
    BY <1>1
  <2>4. CASE i \in DOMAIN relate.txs
    <3> DEFINE y == [txs[i] EXCEPT !.status = "success"]
    <3>1. y \in TxDoc /\ y.status = "success" /\ TxBase(y) = TxBase(txs[i]) /\ y.sure = txs[i].sure
      BY <2>1, TxStatus
    <3>2. txs'[i] = y /\ txs[i] # NoTx
      BY <2>2, <2>4
    <3> HIDE DEF y
    <3> QED
      BY <2>4, <3>1, <3>2
  <2>5. CASE i \notin DOMAIN relate.txs
    BY <2>1, <2>3, <2>5
  <2> QED
    BY <2>4, <2>5
<1>12. TxsInv'
  <2>1. ASSUME NEW i \in Send, txs'[i] # NoTx
        PROVE  /\ sends[i] # NoSend /\ txs'[i].status # "none"
               /\ OnWay(sends[i].token, TxBase(txs'[i]), ShownEnds)
               /\ txs'[i].status # "setting" => sends[i].from \in ShownEnds
               /\ txs'[i].status = "success" /\ ~IsCrossBack(sends[i].token.path, sends[i].from[2]) =>
                    TokenKey(Reached(i)) \in DOMAIN denoms' \cup skipped'
    <3>1. txs[i] # NoTx
      BY <1>11, <2>1
    <3>2. CASE i \in DOMAIN relate.txs
      <4>1. sends[i].from \in ShownEnds
        BY <3>2 DEF DenomsInv, RelateInv
      <4>2. ~IsCrossBack(sends[i].token.path, sends[i].from[2]) => i \in arrived
        BY <1>6, <3>2 DEF Lands
      <4> HIDE DEF Reached
      <4> QED
        BY <1>10, <1>11, <3>1, <3>2, <4>1, <4>2 DEF DenomsInv, TxsInv
    <3>3. CASE i \notin DOMAIN relate.txs
      <4>1. skipped \subseteq skipped'
        BY <1>1
      <4> QED
        BY <1>8, <1>11, <3>1, <3>3, <4>1 DEF DenomsInv, TxsInv
    <3> QED
      BY <3>2, <3>3
  <2>2. DOMAIN txs' = Send
    BY <1>1
  <2> QED
    BY <1>1, <1>2, <1>11, <2>1, <2>2 DEF TxsInv
<1>13. SyncInv'
  BY <1>1, <1>2 DEF DenomsInv, SyncInv
<1>14. RelateInv'
  <2>1. DOMAIN relate'.txs = {}
    BY <1>1 DEF NoRelate
  <2> QED
    BY <2>1 DEF RelateInv
<1>15. SureInv'
  <2>1. \A i \in Send : txs'[i].sure =>
          txs[i].sure /\ txs'[i] # NoTx /\ TxBase(txs'[i]) = TxBase(txs[i])
    <3>1. ASSUME NEW i \in Send, txs'[i].sure
          PROVE  txs'[i] # NoTx
      <4>1. txs[i] # NoTx
        BY <1>11, <3>1 DEF DenomsInv, SureInv
      <4> QED
        BY <1>11, <4>1 DEF NoTx
    <3> QED
      BY <1>11, <3>1
  <2> QED
    BY <1>1, <1>8, <2>1, SureKept
<1> QED
  BY <1>3, <1>9, <1>12, <1>13, <1>14, <1>15 DEF DenomsInv

----------------------------------------------------------------------------
(* add_chain_task.                                                         *)

\* What is configured is shown.
LEMMA HasIsIn ==
  ASSUME NEW cf, NEW S, ConfIn(cf, S), NEW c, NEW h, Has(cf, <<c, h>>)
  PROVE  <<c, h>> \in S
BY DEF ConfIn, Has

LEMMA LegHasIsIn ==
  ASSUME NEW cf, NEW S, ConfIn(cf, S), NEW t, NEW n, Has(cf, Leg(t, n))
  PROVE  Leg(t, n) \in S
BY HasIsIn DEF Leg

\* A native token has no way.
LEMMA NativeFinal ==
  ASSUME NEW t, FollowsPath(t), Hops(t) = <<>>, NEW b, NEW S, OnWay(t, b, S), NEW cf
  PROVE  Final(cf, b)
<1>1. Len(Hops(t)) = 0
  OBVIOUS
<1>2. Len(t.via) = 1
  <2> DEFINE V == Len(t.via)
  <2>1. V \in Nat \ {0} /\ (0 = V - 1 \/ 0 = V)
    BY <1>1, Lengths
  <2> HIDE DEF V
  <2>2. V = 1
    BY <2>1
  <2> QED
    BY <2>2 DEF V
<1>3. b = At(t, 1)
  BY <1>2 DEF OnWay
<1>4. b[2].hops = <<>>
  BY <1>3, FirstStation DEF At, Hops
<1> QED
  BY <1>4 DEF Final

LEMMA AddReadKeeps ==
  ASSUME ConfigInv, DenomsInv, NEW c \in Chain, AddRead(c), UNCHANGED channelVars
  PROVE  DenomsInv'
<1> DEFINE left == {d \in DOMAIN denoms : d.denom.hops # <<>>}
<1>1. /\ add.at = "idle" /\ c \in Listed /\ Configured
      /\ add' = [at |-> "run", chain |-> c, conf |-> conf, base |-> {}, list |-> [k \in left |-> denoms[k]]]
      /\ UNCHANGED tokens /\ UNCHANGED sends /\ UNCHANGED denoms /\ UNCHANGED txs
      /\ UNCHANGED sync /\ UNCHANGED relate /\ UNCHANGED settled /\ UNCHANGED skipped
  BY DEF AddRead
<1>2. ShownEnds' = ShownEnds /\ ends' = ends
  BY ChainsSame
<1>3. TokensInv' /\ SendsInv'
  BY <1>1, <1>2, SendsSame
<1>4. /\ add'.conf = conf /\ add'.chain = c /\ add'.at = "run" /\ add'.base = {}
      /\ DOMAIN add'.list = left /\ \A k \in left : add'.list[k] = denoms[k]
      /\ DOMAIN add' = {"at", "chain", "conf", "list", "base"}
  BY <1>1
<1>5. DocsInv' /\ SettledInv' /\ TxsInv' /\ SyncInv' /\ RelateInv'
  BY <1>1, <1>2 DEF DenomsInv, DocsInv, SettledInv, TxsInv, SyncInv, RelateInv
<1>6. AddInv'
  BY <1>1, <1>2, <1>4 DEF AddInv, ConfigInv, ListedOnly, Listed
<1>7. ASSUME NEW t \in tokens, NEW n, Leg(t, n) \in ShownEnds
      PROVE  Has(conf, Leg(t, n))
  BY <1>1, <1>7 DEF Configured, ShownEnds, Shown, Listed, Has
<1>8. ListInv'
  <2>1. ASSUME NEW k \in left
        PROVE  /\ k \in DOMAIN denoms
               /\ \E t \in tokens : /\ TokenKey(t) = k
                                    /\ \E n \in 1 .. Len(t.via) : /\ Base(denoms[k]) = At(t, n)
                                                                  /\ \A j \in 1 .. n - 1 : Has(conf, Leg(t, j))
    <3>1. PICK t \in tokens : TokenKey(t) = k /\ OnWay(t, Base(denoms[k]), ShownEnds)
      BY DEF DenomsInv, DocsInv, DocOf
    <3>2. PICK n \in 1 .. Len(t.via) : Base(denoms[k]) = At(t, n) /\ \A j \in 1 .. n - 1 : Leg(t, j) \in ShownEnds
      BY <3>1 DEF OnWay
    <3> QED
      BY <1>7, <3>1, <3>2
  <2> HIDE DEF left
  <2> QED
    BY <1>1, <1>4, <2>1 DEF ListInv
<1>9. BaseInv'
  BY <1>4 DEF BaseInv
<1>10. SureInv'
  <2>1. DOMAIN add.list = {} /\ add.base = {}
    BY <1>1 DEF DenomsInv, AddInv
  <2>2. ~(\E b : Pending(b)) /\ Written' = {}
    BY <1>4, <2>1 DEF Pending, Written
  <2>3. \A k \in left : Pending(Base(denoms[k]))'
    BY <1>1, <1>4 DEF Pending, Base
  <2>4. ASSUME NEW i \in Send, txs[i].sure
        PROVE  LET t == sends[i].token
                   b == TxBase(txs[i])
               IN  /\ txs[i] # NoTx
                   /\ \E k \in DOMAIN denoms : b = Base(denoms[k])
                   /\ TokenKey(t) \in left => Pending(b)' \/ Final(conf, b)
                   /\ TokenKey(t) \in settled => b = At(t, Len(t.via))
    <3> DEFINE t == sends[i].token
               b == TxBase(txs[i])
    <3>1. /\ txs[i] # NoTx /\ \E k \in DOMAIN denoms : b = Base(denoms[k])
          /\ TokenKey(t) \in settled => b = At(t, Len(t.via))
      BY <2>1, <2>2, <2>4 DEF DenomsInv, SureInv
    <3>2. PICK k \in DOMAIN denoms : b = Base(denoms[k])
      BY <3>1
    <3>3. Pending(b)' \/ Final(conf, b)
      <4>1. CASE k \in left
        BY <1>1, <2>3, <3>2, <4>1
      <4>2. CASE k \notin left
        <5>1. PICK s \in tokens : TokenKey(s) = k /\ OnWay(s, Base(denoms[k]), ShownEnds)
          BY DEF DenomsInv, DocsInv, DocOf
        <5>2. FollowsPath(s) /\ Hops(s) = <<>>
          <6>1. k.denom = s.path /\ k.denom.hops = <<>>
            BY <4>2, <5>1 DEF TokenKey, KeyOf
          <6> QED
            BY <6>1 DEF DenomsInv, TokensInv, Hops
        <5> QED
          BY <3>2, <5>1, <5>2, NativeFinal
      <4> QED
        BY <4>1, <4>2
    <3> QED
      BY <3>1, <3>3
  <2> HIDE DEF left
  <2> QED
    BY <1>1, <1>4, <2>2, <2>4 DEF SureInv
<1> QED
  BY <1>3, <1>5, <1>6, <1>8, <1>9, <1>10 DEF DenomsInv

LEMMA AddDoneKeeps ==
  ASSUME DenomsInv, AddDone, UNCHANGED channelVars
  PROVE  DenomsInv'
<1>1. /\ DOMAIN add.list = {} /\ add.base = {} /\ add' = NoAdd
      /\ UNCHANGED tokens /\ UNCHANGED sends /\ UNCHANGED denoms /\ UNCHANGED txs
      /\ UNCHANGED sync /\ UNCHANGED relate /\ UNCHANGED settled /\ UNCHANGED skipped
  BY DEF AddDone
<1>2. ShownEnds' = ShownEnds /\ ends' = ends
  BY ChainsSame
<1>3. TokensInv' /\ SendsInv'
  BY <1>1, <1>2, SendsSame
<1>4. /\ add'.conf = Nothing /\ add'.chain = NoChain /\ add'.base = {} /\ DOMAIN add'.list = {}
      /\ DOMAIN add' = {"at", "chain", "conf", "list", "base"}
  BY <1>1 DEF NoAdd
<1>5. DocsInv' /\ SettledInv' /\ TxsInv' /\ SyncInv' /\ RelateInv'
  BY <1>1, <1>2 DEF DenomsInv, DocsInv, SettledInv, TxsInv, SyncInv, RelateInv
<1>6. AddInv' /\ ListInv' /\ BaseInv'
  BY <1>4, EmptyConf DEF AddInv, ListInv, BaseInv
<1>7. SureInv'
  <2>1. ~(\E b : Pending(b)) /\ Written' = {}
    BY <1>1, <1>4 DEF Pending, Written
  <2>2. ASSUME NEW i \in Send, txs[i].sure
        PROVE  /\ txs[i] # NoTx /\ \E k \in DOMAIN denoms : TxBase(txs[i]) = Base(denoms[k])
               /\ TokenKey(sends[i].token) \in settled =>
                    TxBase(txs[i]) = At(sends[i].token, Len(sends[i].token.via))
    BY <1>1, <2>1, <2>2 DEF DenomsInv, SureInv
  <2> QED
    BY <1>1, <1>4, <2>1, <2>2 DEF SureInv
<1> QED
  BY <1>3, <1>5, <1>6, <1>7 DEF DenomsInv

\* What is put off and gets a destination goes over a channel that is shown.
LEMMA NewlyDestined ==
  ASSUME DenomsInv, add.chain # NoChain, NEW i \in Send, sends[i] # NoSend,
         NEW h \in DOMAIN add.conf[add.chain],
         sends[i].from = <<add.conf[add.chain][h].chain, add.conf[add.chain][h].other>>
  PROVE  sends[i].from \in ShownEnds
<1> DEFINE e == sends[i].from
           f == <<add.chain, h>>
           v == add.conf[add.chain][h]
<1>1. /\ f \in ShownEnds /\ v.chain = Peer[f][1] /\ v.other \in {NoHop, Peer[f][2]}
  BY DEF DenomsInv, AddInv, ConfIn
<1>2. e \in End /\ Works(e)
  BY DEF DenomsInv, SendsInv
<1>3. f \in End /\ Shown(f)
  BY <1>1 DEF ShownEnds
<1>4. e = <<v.chain, v.other>>
  OBVIOUS
<1> HIDE DEF e, f, v
<1>5. v.other # NoHop
  <2>1. e \in Chain \X Hop /\ NoHop \notin Hop
    BY <1>2, ChannelsAssumption
  <2>2. v.other \in Hop
    BY <1>4, <2>1
  <2> QED
    BY <2>1, <2>2
<1>6. Peer[f] \in Chain \X Hop /\ Peer[Peer[f]] = f
  BY <1>3, ChannelsAssumption
<1>7. e = Peer[f]
  BY <1>1, <1>4, <1>5, <1>6
<1> QED
  BY <1>2, <1>3, <1>6, <1>7 DEF ShownEnds, Shown, Works, e

LEMMA AddUpdateTxsKeeps ==
  ASSUME DenomsInv, AddUpdateTxs, UNCHANGED channelVars
  PROVE  DenomsInv'
<1> DEFINE info == add.conf[add.chain]
           from == {<<info[h].chain, info[h].other>> : h \in {g \in DOMAIN info : info[g].state = "open"}}
           Moved(i) == txs[i].status = "setting" /\ sends[i].from \in from
<1>1. /\ add.at = "run" /\ add.chain # NoChain /\ add' = [add EXCEPT !.chain = NoChain]
      /\ txs' = [i \in Send |-> IF Moved(i) THEN [txs[i] EXCEPT !.status = "processing"] ELSE txs[i]]
      /\ UNCHANGED tokens /\ UNCHANGED sends /\ UNCHANGED denoms
      /\ UNCHANGED sync /\ UNCHANGED relate /\ UNCHANGED settled /\ UNCHANGED skipped
  BY DEF AddUpdateTxs, AddNewChainUpdate
<1>2. ShownEnds' = ShownEnds /\ ends' = ends
  BY ChainsSame
<1>3. TokensInv' /\ SendsInv'
  BY <1>1, <1>2, SendsSame
<1>4. /\ add'.conf = add.conf /\ add'.chain = NoChain /\ add'.base = add.base /\ add'.list = add.list
      /\ add'.at = add.at /\ DOMAIN add' = {"at", "chain", "conf", "list", "base"}
  BY <1>1 DEF DenomsInv, AddInv
<1>5. DocsInv' /\ SettledInv' /\ SyncInv'
  BY <1>1, <1>2 DEF DenomsInv, DocsInv, SettledInv, SyncInv
<1>6. AddInv' /\ ListInv' /\ BaseInv'
  BY <1>1, <1>2, <1>4 DEF DenomsInv, AddInv, ListInv, BaseInv
<1>7. ASSUME NEW i \in Send
      PROVE  /\ txs'[i] \in TxDoc /\ TxBase(txs'[i]) = TxBase(txs[i]) /\ txs'[i].sure = txs[i].sure
             /\ Moved(i) => txs'[i].status = "processing" /\ txs[i] # NoTx
             /\ ~Moved(i) => txs'[i] = txs[i]
  <2>1. txs[i] \in TxDoc
    BY DEF DenomsInv, TxsInv
  <2>2. CASE Moved(i)
    <3> DEFINE y == [txs[i] EXCEPT !.status = "processing"]
    <3>1. y \in TxDoc /\ y.status = "processing" /\ TxBase(y) = TxBase(txs[i]) /\ y.sure = txs[i].sure
      BY <2>1, TxStatus
    <3>2. txs'[i] = y /\ txs[i] # NoTx
      BY <1>1, <2>2 DEF NoTx
    <3> HIDE DEF y, Moved
    <3> QED
      BY <2>2, <3>1, <3>2
  <2>3. CASE ~Moved(i)
    BY <1>1, <2>1, <2>3
  <2> QED
    BY <2>2, <2>3
<1>8. ASSUME NEW i \in Send, txs[i] # NoTx, Moved(i)
      PROVE  sends[i].from \in ShownEnds
  <2>1. sends[i] # NoSend
    BY <1>8 DEF DenomsInv, TxsInv
  <2> QED
    BY <1>1, <1>8, <2>1, NewlyDestined
<1> HIDE DEF Moved
<1>9. ASSUME NEW i \in Send, txs'[i] # NoTx
      PROVE  txs[i] # NoTx
  BY <1>7, <1>9
<1>10. TxsInv'
  <2>1. ASSUME NEW i \in Send, txs'[i] # NoTx
        PROVE  /\ sends[i] # NoSend /\ txs'[i].status # "none"
               /\ OnWay(sends[i].token, TxBase(txs'[i]), ShownEnds)
               /\ txs'[i].status # "setting" => sends[i].from \in ShownEnds
               /\ txs'[i].status = "success" /\ ~IsCrossBack(sends[i].token.path, sends[i].from[2]) =>
                    TokenKey(Arrived(sends[i].token, sends[i].from)) \in DOMAIN denoms \cup skipped
    <3>1. /\ txs[i] # NoTx /\ sends[i] # NoSend /\ txs[i].status # "none"
          /\ OnWay(sends[i].token, TxBase(txs[i]), ShownEnds)
          /\ txs[i].status # "setting" => sends[i].from \in ShownEnds
          /\ txs[i].status = "success" /\ ~IsCrossBack(sends[i].token.path, sends[i].from[2]) =>
               TokenKey(Arrived(sends[i].token, sends[i].from)) \in DOMAIN denoms \cup skipped
      BY <1>9, <2>1 DEF DenomsInv, TxsInv
    <3>2. CASE Moved(i)
      BY <1>7, <1>8, <3>1, <3>2
    <3>3. CASE ~Moved(i)
      BY <1>7, <3>1, <3>3
    <3> QED
      BY <3>2, <3>3
  <2>2. DOMAIN txs' = Send
    BY <1>1
  <2> QED
    BY <1>1, <1>2, <1>7, <2>1, <2>2 DEF TxsInv
<1>11. ASSUME NEW i \in Send, txs[i] # NoTx
       PROVE  txs'[i] # NoTx
  BY <1>7, <1>11 DEF NoTx
<1>12. RelateInv'
  BY <1>1, <1>2, <1>11 DEF DenomsInv, RelateInv
<1>13. SureInv'
  <2>1. ASSUME NEW i \in Send, txs'[i].sure
        PROVE  txs[i].sure /\ txs'[i] # NoTx /\ TxBase(txs'[i]) = TxBase(txs[i])
    <3>1. txs[i].sure
      BY <1>7, <2>1
    <3>2. txs[i] # NoTx
      BY <3>1 DEF DenomsInv, SureInv
    <3> QED
      BY <1>7, <1>11, <3>1, <3>2
  <2> QED
    BY <1>1, <1>4, <2>1, SureKept
<1> QED
  BY <1>3, <1>5, <1>6, <1>10, <1>12, <1>13 DEF DenomsInv

\* What a token is traced to leads on from where it was traced before.
LEMMA TracedAgain ==
  ASSUME NEW t, FollowsPath(t), NEW cf, NEW S, S \subseteq End, ConfIn(cf, S),
         NEW n \in 1 .. Len(t.via), \A j \in 1 .. n - 1 : Has(cf, Leg(t, j)),
         NEW d, d = TraceDenom(t.path, Head(t.via), cf)
  PROVE  \E m \in 1 .. Len(t.via) : /\ n <= m /\ Base(d) = At(t, m) /\ Final(cf, At(t, m))
                                    /\ \A j \in 1 .. m - 1 : Has(cf, Leg(t, j))
<1>1. PICK m \in 1 .. Len(t.via) : /\ Base(d) = At(t, m) /\ Final(cf, At(t, m))
                                   /\ \A j \in 1 .. m - 1 : Has(cf, Leg(t, j))
  BY Traced
<1>2. n <= m
  <2> SUFFICES ASSUME ~(n <= m)
               PROVE  FALSE
    OBVIOUS
  <2>1. m \in 1 .. n - 1 /\ m \in 1 .. Len(t.via) - 1
    BY Lengths
  <2>2. ~Has(cf, Leg(t, m))
    BY <1>1, <2>1, FinalStops
  <2> QED
    BY <2>1, <2>2
<1> QED
  BY <1>1, <1>2

LEMMA AddUpdateDenomKeeps ==
  ASSUME DenomsInv, AddUpdateDenom, UNCHANGED channelVars
  PROVE  DenomsInv'
<1> DEFINE k == CHOOSE d \in DOMAIN add.list : TRUE
           old == add.list[k]
           new == TraceDenom(k.denom, k.chain, add.conf)
<1>1. PICK lost \in Lost({"denom"}) :
        /\ denoms' = IF lost # {} THEN denoms ELSE UpdateDenom(k, new)
        /\ add' = [add EXCEPT !.list = [d \in DOMAIN @ \ {k} |-> @[d]],
                              !.base = {[key |-> k, old |-> old, new |-> new, lost |-> lost]}]
  BY DEF AddUpdateDenom
<1>2. /\ add.at = "run" /\ add.base = {} /\ k \in DOMAIN add.list
      /\ UNCHANGED tokens /\ UNCHANGED sends /\ UNCHANGED txs
      /\ UNCHANGED sync /\ UNCHANGED relate /\ UNCHANGED settled /\ UNCHANGED skipped
  BY DEF AddUpdateDenom
<1>3. ShownEnds' = ShownEnds /\ ends' = ends
  BY ChainsSame
<1>4. TokensInv' /\ SendsInv'
  BY <1>2, <1>3, SendsSame
<1>5. PICK t \in tokens : /\ TokenKey(t) = k
                          /\ \E n \in 1 .. Len(t.via) : /\ Base(denoms[k]) = At(t, n)
                                                        /\ \A j \in 1 .. n - 1 : Has(add.conf, Leg(t, j))
  BY <1>2 DEF DenomsInv, ListInv
<1>6. PICK n \in 1 .. Len(t.via) : /\ Base(denoms[k]) = At(t, n)
                                   /\ \A j \in 1 .. n - 1 : Has(add.conf, Leg(t, j))
  BY <1>5
<1>7. FollowsPath(t) /\ k.denom = t.path /\ k.chain = Head(t.via)
  <2>1. TokenKey(t) = k
    BY <1>5
  <2> HIDE DEF k
  <2> QED
    BY <2>1 DEF DenomsInv, TokensInv, TokenKey, KeyOf
<1>8. k \in DOMAIN denoms /\ old = denoms[k]
  BY <1>2 DEF DenomsInv, ListInv
<1>9. ConfIn(add.conf, ShownEnds) /\ ShownEnds \subseteq End
  BY DEF DenomsInv, AddInv, ShownEnds
<1>10. new = TraceDenom(t.path, Head(t.via), add.conf)
  BY <1>7
<1>11. DocOf(t, denoms[k], ShownEnds)
  <2>1. PICK s \in tokens : TokenKey(s) = k /\ DocOf(s, denoms[k], ShownEnds)
    BY <1>8 DEF DenomsInv, DocsInv
  <2>2. s = t
    BY <1>5, <2>1, OneToken DEF DenomsInv
  <2> QED
    BY <2>1, <2>2
<1>12. add'.list = [d \in DOMAIN add.list \ {k} |-> add.list[d]]
       /\ add'.base = {[key |-> k, old |-> old, new |-> new, lost |-> lost]}
       /\ add'.conf = add.conf /\ add'.chain = add.chain /\ add'.at = add.at
       /\ DOMAIN add' = {"at", "chain", "conf", "list", "base"}
  BY <1>1 DEF DenomsInv, AddInv
<1> HIDE DEF k, old, new
<1>13. DocOf(t, new, ShownEnds)
  BY <1>7, <1>9, <1>10, Traced
<1>14. PICK m \in 1 .. Len(t.via) :
         /\ n <= m /\ Base(new) = At(t, m) /\ Final(add.conf, At(t, m))
         /\ \A j \in 1 .. m - 1 : Has(add.conf, Leg(t, j))
  BY <1>6, <1>7, <1>9, <1>10, TracedAgain
<1>15. /\ DOMAIN add'.list = DOMAIN add.list \ {k}
       /\ \A x \in DOMAIN add'.list : add'.list[x] = add.list[x]
  BY <1>12
<1>16. /\ DOMAIN denoms' = DOMAIN denoms /\ \A j \in DOMAIN denoms : j # k => denoms'[j] = denoms[j]
       /\ DocOf(t, denoms'[k], ShownEnds)
       /\ lost = {} => Base(denoms'[k]) = Base(new)
       /\ lost # {} => denoms'[k] = denoms[k]
  <2>1. CASE lost # {}
    BY <1>1, <1>11, <2>1
  <2>2. CASE lost = {}
    <3>1. denoms' = [denoms EXCEPT ![k].baseDenom = new.baseDenom, ![k].baseChain = new.baseChain,
                                   ![k].prevDenom = new.prevDenom, ![k].prevChain = new.prevChain,
                                   ![k].isBase = new.isBase]
      BY <1>1, <2>2 DEF UpdateDenom
    <3>2. denoms[k] \in DenomDoc /\ new \in DenomDoc
      BY <1>11, <1>13 DEF DocOf
    <3>3. /\ DOMAIN denoms' = DOMAIN denoms /\ \A j \in DOMAIN denoms : j # k => denoms'[j] = denoms[j]
          /\ denoms'[k] \in DenomDoc /\ Base(denoms'[k]) = Base(new) /\ denoms'[k].isBase = new.isBase
          /\ denoms'[k].prevChain = new.prevChain /\ denoms'[k].prevDenom = new.prevDenom
          /\ denoms'[k].ibcHops = denoms[k].ibcHops
      BY <1>8, <3>1, <3>2 DEF DenomDoc, Base
    <3>4. DocOf(t, denoms'[k], ShownEnds)
      BY <1>11, <1>13, <3>3 DEF DocOf
    <3> QED
      BY <2>2, <3>3, <3>4
  <2> QED
    BY <2>1, <2>2
<1>17. DocsInv'
  <2>1. ASSUME NEW j \in DOMAIN denoms
        PROVE  \E s \in tokens : TokenKey(s) = j /\ DocOf(s, denoms'[j], ShownEnds)
    <3>1. CASE j = k
      BY <1>5, <1>16, <3>1
    <3>2. CASE j # k
      BY <1>16, <3>2 DEF DenomsInv, DocsInv
    <3> QED
      BY <3>1, <3>2
  <2> QED
    BY <1>2, <1>3, <1>16, <2>1 DEF DocsInv
<1>18. SettledInv'
  <2>1. ASSUME NEW s \in tokens, TokenKey(s) \in settled
        PROVE  Base(denoms'[TokenKey(s)]) = At(s, Len(s.via))
    <3>1. TokenKey(s) \in DOMAIN denoms /\ Base(denoms[TokenKey(s)]) = At(s, Len(s.via))
      BY <2>1 DEF DenomsInv, SettledInv
    <3>2. CASE TokenKey(s) # k
      BY <1>16, <3>1, <3>2
    <3>3. CASE TokenKey(s) = k /\ lost # {}
      BY <1>16, <3>1, <3>3
    <3>4. CASE TokenKey(s) = k /\ lost = {}
      <4>1. s = t
        BY <1>5, <3>4, OneToken DEF DenomsInv
      <4>2. At(t, n) = At(t, Len(t.via)) /\ Len(t.via) \in 1 .. Len(t.via)
        BY <1>6, <1>7, <3>1, <3>4, <4>1, Lengths
      <4>3. n = Len(t.via)
        BY <1>7, <4>2, AtInjective
      <4>4. m = Len(t.via)
        BY <1>7, <1>14, <4>3, Lengths
      <4> QED
        BY <1>14, <1>16, <3>4, <4>1, <4>4
    <3> QED
      BY <3>2, <3>3, <3>4
  <2>2. settled \subseteq DOMAIN denoms
    BY DEF DenomsInv, SettledInv
  <2> QED
    BY <1>2, <1>16, <2>1, <2>2 DEF SettledInv
<1>19. TxsInv' /\ SyncInv' /\ RelateInv'
  <2>1. TxsInv'
    BY <1>2, <1>3, <1>16 DEF DenomsInv, TxsInv
  <2>2. SyncInv' /\ RelateInv'
    BY <1>2, <1>3 DEF DenomsInv, SyncInv, RelateInv
  <2> QED
    BY <2>1, <2>2
<1>20. AddInv'
  BY <1>2, <1>3, <1>12 DEF DenomsInv, AddInv
<1>21. ListInv'
  <2>1. ASSUME NEW x \in DOMAIN add'.list
        PROVE  x \in DOMAIN add.list /\ x # k /\ x \in DOMAIN denoms /\ denoms'[x] = denoms[x]
               /\ add'.list[x] = add.list[x]
    BY <1>15, <1>16 DEF DenomsInv, ListInv
  <2> QED
    BY <1>2, <1>12, <1>16, <2>1 DEF DenomsInv, ListInv
<1>22. BaseInv'
  <2> DEFINE u == [key |-> k, old |-> old, new |-> new, lost |-> lost]
  <2>1. u.key = k /\ u.old = old /\ u.new = new /\ u.lost = lost
    OBVIOUS
  <2>2. add'.base = {u}
    BY <1>12
  <2> HIDE DEF u
  <2>3. /\ k \in DOMAIN denoms' \ DOMAIN add'.list
        /\ Final(add.conf, Base(new))
        /\ lost = {} => Base(denoms'[k]) = Base(new)
        /\ lost # {} => Base(denoms'[k]) = Base(old)
    BY <1>8, <1>14, <1>15, <1>16
  <2>4. Base(old) = At(t, n)
    BY <1>6, <1>8
  <2>5. \E s \in tokens : \E p, q \in 1 .. Len(s.via) :
            /\ TokenKey(s) = k /\ p <= q /\ Base(old) = At(s, p) /\ Base(new) = At(s, q)
            /\ \A j \in 1 .. q - 1 : Has(add.conf, Leg(s, j))
    BY <1>5, <1>14, <2>4
  <2> QED
    BY <1>2, <1>12, <2>1, <2>2, <2>3, <2>5 DEF BaseInv
<1>23. SureInv'
  <2>1. Written = {} /\ Written' \subseteq {k}
    BY <1>2, <1>12 DEF Written
  <2>2. \A b : Pending(b) => Pending(b)'
    <3>1. ASSUME NEW b, Pending(b)
          PROVE  Pending(b)'
      <4>1. PICK x \in DOMAIN add.list : b = Base(add.list[x])
        BY <1>2, <3>1 DEF Pending
      <4>2. CASE x = k
        BY <1>12, <4>1, <4>2 DEF Pending, old
      <4>3. CASE x # k
        BY <1>15, <4>1, <4>3 DEF Pending
      <4> QED
        BY <4>2, <4>3
    <3> QED
      BY <3>1
  <2>3. ASSUME NEW i \in Send, txs[i].sure
        PROVE  LET s == sends[i].token
                   b == TxBase(txs[i])
               IN  /\ txs[i] # NoTx
                   /\ \/ \E x \in DOMAIN denoms' : b = Base(denoms'[x])
                      \/ \E u \in add'.base : b = Base(u.old)
                   /\ TokenKey(s) \in DOMAIN add'.list \cup Written' => Pending(b) \/ Final(add.conf, b)
                   /\ TokenKey(s) \in settled =>
                        b = At(s, Len(s.via)) \/ (Pending(b) /\ \A j \in 1 .. Len(s.via) - 1 : Has(add.conf, Leg(s, j)))
    <3> DEFINE s == sends[i].token
               b == TxBase(txs[i])
    <3>1. /\ txs[i] # NoTx /\ \E x \in DOMAIN denoms : b = Base(denoms[x])
          /\ TokenKey(s) \in DOMAIN add.list => Pending(b) \/ Final(add.conf, b)
          /\ TokenKey(s) \in settled =>
               b = At(s, Len(s.via)) \/ (Pending(b) /\ \A j \in 1 .. Len(s.via) - 1 : Has(add.conf, Leg(s, j)))
      BY <1>2, <2>1, <2>3 DEF DenomsInv, SureInv
    <3>2. DOMAIN add'.list \cup Written' \subseteq DOMAIN add.list
      BY <1>2, <1>15, <2>1
    <3>3. \/ \E x \in DOMAIN denoms' : b = Base(denoms'[x])
          \/ \E u \in add'.base : b = Base(u.old)
      <4>1. PICK x \in DOMAIN denoms : b = Base(denoms[x])
        BY <3>1
      <4>2. CASE x = k
        BY <1>8, <1>12, <4>1, <4>2
      <4>3. CASE x # k
        BY <1>16, <4>1, <4>3
      <4> QED
        BY <4>2, <4>3
    <3> QED
      BY <3>1, <3>2, <3>3
  <2> QED
    BY <1>2, <1>12, <2>2, <2>3 DEF SureInv
<1> QED
  BY <1>4, <1>17, <1>18, <1>19, <1>20, <1>21, <1>22, <1>23 DEF DenomsInv

LEMMA TokenIs ==
  ASSUME TokensInv, NEW t \in tokens
  PROVE  Token(TokenKey(t)) = t
<1> DEFINE s == Token(TokenKey(t))
<1>1. s \in tokens /\ TokenKey(s) = TokenKey(t)
  BY DEF Token
<1> HIDE DEF s
<1>2. s = t
  BY <1>1, OneToken
<1> QED
  BY <1>2 DEF s

\* A base that is moved on along the way of one token is moved on along any.
LEMMA MovedOn ==
  ASSUME NEW s, NEW t, FollowsPath(s), FollowsPath(t), NEW S, NEW cf, ConfIn(cf, S),
         NEW n \in 1 .. Len(s.via), NEW m \in 1 .. Len(s.via), n <= m,
         \A j \in 1 .. m - 1 : Has(cf, Leg(s, j)),
         NEW p \in 1 .. Len(t.via), At(s, n) = At(t, p), \A j \in 1 .. p - 1 : Leg(t, j) \in S
  PROVE  \E q \in 1 .. Len(t.via) :
           /\ At(s, m) = At(t, q) /\ p <= q /\ \A j \in 1 .. q - 1 : Leg(t, j) \in S
<1> DEFINE V == Len(s.via)
           W == Len(t.via)
           q == p + (m - n)
<1>1. V \in Nat \ {0} /\ W \in Nat \ {0}
  BY Lengths
<1>2. /\ V - n = W - p
      /\ \A i \in 1 .. V - n + 1 : At(s, n + i - 1) = At(t, p + i - 1)
      /\ \A i \in 1 .. V - n : Leg(s, n + i - 1) = Leg(t, p + i - 1)
  <2>1. V - n = W - p
    BY SameStation
  <2>2. \A i \in 1 .. V - n + 1 : At(s, n + i - 1) = At(t, p + i - 1)
    BY SameStation
  <2>3. \A i \in 1 .. V - n : Leg(s, n + i - 1) = Leg(t, p + i - 1)
    BY SameStation
  <2> QED
    BY <2>1, <2>2, <2>3
<1>3. n \in 1 .. V /\ m \in 1 .. V /\ p \in 1 .. W
  OBVIOUS
<1> HIDE DEF V, W
<1>4. /\ q \in 1 .. W /\ p <= q /\ m - n + 1 \in 1 .. V - n + 1
      /\ n + (m - n + 1) - 1 = m /\ p + (m - n + 1) - 1 = q
  BY <1>1, <1>2, <1>3
<1>5. At(s, m) = At(t, q)
  <2>1. At(s, n + (m - n + 1) - 1) = At(t, p + (m - n + 1) - 1)
    BY <1>2, <1>4
  <2> QED
    BY <1>4, <2>1
<1>6. ASSUME NEW j \in 1 .. q - 1
      PROVE  Leg(t, j) \in S
  <2>1. CASE j < p
    <3>1. j \in 1 .. p - 1
      BY <1>3, <1>4, <2>1
    <3> QED
      BY <3>1
  <2>2. CASE ~(j < p)
    <3> DEFINE i == j - p + 1
    <3>1. /\ i \in 1 .. V - n /\ p + i - 1 = j /\ n + i - 1 \in 1 .. m - 1
      BY <1>1, <1>2, <1>3, <1>4, <2>2
    <3> HIDE DEF i
    <3>2. Leg(s, n + i - 1) = Leg(t, j)
      BY <1>2, <3>1
    <3>3. Has(cf, Leg(s, n + i - 1))
      BY <3>1
    <3> QED
      BY <3>2, <3>3, LegHasIsIn
  <2> QED
    BY <2>1, <2>2
<1> QED
  BY <1>4, <1>5, <1>6 DEF W

LEMMA TxUnsure ==
  ASSUME NEW x \in TxDoc, NEW y, y = [x EXCEPT !.sure = FALSE]
  PROVE  y \in TxDoc /\ y.status = x.status /\ TxBase(y) = TxBase(x) /\ ~y.sure
BY DEF TxDoc, TxBase

\* What happens to a transfer: its base is moved on, or stays; and it is no longer
\* sure when its base should have been moved on and was not.
LEMMA BaseMoves ==
  ASSUME DenomsInv, NEW u, Base(u.new) \in Chain \X Denom, NEW lost, NEW i \in Send,
         NEW y, txs[i] = NoTx => y = NoTx, txs[i] # NoTx => y = UpdateBaseDenomInfo(txs[i], u, lost)
  PROVE  /\ y \in TxDoc /\ y.status = txs[i].status /\ (y = NoTx <=> txs[i] = NoTx)
         /\ \/ /\ TxBase(y) = TxBase(txs[i])
               /\ y.sure => txs[i].sure /\ (TxBase(txs[i]) = Base(u.old) => TxBase(txs[i]) = Base(u.new))
            \/ /\ txs[i] # NoTx /\ TxBase(txs[i]) = Base(u.old) /\ TxBase(y) = Base(u.new)
               /\ y.sure => txs[i].sure /\ u.lost = {}
<1> DEFINE x == txs[i]
<1>1. x \in TxDoc /\ (x # NoTx => x.status # "none")
  BY DEF DenomsInv, TxsInv
<1>2. u.new.baseDenom \in Denom /\ u.new.baseChain \in Chain
  BY DEF Base
<1>3. \A d : HasBase(x, d) <=> TxBase(x) = Base(d)
  BY DEF HasBase, TxBase, Base
<1>4. NoTx.status = "none" /\ ~NoTx.sure
  BY DEF NoTx
<1>5. CASE x = NoTx
  BY <1>1, <1>4, <1>5
<1>6. CASE x # NoTx /\ (~HasBase(x, u.old) \/ HasBase(x, u.new))
  <2>1. y = x
    BY <1>6 DEF UpdateBaseDenomInfo
  <2> QED
    BY <1>1, <1>3, <1>6, <2>1
<1>7. CASE x # NoTx /\ HasBase(x, u.old) /\ ~HasBase(x, u.new) /\ lost = {}
  <2> DEFINE s == u.lost = {}
  <2>1. y = [x EXCEPT !.base = u.new.baseDenom, !.baseChain = u.new.baseChain, !.sure = @ /\ s]
    BY <1>7 DEF UpdateBaseDenomInfo
  <2>2. s \in BOOLEAN
    OBVIOUS
  <2> HIDE DEF s, x
  <2>3. y \in TxDoc /\ y.status = x.status /\ TxBase(y) = <<u.new.baseChain, u.new.baseDenom>>
        /\ (y.sure <=> x.sure /\ s)
    BY <1>1, <1>2, <2>1, <2>2 DEF TxDoc, TxBase
  <2>4. y # NoTx
    BY <1>1, <1>4, <1>7, <2>3
  <2> QED
    BY <1>3, <1>7, <2>3, <2>4 DEF Base, s, x
<1>8. CASE x # NoTx /\ HasBase(x, u.old) /\ ~HasBase(x, u.new) /\ lost # {}
  <2>1. y = [x EXCEPT !.sure = FALSE]
    BY <1>8 DEF UpdateBaseDenomInfo
  <2> HIDE DEF x
  <2>2. y \in TxDoc /\ y.status = x.status /\ TxBase(y) = TxBase(x) /\ ~y.sure
    BY <1>1, <2>1, TxUnsure
  <2>3. y # NoTx
    BY <1>1, <1>4, <1>8, <2>2
  <2> QED
    BY <1>8, <2>2, <2>3 DEF x
<1> QED
  BY <1>5, <1>6, <1>7, <1>8

LEMMA AddUpdateBaseKeeps ==
  ASSUME DenomsInv, AddUpdateBase, UNCHANGED channelVars
  PROVE  DenomsInv'
<1>1. PICK u \in add.base : \E lost \in Lost({"txs"}) :
        /\ txs' = [i \in Send |-> IF txs[i] = NoTx THEN NoTx ELSE UpdateBaseDenomInfo(txs[i], u, lost)]
        /\ settled' = settled \cup {k \in {u.key} : u.lost = {} /\ KnowsWay(Token(k), add.conf)}
  BY DEF AddUpdateBase
<1>2. PICK lost \in Lost({"txs"}) :
        txs' = [i \in Send |-> IF txs[i] = NoTx THEN NoTx ELSE UpdateBaseDenomInfo(txs[i], u, lost)]
  BY <1>1
<1>3. /\ add.at = "run" /\ add' = [add EXCEPT !.base = {}]
      /\ UNCHANGED tokens /\ UNCHANGED sends /\ UNCHANGED denoms
      /\ UNCHANGED sync /\ UNCHANGED relate /\ UNCHANGED skipped
  BY DEF AddUpdateBase
<1>4. settled' = settled \cup {k \in {u.key} : u.lost = {} /\ KnowsWay(Token(k), add.conf)}
  BY <1>1
<1>5. ShownEnds' = ShownEnds /\ ends' = ends
  BY ChainsSame
<1>6. TokensInv' /\ SendsInv'
  BY <1>3, <1>5, SendsSame
<1>7. /\ add'.conf = add.conf /\ add'.chain = add.chain /\ add'.base = {} /\ add'.list = add.list
      /\ add'.at = add.at /\ DOMAIN add' = {"at", "chain", "conf", "list", "base"}
  BY <1>3 DEF DenomsInv, AddInv
<1>8. /\ u.key \in DOMAIN denoms \ DOMAIN add.list
      /\ Final(add.conf, Base(u.new))
      /\ u.lost = {} => Base(denoms[u.key]) = Base(u.new)
      /\ u.lost # {} => Base(denoms[u.key]) = Base(u.old)
      /\ add.base = {u}
      /\ \E s \in tokens : \E n, m \in 1 .. Len(s.via) :
           /\ TokenKey(s) = u.key /\ n <= m /\ Base(u.old) = At(s, n) /\ Base(u.new) = At(s, m)
           /\ \A j \in 1 .. m - 1 : Has(add.conf, Leg(s, j))
  BY DEF DenomsInv, BaseInv
<1>9. PICK s \in tokens : \E n, m \in 1 .. Len(s.via) :
        /\ TokenKey(s) = u.key /\ n <= m /\ Base(u.old) = At(s, n) /\ Base(u.new) = At(s, m)
        /\ \A j \in 1 .. m - 1 : Has(add.conf, Leg(s, j))
  BY <1>8
<1>10. PICK n \in 1 .. Len(s.via), m \in 1 .. Len(s.via) :
         /\ TokenKey(s) = u.key /\ n <= m /\ Base(u.old) = At(s, n) /\ Base(u.new) = At(s, m)
         /\ \A j \in 1 .. m - 1 : Has(add.conf, Leg(s, j))
  BY <1>9
<1>11. FollowsPath(s) /\ ConfIn(add.conf, ShownEnds) /\ ShownEnds \subseteq End
  BY DEF DenomsInv, TokensInv, AddInv, ShownEnds
<1>12. Base(u.new) \in Chain \X Denom
  BY <1>10, <1>11, AtShape
<1>13. Token(u.key) = s
  BY <1>10, TokenIs DEF DenomsInv
<1>14. ASSUME KnowsWay(Token(u.key), add.conf)
       PROVE  \A j \in 1 .. Len(s.via) - 1 : Has(add.conf, Leg(s, j))
  BY <1>11, <1>13, <1>14, KnowsLegs
<1>15. DocsInv' /\ SyncInv'
  BY <1>3, <1>5 DEF DenomsInv, DocsInv, SyncInv
<1>16. AddInv' /\ ListInv' /\ BaseInv'
  BY <1>3, <1>5, <1>7 DEF DenomsInv, AddInv, ListInv, BaseInv
<1>17. ASSUME NEW k \in settled', k \notin settled
       PROVE  k = u.key /\ u.lost = {} /\ KnowsWay(Token(u.key), add.conf)
  BY <1>4, <1>17
<1>18. SettledInv'
  <2>1. settled' \subseteq DOMAIN denoms
    BY <1>4, <1>8 DEF DenomsInv, SettledInv
  <2>2. ASSUME NEW t \in tokens, TokenKey(t) \in settled'
        PROVE  Base(denoms[TokenKey(t)]) = At(t, Len(t.via))
    <3>1. CASE TokenKey(t) \in settled
      BY <3>1 DEF DenomsInv, SettledInv
    <3>2. CASE TokenKey(t) \notin settled
      <4>1. TokenKey(t) = u.key /\ u.lost = {} /\ KnowsWay(Token(u.key), add.conf)
        BY <1>17, <2>2, <3>2
      <4>2. t = s
        BY <1>10, <4>1, OneToken DEF DenomsInv
      <4>3. m = Len(s.via)
        BY <1>8, <1>10, <1>11, <1>14, <4>1, FinalHome
      <4> QED
        BY <1>8, <1>10, <4>1, <4>2, <4>3
    <3> QED
      BY <3>1, <3>2
  <2> QED
    BY <1>3, <2>1, <2>2 DEF SettledInv
<1>19. ASSUME NEW i \in Send
       PROVE  /\ txs'[i] \in TxDoc /\ txs'[i].status = txs[i].status /\ (txs'[i] = NoTx <=> txs[i] = NoTx)
              /\ \/ /\ TxBase(txs'[i]) = TxBase(txs[i])
                    /\ txs'[i].sure =>
                         txs[i].sure /\ (TxBase(txs[i]) = Base(u.old) => TxBase(txs[i]) = Base(u.new))
                 \/ /\ txs[i] # NoTx /\ TxBase(txs[i]) = Base(u.old) /\ TxBase(txs'[i]) = Base(u.new)
                    /\ txs'[i].sure => txs[i].sure /\ u.lost = {}
  <2>1. /\ txs[i] = NoTx => txs'[i] = NoTx
        /\ txs[i] # NoTx => txs'[i] = UpdateBaseDenomInfo(txs[i], u, lost)
    BY <1>2
  <2> QED
    BY <1>12, <2>1, BaseMoves
\* Where the base of a transfer is on the way of its own token.
<1>20. ASSUME NEW i \in Send, txs[i] # NoTx
       PROVE  /\ FollowsPath(sends[i].token) /\ sends[i].token \in tokens
              /\ \E p \in 1 .. Len(sends[i].token.via) :
                   /\ TxBase(txs[i]) = At(sends[i].token, p)
                   /\ \A j \in 1 .. p - 1 : Leg(sends[i].token, j) \in ShownEnds
  BY <1>20 DEF DenomsInv, TxsInv, SendsInv, TokensInv, OnWay
<1>21. ASSUME NEW i \in Send, txs[i] # NoTx, TxBase(txs[i]) = Base(u.old)
       PROVE  \E q \in 1 .. Len(sends[i].token.via) :
                /\ Base(u.new) = At(sends[i].token, q)
                /\ \A j \in 1 .. q - 1 : Leg(sends[i].token, j) \in ShownEnds
                /\ TxBase(txs[i]) = At(sends[i].token, Len(sends[i].token.via)) => q = Len(sends[i].token.via)
  <2> DEFINE t == sends[i].token
  <2>1. PICK p \in 1 .. Len(t.via) :
          TxBase(txs[i]) = At(t, p) /\ \A j \in 1 .. p - 1 : Leg(t, j) \in ShownEnds
    BY <1>20, <1>21
  <2>2. FollowsPath(t)
    BY <1>20, <1>21
  <2>3. At(s, n) = At(t, p)
    BY <1>10, <1>21, <2>1
  <2> HIDE DEF t
  <2>4. PICK q \in 1 .. Len(t.via) :
          At(s, m) = At(t, q) /\ p <= q /\ \A j \in 1 .. q - 1 : Leg(t, j) \in ShownEnds
    BY <1>10, <1>11, <2>1, <2>2, <2>3, MovedOn
  <2>5. ASSUME TxBase(txs[i]) = At(t, Len(t.via))
        PROVE  q = Len(t.via)
    <3>1. Len(t.via) \in 1 .. Len(t.via)
      BY <2>2, Lengths
    <3>2. p = Len(t.via)
      BY <2>1, <2>2, <2>5, <3>1, AtInjective
    <3> QED
      BY <2>2, <2>4, <3>2, Lengths
  <2> QED
    BY <1>10, <2>4, <2>5 DEF t
<1>22. TxsInv'
  <2>1. ASSUME NEW i \in Send, txs'[i] # NoTx
        PROVE  OnWay(sends[i].token, TxBase(txs'[i]), ShownEnds)
    <3>1. txs[i] # NoTx
      BY <1>19, <2>1
    <3>2. CASE TxBase(txs'[i]) = TxBase(txs[i])
      BY <1>20, <3>1, <3>2 DEF OnWay
    <3>3. CASE TxBase(txs'[i]) = Base(u.new) /\ TxBase(txs[i]) = Base(u.old)
      BY <1>21, <3>1, <3>3 DEF OnWay
    <3> QED
      BY <1>19, <3>2, <3>3
  <2>2. ASSUME NEW i \in Send, txs'[i] # NoTx
        PROVE  /\ sends[i] # NoSend /\ txs'[i].status # "none"
               /\ txs'[i].status # "setting" => sends[i].from \in ShownEnds
               /\ txs'[i].status = "success" /\ ~IsCrossBack(sends[i].token.path, sends[i].from[2]) =>
                    TokenKey(Arrived(sends[i].token, sends[i].from)) \in DOMAIN denoms \cup skipped
    BY <1>19, <2>2 DEF DenomsInv, TxsInv
  <2>3. DOMAIN txs' = Send
    BY <1>2
  <2> QED
    BY <1>3, <1>5, <1>19, <2>1, <2>2, <2>3 DEF TxsInv
<1>23. RelateInv'
  BY <1>3, <1>5, <1>19 DEF DenomsInv, RelateInv
<1>24. Written' = {} /\ \A b : Pending(b) => Pending(b)' \/ b = Base(u.old)
  BY <1>7, <1>8 DEF Written, Pending
<1>25. ASSUME NEW i \in Send, txs'[i].sure
       PROVE  LET t == sends[i].token
                  b == TxBase(txs'[i])
              IN  /\ txs'[i] # NoTx
                  /\ \E k \in DOMAIN denoms : b = Base(denoms[k])
                  /\ TokenKey(t) \in DOMAIN add.list =>
                       (\E k \in DOMAIN add.list : b = Base(add.list[k])) \/ Final(add.conf, b)
                  /\ TokenKey(t) \in settled' =>
                       \/ b = At(t, Len(t.via))
                       \/ /\ \E k \in DOMAIN add.list : b = Base(add.list[k])
                          /\ \A j \in 1 .. Len(t.via) - 1 : Has(add.conf, Leg(t, j))
  <2> DEFINE t == sends[i].token
             a == TxBase(txs[i])
             b == TxBase(txs'[i])
             Listed2(c) == \E k \in DOMAIN add.list : c = Base(add.list[k])
             Known == \A j \in 1 .. Len(t.via) - 1 : Has(add.conf, Leg(t, j))
  <2>1. txs[i].sure
    BY <1>19, <1>25
  <2>2. /\ txs[i] # NoTx
        /\ (\E k \in DOMAIN denoms : a = Base(denoms[k])) \/ a = Base(u.old)
        /\ TokenKey(t) \in DOMAIN add.list \cup Written => Listed2(a) \/ a = Base(u.old) \/ Final(add.conf, a)
        /\ TokenKey(t) \in settled => a = At(t, Len(t.via)) \/ ((Listed2(a) \/ a = Base(u.old)) /\ Known)
    BY <1>8, <2>1 DEF DenomsInv, SureInv, Pending
  <2>3. txs'[i] # NoTx
    BY <1>19, <2>2
  <2>4. t \in tokens /\ FollowsPath(t)
    BY <1>20, <2>2
  <2>5. ASSUME TokenKey(t) \in settled', TokenKey(t) \notin settled
        PROVE  Known /\ u.key \in Written /\ TokenKey(t) = u.key
    <3>1. TokenKey(t) = u.key /\ u.lost = {} /\ KnowsWay(Token(u.key), add.conf)
      BY <1>17, <2>5
    <3>2. t = s
      BY <1>10, <2>4, <3>1, OneToken DEF DenomsInv
    <3>3. Known
      BY <1>14, <3>1, <3>2
    <3>4. u.key \in Written
      BY <1>8, <3>1 DEF Written
    <3> QED
      BY <3>1, <3>3, <3>4
  <2>6. CASE a = Base(u.old) /\ b = Base(u.new) /\ u.lost = {}
    <3>1. \E k \in DOMAIN denoms : b = Base(denoms[k])
      BY <1>8, <2>6
    <3>2. PICK q \in 1 .. Len(t.via) : /\ b = At(t, q)
                                       /\ a = At(t, Len(t.via)) => q = Len(t.via)
      BY <1>21, <2>2, <2>6
    <3>3. Final(add.conf, b)
      BY <1>8, <2>6
    <3>4. Known => q = Len(t.via)
      BY <2>4, <3>2, <3>3, FinalHome
    <3>5. TokenKey(t) \in settled' => q = Len(t.via)
      BY <2>2, <2>5, <3>2, <3>4
    <3> QED
      BY <2>3, <3>1, <3>2, <3>3, <3>5
  <2>7. CASE b = a /\ (a = Base(u.old) => a = Base(u.new))
    <3>1. \E k \in DOMAIN denoms : a = Base(denoms[k])
      <4>1. CASE a = Base(u.old)
        BY <1>8, <2>7, <4>1
      <4> QED
        BY <2>2, <4>1
    <3>2. a = Base(u.old) => Final(add.conf, a)
      BY <1>8, <2>7
    <3>3. TokenKey(t) \in DOMAIN add.list \cup Written => Listed2(a) \/ Final(add.conf, a)
      BY <2>2, <3>2
    <3>4. Known /\ Final(add.conf, a) => a = At(t, Len(t.via))
      <4>1. PICK p \in 1 .. Len(t.via) : a = At(t, p)
        BY <1>20, <2>2
      <4> QED
        BY <2>4, <4>1, FinalHome
    <3>5. TokenKey(t) \in settled' => a = At(t, Len(t.via)) \/ (Listed2(a) /\ Known)
      <4>1. CASE TokenKey(t) \in settled
        BY <2>2, <3>2, <3>4, <4>1
      <4>2. CASE TokenKey(t) \notin settled
        BY <2>5, <3>3, <3>4, <4>2
      <4> QED
        BY <4>1, <4>2
    <3> QED
      BY <2>3, <2>7, <3>1, <3>3, <3>5
  <2> QED
    BY <1>19, <1>25, <2>6, <2>7
<1>26. SureInv'
  BY <1>3, <1>7, <1>24, <1>25 DEF SureInv, Pending
<1> QED
  BY <1>6, <1>15, <1>16, <1>18, <1>22, <1>23, <1>26 DEF DenomsInv

----------------------------------------------------------------------------
(* First states.                                                           *)

LEMMA FirstConfig ==
  ASSUME Init
  PROVE  ConfigInv
<1>1. PICK c \in Cases : ends = c.ends /\ conf = c.conf
  BY DEF Init
<1>2. cfg = "idle" /\ cfgConf = Nothing /\ cfgLeft = {} /\ cfgList = Nothing
  BY DEF Init, ChannelsInit
<1>3. ConfIn(conf, ShownEnds)
  <2> SUFFICES ASSUME NEW k \in DOMAIN conf, NEW h \in DOMAIN conf[k]
               PROVE  /\ <<k, h>> \in ShownEnds
                      /\ conf[k][h].chain = Peer[<<k, h>>][1] /\ conf[k][h].other \in {NoHop, Peer[<<k, h>>][2]}
    BY DEF ConfIn
  <2> DEFINE e == <<k, h>>
  <2>1. /\ e \in End /\ Peer[e][1] \in DOMAIN conf /\ ends[e] # "none"
        /\ conf[k][h].chain = Peer[e][1] /\ conf[k][h].other \in {NoHop, Peer[e][2]}
    BY <1>1, RegistryAssumption
  <2>2. e[1] = k
    OBVIOUS
  <2> QED
    BY <2>1, <2>2 DEF ShownEnds, Shown, Listed
<1>4. Listed \subseteq Chain
  BY <1>1, RegistryAssumption DEF Listed
<1> QED
  BY <1>2, <1>3, <1>4, EmptyConf DEF ConfigInv, ListedOnly, AnswersInv

LEMMA FirstDenoms ==
  ASSUME Init
  PROVE  DenomsInv
<1>1. PICK c \in Cases : ends = c.ends /\ conf = c.conf /\ tokens = c.tokens /\ denoms = c.denoms
  BY DEF Init
<1>2. /\ sends = [i \in Send |-> NoSend] /\ txs = [i \in Send |-> NoTx]
      /\ sync = NoSync /\ relate = NoRelate /\ add = NoAdd
      /\ settled = {} /\ skipped = {}
  BY DEF Init, DenomsInit
<1>3. ConfIn(conf, ShownEnds) /\ ShownEnds \subseteq End
  BY FirstConfig DEF ConfigInv, ListedOnly, ShownEnds
<1>4. TokensInv
  BY <1>1, RegistryAssumption DEF TokensInv
<1>5. SendsInv
  BY <1>2 DEF SendsInv
<1>6. DocsInv
  <2> SUFFICES ASSUME NEW k \in DOMAIN denoms
               PROVE  \E t \in tokens : TokenKey(t) = k /\ DocOf(t, denoms[k], ShownEnds)
    BY DEF DocsInv
  <2>1. PICK t \in tokens : TokenKey(t) = k
    BY <1>1, RegistryAssumption
  <2>2. denoms[k] = TraceDenom(k.denom, k.chain, conf)
    BY <1>1, RegistryAssumption
  <2>3. k.denom = t.path /\ k.chain = Head(t.via) /\ FollowsPath(t)
    BY <1>4, <2>1 DEF TokenKey, KeyOf, TokensInv
  <2>4. denoms[k] = TraceDenom(t.path, Head(t.via), conf)
    BY <2>2, <2>3
  <2>5. DocOf(t, denoms[k], ShownEnds)
    BY <1>3, <2>3, <2>4, Traced
  <2> QED
    BY <2>1, <2>5
<1>7. SettledInv
  BY <1>2 DEF SettledInv
<1>8. TxsInv
  <2>1. NoDenom \in Denom
    BY DEF NoDenom, Denom, FullPath
  <2>2. NoTx \in TxDoc
    BY <2>1 DEF NoTx, TxDoc
  <2> QED
    BY <1>2, <2>2 DEF TxsInv
<1>9. SyncInv
  <2>1. sync.conf = Nothing /\ DOMAIN sync.known = {}
    BY <1>2 DEF NoSync
  <2> QED
    BY <2>1, EmptyConf DEF SyncInv
<1>10. RelateInv
  <2>1. DOMAIN relate.txs = {}
    BY <1>2 DEF NoRelate
  <2> QED
    BY <2>1 DEF RelateInv
<1>11. AddInv /\ ListInv /\ BaseInv
  <2>1. /\ add.conf = Nothing /\ add.chain = NoChain /\ add.base = {} /\ DOMAIN add.list = {}
        /\ DOMAIN add = {"at", "chain", "conf", "list", "base"}
    BY <1>2 DEF NoAdd
  <2> QED
    BY <2>1, EmptyConf DEF AddInv, ListInv, BaseInv
<1>12. SureInv
  <2>1. \A i \in Send : ~txs[i].sure
    BY <1>2 DEF NoTx
  <2> QED
    BY <2>1 DEF SureInv
<1> QED
  BY <1>4, <1>5, <1>6, <1>7, <1>8, <1>9, <1>10, <1>11, <1>12 DEF DenomsInv

----------------------------------------------------------------------------
(* What the invariant says of the denoms and the transfers.                *)

LEMMA Leads ==
  ASSUME DenomsInv, NEW k \in DOMAIN denoms
  PROVE  k \in {TokenKey(t) : t \in tokens} /\ LeadsHome(k)
<1>1. PICK t \in tokens : TokenKey(t) = k /\ DocOf(t, denoms[k], ShownEnds)
  BY DEF DenomsInv, DocsInv
<1>2. FollowsPath(t) /\ Token(k) = t
  BY <1>1, TokenIs DEF DenomsInv, TokensInv
<1>3. PICK n \in 1 .. Len(t.via) : Base(denoms[k]) = At(t, n)
  BY <1>1 DEF DocOf, OnWay
<1>4. DOMAIN t.via = 1 .. Len(t.via)
  BY <1>2, TokenShape
<1>5. k \in settled => Base(denoms[k]) = At(t, Len(t.via))
  BY <1>1 DEF DenomsInv, SettledInv
<1>6. LeadsHome(k)
  <2> DEFINE d == denoms[k]
  <2>1. <<d.baseChain, d.baseDenom>> \in {<<t.via[i], StationDenom(t, i)>> : i \in DOMAIN t.via}
    BY <1>3, <1>4 DEF At, Base
  <2>2. /\ d.ibcHops = Len(t.via) - 1
        /\ d.prevChain # NoChain =>
             Len(t.via) > 1 /\ <<d.prevChain, d.prevDenom>> = <<t.via[2], StationDenom(t, 2)>>
        /\ d.isBase => <<d.baseChain, d.baseDenom>> = <<t.via[1], StationDenom(t, 1)>>
    BY <1>1 DEF DocOf, At, Base
  <2>3. k \in settled =>
          <<d.baseChain, d.baseDenom>> = <<t.via[Len(t.via)], StationDenom(t, Len(t.via))>>
    BY <1>5 DEF At, Base
  <2> HIDE DEF d
  <2> QED
    BY <1>2, <2>1, <2>2, <2>3 DEF LeadsHome, d
<1> QED
  BY <1>1, <1>6

LEMMA SureLeads ==
  ASSUME DenomsInv, NEW i \in Send, txs[i] # NoTx
  PROVE  /\ txs[i].sure /\ TokenKey(sends[i].token) \in settled /\ ~BeingMoved(i) =>
              txs[i].baseChain = Origin(sends[i].token) /\ txs[i].base = OriginDenom(sends[i].token)
         /\ txs[i].status = "success" /\ ~IsCrossBack(sends[i].token.path, sends[i].from[2]) =>
              TokenKey(Arrived(sends[i].token, sends[i].from)) \in DOMAIN denoms \cup skipped
<1>1. \A d : HasBase(txs[i], d) <=> TxBase(txs[i]) = Base(d)
  BY DEF HasBase, TxBase, Base
<1>2. BeingMoved(i) <=> Pending(TxBase(txs[i]))
  BY <1>1 DEF BeingMoved, Pending
<1>3. txs[i].sure /\ TokenKey(sends[i].token) \in settled /\ ~BeingMoved(i) =>
        TxBase(txs[i]) = At(sends[i].token, Len(sends[i].token.via))
  BY <1>2 DEF DenomsInv, SureInv
<1> QED
  BY <1>3 DEF DenomsInv, TxsInv, At, TxBase, Origin, OriginDenom

LEMMA InvLeadsHome ==
  ASSUME DenomsInv
  PROVE  DenomsLeadHome
BY Leads, SureLeads DEF DenomsLeadHome

----------------------------------------------------------------------------
(* The specification.                                                      *)

\* When channels or tokens are looked at, ibc_denom stays as it was.
RegistryInv ==
  /\ focus = "denoms" => ConfigInv /\ DenomsInv
  /\ focus # "denoms" => DenomsLeadHome

LEMMA DenomTasksKeep ==
  ASSUME ConfigInv, DenomsInv, DenomTasks, UNCHANGED channelVars
  PROVE  ConfigInv' /\ DenomsInv'
<1>1. ConfigInv'
  BY ChainsSame
<1>2. CASE \E t \in tokens, e \in End : SendToken(t, e)
  BY <1>1, <1>2, SendTokenKeeps
<1>3. CASE \E c \in Chain : SyncRead(c)
  BY <1>1, <1>3, SyncReadKeeps
<1>4. CASE \E c \in Chain : RelateRead(c)
  BY <1>1, <1>4, RelateReadKeeps
<1>5. CASE \E c \in Chain : AddRead(c)
  BY <1>1, <1>5, AddReadKeeps
<1>6. CASE SyncWrite
  BY <1>1, <1>6, SyncWriteKeeps
<1>7. CASE RelateWrite
  BY <1>1, <1>7, RelateWriteKeeps
<1>8. CASE AddUpdateTxs
  BY <1>1, <1>8, AddUpdateTxsKeeps
<1>9. CASE AddUpdateDenom
  BY <1>1, <1>9, AddUpdateDenomKeeps
<1>10. CASE AddUpdateBase
  BY <1>1, <1>10, AddUpdateBaseKeeps
<1>11. CASE AddDone
  BY <1>1, <1>11, AddDoneKeeps
<1> QED
  BY <1>2, <1>3, <1>4, <1>5, <1>6, <1>7, <1>8, <1>9, <1>10, <1>11 DEF DenomTasks

LEMMA DenomsSame ==
  ASSUME DenomsLeadHome, UNCHANGED denomVars
  PROVE  DenomsLeadHome'
<1>1. /\ UNCHANGED tokens /\ UNCHANGED sends /\ UNCHANGED denoms /\ UNCHANGED txs /\ UNCHANGED add
      /\ UNCHANGED settled /\ UNCHANGED skipped
  BY DEF denomVars
<1>2. \A k : Token(k)' = Token(k)
  BY <1>1 DEF Token
<1>3. \A k : LeadsHome(k) => LeadsHome(k)'
  BY <1>1, <1>2 DEF LeadsHome
<1>4. \A i : BeingMoved(i)' <=> BeingMoved(i)
  BY <1>1 DEF BeingMoved
<1> QED
  BY <1>1, <1>3, <1>4 DEF DenomsLeadHome

LEMMA RegistryInvKept ==
  ASSUME RegistryInv, [Next]_vars
  PROVE  RegistryInv'
<1>1. CASE UNCHANGED vars
  <2>1. UNCHANGED focus /\ UNCHANGED channelVars /\ UNCHANGED denomVars
    BY <1>1 DEF vars
  <2>2. DenomsLeadHome => DenomsLeadHome'
    BY <2>1, DenomsSame
  <2>3. ASSUME DenomsInv
        PROVE  DenomsInv'
    <3>1. UNCHANGED <<denoms, txs, sync, relate, add, settled, skipped>> /\ tokens' = tokens /\ sends' = sends
      BY <2>1 DEF denomVars
    <3>2. ShownEnds' = ShownEnds /\ ends' = ends
      BY <2>1, ChainsSame
    <3>3. TokensInv' /\ SendsInv'
      BY <2>3, <3>1, <3>2, SendsSame
    <3> QED
      BY <2>3, <3>1, <3>2, <3>3, Grows
  <2>4. ConfigInv' = ConfigInv
    BY <2>1, ChainsSame
  <2> QED
    BY <2>1, <2>2, <2>3, <2>4 DEF RegistryInv
<1>2. CASE focus = "denoms" /\ ConfigRuns /\ UNCHANGED focus
  <2>1. ConfigInv' /\ ShownEnds \subseteq ShownEnds'
    BY <1>2, ConfigKeeps DEF RegistryInv
  <2>2. DenomsInv'
    BY <1>2, <2>1, ConfigRunsKeeps DEF RegistryInv
  <2> QED
    BY <1>2, <2>1, <2>2 DEF RegistryInv
<1>3. CASE focus = "denoms" /\ DenomTasks /\ UNCHANGED channelVars /\ UNCHANGED focus
  <2>1. ConfigInv' /\ DenomsInv'
    BY <1>3, DenomTasksKeep DEF RegistryInv
  <2> QED
    BY <1>3, <2>1 DEF RegistryInv
<1>4. CASE focus # "denoms" /\ UNCHANGED denomVars /\ UNCHANGED focus
  BY <1>4, DenomsSame DEF RegistryInv
<1> QED
  BY <1>1, <1>2, <1>3, <1>4 DEF Next, ConfigRuns

\* Every registered denom is that of a token of its chain and leads towards where the
\* token came from; a transfer whose denom was traced with all channels known has the
\* token's origin as its base; and what a settled transfer brought is registered unless
\* the relate task took it for one it knows: for any chains, channels and tokens,
\* whatever sync_transfer_tx_task, the relate task and add_chain_task read before a
\* chain was listed, and whichever of their writes are lost (TraceDenom,
\* handleSourceTx, updateDenom).
THEOREM DenomsLeadHomeThm == Spec => []DenomsLeadHome
<1>1. Init => RegistryInv
  BY FirstConfig, FirstDenoms, InvLeadsHome DEF RegistryInv
<1>2. RegistryInv /\ [Next]_vars => RegistryInv'
  BY RegistryInvKept
<1>3. RegistryInv => DenomsLeadHome
  BY InvLeadsHome DEF RegistryInv
<1> QED
  BY <1>1, <1>2, <1>3, PTL DEF Spec

----------------------------------------------------------------------------
(* Sums.                                                                   *)

\* Among some subsets of a finite set is one of which no smaller one is among them.
LEMMA SmallestSet ==
  ASSUME NEW S, IsFiniteSet(S), NEW T, T \subseteq SUBSET S, T # {}
  PROVE  \E U \in T : \A V \in SUBSET U : V # U => V \notin T
<1>1. FiniteSubsetsOf(S) = SUBSET S
  BY FS_FiniteSubsetsOfFinite
<1>2. PICK U \in T : \A V \in T : <<V, U>> \notin StrictSubsetOrdering(S)
  BY <1>1, FS_StrictSubsetOrderingWellFounded, WFMin
<1>3. ASSUME NEW V \in SUBSET U, V # U
      PROVE  V \notin T
  <2>1. <<V, U>> \in StrictSubsetOrdering(S)
    BY <1>3 DEF StrictSubsetOrdering
  <2> QED
    BY <1>2, <2>1
<1> QED
  BY <1>3

\* What the numbers of parts of a domain add up to, with any element taken last
Some(U) == CHOOSE x \in U : TRUE
SumsOf(f) ==
  {g \in [SUBSET DOMAIN f -> Int] : \A U \in SUBSET DOMAIN f :
     g[U] = IF U = {} THEN 0 ELSE f[Some(U)] + g[U \ {Some(U)}]}

LEMMA SumsExist ==
  ASSUME NEW f, IsFiniteSet(DOMAIN f), \A x \in DOMAIN f : f[x] \in Int
  PROVE  \E g : g \in SumsOf(f)
<1> DEFINE S == DOMAIN f
           Rhs(g, U) == IF U = {} THEN 0 ELSE f[Some(U)] + g[U \ {Some(U)}]
           Upto(n) == \E g \in [SUBSET S -> Int] :
                        \A U \in SUBSET S : Cardinality(U) <= n => g[U] = Rhs(g, U)
           Bad == {n \in Nat : ~Upto(n)}
<1>1. \A U \in SUBSET S : IsFiniteSet(U) /\ Cardinality(U) \in Nat
  BY FS_Subset, FS_CardinalityType
<1>2. \A U \in SUBSET S : U # {} => Some(U) \in U
  BY DEF Some
<1>3. Upto(0)
  <2> DEFINE g == [U \in SUBSET S |-> 0]
  <2>1. \A U \in SUBSET S : Cardinality(U) <= 0 => U = {}
    BY <1>1, FS_EmptySet
  <2>2. g \in [SUBSET S -> Int] /\ \A U \in SUBSET S : Cardinality(U) <= 0 => g[U] = Rhs(g, U)
    BY <2>1
  <2> QED
    BY <2>2
<1>4. ASSUME NEW n \in Nat, Upto(n)
      PROVE  Upto(n + 1)
  <2>1. PICK g \in [SUBSET S -> Int] : \A U \in SUBSET S : Cardinality(U) <= n => g[U] = Rhs(g, U)
    BY <1>4
  <2> DEFINE h == [U \in SUBSET S |-> Rhs(g, U)]
  <2>2. h \in [SUBSET S -> Int]
    <3>1. ASSUME NEW U \in SUBSET S
          PROVE  Rhs(g, U) \in Int
      <4>1. CASE U = {}
        BY <4>1
      <4>2. CASE U # {}
        <5>1. f[Some(U)] \in Int /\ U \ {Some(U)} \in SUBSET S
          BY <1>2, <4>2
        <5>2. g[U \ {Some(U)}] \in Int
          BY <2>1, <5>1
        <5> QED
          BY <4>2, <5>1, <5>2
      <4> QED
        BY <4>1, <4>2
    <3> HIDE DEF Rhs
    <3> QED
      BY <3>1
  <2>3. ASSUME NEW U \in SUBSET S, Cardinality(U) <= n + 1
        PROVE  h[U] = Rhs(h, U)
    <3>1. CASE U = {}
      BY <3>1
    <3>2. CASE U # {}
      <4> DEFINE V == U \ {Some(U)}
      <4>1. Some(U) \in U /\ V \in SUBSET S
        BY <1>2, <3>2
      <4>2. Cardinality(V) <= n
        <5>1. Cardinality(V) = Cardinality(U) - 1
          BY <1>1, <4>1, FS_RemoveElement
        <5> QED
          BY <1>1, <2>3, <5>1
      <4>3. h[V] = g[V]
        BY <2>1, <4>1, <4>2
      <4> QED
        BY <3>2, <4>1, <4>3
    <3> QED
      BY <3>1, <3>2
  <2> HIDE DEF h
  <2> QED
    BY <2>2, <2>3
<1>5. Bad = {}
  <2>1. SUFFICES ASSUME Bad # {}
                 PROVE  FALSE
    OBVIOUS
  <2>2. PICK n \in Bad : \A m \in Bad : n <= m
    <3>1. Bad \subseteq Nat
      OBVIOUS
    <3> HIDE DEF Bad
    <3> QED
      BY <2>1, <3>1, LeastNumber
  <2> HIDE DEF Upto
  <2>3. n # 0
    BY <1>3
  <2>4. n - 1 \in Nat /\ n - 1 \notin Bad
    BY <2>2, <2>3
  <2>5. Upto((n - 1) + 1)
    BY <1>4, <2>4
  <2> QED
    BY <2>5
<1>6. Upto(Cardinality(S))
  BY <1>1, <1>5
<1>7. \A U \in SUBSET S : Cardinality(U) <= Cardinality(S)
  BY FS_Subset
<1> QED
  BY <1>6, <1>7 DEF SumsOf

LEMMA SumIs ==
  ASSUME NEW f, IsFiniteSet(DOMAIN f), \A x \in DOMAIN f : f[x] \in Int
  PROVE  \E g \in SumsOf(f) : SumOf(f) = g[DOMAIN f]
<1> DEFINE Rhs(g, U) == IF U = {} THEN 0
                        ELSE LET x == CHOOSE z \in U : TRUE IN f[x] + g[U \ {x}]
           it == CHOOSE g : g = [U \in SUBSET DOMAIN f |-> Rhs(g, U)]
<1>1. PICK g : g \in SumsOf(f)
  BY SumsExist
<1>2. g = [U \in SUBSET DOMAIN f |-> Rhs(g, U)]
  BY <1>1 DEF SumsOf, Some
<1>3. it = [U \in SUBSET DOMAIN f |-> Rhs(it, U)]
  <2> HIDE DEF Rhs
  <2> QED
    BY <1>2
<1>4. SumOf(f) = it[DOMAIN f]
  BY DEF SumOf, MapThenSumSet, MapThenFoldSet
<1> HIDE DEF it
<1> DEFINE Bad == {U \in SUBSET DOMAIN f : it[U] # g[U]}
<1>5. \A U \in SUBSET DOMAIN f : it[U] = Rhs(it, U) /\ g[U] = Rhs(g, U)
  <2> HIDE DEF Rhs
  <2> QED
    BY <1>2, <1>3
<1>6. ASSUME Bad # {}
      PROVE  FALSE
  <2>1. Bad \subseteq SUBSET DOMAIN f
    OBVIOUS
  <2>2. PICK U \in Bad : \A V \in SUBSET U : V # U => V \notin Bad
    <3> HIDE DEF Bad
    <3> QED
      BY <1>6, <2>1, SmallestSet
  <2>3. CASE U = {}
    BY <1>5, <2>3
  <2>4. CASE U # {}
    <3>1. PICK x \in U : x = CHOOSE z \in U : TRUE
      BY <2>4
    <3>2. it[U] = f[x] + it[U \ {x}] /\ g[U] = f[x] + g[U \ {x}]
      BY <1>5, <2>4, <3>1
    <3>3. U \ {x} \notin Bad
      BY <2>2
    <3>4. it[U \ {x}] = g[U \ {x}]
      BY <2>1, <3>3
    <3> QED
      BY <3>2, <3>4
  <2> QED
    BY <2>3, <2>4
<1>7. it[DOMAIN f] = g[DOMAIN f]
  BY <1>6
<1> QED
  BY <1>1, <1>4, <1>7
LEMMA SumsAny ==
  ASSUME NEW f, IsFiniteSet(DOMAIN f), \A x \in DOMAIN f : f[x] \in Int, NEW g \in SumsOf(f),
         NEW W \in SUBSET DOMAIN f, NEW z \in W
  PROVE  g[W] = f[z] + g[W \ {z}]
<1> DEFINE Bad == {U \in SUBSET DOMAIN f : \E x \in U : g[U] # f[x] + g[U \ {x}]}
<1>1. /\ g \in [SUBSET DOMAIN f -> Int]
      /\ \A U \in SUBSET DOMAIN f : U # {} => Some(U) \in U /\ g[U] = f[Some(U)] + g[U \ {Some(U)}]
  BY DEF SumsOf, Some
<1>2. ASSUME Bad # {}
      PROVE  FALSE
  <2>1. Bad \subseteq SUBSET DOMAIN f
    OBVIOUS
  <2>2. PICK U \in Bad : \A V \in SUBSET U : V # U => V \notin Bad
    <3> HIDE DEF Bad
    <3> QED
      BY <1>2, <2>1, SmallestSet
  <2>3. PICK x \in U : g[U] # f[x] + g[U \ {x}]
    BY <2>2
  <2>4. PICK c \in U : c = Some(U) /\ g[U] = f[c] + g[U \ {c}]
    BY <1>1, <2>2, <2>3
  <2>5. c # x
    BY <2>3, <2>4
  <2>6. U \ {c} \notin Bad /\ U \ {x} \notin Bad
    BY <2>2
  <2>7. x \in U \ {c} /\ c \in U \ {x} /\ U \in SUBSET DOMAIN f
    BY <2>1, <2>5
  <2>8. g[U \ {c}] = f[x] + g[(U \ {c}) \ {x}]
    BY <2>6, <2>7
  <2>9. g[U \ {x}] = f[c] + g[(U \ {x}) \ {c}]
    BY <2>6, <2>7
  <2>10. (U \ {c}) \ {x} = (U \ {x}) \ {c}
    OBVIOUS
  <2>11. f[x] \in Int /\ f[c] \in Int /\ g[(U \ {x}) \ {c}] \in Int
    BY <1>1, <2>7
  <2>12. g[U] = f[c] + (f[x] + g[(U \ {x}) \ {c}])
    BY <2>4, <2>8, <2>10
  <2>13. f[x] + g[U \ {x}] = f[x] + (f[c] + g[(U \ {x}) \ {c}])
    BY <2>9
  <2> DEFINE a == f[x]
             b == f[c]
             d == g[(U \ {x}) \ {c}]
  <2>14. b + (a + d) = a + (b + d)
    <3>1. a \in Int /\ b \in Int /\ d \in Int
      BY <2>11
    <3> HIDE DEF a, b, d
    <3> QED
      BY <3>1
  <2> QED
    BY <2>3, <2>12, <2>13, <2>14
<1> QED
  BY <1>2

LEMMA SumsPart ==
  ASSUME NEW f, IsFiniteSet(DOMAIN f), \A x \in DOMAIN f : f[x] \in Int, NEW g \in SumsOf(f),
         NEW T \in SUBSET DOMAIN f, NEW h \in SumsOf([x \in T |-> f[x]])
  PROVE  h[T] = g[T]
<1> DEFINE e == [x \in T |-> f[x]]
           Bad == {U \in SUBSET T : h[U] # g[U]}
<1>1. IsFiniteSet(T) /\ DOMAIN e = T
  BY FS_Subset
<1>2. \A U \in SUBSET T : h[U] = IF U = {} THEN 0 ELSE e[Some(U)] + h[U \ {Some(U)}]
  BY <1>1 DEF SumsOf
<1>3. \A U \in SUBSET T : g[U] = IF U = {} THEN 0 ELSE f[Some(U)] + g[U \ {Some(U)}]
  BY DEF SumsOf
<1>4. ASSUME Bad # {}
      PROVE  FALSE
  <2>1. Bad \subseteq SUBSET T
    OBVIOUS
  <2>2. PICK U \in Bad : \A V \in SUBSET U : V # U => V \notin Bad
    <3> HIDE DEF Bad
    <3> QED
      BY <1>1, <1>4, <2>1, SmallestSet
  <2>3. U # {}
    BY <1>2, <1>3
  <2>4. PICK c \in U : c = Some(U)
    BY <2>3 DEF Some
  <2>5. U \ {c} \notin Bad
    BY <2>2
  <2>6. h[U \ {c}] = g[U \ {c}]
    BY <2>1, <2>5
  <2>7. e[c] = f[c]
    BY <2>1
  <2>8. h[U] = e[c] + h[U \ {c}] /\ g[U] = f[c] + g[U \ {c}]
    BY <1>2, <1>3, <2>1, <2>3, <2>4
  <2> QED
    BY <2>2, <2>6, <2>7, <2>8
<1> QED
  BY <1>4

\* A sum is that of any of its numbers and of the others.
LEMMA SumPick ==
  ASSUME NEW f, IsFiniteSet(DOMAIN f), \A x \in DOMAIN f : f[x] \in Int, NEW z \in DOMAIN f
  PROVE  /\ SumOf([x \in DOMAIN f \ {z} |-> f[x]]) \in Int
         /\ SumOf(f) = f[z] + SumOf([x \in DOMAIN f \ {z} |-> f[x]])
<1> DEFINE T == DOMAIN f \ {z}
           e == [x \in T |-> f[x]]
<1>1. PICK g \in SumsOf(f) : SumOf(f) = g[DOMAIN f]
  BY SumIs
<1>2. DOMAIN e = T /\ IsFiniteSet(T) /\ T \in SUBSET DOMAIN f /\ \A x \in T : e[x] \in Int
  BY FS_Subset
<1>3. PICK h \in SumsOf(e) : SumOf(e) = h[T]
  <2> HIDE DEF e
  <2> QED
    BY <1>2, SumIs
<1>4. h[T] = g[T]
  <2> HIDE DEF T
  <2> QED
    BY <1>2, SumsPart
<1>5. g[DOMAIN f] = f[z] + g[T]
  BY SumsAny
<1>6. g[T] \in Int
  BY DEF SumsOf
<1> QED
  BY <1>1, <1>3, <1>4, <1>5, <1>6

LEMMA SumEmpty ==
  ASSUME NEW f, DOMAIN f = {}
  PROVE  SumOf(f) = 0
<1>1. IsFiniteSet(DOMAIN f)
  BY FS_EmptySet
<1>2. PICK g \in SumsOf(f) : SumOf(f) = g[DOMAIN f]
  BY <1>1, SumIs
<1> QED
  BY <1>2 DEF SumsOf

LEMMA SumInt ==
  ASSUME NEW f, IsFiniteSet(DOMAIN f), \A x \in DOMAIN f : f[x] \in Int
  PROVE  SumOf(f) \in Int
<1>1. PICK g \in SumsOf(f) : SumOf(f) = g[DOMAIN f]
  BY SumIs
<1>2. g \in [SUBSET DOMAIN f -> Int]
  BY DEF SumsOf
<1> QED
  BY <1>1, <1>2

\* If one number changes, its sum changes by as much.
LEMMA SumShift ==
  ASSUME NEW f, NEW g, IsFiniteSet(DOMAIN f), DOMAIN g = DOMAIN f, NEW z \in DOMAIN f,
         \A x \in DOMAIN f : f[x] \in Int /\ g[x] \in Int,
         \A x \in DOMAIN f : x # z => g[x] = f[x]
  PROVE  SumOf(g) - g[z] = SumOf(f) - f[z]
<1> DEFINE e == [x \in DOMAIN f \ {z} |-> f[x]]
<1>1. e = [x \in DOMAIN g \ {z} |-> g[x]]
  OBVIOUS
<1>2. SumOf(e) \in Int /\ SumOf(f) = f[z] + SumOf(e)
  BY SumPick
<1>3. SumOf(g) = g[z] + SumOf(e)
  BY <1>1, SumPick
<1>4. f[z] \in Int /\ g[z] \in Int
  OBVIOUS
<1> DEFINE a == f[z]
           b == g[z]
           s == SumOf(e)
<1>5. (b + s) - b = (a + s) - a
  <2>1. a \in Int /\ b \in Int /\ s \in Int
    BY <1>2, <1>4
  <2> HIDE DEF a, b, s
  <2> QED
    BY <2>1
<1> QED
  BY <1>2, <1>3, <1>5

LEMMA SumNat ==
  ASSUME NEW f, IsFiniteSet(DOMAIN f), \A x \in DOMAIN f : f[x] \in Nat
  PROVE  SumOf(f) \in Nat
<1> DEFINE D == DOMAIN f
<1>1. PICK g \in SumsOf(f) : SumOf(f) = g[D]
  BY SumIs
<1> DEFINE Bad == {U \in SUBSET D : g[U] \notin Nat}
<1>2. ASSUME Bad # {}
      PROVE  FALSE
  <2>1. Bad \subseteq SUBSET D
    OBVIOUS
  <2>2. PICK U \in Bad : \A V \in SUBSET U : V # U => V \notin Bad
    <3> HIDE DEF Bad
    <3> QED
      BY <1>2, <2>1, SmallestSet
  <2>3. U # {}
    <3>1. \A V \in SUBSET D : V = {} => g[V] = 0
      BY DEF SumsOf
    <3> QED
      BY <2>1, <2>2, <3>1
  <2>4. PICK c \in U : c = Some(U)
    BY <2>3 DEF Some
  <2>5. g[U] = f[c] + g[U \ {c}]
    BY <2>1, <2>3, <2>4 DEF SumsOf
  <2>6. U \ {c} \notin Bad
    BY <2>2
  <2>7. g[U \ {c}] \in Nat /\ f[c] \in Nat
    BY <2>1, <2>6
  <2> QED
    BY <2>2, <2>5, <2>7
<1> QED
  BY <1>1, <1>2

\* A sum is that of the same numbers under other names; zeros may be left out.
LEMMA SumMoved ==
  ASSUME NEW f, IsFiniteSet(DOMAIN f), \A x \in DOMAIN f : f[x] \in Int,
         NEW g, IsFiniteSet(DOMAIN g), \A y \in DOMAIN g : g[y] \in Int,
         NEW P, P \subseteq DOMAIN f, NEW h \in [P -> DOMAIN g],
         \A x, y \in P : h[x] = h[y] => x = y, \A y \in DOMAIN g : \E x \in P : h[x] = y,
         \A x \in P : g[h[x]] = f[x], \A x \in DOMAIN f \ P : f[x] = 0
  PROVE  SumOf(g) = SumOf(f)
<1>1. PICK F \in SumsOf(f) : SumOf(f) = F[DOMAIN f]
  BY SumIs
<1>2. PICK G \in SumsOf(g) : SumOf(g) = G[DOMAIN g]
  BY SumIs
<1> DEFINE Image(U) == {h[x] : x \in U \cap P}
           Bad == {U \in SUBSET DOMAIN f : F[U] # G[Image(U)]}
<1>3. F[{}] = 0 /\ G[{}] = 0
  BY DEF SumsOf
<1>4. \A U \in SUBSET DOMAIN f : Image(U) \in SUBSET DOMAIN g
  OBVIOUS
<1>5. \A U \in SUBSET DOMAIN g : G[U] \in Int
  BY DEF SumsOf
<1>6. ASSUME Bad # {}
      PROVE  FALSE
  <2>1. Bad \subseteq SUBSET DOMAIN f
    OBVIOUS
  <2>2. PICK U \in Bad : \A V \in SUBSET U : V # U => V \notin Bad
    <3> HIDE DEF Bad
    <3> QED
      BY <1>6, <2>1, SmallestSet
  <2>3. U # {}
    <3>1. Image({}) = {}
      OBVIOUS
    <3> QED
      BY <1>3, <2>2, <3>1
  <2>4. PICK c \in U : TRUE
    BY <2>3
  <2>5. U \ {c} \in SUBSET U /\ U \ {c} # U
    BY <2>4
  <2>6. F[U \ {c}] = G[Image(U \ {c})]
    BY <2>1, <2>2, <2>5
  <2>7. c \in DOMAIN f /\ U \in SUBSET DOMAIN f
    BY <2>1
  <2>8. F[U] = f[c] + F[U \ {c}]
    <3> HIDE DEF Bad, Image
    <3> QED
      BY <2>7, SumsAny
  <2>9. CASE c \notin P
    <3>1. Image(U) = Image(U \ {c})
      BY <2>9
    <3>2. f[c] = 0
      BY <2>7, <2>9
    <3>3. G[Image(U \ {c})] \in Int
      BY <1>4, <1>5, <2>7
    <3>4. F[U] = 0 + G[Image(U)]
      BY <2>6, <2>8, <3>1, <3>2
    <3>5. F[U] = G[Image(U)]
      <4> HIDE DEF Image
      <4> QED
        BY <3>1, <3>3, <3>4
    <3> QED
      BY <2>2, <3>5
  <2>10. CASE c \in P
    <3>1. h[c] \in Image(U) /\ Image(U) \in SUBSET DOMAIN g
      BY <1>4, <2>4, <2>7, <2>10
    <3>2. Image(U) \ {h[c]} = Image(U \ {c})
      BY <2>10
    <3>3. G[Image(U)] = g[h[c]] + G[Image(U) \ {h[c]}]
      <4> HIDE DEF Image
      <4> QED
        BY <3>1, SumsAny
    <3>4. F[U] = G[Image(U)]
      BY <2>6, <2>8, <2>10, <3>2, <3>3
    <3> QED
      BY <2>2, <3>4
  <2> QED
    BY <2>9, <2>10
<1>7. F[DOMAIN f] = G[Image(DOMAIN f)]
  BY <1>6
<1>8. Image(DOMAIN f) = DOMAIN g
  <2>1. DOMAIN f \cap P = P
    OBVIOUS
  <2>2. {h[x] : x \in P} = DOMAIN g
    OBVIOUS
  <2> QED
    BY <2>1, <2>2
<1> QED
  BY <1>1, <1>2, <1>7, <1>8

----------------------------------------------------------------------------
(* Where amounts are: what is locked in an escrow account covers what was  *)
(* minted over its channel, and a move shifts one unit.                    *)

LEMMA SameVoucher ==
  ASSUME NEW v, NEW r, FollowsPath(v), FollowsPath(r), Len(v.via) > 1, Len(r.via) > 1,
         Leg(v, 1) = Leg(r, 1), Suffix(v, 2) = Suffix(r, 2)
  PROVE  v = r
<1>1. /\ 2 \in 1 .. Len(v.via) /\ 2 \in 1 .. Len(r.via)
      /\ 1 \in 1 .. Len(v.via) - 1 /\ 1 \in 1 .. Len(r.via) - 1
  BY Lengths
<1>2. v.via[1] = r.via[1] /\ Hops(v)[1] = Hops(r)[1]
  BY DEF Leg, Hops
<1> DEFINE s == Suffix(v, 2)
<1>3. Len(s.via) = Len(v.via) - 2 + 1 /\ Len(s.via) = Len(r.via) - 2 + 1
  BY <1>1, SuffixShape
<1>4. Len(Hops(s)) = Len(Hops(v)) - 2 + 1 /\ Len(Hops(s)) = Len(Hops(r)) - 2 + 1
  BY <1>1, SuffixShape
<1>5. \A i \in 1 .. Len(Hops(v)) - 2 + 1 : Hops(s)[i] = Hops(v)[2 + i - 1]
  BY <1>1, SuffixShape
<1>6. \A i \in 1 .. Len(Hops(r)) - 2 + 1 : Hops(s)[i] = Hops(r)[2 + i - 1]
  BY <1>1, SuffixShape
<1>7. s.path.root = v.path.root /\ s.path.root = r.path.root
  BY <1>1, StationShape DEF Suffix
<1> HIDE DEF s
<1>8. Len(Hops(v)) = Len(Hops(r))
  BY <1>4, Lengths
<1>9. ASSUME NEW i \in 1 .. Len(Hops(v))
      PROVE  Hops(v)[i] = Hops(r)[i]
  <2>1. CASE i = 1
    BY <1>2, <2>1
  <2>2. CASE i # 1
    <3> DEFINE j == i - 1
    <3>1. j \in 1 .. Len(Hops(v)) - 2 + 1 /\ 2 + j - 1 = i
      BY <2>2, Lengths
    <3>2. j \in 1 .. Len(Hops(r)) - 2 + 1
      BY <1>8, <3>1
    <3> HIDE DEF j
    <3> QED
      BY <1>5, <1>6, <3>1, <3>2
  <2> QED
    BY <2>1, <2>2
<1>10. Hops(v) = Hops(r)
  BY <1>8, <1>9, TokenShape, SeqEqual
<1>11. v.path = r.path
  BY <1>7, <1>10, TokenShape, DenomEqual DEF Hops
<1>12. Head(v.via) = Head(r.via)
  BY <1>2, TokenShape
<1> QED
  BY <1>11, <1>12, SameToken

\* A move concerns a voucher, what it stands for, and the account that is locked in.
LEMMA MoveShape ==
  ASSUME TokensInv, NEW t, NEW e \in End, Goes(t, e)
  PROVE  \E w \in tokens, b \in tokens, p \in End :
           /\ Len(w.via) > 1 /\ Before(w) = b /\ Peer[Leg(w, 1)] = p /\ p[1] = TokenKey(b).chain
           /\ OriginKey(w) = OriginKey(t) /\ OriginKey(b) = OriginKey(t)
           /\ \/ Back(t, e) /\ w = t /\ b = Arrived(t, e) /\ p = Peer[e]
              \/ ~Back(t, e) /\ w = Arrived(t, e) /\ b = t /\ p = e
<1> DEFINE r == Arrived(t, e)
<1>1. t \in tokens /\ r \in tokens /\ e[1] = Head(t.via) /\ FollowsPath(t) /\ FollowsPath(r)
  BY DEF Goes, TokensInv
<1>2. Back(t, e) <=> IsCrossBack(t.path, e[2])
  BY <1>1, BackHasCome DEF Back
<1>3. e = <<e[1], e[2]>> /\ Peer[e] \in End /\ Peer[Peer[e]] = e
  BY ChannelsAssumption
<1>4. \A x \in tokens : TokenKey(x).chain = x.via[1]
  BY TokenShape DEF TokensInv, TokenKey, KeyOf
<1>5. \A x \in tokens : Before(x) = Suffix(x, 2)
  BY DEF Before, Suffix
<1>6. \A x : OriginKey(x) = KeyOf(At(x, Len(x.via))[1], At(x, Len(x.via))[2])
  BY DEF OriginKey, Origin, OriginDenom, At
<1>7. CASE Back(t, e)
  <2>1. 2 \in 1 .. Len(t.via) /\ r = Suffix(t, 2)
    BY <1>1, <1>2, <1>7, ArrivedBack
  <2>2. Len(t.via) > 1 /\ 1 \in 1 .. Len(t.via) - 1
    BY <1>1, <2>1, Lengths
  <2>3. Hops(t)[1] = e[2]
    BY <1>1, <1>2, <1>7, TokenShape DEF IsCrossBack, Hops
  <2>4. Leg(t, 1) = e
    BY <1>1, <1>3, <2>3, TokenShape DEF Leg, Hops
  <2>5. Peer[e][1] = r.via[1]
    <3>1. Peer[e][1] = t.via[2]
      BY <1>1, <2>2, <2>4, TokenElements
    <3>2. \A i \in 1 .. Len(t.via) - 2 + 1 : Suffix(t, 2).via[i] = t.via[2 + i - 1]
      BY <1>1, <2>1, SuffixShape
    <3>3. 1 \in 1 .. Len(t.via) - 2 + 1
      BY <1>1, <2>2, Lengths
    <3> QED
      BY <2>1, <3>1, <3>2, <3>3
  <2>6. OriginKey(r) = OriginKey(t)
    <3> DEFINE n == Len(t.via) - 1
    <3>1. Len(r.via) = n /\ n \in 1 .. Len(t.via) - 2 + 1 /\ 2 + n - 1 = Len(t.via)
      <4>1. Len(r.via) = Len(t.via) - 2 + 1
        BY <1>1, <2>1, SuffixShape
      <4> QED
        BY <1>1, <2>2, <4>1, Lengths
    <3> HIDE DEF n
    <3>2. At(r, n) = At(t, 2 + n - 1)
      BY <1>1, <2>1, <3>1, SuffixStations
    <3> QED
      BY <1>6, <3>1, <3>2
  <2> QED
    BY <1>1, <1>3, <1>4, <1>5, <1>7, <2>1, <2>2, <2>4, <2>5, <2>6
<1>8. CASE ~Back(t, e)
  <2>1. 2 \in 1 .. Len(r.via) /\ Suffix(r, 2) = t /\ Leg(r, 1) = Peer[e]
    BY <1>1, <1>2, <1>8, ArrivedOut
  <2>2. Len(r.via) > 1
    BY <1>1, <2>1, Lengths
  <2>3. e[1] = t.via[1]
    BY <1>1, TokenShape
  <2>4. OriginKey(r) = OriginKey(t)
    <3> DEFINE n == Len(t.via)
    <3>1. n \in 1 .. Len(t.via)
      BY <1>1, Lengths
    <3> HIDE DEF n
    <3>2. At(r, n + 1) = At(t, n) /\ Len(r.via) = Len(t.via) + 1
      BY <1>1, <1>2, <1>8, <3>1, ArrivedStations
    <3> QED
      BY <1>6, <3>2 DEF n
  <2> QED
    BY <1>1, <1>3, <1>4, <1>5, <1>8, <2>1, <2>2, <2>3, <2>4
<1> QED
  BY <1>7, <1>8

\* The voucher that a move burns, or mints
Carried(m) == IF Back(m.token, m.end) THEN m.token ELSE Arrived(m.token, m.end)
Transit(v) == IF \E m \in moving : Carried(m) = v THEN 1 ELSE 0
Away(o) == IF \E m \in moving : OriginKey(m.token) = TokenKey(o) THEN 1 ELSE 0
Covered(v) == escrow[Peer[Leg(v, 1)]][TokenKey(Before(v))] = supply[TokenKey(v)] + Transit(v)
HeldFrom(o) == SumOf([k \in KeysFrom(o, tokens) |-> Held(k)])

MovingInv == \A m \in moving : /\ m = [token |-> m.token, end |-> m.end] /\ m.end \in End
                               /\ Goes(m.token, m.end) /\ moving = {m}
BankTyped == /\ TokensInv /\ IsFiniteSet(tokens)
             /\ supply \in [Keys -> Nat] /\ escrow \in [End -> [Keys -> Nat]]
\* What is held is never less than nothing, and adds up to the supply of the origin.
BankInv ==
  /\ BankTyped /\ MovingInv
  /\ \A v \in tokens : Len(v.via) > 1 /\ Before(v) \in tokens => Covered(v)
  /\ \A k \in Keys : Held(k) \in Nat
  /\ \A o \in tokens : Len(o.via) = 1 => HeldFrom(o) + Away(o) = supply[TokenKey(o)]

\* The account, and the token, that an amount of a voucher is about are its own.
LEMMA CoveredKept ==
  ASSUME BankInv, UNCHANGED tokens, NEW w \in tokens, NEW b \in tokens, NEW p \in End,
         Len(w.via) > 1, Before(w) = b, Peer[Leg(w, 1)] = p,
         \A k \in Keys : k # TokenKey(w) => supply'[k] = supply[k],
         \A x \in End, k \in Keys : <<x, k>> # <<p, TokenKey(b)>> => escrow'[x][k] = escrow[x][k],
         \A v \in tokens : v # w => Transit(v)' = Transit(v),
         Covered(w)', NEW v \in tokens, Len(v.via) > 1, Before(v) \in tokens
  PROVE  Covered(v)'
<1>1. \A x \in tokens : FollowsPath(x) /\ TokenKey(x) \in Keys
  BY DEF BankInv, BankTyped, TokensInv, Keys
<1>2. CASE v = w
  BY <1>2
<1>3. CASE v # w
  <2> DEFINE q == Peer[Leg(v, 1)]
  <2>1. Leg(v, 1) \in End /\ Leg(w, 1) \in End
    <3>1. 1 \in 1 .. Len(v.via) - 1 /\ 1 \in 1 .. Len(w.via) - 1
      BY <1>1, Lengths
    <3> QED
      BY <1>1, <3>1, TokenElements
  <2>2. q \in End /\ Peer[q] = Leg(v, 1) /\ Peer[p] = Leg(w, 1)
    BY <2>1, ChannelsAssumption
  <2>3. TokenKey(v) # TokenKey(w)
    BY <1>3, OneToken DEF BankInv, BankTyped
  <2>4. <<q, TokenKey(Before(v))>> # <<p, TokenKey(b)>>
    <3>1. SUFFICES ASSUME q = p, TokenKey(Before(v)) = TokenKey(b)
                   PROVE  FALSE
      OBVIOUS
    <3>2. Before(v) = b
      BY <3>1, OneToken DEF BankInv, BankTyped
    <3>3. Suffix(v, 2) = Suffix(w, 2)
      BY <3>2 DEF Before, Suffix
    <3>4. Leg(v, 1) = Leg(w, 1)
      BY <2>2, <3>1
    <3> QED
      BY <1>1, <1>3, <3>3, <3>4, SameVoucher
  <2>5. supply'[TokenKey(v)] = supply[TokenKey(v)]
    BY <1>1, <2>3
  <2>6. escrow'[q][TokenKey(Before(v))] = escrow[q][TokenKey(Before(v))]
    BY <1>1, <2>2, <2>4
  <2>7. Transit(v)' = Transit(v)
    BY <1>3
  <2>8. Covered(v)
    BY DEF BankInv
  <2> QED
    BY <2>5, <2>6, <2>7, <2>8 DEF Covered
<1> QED
  BY <1>2, <1>3

LEMMA EndsFinite ==
  ASSUME NEW c
  PROVE  EndsAt(c) \subseteq End /\ IsFiniteSet(EndsAt(c))
<1>1. EndsAt(c) \subseteq End
  BY DEF EndsAt
<1> QED
  BY <1>1, AmountsAssumption, FS_Subset

LEMMA EscrowedNat ==
  ASSUME BankTyped, NEW k \in Keys
  PROVE  Escrowed(k) \in Nat
<1> DEFINE f == [e \in EndsAt(k.chain) |-> escrow[e][k]]
<1>1. IsFiniteSet(DOMAIN f) /\ \A e \in DOMAIN f : f[e] \in Nat
  BY EndsFinite DEF BankTyped
<1> HIDE DEF f
<1>2. SumOf(f) \in Nat
  BY <1>1, SumNat
<1> QED
  BY <1>2 DEF f, Escrowed, LockedIn

LEMMA MintShifts ==
  ASSUME BankTyped, UNCHANGED escrow, NEW z \in Keys, NEW d \in Int,
         supply'[z] = supply[z] + d, \A k \in Keys : k # z => supply'[k] = supply[k]
  PROVE  Held(z)' = Held(z) + d /\ \A k \in Keys : k # z => Held(k)' = Held(k)
<1>1. \A k \in Keys : Escrowed(k)' = Escrowed(k) /\ Escrowed(k) \in Nat
  BY EscrowedNat DEF Escrowed, LockedIn
<1>2. supply[z] \in Nat
  BY DEF BankTyped
<1>3. Held(z)' = (supply[z] + d) - Escrowed(z) /\ Held(z) = supply[z] - Escrowed(z)
  BY <1>1 DEF Held
<1>4. Held(z)' = Held(z) + d
  BY <1>1, <1>2, <1>3
<1> QED
  BY <1>1, <1>4 DEF Held

LEMMA LockShifts ==
  ASSUME BankTyped, UNCHANGED supply, escrow' \in [End -> [Keys -> Nat]],
         NEW z \in Keys, NEW p \in End, p[1] = z.chain, NEW d \in Int,
         escrow'[p][z] = escrow[p][z] - d,
         \A x \in End, k \in Keys : <<x, k>> # <<p, z>> => escrow'[x][k] = escrow[x][k]
  PROVE  Held(z)' = Held(z) + d /\ \A k \in Keys : k # z => Held(k)' = Held(k)
<1>1. \A k \in Keys : k # z => Escrowed(k)' = Escrowed(k)
  <2>1. ASSUME NEW k \in Keys, k # z
        PROVE  Escrowed(k)' = Escrowed(k)
    <3>1. [e \in EndsAt(k.chain) |-> escrow'[e][k]] = [e \in EndsAt(k.chain) |-> escrow[e][k]]
      BY <2>1, EndsFinite
    <3> QED
      BY <3>1 DEF Escrowed, LockedIn
  <2> QED
    BY <2>1
<1> DEFINE f == [e \in EndsAt(z.chain) |-> escrow[e][z]]
           g == [e \in EndsAt(z.chain) |-> escrow'[e][z]]
<1>2. /\ IsFiniteSet(DOMAIN f) /\ DOMAIN g = DOMAIN f /\ p \in DOMAIN f
      /\ f[p] = escrow[p][z] /\ g[p] = escrow'[p][z]
      /\ \A x \in DOMAIN f : f[x] \in Nat /\ g[x] \in Nat /\ (x # p => g[x] = f[x])
  BY EndsFinite DEF BankTyped, EndsAt
<1>3. SumOf(g) - g[p] = SumOf(f) - f[p] /\ SumOf(f) \in Int /\ SumOf(g) \in Int
  <2> HIDE DEF f, g
  <2>1. \A x \in DOMAIN f : f[x] \in Int /\ g[x] \in Int
    BY <1>2
  <2>2. SumOf(g) - g[p] = SumOf(f) - f[p]
    BY <1>2, <2>1, SumShift
  <2>3. SumOf(f) \in Int
    BY <1>2, <2>1, SumInt
  <2>4. SumOf(g) \in Int
    BY <1>2, <2>1, SumInt
  <2> QED
    BY <2>2, <2>3, <2>4
<1>4. Held(z) = supply[z] - SumOf(f) /\ Held(z)' = supply[z] - SumOf(g)
  BY DEF Held, Escrowed, LockedIn
<1>5. supply[z] \in Nat /\ f[p] \in Nat /\ g[p] = f[p] - d
  BY <1>2 DEF BankTyped
<1>6. Held(z)' = Held(z) + d
  <2> DEFINE a == supply[z]
             u == SumOf(f)
             v == SumOf(g)
             x == f[p]
             y == g[p]
  <2>1. /\ a \in Int /\ u \in Int /\ v \in Int /\ x \in Int /\ y \in Int
        /\ v - y = u - x /\ y = x - d /\ Held(z) = a - u /\ Held(z)' = a - v
    BY <1>3, <1>4, <1>5
  <2> HIDE DEF a, u, v, x, y
  <2>2. a - v = a - u + d
    BY <2>1
  <2> QED
    BY <2>1, <2>2
<1> QED
  BY <1>1, <1>6 DEF Held

LEMMA KeysFromFinite ==
  ASSUME NEW S, IsFiniteSet(S), NEW o
  PROVE  IsFiniteSet(KeysFrom(o, S))
<1> DEFINE T == {x \in S : OriginKey(x) = TokenKey(o)}
           f == [x \in T |-> TokenKey(x)]
<1>1. IsFiniteSet(T)
  BY FS_Subset
<1>2. f \in Surjection(T, KeysFrom(o, S))
  <2>1. KeysFrom(o, S) = {TokenKey(x) : x \in T}
    BY DEF KeysFrom
  <2> QED
    BY <2>1 DEF Surjection
<1> HIDE DEF T, f
<1> QED
  BY <1>1, <1>2, FS_Surjection

\* If what is held of a token changes by as much as what is away of its origin,
\* they still add up.
LEMMA ConservedKept ==
  ASSUME BankInv, UNCHANGED tokens, NEW w \in tokens, NEW d \in Int,
         Held(TokenKey(w))' = Held(TokenKey(w)) + d,
         \A k \in Keys : k # TokenKey(w) => Held(k)' = Held(k),
         NEW o \in tokens, Len(o.via) = 1, supply'[TokenKey(o)] = supply[TokenKey(o)],
         Away(o) \in Int, Away(o)' \in Int,
         OriginKey(w) = TokenKey(o) => Away(o)' = Away(o) - d,
         OriginKey(w) # TokenKey(o) => Away(o)' = Away(o)
  PROVE  HeldFrom(o)' + Away(o)' = supply'[TokenKey(o)]
<1> DEFINE K == KeysFrom(o, tokens)
           f == [k \in K |-> Held(k)]
           g == [k \in K |-> Held(k)']
<1>1. K' = K
  BY DEF KeysFrom
<1>2. HeldFrom(o) = SumOf(f) /\ HeldFrom(o)' = SumOf(g)
  BY <1>1 DEF HeldFrom
<1>3. HeldFrom(o) + Away(o) = supply[TokenKey(o)]
  BY DEF BankInv
<1>4. K \subseteq Keys /\ IsFiniteSet(K)
  BY KeysFromFinite DEF BankInv, BankTyped, KeysFrom, Keys
<1>5. TokenKey(w) \in Keys
  BY DEF Keys
<1>6. \A k \in Keys : Held(k) \in Int /\ Held(k)' \in Int
  <2>1. \A k \in Keys : Held(k) \in Nat
    BY DEF BankInv
  <2> QED
    BY <1>5, <2>1
<1>7. TokenKey(w) \in K <=> OriginKey(w) = TokenKey(o)
  <2>1. ASSUME TokenKey(w) \in K
        PROVE  OriginKey(w) = TokenKey(o)
    <3>1. PICK x \in tokens : OriginKey(x) = TokenKey(o) /\ TokenKey(w) = TokenKey(x)
      BY <2>1 DEF KeysFrom
    <3>2. x = w
      BY <3>1, OneToken DEF BankInv, BankTyped
    <3> QED
      BY <3>1, <3>2
  <2> QED
    BY <2>1 DEF KeysFrom
<1>8. CASE OriginKey(w) # TokenKey(o)
  <2>1. f = g
    BY <1>4, <1>7, <1>8
  <2> QED
    BY <1>2, <1>3, <1>8, <2>1
<1>9. CASE OriginKey(w) = TokenKey(o)
  <2> DEFINE z == TokenKey(w)
  <2>1. /\ IsFiniteSet(DOMAIN f) /\ DOMAIN g = DOMAIN f /\ z \in DOMAIN f
        /\ \A k \in DOMAIN f : f[k] \in Int /\ g[k] \in Int /\ (k # z => g[k] = f[k])
    BY <1>4, <1>6, <1>7, <1>9
  <2>2. f[z] \in Int /\ g[z] = f[z] + d
    BY <1>4, <1>6, <1>7, <1>9
  <2> HIDE DEF f, g, z
  <2>3. SumOf(g) - g[z] = SumOf(f) - f[z]
    BY <2>1, SumShift
  <2>4. SumOf(f) \in Int
    BY <2>1, SumInt
  <2>5. SumOf(g) \in Int
    BY <2>1, SumInt
  <2>6. Away(o)' = Away(o) - d
    BY <1>9
  <2> DEFINE u == SumOf(f)
             v == SumOf(g)
             x == f[z]
             y == g[z]
             a == Away(o)
             b == Away(o)'
  <2>7. u \in Int /\ v \in Int /\ x \in Int /\ y \in Int /\ v - y = u - x /\ y = x + d
        /\ a \in Int /\ b \in Int /\ b = a - d
    BY <2>2, <2>3, <2>4, <2>5, <2>6
  <2>8. v + b = u + a
    <3> HIDE DEF u, v, x, y, a, b
    <3> QED
      BY <2>7
  <2> QED
    BY <1>2, <1>3, <2>8
<1> QED
  BY <1>8, <1>9

\* A unit of a voucher is minted or burnt, or locked or taken out where it came from,
\* and is away meanwhile.
LEMMA ShiftKeeps ==
  ASSUME BankInv, UNCHANGED tokens, BankTyped', MovingInv',
         NEW w \in tokens, NEW b \in tokens, NEW p \in End, NEW d \in Int,
         Len(w.via) > 1, Before(w) = b, Peer[Leg(w, 1)] = p, p[1] = TokenKey(b).chain,
         OriginKey(b) = OriginKey(w),
         \/ /\ UNCHANGED escrow /\ supply'[TokenKey(w)] = supply[TokenKey(w)] + d
            /\ \A k \in Keys : k # TokenKey(w) => supply'[k] = supply[k]
            /\ Held(TokenKey(w)) + d \in Nat
         \/ /\ UNCHANGED supply /\ escrow'[p][TokenKey(b)] = escrow[p][TokenKey(b)] - d
            /\ \A x \in End, k \in Keys : <<x, k>> # <<p, TokenKey(b)>> => escrow'[x][k] = escrow[x][k]
            /\ Held(TokenKey(b)) + d \in Nat,
         Transit(w)' = Transit(w) - d, \A v \in tokens : v # w => Transit(v)' = Transit(v),
         \A o \in tokens : OriginKey(w) = TokenKey(o) => Away(o)' = Away(o) - d,
         \A o \in tokens : OriginKey(w) # TokenKey(o) => Away(o)' = Away(o)
  PROVE  BankInv'
<1>1. TokenKey(w) \in Keys /\ TokenKey(b) \in Keys /\ Keys' = Keys
  BY DEF Keys
<1>2. /\ \A k \in Keys : k # TokenKey(w) => supply'[k] = supply[k]
      /\ \A x \in End, k \in Keys : <<x, k>> # <<p, TokenKey(b)>> => escrow'[x][k] = escrow[x][k]
  OBVIOUS
<1>3. Covered(w)'
  <2>1. escrow[p][TokenKey(b)] = supply[TokenKey(w)] + Transit(w)
    BY DEF BankInv, Covered
  <2>2. /\ escrow[p][TokenKey(b)] \in Int /\ supply[TokenKey(w)] \in Int /\ Transit(w) \in Int
    BY <1>1 DEF BankInv, BankTyped, Transit
  <2>3. escrow'[p][TokenKey(b)] = supply'[TokenKey(w)] + Transit(w)'
    <3> DEFINE i == escrow[p][TokenKey(b)]
               j == supply[TokenKey(w)]
               n == Transit(w)
    <3>1. i \in Int /\ j \in Int /\ n \in Int /\ i = j + n
      BY <2>1, <2>2
    <3>2. i = (j + d) + (n - d) /\ i - d = j + (n - d)
      <4> HIDE DEF i, j, n
      <4> QED
        BY <3>1
    <3> QED
      BY <3>2
  <2> QED
    BY <2>3 DEF Covered
<1>4. \A v \in tokens : Len(v.via) > 1 /\ Before(v) \in tokens => Covered(v)'
  BY <1>2, <1>3, CoveredKept
<1>5. PICK z \in {w, b} : /\ Held(TokenKey(z))' = Held(TokenKey(z)) + d
                          /\ Held(TokenKey(z)) + d \in Nat
                          /\ \A k \in Keys : k # TokenKey(z) => Held(k)' = Held(k)
  <2>1. BankTyped /\ escrow' \in [End -> [Keys -> Nat]]
    BY <1>1 DEF BankInv, BankTyped
  <2>2. CASE UNCHANGED escrow /\ supply'[TokenKey(w)] = supply[TokenKey(w)] + d
             /\ Held(TokenKey(w)) + d \in Nat
    BY <1>1, <1>2, <2>1, <2>2, MintShifts
  <2>3. CASE UNCHANGED supply /\ escrow'[p][TokenKey(b)] = escrow[p][TokenKey(b)] - d
             /\ Held(TokenKey(b)) + d \in Nat
    BY <1>1, <1>2, <2>1, <2>3, LockShifts
  <2> QED
    BY <2>2, <2>3
<1>6. \A k \in Keys : Held(k)' \in Nat
  BY <1>5 DEF BankInv
<1>7. ASSUME NEW o \in tokens, Len(o.via) = 1
      PROVE  HeldFrom(o)' + Away(o)' = supply'[TokenKey(o)]
  <2>1. TokenKey(o) # TokenKey(w) /\ TokenKey(o) \in Keys
    <3>1. TokensInv
      BY DEF BankInv, BankTyped
    <3>2. o # w
      <4>1. SUFFICES ASSUME o = w
                     PROVE  FALSE
        OBVIOUS
      <4>2. Len(w.via) = 1
        BY <1>7, <4>1
      <4> QED
        BY <4>2
    <3>3. TokenKey(o) # TokenKey(w)
      BY <3>1, <3>2, OneToken
    <3> QED
      BY <3>3 DEF Keys
  <2>2. supply'[TokenKey(o)] = supply[TokenKey(o)]
    BY <1>2, <2>1
  <2>3. OriginKey(z) = OriginKey(w) /\ z \in tokens
    BY <1>5
  <2>4. Away(o) \in Int /\ Away(o)' \in Int
    BY DEF Away
  <2> QED
    BY <1>5, <1>7, <2>2, <2>3, <2>4, ConservedKept
<1> QED
  BY <1>1, <1>4, <1>6, <1>7 DEF BankInv

LEMMA NoneAway ==
  ASSUME moving = {}
  PROVE  (\A v : Transit(v) = 0) /\ (\A o : Away(o) = 0)
BY DEF Transit, Away

\* What is away is one unit, of a voucher of some origin.
LEMMA OneAway ==
  ASSUME NEW m, moving = {m}, NEW w, Carried(m) = w, OriginKey(m.token) = OriginKey(w)
  PROVE  /\ Transit(w) = 1 /\ \A v : v # w => Transit(v) = 0
         /\ \A o : OriginKey(w) = TokenKey(o) => Away(o) = 1
         /\ \A o : OriginKey(w) # TokenKey(o) => Away(o) = 0
BY DEF Transit, Away

LEMMA LeaveKeeps ==
  ASSUME BankInv, UNCHANGED tokens, NEW t \in tokens, NEW e \in End, Leave(t, e), UNCHANGED ends
  PROVE  BankInv'
<1> DEFINE m == [token |-> t, end |-> e]
           k == TokenKey(t)
<1>1. /\ moving = {} /\ moving' = {m} /\ Goes(t, e) /\ Held(k) > 0
      /\ Back(t, e) => supply' = [supply EXCEPT ![k] = @ - 1] /\ UNCHANGED escrow
      /\ ~Back(t, e) => escrow' = [escrow EXCEPT ![e][k] = @ + 1] /\ UNCHANGED supply
  BY DEF Leave
<1>2. BankTyped /\ TokensInv /\ k \in Keys /\ Keys' = Keys
  BY DEF BankInv, BankTyped, Keys
<1>3. PICK w \in tokens, b \in tokens, p \in End :
        /\ Len(w.via) > 1 /\ Before(w) = b /\ Peer[Leg(w, 1)] = p /\ p[1] = TokenKey(b).chain
        /\ OriginKey(w) = OriginKey(t) /\ OriginKey(b) = OriginKey(t)
        /\ \/ Back(t, e) /\ w = t /\ b = Arrived(t, e) /\ p = Peer[e]
           \/ ~Back(t, e) /\ w = Arrived(t, e) /\ b = t /\ p = e
  BY <1>1, <1>2, MoveShape
<1>4. Carried(m) = w
  BY <1>3 DEF Carried
<1>5. /\ Transit(w) = 0 /\ \A v : v # w => Transit(v) = 0
      /\ \A o : Away(o) = 0
  BY <1>1, NoneAway
<1>6. /\ Transit(w)' = 1 /\ \A v : v # w => Transit(v)' = 0
      /\ \A o : OriginKey(w) = TokenKey(o) => Away(o)' = 1
      /\ \A o : OriginKey(w) # TokenKey(o) => Away(o)' = 0
  BY <1>1, <1>3, <1>4 DEF Transit, Away
<1>7. Held(k) \in Nat /\ Held(k) + (-1) \in Nat
  BY <1>1, <1>2 DEF BankInv
<1>8. supply[k] \in Nat /\ supply[k] - 1 \in Nat
  <2>1. Escrowed(k) \in Nat /\ supply[k] \in Nat
    BY <1>2, EscrowedNat DEF BankTyped
  <2> QED
    BY <1>1, <2>1 DEF Held
<1>9. Goes(t, e)' /\ MovingInv'
  <2>1. Goes(t, e)'
    BY <1>1 DEF Goes, Works
  <2> QED
    BY <1>1, <2>1 DEF MovingInv
<1>10. CASE Back(t, e)
  <2>1. w = t /\ supply' = [supply EXCEPT ![k] = @ - 1] /\ UNCHANGED escrow
    BY <1>1, <1>3, <1>10
  <2>2. BankTyped'
    BY <1>2, <1>8, <2>1 DEF BankTyped, TokensInv
  <2>3. supply'[k] = supply[k] + (-1) /\ \A x \in Keys : x # k => supply'[x] = supply[x]
    BY <1>2, <2>1 DEF BankTyped
  <2> QED
    BY <1>3, <1>5, <1>6, <1>7, <1>9, <2>1, <2>2, <2>3, ShiftKeeps
<1>11. CASE ~Back(t, e)
  <2>1. b = t /\ p = e /\ escrow' = [escrow EXCEPT ![e][k] = @ + 1] /\ UNCHANGED supply
    BY <1>1, <1>3, <1>11
  <2>2. escrow' \in [End -> [Keys -> Nat]]
    BY <1>2, <2>1 DEF BankTyped
  <2>3. BankTyped'
    BY <1>2, <2>1, <2>2 DEF BankTyped, TokensInv
  <2>4. /\ escrow'[e][k] = escrow[e][k] - (-1)
        /\ \A x \in End, y \in Keys : <<x, y>> # <<e, k>> => escrow'[x][y] = escrow[x][y]
    BY <1>2, <2>1 DEF BankTyped
  <2> QED
    BY <1>3, <1>5, <1>6, <1>7, <1>9, <2>1, <2>3, <2>4, ShiftKeeps
<1> QED
  BY <1>10, <1>11

LEMMA ArriveKeeps ==
  ASSUME BankInv, UNCHANGED tokens, NEW m \in moving, Arrive(m)
  PROVE  BankInv'
<1> DEFINE t == m.token
           e == m.end
           r == Arrived(t, e)
<1>1. moving = {m} /\ Goes(t, e) /\ e \in End /\ t \in tokens /\ r \in tokens
  BY DEF BankInv, MovingInv, Goes
<1>2. BankTyped /\ TokensInv /\ Keys' = Keys /\ TokenKey(t) \in Keys /\ TokenKey(r) \in Keys
  BY <1>1 DEF BankInv, BankTyped, Keys
<1>3. PICK w \in tokens, b \in tokens, p \in End :
        /\ Len(w.via) > 1 /\ Before(w) = b /\ Peer[Leg(w, 1)] = p /\ p[1] = TokenKey(b).chain
        /\ OriginKey(w) = OriginKey(t) /\ OriginKey(b) = OriginKey(t)
        /\ \/ Back(t, e) /\ w = t /\ b = r /\ p = Peer[e]
           \/ ~Back(t, e) /\ w = r /\ b = t /\ p = e
  BY <1>1, <1>2, MoveShape
<1>4. TokenKey(w) \in Keys /\ TokenKey(b) \in Keys
  BY DEF Keys
<1>5. Carried(m) = w
  BY <1>3 DEF Carried
<1>6. \/ supply' = [supply EXCEPT ![TokenKey(w)] = @ + 1] /\ UNCHANGED escrow
      \/ escrow' = [escrow EXCEPT ![p][TokenKey(b)] = @ - 1] /\ UNCHANGED supply
  BY <1>3 DEF Arrive
<1>7. /\ Transit(w) = 1 /\ \A v : v # w => Transit(v) = 0
      /\ \A o : OriginKey(w) = TokenKey(o) => Away(o) = 1
      /\ \A o : OriginKey(w) # TokenKey(o) => Away(o) = 0
  BY <1>1, <1>3, <1>5, OneAway
<1>8. moving' = {} /\ MovingInv'
  BY DEF Arrive, MovingInv
<1>9. (\A v : Transit(v)' = 0) /\ (\A o : Away(o)' = 0)
  BY <1>8 DEF Transit, Away
<1>10. Held(TokenKey(w)) + 1 \in Nat /\ Held(TokenKey(b)) + 1 \in Nat
  BY <1>4 DEF BankInv
<1>11. CASE supply' = [supply EXCEPT ![TokenKey(w)] = @ + 1] /\ UNCHANGED escrow
  <2>1. BankTyped'
    BY <1>2, <1>4, <1>11 DEF BankTyped, TokensInv
  <2>2. /\ supply'[TokenKey(w)] = supply[TokenKey(w)] + 1
        /\ \A x \in Keys : x # TokenKey(w) => supply'[x] = supply[x]
    BY <1>2, <1>4, <1>11 DEF BankTyped
  <2> QED
    BY <1>3, <1>7, <1>8, <1>9, <1>10, <1>11, <2>1, <2>2, ShiftKeeps
<1>12. CASE escrow' = [escrow EXCEPT ![p][TokenKey(b)] = @ - 1] /\ UNCHANGED supply
  <2>1. escrow[p][TokenKey(b)] \in Nat /\ escrow[p][TokenKey(b)] - 1 \in Nat
    <3>1. escrow[p][TokenKey(b)] = supply[TokenKey(w)] + 1
      BY <1>3, <1>7 DEF BankInv, Covered
    <3> QED
      BY <1>2, <1>4, <3>1 DEF BankTyped
  <2>2. escrow' \in [End -> [Keys -> Nat]]
    BY <1>2, <1>4, <1>12, <2>1 DEF BankTyped
  <2>3. BankTyped'
    BY <1>2, <1>12, <2>2 DEF BankTyped, TokensInv
  <2>4. /\ escrow'[p][TokenKey(b)] = escrow[p][TokenKey(b)] - 1
        /\ \A x \in End, y \in Keys : <<x, y>> # <<p, TokenKey(b)>> => escrow'[x][y] = escrow[x][y]
    BY <1>2, <1>4, <1>12 DEF BankTyped
  <2> QED
    BY <1>3, <1>7, <1>8, <1>9, <1>10, <1>12, <2>3, <2>4, ShiftKeeps
<1> QED
  BY <1>6, <1>11, <1>12

LEMMA BankStays ==
  ASSUME BankInv, UNCHANGED <<tokens, supply, escrow, moving, ends>>
  PROVE  BankInv'
<1>1. UNCHANGED tokens /\ UNCHANGED supply /\ UNCHANGED escrow /\ UNCHANGED moving /\ UNCHANGED ends
  OBVIOUS
<1>2. Keys' = Keys /\ BankTyped'
  BY <1>1 DEF BankInv, BankTyped, Keys, TokensInv
<1>3. \A t, e : Goes(t, e)' <=> Goes(t, e)
  BY <1>1 DEF Goes, Works
<1>4. MovingInv'
  BY <1>1, <1>3 DEF BankInv, MovingInv
<1>5. \A k : Held(k)' = Held(k)
  BY <1>1 DEF Held, Escrowed, LockedIn
<1>6. (\A v : Covered(v)' <=> Covered(v)) /\ (\A o : Away(o)' = Away(o))
  BY <1>1 DEF Covered, Transit, Away
<1>7. ASSUME NEW o
      PROVE  HeldFrom(o)' = HeldFrom(o)
  <2>1. KeysFrom(o, tokens)' = KeysFrom(o, tokens)
    BY <1>1 DEF KeysFrom
  <2>2. [k \in KeysFrom(o, tokens)' |-> Held(k)'] = [k \in KeysFrom(o, tokens) |-> Held(k)]
    BY <1>5, <2>1
  <2> QED
    BY <2>2 DEF HeldFrom
<1> QED
  BY <1>1, <1>2, <1>4, <1>5, <1>6, <1>7 DEF BankInv

LEMMA FirstBank ==
  ASSUME Init, focus = "tokens"
  PROVE  BankInv
<1>1. PICK c \in Cases : /\ focus = c.focus /\ tokens = c.tokens
                         /\ supply = c.supply /\ escrow = c.escrow
  BY DEF Init
<1>2. IsFiniteSet(tokens) /\ AddsUp(tokens, supply, escrow)
  BY <1>1, AmountsAssumption
<1>3. TokensInv
  BY <1>1, RegistryAssumption DEF TokensInv
<1>4. moving = {}
  BY DEF Init, TokensInit
<1> DEFINE held == [k \in Keys |-> supply[k] - LockedIn(k, escrow)]
<1>5. /\ supply \in [Keys -> Nat] /\ escrow \in [End -> [Keys -> Nat]] /\ held \in [Keys -> Nat]
      /\ \A t \in tokens : Len(t.via) = 1 =>
           SumOf([k \in KeysFrom(t, tokens) |-> held[k]]) = supply[TokenKey(t)]
      /\ \A t \in tokens : Len(t.via) # 1 => (Before(t) \in tokens =>
           escrow[Peer[Leg(t, 1)]][TokenKey(Before(t))] = supply[TokenKey(t)])
  BY <1>2 DEF AddsUp, Keys
<1>6. BankTyped /\ MovingInv
  BY <1>2, <1>3, <1>4, <1>5 DEF BankTyped, MovingInv
<1>7. \A k \in Keys : Held(k) = held[k]
  BY DEF Held, Escrowed
<1>8. \A k \in Keys : Held(k) \in Nat
  BY <1>5, <1>7
<1>9. ASSUME NEW v \in tokens, Len(v.via) > 1, Before(v) \in tokens
      PROVE  Covered(v)
  <2>1. Len(v.via) # 1
    <3> DEFINE n == Len(v.via)
    <3>1. n > 1
      BY <1>9
    <3> HIDE DEF n
    <3>2. n # 1
      BY <3>1
    <3> QED
      BY <3>2 DEF n
  <2>2. escrow[Peer[Leg(v, 1)]][TokenKey(Before(v))] = supply[TokenKey(v)]
    BY <1>5, <1>9, <2>1
  <2>3. supply[TokenKey(v)] \in Nat
    BY <1>5 DEF Keys
  <2>4. Transit(v) = 0
    BY <1>4, NoneAway
  <2> QED
    BY <2>2, <2>3, <2>4 DEF Covered
<1>10. ASSUME NEW o \in tokens, Len(o.via) = 1
       PROVE  HeldFrom(o) + Away(o) = supply[TokenKey(o)]
  <2>1. \A k \in KeysFrom(o, tokens) : k \in Keys
    BY DEF KeysFrom, Keys
  <2>2. [k \in KeysFrom(o, tokens) |-> Held(k)] = [k \in KeysFrom(o, tokens) |-> held[k]]
    BY <1>7, <2>1
  <2>3. HeldFrom(o) = supply[TokenKey(o)]
    BY <1>5, <1>10, <2>2 DEF HeldFrom
  <2>4. supply[TokenKey(o)] \in Nat /\ Away(o) = 0
    BY <1>4, <1>5, NoneAway DEF Keys
  <2> QED
    BY <2>3, <2>4
<1> QED
  BY <1>6, <1>8, <1>9, <1>10 DEF BankInv

----------------------------------------------------------------------------
(* The traces of an origin that were derived from what the chains had.     *)

\* The origin of a denom that is known by it is where its token came from.
LEMMA BaseIsOrigin ==
  ASSUME TokensInv, DenomsLeadHome, NEW s \in tokens, NEW base, base = OriginKey(s),
         NEW k \in FindByBaseDenom(base)
  PROVE  \E t \in tokens : /\ TokenKey(t) = k /\ OriginKey(t) = base
                           /\ denoms[k].ibcHops = Len(t.via) - 1
<1>1. k \in DOMAIN denoms /\ KeyOf(denoms[k].baseChain, denoms[k].baseDenom) = base
  BY DEF FindByBaseDenom
<1>2. PICK t \in tokens : TokenKey(t) = k
  BY <1>1 DEF DenomsLeadHome
<1>3. Token(k) = t
  BY <1>2, TokenIs
<1> DEFINE d == denoms[k]
<1>4. /\ <<d.baseChain, d.baseDenom>> \in {<<t.via[n], StationDenom(t, n)>> : n \in DOMAIN t.via}
      /\ d.ibcHops = Len(t.via) - 1
  BY <1>1, <1>3 DEF DenomsLeadHome, LeadsHome
<1>5. FollowsPath(s) /\ FollowsPath(t)
  BY DEF TokensInv
<1>6. PICK n \in 1 .. Len(t.via) : <<d.baseChain, d.baseDenom>> = At(t, n)
  BY <1>4, <1>5, TokenShape DEF At
<1>7. OriginKey(s) = KeyOf(At(s, Len(s.via))[1], At(s, Len(s.via))[2])
  BY DEF OriginKey, Origin, OriginDenom, At
<1>8. At(t, n) = At(s, Len(s.via)) /\ Len(s.via) \in 1 .. Len(s.via)
  <2>1. d.baseChain = base.chain /\ d.baseDenom = base.denom
    BY <1>1 DEF KeyOf
  <2>2. base.chain = At(s, Len(s.via))[1] /\ base.denom = At(s, Len(s.via))[2]
    BY <1>7 DEF KeyOf
  <2>3. At(s, Len(s.via)) = <<At(s, Len(s.via))[1], At(s, Len(s.via))[2]>>
    BY DEF At
  <2> HIDE DEF d
  <2> QED
    BY <1>5, <1>6, <2>1, <2>2, <2>3, Lengths
<1>9. Len(s.via) - Len(s.via) = Len(t.via) - n
  BY <1>5, <1>8, SameStation
<1>10. n = Len(t.via)
  BY <1>5, <1>9, Lengths
<1>11. OriginKey(t) = base
  BY <1>7, <1>8, <1>10 DEF OriginKey, Origin, OriginDenom, At
<1> QED
  BY <1>2, <1>4, <1>11

\* A token is at its origin if it went nowhere, and only such a one has the origin's denom.
LEMMA AtOrigin ==
  ASSUME NEW t, FollowsPath(t), Len(t.via) = 1 \/ TokenKey(t).denom = OriginKey(t).denom
  PROVE  Len(t.via) = 1 /\ OriginKey(t) = TokenKey(t)
<1>1. TokenKey(t) = KeyOf(t.via[1], t.path) /\ OriginKey(t) = KeyOf(t.via[Len(t.via)], StationDenom(t, Len(t.via)))
  BY TokenShape DEF TokenKey, OriginKey, Origin, OriginDenom
<1>2. At(t, 1) = <<t.via[1], t.path>>
  BY FirstStation
<1>3. 1 \in 1 .. Len(t.via) /\ Len(t.via) \in 1 .. Len(t.via)
  BY Lengths
<1>4. Len(t.via) = 1
  <2>1. CASE TokenKey(t).denom = OriginKey(t).denom
    <3>1. StationDenom(t, 1) = StationDenom(t, Len(t.via))
      BY <1>1, <1>2, <2>1 DEF KeyOf, At
    <3>2. Len(StationDenom(t, 1).hops) = Len(Hops(t)) - 1 + 1
      BY <1>3, StationShape
    <3>3. Len(StationDenom(t, Len(t.via)).hops) = Len(Hops(t)) - Len(t.via) + 1
      BY <1>3, StationShape
    <3>4. Len(Hops(t)) - 1 + 1 = Len(Hops(t)) - Len(t.via) + 1
      BY <3>1, <3>2, <3>3
    <3> DEFINE a == Len(Hops(t))
               n == Len(t.via)
    <3>5. a \in Nat /\ n \in Nat
      BY Lengths
    <3> HIDE DEF a, n
    <3>6. a - 1 + 1 = a - n + 1 => n = 1
      BY <3>5
    <3> QED
      BY <3>4, <3>6 DEF a, n
  <2> QED
    BY <2>1
<1> QED
  BY <1>1, <1>2, <1>4 DEF At

\* The trace of a denom has what its chain has.
LEMMA TraceIs ==
  ASSUME BankInv, NEW base, Exact(base), NEW t \in tokens, OriginKey(t) = base
  PROVE  LET k == TokenKey(t)
             x == Trace(base, k, {})
         IN  /\ x.chain = k.chain /\ x.denom = k.denom /\ x.hops = denoms[k].ibcHops
             /\ x.supply = supply[k] /\ x.amount = Held(k)
<1> DEFINE k == TokenKey(t)
           x == Trace(base, k, {})
           doc == tok.docs[base]
<1>1. k \in Keys /\ k = KeyOf(k.chain, k.denom) /\ BankTyped /\ FollowsPath(t)
  BY DEF Keys, TokenKey, KeyOf, BankInv, BankTyped, TokensInv
<1>2. /\ supply[k] \in Nat /\ Escrowed(k) \in Nat /\ Held(k) = supply[k] - Escrowed(k) /\ Held(k) \in Nat
  BY <1>1, EscrowedNat DEF BankInv, BankTyped, Held
<1>3. supply[k] >= Escrowed(k)
  BY <1>2
<1>4. Less(supply[k], Escrowed(k)) = Held(k)
  BY <1>2, <1>3 DEF Less
<1>5. GetSupply(k) = {supply[k]} \ {0} /\ GetTransferAmount(k) = Escrowed(k)
  BY <1>1 DEF Exact
<1>6. x.chain = k.chain /\ x.denom = k.denom /\ x.hops = denoms[k].ibcHops
  BY DEF Trace
<1>7. CASE IsGenesis(base, k)
  <2>1. k = base
    BY <1>1, <1>7, AtOrigin DEF IsGenesis
  <2>2. doc.supply = supply[k] /\ doc.amount = Escrowed(k)
    BY <2>1 DEF Exact
  <2>3. IbcDenomAmountGenesis(doc) = Less(supply[k], Escrowed(k))
    BY <1>2, <2>2 DEF IbcDenomAmountGenesis, Unknown
  <2>4. x.supply = doc.supply /\ x.amount = IbcDenomAmountGenesis(doc)
    BY <1>7 DEF Trace
  <2> HIDE DEF x, k, doc
  <2>5. x.supply = supply[k] /\ x.amount = Held(k)
    BY <1>4, <2>2, <2>3, <2>4
  <2> QED
    BY <1>6, <2>5 DEF x, k
<1>8. CASE ~IsGenesis(base, k)
  <2>1. IbcDenomSupply(k, {}) = supply[k]
    <3>1. CASE supply[k] = 0
      BY <1>5, <3>1 DEF IbcDenomSupply
    <3>2. CASE supply[k] # 0
      <4>1. GetSupply(k) = {supply[k]}
        BY <1>5, <3>2
      <4> QED
        BY <4>1 DEF IbcDenomSupply
    <3> QED
      BY <3>1, <3>2
  <2>2. IbcDenomAmount(k, supply[k], {}) = Held(k)
    BY <1>4, <1>5 DEF IbcDenomAmount
  <2>3. x.supply = IbcDenomSupply(k, {}) /\ x.amount = IbcDenomAmount(k, IbcDenomSupply(k, {}), {})
    BY <1>8 DEF Trace
  <2> HIDE DEF x, k, doc
  <2>4. x.supply = supply[k] /\ x.amount = Held(k)
    BY <2>1, <2>2, <2>3
  <2> QED
    BY <1>6, <2>4 DEF x, k
<1> QED
  BY <1>7, <1>8

AmountOf(T) == SumOf([t \in T |-> t.amount])
\* Of an origin whose traces were derived from what the chains had: no trace is there
\* twice, only its own has no hops, and the amounts add up to its supply.
ExactInv ==
  \A base \in exact :
    /\ base \in DOMAIN traces
    /\ \A t \in traces[base] : /\ t.hops \in Nat /\ Positive(t)
                               /\ t.hops = 0 => t \in GenesisOf(base)
    /\ IsFiniteSet(traces[base])
    /\ \A g \in GenesisOf(base) : AmountOf(traces[base]) = g.supply

LEMMA FreshAddsUp ==
  ASSUME BankInv, DenomsLeadHome, NEW base, Exact(base), NEW fresh,
         fresh = {t \in {Trace(base, k, {}) : k \in FindByBaseDenom(base)} : t.supply # 0}
  PROVE  /\ \A t \in fresh : /\ t.hops \in Nat /\ Positive(t)
                             /\ t.hops = 0 => t.chain = base.chain /\ t.denom = base.denom
         /\ IsFiniteSet(fresh)
         /\ \A g \in fresh : g.chain = base.chain /\ g.denom = base.denom => AmountOf(fresh) = g.supply
<1> DEFINE of == FindByBaseDenom(base)
           P == {k \in of : supply[k] # 0}
           T(k) == Trace(base, k, {})
<1>1. PICK s \in tokens : base = OriginKey(s)
  BY DEF Exact
<1>2. BankTyped /\ TokensInv /\ \A k \in Keys : supply[k] \in Nat /\ Held(k) \in Nat
  BY DEF BankInv, BankTyped
<1>3. \A k \in of : \E t \in tokens : /\ TokenKey(t) = k /\ OriginKey(t) = base
                                      /\ denoms[k].ibcHops = Len(t.via) - 1
  BY <1>1, <1>2, BaseIsOrigin
<1>4. ASSUME NEW k \in of
      PROVE  /\ k \in Keys /\ k = KeyOf(k.chain, k.denom)
             /\ T(k).chain = k.chain /\ T(k).denom = k.denom /\ T(k).hops = denoms[k].ibcHops
             /\ T(k).supply = supply[k] /\ T(k).amount = Held(k)
  <2>1. PICK t \in tokens : TokenKey(t) = k /\ OriginKey(t) = base
    BY <1>3
  <2>2. k \in Keys /\ k = KeyOf(k.chain, k.denom)
    BY <2>1 DEF Keys, TokenKey, KeyOf
  <2>3. /\ T(k).chain = k.chain /\ T(k).denom = k.denom /\ T(k).hops = denoms[k].ibcHops
        /\ T(k).supply = supply[k] /\ T(k).amount = Held(k)
    BY <2>1, TraceIs
  <2> QED
    BY <2>2, <2>3
<1>5. fresh = {T(k) : k \in P}
  BY <1>4
<1> HIDE DEF T, of
<1>6. ASSUME NEW x \in fresh
      PROVE  /\ x.hops \in Nat /\ Positive(x)
             /\ x.hops = 0 => x.chain = base.chain /\ x.denom = base.denom
  <2>1. PICK k \in P : x = T(k)
    BY <1>5
  <2>2. PICK t \in tokens : /\ TokenKey(t) = k /\ OriginKey(t) = base
                            /\ denoms[k].ibcHops = Len(t.via) - 1
    BY <1>3
  <2>3. FollowsPath(t)
    BY <1>2 DEF TokensInv
  <2>4. x.hops = Len(t.via) - 1 /\ x.hops \in Nat
    BY <1>4, <2>1, <2>2, <2>3, Lengths
  <2>5. x.supply \in Nat /\ x.supply # 0
    BY <1>2, <1>4, <2>1
  <2>6. Positive(x)
    BY <2>5 DEF Positive, Unknown
  <2>7. ASSUME x.hops = 0
        PROVE  x.chain = base.chain /\ x.denom = base.denom
    <3>1. Len(t.via) = 1
      <4> DEFINE n == Len(t.via)
      <4>1. n \in Nat /\ n - 1 = 0
        BY <2>3, <2>4, <2>7, Lengths
      <4> HIDE DEF n
      <4>2. n = 1
        BY <4>1
      <4> QED
        BY <4>2 DEF n
    <3>2. k = base
      BY <2>2, <2>3, <3>1, AtOrigin
    <3> QED
      BY <1>4, <2>1, <3>2
  <2> QED
    BY <2>4, <2>6, <2>7
<1>7. PICK o \in tokens : OriginKey(o) = base
  BY <1>1
<1> DEFINE K == {TokenKey(t) : t \in {x \in tokens : OriginKey(x) = base}}
<1>8. IsFiniteSet(K) /\ P \subseteq K /\ K \subseteq Keys
  <2>1. IsFiniteSet(K)
    <3> DEFINE S == {x \in tokens : OriginKey(x) = base}
               h == [x \in S |-> TokenKey(x)]
    <3>1. IsFiniteSet(S)
      BY <1>2, FS_Subset DEF BankTyped
    <3>2. h \in Surjection(S, K)
      BY DEF Surjection
    <3> HIDE DEF S, h, K
    <3> QED
      BY <3>1, <3>2, FS_Surjection
  <2>2. P \subseteq K
    BY <1>3
  <2> QED
    BY <2>1, <2>2 DEF Keys
<1> DEFINE h == [k \in P |-> T(k)]
<1>9. /\ h \in [P -> fresh] /\ \A x, y \in P : h[x] = h[y] => x = y
      /\ \A y \in fresh : \E x \in P : h[x] = y
  <2>1. \A x, y \in P : T(x) = T(y) => x = y
    BY <1>4 DEF KeyOf
  <2> QED
    BY <1>5, <2>1
<1>10. IsFiniteSet(fresh)
  <2>1. IsFiniteSet(P)
    BY <1>8, FS_Subset
  <2>2. h \in Surjection(P, fresh)
    BY <1>9 DEF Surjection
  <2> HIDE DEF P, h
  <2> QED
    BY <2>1, <2>2, FS_Surjection
<1>11. ASSUME NEW g \in fresh, g.chain = base.chain, g.denom = base.denom
       PROVE  AmountOf(fresh) = g.supply
  <2>1. PICK k \in P : g = T(k)
    BY <1>5
  <2>2. PICK t \in tokens : TokenKey(t) = k /\ OriginKey(t) = base
    BY <1>3
  <2>3. FollowsPath(t)
    BY <1>2 DEF TokensInv
  <2>4. Len(t.via) = 1 /\ TokenKey(t) = base /\ k = base
    <3>1. k.denom = base.denom
      BY <1>4, <1>11, <2>1
    <3> QED
      BY <2>2, <2>3, <3>1, AtOrigin
  <2> DEFINE f == [x \in K |-> Held(x)]
             a == [x \in fresh |-> x.amount]
  <2>5. SumOf(f) = supply[base]
    <3>1. KeysFrom(t, tokens) = K
      BY <2>4 DEF KeysFrom
    <3>2. HeldFrom(t) = SumOf(f)
      BY <3>1 DEF HeldFrom
    <3>3. HeldFrom(t) + Away(t) = supply[TokenKey(t)]
      BY <2>4 DEF BankInv
    <3>4. Away(t) = 0
      BY NoneAway DEF Exact
    <3>5. SumOf(f) \in Int
      <4>1. IsFiniteSet(DOMAIN f) /\ \A x \in DOMAIN f : f[x] \in Int
        BY <1>2, <1>8
      <4> HIDE DEF f
      <4> QED
        BY <4>1, SumInt
    <3> QED
      BY <2>4, <3>2, <3>3, <3>4, <3>5
  <2>6. ASSUME NEW x \in K \ P
        PROVE  Held(x) = 0
    <3>1. PICK v \in tokens : OriginKey(v) = base /\ TokenKey(v) = x
      OBVIOUS
    <3>2. x \in Keys /\ Held(x) \in Nat
      BY <1>2, <1>8
    <3>3. SUFFICES ASSUME Held(x) > 0
                   PROVE  FALSE
      BY <3>2
    <3>4. x \in of
      BY <3>1, <3>3 DEF Exact, FindByBaseDenom, of
    <3>5. supply[x] = 0
      BY <3>4
    <3>6. Escrowed(x) \in Nat
      BY <1>2, <3>2, EscrowedNat
    <3> QED
      BY <3>3, <3>5, <3>6 DEF Held
  <2>7. /\ IsFiniteSet(DOMAIN f) /\ \A x \in DOMAIN f : f[x] \in Int
        /\ P \subseteq DOMAIN f /\ \A x \in DOMAIN f \ P : f[x] = 0
    BY <1>2, <1>8, <2>6
  <2>8. \A x \in P : a[h[x]] = f[x]
    BY <1>4, <1>5, <1>8
  <2>9. /\ IsFiniteSet(DOMAIN a) /\ \A y \in DOMAIN a : a[y] \in Int
        /\ h \in [P -> DOMAIN a] /\ \A y \in DOMAIN a : \E x \in P : h[x] = y
    <3>1. \A y \in fresh : y.amount \in Int
      BY <1>2, <1>4, <1>5
    <3> QED
      BY <1>9, <1>10, <3>1
  <2>10. \A x, y \in P : h[x] = h[y] => x = y
    BY <1>9
  <2>11. SumOf(a) = SumOf(f)
    <3> HIDE DEF a, f, h, P
    <3> QED
      BY <2>7, <2>8, <2>9, <2>10, SumMoved
  <2>12. g.supply = supply[base]
    BY <1>4, <2>1, <2>4
  <2> QED
    BY <2>5, <2>11, <2>12 DEF AmountOf
<1> QED
  BY <1>6, <1>10, <1>11

LEMMA ExactStays ==
  ASSUME ExactInv, UNCHANGED <<exact, traces>>
  PROVE  ExactInv'
<1>1. UNCHANGED exact /\ UNCHANGED traces
  OBVIOUS
<1>2. \A b : GenesisOf(b)' = GenesisOf(b)
  BY <1>1 DEF GenesisOf
<1> QED
  BY <1>1, <1>2 DEF ExactInv

LEMMA TraceTokenKeeps ==
  ASSUME BankInv, DenomsLeadHome, ExactInv, NEW base, TraceToken(base)
  PROVE  ExactInv'
<1> DEFINE fresh(l) == {t \in {Trace(base, k, l) : k \in FindByBaseDenom(base)} : t.supply # 0}
<1>1. PICK lost : /\ traces' = [k \in DOMAIN traces \cup {base} |->
                                  IF k # base THEN traces[k] ELSE BatchSwap(base, fresh(lost), lost)]
                  /\ exact' = (exact \ {base}) \cup {k \in {base} : lost = {} /\ Exact(k)}
  BY DEF TraceToken
<1>2. \A b : GenesisOf(b)' = {t \in traces'[b] : t.chain = b.chain /\ t.denom = b.denom}
  BY DEF GenesisOf
<1> SUFFICES ASSUME NEW b \in exact'
             PROVE  /\ b \in DOMAIN traces'
                    /\ \A t \in traces'[b] : /\ t.hops \in Nat /\ Positive(t)
                                             /\ t.hops = 0 => t \in GenesisOf(b)'
                    /\ IsFiniteSet(traces'[b])
                    /\ \A g \in GenesisOf(b)' : AmountOf(traces'[b]) = g.supply
  BY DEF ExactInv, Positive, AmountOf
<1>3. CASE b # base
  <2>1. b \in exact
    BY <1>1, <1>3
  <2>2. b \in DOMAIN traces /\ b \in DOMAIN traces' /\ traces'[b] = traces[b]
    BY <1>1, <1>3, <2>1 DEF ExactInv
  <2>3. GenesisOf(b)' = GenesisOf(b)
    BY <1>2, <2>2 DEF GenesisOf
  <2> QED
    BY <2>1, <2>2, <2>3 DEF ExactInv
<1>4. CASE b = base
  <2>1. lost = {} /\ Exact(base) /\ base \in DOMAIN traces'
    BY <1>1, <1>4
  <2>2. traces'[base] = fresh({})
    BY <1>1, <2>1 DEF BatchSwap
  <2> DEFINE F == fresh({})
  <2>3. F = {t \in {Trace(base, k, {}) : k \in FindByBaseDenom(base)} : t.supply # 0}
    OBVIOUS
  <2> HIDE DEF F
  <2>4. \A t \in F : /\ t.hops \in Nat /\ Positive(t)
                     /\ t.hops = 0 => t.chain = base.chain /\ t.denom = base.denom
    BY <2>1, <2>3, FreshAddsUp
  <2>5. IsFiniteSet(F)
    BY <2>1, <2>3, FreshAddsUp
  <2>6. \A g \in F : g.chain = base.chain /\ g.denom = base.denom => AmountOf(F) = g.supply
    BY <2>1, <2>3, FreshAddsUp
  <2>7. traces'[b] = F /\ GenesisOf(b)' = {t \in F : t.chain = base.chain /\ t.denom = base.denom}
    BY <1>2, <1>4, <2>2 DEF F
  <2> DEFINE W == traces'[b]
             G == GenesisOf(b)'
  <2>8. W = F /\ G = {t \in F : t.chain = base.chain /\ t.denom = base.denom}
    BY <2>7
  <2>9. b \in DOMAIN traces'
    BY <1>4, <2>1
  <2> HIDE DEF W, G
  <2>10. \A t \in W : t.hops \in Nat /\ Positive(t) /\ (t.hops = 0 => t \in G)
    BY <2>4, <2>8
  <2>11. IsFiniteSet(W)
    BY <2>5, <2>8
  <2>12. \A g \in G : AmountOf(W) = g.supply
    BY <2>6, <2>8
  <2> QED
    BY <2>9, <2>10, <2>11, <2>12 DEF W, G
<1> QED
  BY <1>3, <1>4

----------------------------------------------------------------------------
(* The tree of such an origin is all its traces.                           *)

Levels(base, l, n) ==
  IF n = 1 THEN {t \in traces[base] : t.hops = 1} ELSE FindChildrens(base, l[n - 1])

LEMMA LevelsExist ==
  ASSUME NEW base, NEW depth \in Nat
  PROVE  \E l : l = [n \in 1 .. depth |-> Levels(base, l, n)]
<1> DEFINE S == SUBSET traces[base]
           Upto(m) == \E l \in [1 .. depth -> S] :
                        \A n \in 1 .. depth : n <= m => l[n] = Levels(base, l, n)
           Bad == {m \in Nat : ~Upto(m)}
<1>1. \A L : FindChildrens(base, L) \in S
  BY DEF FindChildrens
<1>2. \A l, n : Levels(base, l, n) \in S
  BY <1>1 DEF Levels
<1>3. Upto(0)
  <2> DEFINE l == [n \in 1 .. depth |-> {}]
  <2>1. l \in [1 .. depth -> S] /\ \A n \in 1 .. depth : n <= 0 => l[n] = Levels(base, l, n)
    OBVIOUS
  <2> QED
    BY <2>1
<1>4. ASSUME NEW m \in Nat, Upto(m)
      PROVE  Upto(m + 1)
  <2>1. PICK l \in [1 .. depth -> S] : \A n \in 1 .. depth : n <= m => l[n] = Levels(base, l, n)
    BY <1>4
  <2> DEFINE h == [n \in 1 .. depth |-> Levels(base, l, n)]
  <2>2. h \in [1 .. depth -> S]
    BY <1>2
  <2>3. ASSUME NEW n \in 1 .. depth, n <= m + 1
        PROVE  h[n] = Levels(base, h, n)
    <3>1. CASE n = 1
      BY <3>1 DEF Levels
    <3>2. CASE n # 1
      <4>1. n - 1 \in 1 .. depth /\ n - 1 <= m
        BY <2>3, <3>2
      <4>2. h[n - 1] = l[n - 1]
        BY <2>1, <4>1
      <4> QED
        BY <4>2 DEF Levels
    <3> QED
      BY <3>1, <3>2
  <2> HIDE DEF h
  <2> QED
    BY <2>2, <2>3
<1>5. Bad = {}
  <2>1. SUFFICES ASSUME Bad # {}
                 PROVE  FALSE
    OBVIOUS
  <2>2. PICK n \in Bad : \A m \in Bad : n <= m
    <3>1. Bad \subseteq Nat
      OBVIOUS
    <3> HIDE DEF Bad
    <3> QED
      BY <2>1, <3>1, LeastNumber
  <2> HIDE DEF Upto
  <2>3. n # 0
    BY <1>3
  <2>4. n - 1 \in Nat /\ n - 1 \notin Bad
    BY <2>2, <2>3
  <2>5. Upto((n - 1) + 1)
    BY <1>4, <2>4
  <2> QED
    BY <2>5
<1>6. Upto(depth)
  BY <1>5
<1>7. PICK l \in [1 .. depth -> S] : \A n \in 1 .. depth : n <= depth => l[n] = Levels(base, l, n)
  BY <1>6
<1>8. l = [n \in 1 .. depth |-> Levels(base, l, n)]
  <2>1. l = [n \in 1 .. depth |-> l[n]]
    OBVIOUS
  <2>2. \A n \in 1 .. depth : l[n] = Levels(base, l, n)
    BY <1>7
  <2> QED
    BY <2>1, <2>2
<1> QED
  BY <1>8

LEMMA UsedIs ==
  ASSUME NEW base, IsFiniteSet(traces[base])
  PROVE  Used(base) \subseteq traces[base] /\ {t \in traces[base] : t.hops = 1} \subseteq Used(base)
<1> DEFINE depth == Cardinality(traces[base])
           Is(l) == l = [n \in 1 .. depth |-> Levels(base, l, n)]
           it == CHOOSE l : Is(l)
<1>1. depth \in Nat
  BY FS_CardinalityType
<1>2. Used(base) = UNION {it[n] : n \in 1 .. depth}
  BY DEF Used, Levels
<1>3. Is(it)
  <2>1. \E l : Is(l)
    BY <1>1, LevelsExist
  <2> HIDE DEF Is
  <2> QED
    BY <2>1
<1>4. \A n \in 1 .. depth : it[n] = Levels(base, it, n)
  BY <1>3
<1> HIDE DEF it, depth
<1>5. \A n \in 1 .. depth : it[n] \subseteq traces[base]
  BY <1>4 DEF Levels, FindChildrens
<1>6. ASSUME NEW t \in traces[base], t.hops = 1
      PROVE  t \in Used(base)
  <2>1. depth # 0
    BY FS_EmptySet DEF depth
  <2>2. 1 \in 1 .. depth
    BY <1>1, <2>1
  <2>3. it[1] = {x \in traces[base] : x.hops = 1}
    BY <1>4, <2>2 DEF Levels
  <2> QED
    BY <1>2, <1>6, <2>2, <2>3
<1> QED
  BY <1>2, <1>5, <1>6

LEMMA AllShown ==
  ASSUME ExactInv, NEW base \in exact
  PROVE  TokenDistribution(base) = traces[base]
<1>1. /\ \A t \in traces[base] : /\ t.hops \in Nat /\ Positive(t)
                                 /\ t.hops = 0 => t \in GenesisOf(base)
      /\ IsFiniteSet(traces[base])
  BY DEF ExactInv
<1>2. Used(base) \subseteq traces[base] /\ {t \in traces[base] : t.hops = 1} \subseteq Used(base)
  BY <1>1, UsedIs
<1>3. ASSUME NEW t \in traces[base]
      PROVE  t \in TokenDistribution(base)
  <2>1. t.hops = 0 \/ t.hops = 1 \/ t.hops > 1
    BY <1>1, AboveOne
  <2> QED
    BY <1>1, <1>2, <2>1 DEF TokenDistribution, Jumped
<1>4. TokenDistribution(base) \subseteq traces[base]
  BY <1>2 DEF TokenDistribution, GenesisOf, Jumped
<1> QED
  BY <1>3, <1>4

LEMMA ExactAddsUp ==
  ASSUME ExactInv
  PROVE  GraphAddsUp
BY AllShown DEF ExactInv, GraphAddsUp, AmountOf

----------------------------------------------------------------------------
(* The specification.                                                      *)

\* When tokens are looked at, ibc_denom stays as it was.
AmountsInv ==
  /\ focus = "tokens" => BankInv /\ ExactInv
  /\ focus # "tokens" => exact = {}

LEMMA TokenTasksKeep ==
  ASSUME BankInv, ExactInv, DenomsLeadHome, TokenTasks, UNCHANGED channelVars, UNCHANGED denomVars
  PROVE  BankInv' /\ ExactInv'
<1>1. UNCHANGED tokens /\ UNCHANGED ends
  BY DEF channelVars, network, denomVars
<1>2. CASE \E t \in tokens, e \in End : Leave(t, e)
  <2>1. UNCHANGED <<exact, traces>>
    BY <1>2 DEF Leave
  <2> QED
    BY <1>1, <1>2, <2>1, LeaveKeeps, ExactStays
<1>3. CASE \E m \in moving : Arrive(m)
  <2>1. UNCHANGED <<exact, traces>>
    BY <1>3 DEF Arrive
  <2> QED
    BY <1>1, <1>3, <2>1, ArriveKeeps, ExactStays
<1>4. CASE UNCHANGED <<bank, traces, exact>>
  <2>1. BankInv'
    BY <1>1, <1>4, BankStays DEF bank
  <2>2. ExactInv'
    BY <1>4, ExactStays
  <2> QED
    BY <2>1, <2>2
<1>5. CASE \E k \in DOMAIN tok.docs : TraceToken(k)
  <2>1. UNCHANGED bank
    BY <1>5 DEF TraceToken
  <2>2. BankInv'
    BY <1>1, <2>1, BankStays DEF bank
  <2> QED
    BY <1>5, <2>2, TraceTokenKeeps
<1>6. CASE HeatStart \/ AggrData \/ \E c \in Chain : GetPage(c) \/ SetPage(c) \/ GetTransAmount(c)
  BY <1>4, <1>6 DEF HeatStart, AggrData, GetPage, SetPage, GetTransAmount
<1>7. CASE TokenRead \/ SetTransferAmount \/ WriteTokens \/ UpdateIBCChain
  BY <1>4, <1>7 DEF TokenRead, SetTransferAmount, WriteTokens, UpdateIBCChain
<1> QED
  BY <1>2, <1>3, <1>5, <1>6, <1>7 DEF TokenTasks

LEMMA AmountsInvKept ==
  ASSUME RegistryInv, AmountsInv, [Next]_vars
  PROVE  AmountsInv'
<1>1. CASE UNCHANGED vars
  <2>1. UNCHANGED focus /\ UNCHANGED channelVars /\ UNCHANGED denomVars /\ UNCHANGED tokenVars
    BY <1>1 DEF vars
  <2>2. UNCHANGED <<tokens, supply, escrow, moving, ends>> /\ UNCHANGED <<exact, traces>>
    BY <2>1 DEF channelVars, network, denomVars, tokenVars
  <2> QED
    BY <2>1, <2>2, BankStays, ExactStays DEF AmountsInv
<1>2. CASE focus = "tokens" /\ TokenTasks /\ UNCHANGED focus /\ UNCHANGED <<channelVars, denomVars>>
  <2>1. DenomsLeadHome
    BY <1>2 DEF RegistryInv
  <2>2. BankInv' /\ ExactInv'
    BY <1>2, <2>1, TokenTasksKeep DEF AmountsInv
  <2> QED
    BY <1>2, <2>2 DEF AmountsInv
<1>3. CASE focus # "tokens" /\ UNCHANGED focus /\ UNCHANGED tokenVars
  BY <1>3 DEF AmountsInv, tokenVars
<1> QED
  BY <1>1, <1>2, <1>3 DEF Next, ConfigRuns

\* The amounts in the tree that TokenDistribution shows of a token add up to the supply
\* of its origin whenever its traces were derived from what the chains had: for any
\* chains, channels and tokens, any way the tokens moved before, and whatever the two
\* tasks had read or lost; traces between one and the origin may be missing or empty
\* (ibcTokenStatistics, findChildrens, fillJumpHopsElem).
THEOREM GraphAddsUpThm == Spec => []GraphAddsUp
<1>1. Init => RegistryInv
  BY FirstConfig, FirstDenoms, InvLeadsHome DEF RegistryInv
<1>2. RegistryInv /\ [Next]_vars => RegistryInv'
  BY RegistryInvKept
<1>3. Init => AmountsInv
  <2>1. Init => exact = {}
    BY DEF Init, TokensInit
  <2> QED
    BY <2>1, FirstBank DEF AmountsInv, ExactInv
<1>4. RegistryInv /\ AmountsInv /\ [Next]_vars => AmountsInv'
  BY AmountsInvKept
<1>5. AmountsInv => GraphAddsUp
  BY ExactAddsUp DEF AmountsInv, GraphAddsUp
<1> QED
  BY <1>1, <1>2, <1>3, <1>4, <1>5, PTL DEF Spec

----------------------------------------------------------------------------
(* Shapes: the chains, the configuration and the channels.                 *)

\* Nothing has happened later than now.
NetworkOK ==
  /\ ends \in [End -> PathState] /\ stat \in [End -> Nat] /\ steps \in Nat
  /\ now \in 1 .. MaxTime /\ confirmed \in [End -> 0 .. now]
  /\ \A i \in DOMAIN OpenAt : OpenAt[i] \in 1 .. now
InfoOK(f) == \A c \in DOMAIN f : \A h \in DOMAIN f[c] : f[c][h] \in ChannelPath
ConfigOK ==
  /\ InfoOK(conf) /\ InfoOK(cfgConf) /\ InfoOK(cfgList)
  /\ cfg \in {"idle", "fetch", "write"}
  /\ cfgSeen \subseteq [end : End, other : Hop \cup {NoHop}, state : PathState]
DocOK(d) == d \in ChannelDoc /\ d.open <= now
DocsOK(f) == DOMAIN f \subseteq ChannelId /\ \A i \in DOMAIN f : DocOK(f[i])
ChannelDocsOK ==
  /\ DocsOK(channels) /\ DocsOK(chanDocs) /\ IsFiniteSet(DOMAIN chanDocs)
  /\ chan \in {"idle", "write"}
  /\ DOMAIN chainDoc \subseteq Listed /\ \A c \in DOMAIN chainDoc : chainDoc[c] \in ChainDoc
ChannelsInv == ConfigInv /\ NetworkOK /\ ConfigOK /\ ChannelDocsOK

LEMMA ChannelsTyped ==
  ASSUME ChannelsInv
  PROVE  ChannelsTypeOK
<1>1. MaxTime \in Nat /\ now \in Time /\ 0 .. now \subseteq Time
  BY ChannelsAssumption DEF ChannelsInv, NetworkOK, Time
<1>2. confirmed \in [End -> Time]
  BY <1>1 DEF ChannelsInv, NetworkOK
<1>3. DOMAIN conf \subseteq Chain /\ DOMAIN cfgConf \subseteq Chain /\ DOMAIN cfgList \subseteq Chain /\ cfgLeft \subseteq Chain
  BY DEF ChannelsInv, ConfigInv, ListedOnly, AnswersInv, Listed
<1>4. \A e \in End : e[2] \in Hop
  BY ChannelsAssumption
<1>5. \A c, h : <<c, h>> \in End => h \in Hop
  <2>1. \A c, h : <<c, h>>[2] = h
    OBVIOUS
  <2> QED
    BY <1>4, <2>1
<1>6. \A f \in {conf, cfgConf} : \A c \in DOMAIN f : DOMAIN f[c] \subseteq Hop
  BY <1>5 DEF ChannelsInv, ConfigInv, ListedOnly, ConfIn, ShownEnds
<1>7. \A c \in DOMAIN cfgList : DOMAIN cfgList[c] \subseteq Hop
  BY <1>5 DEF ChannelsInv, ConfigInv, AnswersInv
<1>8. \A f \in {conf, cfgConf, cfgList} :
        \A c \in DOMAIN f : /\ DOMAIN f[c] \subseteq Hop
                            /\ \A h \in DOMAIN f[c] : f[c][h] \in ChannelPath
  BY <1>6, <1>7 DEF ChannelsInv, ConfigOK, InfoOK
<1>9. \A f \in {channels, chanDocs} : DOMAIN f \subseteq ChannelId /\ \A i \in DOMAIN f : f[i] \in ChannelDoc
  BY DEF ChannelsInv, ChannelDocsOK, DocsOK, DocOK
<1> QED
  BY <1>1, <1>2, <1>3, <1>8, <1>9 DEF ChannelsTypeOK, ChannelsInv, NetworkOK, ConfigOK, ChannelDocsOK, Listed

\* At most one thing is lost, and only while that may happen.
LEMMA SpendKeeps ==
  ASSUME faults \in Nat, NEW things, NEW lost \in Lost(things), Spend(lost)
  PROVE  faults' \in Nat
<1>1. CASE lost = {}
  <2>1. Cardinality(lost) = 0
    BY <1>1, FS_EmptySet
  <2> QED
    BY <2>1 DEF Spend
<1>2. CASE \E x : lost = {x} /\ faults > 0
  <2>1. Cardinality(lost) = 1
    BY <1>2, FS_Singleton
  <2> QED
    BY <1>2, <2>1 DEF Spend
<1> QED
  BY <1>1, <1>2 DEF Lost

LEMMA SpendOne ==
  ASSUME faults \in Nat, faults > 0, NEW x, Spend({x})
  PROVE  faults' \in Nat
<1>1. Cardinality({x}) = 1
  BY FS_Singleton
<1> QED
  BY <1>1 DEF Spend

----------------------------------------------------------------------------
(* The chains.                                                             *)

LEMMA ConfigSame ==
  ASSUME ConfigInv, UNCHANGED <<conf, configTask>>,
         \A e \in End : ends[e] # "none" => ends'[e] # "none"
  PROVE  ConfigInv'
<1>1. /\ UNCHANGED conf /\ UNCHANGED cfg /\ UNCHANGED cfgConf /\ UNCHANGED cfgLeft /\ UNCHANGED cfgSeen
      /\ UNCHANGED cfgList
  BY DEF configTask
<1>2. Listed' = Listed
  BY <1>1 DEF Listed
<1>3. ShownEnds \subseteq ShownEnds'
  BY <1>2 DEF ShownEnds, Shown
<1>4. ConfIn(conf', ShownEnds') /\ ConfIn(cfgConf', ShownEnds')
  BY <1>1, <1>3, ConfInMore DEF ConfigInv, ListedOnly
<1>5. ListedOnly'
  BY <1>1, <1>2, <1>4 DEF ConfigInv, ListedOnly
<1>6. AnswersInv'
  BY <1>1 DEF ConfigInv, AnswersInv
<1> QED
  BY <1>5, <1>6 DEF ConfigInv

LEMMA DocsLater ==
  ASSUME ChannelDocsOK, now \in Nat, now' \in Nat, now <= now',
         UNCHANGED <<chainDoc, channels, channelTask>>, Listed \subseteq Listed'
  PROVE  ChannelDocsOK'
<1>1. UNCHANGED chainDoc /\ UNCHANGED channels /\ UNCHANGED chan /\ UNCHANGED chanDocs
  BY DEF channelTask
<1>2. \A d : DocOK(d) => DocOK(d)'
  BY DEF DocOK, ChannelDoc, Time
<1> QED
  BY <1>1, <1>2 DEF ChannelDocsOK, DocsOK

LEMMA ChainsKeepChannels ==
  ASSUME ChannelsInv, (\E e \in End : Handshake(e) \/ Transfer(e)) \/ Tick
  PROVE  ChannelsInv' /\ UNCHANGED faults
<1>1. UNCHANGED <<conf, configTask>> /\ UNCHANGED <<chainDoc, channels, channelTask>> /\ UNCHANGED faults
  BY DEF Handshake, Move, Transfer, Tick
<1>2. ConfigOK'
  BY <1>1 DEF ChannelsInv, ConfigOK, InfoOK, configTask
<1>3. ends \in [End -> PathState] /\ now \in Nat /\ MaxTime \in Nat
  BY ChannelsAssumption DEF ChannelsInv, NetworkOK
<1>4. (\A e \in End : ends[e] # "none" => ends'[e] # "none") /\ NetworkOK' /\ now' \in Nat /\ now <= now'
  <2>1. CASE \E e \in End : Handshake(e)
    <3>1. PICK e \in End, to \in {"init", "tryopen", "open", "closed"} :
            /\ steps > 0 /\ steps' = steps - 1 /\ ends' = [ends EXCEPT ![e] = to]
            /\ confirmed' = [confirmed EXCEPT ![e] = confirmed'[e]] /\ confirmed'[e] \in {now, confirmed[e]}
            /\ UNCHANGED <<stat, now>>
      BY <2>1 DEF Handshake, Move, ChannelsInv, NetworkOK
    <3>2. ends' \in [End -> PathState] /\ \A x \in End : ends[x] # "none" => ends'[x] # "none"
      BY <1>3, <3>1 DEF PathState
    <3>3. now \in 0 .. now /\ confirmed \in [End -> 0 .. now]
      BY <1>3 DEF ChannelsInv, NetworkOK
    <3>4. confirmed'[e] \in 0 .. now
      BY <3>1, <3>3
    <3>5. confirmed' \in [End -> 0 .. now]
      BY <3>1, <3>3, <3>4
    <3>6. steps' \in Nat
      BY <3>1 DEF ChannelsInv, NetworkOK
    <3> QED
      BY <1>3, <3>1, <3>2, <3>5, <3>6 DEF ChannelsInv, NetworkOK
  <2>2. CASE \E e \in End : Transfer(e)
    <3>1. PICK e \in End : /\ stat' = [stat EXCEPT ![e] = @ + 1, ![Peer[e]] = @ + 1]
                           /\ UNCHANGED <<ends, confirmed, now, steps>>
      BY <2>2 DEF Transfer
    <3>3. stat \in [End -> Nat]
      BY DEF ChannelsInv, NetworkOK
    <3>4. DOMAIN stat' = End /\ stat' = [x \in End |-> stat'[x]]
      BY <3>1, <3>3
    <3>5. ASSUME NEW x \in End
          PROVE  stat'[x] \in Nat
      BY <3>1, <3>3, ChannelsAssumption
    <3>2. stat' \in [End -> Nat]
      BY <3>4, <3>5
    <3> QED
      BY <1>3, <3>1, <3>2 DEF ChannelsInv, NetworkOK
  <2>3. CASE Tick
    <3>1. now < MaxTime /\ now' = now + 1 /\ UNCHANGED <<ends, confirmed, stat, steps>>
      BY <2>3 DEF Tick
    <3>2. now' \in 1 .. MaxTime /\ 0 .. now \subseteq 0 .. now' /\ 1 .. now \subseteq 1 .. now'
      BY <1>3, <3>1
    <3>3. confirmed' \in [End -> 0 .. now'] /\ \A i \in DOMAIN OpenAt : OpenAt[i] \in 1 .. now'
      BY <3>1, <3>2 DEF ChannelsInv, NetworkOK
    <3> QED
      BY <1>3, <3>1, <3>2, <3>3 DEF ChannelsInv, NetworkOK
  <2> QED
    BY <2>1, <2>2, <2>3
<1>5. ConfigInv'
  BY <1>1, <1>4, ConfigSame DEF ChannelsInv
<1>6. ChannelDocsOK'
  <2>1. Listed' = Listed
    BY <1>1 DEF Listed
  <2> QED
    BY <1>1, <1>3, <1>4, <2>1, DocsLater DEF ChannelsInv
<1> QED
  BY <1>1, <1>2, <1>4, <1>5, <1>6 DEF ChannelsInv

----------------------------------------------------------------------------
(* The configuration.                                                      *)

LEMMA ListChainTyped ==
  ASSUME ConfigOK, NEW c \in Chain, ListChain(c)
  PROVE  ConfigOK'
<1>1. /\ conf' = [d \in Listed \cup {c} |-> IF d = c THEN NoInfo ELSE conf[d]]
      /\ UNCHANGED cfg /\ UNCHANGED cfgConf /\ UNCHANGED cfgSeen /\ UNCHANGED cfgList
  BY DEF ListChain, configTask
<1>2. InfoOK(conf')
  BY <1>1 DEF ConfigOK, InfoOK, Listed, NoInfo
<1> QED
  BY <1>1, <1>2 DEF ConfigOK

LEMMA ConfigStartTyped ==
  ASSUME ConfigOK, ConfigStart
  PROVE  ConfigOK'
<1>1. cfg' = "fetch" /\ cfgConf' = conf /\ cfgSeen' = {} /\ cfgList' = Nothing /\ UNCHANGED conf
  BY DEF ConfigStart
<1>2. InfoOK(Nothing)
  BY DEF InfoOK, Nothing
<1> QED
  BY <1>1, <1>2 DEF ConfigOK

LEMMA AnswerTyped ==
  ASSUME NetworkOK, ConfigInv, ConfigOK, NEW c \in DOMAIN cfgConf, NEW answered,
         NEW h \in {e[2] : e \in EndsOf(c)}
  PROVE  SetChainAndCounterpartyState(c, answered)[h] \in ChannelPath
<1> DEFINE e == <<c, h>>
           v == SetChainAndCounterpartyState(c, answered)[h]
<1>1. PICK x \in EndsOf(c) : h = x[2]
  OBVIOUS
<1>2. x \in End /\ x[1] = c /\ x \in Chain \X Hop
  BY <1>1, ChannelsAssumption DEF EndsOf
<1>3. x = e
  BY <1>1, <1>2
<1>4. e \in End /\ Peer[e] \in Chain \X Hop
  BY <1>2, <1>3, ChannelsAssumption
<1>5. ends[e] \in PathState /\ OtherHop(e) \in Hop \cup {NoHop}
  BY <1>4 DEF NetworkOK, OtherHop
<1>6. Existing(c, h) => cfgConf[c][h] \in ChannelPath
  BY DEF Existing, ConfigOK, InfoOK
<1>7. Complete(c, h) => cfgConf[c][h] \in ChannelPath
  BY <1>6 DEF Complete
<1>8. QueryClientState(e) \in Chain \cup {NoChain}
  BY <1>4 DEF QueryClientState
<1> DEFINE o == IF Existing(c, h) THEN cfgConf[c][h].otherState ELSE "none"
           b == Complete(c, h) \/ h \in answered
           d == IF Complete(c, h) THEN cfgConf[c][h].chain
                ELSE IF h \in answered THEN QueryClientState(e) ELSE NoChain
<1>9. v = [state |-> ends[e], other |-> OtherHop(e), otherState |-> o, client |-> b, chain |-> d]
  BY DEF SetChainAndCounterpartyState
<1>10. o \in PathState
  BY <1>6 DEF ChannelPath, PathState
<1>11. d \in Chain \cup {NoChain}
  BY <1>7, <1>8 DEF ChannelPath
<1>12. b \in BOOLEAN
  OBVIOUS
<1> HIDE DEF o, b, d, v, e
<1>13. v \in ChannelPath
  BY <1>5, <1>9, <1>10, <1>11, <1>12 DEF ChannelPath
<1> QED
  BY <1>13 DEF v

LEMMA FetchTyped ==
  ASSUME NetworkOK, ConfigInv, ConfigOK, faults \in Nat, NEW c \in Chain, Fetch(c)
  PROVE  ConfigOK' /\ faults' \in Nat
<1>1. c \in DOMAIN cfgConf /\ UNCHANGED cfg /\ UNCHANGED cfgConf /\ UNCHANGED conf
  BY DEF Fetch, ConfigInv, AnswersInv
<1> DEFINE answers == {[end |-> e, other |-> OtherHop(e), state |-> ends[e]] : e \in EndsOf(c)}
<1>2. CASE \E lost \in Lost({"answers"}) : \E answered :
             /\ cfgSeen' = cfgSeen \cup answers
             /\ cfgList' = [d \in DOMAIN cfgList \cup {c} |->
                             IF d = c THEN SetChainAndCounterpartyState(c, answered) ELSE cfgList[d]]
             /\ Spend(lost)
  <2>9. PICK lost \in Lost({"answers"}) : \E answered :
               /\ cfgSeen' = cfgSeen \cup answers
               /\ cfgList' = [d \in DOMAIN cfgList \cup {c} |->
                               IF d = c THEN SetChainAndCounterpartyState(c, answered) ELSE cfgList[d]]
               /\ Spend(lost)
    BY <1>2
  <2>1. PICK answered :
               /\ cfgSeen' = cfgSeen \cup answers
               /\ cfgList' = [d \in DOMAIN cfgList \cup {c} |->
                               IF d = c THEN SetChainAndCounterpartyState(c, answered) ELSE cfgList[d]]
               /\ Spend(lost)
    BY <2>9
  <2>2. faults' \in Nat
    BY <2>1, <2>9, SpendKeeps
  <2>3. \A e \in EndsOf(c) : e \in End /\ ends[e] \in PathState /\ OtherHop(e) \in Hop \cup {NoHop}
    BY ChannelsAssumption DEF EndsOf, OtherHop, NetworkOK
  <2>4. answers \subseteq [end : End, other : Hop \cup {NoHop}, state : PathState]
    BY <2>3
  <2> HIDE DEF answers
  <2>5. cfgSeen' \subseteq [end : End, other : Hop \cup {NoHop}, state : PathState]
    BY <2>1, <2>4 DEF ConfigOK
  <2>6. ASSUME NEW d \in DOMAIN cfgList', NEW h \in DOMAIN cfgList'[d]
        PROVE  cfgList'[d][h] \in ChannelPath
    <3>1. CASE d = c
      <4>1. cfgList'[d] = SetChainAndCounterpartyState(c, answered)
        BY <2>1, <3>1
      <4>2. h \in {e[2] : e \in EndsOf(c)}
        BY <2>6, <4>1 DEF SetChainAndCounterpartyState
      <4> QED
        BY <1>1, <4>1, <4>2, AnswerTyped
    <3>2. CASE d # c
      BY <2>1, <2>6, <3>2 DEF ConfigOK, InfoOK
    <3> QED
      BY <3>1, <3>2
  <2> QED
    BY <1>1, <2>2, <2>5, <2>6 DEF ConfigOK, InfoOK
<1>3. CASE faults > 0 /\ Spend({c}) /\ UNCHANGED <<cfgSeen, cfgList>>
  <2>1. faults' \in Nat
    BY <1>3, SpendOne
  <2> QED
    BY <1>1, <1>3, <2>1 DEF ConfigOK
<1> QED
  BY <1>2, <1>3 DEF Fetch

LEMMA ConfigMatchTyped ==
  ASSUME ConfigOK, ConfigMatch
  PROVE  ConfigOK'
<1>1. /\ cfg' = "write" /\ cfgList' = [c \in DOMAIN cfgList |-> SetCounterpartyState(c)]
      /\ UNCHANGED cfgConf /\ UNCHANGED cfgSeen /\ UNCHANGED conf
  BY DEF ConfigMatch
<1>2. ASSUME NEW c \in DOMAIN cfgList, NEW h \in DOMAIN SetCounterpartyState(c)
      PROVE  SetCounterpartyState(c)[h] \in ChannelPath
  <2> DEFINE v == cfgList[c][h]
             found == {s \in cfgSeen : s.end = <<v.chain, v.other>> /\ s.other = h}
             state == (CHOOSE s \in found : TRUE).state
  <2>1. h \in DOMAIN cfgList[c]
    BY <1>2 DEF SetCounterpartyState
  <2>2. v \in ChannelPath
    BY <2>1 DEF ConfigOK, InfoOK
  <2>3. SetCounterpartyState(c)[h] = IF found = {} THEN v ELSE [v EXCEPT !.otherState = state]
    BY <2>1 DEF SetCounterpartyState
  <2>4. found # {} => state \in PathState
    BY DEF ConfigOK
  <2> HIDE DEF v, found, state
  <2>5. found # {} => [v EXCEPT !.otherState = state] \in ChannelPath
    BY <2>2, <2>4 DEF ChannelPath
  <2> QED
    BY <2>2, <2>3, <2>5
<1> QED
  BY <1>1, <1>2 DEF ConfigOK, InfoOK

LEMMA UpdateChainTyped ==
  ASSUME ConfigInv, ConfigOK, faults \in Nat, NEW c \in Chain, UpdateChain(c)
  PROVE  ConfigOK' /\ faults' \in Nat
<1> DEFINE kept == {h \in DOMAIN cfgList[c] : cfgList[c][h].chain \in DOMAIN cfgConf}
           info == [h \in kept |-> cfgList[c][h]]
<1>1. conf' = conf \/ conf' = [conf EXCEPT ![c] = info]
  BY DEF UpdateChain, UpdateIbcInfo
<1>6. \E lost \in Lost({c}) : Spend(lost)
  BY DEF UpdateChain
<1>2. /\ UNCHANGED cfg /\ UNCHANGED cfgConf /\ UNCHANGED cfgSeen /\ UNCHANGED cfgList
      /\ c \in DOMAIN cfgList
  BY DEF UpdateChain, ConfigInv, AnswersInv
<1>3. \A h \in DOMAIN info : info[h] \in ChannelPath
  BY <1>2 DEF ConfigOK, InfoOK
<1> HIDE DEF info
<1>4. InfoOK(conf')
  <2> SUFFICES ASSUME NEW d \in DOMAIN conf', NEW h \in DOMAIN conf'[d]
               PROVE  conf'[d][h] \in ChannelPath
    BY DEF InfoOK
  <2>1. CASE conf' = conf
    BY <2>1 DEF ConfigOK, InfoOK
  <2>2. CASE conf' = [conf EXCEPT ![c] = info]
    <3>1. d \in DOMAIN conf /\ conf'[d] = IF d = c THEN info ELSE conf[d]
      BY <2>2
    <3> QED
      BY <1>3, <3>1 DEF ConfigOK, InfoOK
  <2> QED
    BY <1>1, <2>1, <2>2
<1>5. faults' \in Nat
  BY <1>6, SpendKeeps
<1> QED
  BY <1>2, <1>4, <1>5 DEF ConfigOK

LEMMA ConfigDoneTyped ==
  ASSUME ConfigOK, ConfigDone
  PROVE  ConfigOK'
<1>1. cfg' = "idle" /\ cfgConf' = Nothing /\ cfgSeen' = {} /\ cfgList' = Nothing /\ UNCHANGED conf
  BY DEF ConfigDone
<1>2. InfoOK(Nothing)
  BY DEF InfoOK, Nothing
<1> QED
  BY <1>1, <1>2 DEF ConfigOK

LEMMA ConfigRunsTyped ==
  ASSUME ChannelsInv, faults \in Nat, ConfigRuns
  PROVE  ChannelsInv' /\ faults' \in Nat
<1>1. ConfigInv'
  BY ConfigKeeps DEF ChannelsInv
<1>2. /\ UNCHANGED <<ends, confirmed, stat, now, steps>> /\ UNCHANGED <<chainDoc, channels, channelTask>>
  BY DEF ConfigRuns, ConfigTask, ListChain, ConfigStart, Fetch, ConfigMatch, UpdateChain, ConfigDone, network
<1>3. ConfigOK' /\ faults' \in Nat
  <2>1. CASE \E c \in Chain : ListChain(c)
    <3>1. UNCHANGED faults
      BY <2>1 DEF ListChain
    <3> QED
      BY <2>1, <3>1, ListChainTyped DEF ChannelsInv
  <2>2. CASE ConfigStart
    BY <2>2, ConfigStartTyped DEF ChannelsInv, ConfigStart
  <2>3. CASE \E c \in Chain : Fetch(c)
    BY <2>3, FetchTyped DEF ChannelsInv
  <2>4. CASE \E c \in Chain : UpdateChain(c)
    BY <2>4, UpdateChainTyped DEF ChannelsInv
  <2>5. CASE ConfigMatch
    BY <2>5, ConfigMatchTyped DEF ChannelsInv, ConfigMatch
  <2>6. CASE ConfigDone
    BY <2>6, ConfigDoneTyped DEF ChannelsInv, ConfigDone
  <2> QED
    BY <2>1, <2>2, <2>3, <2>4, <2>5, <2>6 DEF ConfigRuns, ConfigTask
<1>4. NetworkOK'
  BY <1>2 DEF ChannelsInv, NetworkOK
<1>5. ChannelDocsOK'
  <2>1. now \in Nat /\ now' = now /\ now <= now'
    BY <1>2, ChannelsAssumption DEF ChannelsInv, NetworkOK
  <2>2. Listed \subseteq Listed'
    BY DEF Listed, ConfigRuns, ConfigTask, ListChain, ConfigStart, Fetch, ConfigMatch, UpdateChain, ConfigDone,
           UpdateIbcInfo
  <2> QED
    BY <1>2, <2>1, <2>2, DocsLater DEF ChannelsInv
<1> QED
  BY <1>1, <1>3, <1>4, <1>5 DEF ChannelsInv

----------------------------------------------------------------------------
(* ibc_chain_task.                                                         *)

LEMMA ImageFinite ==
  ASSUME NEW f, IsFiniteSet(DOMAIN f)
  PROVE  IsFiniteSet({f[x] : x \in DOMAIN f})
<1> DEFINE T == {f[x] : x \in DOMAIN f}
           g == [x \in DOMAIN f |-> f[x]]
<1>1. g \in Surjection(DOMAIN f, T)
  BY DEF Surjection
<1> HIDE DEF T, g
<1>2. IsFiniteSet(T)
  BY <1>1, FS_Surjection
<1> QED
  BY <1>2 DEF T

LEMMA ConfFinite ==
  ASSUME ConfigInv, NEW c \in Listed
  PROVE  /\ IsFiniteSet(DOMAIN conf[c]) /\ \A h \in DOMAIN conf[c] : <<c, h>> \in End
         /\ IsFiniteSet({conf[c][h].chain : h \in DOMAIN conf[c]})
<1> DEFINE f == [e \in EndsAt(c) |-> e[2]]
           g == [h \in DOMAIN conf[c] |-> conf[c][h].chain]
<1>1. \A h \in DOMAIN conf[c] : <<c, h>> \in End
  BY DEF ConfigInv, ListedOnly, ConfIn, ShownEnds, Listed
<1>2. IsFiniteSet({f[e] : e \in DOMAIN f})
  <2>1. IsFiniteSet(DOMAIN f)
    BY EndsFinite
  <2> HIDE DEF f
  <2> QED
    BY <2>1, ImageFinite
<1>3. DOMAIN conf[c] \subseteq {f[e] : e \in DOMAIN f}
  <2> SUFFICES ASSUME NEW h \in DOMAIN conf[c]
               PROVE  h \in {f[e] : e \in DOMAIN f}
    OBVIOUS
  <2>1. <<c, h>> \in DOMAIN f /\ f[<<c, h>>] = h
    BY <1>1 DEF EndsAt
  <2> QED
    BY <2>1
<1>4. IsFiniteSet(DOMAIN conf[c])
  BY <1>2, <1>3, FS_Subset
<1>5. IsFiniteSet({g[h] : h \in DOMAIN g})
  <2>1. IsFiniteSet(DOMAIN g)
    BY <1>4
  <2> HIDE DEF g
  <2> QED
    BY <2>1, ImageFinite
<1>6. {g[h] : h \in DOMAIN g} = {conf[c][h].chain : h \in DOMAIN conf[c]}
  OBVIOUS
<1> QED
  BY <1>1, <1>4, <1>5, <1>6

LEMMA ChainTaskTyped ==
  ASSUME ChannelsInv, faults \in Nat, ChainTask
  PROVE  ChannelsInv' /\ faults' \in Nat
<1>1. PICK lost \in Lost(Listed) :
        /\ chainDoc' = [c \in DOMAIN chainDoc \cup (Listed \ lost) |->
                          IF c \in lost THEN chainDoc[c] ELSE InserOrUpdate(c)]
        /\ Spend(lost)
  BY DEF ChainTask
<1>2. UNCHANGED <<conf, configTask>> /\ UNCHANGED <<ends, confirmed, stat, now, steps>>
      /\ UNCHANGED channels /\ UNCHANGED chan /\ UNCHANGED chanDocs
  BY DEF ChainTask, network, channelTask
<1>3. faults' \in Nat
  BY <1>1, SpendKeeps
<1>4. Listed' = Listed
  BY <1>2 DEF Listed
<1>5. ASSUME NEW c \in Listed
      PROVE  InserOrUpdate(c) \in ChainDoc
  <2>1. CreateChainData(c) \in ChainDoc
    BY ConfFinite, FS_CardinalityType DEF CreateChainData, ChainDoc, ChannelsInv
  <2> HIDE DEF CreateChainData
  <2>2. c \in DOMAIN chainDoc => chainDoc[c] \in ChainDoc
    BY DEF ChannelsInv, ChannelDocsOK
  <2> QED
    BY <2>1, <2>2 DEF InserOrUpdate, ChainDoc
<1>6. DOMAIN chainDoc \subseteq Listed /\ \A c \in DOMAIN chainDoc : chainDoc[c] \in ChainDoc
  BY DEF ChannelsInv, ChannelDocsOK
<1>7. DOMAIN chainDoc' \subseteq Listed /\ \A c \in DOMAIN chainDoc' : chainDoc'[c] \in ChainDoc
  BY <1>1, <1>5, <1>6
<1>8. ConfigInv'
  BY <1>2, ConfigSame DEF ChannelsInv
<1>9. ConfigOK'
  BY <1>2 DEF ChannelsInv, ConfigOK, InfoOK, configTask
<1>10. ChannelDocsOK'
  BY <1>2, <1>4, <1>7 DEF ChannelsInv, ChannelDocsOK, DocsOK, DocOK
<1>11. NetworkOK'
  BY <1>2 DEF ChannelsInv, NetworkOK
<1> QED
  BY <1>3, <1>8, <1>9, <1>10, <1>11 DEF ChannelsInv

----------------------------------------------------------------------------
(* ibc_channel_task.                                                       *)

LEMMA IdTyped ==
  ASSUME ConfigInv, NEW c \in Listed, NEW h \in DOMAIN conf[c]
  PROVE  IdAt(c, h) \in ChannelId
<1> DEFINE E == Chain \X (Hop \cup {NoHop})
           a == <<c, h>>
           b == <<conf[c][h].chain, conf[c][h].other>>
<1>1. a \in End /\ conf[c][h].chain = Peer[a][1] /\ conf[c][h].other \in {NoHop, Peer[a][2]}
  BY DEF ConfigInv, ListedOnly, ConfIn, ShownEnds, Listed
<1>2. a \in Chain \X Hop /\ Peer[a] \in Chain \X Hop
  BY <1>1, ChannelsAssumption
<1>3. a \in E /\ b \in E
  BY <1>1, <1>2
<1> HIDE DEF a, b, E
<1>4. GenerateChannelId(a, b) \in {<<a, b>>, <<b, a>>}
  BY DEF GenerateChannelId
<1>5. GenerateChannelId(a, b) \in E \X E
  BY <1>3, <1>4
<1> QED
  BY <1>5 DEF IdAt, a, b, E, ChannelId

LEMMA IdsTyped ==
  ASSUME ConfigInv
  PROVE  AllChannelIds \subseteq ChannelId /\ IsFiniteSet(AllChannelIds)
<1>1. AllChannelIds \subseteq ChannelId
  BY IdTyped DEF AllChannelIds
<1> DEFINE f == [e \in End |-> IdAt(e[1], e[2])]
<1>2. AllChannelIds \subseteq {f[e] : e \in DOMAIN f}
  <2> SUFFICES ASSUME NEW c \in Listed, NEW h \in DOMAIN conf[c]
               PROVE  IdAt(c, h) \in {f[e] : e \in DOMAIN f}
    BY DEF AllChannelIds
  <2>1. <<c, h>> \in End
    BY ConfFinite
  <2>2. <<c, h>>[1] = c /\ <<c, h>>[2] = h
    OBVIOUS
  <2>3. f[<<c, h>>] = IdAt(c, h) /\ <<c, h>> \in DOMAIN f
    BY <2>1, <2>2
  <2> QED
    BY <2>3
<1>3. IsFiniteSet(DOMAIN f)
  BY AmountsAssumption
<1> HIDE DEF f
<1>4. IsFiniteSet({f[e] : e \in DOMAIN f})
  BY <1>3, ImageFinite
<1> QED
  BY <1>1, <1>2, <1>4, FS_Subset

LEMMA OpenTimeTyped ==
  ASSUME NetworkOK, DocsOK(channels), NEW id, NEW status
  PROVE  LatestOpenTime(id, status) \in 0 .. now
<1> DEFINE confirm == QueryChannelOpenConfirmTime(id)
           found == Find(id)
           settled0 == IF found # {} THEN found ELSE confirm
           First(times, otherwise) == IF times = {} THEN otherwise ELSE CHOOSE x \in times : TRUE
           doc == channels[id]
           open == IF doc.open = 0 /\ doc.status = "opened" THEN First(settled0, 0) ELSE doc.open
<1>1. now \in Nat
  BY DEF NetworkOK
<1>2. confirm \subseteq 0 .. now
  BY DEF QueryChannelOpenConfirmTime, GetChannelOpenConfirmTime, NetworkOK
<1>3. found \subseteq 0 .. now
  <2>1. 1 .. now \subseteq 0 .. now
    BY <1>1
  <2> QED
    BY <2>1 DEF Find, NetworkOK
<1>4. LatestOpenTime(id, status) =
        IF id \notin DOMAIN channels THEN First(settled0, 0)
        ELSE IF doc.status = "closed" /\ status = "opened" THEN First(confirm, open) ELSE open
  BY DEF LatestOpenTime
<1> HIDE DEF confirm, found
<1>5. settled0 \subseteq 0 .. now
  BY <1>2, <1>3
<1> HIDE DEF settled0
<1>6. \A T, x : T \subseteq 0 .. now /\ x \in 0 .. now => First(T, x) \in 0 .. now
  OBVIOUS
<1>7. 0 \in 0 .. now
  BY <1>1
<1>8. First(settled0, 0) \in 0 .. now
  BY <1>5, <1>6, <1>7
<1>9. CASE id \notin DOMAIN channels
  BY <1>4, <1>8, <1>9
<1>10. CASE id \in DOMAIN channels
  <2>1. doc \in ChannelDoc /\ doc.open <= now
    BY <1>10 DEF DocsOK, DocOK
  <2>2. doc.open \in 0 .. now
    BY <1>1, <2>1, ChannelsAssumption DEF ChannelDoc, Time
  <2> HIDE DEF doc, First
  <2>3. open \in 0 .. now
    BY <1>8, <2>2
  <2> HIDE DEF open
  <2>4. First(confirm, open) \in 0 .. now
    BY <1>2, <1>6, <2>3
  <2> QED
    BY <1>4, <1>10, <2>3, <2>4
<1> QED
  BY <1>9, <1>10

LEMMA StatusTyped ==
  ASSUME NetworkOK, DocsOK(channels), NEW id, NEW status \in {"opened", "closed"}
  PROVE  DocOK(WithStatus(id, status))
<1> DEFINE doc == IF id \in DOMAIN channels THEN channels[id] ELSE NewDoc
           open == LatestOpenTime(id, status)
           works == open # 0 /\ ~(doc.status = "closed" /\ status = "closed")
           new == [doc EXCEPT !.open = open, !.status = status, !.period = IF works THEN now - open ELSE @]
<1>1. open \in 0 .. now /\ now \in 1 .. MaxTime /\ MaxTime \in Nat
  BY OpenTimeTyped, ChannelsAssumption DEF NetworkOK
<1>2. doc \in ChannelDoc
  <2>1. NewDoc \in ChannelDoc
    BY <1>1 DEF NewDoc, ChannelDoc, Time
  <2>2. id \in DOMAIN channels => channels[id] \in ChannelDoc
    BY DEF DocsOK, DocOK
  <2> QED
    BY <2>1, <2>2
<1>3. WithStatus(id, status) = new
  BY DEF WithStatus
<1> HIDE DEF doc, open, works
<1>4. open \in Time /\ now - open \in Time
  BY <1>1 DEF Time
<1>5. new \in ChannelDoc /\ new.open = open
  BY <1>2, <1>4 DEF ChannelDoc
<1> QED
  BY <1>1, <1>3, <1>5 DEF DocOK

LEMMA AnalyzeTyped ==
  ASSUME ChannelsInv, AnalyzeChannels
  PROVE  ChannelDocsOK' /\ UNCHANGED faults
<1>1. PICK first : chanDocs' = [id \in AllChannelIds |-> WithStatus(id, StatusAt(first[id]))]
  BY DEF AnalyzeChannels
<1>2. chan' = "write" /\ UNCHANGED channels /\ UNCHANGED chainDoc /\ UNCHANGED conf /\ UNCHANGED now
      /\ UNCHANGED faults
  BY DEF AnalyzeChannels, network
<1>3. Listed' = Listed /\ DocsOK(channels)'
  BY <1>2 DEF Listed, ChannelsInv, ChannelDocsOK, DocsOK, DocOK
<1>4. \A id : DocOK(WithStatus(id, StatusAt(first[id])))
  BY StatusTyped DEF StatusAt, ChannelsInv, ChannelDocsOK
<1>5. \A d : DocOK(d) => DocOK(d)'
  BY <1>2 DEF DocOK
<1>6. \A i \in DOMAIN chanDocs' : DocOK(chanDocs[i])'
  BY <1>1, <1>4, <1>5
<1>7. DOMAIN chanDocs' \subseteq ChannelId /\ IsFiniteSet(DOMAIN chanDocs')
  BY <1>1, IdsTyped DEF ChannelsInv
<1> QED
  BY <1>2, <1>3, <1>6, <1>7 DEF ChannelsInv, ChannelDocsOK, DocsOK

LEMMA TxsTyped ==
  ASSUME NetworkOK, IsFiniteSet(DOMAIN chanDocs)
  PROVE  /\ \A id : TransferTxs(id) \in Nat
         /\ \A c : ChainTxs(c) \in Nat
         /\ \A id, lost : PendingTxs(id, lost) \in Nat
<1>1. \A id : TransferTxs(id) \in Nat
  BY DEF TransferTxs, NetworkOK
<1>2. ASSUME NEW c
      PROVE  ChainTxs(c) \in Nat
  <2> DEFINE D == {i \in DOMAIN chanDocs : c \in {i[1][1], i[2][1]}}
             f == [id \in D |-> TransferTxs(id)]
  <2>1. IsFiniteSet(D)
    BY FS_Subset
  <2>2. IsFiniteSet(DOMAIN f) /\ \A x \in DOMAIN f : f[x] \in Nat
    BY <1>1, <2>1
  <2> HIDE DEF f
  <2>3. SumOf(f) \in Nat
    BY <2>2, SumNat
  <2> QED
    BY <2>3 DEF ChainTxs, f
<1>3. ASSUME NEW id, NEW lost
      PROVE  PendingTxs(id, lost) \in Nat
  <2> DEFINE D == {e \in {id[1], id[2]} \cap End : e[1] \in Listed /\ <<"node", e>> \notin lost}
             f == [e \in D |-> Commits[e]]
  <2>1. IsFiniteSet(D)
    BY AmountsAssumption, FS_Subset
  <2>2. IsFiniteSet(DOMAIN f) /\ \A x \in DOMAIN f : f[x] \in Nat
    BY <2>1, ChannelsAssumption
  <2> HIDE DEF f
  <2>3. SumOf(f) \in Nat
    BY <2>2, SumNat
  <2> QED
    BY <2>3 DEF PendingTxs, f
<1> QED
  BY <1>1, <1>2, <1>3

LEMMA WriteChannelsTyped ==
  ASSUME ChannelsInv, faults \in Nat, WriteChannels
  PROVE  ChannelDocsOK' /\ faults' \in Nat
<1> DEFINE known == DOMAIN channels \cap DOMAIN chanDocs
           things == {<<"run", NoHop>>} \cup ({"insert", "delete"} \X {NoHop}) \cup ({"update"} \X known)
                       \cup ({"node"} \X End) \cup ({"chain"} \X DOMAIN chainDoc)
<1>1. PICK lost \in Lost(things) :
        /\ \/ channels' = channels /\ chainDoc' = chainDoc
           \/ /\ channels' = [id \in InsertChannels(lost) \cup DeleteByChannelIds(lost) |-> UpdateChannel(id, lost)]
              /\ chainDoc' = [c \in DOMAIN chainDoc |-> UpdateTransferTxs(c, lost)]
        /\ Spend(lost)
  BY DEF WriteChannels
<1>2. /\ chan' = "idle" /\ DOMAIN chanDocs' = {} /\ UNCHANGED conf /\ UNCHANGED now
  BY DEF WriteChannels, network
<1>3. Listed' = Listed /\ IsFiniteSet(DOMAIN chanDocs') /\ faults' \in Nat
  BY <1>1, <1>2, FS_EmptySet, SpendKeeps DEF Listed
<1>4. DocsOK(channels) /\ DocsOK(chanDocs) /\ IsFiniteSet(DOMAIN chanDocs) /\ NetworkOK
  BY DEF ChannelsInv, ChannelDocsOK
<1>5. \A d : DocOK(d) => DocOK(d)'
  BY <1>2 DEF DocOK
<1>6. \A id : <<"update", id>> \in lost => id \in known
  BY <1>1 DEF Lost
<1>7. ASSUME NEW id \in InsertChannels(lost) \cup DeleteByChannelIds(lost)
      PROVE  id \in ChannelId /\ DocOK(UpdateChannel(id, lost))
  <2>1. id \in DOMAIN channels \cup DOMAIN chanDocs
    BY DEF InsertChannels, DeleteByChannelIds
  <2>2. CASE id \notin DOMAIN chanDocs \/ <<"update", id>> \in lost
    <3>1. id \in DOMAIN channels
      BY <1>6, <2>1, <2>2
    <3> QED
      BY <1>4, <2>2, <3>1 DEF UpdateChannel, DocsOK
  <2>3. CASE ~(id \notin DOMAIN chanDocs \/ <<"update", id>> \in lost)
    <3> DEFINE d == chanDocs[id]
               n == TransferTxs(id)
               p == PendingTxs(id, lost)
               new == [d EXCEPT !.txs = n, !.pending = p]
    <3>1. DocOK(d) /\ id \in ChannelId
      BY <1>4, <2>3 DEF DocsOK
    <3>2. n \in Nat /\ p \in Nat
      BY <1>4, TxsTyped
    <3>3. UpdateChannel(id, lost) = new
      BY <2>3 DEF UpdateChannel
    <3> HIDE DEF d, n, p
    <3>4. new \in ChannelDoc /\ new.open = d.open
      BY <3>1, <3>2 DEF ChannelDoc, DocOK
    <3> QED
      BY <3>1, <3>3, <3>4 DEF DocOK
  <2> QED
    BY <1>4, <2>2, <2>3, <2>1 DEF DocsOK
<1>8. DocsOK(channels)'
  <2>1. CASE channels' = channels
    BY <1>4, <1>5, <2>1 DEF DocsOK
  <2>2. CASE channels' = [id \in InsertChannels(lost) \cup DeleteByChannelIds(lost) |-> UpdateChannel(id, lost)]
    BY <1>5, <1>7, <2>2 DEF DocsOK
  <2> QED
    BY <1>1, <2>1, <2>2
<1>9. ASSUME NEW c \in DOMAIN chainDoc
      PROVE  UpdateTransferTxs(c, lost) \in ChainDoc
  <2> DEFINE n == ChainTxs(c)
             d == chainDoc[c]
  <2>1. n \in Nat /\ d \in ChainDoc
    BY <1>4, TxsTyped DEF ChannelsInv, ChannelDocsOK
  <2>2. UpdateTransferTxs(c, lost) \in {[d EXCEPT !.txs = n], d}
    BY DEF UpdateTransferTxs
  <2> HIDE DEF n, d
  <2> QED
    BY <2>1, <2>2 DEF ChainDoc
<1>10. DOMAIN chainDoc' = DOMAIN chainDoc /\ \A c \in DOMAIN chainDoc' : chainDoc'[c] \in ChainDoc
  BY <1>1, <1>9 DEF ChannelsInv, ChannelDocsOK
<1>11. DocsOK(chanDocs)'
  BY <1>2 DEF DocsOK
<1> QED
  BY <1>2, <1>3, <1>8, <1>10, <1>11 DEF ChannelsInv, ChannelDocsOK

LEMMA ChannelTaskTyped ==
  ASSUME ChannelsInv, faults \in Nat, ChannelTask
  PROVE  ChannelsInv' /\ faults' \in Nat
<1>1. UNCHANGED <<conf, configTask>> /\ UNCHANGED <<ends, confirmed, stat, now, steps>>
  BY DEF ChannelTask, AnalyzeChannels, WriteChannels, network
<1>2. ConfigInv'
  BY <1>1, ConfigSame DEF ChannelsInv
<1>3. ConfigOK'
  BY <1>1 DEF ChannelsInv, ConfigOK, InfoOK, configTask
<1>4. NetworkOK'
  BY <1>1 DEF ChannelsInv, NetworkOK
<1>5. ChannelDocsOK' /\ faults' \in Nat
  BY AnalyzeTyped, WriteChannelsTyped DEF ChannelTask
<1> QED
  BY <1>2, <1>3, <1>4, <1>5 DEF ChannelsInv

----------------------------------------------------------------------------
(* Shapes: the denoms.                                                     *)

\* What DenomsInv leaves open: denoms are found by their names.
NamesOK ==
  /\ \A k \in DOMAIN denoms : denoms[k].chain = k.chain /\ denoms[k].denom = k.denom
  /\ sync.chain \in Chain \cup {NoChain} /\ relate.chain \in Chain \cup {NoChain}
  /\ add.at \in {"idle", "run"} /\ skipped \subseteq Key

LEMMA KeyTyped ==
  ASSUME NEW t, FollowsPath(t)
  PROVE  TokenKey(t) \in Key /\ TokenKey(t).chain = Head(t.via) /\ TokenKey(t).denom = t.path
<1>1. Head(t.via) \in Chain /\ t.path \in Denom
  <2>1. At(t, 1) = <<Head(t.via), t.path>> /\ 1 \in 1 .. Len(t.via)
    BY FirstStation
  <2> QED
    BY <2>1, AtShape, TokenShape
<1> QED
  BY <1>1 DEF TokenKey, KeyOf, Key

LEMMA DenomsTyped ==
  ASSUME DenomsInv, NamesOK
  PROVE  DenomsTypeOK
<1>1. \A t \in tokens : t.path \in Denom /\ t.via \in Seq(Chain)
  BY TokenShape DEF DenomsInv, TokensInv
<1>2. \A i \in Send : sends[i] # NoSend => sends[i].token \in tokens /\ sends[i].from \in End
  BY DEF DenomsInv, SendsInv
<1>3. \A k \in DOMAIN denoms : k \in Key
  BY KeyTyped DEF DenomsInv, DocsInv, TokensInv
<1>4. ASSUME NEW i \in Send, txs[i] # NoTx
      PROVE  /\ txs[i].status \in {"setting", "processing", "success"}
             /\ txs[i].base \in Denom /\ txs[i].baseChain \in Chain
  <2>1. /\ txs[i] \in TxDoc /\ txs[i].status # "none" /\ sends[i] # NoSend
        /\ OnWay(sends[i].token, TxBase(txs[i]), ShownEnds)
    BY <1>4 DEF DenomsInv, TxsInv
  <2>2. FollowsPath(sends[i].token)
    BY <1>2, <2>1 DEF DenomsInv, TokensInv
  <2>3. PICK n \in 1 .. Len(sends[i].token.via) : TxBase(txs[i]) = At(sends[i].token, n)
    BY <2>1 DEF OnWay
  <2>4. TxBase(txs[i]) \in Chain \X Denom
    BY <2>2, <2>3, AtShape
  <2> QED
    BY <2>1, <2>4 DEF TxBase, TxDoc
<1>5. DOMAIN add.list \subseteq Key /\ settled \subseteq Key
  BY <1>3 DEF DenomsInv, ListInv, SettledInv
<1> QED
  BY <1>1, <1>2, <1>3, <1>4, <1>5 DEF DenomsTypeOK, NamesOK

\* A denom is registered under its name.
LEMMA TracedName ==
  ASSUME NEW t, FollowsPath(t), NEW cf
  PROVE  LET d == TraceDenom(t.path, Head(t.via), cf) IN d.chain = Head(t.via) /\ d.denom = t.path
<1>1. CalculateIBCHash([t.path EXCEPT !.hops = SubSeq(@, 1, Len(@))]) = t.path
  BY FirstStation DEF CalculateIBCHash, StationDenom
<1> DEFINE c == Head(t.via)
           p == t.path
           first == CalculateIBCHash([p EXCEPT !.hops = SubSeq(@, 1, Len(@))])
<1>2. TraceDenom(p, c, cf).chain = c /\ TraceDenom(p, c, cf).denom = first
  BY DEF TraceDenom, IBCDenom
<1> QED
  BY <1>1, <1>2

LEMMA SyncWriteNames ==
  ASSUME DenomsInv, NamesOK, SyncWrite
  PROVE  NamesOK'
<1> DEFINE mine == {i \in Send : sends[i] # NoSend /\ txs[i] = NoTx /\ sends[i].from[1] = sync.chain}
           found == {TokenKey(sends[i].token) : i \in {j \in mine : Destined(sends[j])}} \ DOMAIN sync.known
           new == [k \in found |-> TraceDenom(k.denom, k.chain, sync.conf)]
<1>1. denoms' = InsertBatch(new) /\ sync' = NoSync /\ UNCHANGED relate /\ UNCHANGED add /\ UNCHANGED skipped
  BY DEF SyncWrite
<1>2. ASSUME NEW k \in found
      PROVE  new[k].chain = k.chain /\ new[k].denom = k.denom
  <2>1. PICK i \in mine : k = TokenKey(sends[i].token)
    OBVIOUS
  <2>2. FollowsPath(sends[i].token)
    BY <2>1 DEF DenomsInv, SendsInv, TokensInv
  <2>3. k.chain = Head(sends[i].token.via) /\ k.denom = sends[i].token.path
    BY <2>1, <2>2, KeyTyped
  <2>4. new[k] = TraceDenom(k.denom, k.chain, sync.conf)
    OBVIOUS
  <2> HIDE DEF new, found, mine
  <2> QED
    BY <2>2, <2>3, <2>4, TracedName
<1>3. DOMAIN new = found
  OBVIOUS
<1> HIDE DEF new, found
<1>4. \A k \in DOMAIN denoms' : denoms'[k].chain = k.chain /\ denoms'[k].denom = k.denom
  BY <1>1, <1>2, <1>3 DEF InsertBatch, NamesOK
<1> QED
  BY <1>1, <1>4 DEF NamesOK, NoSync

LEMMA RelateWriteNames ==
  ASSUME DenomsInv, NamesOK, RelateWrite
  PROVE  NamesOK'
<1> DEFINE arrived == {i \in DOMAIN relate.txs : Lands(i)}
           Key1(i) == KeyOf(Received(i).chain, Received(i).denom)
           fresh == {i \in arrived : /\ Received(i).denom \notin relate.known
                                     /\ \A j \in arrived : j < i => Received(j).denom # Received(i).denom}
           new == [k \in {Key1(i) : i \in fresh} |-> Received(CHOOSE i \in fresh : Key1(i) = k)]
<1>1. /\ denoms' = denoms \/ denoms' = InsertBatch(new)
      /\ skipped' \subseteq skipped \cup {Key1(i) : i \in arrived}
  <2>1. PICK lost \in Lost({"insert"}) :
          /\ denoms' = IF lost # {} THEN denoms ELSE InsertBatch(new)
          /\ skipped' = skipped \cup {Key1(i) : i \in IF lost # {} THEN arrived ELSE arrived \ fresh}
    BY DEF RelateWrite
  <2> HIDE DEF new, fresh, arrived
  <2> QED
    BY <2>1
<1>2. relate' = NoRelate /\ UNCHANGED sync /\ UNCHANGED add
  BY DEF RelateWrite
<1>3. ASSUME NEW i \in arrived
      PROVE  Key1(i) \in Key
  BY ReceivedIsDoc, KeyTyped DEF DenomsInv, TokensInv
<1>4. ASSUME NEW k \in DOMAIN new
      PROVE  new[k].chain = k.chain /\ new[k].denom = k.denom
  <2> DEFINE i == CHOOSE j \in fresh : Key1(j) = k
  <2>1. i \in fresh /\ Key1(i) = k
    OBVIOUS
  <2>2. new[k] = Received(i)
    OBVIOUS
  <2>3. k.chain = Received(i).chain /\ k.denom = Received(i).denom
    <3> HIDE DEF i, new, fresh, arrived
    <3> QED
      BY <2>1 DEF KeyOf
  <2> HIDE DEF i, new, fresh, arrived, Key1
  <2> QED
    BY <2>2, <2>3
<1> HIDE DEF new, arrived
<1>5. \A k \in DOMAIN denoms' : denoms'[k].chain = k.chain /\ denoms'[k].denom = k.denom
  BY <1>1, <1>4 DEF InsertBatch, NamesOK
<1>6. skipped' \subseteq Key
  BY <1>1, <1>3 DEF NamesOK
<1> QED
  BY <1>2, <1>5, <1>6 DEF NamesOK, NoRelate

LEMMA AddUpdateDenomNames ==
  ASSUME DenomsInv, NamesOK, AddUpdateDenom
  PROVE  NamesOK'
<1> DEFINE k == CHOOSE d \in DOMAIN add.list : TRUE
           new == TraceDenom(k.denom, k.chain, add.conf)
<1>1. denoms' = denoms \/ denoms' = UpdateDenom(k, new)
  BY DEF AddUpdateDenom
<1>2. add'.at = add.at /\ UNCHANGED sync /\ UNCHANGED relate /\ UNCHANGED skipped
  BY DEF AddUpdateDenom, DenomsInv, AddInv
<1> HIDE DEF k, new
<1>3. \A x \in DOMAIN denoms : denoms[x] \in DenomDoc
  BY DEF DenomsInv, DocsInv, DocOf
<1>4. \A x \in DOMAIN denoms : UpdateDenom(k, new)[x].chain = denoms[x].chain
                             /\ UpdateDenom(k, new)[x].denom = denoms[x].denom
  BY <1>3 DEF UpdateDenom, DenomDoc
<1>5. DOMAIN UpdateDenom(k, new) = DOMAIN denoms
  BY DEF UpdateDenom
<1> QED
  BY <1>1, <1>2, <1>4, <1>5 DEF NamesOK

LEMMA DenomTasksTyped ==
  ASSUME DenomsInv, NamesOK, faults \in Nat, DenomTasks
  PROVE  NamesOK' /\ faults' \in Nat
<1>1. CASE \E t \in tokens, e \in End : SendToken(t, e)
  BY <1>1 DEF SendToken, NamesOK
<1>2. CASE \E c \in Chain : SyncRead(c) \/ RelateRead(c) \/ AddRead(c)
  BY <1>2 DEF SyncRead, RelateRead, AddRead, NamesOK
<1>3. CASE SyncWrite
  <2>1. UNCHANGED faults
    BY <1>3 DEF SyncWrite
  <2> QED
    BY <1>3, <2>1, SyncWriteNames
<1>4. CASE RelateWrite
  <2>1. \E lost \in Lost({"insert"}) : Spend(lost)
    BY <1>4 DEF RelateWrite
  <2> QED
    BY <1>4, <2>1, RelateWriteNames, SpendKeeps
<1>5. CASE AddUpdateDenom
  <2>1. \E lost \in Lost({"denom"}) : Spend(lost)
    BY <1>5 DEF AddUpdateDenom
  <2> QED
    BY <1>5, <2>1, AddUpdateDenomNames, SpendKeeps
<1>6. CASE AddUpdateTxs \/ AddUpdateBase
  <2>1. UNCHANGED denoms /\ UNCHANGED sync /\ UNCHANGED relate /\ UNCHANGED skipped
    BY <1>6 DEF AddUpdateTxs, AddUpdateBase
  <2>2. add'.at = add.at
    BY <1>6 DEF AddUpdateTxs, AddUpdateBase, DenomsInv, AddInv
  <2>3. UNCHANGED faults \/ \E lost \in Lost({"txs"}) : Spend(lost)
    BY <1>6 DEF AddUpdateTxs, AddUpdateBase
  <2> QED
    BY <2>1, <2>2, <2>3, SpendKeeps DEF NamesOK
<1>7. CASE AddDone
  BY <1>7 DEF AddDone, NoAdd, NamesOK
<1> QED
  BY <1>1, <1>2, <1>3, <1>4, <1>5, <1>6, <1>7 DEF DenomTasks

----------------------------------------------------------------------------
(* Shapes: the caches, and the supplies a chain is asked for.              *)

CacheOK(f) ==
  /\ DOMAIN f = Chain
  /\ \A c \in Chain : DOMAIN f[c] \subseteq DenomsOn(c) /\ \A d \in DOMAIN f[c] : f[c][d] \in Nat
HeatOK ==
  /\ DOMAIN heat = Chain
  /\ \A c \in Chain : /\ DOMAIN heat[c] = {"at", "page", "rest"}
                      /\ heat[c].at \in {"idle", "get", "set", "done"}
                      /\ heat[c].rest \subseteq DenomsOn(c) /\ DOMAIN heat[c].page \subseteq DenomsOn(c)
                      /\ \A d \in DOMAIN heat[c].page : heat[c].page[d] \in Nat
DocsTyped(f) == \A k \in DOMAIN f : k \in Key /\ f[k] \in TokenDoc
\* Once ibc_token_task has read the tokens it has a document for each, old or new.
TokOK ==
  /\ DOMAIN tok = {"at", "chains", "ends", "left", "docs", "new", "gone"}
  /\ tok.at \in {"idle", "amounts", "traces", "write", "chains"}
  /\ tok.ends \subseteq End /\ DocsTyped(tok.docs)
  /\ tok.at \in {"amounts", "traces"} => DOMAIN tok.docs = DOMAIN tokenDocs \cup tok.new
  /\ tok.at = "traces" => tok.left \subseteq DOMAIN tok.docs
TracesOK == \A k \in DOMAIN traces : \A t \in traces[k] : t \in TraceDoc
SuppliesOK == CacheOK(supplyCache) /\ HeatOK /\ priced \in BOOLEAN
TokenTaskOK ==
  CacheOK(amountCache) /\ TokOK /\ DocsTyped(tokenDocs) /\ TracesOK /\ exact \subseteq Key
BankOK ==
  /\ DOMAIN supply \subseteq Keys /\ supply \in [DOMAIN supply -> Nat]
  /\ escrow \in [End -> [DOMAIN supply -> Nat]]
TokensOK == BankOK /\ SuppliesOK /\ TokenTaskOK

LEMMA TokensTyped ==
  ASSUME TokensOK
  PROVE  TokensTypeOK
<1>1. BankOK /\ priced \in BOOLEAN /\ exact \subseteq Key
  BY DEF TokensOK, SuppliesOK, TokenTaskOK
<1>2. \A c \in Chain : DOMAIN supplyCache[c] \subseteq DenomsOn(c) /\ DOMAIN amountCache[c] \subseteq DenomsOn(c)
  BY DEF TokensOK, SuppliesOK, TokenTaskOK, CacheOK
<1>3. (\A k \in DOMAIN tokenDocs : k \in Key /\ tokenDocs[k] \in TokenDoc) /\ TracesOK
  BY DEF TokensOK, TokenTaskOK, DocsTyped
<1>4. \A c \in Chain : heat[c].at \in {"idle", "get", "set", "done"}
  BY DEF TokensOK, SuppliesOK, HeatOK
<1>5. tok.at \in {"idle", "amounts", "traces", "write", "chains"}
  BY DEF TokensOK, TokenTaskOK, TokOK
<1> QED
  BY <1>1, <1>2, <1>3, <1>4, <1>5 DEF TokensTypeOK, BankOK, TracesOK

\* There are as many denoms of chains as tokens, or more.
LEMMA TokensStay ==
  ASSUME TokensOK, UNCHANGED tokenVars, tokens \subseteq tokens'
  PROVE  TokensOK'
<1>1. /\ UNCHANGED supply /\ UNCHANGED escrow /\ UNCHANGED supplyCache /\ UNCHANGED amountCache
      /\ UNCHANGED priced /\ UNCHANGED tokenDocs /\ UNCHANGED traces /\ UNCHANGED heat /\ UNCHANGED tok
      /\ UNCHANGED exact
  BY DEF tokenVars
<1>2. Keys \subseteq Keys' /\ \A c : DenomsOn(c) \subseteq DenomsOn(c)'
  BY DEF Keys, DenomsOn
<1>3. BankOK'
  BY <1>1, <1>2 DEF TokensOK, BankOK
<1>4. SuppliesOK'
  BY <1>1, <1>2 DEF TokensOK, SuppliesOK, CacheOK, HeatOK
<1>5. CacheOK(amountCache)'
  BY <1>1, <1>2 DEF TokensOK, TokenTaskOK, CacheOK
<1>6. TokOK' /\ DocsTyped(tokenDocs)'
  BY <1>1 DEF TokensOK, TokenTaskOK, TokOK, DocsTyped
<1>7. TracesOK' /\ exact' \subseteq Key
  BY <1>1 DEF TokensOK, TokenTaskOK, TracesOK
<1> QED
  BY <1>3, <1>4, <1>5, <1>6, <1>7 DEF TokensOK, TokenTaskOK

LEMMA DenomKey ==
  ASSUME NEW c, NEW d \in DenomsOn(c)
  PROVE  KeyOf(c, d) \in Keys
<1>1. PICK k \in Keys : k.chain = c /\ d = k.denom
  BY DEF DenomsOn
<1>2. k = KeyOf(k.chain, k.denom)
  BY DEF Keys, TokenKey, KeyOf
<1> QED
  BY <1>1, <1>2

LEMMA KeysFinite ==
  ASSUME IsFiniteSet(tokens)
  PROVE  IsFiniteSet(Keys) /\ \A c : IsFiniteSet(DenomsOn(c))
<1> DEFINE f == [t \in tokens |-> TokenKey(t)]
<1>1. IsFiniteSet({f[t] : t \in DOMAIN f})
  <2>1. IsFiniteSet(DOMAIN f)
    OBVIOUS
  <2> HIDE DEF f
  <2> QED
    BY <2>1, ImageFinite
<1>2. {f[t] : t \in DOMAIN f} = Keys
  BY DEF Keys
<1>3. IsFiniteSet(Keys)
  BY <1>1, <1>2
<1>4. ASSUME NEW c
      PROVE  IsFiniteSet(DenomsOn(c))
  <2> DEFINE S == {x \in Keys : x.chain = c}
             g == [k \in S |-> k.denom]
  <2>1. IsFiniteSet(DOMAIN g)
    BY <1>3, FS_Subset
  <2>2. {g[k] : k \in DOMAIN g} = DenomsOn(c)
    BY DEF DenomsOn
  <2> HIDE DEF g, S
  <2>3. IsFiniteSet({g[k] : k \in DOMAIN g})
    BY <2>1, ImageFinite
  <2> QED
    BY <2>2, <2>3
<1> QED
  BY <1>3, <1>4

\* There is a page of what is left.
LEMMA PageExists ==
  ASSUME NEW S, IsFiniteSet(S)
  PROVE  \E P \in SUBSET S : Cardinality(P) = PageSize \/ (P = S /\ Cardinality(P) < PageSize)
<1>1. PageSize \in Nat /\ Cardinality(S) \in Nat
  BY ShapesAssumption, FS_CardinalityType
<1>2. CASE Cardinality(S) < PageSize
  BY <1>2
<1>3. CASE Cardinality(S) >= PageSize
  <2> DEFINE T == {P \in SUBSET S : Cardinality(P) >= PageSize}
  <2>1. T \subseteq SUBSET S /\ T # {}
    BY <1>3
  <2>2. PICK U \in T : \A V \in SUBSET U : V # U => V \notin T
    <3> HIDE DEF T
    <3> QED
      BY <2>1, SmallestSet
  <2>3. U \in SUBSET S /\ Cardinality(U) >= PageSize
    OBVIOUS
  <2>4. IsFiniteSet(U) /\ Cardinality(U) \in Nat
    BY <2>3, FS_Subset, FS_CardinalityType
  <2>5. ASSUME Cardinality(U) > PageSize
        PROVE  FALSE
    <3>1. U # {}
      BY <1>1, <2>5, FS_EmptySet
    <3>2. PICK x : x \in U
      BY <3>1
    <3>3. Cardinality(U \ {x}) = Cardinality(U) - 1
      BY <2>4, <3>2, FS_RemoveElement
    <3>4. Cardinality(U \ {x}) >= PageSize
      BY <1>1, <2>4, <2>5, <3>3
    <3>5. U \ {x} \in T /\ U \ {x} \in SUBSET U /\ U \ {x} # U
      BY <2>3, <3>2, <3>4
    <3> QED
      BY <2>2, <3>5
  <2>6. Cardinality(U) = PageSize
    BY <1>1, <2>3, <2>4, <2>5
  <2> QED
    BY <2>3, <2>6
<1> QED
  BY <1>1, <1>2, <1>3

----------------------------------------------------------------------------
(* denom_heatmap_task.                                                     *)

LEMMA DenomsOnSame ==
  ASSUME UNCHANGED tokens
  PROVE  Keys' = Keys /\ \A c : DenomsOn(c)' = DenomsOn(c)
BY DEF Keys, DenomsOn

LEMMA HeatStartTyped ==
  ASSUME SuppliesOK, HeatStart, UNCHANGED tokens
  PROVE  SuppliesOK'
<1>1. heat' = SupplyHandler /\ UNCHANGED supplyCache /\ UNCHANGED priced
  BY DEF HeatStart
<1>2. DOMAIN heat' = Chain
  BY <1>1 DEF SupplyHandler
<1>3. \A c \in Chain : /\ DOMAIN heat'[c] = {"at", "page", "rest"} /\ heat'[c].at \in {"get", "done"}
                      /\ heat'[c].rest = DenomsOn(c) /\ DOMAIN heat'[c].page = {}
  BY <1>1 DEF SupplyHandler, NoCache
<1> QED
  BY <1>1, <1>2, <1>3, DenomsOnSame DEF SuppliesOK, CacheOK, HeatOK

LEMMA GetPageTyped ==
  ASSUME SuppliesOK, BankInv, faults \in Nat, NEW c \in Chain, GetPage(c), UNCHANGED tokens
  PROVE  SuppliesOK' /\ faults' \in Nat
<1> DEFINE S == heat[c].rest
           page == CHOOSE P \in SUBSET S : \/ Cardinality(P) = PageSize
                                           \/ P = S /\ Cardinality(P) < PageSize
           some == {x \in page : supply[KeyOf(c, x)] > 0}
           found == [d \in some |-> supply[KeyOf(c, d)]]
           next == [at |-> "set", rest |-> S \ page, page |-> found]
<1>1. /\ \/ /\ heat' = [heat EXCEPT ![c] = next]
            /\ supplyCache' \in {supplyCache, DelSupply(c)} /\ UNCHANGED faults
         \/ /\ faults > 0 /\ Spend({c})
            /\ heat' = [heat EXCEPT ![c].at = "done"] /\ UNCHANGED supplyCache
      /\ UNCHANGED priced
  BY DEF GetPage
<1>2. S \subseteq DenomsOn(c) /\ IsFiniteSet(S)
  BY KeysFinite, FS_Subset DEF SuppliesOK, HeatOK, BankInv, BankTyped
<1>3. page \subseteq S
  BY <1>2, PageExists
<1>4. \A d \in DenomsOn(c) : supply[KeyOf(c, d)] \in Nat
  BY DenomKey DEF BankInv, BankTyped
<1> HIDE DEF page, S
<1>5. /\ DOMAIN next = {"at", "page", "rest"} /\ next.at = "set" /\ next.rest \subseteq DenomsOn(c)
      /\ DOMAIN next.page \subseteq DenomsOn(c) /\ \A d \in DOMAIN next.page : next.page[d] \in Nat
  BY <1>2, <1>3, <1>4
<1> HIDE DEF next
<1>6. HeatOK'
  BY <1>1, <1>5, DenomsOnSame DEF SuppliesOK, HeatOK
<1>7. CacheOK(supplyCache)'
  BY <1>1, DenomsOnSame DEF SuppliesOK, CacheOK, DelSupply, NoCache
<1>8. faults' \in Nat
  BY <1>1, SpendOne
<1> QED
  BY <1>1, <1>6, <1>7, <1>8 DEF SuppliesOK

LEMMA SetPageTyped ==
  ASSUME SuppliesOK, faults \in Nat, NEW c \in Chain, SetPage(c), UNCHANGED tokens
  PROVE  SuppliesOK' /\ faults' \in Nat
<1>1. PICK lost \in Lost({c}) : supplyCache' \in {supplyCache, BatchSetSupply(c, heat[c].page)} /\ Spend(lost)
  BY DEF SetPage
<1>2. heat' = [heat EXCEPT ![c].at = IF heat[c].rest = {} THEN "done" ELSE "get"] /\ UNCHANGED priced
  BY DEF SetPage
<1>3. HeatOK'
  BY <1>2, DenomsOnSame DEF SuppliesOK, HeatOK
<1>4. CacheOK(supplyCache)'
  <2> DEFINE page == heat[c].page
             old == supplyCache[c]
             new == [d \in DOMAIN old \cup DOMAIN page |-> IF d \in DOMAIN page THEN page[d] ELSE old[d]]
  <2>1. BatchSetSupply(c, page) = [supplyCache EXCEPT ![c] = new]
    BY DEF BatchSetSupply
  <2>2. DOMAIN new \subseteq DenomsOn(c) /\ \A d \in DOMAIN new : new[d] \in Nat
    BY DEF SuppliesOK, HeatOK, CacheOK
  <2> HIDE DEF new
  <2>3. supplyCache' = supplyCache \/ supplyCache' = [supplyCache EXCEPT ![c] = new]
    BY <1>1, <2>1
  <2> QED
    BY <2>2, <2>3, DenomsOnSame DEF SuppliesOK, CacheOK
<1>5. faults' \in Nat
  BY <1>1, SpendKeeps
<1> QED
  BY <1>2, <1>3, <1>4, <1>5 DEF SuppliesOK

LEMMA AggrDataTyped ==
  ASSUME SuppliesOK, faults \in Nat, AggrData, UNCHANGED tokens
  PROVE  SuppliesOK' /\ faults' \in Nat
<1>1. PICK lost \in Lost({"price"}) : priced' = (priced \/ lost = {}) /\ Spend(lost)
  BY DEF AggrData, CoinPriceHandler
<1>2. heat' = [c \in Chain |-> [at |-> "idle", page |-> NoCache, rest |-> {}]] /\ UNCHANGED supplyCache
  BY DEF AggrData
<1>3. HeatOK'
  BY <1>2 DEF HeatOK, NoCache
<1>4. CacheOK(supplyCache)'
  BY <1>2, DenomsOnSame DEF SuppliesOK, CacheOK
<1>5. priced' \in BOOLEAN
  <2>1. (priced \/ lost = {}) \in BOOLEAN
    OBVIOUS
  <2> QED
    BY <1>1, <2>1
<1>6. faults' \in Nat
  BY <1>1, SpendKeeps
<1> QED
  BY <1>3, <1>4, <1>5, <1>6 DEF SuppliesOK

----------------------------------------------------------------------------
(* ibc_token_task.                                                         *)

LEMMA CachedNat ==
  ASSUME SuppliesOK, TokenTaskOK, NEW k \in Key
  PROVE  GetSupply(k) \subseteq Nat /\ GetTransferAmount(k) \in Nat
<1>1. k.chain \in Chain
  BY DEF Key
<1>2. \A d \in DOMAIN supplyCache[k.chain] : supplyCache[k.chain][d] \in Nat
  BY <1>1 DEF SuppliesOK, CacheOK
<1>3. \A d \in DOMAIN amountCache[k.chain] : amountCache[k.chain][d] \in Nat
  BY <1>1 DEF TokenTaskOK, CacheOK
<1> QED
  BY <1>2, <1>3 DEF GetSupply, GetTransferAmount

LEMMA OriginsTyped ==
  ASSUME DenomsTypeOK, DenomsLeadHome, TokensInv
  PROVE  FindBaseDenom \subseteq Key
<1> SUFFICES ASSUME NEW k \in DOMAIN denoms, denoms[k].isBase
             PROVE  KeyOf(denoms[k].chain, denoms[k].baseDenom) \in Key
  BY DEF FindBaseDenom
<1> DEFINE t == Token(k)
<1>1. denoms[k].chain \in Chain
  BY DEF DenomsTypeOK, Key
<1>2. t \in tokens /\ LeadsHome(k)
  BY DEF DenomsLeadHome, Token
<1>3. FollowsPath(t)
  BY <1>2 DEF TokensInv
<1>4. <<denoms[k].baseChain, denoms[k].baseDenom>> = At(t, 1)
  BY <1>2 DEF LeadsHome, At
<1>5. denoms[k].baseDenom \in Denom
  <2>1. At(t, 1) \in Chain \X Denom
    BY <1>3, FirstStation, AtShape
  <2> QED
    BY <1>4, <2>1
<1> QED
  BY <1>1, <1>5 DEF KeyOf, Key

LEMMA WithSupplyTyped ==
  ASSUME SuppliesOK, TokenTaskOK, NEW k \in Key, NEW doc \in TokenDoc, NEW lost
  PROVE  WithSupply(k, doc, lost) \in TokenDoc
<1> DEFINE s == IF k.chain \in Listed /\ GetSupply(k) # {} /\ k \notin lost
                THEN CHOOSE x \in GetSupply(k) : TRUE ELSE doc.supply
           a == k \in Auth
           p == doc.priced \/ (k \in Auth /\ priced)
<1>1. WithSupply(k, doc, lost) = [doc EXCEPT !.authed = a, !.priced = p, !.supply = s]
  BY DEF WithSupply, TokenDoc
<1>2. s \in Amount
  BY CachedNat DEF TokenDoc, Amount
<1>3. a \in BOOLEAN /\ p \in BOOLEAN
  OBVIOUS
<1> HIDE DEF a, p, s
<1> QED
  BY <1>1, <1>2, <1>3 DEF TokenDoc

LEMMA TokenReadTyped ==
  ASSUME SuppliesOK, TokenTaskOK, ConfigInv, faults \in Nat, TokenRead, UNCHANGED tokens, FindBaseDenom \subseteq Key
  PROVE  TokenTaskOK' /\ faults' \in Nat
<1> DEFINE old == DOMAIN tokenDocs
           new == FindBaseDenom \ old
           Doc(k) == IF k \in new THEN NewToken(k) ELSE tokenDocs[k]
           open == UNION {{<<c, h>> : h \in DOMAIN conf[c]} : c \in Listed}
           docs(l) == [k \in old \cup new |-> WithSupply(k, Doc(k), l)]
<1>1. PICK lost \in Lost(old \cup new) :
        /\ tok' = [at |-> "amounts", chains |-> Listed, left |-> Listed, ends |-> open,
                   new |-> new, gone |-> old \ FindBaseDenom, docs |-> docs(lost)]
        /\ Spend(lost)
  BY DEF TokenRead
<1>2. UNCHANGED amountCache /\ UNCHANGED tokenDocs /\ UNCHANGED traces /\ UNCHANGED exact
  BY DEF TokenRead
<1>3. open \subseteq End
  <2>1. \A c \in Listed : \A h \in DOMAIN conf[c] : <<c, h>> \in End
    BY ConfFinite
  <2> QED
    BY <2>1
<1>4. ASSUME NEW k \in old \cup new
      PROVE  k \in Key /\ docs(lost)[k] \in TokenDoc
  <2>1. k \in Key
    BY DEF TokenTaskOK, DocsTyped
  <2>2. NewToken(k) \in TokenDoc
    <3>1. (k \in Auth) \in BOOLEAN
      OBVIOUS
    <3> QED
      BY <3>1 DEF NewToken, TokenDoc, Amount
  <2>3. Doc(k) \in TokenDoc
    BY <2>2 DEF TokenTaskOK, DocsTyped
  <2>4. docs(lost)[k] = WithSupply(k, Doc(k), lost)
    OBVIOUS
  <2> HIDE DEF Doc, docs
  <2> QED
    BY <2>1, <2>3, <2>4, WithSupplyTyped
<1> DEFINE D == docs(lost)
<1>5. DOMAIN D = old \cup new
  OBVIOUS
<1>6. tok' = [at |-> "amounts", chains |-> Listed, left |-> Listed, ends |-> open,
              new |-> new, gone |-> old \ FindBaseDenom, docs |-> D]
  BY <1>1
<1>7. DocsTyped(D)
  BY <1>4, <1>5 DEF DocsTyped
<1> HIDE DEF D, open, new
<1>8. TokOK'
  BY <1>2, <1>3, <1>5, <1>6, <1>7 DEF TokOK
<1>9. CacheOK(amountCache)'
  BY <1>2, DenomsOnSame DEF TokenTaskOK, CacheOK
<1>10. DocsTyped(tokenDocs)' /\ TracesOK' /\ exact' \subseteq Key
  BY <1>2 DEF TokenTaskOK, DocsTyped, TracesOK
<1>11. faults' \in Nat
  BY <1>1, SpendKeeps
<1> QED
  BY <1>8, <1>9, <1>10, <1>11 DEF TokenTaskOK

LEMMA GetTransAmountTyped ==
  ASSUME TokenTaskOK, BankInv, faults \in Nat, NEW c \in Chain, GetTransAmount(c), UNCHANGED tokens
  PROVE  TokenTaskOK' /\ faults' \in Nat
<1> DEFINE mine == {e \in tok.ends : e[1] = c}
           Total(g, d) == SumOf([e \in g |-> escrow[e][KeyOf(c, d)]])
           found(g) == {d \in DenomsOn(c) : Total(g, d) > 0}
           amounts(g) == [d \in found(g) |-> Total(g, d)]
           new(g, l) == IF "set" \in l THEN NoCache ELSE amounts(g)
<1>1. PICK lost \in Lost({"account", "set"}), got \in SUBSET mine :
        /\ amountCache' = IF found(got) = {} THEN amountCache ELSE [amountCache EXCEPT ![c] = new(got, lost)]
        /\ Spend(lost)
  <2>1. PICK lost \in Lost({"account", "set"}) :
          \E got \in IF "account" \in lost THEN SUBSET mine \ {mine} ELSE {mine} :
            /\ amountCache' = IF found(got) = {} THEN amountCache ELSE [amountCache EXCEPT ![c] = new(got, lost)]
            /\ Spend(lost)
    BY DEF GetTransAmount
  <2> HIDE DEF new, found, mine
  <2>2. PICK got \in IF "account" \in lost THEN SUBSET mine \ {mine} ELSE {mine} :
          /\ amountCache' = IF found(got) = {} THEN amountCache ELSE [amountCache EXCEPT ![c] = new(got, lost)]
          /\ Spend(lost)
    BY <2>1
  <2>3. got \in SUBSET mine
    OBVIOUS
  <2> QED
    BY <2>2, <2>3
<1>2. /\ tok' = [tok EXCEPT !.left = @ \ {c}] /\ tok.at = "amounts"
      /\ UNCHANGED tokenDocs /\ UNCHANGED traces /\ UNCHANGED exact
  BY DEF GetTransAmount
<1>3. got \subseteq End /\ IsFiniteSet(got)
  <2>1. got \subseteq End
    BY DEF TokenTaskOK, TokOK
  <2> QED
    BY <2>1, AmountsAssumption, FS_Subset
<1>4. ASSUME NEW d \in DenomsOn(c)
      PROVE  Total(got, d) \in Nat
  <2> DEFINE f == [e \in got |-> escrow[e][KeyOf(c, d)]]
  <2>1. KeyOf(c, d) \in Keys
    BY DenomKey
  <2>2. IsFiniteSet(DOMAIN f) /\ \A e \in DOMAIN f : f[e] \in Nat
    BY <1>3, <2>1 DEF BankInv, BankTyped
  <2> HIDE DEF f
  <2>3. SumOf(f) \in Nat
    BY <2>2, SumNat
  <2> QED
    BY <2>3 DEF f
<1> HIDE DEF Total
<1> DEFINE F == new(got, lost)
<1>5. DOMAIN F \subseteq DenomsOn(c) /\ \A d \in DOMAIN F : F[d] \in Nat
  BY <1>4 DEF NoCache
<1>6. amountCache' = amountCache \/ amountCache' = [amountCache EXCEPT ![c] = F]
  BY <1>1
<1> HIDE DEF F
<1>7. CacheOK(amountCache)'
  BY <1>5, <1>6, DenomsOnSame DEF TokenTaskOK, CacheOK
<1>8. TokOK'
  BY <1>2 DEF TokenTaskOK, TokOK
<1>9. DocsTyped(tokenDocs)' /\ TracesOK' /\ exact' \subseteq Key
  BY <1>2 DEF TokenTaskOK, DocsTyped, TracesOK
<1>10. faults' \in Nat
  BY <1>1, SpendKeeps
<1> QED
  BY <1>7, <1>8, <1>9, <1>10 DEF TokenTaskOK

\* The task is done, or leaves off.
LEMMA NoTokTyped ==
  ASSUME NEW at \in {"idle", "chains"}, tok' = [NoTok EXCEPT !.at = at]
  PROVE  TokOK'
<1>1. /\ DOMAIN tok' = {"at", "chains", "ends", "left", "docs", "new", "gone"}
      /\ tok'.at = at /\ tok'.ends = {} /\ DOMAIN tok'.docs = {}
  BY DEF NoTok
<1> QED
  BY <1>1 DEF TokOK, DocsTyped

LEMMA SetTransferAmountTyped ==
  ASSUME SuppliesOK, TokenTaskOK, faults \in Nat, SetTransferAmount, UNCHANGED tokens
  PROVE  TokenTaskOK' /\ faults' \in Nat
<1> DEFINE docs(l) == [k \in DOMAIN tok.docs |->
                        IF k.chain \in tok.chains /\ k \notin l
                        THEN [tok.docs[k] EXCEPT !.amount = GetTransferAmount(k)] ELSE tok.docs[k]]
<1>1. UNCHANGED amountCache /\ UNCHANGED tokenDocs /\ UNCHANGED traces /\ UNCHANGED exact
  BY DEF SetTransferAmount
<1>2. TokOK' /\ faults' \in Nat
  <2>1. CASE IbcReceiveTxsFail
    <3>1. tok' = [NoTok EXCEPT !.at = "idle"]
      BY <2>1 DEF IbcReceiveTxsFail, NoTok
    <3>2. faults' \in Nat
      BY <2>1 DEF IbcReceiveTxsFail
    <3> QED
      BY <3>1, <3>2, NoTokTyped
  <2>2. CASE ~IbcReceiveTxsFail
    <3>1. PICK lost \in Lost(DOMAIN tok.docs) :
            /\ tok' = [tok EXCEPT !.at = "traces", !.left = DOMAIN tok.docs, !.docs = docs(lost)]
            /\ Spend(lost)
      BY <2>2 DEF SetTransferAmount
    <3> DEFINE D == docs(lost)
    <3>2. DOMAIN D = DOMAIN tok.docs
      OBVIOUS
    <3>3. ASSUME NEW k \in DOMAIN D
          PROVE  k \in Key /\ D[k] \in TokenDoc
      <4> DEFINE a == GetTransferAmount(k)
                 d == tok.docs[k]
      <4>1. k \in Key /\ d \in TokenDoc
        BY <3>2 DEF TokenTaskOK, TokOK, DocsTyped
      <4>2. a \in Amount
        BY <4>1, CachedNat DEF Amount
      <4>3. D[k] \in {[d EXCEPT !.amount = a], d}
        OBVIOUS
      <4> HIDE DEF a, d, D
      <4> QED
        BY <4>1, <4>2, <4>3 DEF TokenDoc
    <3>4. tok' = [tok EXCEPT !.at = "traces", !.left = DOMAIN tok.docs, !.docs = D]
      BY <3>1
    <3> HIDE DEF D
    <3>5. /\ DOMAIN tok' = DOMAIN tok /\ tok'.at = "traces" /\ tok'.left = DOMAIN tok.docs
          /\ tok'.docs = D /\ tok'.ends = tok.ends /\ tok'.new = tok.new
      BY <3>4 DEF TokenTaskOK, TokOK
    <3>6. tok.at = "amounts"
      BY DEF SetTransferAmount
    <3>7. TokOK'
      BY <1>1, <3>2, <3>3, <3>5, <3>6 DEF TokenTaskOK, TokOK, DocsTyped
    <3> QED
      BY <3>1, <3>7, SpendKeeps
  <2> QED
    BY <2>1, <2>2
<1>3. CacheOK(amountCache)'
  BY <1>1, DenomsOnSame DEF TokenTaskOK, CacheOK
<1>4. DocsTyped(tokenDocs)' /\ TracesOK' /\ exact' \subseteq Key
  BY <1>1 DEF TokenTaskOK, DocsTyped, TracesOK
<1> QED
  BY <1>2, <1>3, <1>4 DEF TokenTaskOK

LEMMA LessTyped ==
  ASSUME NEW all \in Amount, NEW passed \in Nat
  PROVE  Less(all, passed) \in Amount
BY DEF Less, Amount, Unknown

LEMMA TraceTyped ==
  ASSUME SuppliesOK, TokenTaskOK, DenomsTypeOK, DenomsLeadHome, TokensInv,
         NEW base \in DOMAIN tok.docs, NEW k \in DOMAIN denoms, NEW lost
  PROVE  Trace(base, k, lost) \in TraceDoc
<1> DEFINE doc == tok.docs[base]
           all == IF IsGenesis(base, k) THEN doc.supply ELSE IbcDenomSupply(k, lost)
           amount == IF IsGenesis(base, k) THEN IbcDenomAmountGenesis(doc) ELSE IbcDenomAmount(k, all, lost)
           type == IF IsGenesis(base, k) THEN "genesis" ELSE IF base \in Auth THEN "authed" ELSE "other"
           value == IF amount = Unknown \/ ~doc.priced THEN 0 ELSE amount
           hops == denoms[k].ibcHops
<1>1. Trace(base, k, lost) = [chain |-> k.chain, denom |-> k.denom, hops |-> hops, type |-> type,
                              supply |-> all, amount |-> amount, value |-> value]
  BY DEF Trace
<1>2. k \in Key /\ k.chain \in Chain /\ k.denom \in Denom
  BY DEF DenomsTypeOK, Key
<1>3. hops \in Nat
  <2> DEFINE t == Token(k)
  <2>1. t \in tokens /\ LeadsHome(k)
    BY DEF DenomsLeadHome, Token
  <2>2. hops = Len(t.via) - 1
    BY <2>1 DEF LeadsHome
  <2> HIDE DEF t, hops
  <2>3. Len(t.via) \in Nat \ {0}
    BY <2>1, Lengths DEF TokensInv
  <2> QED
    BY <2>2, <2>3
<1>4. doc.supply \in Amount /\ doc.amount \in Amount
  BY DEF TokenTaskOK, TokOK, DocsTyped, TokenDoc
<1>5. GetSupply(k) \subseteq Nat /\ GetTransferAmount(k) \in Nat
  BY <1>2, CachedNat
<1>6. all \in Amount
  BY <1>4, <1>5 DEF IbcDenomSupply, Amount
<1>7. amount \in Amount
  <2>1. CASE IsGenesis(base, k)
    <3>1. amount = IbcDenomAmountGenesis(doc)
      BY <2>1
    <3>2. CASE Unknown \in {doc.supply, doc.amount}
      BY <3>1, <3>2 DEF IbcDenomAmountGenesis, Amount
    <3>3. CASE Unknown \notin {doc.supply, doc.amount}
      <4>1. doc.amount \in Nat
        BY <1>4, <3>3 DEF Amount
      <4>2. amount = Less(doc.supply, doc.amount)
        BY <3>1, <3>3 DEF IbcDenomAmountGenesis
      <4> QED
        BY <1>4, <4>1, <4>2, LessTyped
    <3> QED
      BY <3>2, <3>3
  <2>2. CASE ~IsGenesis(base, k)
    <3> DEFINE passed == IF <<"amount", k>> \in lost THEN 0 ELSE GetTransferAmount(k)
    <3>1. amount = Less(all, passed)
      BY <2>2 DEF IbcDenomAmount
    <3>2. passed \in Nat
      BY <1>5
    <3> HIDE DEF all, amount, passed
    <3> QED
      BY <1>6, <3>1, <3>2, LessTyped
  <2> QED
    BY <2>1, <2>2
<1> HIDE DEF amount, all, hops
<1>8. value \in Nat
  BY <1>7 DEF Amount
<1>9. type \in {"genesis", "authed", "other"}
  OBVIOUS
<1> HIDE DEF value, type
<1> QED
  BY <1>1, <1>2, <1>3, <1>6, <1>7, <1>8, <1>9 DEF TraceDoc

LEMMA InvolvedTyped ==
  ASSUME DenomsLeadHome, IsFiniteSet(tokens), NEW base, NEW lost, NEW l, NEW old \in Nat, NEW fresh,
         fresh = {t \in {Trace(base, k, l) : k \in FindByBaseDenom(base)} : t.supply # 0}
  PROVE  ChainsInvolved(base, old, fresh, lost) \in Nat
<1> DEFINE of == FindByBaseDenom(base)
           f == [k \in of |-> Trace(base, k, l)]
           g == [t \in fresh |-> t.chain]
<1>1. of \subseteq Keys
  BY DEF FindByBaseDenom, DenomsLeadHome, Keys
<1>2. IsFiniteSet(of)
  BY <1>1, KeysFinite, FS_Subset
<1>3. fresh \subseteq {f[k] : k \in DOMAIN f}
  OBVIOUS
<1>4. IsFiniteSet(DOMAIN f)
  BY <1>2
<1> HIDE DEF f, of
<1>5. IsFiniteSet({f[k] : k \in DOMAIN f})
  BY <1>4, ImageFinite
<1>6. IsFiniteSet(fresh)
  BY <1>3, <1>5, FS_Subset
<1>7. IsFiniteSet(DOMAIN g) /\ {g[t] : t \in DOMAIN g} = {t.chain : t \in fresh}
  BY <1>6
<1> HIDE DEF g
<1>8. IsFiniteSet({t.chain : t \in fresh})
  BY <1>7, ImageFinite
<1>9. Cardinality({t.chain : t \in fresh}) \in Nat
  BY <1>8, FS_CardinalityType
<1> QED
  BY <1>9 DEF ChainsInvolved

LEMMA TraceTokenTyped ==
  ASSUME SuppliesOK, TokenTaskOK, DenomsTypeOK, DenomsLeadHome, TokensInv, IsFiniteSet(tokens), faults \in Nat,
         NEW base \in DOMAIN tok.docs, TraceToken(base), UNCHANGED tokens
  PROVE  TokenTaskOK' /\ faults' \in Nat
<1> DEFINE of == FindByBaseDenom(base)
           things == ({"find", "swap"} \X {base}) \cup ({"supply", "amount"} \X of)
           fresh(l) == {t \in {Trace(base, k, l) : k \in of} : t.supply # 0}
<1>1. PICK lost \in Lost(things) :
        /\ traces' = [k \in DOMAIN traces \cup {base} |->
                        IF k # base THEN traces[k] ELSE BatchSwap(base, fresh(lost), lost)]
        /\ tok' = [tok EXCEPT !.left = @ \ {base},
                              !.docs[base].involved = ChainsInvolved(base, @, fresh(lost), lost)]
        /\ exact' = (exact \ {base}) \cup {k \in {base} : lost = {} /\ Exact(k)}
        /\ Spend(lost)
  BY DEF TraceToken
<1>2. UNCHANGED amountCache /\ UNCHANGED tokenDocs /\ tok.at = "traces"
  BY DEF TraceToken
<1> DEFINE F == fresh(lost)
           doc == tok.docs[base]
           n == ChainsInvolved(base, doc.involved, F, lost)
           new == [doc EXCEPT !.involved = n]
<1>3. \A k \in of : Trace(base, k, lost) \in TraceDoc
  BY TraceTyped DEF FindByBaseDenom
<1>4. F \subseteq TraceDoc
  BY <1>3
<1>5. F = {t \in {Trace(base, k, lost) : k \in FindByBaseDenom(base)} : t.supply # 0}
  OBVIOUS
<1>6. base \in Key /\ doc \in TokenDoc
  BY DEF TokenTaskOK, TokOK, DocsTyped
<1>7. /\ traces' = [k \in DOMAIN traces \cup {base} |->
                      IF k # base THEN traces[k] ELSE BatchSwap(base, F, lost)]
      /\ tok' = [tok EXCEPT !.left = @ \ {base}, !.docs[base].involved = ChainsInvolved(base, @, F, lost)]
  BY <1>1
<1> HIDE DEF F
<1>8. n \in Nat
  <2>1. doc.involved \in Nat
    BY <1>6 DEF TokenDoc
  <2> HIDE DEF doc
  <2> QED
    BY <1>5, <2>1, InvolvedTyped
<1>9. new \in TokenDoc
  <2> HIDE DEF n, doc
  <2> QED
    BY <1>6, <1>8 DEF TokenDoc
<1>10. BatchSwap(base, F, lost) \subseteq TraceDoc
  BY <1>4 DEF BatchSwap, DelByBaseDenom, TokenTaskOK, TracesOK
<1>11. TracesOK'
  BY <1>7, <1>10 DEF TokenTaskOK, TracesOK
<1>12. /\ DOMAIN tok' = DOMAIN tok /\ tok'.at = tok.at /\ tok'.left = tok.left \ {base}
       /\ tok'.ends = tok.ends /\ tok'.new = tok.new /\ tok'.docs = [tok.docs EXCEPT ![base] = new]
  BY <1>7 DEF TokenTaskOK, TokOK
<1> HIDE DEF new
<1>13. DOMAIN tok'.docs = DOMAIN tok.docs /\ DocsTyped(tok.docs)'
  BY <1>9, <1>12 DEF TokenTaskOK, TokOK, DocsTyped
<1>14. TokOK'
  BY <1>2, <1>12, <1>13 DEF TokenTaskOK, TokOK
<1>15. exact' \subseteq Key
  BY <1>1, <1>6 DEF TokenTaskOK
<1>16. CacheOK(amountCache)' /\ DocsTyped(tokenDocs)'
  BY <1>2, DenomsOnSame DEF TokenTaskOK, CacheOK, DocsTyped
<1>17. faults' \in Nat
  BY <1>1, SpendKeeps
<1> QED
  BY <1>11, <1>14, <1>15, <1>16, <1>17 DEF TokenTaskOK

LEMMA WriteTokensTyped ==
  ASSUME TokenTaskOK, faults \in Nat, WriteTokens, UNCHANGED tokens
  PROVE  TokenTaskOK' /\ faults' \in Nat
<1> DEFINE things == ({"insert"} \X {NoChain}) \cup ({"delete"} \X tok.gone) \cup ({"update"} \X DOMAIN tokenDocs)
<1>1. PICK lost \in Lost(things) :
        /\ tokenDocs' = [k \in InsertTokens(lost) \cup DeleteTokens(lost) |-> UpdateToken(k, lost)]
        /\ Spend(lost)
  BY DEF WriteTokens
<1>2. /\ tok' = [NoTok EXCEPT !.at = "chains"] /\ tok.at = "traces"
      /\ UNCHANGED amountCache /\ UNCHANGED traces /\ UNCHANGED exact
  BY DEF WriteTokens
<1>3. \A k : <<"update", k>> \in lost => k \in DOMAIN tokenDocs
  BY <1>1 DEF Lost
<1>4. ASSUME NEW k \in InsertTokens(lost) \cup DeleteTokens(lost)
      PROVE  k \in Key /\ UpdateToken(k, lost) \in TokenDoc
  <2>1. k \in DOMAIN tok.docs
    BY <1>2 DEF InsertTokens, DeleteTokens, TokenTaskOK, TokOK
  <2> QED
    BY <1>3, <2>1 DEF UpdateToken, TokenTaskOK, TokOK, DocsTyped
<1>5. DocsTyped(tokenDocs)'
  BY <1>1, <1>4 DEF DocsTyped
<1>6. TokOK'
  BY <1>2, NoTokTyped
<1>7. CacheOK(amountCache)' /\ TracesOK' /\ exact' \subseteq Key
  BY <1>2, DenomsOnSame DEF TokenTaskOK, CacheOK, TracesOK
<1>8. faults' \in Nat
  BY <1>1, SpendKeeps
<1> QED
  BY <1>5, <1>6, <1>7, <1>8 DEF TokenTaskOK

LEMMA UpdateIBCChainTyped ==
  ASSUME TokenTaskOK, faults \in Nat, UpdateIBCChain, UNCHANGED tokens
  PROVE  TokenTaskOK' /\ faults' \in Nat
<1>1. /\ tok' = NoTok /\ \E lost \in Lost({"chains"}) : Spend(lost)
      /\ UNCHANGED amountCache /\ UNCHANGED tokenDocs /\ UNCHANGED traces /\ UNCHANGED exact
  BY DEF UpdateIBCChain
<1>2. tok' = [NoTok EXCEPT !.at = "idle"]
  BY <1>1 DEF NoTok
<1>3. TokOK'
  BY <1>2, NoTokTyped
<1>4. CacheOK(amountCache)' /\ DocsTyped(tokenDocs)' /\ TracesOK' /\ exact' \subseteq Key
  BY <1>1, DenomsOnSame DEF TokenTaskOK, CacheOK, DocsTyped, TracesOK
<1>5. faults' \in Nat
  BY <1>1, SpendKeeps
<1> QED
  BY <1>3, <1>4, <1>5 DEF TokenTaskOK

LEMMA TokenTasksTyped ==
  ASSUME TokensOK, BankInv, BankInv', DenomsTypeOK, DenomsLeadHome, ConfigInv, faults \in Nat,
         TokenTasks, UNCHANGED tokens
  PROVE  TokensOK' /\ faults' \in Nat
<1>1. BankOK'
  BY DEF BankInv, BankTyped, BankOK
<1>2. SuppliesOK /\ TokenTaskOK /\ TokensInv /\ IsFiniteSet(tokens)
  BY DEF TokensOK, BankInv, BankTyped
<1>3. ASSUME UNCHANGED <<supplyCache, heat, priced>>
      PROVE  SuppliesOK'
  <2>1. UNCHANGED supplyCache /\ UNCHANGED heat /\ UNCHANGED priced
    BY <1>3
  <2> QED
    BY <1>2, <2>1, DenomsOnSame DEF SuppliesOK, CacheOK, HeatOK
<1>4. ASSUME UNCHANGED <<amountCache, tokenDocs, traces, tok, exact>>
      PROVE  TokenTaskOK'
  <2>1. UNCHANGED amountCache /\ UNCHANGED tokenDocs /\ UNCHANGED traces /\ UNCHANGED tok /\ UNCHANGED exact
    BY <1>4
  <2>2. CacheOK(amountCache)'
    BY <1>2, <2>1, DenomsOnSame DEF TokenTaskOK, CacheOK
  <2>3. TokOK' /\ DocsTyped(tokenDocs)' /\ TracesOK' /\ exact' \subseteq Key
    BY <1>2, <2>1 DEF TokenTaskOK, TokOK, DocsTyped, TracesOK
  <2> QED
    BY <2>2, <2>3 DEF TokenTaskOK
<1>5. CASE (\E t \in tokens, e \in End : Leave(t, e)) \/ \E m \in moving : Arrive(m)
  <2>1. UNCHANGED <<supplyCache, heat, priced>> /\ UNCHANGED <<amountCache, tokenDocs, traces, tok, exact>>
        /\ UNCHANGED faults
    BY <1>5 DEF Leave, Arrive
  <2> QED
    BY <1>1, <1>3, <1>4, <2>1 DEF TokensOK
<1>6. CASE HeatStart \/ AggrData \/ \E c \in Chain : GetPage(c) \/ SetPage(c)
  <2>1. UNCHANGED <<amountCache, tokenDocs, traces, tok, exact>>
    BY <1>6 DEF HeatStart, AggrData, GetPage, SetPage
  <2>2. HeatStart => UNCHANGED faults
    BY DEF HeatStart
  <2>3. SuppliesOK' /\ faults' \in Nat
    BY <1>2, <1>6, <2>2, HeatStartTyped, AggrDataTyped, GetPageTyped, SetPageTyped
  <2> QED
    BY <1>1, <1>4, <2>1, <2>3 DEF TokensOK
<1>7. CASE TokenRead \/ SetTransferAmount \/ WriteTokens \/ UpdateIBCChain \/ \E c \in Chain : GetTransAmount(c)
  <2>1. UNCHANGED <<supplyCache, heat, priced>>
    BY <1>7 DEF TokenRead, SetTransferAmount, WriteTokens, UpdateIBCChain, GetTransAmount
  <2>2. FindBaseDenom \subseteq Key
    BY <1>2, OriginsTyped
  <2>3. TokenTaskOK' /\ faults' \in Nat
    BY <1>2, <1>7, <2>2, TokenReadTyped, SetTransferAmountTyped, WriteTokensTyped, UpdateIBCChainTyped,
       GetTransAmountTyped
  <2> QED
    BY <1>1, <1>3, <2>1, <2>3 DEF TokensOK
<1>8. CASE \E k \in DOMAIN tok.docs : TraceToken(k)
  <2>1. UNCHANGED <<supplyCache, heat, priced>>
    BY <1>8 DEF TraceToken
  <2>2. TokenTaskOK' /\ faults' \in Nat
    BY <1>2, <1>8, TraceTokenTyped
  <2> QED
    BY <1>1, <1>3, <2>1, <2>2 DEF TokensOK
<1> QED
  BY <1>5, <1>6, <1>7, <1>8 DEF TokenTasks

----------------------------------------------------------------------------
(* Types.                                                                  *)

TypesInv ==
  /\ focus \in {"channels", "denoms", "tokens"} /\ faults \in Nat
  /\ ChannelsInv /\ TokensOK
  /\ IF focus = "denoms" THEN NamesOK ELSE DenomsTypeOK

LEMMA FirstChannels ==
  ASSUME Init
  PROVE  ChannelsInv
<1>1. PICK c \in Cases : /\ ends = c.ends /\ conf = c.conf
                         /\ stat = c.stat /\ now = c.now /\ steps = c.steps
  BY DEF Init
<1>2. /\ confirmed = [e \in End |-> IF ends[e] = "open" /\ ends[Peer[e]] = "open" THEN 1 ELSE 0]
      /\ chainDoc = [x \in {} |-> 0] /\ channels = [i \in {} |-> 0]
      /\ cfg = "idle" /\ cfgConf = Nothing /\ cfgSeen = {} /\ cfgList = Nothing
      /\ chan = "idle" /\ chanDocs = [i \in {} |-> 0]
  BY DEF Init, ChannelsInit
<1>3. /\ ends \in [End -> PathState] /\ stat \in [End -> Nat] /\ steps \in Nat
      /\ now \in 1 .. MaxTime /\ \A i \in DOMAIN OpenAt : OpenAt[i] \in 1 .. now
      /\ \A k \in DOMAIN conf : \A h \in DOMAIN conf[k] : conf[k][h] \in ChannelPath
  BY <1>1, ShapesAssumption
<1>4. 0 \in 0 .. now /\ 1 \in 0 .. now
  BY <1>3, ChannelsAssumption
<1>5. NetworkOK
  BY <1>2, <1>3, <1>4 DEF NetworkOK
<1>6. ConfigOK
  BY <1>2, <1>3 DEF ConfigOK, InfoOK, Nothing
<1>7. ChannelDocsOK
  <2>1. DOMAIN chanDocs = {} /\ DOMAIN channels = {} /\ DOMAIN chainDoc = {}
    BY <1>2
  <2> QED
    BY <1>2, <2>1, FS_EmptySet DEF ChannelDocsOK, DocsOK
<1> QED
  BY <1>5, <1>6, <1>7, FirstConfig DEF ChannelsInv

LEMMA FirstNames ==
  ASSUME Init
  PROVE  NamesOK
<1>1. PICK c \in Cases : conf = c.conf /\ tokens = c.tokens /\ denoms = c.denoms
  BY DEF Init
<1>2. sync = NoSync /\ relate = NoRelate /\ add = NoAdd /\ skipped = {}
  BY DEF Init, DenomsInit
<1>3. ASSUME NEW k \in DOMAIN denoms
      PROVE  denoms[k].chain = k.chain /\ denoms[k].denom = k.denom
  <2>1. PICK t \in tokens : k = TokenKey(t) /\ FollowsPath(t)
    BY <1>1, RegistryAssumption
  <2>2. denoms[k] = TraceDenom(k.denom, k.chain, conf)
    BY <1>1, RegistryAssumption
  <2>3. k.chain = Head(t.via) /\ k.denom = t.path
    BY <2>1, KeyTyped
  <2> QED
    BY <2>1, <2>2, <2>3, TracedName
<1> QED
  BY <1>2, <1>3 DEF NamesOK, NoSync, NoRelate, NoAdd

LEMMA FirstTokens ==
  ASSUME Init
  PROVE  TokensOK
<1>1. PICK e \in Cases : /\ tokens = e.tokens /\ supply = e.supply /\ escrow = e.escrow
                         /\ priced = e.priced /\ tokenDocs = [k \in e.known |-> NewToken(k)]
  BY DEF Init
<1>2. /\ supplyCache = [c \in Chain |-> NoCache] /\ amountCache = [c \in Chain |-> NoCache]
      /\ traces = [k \in {} |-> {}]
      /\ heat = [c \in Chain |-> [at |-> "idle", page |-> NoCache, rest |-> {}]]
      /\ tok = NoTok /\ exact = {}
  BY DEF Init, TokensInit
<1>3. BankOK
  BY <1>1, ShapesAssumption DEF BankOK, Keys
<1>4. priced \in BOOLEAN /\ DOMAIN tokenDocs \subseteq Key
  BY <1>1, ShapesAssumption
<1>5. ASSUME NEW k \in DOMAIN tokenDocs
      PROVE  tokenDocs[k] \in TokenDoc
  <2>1. (k \in Auth) \in BOOLEAN
    OBVIOUS
  <2>2. NewToken(k) \in TokenDoc
    BY <2>1 DEF NewToken, TokenDoc, Amount
  <2> QED
    BY <1>1, <2>2
<1>6. SuppliesOK
  BY <1>2, <1>4 DEF SuppliesOK, CacheOK, HeatOK, NoCache
<1>7. TokOK
  BY <1>2 DEF NoTok, TokOK, DocsTyped
<1> QED
  BY <1>2, <1>3, <1>4, <1>5, <1>6, <1>7 DEF TokensOK, TokenTaskOK, CacheOK, NoCache, DocsTyped, TracesOK

LEMMA FirstTypes ==
  ASSUME Init
  PROVE  TypesInv
<1>1. focus \in {"channels", "denoms", "tokens"} /\ faults \in Nat
  BY ShapesAssumption DEF Init
<1>2. NamesOK /\ DenomsTypeOK
  BY FirstDenoms, FirstNames, DenomsTyped
<1> QED
  BY <1>1, <1>2, FirstChannels, FirstTokens DEF TypesInv

LEMMA ChannelsStay ==
  ASSUME ChannelsInv, UNCHANGED channelVars
  PROVE  ChannelsInv'
<1>1. /\ UNCHANGED <<conf, configTask>> /\ UNCHANGED <<ends, confirmed, stat, now, steps>>
      /\ UNCHANGED channels /\ UNCHANGED chan /\ UNCHANGED chanDocs /\ UNCHANGED chainDoc
  BY DEF channelVars, network, channelTask
<1>2. ConfigInv'
  BY <1>1, ConfigSame DEF ChannelsInv
<1>3. ConfigOK'
  BY <1>1 DEF ChannelsInv, ConfigOK, InfoOK, configTask
<1>4. NetworkOK'
  BY <1>1 DEF ChannelsInv, NetworkOK
<1>5. ChannelDocsOK'
  BY <1>1 DEF ChannelsInv, ChannelDocsOK, DocsOK, DocOK, Listed
<1> QED
  BY <1>2, <1>3, <1>4, <1>5 DEF ChannelsInv

LEMMA DenomTypesStay ==
  ASSUME UNCHANGED denomVars
  PROVE  (NamesOK => NamesOK') /\ (DenomsTypeOK => DenomsTypeOK') /\ tokens' = tokens
<1>1. /\ UNCHANGED tokens /\ UNCHANGED sends /\ UNCHANGED denoms /\ UNCHANGED txs /\ UNCHANGED sync
      /\ UNCHANGED relate /\ UNCHANGED add /\ UNCHANGED settled /\ UNCHANGED skipped
  BY DEF denomVars
<1> QED
  BY <1>1 DEF NamesOK, DenomsTypeOK

LEMMA TypesInvKept ==
  ASSUME RegistryInv, AmountsInv, TypesInv, [Next]_vars
  PROVE  TypesInv'
<1>1. CASE UNCHANGED vars
  <2>1. UNCHANGED focus /\ UNCHANGED channelVars /\ UNCHANGED denomVars /\ UNCHANGED tokenVars /\ UNCHANGED faults
    BY <1>1 DEF vars
  <2>2. TokensOK'
    BY <2>1, DenomTypesStay, TokensStay DEF TypesInv
  <2> QED
    BY <2>1, <2>2, ChannelsStay, DenomTypesStay DEF TypesInv
<1>2. CASE UNCHANGED <<denomVars, tokenVars>> /\ UNCHANGED focus /\ (ConfigRuns \/ Chains)
  <2>1. UNCHANGED denomVars /\ UNCHANGED tokenVars /\ UNCHANGED focus
    BY <1>2
  <2>2. TokensOK'
    BY <2>1, DenomTypesStay, TokensStay DEF TypesInv
  <2>3. ChannelsInv' /\ faults' \in Nat
    <3>1. CASE ConfigRuns
      BY <3>1, ConfigRunsTyped DEF TypesInv
    <3>2. CASE (\E e \in End : Handshake(e) \/ Transfer(e)) \/ Tick
      BY <3>2, ChainsKeepChannels DEF TypesInv
    <3>3. CASE ChainTask \/ ChannelTask
      BY <3>3, ChainTaskTyped, ChannelTaskTyped DEF TypesInv
    <3> QED
      BY <1>2, <3>1, <3>2, <3>3 DEF Chains
  <2> QED
    BY <2>1, <2>2, <2>3, DenomTypesStay DEF TypesInv
<1>3. CASE focus = "denoms" /\ DenomTasks /\ UNCHANGED <<channelVars, tokenVars>> /\ UNCHANGED focus
  <2>1. UNCHANGED channelVars /\ UNCHANGED tokenVars /\ UNCHANGED focus
    BY <1>3
  <2>2. tokens \subseteq tokens'
    BY <1>3 DEF DenomTasks, SendToken, SyncRead, RelateRead, AddRead, SyncWrite, RelateWrite, AddUpdateTxs,
                AddUpdateDenom, AddUpdateBase, AddDone
  <2>3. NamesOK' /\ faults' \in Nat
    BY <1>3, DenomTasksTyped DEF TypesInv, RegistryInv
  <2>4. TokensOK'
    BY <2>1, <2>2, TokensStay DEF TypesInv
  <2> QED
    BY <1>3, <2>1, <2>3, <2>4, ChannelsStay DEF TypesInv
<1>4. CASE focus = "tokens" /\ TokenTasks /\ UNCHANGED <<channelVars, denomVars>> /\ UNCHANGED focus
  <2>1. UNCHANGED channelVars /\ UNCHANGED denomVars /\ UNCHANGED focus
    BY <1>4
  <2>2. tokens' = tokens /\ DenomsTypeOK'
    BY <1>4, <2>1, DenomTypesStay DEF TypesInv
  <2>3. BankInv /\ BankInv' /\ DenomsLeadHome
    BY <1>4, AmountsInvKept DEF AmountsInv, RegistryInv
  <2>4. TokensOK' /\ faults' \in Nat
    BY <1>4, <2>2, <2>3, TokenTasksTyped DEF TypesInv, ChannelsInv
  <2> QED
    BY <1>4, <2>1, <2>2, <2>4, ChannelsStay DEF TypesInv
<1> QED
  BY <1>1, <1>2, <1>3, <1>4 DEF Next, ConfigRuns

\* What is stored of channels, denoms and tokens keeps its shape; supplies and escrow
\* accounts never become negative, nor does an amount of a trace that is not marked
\* unknown; periods are never longer than the time that has passed; and what the caches
\* have is of tokens of their chains: for any chains, channels, tokens and first states,
\* in whatever order the tasks read each other's results, and whichever answers and
\* writes are lost (setStatusAndOperatingPeriod, ibcDenomAmount, BatchSetSupply).
THEOREM RegistryTypeCorrect == Spec => []TypeOK
<1>1. Init => RegistryInv
  BY FirstConfig, FirstDenoms, InvLeadsHome DEF RegistryInv
<1>2. RegistryInv /\ [Next]_vars => RegistryInv'
  BY RegistryInvKept
<1>3. Init => AmountsInv
  <2>1. Init => exact = {}
    BY DEF Init, TokensInit
  <2> QED
    BY <2>1, FirstBank DEF AmountsInv, ExactInv
<1>4. RegistryInv /\ AmountsInv /\ [Next]_vars => AmountsInv'
  BY AmountsInvKept
<1>5. Init => TypesInv
  BY FirstTypes
<1>6. RegistryInv /\ AmountsInv /\ TypesInv /\ [Next]_vars => TypesInv'
  BY TypesInvKept
<1>7. RegistryInv /\ TypesInv => TypeOK
  <2>1. RegistryInv /\ TypesInv => DenomsTypeOK
    BY DenomsTyped DEF RegistryInv, TypesInv
  <2> QED
    BY <2>1, ChannelsTyped, TokensTyped DEF TypesInv, TypeOK
<1> QED
  BY <1>1, <1>2, <1>3, <1>4, <1>5, <1>6, <1>7, PTL DEF Spec
=============================================================================
