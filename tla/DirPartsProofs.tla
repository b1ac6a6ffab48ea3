--------------------------- MODULE DirPartsProofs ---------------------------
(***************************************************************************)
(* The parts that the reading of a directory is composed of, each for      *)
(* itself and for all values of the constants:                             *)
(*   FileEntry  the list of a file is whole or, after a loss, its          *)
(*              beginning, and no block is read from a wrong place;        *)
(*   Cs0        no write of udf_cs0_to_mutf8 is outside its buffer, and    *)
(*              what it returns is read back as the units of the name;     *)
(*   Decode     whatever lengths a descriptor gives, a decoder that        *)
(*              accepts them reads inside its input and writes inside its  *)
(*              allocation.                                                *)
(***************************************************************************)
EXTENDS FileEntry, Cs0, Decode, TLAPS, WellFoundedInduction

-----------------------------------------------------------------------------
(* Induction on the naturals, as the existence of a least element.         *)
LEMMA NatLess == IsWellFoundedOn({p \in Nat \X Nat : p[1] < p[2]}, Nat)
  BY NatLessThanWellFounded, Zenon DEF OpToRel

LEMMA Least ==
  ASSUME NEW S \in SUBSET Nat, S # {}
  PROVE  \E n \in S : \A m \in S : n <= m
<1>1. PICK x \in S : \A y \in S : <<y, x>> \notin {p \in Nat \X Nat : p[1] < p[2]}
  BY NatLess, WFMin
<1>2. ASSUME NEW y \in S PROVE x <= y
  <2>1. y < x => <<y, x>> \in {p \in Nat \X Nat : p[1] < p[2]}
    OBVIOUS
  <2> QED
    BY <1>1, <2>1
<1> QED
  BY <1>2

(* Whatever holds of 0 and goes on from one number to the next holds of    *)
(* all up to N.                                                            *)
LEMMA UpTo ==
  ASSUME NEW N \in Nat, NEW S, 0 \in S, \A n \in 0 .. N - 1 : n \in S => n + 1 \in S
  PROVE  \A n \in 0 .. N : n \in S
<1> DEFINE T == {n \in 0 .. N : n \notin S}
<1>1. SUFFICES ASSUME T # {} PROVE FALSE
  OBVIOUS
<1>2. T \in SUBSET Nat
  OBVIOUS
<1>3. PICK n \in T : \A k \in T : n <= k
  BY <1>1, <1>2, Least
<1>4. n \in Nat /\ n # 0 /\ n <= N
  OBVIOUS
<1>5. n - 1 \in 0 .. N - 1 /\ n - 1 \in 0 .. N /\ (n - 1) + 1 = n /\ ~(n <= n - 1)
  BY <1>4
<1>6. n - 1 \in S
  BY <1>3, <1>5
<1> QED
  BY <1>5, <1>6

-----------------------------------------------------------------------------
(* The sums of a list of numbers: the recursion defines something.         *)
Summed(f, w, m) == f = [i \in 0 .. m |-> IF i = 0 THEN 0 ELSE f[i - 1] + w[i]]

LEMMA SumsExist ==
  ASSUME NEW w
  PROVE  \A m \in Nat : \E f : Summed(f, w, m)
<1> DEFINE S == {m \in Nat : ~\E f : Summed(f, w, m)}
<1>1. SUFFICES ASSUME S # {} PROVE FALSE
  OBVIOUS
<1>2. PICK m \in S : \A k \in S : m <= k
  BY <1>1, Least, Zenon
<1>3. CASE m = 0
  <2>1. Summed([n \in 0 .. 0 |-> 0], w, 0)
    BY DEF Summed
  <2> QED
    BY <1>2, <1>3, <2>1
<1>4. CASE m # 0
  <2>1. m - 1 \in Nat /\ m \in Nat /\ ~(m <= m - 1)
    BY <1>4
  <2>2. PICK f : Summed(f, w, m - 1)
    BY <1>2, <2>1
  <2> DEFINE g == [n \in 0 .. m |-> IF n = m THEN f[m - 1] + w[m] ELSE f[n]]
  <2>3. \A n \in 0 .. m : g[n] = IF n = 0 THEN 0 ELSE g[n - 1] + w[n]
    <3> SUFFICES ASSUME NEW n \in 0 .. m
                 PROVE  g[n] = IF n = 0 THEN 0 ELSE g[n - 1] + w[n]
      OBVIOUS
    <3>1. CASE n = m
      <4>1. g[n - 1] = f[m - 1] /\ g[n] = f[m - 1] + w[m]
        BY <2>1, <3>1
      <4> QED
        BY <1>4, <3>1, <4>1
    <3>2. CASE n # m
      <4>1. n \in 0 .. m - 1 /\ (n # 0 => n - 1 \in 0 .. m - 1)
        BY <2>1, <3>2
      <4>2. g[n] = f[n] /\ (n # 0 => g[n - 1] = f[n - 1])
        BY <2>1, <3>2, <4>1
      <4>3. f[n] = IF n = 0 THEN 0 ELSE f[n - 1] + w[n]
        BY <2>2, <4>1 DEF Summed
      <4> QED
        BY <4>1, <4>2, <4>3
    <3> QED
      BY <3>1, <3>2
  <2>4. Summed(g, w, m)
    <3>1. g = [n \in 0 .. m |-> g[n]]
      OBVIOUS
    <3> HIDE DEF g
    <3> QED
      BY <2>3, <3>1 DEF Summed
  <2> QED
    BY <1>2, <2>4
<1> QED
  BY <1>3, <1>4

LEMMA SumsAre ==
  ASSUME NEW w \in Seq(Nat)
  PROVE  /\ Sums(w) \in [0 .. Len(w) -> Nat]
         /\ Sums(w)[0] = 0
         /\ \A i \in 1 .. Len(w) : Sums(w)[i] = Sums(w)[i - 1] + w[i]
<1>0. Len(w) \in Nat
  OBVIOUS
<1>1. Summed(Sums(w), w, Len(w))
  <2>1. Sums(w) = CHOOSE f : Summed(f, w, Len(w))
    BY DEF Sums, Summed
  <2>2. \E f : Summed(f, w, Len(w))
    BY <1>0, SumsExist
  <2> QED
    BY <2>1, <2>2
<1> DEFINE s == Sums(w)
<1> HIDE DEF s
<1>2. s = [i \in 0 .. Len(w) |-> IF i = 0 THEN 0 ELSE s[i - 1] + w[i]]
  BY <1>1 DEF s, Summed
<1>3. s[0] = 0
  BY <1>0, <1>2
<1>4. \A i \in 1 .. Len(w) : s[i] = s[i - 1] + w[i]
  BY <1>0, <1>2
<1>5. \A i \in 0 .. Len(w) : i \in {j \in 0 .. Len(w) : s[j] \in Nat}
  <2>1. 0 \in {j \in 0 .. Len(w) : s[j] \in Nat}
    BY <1>0, <1>3
  <2>2. ASSUME NEW n \in 0 .. Len(w) - 1, n \in {j \in 0 .. Len(w) : s[j] \in Nat}
        PROVE  n + 1 \in {j \in 0 .. Len(w) : s[j] \in Nat}
    <3>1. n + 1 \in 1 .. Len(w) /\ (n + 1) - 1 = n /\ n + 1 \in 0 .. Len(w)
      BY <1>0
    <3>2. w[n + 1] \in Nat
      BY <3>1
    <3>3. s[n + 1] = s[n] + w[n + 1]
      BY <1>4, <3>1
    <3> QED
      BY <2>2, <3>1, <3>2, <3>3
  <2> QED
    BY <1>0, <2>1, <2>2, UpTo
<1>6. s \in [0 .. Len(w) -> Nat]
  BY <1>2, <1>5
<1> QED
  BY <1>3, <1>4, <1>6 DEF s

(* They grow.                                                              *)
LEMMA SumsGrow ==
  ASSUME NEW w \in Seq(Nat), NEW i \in 0 .. Len(w), NEW j \in 0 .. Len(w), i <= j
  PROVE  Sums(w)[i] <= Sums(w)[j]
<1> DEFINE S == {n \in 0 .. Len(w) : i <= n => Sums(w)[i] <= Sums(w)[n]}
<1>0. Len(w) \in Nat
  OBVIOUS
<1>1. 0 \in S
  BY <1>0, SumsAre
<1>2. ASSUME NEW n \in 0 .. Len(w) - 1, n \in S PROVE n + 1 \in S
  <2>1. n + 1 \in 1 .. Len(w) /\ (n + 1) - 1 = n /\ n + 1 \in 0 .. Len(w) /\ n \in 0 .. Len(w)
    BY <1>0
  <2>2. w[n + 1] \in Nat
    BY <2>1
  <2>3. Sums(w)[n + 1] = Sums(w)[n] + w[n + 1]
    BY <2>1, SumsAre
  <2>4. Sums(w)[n] \in Nat /\ Sums(w)[i] \in Nat
    BY <2>1, SumsAre
  <2>5. CASE i <= n
    BY <1>2, <2>1, <2>2, <2>3, <2>4, <2>5
  <2>6. CASE ~(i <= n)
    <3>1. i <= n + 1 => i = n + 1
      BY <2>6
    <3> QED
      BY <2>1, <2>2, <2>3, <2>4, <3>1
  <2> QED
    BY <2>5, <2>6
<1> HIDE DEF S
<1>3. \A n \in 0 .. Len(w) : n \in S
  BY <1>0, <1>1, <1>2, UpTo
<1> QED
  BY <1>3 DEF S

-----------------------------------------------------------------------------
(* Descriptors and parts of the list.                                      *)
Ads == {s \in Seq(Ad) : \A i \in 1 .. Len(s) : IsData(s[i])}
LeadsInto(a, b) == Len(a) <= Len(b) /\ \A i \in 1 .. Len(a) : a[i] = b[i]

LEMMA AdAt ==
  ASSUME NEW a \in Seq(Ad), NEW i \in 1 .. Len(a)
  PROVE  a[i] \in Ad /\ a[i].blocks \in Nat /\ a[i].lba \in Nat
<1>1. a[i] \in Ad
  OBVIOUS
<1> QED
  BY <1>1 DEF Ad

LEMMA FrontIs ==
  ASSUME NEW S, NEW s \in Seq(S), s # <<>>
  PROVE  /\ Len(s) \in Nat \ {0}
         /\ SubSeq(s, 1, Len(s) - 1) \in Seq(S)
         /\ Len(SubSeq(s, 1, Len(s) - 1)) = Len(s) - 1
         /\ \A i \in 1 .. Len(s) - 1 : SubSeq(s, 1, Len(s) - 1)[i] = s[i]
<1>1. Len(s) \in Nat \ {0} /\ Len(s) - 1 \in Nat
  OBVIOUS
<1>2. \A i \in 1 .. Len(s) - 1 : s[i] \in S
  BY <1>1
<1>3. SubSeq(s, 1, Len(s) - 1) = [i \in 1 .. Len(s) - 1 |-> s[i]]
  BY <1>1
<1>4. [i \in 1 .. Len(s) - 1 |-> s[i]] \in Seq(S)
  BY <1>1, <1>2
<1>5. Len(SubSeq(s, 1, Len(s) - 1)) = Len(s) - 1
  BY <1>1
<1> QED
  BY <1>1, <1>3, <1>4, <1>5

LEMMA ConcatIs ==
  ASSUME NEW S, NEW s \in Seq(S), NEW t \in Seq(S)
  PROVE  /\ s \o t \in Seq(S)
         /\ Len(s \o t) = Len(s) + Len(t)
         /\ \A i \in 1 .. Len(s) : (s \o t)[i] = s[i]
         /\ \A i \in 1 .. Len(t) : (s \o t)[Len(s) + i] = t[i]
OBVIOUS

LEMMA AdsConcat ==
  ASSUME NEW s \in Ads, NEW t \in Ads
  PROVE  s \o t \in Ads /\ LeadsInto(s, s \o t)
<1>1. s \in Seq(Ad) /\ t \in Seq(Ad) /\ Len(s) \in Nat /\ Len(t) \in Nat
  BY DEF Ads
<1>2. /\ s \o t \in Seq(Ad) /\ Len(s \o t) = Len(s) + Len(t)
      /\ \A i \in 1 .. Len(s) : (s \o t)[i] = s[i]
      /\ \A i \in 1 .. Len(t) : (s \o t)[Len(s) + i] = t[i]
  BY <1>1, ConcatIs
<1>3. ASSUME NEW i \in 1 .. Len(s \o t) PROVE IsData((s \o t)[i])
  <2>1. CASE i <= Len(s)
    <3>1. i \in 1 .. Len(s)
      BY <1>1, <1>2, <2>1
    <3> QED
      BY <1>2, <3>1 DEF Ads
  <2>2. CASE ~(i <= Len(s))
    <3>1. i - Len(s) \in 1 .. Len(t) /\ Len(s) + (i - Len(s)) = i
      BY <1>1, <1>2, <2>2
    <3>2. (s \o t)[i] = t[i - Len(s)]
      BY <1>2, <3>1
    <3> QED
      BY <3>1, <3>2 DEF Ads
  <2> QED
    BY <2>1, <2>2
<1>4. s \o t \in Ads
  <2> DEFINE r == s \o t
  <2>1. r \in Seq(Ad) /\ \A i \in 1 .. Len(r) : IsData(r[i])
    BY <1>2, <1>3
  <2> HIDE DEF r
  <2>2. r \in Ads
    BY <2>1 DEF Ads
  <2> QED
    BY <2>2 DEF r
<1>5. LeadsInto(s, s \o t)
  BY <1>1, <1>2 DEF LeadsInto
<1> QED
  BY <1>4, <1>5

LEMMA DataIs ==
  ASSUME NEW p, Formed(p)
  PROVE  p \in Part /\ p.ads \in Seq(Ad) /\ Data(p) \in Ads
<1>1. p \in Part /\ p.ads \in Seq(Ad) /\ DOMAIN p.ads = 1 .. Len(p.ads) /\ Len(p.ads) \in Nat
  BY DEF Formed, Part
<1>2. \A i \in 1 .. Len(p.ads) : IsData(p.ads[i]) \/ i = Len(p.ads)
  BY <1>1 DEF Formed
<1>3. CASE Ends(p)
  <2>1. Data(p) = p.ads
    BY <1>3 DEF Data
  <2>2. ASSUME NEW i \in 1 .. Len(p.ads) PROVE IsData(p.ads[i])
    <3>1. p.ads # <<>>
      BY <1>1
    <3> QED
      BY <1>2, <1>3, <3>1 DEF Ends
  <2> QED
    BY <1>1, <2>1, <2>2 DEF Ads
<1>4. CASE ~Ends(p)
  <2>1. p.ads # <<>> /\ Data(p) = SubSeq(p.ads, 1, Len(p.ads) - 1)
    BY <1>4 DEF Ends, Data
  <2>2. /\ Data(p) \in Seq(Ad) /\ Len(Data(p)) = Len(p.ads) - 1
        /\ \A i \in 1 .. Len(p.ads) - 1 : Data(p)[i] = p.ads[i]
    BY <1>1, <2>1, FrontIs
  <2>3. ASSUME NEW i \in 1 .. Len(Data(p)) PROVE IsData(Data(p)[i])
    <3>1. i \in 1 .. Len(p.ads) - 1 /\ i \in 1 .. Len(p.ads) /\ i # Len(p.ads)
      BY <1>1, <2>2
    <3> QED
      BY <1>2, <2>2, <3>1
  <2> DEFINE d == Data(p)
  <2>4. d \in Seq(Ad) /\ \A i \in 1 .. Len(d) : IsData(d[i])
    BY <2>2, <2>3
  <2> HIDE DEF d
  <2>5. d \in Ads
    BY <2>4 DEF Ads
  <2> QED
    BY <1>1, <2>5 DEF d
<1> QED
  BY <1>1, <1>3, <1>4

LEMMA NoPartIs == Formed(NoPart) /\ Ends(NoPart) /\ Data(NoPart) = <<>>
<1>1. NoPart.ads = <<>> /\ NoPart.ads \in Seq(Ad)
  BY DEF NoPart
<1>2. NoPart \in Part
  BY <1>1 DEF NoPart, Part
<1> QED
  BY <1>1, <1>2 DEF Formed, Ends, Data

LEMMA FollowingIs ==
  ASSUME NEW m \in Media, NEW p
  PROVE  /\ Formed(Following(m, p))
         /\ Ends(p) => Following(m, p) = NoPart
  BY MediaAssumption, NoPartIs DEF Following

-----------------------------------------------------------------------------
(* The chain of a recorded file.                                           *)
Link(m, l) == [part |-> Following(m, l.part), list |-> l.list \o Data(Following(m, l.part))]
Linked(c, m, k) ==
  c = [n \in 0 .. k |-> IF n = 0 THEN [part |-> m.entry, list |-> Data(m.entry)] ELSE Link(m, c[n - 1])]

LEMMA LinkIs ==
  ASSUME NEW m, NEW l
  PROVE  /\ Link(m, l).part = Following(m, l.part)
         /\ Link(m, l).list = l.list \o Data(Following(m, l.part))
BY DEF Link

LEMMA ChainExists ==
  ASSUME NEW m
  PROVE  \A k \in Nat : \E c : Linked(c, m, k)
<1> DEFINE first == [part |-> m.entry, list |-> Data(m.entry)]
<1> DEFINE S == {k \in Nat : ~\E c : Linked(c, m, k)}
<1>0. \A c, k : Linked(c, m, k) <=> c = [n \in 0 .. k |-> IF n = 0 THEN first ELSE Link(m, c[n - 1])]
  BY DEF Linked
<1> HIDE DEF first
<1>1. SUFFICES ASSUME S # {} PROVE FALSE
  OBVIOUS
<1>2. PICK k \in S : \A j \in S : k <= j
  BY <1>1, Least, Zenon
<1>3. CASE k = 0
  <2> DEFINE f == [n \in 0 .. 0 |-> first]
  <2>1. f = [n \in 0 .. 0 |-> IF n = 0 THEN first ELSE Link(m, f[n - 1])]
    OBVIOUS
  <2> HIDE DEF f
  <2>2. Linked(f, m, 0)
    BY <1>0, <2>1, Zenon
  <2> QED
    BY <1>2, <1>3, <2>2
<1>4. CASE k # 0
  <2>1. k - 1 \in Nat /\ k \in Nat /\ ~(k <= k - 1)
    BY <1>4
  <2>2. PICK f : Linked(f, m, k - 1)
    BY <1>2, <2>1
  <2> DEFINE g == [n \in 0 .. k |-> IF n = k THEN Link(m, f[k - 1]) ELSE f[n]]
  <2>3. \A n \in 0 .. k : g[n] = IF n = 0 THEN first ELSE Link(m, g[n - 1])
    <3> SUFFICES ASSUME NEW n \in 0 .. k
                 PROVE  g[n] = IF n = 0 THEN first ELSE Link(m, g[n - 1])
      OBVIOUS
    <3>1. CASE n = k
      <4>1. g[n - 1] = f[k - 1] /\ g[n] = Link(m, f[k - 1])
        BY <2>1, <3>1
      <4> QED
        BY <1>4, <3>1, <4>1
    <3>2. CASE n # k
      <4>1. n \in 0 .. k - 1 /\ (n # 0 => n - 1 \in 0 .. k - 1)
        BY <2>1, <3>2
      <4>2. g[n] = f[n] /\ (n # 0 => g[n - 1] = f[n - 1])
        BY <2>1, <3>2, <4>1
      <4>3. f[n] = IF n = 0 THEN first ELSE Link(m, f[n - 1])
        BY <1>0, <2>2, <4>1
      <4> QED
        BY <4>1, <4>2, <4>3
    <3> QED
      BY <3>1, <3>2
  <2>4. Linked(g, m, k)
    <3>1. g = [n \in 0 .. k |-> g[n]]
      OBVIOUS
    <3> HIDE DEF g
    <3>2. g = [n \in 0 .. k |-> IF n = 0 THEN first ELSE Link(m, g[n - 1])]
      BY <2>3, <3>1
    <3> QED
      BY <1>0, <3>2, Zenon
  <2> QED
    BY <1>2, <2>4
<1> QED
  BY <1>3, <1>4

LEMMA ChainIs ==
  ASSUME NEW m
  PROVE  /\ Chain(m)[0] = [part |-> m.entry, list |-> Data(m.entry)]
         /\ \A n \in 1 .. MaxParts : Chain(m)[n] = Link(m, Chain(m)[n - 1])
<1>0. MaxParts \in Nat
  BY BoundAssumption
<1>1. Linked(Chain(m), m, MaxParts)
  <2>1. Chain(m) = CHOOSE c : Linked(c, m, MaxParts)
    BY DEF Chain, Linked, Link
  <2>2. \E c : Linked(c, m, MaxParts)
    BY <1>0, ChainExists
  <2> QED
    BY <2>1, <2>2
<1> DEFINE c == Chain(m)
<1>2. Linked(c, m, MaxParts)
  BY <1>1
<1> HIDE DEF c
<1>3. \A n \in 0 .. MaxParts :
        c[n] = IF n = 0 THEN [part |-> m.entry, list |-> Data(m.entry)] ELSE Link(m, c[n - 1])
  BY <1>2 DEF Linked
<1>4. c[0] = [part |-> m.entry, list |-> Data(m.entry)]
  BY <1>0, <1>3
<1>5. \A n \in 1 .. MaxParts : c[n] = Link(m, c[n - 1])
  BY <1>0, <1>3
<1> QED
  BY <1>4, <1>5 DEF c

LEMMA ChainTypes ==
  ASSUME NEW m \in Media
  PROVE  \A n \in 0 .. MaxParts : Formed(Chain(m)[n].part) /\ Chain(m)[n].list \in Ads
<1> DEFINE c == Chain(m)
<1> DEFINE S == {n \in 0 .. MaxParts : Formed(c[n].part) /\ c[n].list \in Ads}
<1>0. MaxParts \in Nat
  BY BoundAssumption
<1>1. c[0] = [part |-> m.entry, list |-> Data(m.entry)] /\ \A n \in 1 .. MaxParts : c[n] = Link(m, c[n - 1])
  BY ChainIs
<1> HIDE DEF c
<1>2. 0 \in S
  <2>1. Formed(m.entry)
    BY MediaAssumption
  <2>2. c[0].part = m.entry /\ c[0].list = Data(m.entry)
    BY <1>1
  <2> QED
    BY <1>0, <2>1, <2>2, DataIs
<1>3. ASSUME NEW n \in 0 .. MaxParts - 1, n \in S PROVE n + 1 \in S
  <2>1. n + 1 \in 0 .. MaxParts /\ n + 1 \in 1 .. MaxParts /\ (n + 1) - 1 = n
    BY <1>0
  <2> DEFINE p == Following(m, c[n].part)
  <2>2. c[n + 1] = Link(m, c[n])
    BY <1>1, <2>1
  <2>3. c[n + 1].part = p /\ c[n + 1].list = c[n].list \o Data(p)
    BY <2>2, LinkIs
  <2>4. Formed(p)
    BY FollowingIs
  <2> HIDE DEF p
  <2>5. Data(p) \in Ads
    BY <2>4, DataIs
  <2>6. c[n].list \in Ads
    BY <1>3
  <2>7. c[n].list \o Data(p) \in Ads
    BY <2>5, <2>6, AdsConcat
  <2> QED
    BY <2>1, <2>3, <2>4, <2>7
<1> HIDE DEF S
<1>4. \A n \in 0 .. MaxParts : n \in S
  BY <1>0, <1>2, <1>3, UpTo
<1> QED
  BY <1>4 DEF S, c

LEMMA LeadsTrans ==
  ASSUME NEW a \in Ads, NEW b \in Ads, NEW c \in Ads, LeadsInto(a, b), LeadsInto(b, c)
  PROVE  LeadsInto(a, c)
<1>1. Len(a) \in Nat /\ Len(b) \in Nat /\ Len(c) \in Nat
  BY DEF Ads
<1> QED
  BY <1>1 DEF LeadsInto

LEMMA LeadsSelf == \A a \in Ads : LeadsInto(a, a)
BY DEF Ads, LeadsInto

(* The list grows along the chain until a part without a pointer.          *)
LEMMA ChainGrows ==
  ASSUME NEW m \in Media, NEW n \in 0 .. MaxParts
  PROVE  /\ LeadsInto(Chain(m)[n].list, Chain(m)[MaxParts].list)
         /\ Ends(Chain(m)[n].part) => Chain(m)[n].list = Chain(m)[MaxParts].list
<1> DEFINE c == Chain(m)
<1> DEFINE After(k) ==
      /\ LeadsInto(c[n].list, c[k].list)
      /\ Ends(c[n].part) => Ends(c[k].part) /\ c[k].list = c[n].list
<1> DEFINE S == {k \in 0 .. MaxParts : n <= k => After(k)}
<1>0. MaxParts \in Nat
  BY BoundAssumption
<1>1. /\ \A k \in 1 .. MaxParts : c[k] = Link(m, c[k - 1])
      /\ \A k \in 0 .. MaxParts : c[k].list \in Ads
  BY ChainIs, ChainTypes
<1> HIDE DEF c
<1>2. After(n)
  BY <1>1, LeadsSelf
<1>3. 0 \in S
  <2>1. n <= 0 => n = 0
    BY <1>0
  <2> QED
    BY <1>0, <1>2, <2>1
<1>4. ASSUME NEW k \in 0 .. MaxParts - 1, k \in S PROVE k + 1 \in S
  <2>1. k + 1 \in 0 .. MaxParts /\ k + 1 \in 1 .. MaxParts /\ (k + 1) - 1 = k /\ k \in 0 .. MaxParts
    BY <1>0
  <2>2. CASE n <= k
    <3> DEFINE p == Following(m, c[k].part)
    <3>1. c[k + 1] = Link(m, c[k])
      BY <1>1, <2>1
    <3>2. c[k + 1].part = p /\ c[k + 1].list = c[k].list \o Data(p)
      BY <3>1, LinkIs
    <3>3. Formed(p) /\ (Ends(c[k].part) => p = NoPart)
      BY FollowingIs
    <3> HIDE DEF p
    <3>4. Data(p) \in Ads
      BY <3>3, DataIs
    <3>5. LeadsInto(c[k].list, c[k + 1].list)
      BY <1>1, <2>1, <3>2, <3>4, AdsConcat
    <3>6. After(k)
      BY <1>4, <2>2
    <3>7. LeadsInto(c[n].list, c[k + 1].list)
      BY <1>1, <2>1, <3>5, <3>6, LeadsTrans
    <3>8. Ends(c[k].part) => Ends(c[k + 1].part) /\ c[k + 1].list = c[k].list
      <4>1. c[k].list \o <<>> = c[k].list
        <5>1. c[k].list \in Seq(Ad)
          BY <1>1, <2>1 DEF Ads
        <5> QED
          BY <5>1
      <4> QED
        BY <3>2, <3>3, <4>1, NoPartIs
    <3> QED
      BY <2>1, <3>6, <3>7, <3>8
  <2>3. CASE ~(n <= k)
    <3>1. n <= k + 1 => n = k + 1
      BY <2>3
    <3> QED
      BY <1>2, <2>1, <3>1
  <2> QED
    BY <2>2, <2>3
<1> HIDE DEF S
<1>5. \A k \in 0 .. MaxParts : k \in S
  BY <1>0, <1>3, <1>4, UpTo
<1>6. MaxParts \in 0 .. MaxParts /\ n <= MaxParts
  BY <1>0
<1>7. After(MaxParts)
  BY <1>5, <1>6 DEF S
<1> QED
  BY <1>7 DEF c

-----------------------------------------------------------------------------
(* Where a list has a block: Start counts the blocks before, so at most    *)
(* one descriptor has it, and the beginning of a list says the same of its *)
(* blocks as the whole.                                                    *)
LEMMA StartIs ==
  ASSUME NEW a \in Seq(Ad)
  PROVE  /\ \A i \in 1 .. Len(a) : Start(a)[i] \in Nat
         /\ Len(a) > 0 => Start(a)[1] = 0
         /\ \A i \in 1 .. Len(a) - 1 : Start(a)[i + 1] = Start(a)[i] + a[i].blocks
         /\ \A i, j \in 1 .. Len(a) : i < j => Start(a)[i] + a[i].blocks <= Start(a)[j]
<1> DEFINE w == [i \in 1 .. Len(a) |-> a[i].blocks]
<1>0. Len(a) \in Nat /\ DOMAIN a = 1 .. Len(a) /\ \A i \in 1 .. Len(a) : a[i].blocks \in Nat
  BY AdAt
<1>1. w \in Seq(Nat) /\ Len(w) = Len(a)
  BY <1>0
<1>2. \A i \in 1 .. Len(a) : Start(a)[i] = Sums(w)[i - 1]
  BY <1>0 DEF Start
<1>3. \A i \in 1 .. Len(a) : w[i] = a[i].blocks
  OBVIOUS
<1> HIDE DEF w
<1>4. /\ Sums(w) \in [0 .. Len(w) -> Nat]
      /\ Sums(w)[0] = 0
      /\ \A i \in 1 .. Len(w) : Sums(w)[i] = Sums(w)[i - 1] + w[i]
  BY <1>1, SumsAre
<1>5. ASSUME NEW i \in 1 .. Len(a)
      PROVE  Start(a)[i] \in Nat /\ Sums(w)[i] = Start(a)[i] + a[i].blocks
  <2>1. i - 1 \in 0 .. Len(w) /\ i \in 1 .. Len(w)
    BY <1>0, <1>1
  <2> QED
    BY <1>2, <1>3, <1>4, <2>1
<1>6. Len(a) > 0 => Start(a)[1] = 0
  BY <1>0, <1>2, <1>4
<1>7. ASSUME NEW i \in 1 .. Len(a) - 1 PROVE Start(a)[i + 1] = Start(a)[i] + a[i].blocks
  <2>1. i \in 1 .. Len(a) /\ i + 1 \in 1 .. Len(a) /\ (i + 1) - 1 = i
    BY <1>0
  <2> QED
    BY <1>2, <1>5, <2>1
<1>8. ASSUME NEW i \in 1 .. Len(a), NEW j \in 1 .. Len(a), i < j
      PROVE  Start(a)[i] + a[i].blocks <= Start(a)[j]
  <2>1. i \in 0 .. Len(w) /\ j - 1 \in 0 .. Len(w) /\ i <= j - 1
    BY <1>0, <1>1, <1>8
  <2>2. Sums(w)[i] <= Sums(w)[j - 1]
    BY <1>1, <2>1, SumsGrow
  <2> QED
    BY <1>2, <1>5, <2>2
<1> QED
  BY <1>5, <1>6, <1>7, <1>8

LEMMA StartKept ==
  ASSUME NEW a \in Seq(Ad), NEW b \in Seq(Ad), LeadsInto(a, b)
  PROVE  \A i \in 1 .. Len(a) : Start(a)[i] = Start(b)[i]
<1>0. /\ Len(a) \in Nat /\ Len(b) \in Nat /\ Len(a) <= Len(b)
      /\ \A i \in 1 .. Len(a) : a[i] = b[i]
  BY DEF LeadsInto
<1>1. CASE Len(a) = 0
  BY <1>0, <1>1
<1>2. CASE Len(a) # 0
  <2> DEFINE S == {n \in 0 .. Len(a) - 1 : Start(a)[n + 1] = Start(b)[n + 1]}
  <2>1. 0 \in S
    <3>1. Start(a)[1] = 0 /\ Start(b)[1] = 0
      BY <1>0, <1>2, StartIs
    <3> QED
      BY <1>0, <1>2, <3>1
  <2>2. ASSUME NEW n \in 0 .. (Len(a) - 1) - 1, n \in S PROVE n + 1 \in S
    <3>1. /\ n + 1 \in 1 .. Len(a) - 1 /\ n + 1 \in 1 .. Len(b) - 1 /\ n + 1 \in 1 .. Len(a)
          /\ n + 1 \in 0 .. Len(a) - 1
      BY <1>0, <1>2
    <3>2. Start(a)[(n + 1) + 1] = Start(a)[n + 1] + a[n + 1].blocks
      BY <3>1, StartIs
    <3>3. Start(b)[(n + 1) + 1] = Start(b)[n + 1] + b[n + 1].blocks
      BY <3>1, StartIs
    <3>4. Start(a)[n + 1] = Start(b)[n + 1] /\ a[n + 1] = b[n + 1]
      BY <1>0, <2>2, <3>1
    <3> QED
      BY <3>1, <3>2, <3>3, <3>4
  <2> HIDE DEF S
  <2>3. \A n \in 0 .. Len(a) - 1 : n \in S
    <3>1. Len(a) - 1 \in Nat
      BY <1>0, <1>2
    <3> QED
      BY <2>1, <2>2, <3>1, UpTo
  <2>4. ASSUME NEW i \in 1 .. Len(a) PROVE Start(a)[i] = Start(b)[i]
    <3>1. i - 1 \in 0 .. Len(a) - 1 /\ (i - 1) + 1 = i
      BY <1>0
    <3>2. i - 1 \in S
      BY <2>3, <3>1
    <3> QED
      BY <3>1, <3>2 DEF S
  <2> QED
    BY <2>4
<1> QED
  BY <1>1, <1>2

LEMMA HitOnce ==
  ASSUME NEW a \in Seq(Ad), NEW fb \in Nat, NEW i \in Hit(a, fb), NEW j \in Hit(a, fb)
  PROVE  i = j
<1>1. /\ i \in 1 .. Len(a) /\ j \in 1 .. Len(a) /\ Len(a) \in Nat
      /\ Start(a)[i] <= fb /\ fb < Start(a)[i] + a[i].blocks
      /\ Start(a)[j] <= fb /\ fb < Start(a)[j] + a[j].blocks
  BY DEF Hit
<1>2. /\ Start(a)[i] \in Nat /\ Start(a)[j] \in Nat /\ a[i].blocks \in Nat /\ a[j].blocks \in Nat
  BY <1>1, StartIs, AdAt
<1>3. /\ i < j => Start(a)[i] + a[i].blocks <= Start(a)[j]
      /\ j < i => Start(a)[j] + a[j].blocks <= Start(a)[i]
  BY <1>1, StartIs
<1>4. i < j \/ j < i \/ i = j
  BY <1>1
<1> QED
  BY <1>1, <1>2, <1>3, <1>4

LEMMA FileLbaIs ==
  ASSUME NEW a \in Seq(Ad), NEW fb \in Nat
  PROVE  /\ FileLba(a, fb) \in Nat
         /\ FileLba(a, fb) # 0 => \E i \in Hit(a, fb) : a[i].type = "normal" /\ a[i].lba # 0
         /\ \A i \in Hit(a, fb) :
              a[i].type = "normal" /\ a[i].lba # 0 => FileLba(a, fb) = a[i].lba + (fb - Start(a)[i])
<1>1. ASSUME NEW i \in Hit(a, fb), a[i].type = "normal", a[i].lba # 0
      PROVE  /\ FileLba(a, fb) = a[i].lba + (fb - Start(a)[i])
             /\ a[i].lba + (fb - Start(a)[i]) \in Nat
  <2> DEFINE k == CHOOSE k \in Hit(a, fb) : TRUE
  <2>1. k \in Hit(a, fb)
    OBVIOUS
  <2>2. k = i
    BY <2>1, HitOnce
  <2>3. FileLba(a, fb) = a[k].lba + (fb - Start(a)[k])
    BY <1>1 DEF FileLba
  <2> HIDE DEF k
  <2>4. i \in 1 .. Len(a) /\ Start(a)[i] <= fb
    BY DEF Hit
  <2>5. Start(a)[i] \in Nat /\ a[i].lba \in Nat
    BY <2>4, StartIs, AdAt
  <2> QED
    BY <2>2, <2>3, <2>4, <2>5
<1>2. ASSUME ~\E i \in Hit(a, fb) : a[i].type = "normal" /\ a[i].lba # 0
      PROVE  FileLba(a, fb) = 0
  BY <1>2 DEF FileLba
<1> QED
  BY <1>1, <1>2

LEMMA BeginningAgrees ==
  ASSUME NEW a \in Seq(Ad), NEW b \in Seq(Ad), LeadsInto(a, b), NEW fb \in Nat, FileLba(a, fb) # 0
  PROVE  FileLba(a, fb) = FileLba(b, fb)
<1>1. PICK i \in Hit(a, fb) : a[i].type = "normal" /\ a[i].lba # 0
  BY FileLbaIs
<1>2. /\ i \in 1 .. Len(a) /\ i \in 1 .. Len(b) /\ a[i] = b[i]
  BY DEF Hit, LeadsInto
<1>3. Start(a)[i] = Start(b)[i]
  BY <1>2, StartKept
<1>4. i \in Hit(b, fb)
  BY <1>2, <1>3 DEF Hit
<1>5. FileLba(a, fb) = a[i].lba + (fb - Start(a)[i])
  BY <1>1, FileLbaIs
<1>6. FileLba(b, fb) = b[i].lba + (fb - Start(b)[i])
  BY <1>1, <1>2, <1>4, FileLbaIs
<1> QED
  BY <1>2, <1>3, <1>5, <1>6

-----------------------------------------------------------------------------
(* What has been gathered when the n-th part has just been read.           *)
Before(m, n) == IF n = 0 THEN <<>> ELSE Chain(m)[n - 1].list
UpToPart(m, n) == Before(m, n) \o Chain(m)[n].part.ads

LEMMA SeqEqual ==
  ASSUME NEW S, NEW s \in Seq(S), NEW t \in Seq(S), Len(s) = Len(t),
         \A i \in 1 .. Len(s) : s[i] = t[i]
  PROVE  s = t
<1>1. Len(s) \in Nat
  OBVIOUS
<1>2. s = [i \in 1 .. Len(s) |-> s[i]] /\ t = [i \in 1 .. Len(s) |-> t[i]]
  BY <1>1
<1>3. [i \in 1 .. Len(s) |-> s[i]] = [i \in 1 .. Len(s) |-> t[i]]
  OBVIOUS
<1> QED
  BY <1>2, <1>3

LEMMA BeforeIs ==
  ASSUME NEW m \in Media, NEW n \in 0 .. MaxParts
  PROVE  /\ Before(m, n) \in Ads
         /\ Before(m, n) \o Data(Chain(m)[n].part) = Chain(m)[n].list
<1>0. MaxParts \in Nat
  BY BoundAssumption
<1>1. Chain(m)[n].list \in Ads /\ Formed(Chain(m)[n].part)
  BY ChainTypes
<1>2. CASE n = 0
  <2>1. Before(m, n) = <<>> /\ <<>> \in Ads
    BY <1>2 DEF Before, Ads
  <2>2. Chain(m)[n].list = Data(Chain(m)[n].part)
    <3>1. Chain(m)[0] = [part |-> m.entry, list |-> Data(m.entry)]
      BY ChainIs
    <3> QED
      BY <1>2, <3>1
  <2>3. Data(Chain(m)[n].part) \in Seq(Ad)
    BY <1>1, <2>2 DEF Ads
  <2>4. <<>> \o Data(Chain(m)[n].part) = Data(Chain(m)[n].part)
    BY <2>3
  <2> QED
    BY <2>1, <2>2, <2>4
<1>3. CASE n # 0
  <2>1. n \in 1 .. MaxParts /\ n - 1 \in 0 .. MaxParts
    BY <1>0, <1>3
  <2>2. Chain(m)[n] = Link(m, Chain(m)[n - 1])
    BY <2>1, ChainIs
  <2> QED
    <3>1. /\ Chain(m)[n].part = Following(m, Chain(m)[n - 1].part)
          /\ Chain(m)[n].list = Chain(m)[n - 1].list \o Data(Following(m, Chain(m)[n - 1].part))
      BY <2>2, LinkIs
    <3>2. Before(m, n) = Chain(m)[n - 1].list
      BY <1>3 DEF Before
    <3>3. Chain(m)[n - 1].list \in Ads
      BY <2>1, ChainTypes
    <3> QED
      BY <3>1, <3>2, <3>3
<1> QED
  BY <1>2, <1>3

(* The list goes on exactly if the last part does; without its pointer it  *)
(* is the list of the chain.                                               *)
LEMMA PartGathered ==
  ASSUME NEW m \in Media, NEW n \in 0 .. MaxParts,
         NEW a, a = UpToPart(m, n)
  PROVE  /\ a \in Seq(Ad)
         /\ a = <<>> \/ IsData(a[Len(a)]) => a = Chain(m)[MaxParts].list
         /\ a # <<>> /\ ~IsData(a[Len(a)]) =>
              /\ n < MaxParts
              /\ SubSeq(a, 1, Len(a) - 1) = Chain(m)[n].list
              /\ Chain(m)[n + 1].part = IF a[Len(a)].lba \in DOMAIN m.part
                                          THEN m.part[a[Len(a)].lba] ELSE NoPart
              /\ a[Len(a)].lba \notin DOMAIN m.part => Chain(m)[n].list = Chain(m)[MaxParts].list
<1> DEFINE p == Chain(m)[n].part
<1> DEFINE b == Before(m, n)
<1>0. MaxParts \in Nat
  BY BoundAssumption
<1>1. b \in Ads /\ b \o Data(p) = Chain(m)[n].list /\ Formed(p)
  BY BeforeIs, ChainTypes
<1>2. a = b \o p.ads
  BY DEF UpToPart
<1>3. Ends(p) => Chain(m)[n].list = Chain(m)[MaxParts].list
  BY ChainGrows
<1>4. n < MaxParts => Chain(m)[n + 1].part = Following(m, p)
  <2>1. n < MaxParts => n + 1 \in 1 .. MaxParts /\ (n + 1) - 1 = n
    BY <1>0
  <2>2. n < MaxParts => Chain(m)[n + 1] = Link(m, Chain(m)[n])
    BY <2>1, ChainIs
  <2> QED
    BY <2>2, LinkIs
<1>5. Ends(Chain(m)[MaxParts].part)
  BY MediaAssumption
<1>6. n = MaxParts => Ends(p)
  BY <1>5
<1>7. n + 1 \in 0 .. MaxParts => (Ends(Chain(m)[n + 1].part) => Chain(m)[n + 1].list = Chain(m)[MaxParts].list)
  BY ChainGrows
<1>8. n < MaxParts => Chain(m)[n + 1].list = Chain(m)[n].list \o Data(Following(m, p))
  <2>1. n < MaxParts => n + 1 \in 1 .. MaxParts /\ (n + 1) - 1 = n
    BY <1>0
  <2>2. n < MaxParts => Chain(m)[n + 1] = Link(m, Chain(m)[n])
    BY <2>1, ChainIs
  <2> QED
    BY <2>2, LinkIs
<1>9. Chain(m)[n].list \in Seq(Ad)
  BY ChainTypes DEF Ads
<1> HIDE DEF p, b
<1>10. b \in Seq(Ad) /\ p.ads \in Seq(Ad) /\ Len(b) \in Nat /\ Len(p.ads) \in Nat
      /\ \A i \in 1 .. Len(b) : IsData(b[i])
  BY <1>1, DataIs DEF Ads
<1>11. /\ a \in Seq(Ad) /\ Len(a) = Len(b) + Len(p.ads)
       /\ \A i \in 1 .. Len(b) : a[i] = b[i]
       /\ \A i \in 1 .. Len(p.ads) : a[Len(b) + i] = p.ads[i]
  BY <1>2, <1>10, ConcatIs
<1>12. p.ads # <<>> => a # <<>> /\ a[Len(a)] = p.ads[Len(p.ads)]
  BY <1>10, <1>11
<1>13. p.ads = <<>> => Ends(p) /\ (a # <<>> => IsData(a[Len(a)]))
  <2>1. p.ads = <<>> => Len(a) = Len(b)
    BY <1>10, <1>11
  <2> QED
    BY <1>10, <1>11, <2>1 DEF Ends
<1>14. a = <<>> \/ IsData(a[Len(a)]) => Ends(p)
  BY <1>12, <1>13 DEF Ends
<1>15. Ends(p) => Data(p) = p.ads
  BY DEF Data
<1>16. ASSUME a # <<>>, ~IsData(a[Len(a)])
       PROVE  /\ n < MaxParts
              /\ SubSeq(a, 1, Len(a) - 1) = Chain(m)[n].list
              /\ Chain(m)[n + 1].part = IF a[Len(a)].lba \in DOMAIN m.part
                                          THEN m.part[a[Len(a)].lba] ELSE NoPart
              /\ a[Len(a)].lba \notin DOMAIN m.part => Chain(m)[n].list = Chain(m)[MaxParts].list
  <2>1. p.ads # <<>> /\ a[Len(a)] = p.ads[Len(p.ads)] /\ ~Ends(p)
    BY <1>12, <1>13, <1>16 DEF Ends
  <2>2. n < MaxParts
    BY <1>0, <1>6, <2>1
  <2>3. Data(p) = SubSeq(p.ads, 1, Len(p.ads) - 1)
    BY <2>1 DEF Data
  <2> DEFINE d == Data(p)
  <2> DEFINE f == SubSeq(a, 1, Len(a) - 1)
  <2>4. /\ d \in Seq(Ad) /\ Len(d) = Len(p.ads) - 1
        /\ \A i \in 1 .. Len(p.ads) - 1 : d[i] = p.ads[i]
    BY <1>10, <2>1, <2>3, FrontIs
  <2>5. /\ f \in Seq(Ad) /\ Len(f) = Len(a) - 1
        /\ \A i \in 1 .. Len(a) - 1 : f[i] = a[i]
    BY <1>11, <1>16, FrontIs
  <2> HIDE DEF d, f
  <2>6. /\ b \o d \in Seq(Ad) /\ Len(b \o d) = Len(b) + Len(d)
        /\ \A i \in 1 .. Len(b) : (b \o d)[i] = b[i]
        /\ \A i \in 1 .. Len(d) : (b \o d)[Len(b) + i] = d[i]
    <3>1. b \in Seq(Ad) /\ d \in Seq(Ad)
      BY <1>10, <2>4
    <3> QED
      BY <3>1, ConcatIs
  <2>7. Len(p.ads) \in Nat \ {0} /\ Len(d) \in Nat
    BY <1>10, <2>1, <2>4
  <2>8. Len(f) = Len(b \o d)
    BY <1>10, <1>11, <2>4, <2>5, <2>6, <2>7
  <2>9. ASSUME NEW i \in 1 .. Len(f) PROVE f[i] = (b \o d)[i]
    <3>1. i \in 1 .. Len(a) - 1 /\ i \in Nat /\ i >= 1 /\ i <= Len(b) + Len(d) /\ f[i] = a[i]
      BY <1>10, <1>11, <2>5, <2>6, <2>7, <2>8
    <3>2. CASE i <= Len(b)
      <4>1. i \in 1 .. Len(b)
        BY <1>10, <3>1, <3>2
      <4> QED
        BY <1>11, <2>6, <3>1, <4>1
    <3>3. CASE ~(i <= Len(b))
      <4>1. /\ i - Len(b) \in 1 .. Len(d) /\ i - Len(b) \in 1 .. Len(p.ads)
            /\ i - Len(b) \in 1 .. Len(p.ads) - 1 /\ Len(b) + (i - Len(b)) = i
        BY <1>10, <2>4, <2>7, <3>1, <3>3
      <4>2. a[Len(b) + (i - Len(b))] = p.ads[i - Len(b)]
        BY <1>11, <4>1
      <4>3. (b \o d)[Len(b) + (i - Len(b))] = d[i - Len(b)]
        BY <2>6, <4>1
      <4>4. d[i - Len(b)] = p.ads[i - Len(b)]
        BY <2>4, <4>1
      <4> QED
        BY <3>1, <4>1, <4>2, <4>3, <4>4
    <3> QED
      BY <3>2, <3>3
  <2>10. f = b \o d
    BY <2>5, <2>6, <2>8, <2>9, SeqEqual
  <2>11. SubSeq(a, 1, Len(a) - 1) = Chain(m)[n].list
    BY <1>1, <2>10 DEF f, d
  <2>12. Following(m, p) = IF a[Len(a)].lba \in DOMAIN m.part
                             THEN m.part[a[Len(a)].lba] ELSE NoPart
    BY <2>1 DEF Following
  <2>13. a[Len(a)].lba \notin DOMAIN m.part => Chain(m)[n].list = Chain(m)[MaxParts].list
    <3> SUFFICES ASSUME a[Len(a)].lba \notin DOMAIN m.part
                 PROVE  Chain(m)[n].list = Chain(m)[MaxParts].list
      OBVIOUS
    <3>1. Following(m, p) = NoPart
      BY <2>12
    <3>2. n + 1 \in 0 .. MaxParts
      BY <1>0, <2>2
    <3>3. Chain(m)[n + 1].list = Chain(m)[n].list \o <<>> /\ Ends(Chain(m)[n + 1].part)
      BY <1>4, <1>8, <2>2, <3>1, NoPartIs
    <3>4. Chain(m)[n].list \o <<>> = Chain(m)[n].list
      BY <1>9
    <3> QED
      BY <1>7, <3>2, <3>3, <3>4
  <2> QED
    BY <1>4, <2>2, <2>11, <2>12, <2>13
<1> QED
  BY <1>1, <1>2, <1>3, <1>11, <1>14, <1>15, <1>16

LEMMA SameWhole == medium' = medium => Whole' = Whole
  BY DEF Whole, Chain, Following, Ends, IsData, Data, NoPart

-----------------------------------------------------------------------------
(* The opening of a file.  While the list is gathered nothing is missing   *)
(* from it; an open file has the beginning of the whole list, and all of   *)
(* it if no part was lost.                                                 *)
Gathering == \E n \in 0 .. MaxParts : fe.ads = UpToPart(medium, n)
Gathered == LeadsInto(fe.ads, Whole) /\ (~lost => fe.ads = Whole)
FInv ==
  /\ TypeOK
  /\ pc \in {"closed", "entry"} => ~lost
  /\ pc = "chain" => ~fe.inline /\ ~lost /\ Gathering
  /\ pc = "open" /\ ~fe.inline => Gathered
  /\ pc \in {"chain", "open"} => fe.inline = medium.entry.inline
  /\ NoWrongBlock

(* udf_read_dir returns and frees the entry.                               *)
FreeEntry == pc' = "closed" /\ fe' = NoFe /\ lost' = FALSE /\ UNCHANGED <<medium, asked, got>>

LEMMA SamePart == medium' = medium => \A n \in 0 .. MaxParts : UpToPart(medium, n)' = UpToPart(medium, n)
  BY DEF UpToPart, Before, Chain, Following, Ends, IsData, Data, NoPart

(* NoWrongBlock of a state, the next one too, with its values named.       *)
LEMMA NoWrongBlockIs ==
  \A w, b : w = Whole /\ b = asked =>
    (NoWrongBlock <=> (got.what = "data" => got.lba = FileLba(w, b)))
BY DEF NoWrongBlock

LEMMA NoWrongBlockNext ==
  (\A w, b : w = Whole /\ b = asked =>
    (NoWrongBlock <=> (got.what = "data" => got.lba = FileLba(w, b))))'
BY NoWrongBlockIs, PTL

LEMMA FInvInit == Init => FInv
<1> SUFFICES ASSUME Init PROVE FInv
  OBVIOUS
<1>1. NoFe \in [inline : BOOLEAN, ads : Seq(Ad)] /\ ~NoFe.inline
  BY DEF NoFe
<1> QED
  BY <1>1 DEF Init, FInv, TypeOK, NoWrongBlock, Nothing

(* The list as it is, of a file that is being opened.                      *)
LEMMA ListNow ==
  ASSUME FInv, pc = "chain"
  PROVE  /\ ~Continued => fe.ads = Whole
         /\ Continued =>
              /\ Dropped \in Ads /\ LeadsInto(Dropped, Whole)
              /\ Pointer.lba \notin DOMAIN medium.part => Dropped = Whole
              /\ Pointer.lba \in DOMAIN medium.part =>
                   \E n \in 0 .. MaxParts : Dropped \o medium.part[Pointer.lba].ads = UpToPart(medium, n)
<1>0. MaxParts \in Nat
  BY BoundAssumption
<1>1. PICK m, a : m = medium /\ a = fe.ads
  OBVIOUS
<1>2. m \in Media /\ a \in Seq(Ad) /\ Len(a) \in Nat
  BY <1>1 DEF FInv, TypeOK
<1>3. PICK n \in 0 .. MaxParts : a = UpToPart(m, n)
  BY <1>1 DEF FInv, Gathering
<1>4. Continued <=> a # <<>> /\ ~IsData(a[Len(a)])
  <2>1. a # <<>> <=> Len(a) > 0
    BY <1>2
  <2> QED
    BY <1>1, <2>1 DEF Continued, IsData
<1>5. Whole = Chain(m)[MaxParts].list
  BY <1>1 DEF Whole
<1>6. /\ a = <<>> \/ IsData(a[Len(a)]) => a = Chain(m)[MaxParts].list
      /\ a # <<>> /\ ~IsData(a[Len(a)]) =>
           /\ n < MaxParts
           /\ SubSeq(a, 1, Len(a) - 1) = Chain(m)[n].list
           /\ Chain(m)[n + 1].part = IF a[Len(a)].lba \in DOMAIN m.part
                                       THEN m.part[a[Len(a)].lba] ELSE NoPart
           /\ a[Len(a)].lba \notin DOMAIN m.part => Chain(m)[n].list = Chain(m)[MaxParts].list
  BY <1>2, <1>3, PartGathered
<1>7. Dropped = SubSeq(a, 1, Len(a) - 1) /\ Pointer = a[Len(a)]
  BY <1>1 DEF Dropped, Pointer
<1>8. Chain(m)[n].list \in Ads /\ LeadsInto(Chain(m)[n].list, Chain(m)[MaxParts].list)
  BY <1>2, ChainTypes, ChainGrows
<1>9. ASSUME Continued, Pointer.lba \in DOMAIN medium.part
      PROVE  \E k \in 0 .. MaxParts : Dropped \o medium.part[Pointer.lba].ads = UpToPart(medium, k)
  <2>1. n + 1 \in 0 .. MaxParts /\ n + 1 # 0 /\ (n + 1) - 1 = n
    BY <1>0, <1>4, <1>6, <1>9
  <2>2. Before(m, n + 1) = Dropped
    BY <1>4, <1>6, <1>7, <1>9, <2>1 DEF Before
  <2>3. Chain(m)[n + 1].part = m.part[Pointer.lba]
    BY <1>1, <1>4, <1>6, <1>7, <1>9
  <2>4. UpToPart(m, n + 1) = Dropped \o m.part[Pointer.lba].ads
    BY <2>2, <2>3 DEF UpToPart
  <2> QED
    BY <1>1, <2>1, <2>4
<1> QED
  BY <1>1, <1>4, <1>5, <1>6, <1>7, <1>8, <1>9

LEMMA FInvStep == FInv /\ ([Next]_vars \/ FreeEntry) => FInv'
<1> SUFFICES ASSUME FInv, [Next]_vars \/ FreeEntry PROVE FInv'
  OBVIOUS
<1> USE DEF FInv
<1>0. TypeOK /\ NoWrongBlock /\ medium \in Media
  BY DEF TypeOK
<1>1. medium' = medium
  BY DEF vars, FreeEntry, Next, Call, Work, _file_open, ReadBlock, udfread_file_close,
         EntryFails, ReadEntry, ReadPart, PartFails, ChainEnd
<1>2. Whole' = Whole /\ \A n \in 0 .. MaxParts : UpToPart(medium, n)' = UpToPart(medium, n)
  BY <1>1, SameWhole, SamePart
<1>3. ASSUME NEW w, NEW b, w = Whole, b = asked', got'.what = "data" => got'.lba = FileLba(w, b)
      PROVE  NoWrongBlock'
  <2>1. Whole' = w
    BY <1>2, <1>3
  <2> QED
    BY <1>3, <2>1, NoWrongBlockNext
<1>4. UNCHANGED <<asked, got>> => NoWrongBlock'
  <2>1. PICK w, b : w = Whole /\ b = asked
    OBVIOUS
  <2>2. got.what = "data" => got.lba = FileLba(w, b)
    BY <2>1 DEF NoWrongBlock
  <2> QED
    BY <1>3, <2>1, <2>2
<1>5. NoFe \in [inline : BOOLEAN, ads : Seq(Ad)] /\ ~NoFe.inline /\ Nothing \in [what : {"nothing", "data", "zeros", "error"}, lba : Nat]
  BY DEF NoFe, Nothing
<1>6. CASE UNCHANGED vars
  <2>1. Gathering' <=> Gathering
    BY <1>2, <1>6 DEF vars, Gathering
  <2>2. Gathered' <=> Gathered
    BY <1>2, <1>6 DEF vars, Gathered, LeadsInto
  <2> QED
    BY <1>0, <1>1, <1>4, <1>6, <2>1, <2>2 DEF vars, TypeOK
<1>7. CASE FreeEntry
  BY <1>0, <1>1, <1>4, <1>5, <1>7 DEF FreeEntry, TypeOK
<1>8. CASE _file_open
  BY <1>0, <1>1, <1>4, <1>8 DEF _file_open, TypeOK
<1>9. CASE EntryFails
  BY <1>0, <1>1, <1>4, <1>9 DEF EntryFails, TypeOK
<1>10. CASE ReadEntry
  <2>1. PICK m : m = medium
    OBVIOUS
  <2>2. Formed(m.entry) /\ m.entry \in Part
    BY <1>0, <2>1, MediaAssumption DEF Formed
  <2>3. m.entry.inline \in BOOLEAN /\ m.entry.ads \in Seq(Ad)
    BY <2>2 DEF Part
  <2>4. fe' = [inline |-> m.entry.inline, ads |-> m.entry.ads]
    BY <1>10, <2>1 DEF ReadEntry
  <2>5. pc' = IF m.entry.inline THEN "open" ELSE "chain"
    BY <1>10, <2>1 DEF ReadEntry, AfterEntry
  <2>6. UpToPart(m, 0) = m.entry.ads /\ 0 \in 0 .. MaxParts
    <3>0. Chain(m)[0] = [part |-> m.entry, list |-> Data(m.entry)]
      BY ChainIs
    <3>1. Chain(m)[0].part = m.entry
      BY <3>0
    <3>2. <<>> \o m.entry.ads = m.entry.ads
      BY <2>3
    <3> QED
      BY <3>1, <3>2, BoundAssumption DEF UpToPart, Before
  <2>7. Gathering'
    BY <1>2, <2>1, <2>4, <2>6 DEF Gathering
  <2>8. ~lost /\ UNCHANGED <<medium, lost, asked, got>>
    BY <1>10 DEF ReadEntry
  <2> QED
    BY <1>0, <1>1, <1>4, <2>1, <2>3, <2>4, <2>5, <2>7, <2>8 DEF TypeOK
<1>11. CASE ReadPart
  <2>1. pc = "chain" /\ pc' = pc /\ Continued /\ Pointer.lba \in DOMAIN medium.part
    BY <1>11 DEF ReadPart
  <2>2. fe' = [fe EXCEPT !.ads = Dropped \o medium.part[Pointer.lba].ads]
    BY <1>11 DEF ReadPart
  <2>3. PICK n \in 0 .. MaxParts : Dropped \o medium.part[Pointer.lba].ads = UpToPart(medium, n)
    BY <2>1, ListNow
  <2>4. Dropped \in Seq(Ad)
    BY <2>1, ListNow DEF Ads
  <2>5. medium.part[Pointer.lba].ads \in Seq(Ad)
    <3>1. PICK m, a : m = medium /\ a = Pointer.lba
      OBVIOUS
    <3>2. Formed(m.part[a])
      BY <1>0, <2>1, <3>1, MediaAssumption
    <3>3. m.part[a].ads \in Seq(Ad)
      BY <3>2 DEF Formed, Part
    <3> QED
      BY <3>1, <3>3
  <2>6. Dropped \o medium.part[Pointer.lba].ads \in Seq(Ad)
    BY <2>4, <2>5
  <2>7. fe'.ads = UpToPart(medium, n) /\ fe'.inline = fe.inline /\ fe' \in [inline : BOOLEAN, ads : Seq(Ad)]
    BY <1>0, <2>2, <2>3, <2>6 DEF TypeOK
  <2>8. Gathering'
    BY <1>2, <2>7 DEF Gathering
  <2>9. UNCHANGED <<medium, lost, asked, got>>
    BY <1>11 DEF ReadPart
  <2> QED
    BY <1>0, <1>1, <1>4, <2>1, <2>7, <2>8, <2>9 DEF TypeOK
<1>12. CASE PartFails
  <2>1. pc = "chain" /\ pc' = "open" /\ Continued /\ lost' = TRUE /\ fe' = [fe EXCEPT !.ads = Dropped]
    BY <1>12 DEF PartFails, AfterLoss
  <2>2. Dropped \in Seq(Ad) /\ LeadsInto(Dropped, Whole)
    BY <2>1, ListNow DEF Ads
  <2>3. fe'.ads = Dropped /\ fe'.inline = fe.inline /\ fe' \in [inline : BOOLEAN, ads : Seq(Ad)]
    BY <1>0, <2>1, <2>2 DEF TypeOK
  <2>4. Gathered'
    BY <1>2, <2>1, <2>2, <2>3 DEF Gathered, LeadsInto
  <2>5. UNCHANGED <<medium, asked, got>>
    BY <1>12 DEF PartFails
  <2> QED
    BY <1>0, <1>1, <1>4, <2>1, <2>3, <2>4, <2>5 DEF TypeOK
<1>13. CASE ChainEnd
  <2>1. pc = "chain" /\ pc' = "open" /\ ~Continued /\ UNCHANGED <<medium, fe, lost, asked, got>>
    BY <1>13 DEF ChainEnd
  <2>2. fe.ads = Whole /\ fe.ads \in Seq(Ad)
    BY <1>0, <2>1, ListNow DEF TypeOK
  <2>3. Gathered'
    BY <1>2, <2>1, <2>2 DEF Gathered, LeadsInto
  <2> QED
    BY <1>0, <1>1, <1>4, <2>1, <2>3 DEF TypeOK
<1>14. ASSUME NEW fb \in 0 .. MaxBlocks, ReadBlock(fb) PROVE FInv'
  <2>0. fb \in Nat
    BY BoundAssumption
  <2>1. pc = "open" /\ asked' = fb /\ UNCHANGED <<medium, pc, fe, lost>>
    BY <1>14 DEF ReadBlock
  <2>2. got' = IF fe.inline THEN [what |-> "error", lba |-> 0] ELSE Delivered(fb)
    BY <1>14 DEF ReadBlock
  <2>3. PICK a, w : a = fe.ads /\ w = Whole
    OBVIOUS
  <2>4. a \in Seq(Ad) /\ w \in Seq(Ad)
    <3>1. MaxParts \in 0 .. MaxParts
      BY BoundAssumption
    <3> QED
      BY <1>0, <2>3, <3>1, ChainTypes DEF TypeOK, Whole, Ads
  <2>5. FileLba(a, fb) \in Nat
    BY <2>0, <2>4, FileLbaIs
  <2>6. ~fe.inline => got' = [what |-> IF FileLba(a, fb) # 0 THEN "data"
                                       ELSE IF fb < medium.blocks THEN "zeros" ELSE "error",
                              lba |-> FileLba(a, fb)]
    BY <2>2, <2>3 DEF Delivered
  <2>7. got' \in [what : {"nothing", "data", "zeros", "error"}, lba : Nat]
    BY <2>2, <2>5, <2>6
  <2>8. ~fe.inline => LeadsInto(a, w)
    BY <2>1, <2>3 DEF Gathered
  <2>9. got'.what = "data" => got'.lba = FileLba(w, fb)
    BY <2>0, <2>2, <2>4, <2>6, <2>8, BeginningAgrees
  <2>10. NoWrongBlock'
    BY <1>3, <2>1, <2>3, <2>9
  <2>11. Gathered' <=> Gathered
    BY <1>2, <2>1 DEF Gathered, LeadsInto
  <2> QED
    BY <1>0, <1>1, <2>0, <2>1, <2>7, <2>10, <2>11 DEF TypeOK
<1>15. CASE udfread_file_close
  <2>1. NoWrongBlock'
    BY <1>15 DEF udfread_file_close, NoWrongBlock, Nothing
  <2> QED
    BY <1>0, <1>1, <1>5, <1>15, <2>1 DEF udfread_file_close, TypeOK
<1> QED
  BY <1>6, <1>7, <1>8, <1>9, <1>10, <1>11, <1>12, <1>13, <1>14, <1>15 DEF Next, Call, Work

LEMMA FInvImplies == FInv => TypeOK /\ ListIsWhole /\ NoWrongBlock
BY DEF FInv, ListIsWhole, Gathered

(* Types; data inside the entry of a file stays as it is recorded.         *)
THEOREM FileTypes == Spec => []TypeOK
<1>1. Spec => []FInv
  BY FInvInit, FInvStep, PTL DEF Spec
<1> QED
  BY <1>1, FInvImplies, PTL

(* A file that is opened without a loss has all its descriptors, in order  *)
(* and without the pointers, however many parts its list has.              *)
THEOREM ListsAreWhole == Spec => []ListIsWhole
<1>1. Spec => []FInv
  BY FInvInit, FInvStep, PTL DEF Spec
<1> QED
  BY <1>1, FInvImplies, PTL

(* A block that udfread_read_blocks takes from the volume is the recorded  *)
(* one, after a loss too.                                                  *)
THEOREM NoBlockIsWrong == Spec => []NoWrongBlock
<1>1. Spec => []FInv
  BY FInvInit, FInvStep, PTL DEF Spec
<1> QED
  BY <1>1, FInvImplies, PTL

-----------------------------------------------------------------------------
(* Cs0.  The room left in the buffer is always Len(cs0) - Len(out): the    *)
(* buffer grows by what a unit takes beyond its first byte, and every unit *)
(* has at least one byte of the input, of which the compression id is the  *)
(* first.                                                                  *)

(* What the loop maintains.                                                *)
RoomLeft == size - used = Len(cs0) - Len(out)
Written == \A k \in 1 .. Len(out) : WellFormed(out[k]) /\ Decoded(out[k]) = UnitOf(cs0, k)
Loop ==
  /\ Len(cs0) > 0 /\ cs0[1] \in {8, 16}
  /\ next = 1 + Width * Len(out) /\ next <= Len(cs0)
  /\ RoomLeft
  /\ Written
Finished ==
  /\ used < size
  /\ Len(out) = UnitCount(cs0)
  /\ Written

CInv ==
  /\ CTypeOK
  /\ conv = "loop" => Loop
  /\ conv = "done" => Finished

-----------------------------------------------------------------------------
(* The two longer forms, for any six-bit groups.                           *)
LEMMA TwoForm ==
  ASSUME NEW b, Len(b) = 2, b[1] \in Nat, b[2] \in Nat,
         192 <= b[1], b[1] < 224, 128 <= b[2], b[2] < 192
  PROVE  WellFormed(b) /\ Decoded(b) = (b[1] - 192) * 64 + (b[2] - 128)
<1>2. Announced(b[1]) = 2  BY DEF Announced
<1>3. \A j \in 2 .. Len(b) : j = 2  OBVIOUS
<1>4. WellFormed(b)  BY <1>2, <1>3 DEF WellFormed
<1>5. Decoded(b) = (b[1] - 192) * 64 + (b[2] - 128)  BY DEF Decoded, Tail6
<1> QED  BY <1>4, <1>5

LEMMA ThreeForm ==
  ASSUME NEW b, Len(b) = 3, b[1] \in Nat, b[2] \in Nat, b[3] \in Nat,
         224 <= b[1], b[1] < 240, 128 <= b[2], b[2] < 192, 128 <= b[3], b[3] < 192
  PROVE  /\ WellFormed(b)
         /\ Decoded(b) = (b[1] - 224) * 4096 + (b[2] - 128) * 64 + (b[3] - 128)
<1>2. Announced(b[1]) = 3  BY DEF Announced
<1>3. ASSUME NEW j \in 2 .. Len(b) PROVE j = 2 \/ j = 3
  <2>1. j \in Int /\ 2 <= j /\ j <= 3  OBVIOUS
  <2> QED  BY <2>1
<1>4. WellFormed(b)  BY <1>2, <1>3 DEF WellFormed
<1>5. Decoded(b) = (b[1] - 224) * 4096 + (b[2] - 128) * 64 + (b[3] - 128)
  BY DEF Decoded, Tail6
<1> QED  BY <1>4, <1>5

(* A unit of 16 bits becomes one to three bytes, which are read back as    *)
(* that unit.                                                              *)
LEMMA EncodedRight ==
  ASSUME NEW ch \in Nat, ch < 65536
  PROVE  /\ Encoded(ch) \in Seq(Nat)
         /\ Len(Encoded(ch)) \in 1 .. 3
         /\ WellFormed(Encoded(ch))
         /\ Decoded(Encoded(ch)) = ch
<1>1. CASE ch # 0 /\ ch < 128
  <2>1. Encoded(ch) = <<ch>>  BY <1>1 DEF Encoded, One
  <2> QED  BY <1>1, <2>1 DEF WellFormed, Announced, Decoded
<1>2. CASE ~(ch # 0 /\ ch < 128) /\ ch < 2047
  <2>1. PICK x \in Nat, y \in Nat :
          x = ch \div 64 /\ y = ch % 64 /\ x < 32 /\ y < 64 /\ x * 64 + y = ch
    BY <1>2
  <2> DEFINE b == <<192 + x, 128 + y>>
  <2>2. b = <<192 + x, 128 + y>>  OBVIOUS
  <2> HIDE DEF b
  <2>3. Encoded(ch) = b
    BY <1>2, <2>1, <2>2 DEF Encoded, Two
  <2>4. b \in Seq(Nat) /\ Len(b) = 2 /\ b[1] = 192 + x /\ b[2] = 128 + y
    BY <2>2
  <2>5. WellFormed(b) /\ Decoded(b) = (b[1] - 192) * 64 + (b[2] - 128)
    <3>1. b[1] \in Nat /\ 192 <= b[1] /\ b[1] < 224  BY <2>1, <2>4
    <3>2. b[2] \in Nat /\ 128 <= b[2] /\ b[2] < 192  BY <2>1, <2>4
    <3>3. Len(b) = 2  BY <2>4
    <3> QED  BY <3>1, <3>2, <3>3, TwoForm
  <2>6. Decoded(b) = ch  BY <2>1, <2>4, <2>5
  <2> QED  BY <2>3, <2>4, <2>5, <2>6
<1>3. CASE ~(ch # 0 /\ ch < 128) /\ ~(ch < 2047)
  <2>1. PICK x \in Nat, y \in Nat, z \in Nat :
          /\ x = ch \div 4096 /\ y = (ch \div 64) % 64 /\ z = ch % 64
          /\ x < 16 /\ y < 64 /\ z < 64 /\ x * 4096 + y * 64 + z = ch
    <3>1. /\ ch \div 4096 \in Nat /\ ch \div 4096 < 16
          /\ (ch \div 64) % 64 \in Nat /\ (ch \div 64) % 64 < 64
          /\ ch % 64 \in Nat /\ ch % 64 < 64
      OBVIOUS
    <3>2. (ch \div 4096) * 4096 + ((ch \div 64) % 64) * 64 + (ch % 64) = ch
      OBVIOUS
    <3> QED  BY <3>1, <3>2
  <2> DEFINE b == <<224 + x, 128 + y, 128 + z>>
  <2>2. b = <<224 + x, 128 + y, 128 + z>>  OBVIOUS
  <2> HIDE DEF b
  <2>3. Encoded(ch) = b
    BY <1>3, <2>1, <2>2 DEF Encoded, Three
  <2>4. /\ b \in Seq(Nat) /\ Len(b) = 3
        /\ b[1] = 224 + x /\ b[2] = 128 + y /\ b[3] = 128 + z
    BY <2>2
  <2>5. /\ WellFormed(b)
        /\ Decoded(b) = (b[1] - 224) * 4096 + (b[2] - 128) * 64 + (b[3] - 128)
    <3>1. b[1] \in Nat /\ 224 <= b[1] /\ b[1] < 240  BY <2>1, <2>4
    <3>2. b[2] \in Nat /\ 128 <= b[2] /\ b[2] < 192  BY <2>1, <2>4
    <3>3. b[3] \in Nat /\ 128 <= b[3] /\ b[3] < 192  BY <2>1, <2>4
    <3>4. Len(b) = 3  BY <2>4
    <3> QED  BY <3>1, <3>2, <3>3, <3>4, ThreeForm
  <2>6. Decoded(b) = ch  BY <2>1, <2>4, <2>5
  <2> QED  BY <2>3, <2>4, <2>5, <2>6
<1> QED  BY <1>1, <1>2, <1>3

(* Every unit has the form that modified UTF-8 has for it, but U+07FF: it  *)
(* is written in three bytes instead of two, the test being for less than  *)
(* 0x7ff.                                                                  *)
THEOREM FormsAreRight ==
  ASSUME NEW ch \in Nat, ch < 65536
  PROVE  /\ ch # 2047 => Len(Encoded(ch)) = FormLength(ch)
         /\ ch = 2047 => Len(Encoded(ch)) = 3 /\ FormLength(ch) = 2
<1>1. \A x, y, z : Len(<<x>>) = 1 /\ Len(<<x, y>>) = 2 /\ Len(<<x, y, z>>) = 3
  OBVIOUS
<1>2. Len(One(ch)) = 1 /\ Len(Two(ch)) = 2 /\ Len(Three(ch)) = 3
  BY <1>1 DEF One, Two, Three
<1>3. CASE ch \in 1 .. 127
  <2>1. ch # 0 /\ ch < 128 /\ ch # 2047
    BY <1>3
  <2>2. Encoded(ch) = One(ch) /\ FormLength(ch) = 1
    BY <1>3, <2>1 DEF Encoded, FormLength
  <2> QED
    BY <1>2, <2>1, <2>2
<1>4. CASE ch \notin 1 .. 127 /\ ch < 2047
  <2>1. (ch = 0 \/ 128 <= ch) /\ ch < 2048 /\ ch # 2047
    BY <1>4
  <2>2. ~(ch # 0 /\ ch < 128)
    BY <2>1
  <2>3. Encoded(ch) = Two(ch)
    BY <1>4, <2>2 DEF Encoded
  <2>4. FormLength(ch) = 2
    BY <1>4, <2>1 DEF FormLength
  <2> QED
    BY <1>2, <2>1, <2>3, <2>4
<1>5. CASE ch >= 2047
  BY <1>2, <1>5 DEF Encoded, FormLength
<1> QED
  BY <1>3, <1>4, <1>5

(* The unit that is converted next, in the loop.                           *)
LEMMA UnitIsNext ==
  ASSUME CInv, conv = "loop", MoreUnits
  PROVE  /\ Unit \in Nat /\ Unit < 65536
         /\ Unit = UnitOf(cs0, Len(out) + 1)
         /\ next + Width <= Len(cs0)
<1>1. /\ Len(out) \in Nat /\ Len(cs0) \in Nat /\ next \in Nat /\ cs0 \in Seq(Byte)
  BY DEF CInv, CTypeOK
<1>2. CASE cs0[1] = 8
  <2>1. Width = 1 /\ next = 1 + Len(out) /\ next + 1 <= Len(cs0)
    BY <1>1, <1>2 DEF CInv, Loop, Width, MoreUnits
  <2>2. cs0[next + 1] \in Byte
    BY <1>1, <2>1
  <2> QED  BY <1>1, <1>2, <2>1, <2>2 DEF Unit, UnitOf, Byte
<1>3. CASE cs0[1] # 8
  <2>1. Width = 2 /\ next = 1 + 2 * Len(out) /\ next + 2 <= Len(cs0)
    BY <1>1, <1>3 DEF CInv, Loop, Width, MoreUnits
  <2>2. cs0[next + 1] \in Byte /\ cs0[next + 2] \in Byte
    BY <1>1, <2>1
  <2>3. next + 1 = 2 * (Len(out) + 1) /\ next + 2 = 2 * (Len(out) + 1) + 1
    BY <1>1, <2>1
  <2>4. Unit = 256 * cs0[next + 1] + cs0[next + 2]  BY <1>3 DEF Unit
  <2>5. UnitOf(cs0, Len(out) + 1) = 256 * cs0[next + 1] + cs0[next + 2]
    BY <1>3, <2>3 DEF UnitOf
  <2>6. Unit \in Nat /\ Unit < 65536  BY <2>2, <2>4 DEF Byte
  <2> QED  BY <2>1, <2>4, <2>5, <2>6
<1> QED  BY <1>2, <1>3

LEMMA CInvInit == Idle => CInv
BY DEF Idle, CInv, CTypeOK

LEMMA BeginKeeps ==
  ASSUME CInv, NEW s \in Names, Begin(s) \/ Refuse(s)
  PROVE  CInv'
<1>1. s \in Seq(Byte)  BY NamesAssumption
<1>2. CASE Refuse(s)  BY <1>1, <1>2 DEF Refuse, CInv, CTypeOK
<1>3. CASE Begin(s) /\ s = <<>>
  BY <1>1, <1>3 DEF Begin, CInv, CTypeOK, Finished, Written, UnitCount
<1>4. CASE Begin(s) /\ s # <<>>
  <2>1. /\ cs0' = s /\ out' = <<>> /\ used' = 0 /\ next' = 1 /\ size' = Len(s)
        /\ s[1] \in {8, 16} /\ conv' = "loop" /\ Len(s) \in Nat /\ Len(s) > 0
    BY <1>1, <1>4 DEF Begin
  <2>2. Width' \in {1, 2}  BY <2>1 DEF Width
  <2>3. Len(out') = 0  BY <2>1
  <2>4. Written'  BY <2>3 DEF Written
  <2>5. RoomLeft'  BY <2>1, <2>3 DEF RoomLeft
  <2>6. next' = 1 + Width' * Len(out')
    <3>1. CASE Width' = 1  BY <2>1, <2>3, <3>1
    <3>2. CASE Width' = 2  BY <2>1, <2>3, <3>2
    <3> QED  BY <2>2, <3>1, <3>2
  <2>7. next' <= Len(cs0') /\ Len(cs0') > 0 /\ cs0'[1] \in {8, 16}  BY <2>1
  <2>8. Loop'  BY <2>4, <2>5, <2>6, <2>7 DEF Loop
  <2> QED  BY <1>1, <2>1, <2>8 DEF CInv, CTypeOK
<1> QED  BY <1>2, <1>3, <1>4

LEMMA PutKeeps ==
  ASSUME CInv, Put
  PROVE  CInv'
<1> DEFINE b == Encoded(Unit)
<1>1. /\ Unit \in Nat /\ Unit < 65536 /\ Unit = UnitOf(cs0, Len(out) + 1) /\ next + Width <= Len(cs0)
  BY UnitIsNext DEF Put
<1>2. b \in Seq(Nat) /\ Len(b) \in 1 .. 3 /\ WellFormed(b) /\ Decoded(b) = Unit
  BY <1>1, EncodedRight
<1>3. /\ out' = Append(out, b) /\ used' = used + Len(b) /\ size' = size + (Len(b) - 1)
      /\ next' = next + Width /\ cs0' = cs0 /\ conv' = "loop" /\ conv = "loop"
  BY DEF Put, Grown
<1>4. /\ out \in Seq(Seq(Nat)) /\ used \in Nat /\ size \in Nat /\ next \in Nat
      /\ Len(out) \in Nat /\ Len(cs0) \in Nat /\ Loop
  BY <1>3 DEF CInv, CTypeOK
<1> HIDE DEF b
<1>5. out' \in Seq(Seq(Nat)) /\ Len(out') = Len(out) + 1
  BY <1>2, <1>3, <1>4
<1>6. CTypeOK'
  <2>1. Width \in {1, 2}  BY DEF Width
  <2>2. Len(b) \in Nat /\ Len(b) >= 1  BY <1>2
  <2>3. next' = next + Width /\ next \in Nat  BY <1>3, <1>4
  <2>4. next' \in Nat  BY <2>1, <2>3
  <2>5. used' = used + Len(b) /\ used \in Nat  BY <1>3, <1>4
  <2>6. used' \in Nat  BY <2>2, <2>5
  <2>7. size' = size + (Len(b) - 1) /\ size \in Nat  BY <1>3, <1>4
  <2>8. size' \in Nat  BY <2>2, <2>7
  <2> QED  BY <1>3, <1>5, <2>4, <2>6, <2>8 DEF CInv, CTypeOK
<1>7. Written'
  <2>1. ASSUME NEW k \in 1 .. Len(out')
        PROVE  WellFormed(out'[k]) /\ Decoded(out'[k]) = UnitOf(cs0, k)
    <3>1. CASE k = Len(out) + 1
      <4>1. out'[k] = b  BY <1>3, <1>4, <3>1
      <4> QED  BY <1>1, <1>2, <3>1, <4>1
    <3>2. CASE k # Len(out) + 1
      <4>0. k \in 1 .. Len(out)  BY <1>4, <1>5, <3>2
      <4>1. k \in 1 .. Len(out) /\ out'[k] = out[k]  BY <1>3, <1>4, <4>0
      <4> QED  BY <1>4, <4>1 DEF Loop, Written
    <3> QED  BY <3>1, <3>2
  <2>2. cs0' = cs0  BY <1>3
  <2>3. Written' = (\A k \in 1 .. Len(out') : WellFormed(out'[k]) /\ Decoded(out'[k]) = UnitOf(cs0', k))
    BY DEF Written, WellFormed, Decoded, UnitOf
  <2> QED  BY <2>1, <2>2, <2>3
<1>8. next' = 1 + Width' * Len(out') /\ next' <= Len(cs0')
  <2>1. Width' = Width /\ Width \in {1, 2}  BY <1>3 DEF Width
  <2> QED  BY <1>1, <1>3, <1>4, <1>5, <2>1 DEF Loop
<1>9. RoomLeft'
  <2>1. size - used = Len(cs0) - Len(out)  BY <1>4 DEF Loop, RoomLeft
  <2>2. size' - used' = size - used - 1  BY <1>2, <1>3, <1>4
  <2>3. Len(cs0') - Len(out') = Len(cs0) - Len(out) - 1  BY <1>3, <1>4, <1>5
  <2> QED  BY <2>1, <2>2, <2>3 DEF RoomLeft
<1> QED  BY <1>3, <1>4, <1>6, <1>7, <1>8, <1>9 DEF CInv, Loop

LEMMA TerminateKeeps ==
  ASSUME CInv, Terminate
  PROVE  CInv'
<1>1. /\ conv = "loop" /\ ~MoreUnits /\ conv' = "done"
      /\ cs0' = cs0 /\ next' = next /\ out' = out /\ used' = used /\ size' = size
  BY DEF Terminate
<1>2. /\ Loop /\ Len(out) \in Nat /\ Len(cs0) \in Nat /\ cs0 \in Seq(Byte)
      /\ used \in Nat /\ size \in Nat /\ next \in Nat
  BY <1>1 DEF CInv, CTypeOK
<1>3. Len(out) < Len(cs0)
  <2>1. Width \in {1, 2}  BY DEF Width
  <2> QED  BY <1>2, <2>1 DEF Loop
<1>4. used < size  BY <1>2, <1>3 DEF Loop, RoomLeft
<1>5. Len(out) = UnitCount(cs0)
  <2>1. cs0 # <<>>  BY <1>2 DEF Loop
  <2>2. CASE cs0[1] = 8
    BY <1>1, <1>2, <2>1, <2>2 DEF Loop, Width, MoreUnits, UnitCount
  <2>3. CASE cs0[1] = 16
    <3>1. Len(cs0) - 1 \in {2 * Len(out), 2 * Len(out) + 1}
      BY <1>1, <1>2, <2>3 DEF Loop, Width, MoreUnits
    <3>2. (Len(cs0) - 1) \div 2 = Len(out)  BY <1>2, <3>1
    <3> QED  BY <2>1, <2>3, <3>2 DEF UnitCount
  <2> QED  BY <1>2, <2>2, <2>3 DEF Loop
<1>6. Finished'
  BY <1>1, <1>2, <1>4, <1>5 DEF Finished, Loop, Written, WellFormed, Decoded, UnitOf, UnitCount
<1> QED  BY <1>1, <1>6 DEF CInv, CTypeOK

LEMMA CInvNext == CInv /\ [CNext]_cvars => CInv'
<1> SUFFICES ASSUME CInv, [CNext]_cvars PROVE CInv'  OBVIOUS
<1>1. CASE udf_cs0_to_mutf8  BY <1>1, BeginKeeps DEF udf_cs0_to_mutf8
<1>2. CASE Put  BY <1>2, PutKeeps
<1>3. CASE GrowFails  BY <1>3 DEF GrowFails, CInv, CTypeOK
<1>4. CASE Terminate  BY <1>4, TerminateKeeps
<1>5. CASE HandOver  BY <1>5 DEF HandOver, CInv, CTypeOK
<1>6. CASE UNCHANGED cvars
  BY <1>6 DEF cvars, CInv, CTypeOK, Loop, Finished, RoomLeft, Written, Width,
              WellFormed, Decoded, UnitOf, UnitCount
<1> QED  BY <1>1, <1>2, <1>3, <1>4, <1>5, <1>6 DEF CNext, Convert

LEMMA CInvImplies == CInv => NameFits /\ NameDecodes
<1> SUFFICES ASSUME CInv PROVE NameFits /\ NameDecodes  OBVIOUS
<1>1. out \in Seq(Seq(Nat)) /\ DOMAIN out = 1 .. Len(out) /\ Len(out) \in Nat
      /\ Len(cs0) \in Nat /\ used \in Nat /\ size \in Nat
  BY DEF CInv, CTypeOK
<1>2. CASE conv = "loop"
  <2>1. Width \in {1, 2}  BY DEF Width
  <2>2. Loop  BY <1>2 DEF CInv
  <2>3. Len(out) < Len(cs0)  BY <1>1, <2>1, <2>2 DEF Loop
  <2>4. NameFits  BY <1>1, <2>2, <2>3 DEF NameFits, Loop, RoomLeft
  <2> QED  BY <1>1, <1>2, <2>2, <2>4 DEF NameDecodes, Loop, Written
<1>3. CASE conv = "done"
  <2>1. Finished  BY <1>3 DEF CInv
  <2>2. [k \in DOMAIN out |-> Decoded(out[k])] = Units(cs0)
    BY <1>1, <2>1 DEF Finished, Written, Units
  <2> QED  BY <1>1, <1>3, <2>1, <2>2 DEF NameFits, NameDecodes, Finished, Written
<1> QED  BY <1>2, <1>3 DEF NameFits, NameDecodes

(* No byte is written outside the buffer, for names of any length.         *)
THEOREM NamesFit == CSpec => []NameFits
<1>1. CSpec => []CInv  BY CInvInit, CInvNext, PTL DEF CSpec
<1> QED  BY <1>1, CInvImplies, PTL

(* Every name that is returned stands for exactly the recorded units.      *)
THEOREM NamesDecode == CSpec => []NameDecodes
<1>1. CSpec => []CInv  BY CInvInit, CInvNext, PTL DEF CSpec
<1> QED  BY <1>1, CInvImplies, PTL

-----------------------------------------------------------------------------
(* Decode.                                                                 *)

(* A descriptor inside a list of whole descriptors: the list has room for  *)
(* the stride of each, and no more of it is read.                          *)
LEMMA AdsInList ==
  ASSUME NEW t \in AdTypes, NEW l \in Nat, NEW p \in Nat
  PROVE  /\ NumAd(t, l) \in Nat
         /\ AdsRead(t, p, NumAd(t, l)) \subseteq From(p, l)
<1>1. CASE t = 0
  BY <1>1 DEF AdTypes, NumAd, Stride, Touched, AdsRead, From
<1>2. CASE t = 1
  BY <1>2 DEF AdTypes, NumAd, Stride, Touched, AdsRead, From
<1>3. CASE t = 2
  BY <1>3 DEF AdTypes, NumAd, Stride, Touched, AdsRead, From
<1> QED
  BY <1>1, <1>2, <1>3 DEF AdTypes

(* An array of structs: the i-th of num ends before the array does.        *)
LEMMA ArrayBound ==
  ASSUME NEW s \in Nat, NEW k \in Nat, NEW num \in Nat, k < num
  PROVE  /\ k * s \in Nat /\ num * s \in Nat
         /\ k * s + s <= num * s
<1>1. PICK d \in Nat : num = k + 1 + d
  <2>1. num - k - 1 \in Nat /\ num = k + 1 + (num - k - 1)
    OBVIOUS
  <2> QED
    BY <2>1
<1>2. num * s = k * s + s + d * s
  BY <1>1
<1>3. k * s \in Nat /\ d * s \in Nat
  BY <1>1
<1> QED
  BY <1>2, <1>3

(* _decode_file_entry: the test in 64 bits rules out that the test in 32   *)
(* bits wraps, so that descriptors and inline data lie inside the input.   *)
THEOREM EntryReadsInside ==
  ASSUME NEW fixed \in Fixed, NEW l_ea \in U32, NEW l_ad \in U32, NEW sz \in Nat,
         EntryAccepted(fixed, l_ea, l_ad, sz)
  PROVE  /\ From(PAd(fixed, l_ea), l_ad) \subseteq From(0, sz)
         /\ \A t \in AdTypes :
              AdsRead(t, PAd(fixed, l_ea), NumAd(t, l_ad)) \subseteq From(0, sz)
<1> USE DecodeAssumption
<1>1. l_ea \in Nat /\ l_ad \in Nat /\ fixed \in Nat
  BY DEF U32, Fixed
<1>2. fixed + l_ea < M32 /\ fixed + l_ea + l_ad < M32
  BY <1>1 DEF EntryAccepted, TooLong
<1>3. PAd(fixed, l_ea) = fixed + l_ea
  BY <1>1, <1>2 DEF PAd
<1>4. (fixed + l_ea + l_ad) % M32 = fixed + l_ea + l_ad
  BY <1>1, <1>2
<1>5. PAd(fixed, l_ea) \in Nat /\ PAd(fixed, l_ea) + l_ad <= sz
  BY <1>1, <1>3, <1>4 DEF EntryAccepted
<1>6. From(PAd(fixed, l_ea), l_ad) \subseteq From(0, sz)
  BY <1>1, <1>5 DEF From
<1> QED
  BY <1>1, <1>5, <1>6, AdsInList

(* calloc has room for what _decode_file_entry stores: the descriptors     *)
(* (at least one fits in struct file_entry itself) or the inline data.     *)
THEOREM EntryStoresInside ==
  ASSUME NEW l_ad \in U32, NEW num \in Nat
  PROVE  /\ AdsStored(0, num) \subseteq From(0, EntrySize(num, l_ad))
         /\ InlineStored(l_ad) \subseteq From(0, EntrySize(0, l_ad))
<1> USE DecodeAssumption
<1>1. l_ad \in Nat
  BY DEF U32
<1>2. InlineStored(l_ad) \subseteq From(0, EntrySize(0, l_ad))
  BY <1>1 DEF InlineStored, EntrySize, From
<1>3. ASSUME NEW i \in 0 .. num - 1
      PROVE  From(OffAds + (0 + i) * SizeAd, SizeAd) \subseteq From(0, EntrySize(num, l_ad))
  <2>1. i \in Nat /\ i < num
    BY <1>3
  <2>2. i * SizeAd \in Nat /\ num * SizeAd \in Nat /\ i * SizeAd + SizeAd <= num * SizeAd
    BY <2>1, ArrayBound
  <2>3. SizeAd * (num - 1) = num * SizeAd - SizeAd
    BY <2>1
  <2>4. EntrySize(num, l_ad) = SizeFe + (num * SizeAd - SizeAd)
    BY <2>1, <2>3 DEF EntrySize
  <2>5. (0 + i) * SizeAd = i * SizeAd
    BY <2>1
  <2>6. OffAds + i * SizeAd \in Nat
    BY <2>2
  <2>7. OffAds + i * SizeAd + SizeAd <= EntrySize(num, l_ad)
    BY <2>2, <2>4
  <2> QED
    BY <2>2, <2>4, <2>5, <2>6, <2>7 DEF From
<1>4. AdsStored(0, num) \subseteq From(0, EntrySize(num, l_ad))
  BY <1>3 DEF AdsStored
<1> QED
  BY <1>2, <1>4

(* decode_allocation_extent: the descriptors of an extent lie inside it,   *)
(* and realloc has room for them behind the n that the list has, as long   *)
(* as the number of all of them fits in 32 bits.                           *)
THEOREM ExtentInside ==
  ASSUME NEW l_ad \in U32, NEW sz \in Nat, NEW t \in AdTypes, NEW n \in Nat,
         ExtentAccepted(l_ad, sz), n + NumAd(t, l_ad) < M32
  PROVE  /\ AdsRead(t, ExtentHead, NumAd(t, l_ad)) \subseteq From(0, sz)
         /\ AdsStored(n, NumAd(t, l_ad)) \subseteq From(0, ExtentSize(n, NumAd(t, l_ad)))
<1> USE DecodeAssumption
<1> DEFINE num == NumAd(t, l_ad)
<1>1. l_ad \in Nat
  BY DEF U32
<1>2. num \in Nat /\ AdsRead(t, ExtentHead, num) \subseteq From(ExtentHead, l_ad)
  BY <1>1, AdsInList DEF ExtentHead
<1>3. From(ExtentHead, l_ad) \subseteq From(0, sz)
  BY <1>1 DEF From, ExtentHead, ExtentAccepted
<1> HIDE DEF num
<1>4. ExtentSize(n, num) = SizeFe + SizeAd * (n + num)
  <2>1. (n + num) % M32 = n + num
    BY <1>2 DEF num
  <2> QED
    BY <2>1 DEF ExtentSize
<1>5. ASSUME NEW i \in 0 .. num - 1
      PROVE  From(OffAds + (n + i) * SizeAd, SizeAd) \subseteq From(0, ExtentSize(n, num))
  <2>1. n + i \in Nat /\ n + num \in Nat /\ n + i < n + num
    BY <1>2, <1>5
  <2> DEFINE k == n + i
             all == n + num
  <2>2. k * SizeAd \in Nat /\ all * SizeAd \in Nat /\ k * SizeAd + SizeAd <= all * SizeAd
    <3> HIDE DEF k, all
    <3>1. k \in Nat /\ all \in Nat /\ k < all
      BY <2>1 DEF k, all
    <3> QED
      BY <3>1, ArrayBound
  <2>3. SizeAd * (n + num) = all * SizeAd
    BY <2>1
  <2> HIDE DEF k, all
  <2>4. ExtentSize(n, num) = SizeFe + all * SizeAd
    BY <1>4, <2>3
  <2>5. From(OffAds + k * SizeAd, SizeAd) \subseteq From(0, ExtentSize(n, num))
    BY <2>2, <2>4 DEF From
  <2> QED
    BY <2>5 DEF k
<1>6. AdsStored(n, num) \subseteq From(0, ExtentSize(n, num))
  BY <1>5 DEF AdsStored
<1> QED
  BY <1>2, <1>3, <1>6 DEF num

(* Rounding to a multiple of Pad.                                          *)
LEMMA Rounded ==
  ASSUME NEW x \in Nat
  PROVE  /\ Pad * (x \div Pad) \in Nat
         /\ Pad * (x \div Pad) <= x /\ x < Pad * (x \div Pad) + Pad
<1>0. Pad \in Nat /\ Pad > 0
  BY DecodeAssumption
<1> DEFINE q == x \div Pad
           rest == x % Pad
<1>1. q \in Nat /\ rest \in 0 .. Pad - 1 /\ x = Pad * q + rest
  BY <1>0
<1> HIDE DEF q, rest
<1>2. Pad * q \in Nat
  BY <1>0, <1>1
<1>3. Pad * q <= x /\ x < Pad * q + Pad
  BY <1>0, <1>1, <1>2
<1> QED
  BY <1>2, <1>3 DEF q

(* decode_file_identifier: the name lies inside the input, and the parser  *)
(* goes on behind it, by a multiple of Pad, less than Pad bytes further.   *)
THEOREM IdentifierInside ==
  ASSUME NEW l_fi \in Nat, NEW l_iu \in Nat, NEW sz \in Nat,
         FidAccepted(l_fi, l_iu, sz)
  PROVE  /\ FidName(l_fi, l_iu) \subseteq From(0, sz)
         /\ FidOccupies(l_fi, l_iu) > 0
         /\ FidNeeds(l_fi, l_iu) <= FidOccupies(l_fi, l_iu)
         /\ FidOccupies(l_fi, l_iu) < FidNeeds(l_fi, l_iu) + Pad
<1> USE DecodeAssumption
<1> DEFINE needs == FidNeeds(l_fi, l_iu)
           o == Pad * ((needs + Pad - 1) \div Pad)
<1>1. needs \in Nat /\ needs > 0 /\ needs <= sz
  BY DEF FidNeeds, FidAccepted
<1>2. FidName(l_fi, l_iu) \subseteq From(0, sz)
  BY <1>1 DEF FidName, FidNeeds, From
<1>3. FidOccupies(l_fi, l_iu) = o
  BY DEF FidOccupies
<1> HIDE DEF needs
<1>4. needs + Pad - 1 \in Nat
  BY <1>1
<1>5. o \in Nat /\ o <= needs + Pad - 1 /\ needs + Pad - 1 < o + Pad
  BY <1>4, Rounded
<1> HIDE DEF o
<1>6. needs <= o /\ o < needs + Pad
  BY <1>1, <1>5
<1> QED
  BY <1>1, <1>2, <1>3, <1>5, <1>6 DEF needs

(* udf_parse_partition_maps: however long the maps claim to be, the walk   *)
(* stays inside the table and decode_logical_volume fills it from its      *)
(* block; and each map that is accepted moves the walk on.                 *)
THEOREM MapsInside ==
  ASSUME NEW label \in U32, NEW map \in Nat, NEW type \in Nat, NEW len \in Nat,
         MapGoes(map, label)
  PROVE  /\ From(0, MapsCopied(label)) \subseteq From(0, Table)
         /\ From(MapsAt, MapsCopied(label)) \subseteq From(0, 2048)
         /\ MapHead(map) \subseteq From(0, Table)
         /\ MapAccepted(map, len, label) =>
              MapBody(map, type, len) \subseteq From(0, Table) /\ map + len > map
<1>1. label \in Nat
  BY DecodeAssumption DEF U32
<1>2. MapsCopied(label) \in Nat /\ MapsCopied(label) <= 1608
  BY <1>1 DEF MapsCopied, AtMost, Table, MapsInBlock, MapsAt
<1>3. MapsEnd(label) \in 0 .. 2048
  BY <1>1 DEF MapsEnd, Table
<1>4. MapHead(map) \subseteq From(0, Table)
  BY <1>3 DEF MapGoes, MapHead, From, Table
<1>5. ASSUME MapAccepted(map, len, label)
      PROVE  MapBody(map, type, len) \subseteq From(0, Table) /\ map + len > map
  <2>1. map + len <= 2048 /\ len >= 2
    BY <1>3, <1>5 DEF MapAccepted
  <2>2. CASE type = 1 /\ len = 6
    BY <2>1, <2>2 DEF MapBody, From, Table
  <2>3. CASE type = 2 /\ len = 64
    BY <2>1, <2>3 DEF MapBody, From, Table
  <2>4. CASE ~(type = 1 /\ len = 6) /\ ~(type = 2 /\ len = 64)
    BY <2>1, <2>4 DEF MapBody
  <2> QED
    BY <2>2, <2>3, <2>4
<1>6. /\ From(0, MapsCopied(label)) \subseteq From(0, Table)
      /\ From(MapsAt, MapsCopied(label)) \subseteq From(0, 2048)
  <2> DEFINE copied == MapsCopied(label)
  <2>1. copied \in Nat /\ copied <= 1608
    BY <1>2
  <2> HIDE DEF copied
  <2>2. ASSUME NEW b \in From(0, copied)
        PROVE  b \in From(0, Table)
    BY <2>1, <2>2 DEF From, Table
  <2>3. ASSUME NEW b \in From(MapsAt, copied)
        PROVE  b \in From(0, 2048)
    BY <2>1, <2>3 DEF From, MapsAt
  <2> QED
    BY <2>2, <2>3 DEF copied
<1> QED
  BY <1>4, <1>5, <1>6

(* _decode_dstring: a length that is too large is cut to the field.        *)
THEOREM DstringInside ==
  ASSUME NEW field \in Nat \ {0}, NEW length \in 0 .. 255
  PROVE  /\ DstringLength(field, length) \in 0 .. field - 1
         /\ DstringLength(field, length) \in 0 .. 255
BY DEF DstringLength
=============================================================================
