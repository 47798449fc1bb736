---------------------------- MODULE SocketProofs ----------------------------
(***************************************************************************)
(* Proofs about PkgSocket and Heartbeat.  What the receiver has of a       *)
(* package, what is on its way and what is left to send are one line of    *)
(* units; the kernel's calls move its cuts and leave it as it is.          *)
(***************************************************************************)
EXTENDS PkgSocket, Heartbeat, SequenceTheorems, TLAPS

----------------------------------------------------------------------------
(* Sequences of units *)

Units == [of : Nat, size : Nat, at : Int]

\* Cutting a sequence after its first k elements.
Halves(f, l, s) == s = f \o l

LEMMA Cut ==
    ASSUME NEW S, NEW s \in Seq(S), NEW k \in 1 .. Len(s)
    PROVE  /\ SubSeq(s, 1, k) \in Seq(S) /\ Len(SubSeq(s, 1, k)) = k
           /\ \A i \in 1 .. k : SubSeq(s, 1, k)[i] = s[i]
           /\ SubSeq(s, k + 1, Len(s)) \in Seq(S) /\ Len(SubSeq(s, k + 1, Len(s))) = Len(s) - k
           /\ \A i \in 1 .. Len(s) - k : SubSeq(s, k + 1, Len(s))[i] = s[k + i]
  OBVIOUS

LEMMA CutInHalves ==
    ASSUME NEW S, NEW s \in Seq(S), NEW k \in 1 .. Len(s)
    PROVE  \E f, l \in Seq(S) :
              f = SubSeq(s, 1, k) /\ l = SubSeq(s, k + 1, Len(s)) /\ Halves(f, l, s)
  <1>1. SubSeq(s, 1, k) \o SubSeq(s, k + 1, Len(s)) = SubSeq(s, 1, Len(s))
    BY ConcatAdjacentSubSeq
  <1>2. SubSeq(s, 1, Len(s)) = s
    BY SubSeqFull
  <1>3. SubSeq(s, 1, k) \in Seq(S) /\ SubSeq(s, k + 1, Len(s)) \in Seq(S)
    BY Cut
  <1> QED  BY <1>1, <1>2, <1>3, Zenon DEF Halves

\* Three sequences in a row.  The front of the second can join the first, and
\* that of the third the second.
Row(a, b, c) == a \o (b \o c)

LEMMA FrontJoins ==
    ASSUME NEW S, NEW a \in Seq(S), NEW f \in Seq(S), NEW l \in Seq(S), NEW b \in Seq(S),
           NEW s, Halves(f, l, s)
    PROVE  Row(a \o f, l, b) = Row(a, s, b)
  <1>1. (a \o f) \o (l \o b) = a \o ((f \o l) \o b)
    BY ONLY a \in Seq(S), f \in Seq(S), l \in Seq(S), b \in Seq(S), SMTT(30)
  <1> QED  BY <1>1, Zenon DEF Row, Halves

LEMMA BackJoins ==
    ASSUME NEW S, NEW a \in Seq(S), NEW b \in Seq(S), NEW f \in Seq(S), NEW l \in Seq(S),
           NEW s, Halves(f, l, s)
    PROVE  Row(a, b \o f, l) = Row(a, b, s)
  <1>1. (b \o f) \o l = b \o (f \o l)
    BY ONLY b \in Seq(S), f \in Seq(S), l \in Seq(S)
  <1> QED  BY <1>1, Zenon DEF Row, Halves

LEMMA FrontMoves ==
    ASSUME NEW S, NEW a \in Seq(S), NEW s \in Seq(S), NEW b \in Seq(S), NEW k \in 1 .. Len(s)
    PROVE  Row(a \o SubSeq(s, 1, k), SubSeq(s, k + 1, Len(s)), b) = Row(a, s, b)
  <1>1. PICK f, l \in Seq(S) :
            f = SubSeq(s, 1, k) /\ l = SubSeq(s, k + 1, Len(s)) /\ Halves(f, l, s)
    BY CutInHalves, Zenon
  <1>2. Halves(f, l, s)
    BY <1>1
  <1>3. Row(a \o f, l, b) = Row(a, s, b)
    BY ONLY a \in Seq(S), b \in Seq(S), f \in Seq(S), l \in Seq(S), <1>2, FrontJoins
  <1> QED  BY <1>1, <1>3, Zenon

LEMMA BackMoves ==
    ASSUME NEW S, NEW a \in Seq(S), NEW b \in Seq(S), NEW s \in Seq(S), NEW k \in 1 .. Len(s)
    PROVE  Row(a, b \o SubSeq(s, 1, k), SubSeq(s, k + 1, Len(s))) = Row(a, b, s)
  <1>1. PICK f, l \in Seq(S) :
            f = SubSeq(s, 1, k) /\ l = SubSeq(s, k + 1, Len(s)) /\ Halves(f, l, s)
    BY CutInHalves, Zenon
  <1>2. Halves(f, l, s)
    BY <1>1
  <1>3. Row(a, b \o f, l) = Row(a, b, s)
    BY ONLY a \in Seq(S), b \in Seq(S), f \in Seq(S), l \in Seq(S), <1>2, BackJoins
  <1> QED  BY <1>1, <1>3, Zenon

\* The elements of a row.
LEMMA RowIs ==
    ASSUME NEW S, NEW a \in Seq(S), NEW b \in Seq(S), NEW c \in Seq(S)
    PROVE  /\ Row(a, b, c) \in Seq(S) /\ Len(Row(a, b, c)) = Len(a) + Len(b) + Len(c)
           /\ \A i \in 1 .. Len(a) : Row(a, b, c)[i] = a[i]
           /\ \A i \in 1 .. Len(b) : Row(a, b, c)[Len(a) + i] = b[i]
           /\ \A i \in 1 .. Len(c) : Row(a, b, c)[Len(a) + Len(b) + i] = c[i]
           /\ Len(a) \in Nat /\ Len(b) \in Nat /\ Len(c) \in Nat
  BY DEF Row

\* A sequence L is M with another one before it, or behind it.
InFront(a, M, L) ==
    Len(M) + Len(a) = Len(L) /\ \A i \in 1 .. Len(M) : M[i] = L[Len(a) + i]
Behind(M, c, L) ==
    /\ Len(M) + Len(c) = Len(L) /\ \A i \in 1 .. Len(M) : M[i] = L[i]
    /\ \A i \in 1 .. Len(c) : L[Len(M) + i] = c[i]

InitialPart(M, L) == Len(M) <= Len(L) /\ \A i \in 1 .. Len(M) : M[i] = L[i]

\* A row without its first, its last, or its last two.
LEMMA RowWithoutFirst ==
    ASSUME NEW S, NEW a \in Seq(S), NEW b \in Seq(S), NEW c \in Seq(S)
    PROVE  Row(<<>>, b, c) \in Seq(S) /\ InFront(a, Row(<<>>, b, c), Row(a, b, c))
  <1> DEFINE L == Row(a, b, c)
             M == Row(<<>>, b, c)
  <1>1. /\ Len(L) = Len(a) + Len(b) + Len(c) /\ Len(a) \in Nat /\ Len(b) \in Nat /\ Len(c) \in Nat
        /\ \A i \in 1 .. Len(b) : L[Len(a) + i] = b[i]
        /\ \A i \in 1 .. Len(c) : L[Len(a) + Len(b) + i] = c[i]
    BY DEF Row
  <1>2. /\ M \in Seq(S) /\ Len(M) = Len(b) + Len(c)
        /\ \A i \in 1 .. Len(b) : M[i] = b[i]
        /\ \A i \in 1 .. Len(c) : M[Len(b) + i] = c[i]
    BY <<>> \in Seq(S), Len(<<>>) = 0 DEF Row
  <1> HIDE DEF L, M
  <1>3. ASSUME NEW i \in 1 .. Len(M) PROVE M[i] = L[Len(a) + i]
    <2>1. CASE i <= Len(b)
      BY <1>1, <1>2, <2>1
    <2>2. CASE i > Len(b)
      <3>1. i - Len(b) \in 1 .. Len(c) /\ Len(b) + (i - Len(b)) = i /\ Len(a) + Len(b) + (i - Len(b)) = Len(a) + i
        BY <1>1, <1>2, <2>2
      <3>2. M[Len(b) + (i - Len(b))] = c[i - Len(b)] /\ L[Len(a) + Len(b) + (i - Len(b))] = c[i - Len(b)]
        BY <1>1, <1>2, <3>1
      <3> QED  BY <3>1, <3>2
    <2> QED  BY <1>1, <2>1, <2>2
  <1>4. Len(M) + Len(a) = Len(L)
    BY <1>1, <1>2
  <1> QED  BY <1>2, <1>3, <1>4 DEF L, M, InFront

LEMMA RowWithoutLast ==
    ASSUME NEW S, NEW a \in Seq(S), NEW b \in Seq(S), NEW c \in Seq(S)
    PROVE  Row(a, b, <<>>) \in Seq(S) /\ Behind(Row(a, b, <<>>), c, Row(a, b, c))
  <1> DEFINE L == Row(a, b, c)
             M == Row(a, b, <<>>)
  <1>1. /\ Len(L) = Len(a) + Len(b) + Len(c) /\ Len(a) \in Nat /\ Len(b) \in Nat /\ Len(c) \in Nat
        /\ \A i \in 1 .. Len(a) : L[i] = a[i]
        /\ \A i \in 1 .. Len(b) : L[Len(a) + i] = b[i]
        /\ \A i \in 1 .. Len(c) : L[Len(a) + Len(b) + i] = c[i]
    BY DEF Row
  <1>2. /\ M \in Seq(S) /\ Len(M) = Len(a) + Len(b)
        /\ \A i \in 1 .. Len(a) : M[i] = a[i]
        /\ \A i \in 1 .. Len(b) : M[Len(a) + i] = b[i]
    BY <<>> \in Seq(S), Len(<<>>) = 0 DEF Row
  <1> HIDE DEF L, M
  <1>3. ASSUME NEW i \in 1 .. Len(M) PROVE M[i] = L[i]
    <2>1. CASE i <= Len(a)
      BY <1>1, <1>2, <2>1
    <2>2. CASE i > Len(a)
      <3>1. i - Len(a) \in 1 .. Len(b) /\ Len(a) + (i - Len(a)) = i
        BY <1>1, <1>2, <2>2
      <3>2. M[Len(a) + (i - Len(a))] = b[i - Len(a)] /\ L[Len(a) + (i - Len(a))] = b[i - Len(a)]
        BY <1>1, <1>2, <3>1
      <3> QED  BY <3>1, <3>2
    <2> QED  BY <1>1, <2>1, <2>2
  <1>4. Len(M) + Len(c) = Len(L)
    BY <1>1, <1>2
  <1>5. \A i \in 1 .. Len(c) : L[Len(M) + i] = c[i]
    BY <1>1, <1>2
  <1> QED  BY <1>2, <1>3, <1>4, <1>5 DEF L, M, Behind

LEMMA RowWithoutTwo ==
    ASSUME NEW S, NEW a \in Seq(S), NEW b \in Seq(S), NEW c \in Seq(S)
    PROVE  Row(a, <<>>, <<>>) = a /\ InitialPart(a, Row(a, b, c))
  <1>1. Row(a, <<>>, <<>>) = a
    BY DEF Row
  <1>2. InitialPart(a, Row(a, b, c))
    BY DEF Row, InitialPart
  <1> QED  BY <1>1, <1>2

\* The units of a package.
LEMMA PackageIs ==
    ASSUME NEW p \in Nat, NEW n \in Nat
    PROVE  /\ Package(p, n) \in Seq(Units) /\ Len(Package(p, n)) = n + 2
           /\ \A i \in 1 .. n + 2 : Package(p, n)[i] = [of |-> p, size |-> n, at |-> i - 2]
  <1> DEFINE body == [i \in 1 .. n |-> [of |-> p, size |-> n, at |-> i]]
             digits == Digits(p, n)
  <1>1. body \in Seq(Units) /\ Len(body) = n /\ \A i \in 1 .. n : body[i] = [of |-> p, size |-> n, at |-> i]
    BY DEF Units
  <1>2. /\ digits \in Seq(Units) /\ Len(digits) = 2
        /\ digits[1] = [of |-> p, size |-> n, at |-> -1]
        /\ digits[2] = [of |-> p, size |-> n, at |-> 0]
    BY DEF Digits, Units
  <1>3. Package(p, n) = digits \o body
    BY DEF Package
  <1> HIDE DEF body, digits
  <1>a. /\ digits \o body \in Seq(Units) /\ Len(digits \o body) = Len(digits) + Len(body)
        /\ \A i \in 1 .. Len(digits) + Len(body) :
              (digits \o body)[i] = IF i <= Len(digits) THEN digits[i] ELSE body[i - Len(digits)]
    BY <1>1, <1>2, ConcatProperties, ZenonT(60)
  <1>4. /\ Package(p, n) \in Seq(Units) /\ Len(Package(p, n)) = 2 + n
        /\ \A i \in 1 .. 2 + n : Package(p, n)[i] = IF i <= 2 THEN digits[i] ELSE body[i - 2]
    BY <1>1, <1>2, <1>3, <1>a
  <1>5. ASSUME NEW i \in 1 .. n + 2 PROVE Package(p, n)[i] = [of |-> p, size |-> n, at |-> i - 2]
    <2>0. Package(p, n)[i] = IF i <= 2 THEN digits[i] ELSE body[i - 2]
      BY <1>4
    <2>1. CASE i = 1
      BY <1>2, <2>0, <2>1
    <2>2. CASE i = 2
      BY <1>2, <2>0, <2>2
    <2>3. CASE i > 2
      BY <1>1, <2>0, <2>3
    <2> QED  BY <2>1, <2>2, <2>3
  <1> QED  BY <1>4, <1>5

----------------------------------------------------------------------------
(* Lines of units *)

LEMMA UnitIs ==
    ASSUME NEW L \in Seq(Units)
    PROVE  /\ Len(L) \in Nat
           /\ \A i \in 1 .. Len(L) : L[i] \in Units
           /\ \A i \in 1 .. Len(L) : L[i].of \in Nat /\ L[i].size \in Nat /\ L[i].at \in Int
  <1>1. Len(L) \in Nat /\ \A i \in 1 .. Len(L) : L[i] \in Units
    OBVIOUS
  <1>2. \A u \in Units : u.of \in Nat /\ u.size \in Nat /\ u.at \in Int
    BY DEF Units
  <1> QED  BY <1>1, <1>2

\* Every unit belongs to a package that was begun, and lies in it.
UnitsTrue(L, st) ==
    \A i \in 1 .. Len(L) :
        L[i].of \in 1 .. Len(st) /\ L[i].size = st[L[i].of] /\ L[i].at \in -1 .. L[i].size

\* The units of a package lie together.
Together(L) ==
    \A i, j \in 1 .. Len(L) :
        L[i].at + (j - i) \in -1 .. L[i].size => L[j].of = L[i].of /\ L[j].at = L[i].at + (j - i)

\* A package begins where one before it ends, and those between were refused.
Joined(L, rf) ==
    \A i \in 1 .. Len(L) - 1 :
        L[i + 1].at = -1 =>
            /\ L[i].at = L[i].size /\ L[i].of < L[i + 1].of
            /\ \A p \in L[i].of + 1 .. L[i + 1].of - 1 : p \in rf

Chain(L, st, rf) == UnitsTrue(L, st) /\ Together(L) /\ Joined(L, rf)

\* The last package of a line is there to its end, and those after it were refused.
WholePackages(L, st, rf) ==
    L # <<>> => /\ L[Len(L)].at = L[Len(L)].size
                /\ \A p \in L[Len(L)].of + 1 .. Len(st) : p \in rf

\* A part of a chain is one.
LEMMA ChainPart ==
    ASSUME NEW L \in Seq(Units), NEW M \in Seq(Units), NEW st \in Seq(Nat), NEW rf, NEW d \in Nat,
           Len(M) + d <= Len(L), \A i \in 1 .. Len(M) : M[i] = L[d + i],
           Chain(L, st, rf)
    PROVE  Chain(M, st, rf)
  <1>0. /\ Len(L) \in Nat /\ Len(M) \in Nat
        /\ \A i \in 1 .. Len(M) : d + i \in 1 .. Len(L)
        /\ \A i \in 1 .. Len(L) : L[i].of \in Nat /\ L[i].size \in Nat /\ L[i].at \in Int
    BY UnitIs
  <1>1. UnitsTrue(M, st)
    BY <1>0 DEF Chain, UnitsTrue
  <1>2. Together(M)
    <2> SUFFICES ASSUME NEW i \in 1 .. Len(M), NEW j \in 1 .. Len(M), M[i].at + (j - i) \in -1 .. M[i].size
                 PROVE  M[j].of = M[i].of /\ M[j].at = M[i].at + (j - i)
      BY DEF Together
    <2>1. d + i \in 1 .. Len(L) /\ d + j \in 1 .. Len(L) /\ (d + j) - (d + i) = j - i
      BY <1>0
    <2>2. M[i] = L[d + i] /\ M[j] = L[d + j]
      OBVIOUS
    <2>3. L[d + i].at + ((d + j) - (d + i)) \in -1 .. L[d + i].size
      BY <2>1, <2>2
    <2> QED  BY <2>1, <2>2, <2>3 DEF Chain, Together
  <1>3. Joined(M, rf)
    <2> SUFFICES ASSUME NEW i \in 1 .. Len(M) - 1, M[i + 1].at = -1
                 PROVE  /\ M[i].at = M[i].size /\ M[i].of < M[i + 1].of
                        /\ \A p \in M[i].of + 1 .. M[i + 1].of - 1 : p \in rf
      BY DEF Joined
    <2>1. d + i \in 1 .. Len(L) - 1 /\ d + (i + 1) = (d + i) + 1 /\ i \in 1 .. Len(M) /\ i + 1 \in 1 .. Len(M)
      BY <1>0, SMTT(60)
    <2>2. M[i] = L[d + i] /\ M[i + 1] = L[d + (i + 1)]
      BY <2>1
    <2> QED  BY <2>1, <2>2 DEF Chain, Joined
  <1> QED  BY <1>1, <1>2, <1>3 DEF Chain

\* A complete chain is continued by a whole package.
LEMMA ChainLonger ==
    ASSUME NEW L \in Seq(Units), NEW M \in Seq(Units), NEW st \in Seq(Nat), NEW rf, NEW n \in Nat,
           Chain(L, st, rf), WholePackages(L, st, rf),
           Len(M) = Len(L) + n + 2, \A i \in 1 .. Len(L) : M[i] = L[i],
           \A i \in 1 .. n + 2 : M[Len(L) + i] = [of |-> Len(st) + 1, size |-> n, at |-> i - 2]
    PROVE  Chain(M, Append(st, n), rf) /\ WholePackages(M, Append(st, n), rf)
  <1> DEFINE b == Len(L)
             s2 == Append(st, n)
  <1>0. /\ b \in Nat /\ Len(st) \in Nat /\ Len(s2) = Len(st) + 1 /\ s2 \in Seq(Nat)
        /\ s2[Len(st) + 1] = n /\ \A p \in 1 .. Len(st) : s2[p] = st[p]
    OBVIOUS
  <1>1. \A i \in 1 .. b : L[i].of \in Nat /\ L[i].size \in Nat /\ L[i].at \in Int
    BY UnitIs
  <1>2. \A i \in 1 .. b : /\ M[i].of \in 1 .. Len(st) /\ M[i].size = st[M[i].of]
                          /\ M[i].at \in -1 .. M[i].size /\ M[i].of \in Nat /\ M[i].size \in Nat /\ M[i].at \in Int
    BY <1>1 DEF Chain, UnitsTrue
  <1>3. \A i \in 1 .. Len(M) : i > b => M[i].of = Len(st) + 1 /\ M[i].size = n /\ M[i].at = (i - b) - 2
    <2> TAKE i \in 1 .. Len(M)
    <2> HAVE i > b
    <2>1. i - b \in 1 .. n + 2 /\ b + (i - b) = i
      BY <1>0
    <2>2. M[b + (i - b)] = [of |-> Len(st) + 1, size |-> n, at |-> (i - b) - 2]
      BY <2>1
    <2> QED  BY <2>1, <2>2
  <1>b. L # <<>> => b > 0
    OBVIOUS
  <1>d. \A i \in 1 .. b : M[i] = L[i]
    OBVIOUS
  <1> HIDE DEF b, s2
  <1>4. UnitsTrue(M, s2)
    <2> SUFFICES ASSUME NEW i \in 1 .. Len(M)
                 PROVE  M[i].of \in 1 .. Len(s2) /\ M[i].size = s2[M[i].of] /\ M[i].at \in -1 .. M[i].size
      BY DEF UnitsTrue
    <2>1. CASE i <= b
      <3>1. i \in 1 .. b
        BY <1>0, <2>1
      <3>2. M[i].of \in 1 .. Len(st) /\ M[i].size = st[M[i].of] /\ M[i].at \in -1 .. M[i].size
        BY <1>2, <3>1
      <3>3. s2[M[i].of] = st[M[i].of] /\ M[i].of \in 1 .. Len(s2)
        BY <1>0, <3>2, SMTT(60)
      <3> QED  BY <3>2, <3>3
    <2>2. CASE i > b
      BY <1>0, <1>3, <2>2 DEF b
    <2> QED  BY <1>0, <2>1, <2>2
  <1>5. Together(M)
    <2> SUFFICES ASSUME NEW i \in 1 .. Len(M), NEW j \in 1 .. Len(M), M[i].at + (j - i) \in -1 .. M[i].size
                 PROVE  M[j].of = M[i].of /\ M[j].at = M[i].at + (j - i)
      BY DEF Together
    <2>1. CASE i <= b /\ j <= b
      <3>1. i \in 1 .. b /\ j \in 1 .. b
        BY <1>0, <2>1
      <3>2. M[i] = L[i] /\ M[j] = L[j]
        BY <1>d, <3>1, Zenon
      <3>3. i \in 1 .. Len(L) /\ j \in 1 .. Len(L)
        BY <3>1 DEF b
      <3> QED  BY <3>2, <3>3 DEF Chain, Together
    <2>2. CASE i <= b /\ j > b
      <3>1. b \in 1 .. Len(L) /\ i \in 1 .. Len(L) /\ M[i] = L[i] /\ M[b] = L[b] /\ L # <<>>
        BY <1>0, <2>2 DEF b
      <3>a. /\ L[i].at \in -1 .. L[i].size /\ L[i].at \in Int /\ L[i].size \in Nat /\ L[i].size = M[i].size
            /\ i \in Int /\ j \in Int /\ b \in Int
        <4>1. /\ L[i].at \in -1 .. L[i].size /\ L[i].at \in Int /\ L[i].size \in Nat /\ L[i].size = M[i].size
          BY <1>1, <1>2, <3>1 DEF b
        <4> QED  BY <1>0, <4>1
      <3>2. L[i].at + (b - i) < L[i].at + (j - i) /\ L[i].at + (b - i) \in -1 .. L[i].size
        <4> DEFINE x == L[i].at
                   y == L[i].size
        <4>1. x \in Int /\ y \in Nat /\ x >= -1 /\ x + (j - i) <= y /\ j > b /\ i <= b /\ i \in Int /\ j \in Int /\ b \in Int
          BY <2>2, <3>1, <3>a
        <4> HIDE DEF x, y
        <4>2. x + (b - i) < x + (j - i) /\ x + (b - i) \in -1 .. y
          BY <4>1, SMTT(60)
        <4> QED  BY <4>2 DEF x, y
      <3>3. L[b].of = L[i].of /\ L[b].at = L[i].at + (b - i)
        BY <3>1, <3>2 DEF Chain, Together
      <3>4. L[b].at = L[b].size
        BY <3>1 DEF WholePackages, b
      <3>5. L[b].size = L[i].size
        BY <3>1, <3>3 DEF Chain, UnitsTrue
      <3> QED  BY <1>1, <3>1, <3>2, <3>3, <3>4, <3>5, <2>2, <1>0 DEF b
    <2>3. CASE i > b /\ j > b
      <3>1. /\ M[i].of = Len(st) + 1 /\ M[i].at = (i - b) - 2
            /\ M[j].of = Len(st) + 1 /\ M[j].at = (j - b) - 2
        BY <1>3, <2>3
      <3> QED  BY <1>0, <3>1
    <2>4. CASE i > b /\ j <= b
      BY <1>0, <1>3, <2>4
    <2> QED  BY <1>0, <2>1, <2>2, <2>3, <2>4
  <1>6. Joined(M, rf)
    <2> SUFFICES ASSUME NEW i \in 1 .. Len(M) - 1, M[i + 1].at = -1
                 PROVE  /\ M[i].at = M[i].size /\ M[i].of < M[i + 1].of
                        /\ \A p \in M[i].of + 1 .. M[i + 1].of - 1 : p \in rf
      BY DEF Joined
    <2>0. Len(M) \in Nat /\ i \in 1 .. Len(M) /\ i + 1 \in 1 .. Len(M) /\ i \in Nat
      OBVIOUS
    <2>1. CASE i < b
      <3>1. i \in 1 .. b - 1 /\ i \in 1 .. b /\ i + 1 \in 1 .. b
        BY <1>0, <2>0, <2>1
      <3>2. M[i] = L[i] /\ M[i + 1] = L[i + 1]
        BY <1>d, <3>1, Zenon
      <3>3. i \in 1 .. Len(L) - 1
        BY <3>1 DEF b
      <3> QED  BY <3>2, <3>3 DEF Chain, Joined
    <2>2. CASE i = b
      <3>1. M[i] = L[Len(L)] /\ L # <<>> /\ M[i + 1].of = Len(st) + 1 /\ i \in 1 .. b
        BY <1>0, <1>3, <2>0, <2>2 DEF b
      <3>2. M[i].of \in 1 .. Len(st)
        BY <1>2, <3>1
      <3>3. M[i].at = M[i].size /\ \A p \in M[i].of + 1 .. Len(st) : p \in rf
        BY <3>1 DEF WholePackages
      <3>4. (Len(st) + 1) - 1 = Len(st)
        BY <1>0
      <3> QED  BY <1>0, <3>1, <3>2, <3>3, <3>4
    <2>3. CASE i > b
      BY <1>0, <1>3, <2>0, <2>3
    <2> QED  BY <1>0, <2>0, <2>1, <2>2, <2>3
  <1>7. WholePackages(M, s2, rf)
    <2>1. Len(M) \in 1 .. Len(M) /\ Len(M) > b /\ Len(M) - b = n + 2
      BY <1>0 DEF b
    <2>2. M[Len(M)].of = Len(st) + 1 /\ M[Len(M)].size = n /\ M[Len(M)].at = n
      BY <1>3, <2>1
    <2> QED  BY <1>0, <2>2 DEF WholePackages
  <1> QED  BY <1>4, <1>5, <1>6, <1>7 DEF Chain, s2

\* After the end of a package the next one begins.
LEMMA NextBegins ==
    ASSUME NEW L \in Seq(Units), NEW st \in Seq(Nat), NEW rf, Chain(L, st, rf),
           NEW i \in 1 .. Len(L) - 1, L[i].at = L[i].size
    PROVE  /\ L[i + 1].at = -1 /\ L[i].of < L[i + 1].of
           /\ \A p \in L[i].of + 1 .. L[i + 1].of - 1 : p \in rf
  <1>0. Len(L) \in Nat /\ i \in 1 .. Len(L) /\ i + 1 \in 1 .. Len(L) /\ i - (i + 1) = -1
    OBVIOUS
  <1>1. \A k \in 1 .. Len(L) : L[k].of \in Nat /\ L[k].size \in Nat /\ L[k].at \in Int
    BY UnitIs
  <1>2. L[i + 1].at = -1
    <2> SUFFICES ASSUME L[i + 1].at # -1 PROVE FALSE
      OBVIOUS
    <2>1. L[i + 1].at \in 0 .. L[i + 1].size
      BY <1>0, <1>1 DEF Chain, UnitsTrue
    <2>2. L[i + 1].at + (i - (i + 1)) \in -1 .. L[i + 1].size
      BY <1>0, <1>1, <2>1
    <2>3. L[i].of = L[i + 1].of /\ L[i].at = L[i + 1].at + (i - (i + 1))
      BY <1>0, <2>2 DEF Chain, Together
    <2>4. L[i].size = L[i + 1].size
      BY <1>0, <2>3 DEF Chain, UnitsTrue
    <2>5. /\ L[i].at \in Int /\ L[i + 1].at \in Int /\ L[i + 1].size \in Nat
          /\ L[i].at = L[i + 1].at + (i - (i + 1)) /\ L[i].at = L[i + 1].size
      BY <1>0, <1>1, <2>3, <2>4
    <2> QED  BY <1>0, <2>1, <2>5
  <1> QED  BY <1>2 DEF Chain, Joined

----------------------------------------------------------------------------
(* The invariant *)

\* What the receiver has of a package, what is on its way, and what is left to
\* send are a line of units.
Line == Row(receiver.have, stream, sender.rest)

PkgTyped ==
    /\ stream \in Seq(Units) /\ Len(stream) <= Window
    /\ fin \in BOOLEAN /\ reset \in BOOLEAN /\ gaveUp \in BOOLEAN /\ astray \in BOOLEAN
    /\ sender \in [pc : {"idle", "sending"}, flag : Flags, rest : Seq(Units)]
    /\ started \in Seq(BodySizes) /\ refused \subseteq 1 .. Len(started)
    /\ receiver \in [pc : {"idle", "length", "body"}, flag : Flags, need : Nat,
                     have : Seq(Units), size : Nat]
    /\ results \in Seq([ret : {"ok", "zero", "error"}, body : Seq(Units), size : Nat])

\* The sender has units of the package it began last.
SenderTrue ==
    /\ sender.pc = "idle" => sender.rest = <<>>
    /\ sender.pc = "sending" => Len(started) > 0 /\ ~fin
    /\ \A i \in 1 .. Len(sender.rest) : sender.rest[i].of = Len(started)

\* The receiver has what it does not need any more.  After a reset nothing comes.
ReceiverTrue ==
    /\ receiver.pc = "idle" => receiver.have = <<>>
    /\ receiver.pc = "length" => Len(receiver.have) + receiver.need = 2
    /\ receiver.pc = "body" => Len(receiver.have) + receiver.need = receiver.size
    /\ reset => fin /\ stream = <<>>

\* After a short package nothing comes.
Short(i) == results[i].ret = "ok" /\ Len(results[i].body) < results[i].size
ShortTrue ==
    \A i \in 1 .. Len(results) :
        Short(i) => /\ fin /\ ~reset /\ stream = <<>> /\ receiver.have = <<>>
                    /\ \A j \in i + 1 .. Len(results) : results[j].ret # "ok"

\* A call that succeeds gives something.
FullTrue == \A i \in 1 .. Len(results) : results[i].ret = "ok" => results[i].body # <<>>

\* Packages before p that fit and were not refused have been received.
Fits(p) == started[p] \in 1 .. BufLen /\ p \notin refused
Received(p) == \E j \in Whole : results[j].body = Body(p)
Before(p) == \A q \in 1 .. p - 1 : Fits(q) => Received(q)

\* The line begins with the length of a package, or, behind one of size n that
\* was read, with its body.  All packages before it were received and it was not.
InBody == receiver.pc = "body" /\ receiver.size > 0
BeginsAt(L, n) ==
    /\ L # <<>> =>
          /\ IF n > 0 THEN L[1].at = 1 /\ L[1].size = n ELSE L[1].at = -1
          /\ Before(L[1].of)
          /\ \A i \in Whole : results[i].body[1].of < L[1].of
    /\ L = <<>> => fin \/ (n = 0 /\ Before(Len(started) + 1))
BeginTrue == BeginsAt(Line, IF InBody THEN receiver.size ELSE 0)

\* Unless somebody gave up, the line is a chain of packages, the last of them
\* there to its end if the sender is.
LineTrue ==
    ~gaveUp =>
        /\ Chain(Line, started, refused)
        /\ ~fin => WholePackages(Line, started, refused)
        /\ BeginTrue

PkgIInv ==
    /\ PkgTyped /\ SenderTrue /\ ReceiverTrue /\ ShortTrue /\ FullTrue /\ LineTrue
    /\ PackagesInOrder /\ FramingKept

----------------------------------------------------------------------------
(* Types *)

Results == [ret : {"ok", "zero", "error"}, body : Seq(Units), size : Nat]

LEMMA Fields ==
    ASSUME PkgTyped
    PROVE  /\ stream \in Seq(Units) /\ Len(stream) \in Nat
           /\ sender.pc \in {"idle", "sending"} /\ sender.flag \in Flags /\ sender.rest \in Seq(Units)
           /\ started \in Seq(Nat) /\ Len(started) \in Nat /\ started \in Seq(BodySizes)
           /\ receiver.pc \in {"idle", "length", "body"} /\ receiver.flag \in Flags
           /\ receiver.need \in Nat /\ receiver.have \in Seq(Units) /\ receiver.size \in Nat
           /\ results \in Seq(Results) /\ Len(results) \in Nat
           /\ Line \in Seq(Units)
  <1> USE DEF PkgTyped
  <1>1. started \in Seq(Nat)
    BY PkgAssumption, SeqMonotonic
  <1>2. /\ sender.pc \in {"idle", "sending"} /\ sender.flag \in Flags /\ sender.rest \in Seq(Units)
        /\ receiver.pc \in {"idle", "length", "body"} /\ receiver.flag \in Flags
        /\ receiver.need \in Nat /\ receiver.have \in Seq(Units) /\ receiver.size \in Nat
    OBVIOUS
  <1>3. Line \in Seq(Units)
    BY <1>2, RowIs DEF Line
  <1>4. results \in Seq(Results) /\ Len(results) \in Nat
    BY DEF Results
  <1> QED  BY <1>1, <1>2, <1>3, <1>4

LEMMA ResultIs ==
    ASSUME PkgTyped, NEW i \in 1 .. Len(results)
    PROVE  /\ results[i].ret \in {"ok", "zero", "error"} /\ results[i].body \in Seq(Units)
           /\ results[i].size \in Nat /\ Len(results[i].body) \in Nat
  <1>1. results[i] \in Results
    BY Fields
  <1> QED  BY <1>1 DEF Results

\* A call that ends adds its result.
LEMMA Given ==
    ASSUME PkgTyped, NEW r \in {"ok", "zero", "error"}, NEW b \in Seq(Units), Give(r, b)
    PROVE  /\ results' \in Seq(Results) /\ Len(results') = Len(results) + 1
           /\ \A i \in 1 .. Len(results) : results'[i] = results[i]
           /\ results'[Len(results) + 1] = [ret |-> r, body |-> b, size |-> receiver.size]
           /\ receiver' = NotReading
  <1>1. [ret |-> r, body |-> b, size |-> receiver.size] \in Results
    BY Fields DEF Results
  <1> QED  BY <1>1, Fields DEF Give

LEMMA NotReadingIs ==
    /\ NotReading \in [pc : {"idle", "length", "body"}, flag : Flags, need : Nat, have : Seq(Units), size : Nat]
    /\ NotReading.pc = "idle" /\ NotReading.have = <<>> /\ NotReading.size = 0
  BY DEF NotReading, Flags

LEMMA RestingIs ==
    /\ Resting \in [pc : {"idle", "sending"}, flag : Flags, rest : Seq(Units)]
    /\ Resting.pc = "idle" /\ Resting.rest = <<>>
  BY DEF Resting, Flags

\* What the kernel takes or gives in one call.
LEMMA Sent ==
    ASSUME PkgTyped, SendSome
    PROVE  \E k \in 1 .. Len(sender.rest) :
              /\ stream' = stream \o SubSeq(sender.rest, 1, k) /\ Len(stream) + k <= Window
              /\ sender'.pc = sender.pc /\ sender'.flag = sender.flag
              /\ sender'.rest = SubSeq(sender.rest, k + 1, Len(sender.rest))
              /\ sender' \in [pc : {"idle", "sending"}, flag : Flags, rest : Seq(Units)]
  <1>1. PICK k \in 1 .. Len(sender.rest) :
              /\ stream' = stream \o SubSeq(sender.rest, 1, k) /\ Len(stream) + k <= Window
              /\ sender' = [sender EXCEPT !.rest = SubSeq(@, k + 1, Len(@))]
    BY DEF SendSome
  <1>2. SubSeq(sender.rest, k + 1, Len(sender.rest)) \in Seq(Units)
    BY Fields, Cut
  <1>3. sender \in [pc : {"idle", "sending"}, flag : Flags, rest : Seq(Units)]
    BY DEF PkgTyped
  <1> QED  BY <1>1, <1>2, <1>3

LEMMA TookSome ==
    ASSUME PkgTyped, TakeSome
    PROVE  \E k \in 1 .. Len(stream) :
              /\ k <= receiver.need /\ stream' = SubSeq(stream, k + 1, Len(stream))
              /\ receiver'.have = receiver.have \o SubSeq(stream, 1, k) /\ receiver'.need = receiver.need - k
              /\ receiver'.pc = receiver.pc /\ receiver'.flag = receiver.flag /\ receiver'.size = receiver.size
              /\ receiver' \in [pc : {"idle", "length", "body"}, flag : Flags, need : Nat,
                                have : Seq(Units), size : Nat]
  <1>1. PICK k \in 1 .. receiver.need :
            k <= Len(stream) /\ receiver' = Taken(k) /\ stream' = SubSeq(stream, k + 1, Len(stream))
    BY DEF TakeSome
  <1>2. k \in 1 .. Len(stream) /\ receiver.need - k \in Nat
    BY <1>1, Fields
  <1>3. receiver.have \o SubSeq(stream, 1, k) \in Seq(Units)
    BY <1>2, Fields, Cut, ConcatProperties
  <1>4. receiver \in [pc : {"idle", "length", "body"}, flag : Flags, need : Nat, have : Seq(Units), size : Nat]
    BY DEF PkgTyped
  <1>5. /\ receiver'.have = receiver.have \o SubSeq(stream, 1, k) /\ receiver'.need = receiver.need - k
        /\ receiver'.pc = receiver.pc /\ receiver'.flag = receiver.flag /\ receiver'.size = receiver.size
        /\ receiver' \in [pc : {"idle", "length", "body"}, flag : Flags, need : Nat, have : Seq(Units), size : Nat]
    BY <1>1, <1>2, <1>3, <1>4 DEF Taken
  <1>6. k <= receiver.need
    BY Fields
  <1> QED  BY <1>1, <1>2, <1>5, <1>6, Zenon

\* The length makes the receiver go on to the body.
LEMMA BodyBegun ==
    ASSUME PkgTyped, NEW n \in Nat,
           receiver' = [receiver EXCEPT !.pc = "body", !.need = n, !.size = n, !.have = <<>>]
    PROVE  /\ receiver'.pc = "body" /\ receiver'.need = n /\ receiver'.size = n /\ receiver'.have = <<>>
           /\ receiver' \in [pc : {"idle", "length", "body"}, flag : Flags, need : Nat,
                             have : Seq(Units), size : Nat]
  <1>1. receiver \in [pc : {"idle", "length", "body"}, flag : Flags, need : Nat, have : Seq(Units), size : Nat]
    BY DEF PkgTyped
  <1>2. <<>> \in Seq(Units)
    OBVIOUS
  <1> QED  BY <1>1, <1>2

\* What the receiver finds as length.
Length(h) == IF IsLength(h) THEN h[1].size ELSE 0

LEMMA LengthIs ==
    ASSUME PkgTyped PROVE Length(receiver.have) \in Nat
  <1>1. IsLength(receiver.have) => 1 \in 1 .. Len(receiver.have)
    BY DEF IsLength
  <1> QED  BY <1>1, Fields, UnitIs DEF Length

\* Every step keeps the types.
LEMMA PkgTypeStep == PkgIInv /\ [PkgNext]_pkgVars => PkgTyped'
<1> SUFFICES ASSUME PkgIInv, [PkgNext]_pkgVars PROVE PkgTyped'
  OBVIOUS
<1>0. PkgTyped /\ SenderTrue
  BY DEF PkgIInv
<1>1. CASE PkgSend
  <2>1. PICK n \in BodySizes, f \in Flags :
          /\ sender' = [pc |-> "sending", flag |-> f, rest |-> Package(Len(started) + 1, n)]
          /\ started' = Append(started, n)
    BY <1>1 DEF PkgSend
  <2>2. Package(Len(started) + 1, n) \in Seq(Units)
    <3>1. n \in Nat /\ Len(started) + 1 \in Nat
      BY <1>0, Fields, PkgAssumption
    <3> QED  BY <3>1, PackageIs, Zenon
  <2>3. sender' \in [pc : {"idle", "sending"}, flag : Flags, rest : Seq(Units)]
    BY <2>1, <2>2
  <2>4. started' \in Seq(BodySizes) /\ Len(started') = Len(started) + 1
    BY <1>0, <2>1, Fields
  <2> QED  BY <1>0, <1>1, <2>3, <2>4, Fields DEF PkgSend, PkgTyped
<1>2. CASE SendSome
  <2>1. PICK k \in 1 .. Len(sender.rest) :
          /\ stream' = stream \o SubSeq(sender.rest, 1, k) /\ Len(stream) + k <= Window
          /\ sender' \in [pc : {"idle", "sending"}, flag : Flags, rest : Seq(Units)]
    BY <1>0, <1>2, Sent
  <2>2. SubSeq(sender.rest, 1, k) \in Seq(Units) /\ Len(SubSeq(sender.rest, 1, k)) = k
    BY <1>0, Fields, Cut
  <2>3. stream' \in Seq(Units) /\ Len(stream') = Len(stream) + k
    BY <1>0, <2>1, <2>2, Fields, ConcatProperties
  <2> QED  BY <1>0, <1>2, <2>1, <2>3 DEF SendSome, PkgTyped
<1>3. CASE SendDone \/ SendGivesUp
  <2>1. sender' \in [pc : {"idle", "sending"}, flag : Flags, rest : Seq(Units)]
    BY <1>3, RestingIs DEF SendDone, SendGivesUp
  <2>2. refused' \subseteq 1 .. Len(started) /\ gaveUp' \in BOOLEAN
    <3>1. refused \subseteq 1 .. Len(started) /\ gaveUp \in BOOLEAN
      BY <1>0 DEF PkgTyped
    <3>2. CASE SendDone
      BY <3>1, <3>2 DEF SendDone
    <3>3. CASE SendGivesUp
      <4>1. Len(started) \in 1 .. Len(started)
        BY <1>0, <3>3, Fields DEF SendGivesUp, SenderTrue
      <4> QED  BY <3>1, <3>3, <4>1 DEF SendGivesUp
    <3> QED  BY <1>3, <3>2, <3>3
  <2>3. UNCHANGED <<stream, fin, reset, started, receiver, results, astray>>
    BY <1>3 DEF SendDone, SendGivesUp
  <2> QED  BY <1>0, <2>1, <2>2, <2>3 DEF PkgTyped
<1>4. CASE SenderEnds
  <2>1. sender' \in [pc : {"idle", "sending"}, flag : Flags, rest : Seq(Units)]
    BY <1>4, RestingIs DEF SenderEnds
  <2>2. stream' \in Seq(Units) /\ Len(stream') <= Window /\ fin' \in BOOLEAN /\ reset' \in BOOLEAN
    <3>1. CASE UNCHANGED <<stream, reset>>
      BY <1>0, <1>4, <3>1 DEF SenderEnds, PkgTyped
    <3>2. CASE stream' = <<>> /\ reset' = TRUE
      BY <1>4, <3>2, PkgAssumption, <<>> \in Seq(Units), Len(<<>>) = 0 DEF SenderEnds
    <3> QED  BY <1>4, <3>1, <3>2 DEF SenderEnds
  <2> QED  BY <1>0, <1>4, <2>1, <2>2 DEF SenderEnds, PkgTyped
<1>5. CASE PkgRecv
  <2>1. PICK f \in Flags : receiver' = [NotReading EXCEPT !.pc = "length", !.flag = f, !.need = 2]
    BY <1>5 DEF PkgRecv
  <2>2. receiver' \in [pc : {"idle", "length", "body"}, flag : Flags, need : Nat, have : Seq(Units), size : Nat]
    BY <2>1, NotReadingIs
  <2> QED  BY <1>0, <1>5, <2>2 DEF PkgRecv, PkgTyped
<1>6. CASE TakeSome
  <2>1. PICK k \in 1 .. Len(stream) :
          /\ stream' = SubSeq(stream, k + 1, Len(stream))
          /\ receiver' \in [pc : {"idle", "length", "body"}, flag : Flags, need : Nat,
                            have : Seq(Units), size : Nat]
    BY <1>0, <1>6, TookSome
  <2>2. stream' \in Seq(Units) /\ Len(stream') = Len(stream) - k
    BY <1>0, <2>1, Fields, Cut
  <2>3. Len(stream') <= Window
    BY <1>0, <2>2, Fields, PkgAssumption DEF PkgTyped
  <2> QED  BY <1>0, <1>6, <2>1, <2>2, <2>3 DEF TakeSome, PkgTyped
<1>7. ASSUME NEW r \in {"ok", "zero", "error"}, NEW b \in Seq(Units), Give(r, b),
             gaveUp' \in BOOLEAN, reset' \in BOOLEAN, UNCHANGED <<stream, fin, sender, started, refused, astray>>
      PROVE  PkgTyped'
  <2>1. results' \in Seq([ret : {"ok", "zero", "error"}, body : Seq(Units), size : Nat]) /\ receiver' = NotReading
    BY <1>0, <1>7, Given DEF Results
  <2>2. receiver' \in [pc : {"idle", "length", "body"}, flag : Flags, need : Nat, have : Seq(Units), size : Nat]
    BY <2>1, NotReadingIs
  <2> QED  BY <1>0, <1>7, <2>1, <2>2 DEF PkgTyped
<1>8. CASE LengthRead
  <2>1. CASE Give("zero", <<>>) /\ UNCHANGED astray
    BY <1>0, <1>7, <1>8, <2>1, <<>> \in Seq(Units) DEF LengthRead, PkgTyped
  <2>2. CASE /\ receiver' = [receiver EXCEPT !.pc = "body", !.need = Length(receiver.have),
                                           !.size = Length(receiver.have), !.have = <<>>]
             /\ UNCHANGED <<results, astray>>
    <3>1. receiver' \in [pc : {"idle", "length", "body"}, flag : Flags, need : Nat, have : Seq(Units), size : Nat]
      BY <1>0, <2>2, BodyBegun, LengthIs
    <3> QED  BY <1>0, <1>8, <2>2, <3>1 DEF LengthRead, PkgTyped
  <2>3. CASE astray' = TRUE /\ receiver' = NotReading /\ UNCHANGED results
    BY <1>0, <1>8, <2>3, NotReadingIs DEF LengthRead, PkgTyped
  <2> QED  BY <1>8, <2>1, <2>2, <2>3 DEF LengthRead, Length
<1>9. CASE BodyRead
  <2>1. \E r \in {"ok", "zero", "error"}, b \in Seq(Units) : Give(r, b)
    BY <1>0, <1>9, Fields, <<>> \in Seq(Units) DEF BodyRead
  <2> QED  BY <1>0, <1>7, <1>9, <2>1 DEF BodyRead, PkgTyped
<1>10. CASE RecvGivesUp
  <2>1. gaveUp' \in BOOLEAN /\ Give("error", <<>>)
    BY <1>10 DEF RecvGivesUp
  <2> QED  BY <1>0, <1>7, <1>10, <2>1, <<>> \in Seq(Units) DEF RecvGivesUp, PkgTyped
<1>11. CASE RecvFails
  BY <1>0, <1>7, <1>11, <<>> \in Seq(Units) DEF RecvFails, PkgTyped
<1>12. CASE UNCHANGED pkgVars
  BY <1>0, <1>12 DEF pkgVars, PkgTyped
<1> QED  BY <1>1, <1>2, <1>3, <1>4, <1>5, <1>6, <1>8, <1>9, <1>10, <1>11, <1>12 DEF PkgNext

----------------------------------------------------------------------------
(* The two ends *)

\* Every step keeps what is true of the sender.
LEMMA SenderStep == PkgIInv /\ [PkgNext]_pkgVars => SenderTrue'
<1> SUFFICES ASSUME PkgIInv, [PkgNext]_pkgVars PROVE SenderTrue'
  OBVIOUS
<1>0. PkgTyped /\ SenderTrue
  BY DEF PkgIInv
<1>1. CASE PkgSend
  <2>1. PICK n \in BodySizes, f \in Flags :
          /\ sender' = [pc |-> "sending", flag |-> f, rest |-> Package(Len(started) + 1, n)]
          /\ started' = Append(started, n)
    BY <1>1 DEF PkgSend
  <2>2. /\ Len(Package(Len(started) + 1, n)) = n + 2
        /\ \A i \in 1 .. n + 2 : Package(Len(started) + 1, n)[i] = [of |-> Len(started) + 1, size |-> n, at |-> i - 2]
    <3>1. Len(started) + 1 \in Nat /\ n \in Nat
      BY <1>0, Fields, PkgAssumption
    <3> QED  BY <3>1, PackageIs
  <2>3. Len(started') = Len(started) + 1
    BY <1>0, <2>1, Fields
  <2>4. sender'.pc = "sending" /\ sender'.rest = Package(Len(started) + 1, n) /\ ~fin'
    BY <1>1, <2>1 DEF PkgSend
  <2>5. \A i \in 1 .. Len(sender'.rest) : sender'.rest[i].of = Len(started')
    <3> TAKE i \in 1 .. Len(sender'.rest)
    <3>1. i \in 1 .. n + 2 /\ sender'.rest[i] = [of |-> Len(started) + 1, size |-> n, at |-> i - 2]
      BY <2>2, <2>4
    <3> QED  BY <2>3, <3>1
  <2>6. Len(started') > 0
    BY <1>0, <2>3, Fields
  <2> QED  BY <2>4, <2>5, <2>6 DEF SenderTrue
<1>2. CASE SendSome
  <2>1. PICK k \in 1 .. Len(sender.rest) :
          /\ sender'.pc = sender.pc /\ sender'.rest = SubSeq(sender.rest, k + 1, Len(sender.rest))
    BY <1>0, <1>2, Sent
  <2>2. /\ Len(sender'.rest) = Len(sender.rest) - k
        /\ \A i \in 1 .. Len(sender.rest) - k : sender'.rest[i] = sender.rest[k + i] /\ k + i \in 1 .. Len(sender.rest)
    BY <1>0, <2>1, Fields, Cut
  <2>3. UNCHANGED <<fin, started>> /\ sender.pc = "sending"
    BY <1>2 DEF SendSome
  <2> QED  BY <1>0, <2>1, <2>2, <2>3 DEF SenderTrue
<1>3. CASE SendDone \/ SendGivesUp \/ SenderEnds
  <2>1. sender' = Resting
    BY <1>3 DEF SendDone, SendGivesUp, SenderEnds
  <2> QED  BY <2>1, RestingIs DEF SenderTrue
<1>4. CASE UNCHANGED <<sender, started, fin>>
  BY <1>0, <1>4 DEF SenderTrue
<1> QED
  BY <1>1, <1>2, <1>3, <1>4
  DEF PkgNext, pkgVars, PkgRecv, TakeSome, LengthRead, BodyRead, RecvGivesUp, RecvFails

\* A call of PkgRecv that ends leaves nothing behind.
LEMMA GivenEnds ==
    ASSUME PkgTyped, NEW r, NEW b, Give(r, b) \/ receiver' = NotReading
    PROVE  receiver'.pc = "idle" /\ receiver'.have = <<>> /\ receiver'.size = 0
  BY NotReadingIs DEF Give

\* Every step keeps what is true of the receiver.
LEMMA ReceiverStep == PkgIInv /\ [PkgNext]_pkgVars => ReceiverTrue'
<1> SUFFICES ASSUME PkgIInv, [PkgNext]_pkgVars PROVE ReceiverTrue'
  OBVIOUS
<1>0. PkgTyped /\ SenderTrue /\ ReceiverTrue
  BY DEF PkgIInv
<1>1. CASE UNCHANGED <<receiver, stream, reset, fin>>
  BY <1>0, <1>1 DEF ReceiverTrue
<1>2. CASE SendSome
  BY <1>0, <1>2 DEF SendSome, SenderTrue, ReceiverTrue
<1>3. CASE SenderEnds
  BY <1>0, <1>3 DEF SenderEnds, ReceiverTrue
<1>4. CASE PkgRecv
  <2>1. PICK f \in Flags : receiver' = [NotReading EXCEPT !.pc = "length", !.flag = f, !.need = 2]
    BY <1>4 DEF PkgRecv
  <2>2. receiver'.pc = "length" /\ receiver'.need = 2 /\ receiver'.have = <<>>
    BY <2>1, NotReadingIs
  <2> QED  BY <1>0, <1>4, <2>2 DEF PkgRecv, ReceiverTrue
<1>5. CASE TakeSome
  <2>1. PICK k \in 1 .. Len(stream) :
          /\ k <= receiver.need
          /\ receiver'.have = receiver.have \o SubSeq(stream, 1, k) /\ receiver'.need = receiver.need - k
          /\ receiver'.pc = receiver.pc /\ receiver'.size = receiver.size
    BY <1>0, <1>5, TookSome
  <2>2. SubSeq(stream, 1, k) \in Seq(Units) /\ Len(SubSeq(stream, 1, k)) = k
    BY <1>0, Fields, Cut
  <2>3. Len(receiver'.have) = Len(receiver.have) + k /\ Len(receiver.have) \in Nat
    BY <1>0, <2>1, <2>2, Fields, ConcatProperties
  <2>4. receiver.pc \in {"length", "body"} /\ stream # <<>> /\ UNCHANGED <<fin, reset>>
    BY <1>5, Fields, <1>0 DEF TakeSome, Reading
  <2>5. receiver.need \in Nat /\ receiver.size \in Nat /\ k \in Nat
    BY <1>0, Fields
  <2>6. ~reset'
    BY <1>0, <2>4 DEF ReceiverTrue
  <2>7. receiver'.pc \in {"length", "body"} /\ Len(receiver'.have) + receiver'.need = Len(receiver.have) + receiver.need
    BY <2>1, <2>3, <2>4, <2>5
  <2> QED  BY <1>0, <2>1, <2>6, <2>7 DEF ReceiverTrue
<1>6. ASSUME receiver'.pc = "idle", receiver'.have = <<>>,
             UNCHANGED <<stream, fin>>, UNCHANGED reset \/ reset' = FALSE
      PROVE  ReceiverTrue'
  BY <1>0, <1>6 DEF ReceiverTrue
<1>7. CASE LengthRead
  <2>1. CASE receiver' = [receiver EXCEPT !.pc = "body", !.need = Length(receiver.have),
                                          !.size = Length(receiver.have), !.have = <<>>]
    <3>1. receiver'.pc = "body" /\ receiver'.need = receiver'.size /\ receiver'.have = <<>> /\ receiver'.size \in Nat
      BY <1>0, <2>1, BodyBegun, LengthIs
    <3> QED  BY <1>0, <1>7, <3>1 DEF LengthRead, ReceiverTrue
  <2>2. CASE receiver' = NotReading
    BY <1>6, <1>7, <2>2, NotReadingIs DEF LengthRead
  <2> QED  BY <1>7, <2>1, <2>2 DEF LengthRead, Length, Give
<1>8. CASE BodyRead \/ RecvGivesUp \/ RecvFails
  <2>1. receiver' = NotReading
    BY <1>8 DEF BodyRead, RecvGivesUp, RecvFails, Give
  <2> QED  BY <1>6, <1>8, <2>1, NotReadingIs DEF BodyRead, RecvGivesUp, RecvFails
<1> QED
  BY <1>1, <1>2, <1>3, <1>4, <1>5, <1>7, <1>8
  DEF PkgNext, pkgVars, PkgSend, SendDone, SendGivesUp

\* A body that is there to its end has the size that was announced.
LEMMA BodyToEnd ==
    ASSUME PkgTyped, ReceiverTrue, BodyRead, receiver.have # <<>>, ~Ended
    PROVE  Len(receiver.have) = receiver.size
  BY Fields DEF BodyRead, LoopEnds, ReceiverTrue

\* Every step keeps that nothing comes after a short package.
LEMMA ShortStep == PkgIInv /\ [PkgNext]_pkgVars => ShortTrue'
<1> SUFFICES ASSUME PkgIInv, [PkgNext]_pkgVars PROVE ShortTrue'
  OBVIOUS
<1>0. PkgTyped /\ SenderTrue /\ ReceiverTrue /\ ShortTrue
  BY DEF PkgIInv
\* Steps that give no result.
<1>1. ASSUME UNCHANGED results,
             (fin /\ ~reset /\ stream = <<>> /\ receiver.have = <<>>) =>
                fin' /\ ~reset' /\ stream' = <<>> /\ receiver'.have = <<>>
      PROVE  ShortTrue'
  BY <1>0, <1>1 DEF ShortTrue, Short
\* A result that is not a short package, or a short one at the end, behind which there is none.
<1>2. ASSUME NEW r \in {"ok", "zero", "error"}, NEW b \in Seq(Units), Give(r, b),
             UNCHANGED <<stream, fin>>, UNCHANGED reset \/ ~reset',
             r = "ok" => b = receiver.have /\ b # <<>> /\ (Ended \/ Len(b) = receiver.size)
      PROVE  ShortTrue'
  <2>1. /\ Len(results') = Len(results) + 1
        /\ \A i \in 1 .. Len(results) : results'[i] = results[i]
        /\ results'[Len(results) + 1] = [ret |-> r, body |-> b, size |-> receiver.size]
        /\ receiver'.have = <<>>
    BY <1>0, <1>2, Given, NotReadingIs
  <2>2. ASSUME NEW i \in 1 .. Len(results'), Short(i)'
        PROVE  /\ fin' /\ ~reset' /\ stream' = <<>> /\ receiver'.have = <<>>
               /\ \A j \in i + 1 .. Len(results') : results'[j].ret # "ok"
    <3>0. Len(results) \in Nat
      BY <1>0, Fields
    <3>1. CASE i \in 1 .. Len(results)
      <4>1. Short(i)
        BY <2>1, <2>2, <3>1 DEF Short
      <4>2. /\ fin /\ ~reset /\ stream = <<>> /\ receiver.have = <<>>
            /\ \A j \in i + 1 .. Len(results) : results[j].ret # "ok"
        BY <1>0, <3>1, <4>1 DEF ShortTrue
      <4>3. r # "ok"
        BY <1>2, <4>2
      <4>4. ASSUME NEW j \in i + 1 .. Len(results') PROVE results'[j].ret # "ok"
        <5>1. CASE j = Len(results) + 1
          BY <2>1, <4>3, <5>1
        <5>2. CASE j # Len(results) + 1
          <6>1. j \in 1 .. Len(results) /\ j \in i + 1 .. Len(results)
            BY <2>1, <3>0, <3>1, <5>2
          <6> QED  BY <2>1, <4>2, <6>1
        <5> QED  BY <5>1, <5>2
      <4> QED  BY <1>2, <2>1, <4>2, <4>4
    <3>2. CASE i = Len(results) + 1
      <4>1. r = "ok" /\ Len(b) < receiver.size
        BY <2>1, <2>2, <3>2 DEF Short
      <4>2. Ended
        <5>1. Len(b) \in Nat /\ receiver.size \in Nat
          BY <1>0, Fields
        <5> QED  BY <1>2, <4>1, <5>1
      <4>3. \A j \in i + 1 .. Len(results') : FALSE
        BY <2>1, <3>0, <3>2
      <4> QED  BY <1>2, <2>1, <4>2, <4>3 DEF Ended
    <3> QED  BY <2>1, <3>0, <3>1, <3>2
  <2> QED  BY <2>2 DEF ShortTrue
<1>3. CASE PkgSend \/ SendDone \/ SendGivesUp
  BY <1>1, <1>3 DEF PkgSend, SendDone, SendGivesUp
<1>4. CASE SendSome
  <2>1. ~fin
    BY <1>0, <1>4 DEF SendSome, SenderTrue
  <2> QED  BY <1>1, <1>4, <2>1 DEF SendSome
<1>5. CASE SenderEnds
  BY <1>1, <1>5 DEF SenderEnds
<1>6. CASE PkgRecv
  <2>1. receiver'.have = <<>>
    BY <1>6, NotReadingIs DEF PkgRecv, NotReading
  <2> QED  BY <1>1, <1>6, <2>1 DEF PkgRecv
<1>7. CASE TakeSome
  <2>1. stream # <<>> /\ UNCHANGED results
    BY <1>0, <1>7, TookSome, Fields DEF TakeSome
  <2> QED  BY <1>1, <2>1
<1>8. CASE LengthRead
  <2>1. CASE Give("zero", <<>>)
    BY <1>2, <1>8, <2>1, <<>> \in Seq(Units) DEF LengthRead
  <2>2. CASE receiver' = [receiver EXCEPT !.pc = "body", !.need = Length(receiver.have),
                                          !.size = Length(receiver.have), !.have = <<>>] /\ UNCHANGED results
    <3>1. receiver'.have = <<>>
      BY <1>0, <2>2, BodyBegun, LengthIs
    <3> QED  BY <1>1, <1>8, <2>2, <3>1 DEF LengthRead
  <2>3. CASE receiver' = NotReading /\ UNCHANGED results
    BY <1>1, <1>8, <2>3, NotReadingIs DEF LengthRead
  <2> QED  BY <1>8, <2>1, <2>2, <2>3 DEF LengthRead, Length
<1>9. CASE BodyRead
  <2>1. CASE Give("ok", receiver.have) /\ receiver.have # <<>>
    <3>1. Ended \/ Len(receiver.have) = receiver.size
      BY <1>0, <1>9, <2>1, BodyToEnd
    <3> QED  BY <1>0, <1>2, <1>9, <2>1, <3>1, Fields DEF BodyRead
  <2>2. CASE Give("error", <<>>) \/ Give("zero", <<>>)
    BY <1>2, <1>9, <2>2, <<>> \in Seq(Units) DEF BodyRead
  <2> QED  BY <1>9, <2>1, <2>2 DEF BodyRead
<1>10. CASE RecvGivesUp
  BY <1>2, <1>10, <<>> \in Seq(Units) DEF RecvGivesUp
<1>11. CASE RecvFails
  BY <1>2, <1>11, <<>> \in Seq(Units) DEF RecvFails
<1>12. CASE UNCHANGED pkgVars
  BY <1>1, <1>12 DEF pkgVars
<1> QED  BY <1>3, <1>4, <1>5, <1>6, <1>7, <1>8, <1>9, <1>10, <1>11, <1>12 DEF PkgNext

\* Every step keeps that a call that succeeds gives something.
LEMMA FullStep == PkgIInv /\ [PkgNext]_pkgVars => FullTrue'
<1> SUFFICES ASSUME PkgIInv, [PkgNext]_pkgVars PROVE FullTrue'
  OBVIOUS
<1>0. PkgTyped /\ FullTrue
  BY DEF PkgIInv
<1>1. CASE UNCHANGED results
  BY <1>0, <1>1 DEF FullTrue
<1>2. ASSUME NEW r \in {"ok", "zero", "error"}, NEW b \in Seq(Units), Give(r, b), r = "ok" => b # <<>>
      PROVE  FullTrue'
  <2>1. /\ Len(results') = Len(results) + 1
        /\ \A i \in 1 .. Len(results) : results'[i] = results[i]
        /\ results'[Len(results) + 1] = [ret |-> r, body |-> b, size |-> receiver.size]
    BY <1>0, <1>2, Given
  <2>2. ASSUME NEW i \in 1 .. Len(results'), results'[i].ret = "ok" PROVE results'[i].body # <<>>
    <3>1. CASE i \in 1 .. Len(results)
      BY <1>0, <2>1, <2>2, <3>1 DEF FullTrue
    <3>2. CASE i = Len(results) + 1
      BY <1>2, <2>1, <2>2, <3>2
    <3> QED  BY <1>0, <2>1, <3>1, <3>2, Fields
  <2> QED  BY <2>2 DEF FullTrue
<1>3. CASE LengthRead
  BY <1>1, <1>2, <1>3, <<>> \in Seq(Units) DEF LengthRead
<1>4. CASE BodyRead
  BY <1>0, <1>2, <1>4, Fields, <<>> \in Seq(Units) DEF BodyRead
<1>5. CASE RecvGivesUp \/ RecvFails
  BY <1>2, <1>5, <<>> \in Seq(Units) DEF RecvGivesUp, RecvFails
<1> QED
  BY <1>1, <1>3, <1>4, <1>5
  DEF PkgNext, pkgVars, PkgSend, SendSome, SendDone, SendGivesUp, SenderEnds, PkgRecv, TakeSome

----------------------------------------------------------------------------
(* What was received *)

InOrder ==
    /\ \A i \in Whole : \E p \in 1 .. Len(started) : results[i].body = Body(p)
    /\ \A i, j \in Whole : i < j => results[i].body[1].of < results[j].body[1].of
    /\ \A i \in Whole : Before(results[i].body[1].of)

LEMMA OrderIs == PackagesInOrder <=> (~gaveUp => InOrder)
  BY DEF PackagesInOrder, InOrder, Before, Fits, Received

LEMMA BodyIs ==
    ASSUME PkgTyped, NEW p \in 1 .. Len(started)
    PROVE  /\ Body(p) \in Seq(Units) /\ Len(Body(p)) = started[p] /\ started[p] \in Nat
           /\ \A i \in 1 .. started[p] : Body(p)[i] = [of |-> p, size |-> started[p], at |-> i]
  <1>1. started[p] \in Nat /\ p \in Nat
    BY Fields
  <1>2. ASSUME NEW n \in Nat
        PROVE  LET b == [i \in 1 .. n |-> [of |-> p, size |-> n, at |-> i]]
               IN  b \in Seq(Units) /\ Len(b) = n /\ \A i \in 1 .. n : b[i] = [of |-> p, size |-> n, at |-> i]
    BY <1>1 DEF Units
  <1> QED  BY <1>1, <1>2 DEF Body

\* A whole package says which one it is.
LEMMA WholeIs ==
    ASSUME PkgTyped, FullTrue, InOrder, NEW i \in Whole
    PROVE  /\ results[i].body[1].of \in 1 .. Len(started)
           /\ results[i].body = Body(results[i].body[1].of)
  <1>1. i \in 1 .. Len(results) /\ results[i].body # <<>> /\ Len(results[i].body) \in Nat
    BY ResultIs DEF Whole, FullTrue
  <1>2. PICK p \in 1 .. Len(started) : results[i].body = Body(p)
    BY DEF InOrder
  <1>3. Body(p) \in Seq(Units) /\ Body(p) # <<>> /\ Len(Body(p)) = started[p] /\ started[p] \in Nat
    BY <1>1, <1>2, BodyIs
  <1>4. 1 \in 1 .. started[p]
    BY <1>3
  <1>5. Body(p)[1] = [of |-> p, size |-> started[p], at |-> 1]
    BY <1>4, BodyIs
  <1> QED  BY <1>2, <1>5

\* It stays as it is when packages are sent or refused and calls give no package.
LEMMA HistoryKept ==
    ASSUME PkgTyped, FullTrue,
           Len(started) <= Len(started)', \A p \in 1 .. Len(started) : started'[p] = started[p],
           refused \subseteq refused',
           Whole \subseteq Whole', \A i \in Whole : results'[i] = results[i]
    PROVE  /\ \A p \in 1 .. Len(started) : Body(p)' = Body(p)
           /\ \A p \in 1 .. Len(started) + 1 : Before(p) => Before(p)'
           /\ InOrder /\ Whole' = Whole => InOrder'
  <1>0. Len(started) \in Nat
    BY Fields
  <1>1. ASSUME NEW p \in 1 .. Len(started) PROVE Body(p)' = Body(p)
    BY <1>1 DEF Body
  <1>2. ASSUME NEW p \in 1 .. Len(started) + 1, Before(p) PROVE Before(p)'
    <2>1. ASSUME NEW q \in 1 .. p - 1, Fits(q)' PROVE Received(q)'
      <3>1. q \in 1 .. Len(started)
        BY <1>0
      <3>2. Fits(q)
        BY <2>1, <3>1 DEF Fits
      <3>3. PICK j \in Whole : results[j].body = Body(q)
        BY <1>2, <3>2 DEF Before, Received
      <3>4. results'[j].body = Body(q)' /\ j \in Whole'
        BY <1>1, <3>1, <3>3
      <3> QED  BY <3>4 DEF Received
    <2> QED  BY <2>1 DEF Before
  <1>3. ASSUME InOrder, Whole' = Whole PROVE InOrder'
    <2>1. ASSUME NEW i \in Whole
          PROVE  /\ results'[i].body = results[i].body
                 /\ results[i].body[1].of \in 1 .. Len(started)
                 /\ results[i].body = Body(results[i].body[1].of)
      BY <1>3, WholeIs
    <2>2. \A i \in Whole : \E p \in 1 .. Len(started)' : results'[i].body = Body(p)'
      <3> TAKE i \in Whole
      <3> DEFINE p == results[i].body[1].of
      <3>1. p \in 1 .. Len(started) /\ results'[i].body = Body(p) /\ p \in 1 .. Len(started')
        BY <2>1, <1>0
      <3>2. Body(p)' = Body(p)
        BY <1>1, <3>1
      <3> QED  BY <3>1, <3>2
    <2>3. \A i, j \in Whole : i < j => results'[i].body[1].of < results'[j].body[1].of
      BY <1>3, <2>1 DEF InOrder
    <2>4. \A i \in Whole : Before(results[i].body[1].of)'
      <3> TAKE i \in Whole
      <3>1. results[i].body[1].of \in 1 .. Len(started) + 1 /\ Before(results[i].body[1].of)
        BY <1>0, <1>3, <2>1 DEF InOrder
      <3> QED  BY <1>2, <3>1
    <2> QED  BY <1>3, <2>1, <2>2, <2>3, <2>4 DEF InOrder
  <1> QED  BY <1>1, <1>2, <1>3

----------------------------------------------------------------------------
(* The line *)

\* A chain is one still when more packages are refused.
LEMMA MoreRefused ==
    ASSUME NEW L, NEW st, NEW rf, NEW more, rf \subseteq more, Chain(L, st, rf)
    PROVE  Chain(L, st, more)
  BY DEF Chain, Joined

LEMMA EmptyChain == ASSUME NEW st, NEW rf PROVE Chain(<<>>, st, rf) /\ WholePackages(<<>>, st, rf)
  BY DEF Chain, UnitsTrue, Together, Joined, WholePackages

\* What the line begins with: the body of a package of that size, or a length.
Begun == IF InBody THEN receiver.size ELSE 0

LineGood ==
    /\ Chain(Line, started, refused)
    /\ ~fin => WholePackages(Line, started, refused)
    /\ BeginsAt(Line, Begun)
    /\ InOrder

LEMMA GoodIs == LineTrue /\ PackagesInOrder <=> (~gaveUp => LineGood)
  BY OrderIs DEF LineTrue, LineGood, BeginTrue, Begun

LEMMA LineFields ==
    ASSUME PkgTyped, LineGood
    PROVE  /\ Line \in Seq(Units) /\ Len(Line) \in Nat /\ (Line # <<>> <=> Len(Line) > 0)
           /\ \A i \in 1 .. Len(Line) :
                  /\ Line[i].of \in 1 .. Len(started) /\ Line[i].size = started[Line[i].of]
                  /\ Line[i].at \in -1 .. Line[i].size
                  /\ Line[i].of \in Nat /\ Line[i].size \in Nat /\ Line[i].at \in Int
  <1>1. Line \in Seq(Units)
    BY Fields
  <1>2. UnitsTrue(Line, started)
    BY DEF LineGood, Chain
  <1> QED  BY <1>1, <1>2, UnitIs DEF UnitsTrue

\* A step that leaves the line as it is.
LEMMA SameLine ==
    ASSUME PkgTyped, FullTrue, LineGood, Line' = Line, Begun' = Begun, UNCHANGED <<fin, started, refused>>,
           Whole' = Whole, \A i \in Whole : results'[i] = results[i]
    PROVE  LineGood'
  <1>1. /\ \A p \in 1 .. Len(started) + 1 : Before(p) => Before(p)'
        /\ InOrder'
    BY HistoryKept, Fields DEF LineGood
  <1>2. Line # <<>> => Line[1].of \in 1 .. Len(started) + 1
    BY LineFields
  <1>3. BeginsAt(Line, Begun)'
    <2>0. BeginsAt(Line, Begun) /\ Whole' = Whole /\ \A i \in Whole : results'[i] = results[i]
      BY DEF LineGood
    <2>1. ASSUME Line # <<>>
          PROVE  Before(Line[1].of)' /\ \A i \in Whole' : results'[i].body[1].of < Line[1].of
      BY <1>1, <1>2, <2>0, <2>1 DEF BeginsAt
    <2>2. ASSUME Line = <<>>
          PROVE  fin' \/ (Begun = 0 /\ Before(Len(started) + 1)')
      <3>1. Len(started) + 1 \in 1 .. Len(started) + 1
        BY Fields
      <3> QED  BY <1>1, <2>0, <2>2, <3>1 DEF BeginsAt
    <2> QED  BY <2>0, <2>1, <2>2 DEF BeginsAt
  <1> QED  BY <1>1, <1>3 DEF LineGood

\* A step that shortens the line at its end, or refuses what it takes away.
LEMMA ShorterLine ==
    ASSUME PkgTyped, PkgTyped', FullTrue, LineGood, Begun' = Begun, UNCHANGED <<started, results>>,
           refused \subseteq refused', Len(Line') <= Len(Line), \A i \in 1 .. Len(Line') : Line'[i] = Line[i],
           fin' \/ WholePackages(Line, started, refused)',
           Line' = <<>> => fin' \/ (Begun = 0 /\ Before(Len(started) + 1)')
    PROVE  LineGood'
  <1>0. Line' \in Seq(Units) /\ Line \in Seq(Units) /\ Len(Line') \in Nat /\ (Line' # <<>> => Len(Line') > 0)
    <2>1. Line \in Seq(Units) /\ receiver'.have \in Seq(Units) /\ stream' \in Seq(Units) /\ sender'.rest \in Seq(Units)
      BY Fields DEF PkgTyped
    <2>2. Line' \in Seq(Units)
      BY <2>1, RowIs DEF Line
    <2> QED  BY <2>1, <2>2
  <1>1. /\ \A p \in 1 .. Len(started) + 1 : Before(p) => Before(p)'
        /\ InOrder' /\ Whole' = Whole
    BY HistoryKept, Fields DEF LineGood, Whole
  <1>2. Line' # <<>> => /\ Line # <<>> /\ Line'[1] = Line[1] /\ Line[1].of \in 1 .. Len(started) + 1
    BY <1>0, LineFields
  <1>3. BeginsAt(Line, Begun)'
    <2>0. BeginsAt(Line, Begun)
      BY DEF LineGood
    <2>1. ASSUME Line' # <<>>
          PROVE  /\ IF Begun' > 0 THEN Line'[1].at = 1 /\ Line'[1].size = Begun' ELSE Line'[1].at = -1
                 /\ Before(Line[1].of)' /\ \A i \in Whole' : results'[i].body[1].of < Line'[1].of
      <3>1. PICK p \in 1 .. Len(started) + 1 : p = Line[1].of /\ p = Line'[1].of /\ Before(p)
        BY <1>2, <2>0, <2>1 DEF BeginsAt
      <3>2. Before(p)'
        BY <1>1, <3>1
      <3>3. Before(Line[1].of)'
        BY <3>1, <3>2 DEF Before
      <3>4. IF Begun > 0 THEN Line[1].at = 1 /\ Line[1].size = Begun ELSE Line[1].at = -1
        BY <1>2, <2>0, <2>1 DEF BeginsAt
      <3>5. \A i \in Whole : results[i].body[1].of < Line[1].of
        BY <1>2, <2>0, <2>1 DEF BeginsAt
      <3>6. \A i \in Whole' : results'[i].body[1].of < Line'[1].of
        BY <1>1, <1>2, <2>1, <3>5
      <3> QED  BY <1>2, <2>1, <3>3, <3>4, <3>6
    <2>2. Line' = <<>> => fin' \/ (Begun' = 0 /\ Before(Len(started) + 1)')
      OBVIOUS
    <2> QED  BY <2>1, <2>2 DEF BeginsAt
  <1>4. Chain(Line, started, refused)'
    <2>1. Chain(Line, started, refused')
      BY MoreRefused DEF LineGood
    <2>2. /\ Line \in Seq(Units) /\ Line' \in Seq(Units) /\ started \in Seq(Nat) /\ 0 \in Nat
          /\ Len(Line') + 0 <= Len(Line) /\ \A i \in 1 .. Len(Line') : Line'[i] = Line[0 + i]
      BY <1>0, Fields
    <2>3. Chain(Line', started, refused')
      BY <2>1, <2>2, ChainPart
    <2> QED  BY <2>3
  <1> QED  BY <1>1, <1>3, <1>4 DEF LineGood

\* A package joins a complete line.
LEMMA PackageJoins ==
    ASSUME PkgTyped, PkgTyped', SenderTrue, FullTrue, LineGood, PkgSend
    PROVE  LineGood'
  <1>1. PICK n \in BodySizes, f \in Flags :
          /\ sender' = [pc |-> "sending", flag |-> f, rest |-> Package(Len(started) + 1, n)]
          /\ started' = Append(started, n)
    BY DEF PkgSend
  <1>2. /\ n \in Nat /\ started \in Seq(Nat) /\ Len(started) \in Nat
        /\ UNCHANGED <<stream, fin, receiver, results, refused>> /\ ~fin /\ sender.rest = <<>>
    BY Fields, PkgAssumption DEF PkgSend, SenderTrue
  <1> DEFINE P == Package(Len(started) + 1, n)
  <1>3. /\ P \in Seq(Units) /\ Len(P) = n + 2
        /\ \A i \in 1 .. n + 2 : P[i] = [of |-> Len(started) + 1, size |-> n, at |-> i - 2]
    <2>1. Len(started) + 1 \in Nat
      BY <1>2
    <2> QED  BY <1>2, <2>1, PackageIs
  <1>4. Line = Row(receiver.have, stream, <<>>) /\ Line' = Row(receiver.have, stream, P)
    BY <1>1, <1>2 DEF Line
  <1> HIDE DEF P
  <1>5. /\ Line' \in Seq(Units) /\ Line \in Seq(Units) /\ Len(Line') = Len(Line) + n + 2 /\ Len(Line) \in Nat
        /\ \A i \in 1 .. Len(Line) : Line'[i] = Line[i]
        /\ \A i \in 1 .. n + 2 : Line'[Len(Line) + i] = P[i]
    <2>1. receiver.have \in Seq(Units) /\ stream \in Seq(Units)
      BY Fields
    <2>2. Row(receiver.have, stream, <<>>) \in Seq(Units) /\ Behind(Row(receiver.have, stream, <<>>), P, Row(receiver.have, stream, P))
      BY <1>3, <2>1, RowWithoutLast
    <2>3. Row(receiver.have, stream, P) \in Seq(Units)
      BY <1>3, <2>1, RowIs
    <2> QED  BY <1>2, <1>3, <1>4, <2>2, <2>3 DEF Behind
  <1>6. Chain(Line', started', refused) /\ WholePackages(Line', started', refused)
    <2>1. Chain(Line, started, refused) /\ WholePackages(Line, started, refused)
      BY <1>2 DEF LineGood
    <2>2. \A i \in 1 .. n + 2 : Line'[Len(Line) + i] = [of |-> Len(started) + 1, size |-> n, at |-> i - 2]
      BY <1>3, <1>5
    <2> QED  BY <1>1, <1>2, <1>5, <2>1, <2>2, ChainLonger
  <1>7. /\ Len(started') = Len(started) + 1 /\ \A p \in 1 .. Len(started) : started'[p] = started[p]
        /\ Whole' = Whole
    BY <1>1, <1>2 DEF Whole
  <1>8. /\ \A p \in 1 .. Len(started) + 1 : Before(p) => Before(p)'
        /\ InOrder'
    BY <1>2, <1>7, HistoryKept DEF LineGood
  <1>9. Begun' = Begun
    BY <1>2 DEF Begun, InBody
  <1>10. BeginsAt(Line, Begun)'
    <2>0. BeginsAt(Line, Begun)
      BY DEF LineGood
    <2>1. Line' # <<>>
      BY <1>2, <1>5
    <2>2. CASE Line # <<>>
      <3>1. Line'[1] = Line[1] /\ Line[1].of \in 1 .. Len(started) + 1
        BY <2>2, LineFields, <1>2, <1>5
      <3>2. PICK p \in 1 .. Len(started) + 1 : p = Line[1].of /\ p = Line'[1].of /\ Before(p)
        BY <2>0, <2>2, <3>1 DEF BeginsAt
      <3>3. Before(Line[1].of)'
        BY <1>8, <3>2 DEF Before
      <3>4. \A i \in Whole' : results'[i].body[1].of < Line'[1].of
        BY <1>2, <1>7, <2>0, <2>2, <3>1 DEF BeginsAt
      <3>5. IF Begun' > 0 THEN Line'[1].at = 1 /\ Line'[1].size = Begun' ELSE Line'[1].at = -1
        BY <1>9, <2>0, <2>2, <3>1 DEF BeginsAt
      <3> QED  BY <2>1, <3>3, <3>4, <3>5 DEF BeginsAt
    <2>3. CASE Line = <<>>
      <3>1. Begun = 0 /\ Before(Len(started) + 1)
        BY <1>2, <2>0, <2>3 DEF BeginsAt
      <3>2. Line'[1].of = Len(started) + 1 /\ Line'[1].at = -1
        <4>1. Len(Line) = 0 /\ 1 \in 1 .. n + 2
          BY <1>2, <2>3
        <4>2. Line'[Len(Line) + 1] = [of |-> Len(started) + 1, size |-> n, at |-> 1 - 2]
          BY <1>3, <1>5, <4>1
        <4>3. Line'[1] = [of |-> Len(started) + 1, size |-> n, at |-> -1]
          BY <4>1, <4>2
        <4> QED  BY <4>3
      <3>3. PICK p \in 1 .. Len(started) + 1 : p = Len(started) + 1 /\ p = Line'[1].of /\ Before(p)
        BY <1>2, <3>1, <3>2
      <3>4. Before(Line[1].of)'
        BY <1>8, <3>3 DEF Before
      <3>5. \A i \in Whole : results[i].body[1].of \in 1 .. Len(started)
        BY WholeIs DEF LineGood
      <3>6. \A i \in Whole' : results'[i].body[1].of < Line'[1].of
        BY <1>2, <1>7, <3>2, <3>5
      <3> QED  BY <1>9, <2>1, <3>1, <3>2, <3>4, <3>6 DEF BeginsAt
    <2> QED  BY <2>2, <2>3
  <1> QED  BY <1>2, <1>6, <1>8, <1>10 DEF LineGood

\* The loop of the sender, and its end.
LEMMA SenderGoesOn ==
    ASSUME PkgTyped, SenderTrue, FullTrue, LineGood, SendSome \/ SendDone
    PROVE  LineGood'
  <1>1. UNCHANGED <<fin, started, refused, results, receiver>>
    BY DEF SendSome, SendDone
  <1>2. Begun' = Begun /\ Whole' = Whole /\ \A i \in Whole : results'[i] = results[i]
    BY <1>1 DEF Begun, InBody, Whole
  <1>3. Line' = Line
    <2>1. CASE SendSome
      <3>1. PICK k \in 1 .. Len(sender.rest) :
              /\ stream' = stream \o SubSeq(sender.rest, 1, k)
              /\ sender'.rest = SubSeq(sender.rest, k + 1, Len(sender.rest))
        BY <2>1, Sent
      <3>2. receiver.have \in Seq(Units) /\ stream \in Seq(Units) /\ sender.rest \in Seq(Units)
        BY Fields
      <3>3. Row(receiver.have, stream \o SubSeq(sender.rest, 1, k), SubSeq(sender.rest, k + 1, Len(sender.rest)))
              = Row(receiver.have, stream, sender.rest)
        BY <3>2, BackMoves
      <3> QED  BY <1>1, <3>1, <3>3, Zenon DEF Line
    <2>2. CASE SendDone
      BY <1>1, <2>2, RestingIs DEF SendDone, Line
    <2> QED  BY <2>1, <2>2
  <1> QED  BY <1>1, <1>2, <1>3, SameLine

\* A sender that gives up before the first unit, or ends, takes the rest with it.
LEMMA SenderLeaves ==
    ASSUME PkgTyped, PkgTyped', SenderTrue, ReceiverTrue, FullTrue, LineGood, ~gaveUp', SendGivesUp \/ SenderEnds
    PROVE  LineGood'
  <1>1. /\ UNCHANGED <<started, results, receiver>> /\ sender'.rest = <<>> /\ refused \subseteq refused'
        /\ Begun' = Begun /\ Whole' = Whole
    BY RestingIs DEF SendGivesUp, SenderEnds, Begun, InBody, Whole
  <1>2. receiver.have \in Seq(Units) /\ stream \in Seq(Units) /\ sender.rest \in Seq(Units) /\ Len(started) \in Nat
    BY Fields
  <1>3. CASE SenderEnds
    <2>1. fin'
      BY <1>3 DEF SenderEnds
    <2>2. Len(Line') <= Len(Line) /\ \A i \in 1 .. Len(Line') : Line'[i] = Line[i]
      <3>1. CASE stream' = stream
        <4>1. Line' = Row(receiver.have, stream, <<>>)
          BY <1>1, <3>1 DEF Line
        <4>2. Behind(Line', sender.rest, Line) /\ Line' \in Seq(Units)
          BY <1>2, <4>1, RowWithoutLast DEF Line
        <4>3. Len(Line) \in Nat /\ Len(sender.rest) \in Nat /\ Len(Line') \in Nat
          BY <1>2, <4>2, LineFields
        <4> QED  BY <4>2, <4>3 DEF Behind
      <3>2. CASE stream' = <<>>
        <4>1. Line' = Row(receiver.have, <<>>, <<>>)
          BY <1>1, <3>2 DEF Line
        <4>2. Row(receiver.have, <<>>, <<>>) = receiver.have /\ InitialPart(receiver.have, Line)
          BY <1>2, RowWithoutTwo DEF Line
        <4> QED  BY <4>1, <4>2 DEF InitialPart
      <3> QED  BY <1>3, <3>1, <3>2 DEF SenderEnds
    <2> QED  BY <1>1, <2>1, <2>2, ShorterLine
  <1>4. CASE SendGivesUp
    <2>1. /\ sender.rest # <<>> /\ Head(sender.rest).at = -1 /\ refused' = refused \cup {Len(started)}
          /\ UNCHANGED <<stream, fin>> /\ sender.pc = "sending" /\ Len(started) > 0
      BY <1>4 DEF SendGivesUp, SenderTrue
    <2>2. Line' = Row(receiver.have, stream, <<>>)
      BY <1>1, <2>1 DEF Line
    <2>a. Behind(Line', sender.rest, Line) /\ Line' \in Seq(Units)
      BY <1>2, <2>2, RowWithoutLast DEF Line
    <2>3. /\ Len(Line') + Len(sender.rest) = Len(Line) /\ Line' \in Seq(Units)
          /\ \A i \in 1 .. Len(Line') : Line'[i] = Line[i]
          /\ \A i \in 1 .. Len(sender.rest) : Line[Len(Line') + i] = sender.rest[i]
      BY <2>a DEF Behind
    <2>4. Len(Line') \in Nat /\ Len(Line) \in Nat /\ Len(sender.rest) \in Nat /\ Len(sender.rest) > 0
      BY <1>2, <2>1, <2>3, LineFields
    <2>5. /\ Line[Len(Line') + 1].at = -1 /\ Line[Len(Line') + 1].of = Len(started)
          /\ Len(Line') + 1 \in 1 .. Len(Line)
      <3>1. 1 \in 1 .. Len(sender.rest) /\ Head(sender.rest) = sender.rest[1]
        BY <1>2, <2>1, <2>4
      <3>2. sender.rest[1].of = Len(started)
        BY <3>1 DEF SenderTrue
      <3>3. Line[Len(Line') + 1] = sender.rest[1]
        BY <2>3, <3>1
      <3> QED  BY <2>1, <2>3, <2>4, <3>1, <3>2, <3>3
    <2>6. WholePackages(Line', started, refused')
      <3> SUFFICES ASSUME Line' # <<>>
                   PROVE  /\ Line'[Len(Line')].at = Line'[Len(Line')].size
                          /\ \A p \in Line'[Len(Line')].of + 1 .. Len(started) : p \in refused'
        BY DEF WholePackages
      <3>1. Len(Line') \in 1 .. Len(Line) - 1 /\ Len(Line') \in 1 .. Len(Line') /\ Len(Line') \in 1 .. Len(Line)
        BY <2>3, <2>4
      <3>2. /\ Line[Len(Line')].at = Line[Len(Line')].size
            /\ \A p \in Line[Len(Line')].of + 1 .. Len(started) - 1 : p \in refused
        BY <2>5, <3>1 DEF LineGood, Chain, Joined
      <3>3. Line[Len(Line')].of \in Nat
        BY <3>1, LineFields
      <3>4. \A p \in Line[Len(Line')].of + 1 .. Len(started) : p \in refused'
        BY <1>2, <2>1, <3>2, <3>3
      <3> QED  BY <2>3, <3>1, <3>2, <3>4
    <2>7. ASSUME Line' = <<>> PROVE Begun = 0 /\ Before(Len(started) + 1)'
      <3>1. Len(Line') = 0 /\ Line # <<>>
        BY <2>3, <2>4, <2>7
      <3>2. Line[1].at = -1 /\ Line[1].of = Len(started)
        BY <2>5, <3>1
      <3>3. ~(Begun > 0) /\ Before(Len(started))
        BY <3>1, <3>2 DEF LineGood, BeginsAt
      <3>4. Begun = 0
        BY <3>3, Fields DEF Begun, InBody
      <3>5. Before(Len(started))'
        <4>1. \A p \in 1 .. Len(started) + 1 : Before(p) => Before(p)'
          BY <1>1, HistoryKept, <1>2 DEF Whole
        <4>2. PICK p \in 1 .. Len(started) + 1 : p = Len(started) /\ Before(p)
          BY <1>2, <2>1, <3>3
        <4> QED  BY <1>1, <4>1, <4>2
      <3>6. ~Fits(Len(started))'
        BY <1>1, <2>1 DEF Fits
      <3>7. Before(Len(started) + 1)'
        BY <1>1, <1>2, <2>1, <3>5, <3>6 DEF Before
      <3> QED  BY <3>4, <3>7
    <2>8. Len(Line') <= Len(Line)
      BY <2>3, <2>4
    <2> QED  BY <1>1, <2>3, <2>6, <2>7, <2>8, ShorterLine
  <1> QED  BY <1>3, <1>4

----------------------------------------------------------------------------
(* The receiver and the line *)

\* Calls that give no whole package.
LEMMA WholeSame ==
    ASSUME PkgTyped, NEW r \in {"ok", "zero", "error"}, NEW b \in Seq(Units), Give(r, b),
           ~(r = "ok" /\ Len(b) = receiver.size)
    PROVE  Whole' = Whole /\ \A i \in Whole : results'[i] = results[i]
  <1>1. /\ Len(results') = Len(results) + 1 /\ Len(results) \in Nat
        /\ \A i \in 1 .. Len(results) : results'[i] = results[i]
        /\ results'[Len(results) + 1] = [ret |-> r, body |-> b, size |-> receiver.size]
    BY Given, Fields
  <1>2. ASSUME NEW i PROVE i \in Whole' <=> i \in Whole
    <2>1. CASE i \in 1 .. Len(results)
      BY <1>1, <2>1 DEF Whole
    <2>2. CASE i = Len(results) + 1
      BY <1>1, <2>2 DEF Whole
    <2>3. CASE i \notin 1 .. Len(results')
      BY <1>1, <2>3 DEF Whole
    <2> QED  BY <1>1, <2>1, <2>2, <2>3
  <1> QED  BY <1>1, <1>2 DEF Whole

\* One that does.
LEMMA WholeMore ==
    ASSUME PkgTyped, NEW b \in Seq(Units), Give("ok", b), Len(b) = receiver.size
    PROVE  /\ Whole' = Whole \cup {Len(results) + 1} /\ \A i \in Whole : results'[i] = results[i]
           /\ \A i \in Whole : i \in 1 .. Len(results)
           /\ results'[Len(results) + 1].body = b
  <1>1. /\ Len(results') = Len(results) + 1 /\ Len(results) \in Nat
        /\ \A i \in 1 .. Len(results) : results'[i] = results[i]
        /\ results'[Len(results) + 1] = [ret |-> "ok", body |-> b, size |-> receiver.size]
    BY Given, Fields
  <1>2. ASSUME NEW i PROVE i \in Whole' <=> i \in Whole \/ i = Len(results) + 1
    <2>1. CASE i \in 1 .. Len(results)
      BY <1>1, <2>1 DEF Whole
    <2>2. CASE i = Len(results) + 1
      BY <1>1, <2>2 DEF Whole
    <2>3. CASE i \notin 1 .. Len(results')
      BY <1>1, <2>3 DEF Whole
    <2> QED  BY <1>1, <2>1, <2>2, <2>3
  <1> QED  BY <1>1, <1>2 DEF Whole

\* A call begins; it takes from the stream what it had not; it gives up before it
\* had anything.
LEMMA ReceiverGoesOn ==
    ASSUME PkgTyped, ReceiverTrue, FullTrue, LineGood, PkgRecv \/ TakeSome
    PROVE  LineGood'
  <1>1. UNCHANGED <<fin, started, refused, results, sender>>
    BY DEF PkgRecv, TakeSome
  <1>2. Whole' = Whole /\ \A i \in Whole : results'[i] = results[i]
    BY <1>1 DEF Whole
  <1>3. CASE PkgRecv
    <2>1. PICK f \in Flags : receiver' = [NotReading EXCEPT !.pc = "length", !.flag = f, !.need = 2]
      BY <1>3 DEF PkgRecv
    <2>2. receiver'.pc = "length" /\ receiver'.have = <<>> /\ receiver.pc = "idle" /\ receiver.have = <<>>
      BY <1>3, <2>1, NotReadingIs DEF PkgRecv, ReceiverTrue
    <2>3. Line' = Line /\ Begun' = Begun
      BY <1>1, <1>3, <2>2 DEF PkgRecv, Line, Begun, InBody
    <2> QED  BY <1>1, <1>2, <2>3, SameLine
  <1>4. CASE TakeSome
    <2>1. PICK k \in 1 .. Len(stream) :
            /\ stream' = SubSeq(stream, k + 1, Len(stream))
            /\ receiver'.have = receiver.have \o SubSeq(stream, 1, k)
            /\ receiver'.pc = receiver.pc /\ receiver'.size = receiver.size
      BY <1>4, TookSome
    <2>2. receiver.have \in Seq(Units) /\ stream \in Seq(Units) /\ sender.rest \in Seq(Units)
      BY Fields
    <2>3. Row(receiver.have \o SubSeq(stream, 1, k), SubSeq(stream, k + 1, Len(stream)), sender.rest)
            = Row(receiver.have, stream, sender.rest)
      BY <2>2, FrontMoves
    <2>4. Line' = Line
      BY <1>1, <2>1, <2>3, Zenon DEF Line
    <2>5. Begun' = Begun
      BY <2>1 DEF Begun, InBody
    <2> QED  BY <1>1, <1>2, <2>4, <2>5, SameLine
  <1> QED  BY <1>3, <1>4

\* A call that had nothing and gives nothing.
LEMMA NothingGiven ==
    ASSUME PkgTyped, ReceiverTrue, FullTrue, LineGood, receiver.have = <<>>, Begun = 0,
           NEW r \in {"zero", "error"}, Give(r, <<>>), UNCHANGED <<stream, fin, sender, started, refused>>
    PROVE  LineGood'
  <1>1. Whole' = Whole /\ \A i \in Whole : results'[i] = results[i]
    BY WholeSame, <<>> \in Seq(Units)
  <1>2. receiver'.have = <<>> /\ receiver'.pc = "idle"
    BY NotReadingIs DEF Give
  <1>3. Line' = Line /\ Begun' = Begun
    BY <1>2 DEF Line, Begun, InBody
  <1> QED  BY <1>1, <1>3, SameLine

\* Nothing is left and the sender is gone.
LEMMA LineEmpty ==
    ASSUME PkgTyped, FullTrue, LineGood, UNCHANGED <<started, refused>>, fin',
           receiver'.have = <<>>, stream' = <<>>, sender'.rest = <<>>,
           Whole' = Whole, \A i \in Whole : results'[i] = results[i]
    PROVE  LineGood'
  <1>1. Line' = <<>>
    BY DEF Line, Row
  <1>2. InOrder'
    BY HistoryKept, Fields DEF LineGood
  <1>3. Chain(Line', started', refused')
    BY <1>1, EmptyChain
  <1> QED  BY <1>1, <1>2, <1>3 DEF LineGood, BeginsAt

\* What remains of the line behind a part that was read.
LEMMA RestOfLine ==
    ASSUME PkgTyped, LineGood, NEW a \in Seq(Units), NEW M \in Seq(Units), InFront(a, M, Line)
    PROVE  /\ Chain(M, started, refused)
           /\ ~fin => WholePackages(M, started, refused)
  <1>0. /\ Len(M) \in Nat /\ Len(a) \in Nat /\ Len(Line) \in Nat /\ Line \in Seq(Units)
        /\ Len(M) + Len(a) = Len(Line) /\ \A i \in 1 .. Len(M) : M[i] = Line[Len(a) + i]
    BY LineFields DEF InFront
  <1>1. Chain(M, started, refused)
    <2>1. Chain(Line, started, refused) /\ started \in Seq(Nat) /\ Len(M) + Len(a) <= Len(Line)
      BY <1>0, Fields DEF LineGood
    <2> QED  BY <1>0, <2>1, ChainPart
  <1>2. ASSUME ~fin, M # <<>> PROVE M[Len(M)] = Line[Len(Line)] /\ Line # <<>>
    <2>1. Len(M) \in 1 .. Len(M) /\ Len(a) + Len(M) = Len(Line) /\ Len(Line) > 0
      BY <1>0, <1>2
    <2>2. M[Len(M)] = Line[Len(a) + Len(M)]
      BY <1>0, <2>1
    <2>3. Line[Len(a) + Len(M)] = Line[Len(Line)]
      BY <2>1, Zenon
    <2>4. Line # <<>>
      BY <2>1
    <2> QED  BY <2>2, <2>3, <2>4
  <1>3. ~fin => WholePackages(M, started, refused)
    BY <1>2 DEF LineGood, WholePackages
  <1> QED  BY <1>1, <1>3

\* Behind the end of a package there is the next one, or nothing but refused ones.
LEMMA BehindPackage ==
    ASSUME PkgTyped, LineGood, NEW a \in Seq(Units), NEW M \in Seq(Units), InFront(a, M, Line),
           Len(a) > 0, Len(a) <= Len(Line), Line[Len(a)].at = Line[Len(a)].size
    PROVE  /\ M # <<>> => /\ M[1].at = -1 /\ M[1] = Line[Len(a) + 1] /\ Line[Len(a)].of < M[1].of
                          /\ \A q \in Line[Len(a)].of + 1 .. M[1].of - 1 : q \in refused
           /\ M = <<>> => fin \/ \A q \in Line[Len(a)].of + 1 .. Len(started) : q \in refused
  <1>0. /\ Len(M) \in Nat /\ Len(a) \in Nat /\ Len(Line) \in Nat /\ Line \in Seq(Units) /\ started \in Seq(Nat)
        /\ Len(M) + Len(a) = Len(Line) /\ \A i \in 1 .. Len(M) : M[i] = Line[Len(a) + i]
    BY LineFields, Fields, SMTT(60) DEF InFront
  <1>1. ASSUME M # <<>>
        PROVE  /\ M[1].at = -1 /\ M[1] = Line[Len(a) + 1] /\ Line[Len(a)].of < M[1].of
               /\ \A q \in Line[Len(a)].of + 1 .. M[1].of - 1 : q \in refused
    <2>1. Len(a) \in 1 .. Len(Line) - 1 /\ 1 \in 1 .. Len(M)
      BY <1>0, <1>1
    <2>2. M[1] = Line[Len(a) + 1]
      BY <1>0, <2>1
    <2>3. Chain(Line, started, refused)
      BY DEF LineGood
    <2>4. /\ Line[Len(a) + 1].at = -1 /\ Line[Len(a)].of < Line[Len(a) + 1].of
          /\ \A q \in Line[Len(a)].of + 1 .. Line[Len(a) + 1].of - 1 : q \in refused
      BY <1>0, <2>1, <2>3, NextBegins
    <2> QED  BY <2>2, <2>4
  <1>2. ASSUME M = <<>>, ~fin
        PROVE  \A q \in Line[Len(a)].of + 1 .. Len(started) : q \in refused
    <2>1. Len(a) = Len(Line) /\ Line # <<>>
      BY <1>0, <1>2
    <2> QED  BY <1>2, <2>1 DEF LineGood, WholePackages
  <1> QED  BY <1>1, <1>2

\* The next package has all before it, when the last one is received or does not fit.
LEMMA BeforeNext ==
    ASSUME NEW p \in Nat, NEW r \in Nat, p < r, Before(p)', Received(p)' \/ ~Fits(p)',
           \A q \in p + 1 .. r - 1 : q \in refused'
    PROVE  Before(r)'
  <1> SUFFICES ASSUME NEW q \in 1 .. r - 1, Fits(q)' PROVE Received(q)'
    BY DEF Before
  <1>1. CASE q < p
    <2>1. q \in 1 .. p - 1
      BY <1>1
    <2> QED  BY <2>1 DEF Before
  <1>2. CASE q = p
    BY <1>2
  <1>3. CASE q > p
    <2>1. q \in p + 1 .. r - 1
      BY <1>3
    <2> QED  BY <2>1 DEF Fits
  <1> QED  BY <1>1, <1>2, <1>3

\* The line is good when it begins behind the end of a package p that is received
\* or does not fit.
LEMMA NextPackage ==
    ASSUME PkgTyped, PkgTyped', LineGood, NEW a \in Seq(Units), InFront(a, Line', Line),
           Len(a) > 0, NEW p \in Nat, p = Line[Len(a)].of, Line[Len(a)].at = Line[Len(a)].size,
           Begun' = 0, UNCHANGED <<fin, started, refused>>,
           Before(p)', Received(p)' \/ ~Fits(p)', \A i \in Whole' : results'[i].body[1].of <= p,
           \A i \in Whole' : results'[i].body[1].of \in Nat, InOrder'
    PROVE  LineGood'
  <1>0. /\ Line' \in Seq(Units) /\ Len(Line') \in Nat /\ Len(a) \in Nat /\ Len(Line) \in Nat
        /\ Len(Line') + Len(a) = Len(Line) /\ (Line' # <<>> <=> Len(Line') > 0) /\ Len(started) \in Nat
    <2>1. receiver'.have \in Seq(Units) /\ stream' \in Seq(Units) /\ sender'.rest \in Seq(Units)
      BY DEF PkgTyped
    <2>2. Line' \in Seq(Units)
      BY <2>1, RowIs DEF Line
    <2> QED  BY <2>2, LineFields, Fields, SMTT(60) DEF InFront
  <1>1. /\ Chain(Line', started, refused)
        /\ ~fin => WholePackages(Line', started, refused)
    BY <1>0, RestOfLine
  <1>2. /\ Line' # <<>> => /\ Line'[1].at = -1 /\ p < Line'[1].of
                           /\ \A q \in p + 1 .. Line'[1].of - 1 : q \in refused
        /\ Line' = <<>> => fin \/ \A q \in p + 1 .. Len(started) : q \in refused
    <2>1. Len(a) <= Len(Line)
      BY <1>0
    <2> QED  BY <1>0, <2>1, BehindPackage
  <1>3. ASSUME Line' # <<>>
        PROVE  Before(Line[1].of)' /\ \A i \in Whole' : results'[i].body[1].of < Line'[1].of
    <2>1. Line'[1].of \in Nat
      BY <1>0, <1>3, UnitIs
    <2>2. PICK r \in Nat : r = Line'[1].of
      BY <2>1
    <2>3. p < r /\ \A q \in p + 1 .. r - 1 : q \in refused'
      BY <1>2, <1>3, <2>2
    <2>4. Before(r)'
      BY <2>3, BeforeNext
    <2>5. Before(Line[1].of)'
      BY <2>2, <2>4 DEF Before
    <2>6. \A i \in Whole' : results'[i].body[1].of < r
      BY <2>3
    <2> QED  BY <2>2, <2>5, <2>6
  <1>4. ASSUME Line' = <<>>, ~fin PROVE Before(Len(started) + 1)'
    <2>1. p \in 1 .. Len(started)
      <3>1. Len(a) \in 1 .. Len(Line)
        BY <1>0
      <3> QED  BY <3>1, LineFields
    <2>2. PICK r \in Nat : r = Len(started) + 1
      BY <1>0
    <2>3. p < r /\ \A q \in p + 1 .. r - 1 : q \in refused'
      BY <1>0, <1>2, <1>4, <2>1, <2>2
    <2>4. Before(r)'
      BY <2>3, BeforeNext
    <2> QED  BY <2>2, <2>4 DEF Before
  <1>5. BeginsAt(Line, Begun)'
    BY <1>2, <1>3, <1>4 DEF BeginsAt
  <1> QED  BY <1>1, <1>5 DEF LineGood

\* What the receiver has is the beginning of the line.
LEMMA HaveIsLine ==
    ASSUME PkgTyped
    PROVE  /\ Len(receiver.have) \in Nat /\ Len(receiver.have) <= Len(Line)
           /\ \A i \in 1 .. Len(receiver.have) : receiver.have[i] = Line[i]
           /\ InFront(receiver.have, Row(<<>>, stream, sender.rest), Line)
           /\ Row(<<>>, stream, sender.rest) \in Seq(Units)
  <1>1. receiver.have \in Seq(Units) /\ stream \in Seq(Units) /\ sender.rest \in Seq(Units)
    BY Fields
  <1>2. InitialPart(receiver.have, Line)
    BY <1>1, RowWithoutTwo DEF Line
  <1>3. /\ InFront(receiver.have, Row(<<>>, stream, sender.rest), Line)
        /\ Row(<<>>, stream, sender.rest) \in Seq(Units)
    BY <1>1, RowWithoutFirst DEF Line
  <1> QED  BY <1>1, <1>2, <1>3 DEF InitialPart

\* While nobody gave up, two units that are received are a length, and one is its half.
LEMMA LengthAhead ==
    ASSUME PkgTyped, LineGood, receiver.pc = "length", Len(receiver.have) \in {1, 2}
    PROVE  /\ receiver.have[1] = Line[1] /\ Line[1].at = -1
           /\ Len(receiver.have) = 2 =>
                 IsLength(receiver.have) /\ Line[2].at = 0 /\ Line[2].of = Line[1].of /\ Line[2].size = Line[1].size
  <1>1. /\ 1 \in 1 .. Len(Line) /\ receiver.have[1] = Line[1] /\ Line # <<>>
        /\ Len(receiver.have) = 2 => 2 \in 1 .. Len(Line) /\ receiver.have[2] = Line[2]
    <2>1. /\ Len(receiver.have) <= Len(Line)
          /\ \A i \in 1 .. Len(receiver.have) : receiver.have[i] = Line[i]
      BY HaveIsLine
    <2>2. Line \in Seq(Units) /\ Len(Line) \in Nat
      BY LineFields
    <2>3. 1 \in 1 .. Len(receiver.have) /\ (Len(receiver.have) = 2 => 2 \in 1 .. Len(receiver.have))
      OBVIOUS
    <2>4. receiver.have[1] = Line[1] /\ (Len(receiver.have) = 2 => receiver.have[2] = Line[2])
      BY <2>1, <2>3
    <2>a. \A h, l \in Nat : h \in {1, 2} /\ h <= l => 1 \in 1 .. l /\ (h = 2 => 2 \in 1 .. l)
      OBVIOUS
    <2>5. 1 \in 1 .. Len(Line) /\ (Len(receiver.have) = 2 => 2 \in 1 .. Len(Line))
      BY <2>1, <2>2, <2>a, 1 \in Nat, 2 \in Nat, HaveIsLine, Zenon
    <2>6. Line # <<>>
      BY <2>5
    <2> QED  BY <2>4, <2>5, <2>6
  <1>2. Line[1].at = -1
    BY <1>1 DEF LineGood, BeginsAt, Begun, InBody
  <1>3. ASSUME Len(receiver.have) = 2
        PROVE  Line[2].at = 0 /\ Line[2].of = Line[1].of /\ Line[2].size = Line[1].size
    <2>1. Line[1].at + (2 - 1) \in -1 .. Line[1].size /\ Line[1].at + (2 - 1) = 0
      BY <1>1, <1>2, LineFields
    <2>2. Together(Line)
      BY DEF LineGood, Chain
    <2>3. Line[2].of = Line[1].of /\ Line[2].at = Line[1].at + (2 - 1)
      BY <1>1, <1>3, <2>1, <2>2 DEF Together
    <2>4. Line[2].size = started[Line[2].of] /\ Line[1].size = started[Line[1].of]
      BY <1>1, <1>3, LineFields
    <2> QED  BY <2>1, <2>3, <2>4
  <1> QED  BY <1>1, <1>2, <1>3 DEF IsLength

\* The length is read.
LEMMA LengthGone ==
    ASSUME PkgTyped, PkgTyped', SenderTrue, ReceiverTrue, FullTrue, LineGood, LengthRead
    PROVE  LineGood' /\ UNCHANGED astray
  <1>1. /\ receiver.pc = "length" /\ UNCHANGED <<stream, fin, reset, sender, started, gaveUp, refused>>
        /\ Begun = 0
    BY DEF LengthRead, Begun, InBody
  <1>2. Len(receiver.have) \in Nat /\ receiver.need \in Nat /\ Len(receiver.have) + receiver.need = 2
    BY <1>1, Fields DEF ReceiverTrue
  <1>3. CASE Len(receiver.have) = 0
    <2>1. receiver.have = <<>>
      BY <1>3, Fields
    <2>2. Give("zero", <<>>) /\ UNCHANGED astray
      BY <2>1 DEF LengthRead
    <2>3. "zero" \in {"zero", "error"}
      OBVIOUS
    <2> QED  BY <1>1, <2>1, <2>2, <2>3, NothingGiven
  <1>4. CASE Len(receiver.have) = 1
    <2>1. receiver.have # <<>> /\ receiver.have[1].at = -1 /\ ~IsLength(receiver.have)
      BY <1>1, <1>4, LengthAhead DEF IsLength
    <2>2. /\ receiver' = [receiver EXCEPT !.pc = "body", !.need = 0, !.size = 0, !.have = <<>>]
          /\ UNCHANGED <<results, astray>>
      BY <1>4, <2>1 DEF LengthRead
    <2>3. receiver'.have = <<>>
      BY <2>2, BodyBegun
    <2>4. Ended
      BY <1>2, <1>4 DEF LengthRead, LoopEnds
    <2>5. sender'.rest = <<>> /\ fin' /\ stream' = <<>>
      BY <1>1, <2>4, Fields DEF Ended, SenderTrue
    <2>6. Whole' = Whole /\ \A i \in Whole : results'[i] = results[i]
      BY <2>2 DEF Whole
    <2> QED  BY <1>1, <2>2, <2>3, <2>5, <2>6, LineEmpty
  <1>5. CASE Len(receiver.have) = 2
    <2> DEFINE n == Line[1].size
    <2>1. /\ receiver.have[1] = Line[1] /\ Line[1].at = -1 /\ IsLength(receiver.have)
          /\ Line[2].at = 0 /\ Line[2].of = Line[1].of /\ Line[2].size = n
      BY <1>1, <1>5, LengthAhead
    <2>2. /\ 1 \in 1 .. Len(Line) /\ 2 \in 1 .. Len(Line) /\ Line # <<>> /\ Len(Line) \in Nat
          /\ n \in Nat /\ Line[1].of \in 1 .. Len(started) /\ n = started[Line[1].of]
          /\ Len(started) \in Nat
      BY <1>5, HaveIsLine, LineFields, Fields, SMTT(60)
    <2>3. /\ receiver' = [receiver EXCEPT !.pc = "body", !.need = n, !.size = n, !.have = <<>>]
          /\ UNCHANGED <<results, astray>>
      BY <1>5, <2>1 DEF LengthRead
    <2>4. receiver'.have = <<>> /\ receiver'.pc = "body" /\ receiver'.size = n
      BY <2>2, <2>3, BodyBegun
    <2>5. Begun' = n
      BY <2>2, <2>4 DEF Begun, InBody
    <2>6. Whole' = Whole /\ results' = results
      BY <2>3 DEF Whole
    <2>7. /\ \A p \in 1 .. Len(started) + 1 : Before(p) => Before(p)'
          /\ InOrder'
      BY <1>1, <2>2, <2>6, HistoryKept DEF LineGood
    <2>8. Line' = Row(<<>>, stream, sender.rest) /\ Line' \in Seq(Units) /\ InFront(receiver.have, Line', Line)
      BY <1>1, <2>4, HaveIsLine DEF Line
    <2>9. PICK p \in 1 .. Len(started) : p = Line[1].of /\ p = Line[2].of
      BY <2>1, <2>2
    <2>10. Before(p) /\ \A i \in Whole : results[i].body[1].of < p
      BY <2>2, <2>9 DEF LineGood, BeginsAt
    <2>11. Before(p)'
      BY <2>2, <2>7, <2>10
    <2>12. receiver.have \in Seq(Units) /\ p \in Nat
      BY Fields
    <2> HIDE DEF n
    <2>13. CASE n = 0
      <3>1. ~Fits(p)'
        BY <1>1, <2>2, <2>9, <2>13 DEF Fits
      <3>2. \A i \in Whole' : results'[i].body[1].of <= p /\ results'[i].body[1].of \in Nat
        <4> TAKE i \in Whole'
        <4>1. results[i].body[1].of \in 1 .. Len(started) /\ results[i].body[1].of < p
          BY <2>6, <2>10, WholeIs DEF LineGood
        <4> QED  BY <2>6, <2>12, <4>1
      <3>3. Begun' = 0 /\ Len(receiver.have) > 0
        BY <1>5, <2>5, <2>13
      <3>4. p = Line[Len(receiver.have)].of /\ Line[Len(receiver.have)].at = Line[Len(receiver.have)].size
        BY <1>5, <2>1, <2>9, <2>13
      <3>5. LineGood'
        BY <1>1, <2>7, <2>8, <2>11, <2>12, <3>1, <3>2, <3>3, <3>4, NextPackage
      <3> QED  BY <2>3, <3>5
    <2>14. CASE n > 0
      <3>1. /\ Chain(Line', started, refused)
            /\ ~fin => WholePackages(Line', started, refused)
        BY <2>8, <2>12, RestOfLine
      <3>2. /\ Len(Line') + 2 = Len(Line) /\ \A i \in 1 .. Len(Line') : Line'[i] = Line[2 + i]
            /\ Len(Line') \in Nat
        BY <1>5, <2>8 DEF InFront
      <3>3. ASSUME Line' # <<>>
            PROVE  Line'[1].at = 1 /\ Line'[1].size = n /\ Line'[1].of = p
        <4>1. 1 \in 1 .. Len(Line') /\ 3 \in 1 .. Len(Line)
          BY <2>8, <3>2, <3>3
        <4>2. Line'[1] = Line[3]
          BY <3>2, <4>1
        <4>3. Together(Line)
          BY DEF LineGood, Chain
        <4>4. Line[1].at + (3 - 1) \in -1 .. Line[1].size /\ Line[1].at + (3 - 1) = 1
          BY <2>1, <2>2, <2>14 DEF n
        <4>5. Line[3].of = Line[1].of /\ Line[3].at = Line[1].at + (3 - 1)
          BY <2>2, <4>1, <4>3, <4>4 DEF Together
        <4>6. Line[3].size = started[Line[3].of]
          BY <4>1, LineFields
        <4> QED  BY <2>2, <2>9, <4>2, <4>4, <4>5, <4>6
      <3>4. ASSUME Line' = <<>> PROVE fin
        <4>1. Len(Line) = 2
          BY <3>2, <3>4
        <4>2. ~(Line[Len(Line)].at = Line[Len(Line)].size)
          BY <2>1, <2>14, <4>1
        <4> QED  BY <2>2, <4>2 DEF LineGood, WholePackages
      <3>5. ASSUME Line' # <<>> PROVE Before(Line[1].of)'
        BY <2>11, <3>3, <3>5 DEF Before
      <3>6. ASSUME Line' # <<>> PROVE \A i \in Whole' : results'[i].body[1].of < Line'[1].of
        BY <2>6, <2>10, <3>3, <3>6
      <3>7. BeginsAt(Line, Begun)'
        BY <1>1, <2>5, <2>14, <3>3, <3>4, <3>5, <3>6 DEF BeginsAt
      <3>8. LineGood'
        BY <1>1, <2>7, <3>1, <3>7 DEF LineGood
      <3> QED  BY <2>3, <3>8
    <2> QED  BY <2>2, <2>13, <2>14
  <1>6. Len(receiver.have) = 0 \/ Len(receiver.have) = 1 \/ Len(receiver.have) = 2
    <2>1. \A h, l \in Nat : h + l = 2 => h = 0 \/ h = 1 \/ h = 2
      OBVIOUS
    <2> QED  BY <1>2, <2>1, Zenon
  <1> QED  BY <1>3, <1>4, <1>5, <1>6, Zenon

\* While nobody gave up, what is received to its end behind the length is the body
\* of the package that the line begins with.
LEMMA BodyAhead ==
    ASSUME PkgTyped, LineGood, receiver.pc = "body", receiver.size > 0,
           Len(receiver.have) = receiver.size
    PROVE  /\ Line[1].of \in 1 .. Len(started) /\ receiver.have = Body(Line[1].of)
           /\ receiver.size = started[Line[1].of] /\ receiver.have[1].of = Line[1].of
           /\ Line[Len(receiver.have)].at = Line[Len(receiver.have)].size
           /\ Line[Len(receiver.have)].of = Line[1].of
           /\ Before(Line[1].of) /\ \A i \in Whole : results[i].body[1].of < Line[1].of
  <1> DEFINE n == receiver.size
             h == receiver.have
  <1>1. /\ n \in Nat /\ n > 0 /\ Begun = n /\ h \in Seq(Units) /\ Len(h) = n /\ Line \in Seq(Units)
        /\ Len(Line) \in Nat /\ n <= Len(Line) /\ \A i \in 1 .. n : h[i] = Line[i]
    BY Fields, HaveIsLine DEF Begun, InBody
  <1> HIDE DEF n, h
  <1>2. Line # <<>> /\ 1 \in 1 .. Len(Line) /\ 1 \in 1 .. n /\ n \in 1 .. n
    BY <1>1
  <1>3. /\ Line[1].at = 1 /\ Line[1].size = n
        /\ Before(Line[1].of) /\ \A i \in Whole : results[i].body[1].of < Line[1].of
    BY <1>1, <1>2 DEF LineGood, BeginsAt
  <1>4. PICK p \in 1 .. Len(started) : p = Line[1].of /\ n = started[p]
    BY <1>2, <1>3, LineFields
  <1>5. ASSUME NEW i \in 1 .. n PROVE Line[i] = [of |-> p, size |-> n, at |-> i]
    <2>1. i \in 1 .. Len(Line) /\ i \in Nat
      BY <1>1
    <2>2. Line[1].at + (i - 1) = i /\ Line[1].at + (i - 1) \in -1 .. Line[1].size
      BY <1>1, <1>3, <2>1
    <2>3. Together(Line)
      BY DEF LineGood, Chain
    <2>4. Line[i].of = p /\ Line[i].at = i
      BY <1>2, <1>4, <2>1, <2>2, <2>3 DEF Together
    <2>5. Line[i].size = n
      BY <1>4, <2>1, <2>4, LineFields
    <2>6. Line[i] \in Units
      BY <1>1, <2>1, UnitIs
    <2> QED  BY <2>4, <2>5, <2>6 DEF Units
  <1>6. /\ Body(p) \in Seq(Units) /\ Len(Body(p)) = n
        /\ \A i \in 1 .. n : Body(p)[i] = [of |-> p, size |-> n, at |-> i]
    BY <1>4, BodyIs
  <1>7. h = Body(p)
    <2>1. \A i \in 1 .. n : h[i] = Body(p)[i]
      BY <1>1, <1>5, <1>6
    <2> QED  BY <1>1, <1>6, <2>1
  <1>8. h[1].of = p
    BY <1>1, <1>2, <1>4
  <1>9. Line[n].at = n /\ Line[n].size = n /\ Line[n].of = p
    <2>1. Line[n] = [of |-> p, size |-> n, at |-> n]
      BY <1>2, <1>5
    <2> QED  BY <2>1
  <1> QED  BY <1>1, <1>3, <1>4, <1>7, <1>8, <1>9 DEF n, h

\* The body is read.
LEMMA BodyGone ==
    ASSUME PkgTyped, PkgTyped', SenderTrue, ReceiverTrue, FullTrue, LineGood, BodyRead
    PROVE  LineGood'
  <1>1. /\ receiver.pc = "body" /\ UNCHANGED <<stream, fin, reset, sender, started, gaveUp, refused>>
        /\ "error" \in {"ok", "zero", "error"} /\ "zero" \in {"ok", "zero", "error"} /\ "ok" \in {"ok", "zero", "error"}
        /\ "zero" \in {"zero", "error"} /\ "error" \in {"zero", "error"}
    BY DEF BodyRead
  <1>2. /\ receiver.have \in Seq(Units) /\ Len(receiver.have) \in Nat /\ receiver.need \in Nat /\ receiver.size \in Nat
        /\ Len(receiver.have) + receiver.need = receiver.size /\ <<>> \in Seq(Units)
        /\ Len(started) \in Nat
    BY <1>1, Fields DEF ReceiverTrue
  <1>3. receiver'.have = <<>> /\ receiver'.pc = "idle"
    BY NotReadingIs DEF BodyRead, Give
  <1>4. CASE receiver.size = 0
    <2>1. receiver.have = <<>> /\ Begun = 0
      BY <1>2, <1>4 DEF Begun, InBody
    <2>2. Give("error", <<>>) \/ Give("zero", <<>>)
      BY <2>1 DEF BodyRead
    <2> QED  BY <1>1, <2>1, <2>2, NothingGiven
  <1>5. CASE Len(receiver.have) < receiver.size
    <2>1. Ended
      BY <1>2, <1>5 DEF BodyRead, LoopEnds
    <2>2. sender'.rest = <<>> /\ fin' /\ stream' = <<>>
      BY <1>1, <2>1, Fields DEF Ended, SenderTrue
    <2>3. \E r \in {"ok", "zero", "error"}, b \in Seq(Units) :
             Give(r, b) /\ ~(r = "ok" /\ Len(b) = receiver.size)
      <3>1. CASE Give("ok", receiver.have)
        BY <1>2, <1>5, <3>1
      <3>2. CASE Give("error", <<>>) \/ Give("zero", <<>>)
        BY <1>2, <3>2
      <3> QED  BY <3>1, <3>2 DEF BodyRead
    <2>4. Whole' = Whole /\ \A i \in Whole : results'[i] = results[i]
      BY <2>3, WholeSame
    <2> QED  BY <1>1, <1>3, <2>2, <2>4, LineEmpty
  <1>6. CASE receiver.size > 0 /\ Len(receiver.have) = receiver.size
    <2>1. PICK p \in 1 .. Len(started) :
            /\ p = Line[1].of /\ receiver.have = Body(p) /\ receiver.size = started[p]
            /\ receiver.have[1].of = p /\ Before(p) /\ \A i \in Whole : results[i].body[1].of < p
            /\ Line[Len(receiver.have)].at = Line[Len(receiver.have)].size /\ p = Line[Len(receiver.have)].of
      BY <1>1, <1>6, BodyAhead
    <2>2. Line' = Row(<<>>, stream, sender.rest) /\ InFront(receiver.have, Line', Line)
      BY <1>1, <1>3, HaveIsLine DEF Line
    <2>3. Begun' = 0 /\ Len(receiver.have) > 0 /\ p \in Nat
      BY <1>2, <1>3, <1>6 DEF Begun, InBody
    <2>4. \A i \in Whole : results[i].body[1].of \in 1 .. Len(started)
      BY WholeIs, SMTT(45) DEF LineGood
    <2>5. CASE BufLen < receiver.size
      <3>1. Give("error", <<>>)
        BY <2>5 DEF BodyRead
      <3>2. Whole' = Whole /\ \A i \in Whole : results'[i] = results[i]
        BY <1>1, <1>2, <3>1, WholeSame
      <3>3. /\ \A q \in 1 .. Len(started) + 1 : Before(q) => Before(q)'
            /\ InOrder'
        BY <1>1, <1>2, <3>2, HistoryKept DEF LineGood
      <3>4. Before(p)'
        BY <1>2, <2>1, <3>3, SMTT(45)
      <3>5. ~Fits(p)'
        <4>1. started' = started /\ refused' = refused
          BY <1>1
        <4>2. started[p] > BufLen /\ started[p] \in Nat /\ BufLen \in Nat
          BY <1>2, <2>1, <2>5, PkgAssumption
        <4> QED  BY <4>1, <4>2 DEF Fits
      <3>6. \A i \in Whole' : results'[i].body[1].of <= p /\ results'[i].body[1].of \in Nat
        <4> TAKE i \in Whole'
        <4>1. results'[i].body[1].of \in 1 .. Len(started) /\ results'[i].body[1].of < p
          BY <2>1, <2>4, <3>2, SMTT(45)
        <4> QED  BY <2>3, <4>1
      <3> QED  BY <1>1, <1>2, <2>1, <2>2, <2>3, <3>3, <3>4, <3>5, <3>6, NextPackage
    <2>6. CASE ~(BufLen < receiver.size)
      <3>0. Give("ok", receiver.have)
        <4>1. receiver.have # <<>>
          BY <2>3
        <4> QED  BY <2>6, <4>1 DEF BodyRead
      <3> DEFINE new == Len(results) + 1
      <3>1. /\ Whole' = Whole \cup {new} /\ \A i \in Whole : results'[i] = results[i]
            /\ \A i \in Whole : i \in 1 .. Len(results)
            /\ results'[new].body = receiver.have /\ Len(results) \in Nat
        BY <1>2, <1>6, <3>0, WholeMore, Fields
      <3> HIDE DEF new
      <3>2. /\ \A q \in 1 .. Len(started) : Body(q)' = Body(q)
            /\ \A q \in 1 .. Len(started) + 1 : Before(q) => Before(q)'
        BY <1>1, <1>2, <3>1, HistoryKept
      <3>3. Before(p)' /\ results'[new].body = Body(p)' /\ new \in Whole' /\ results'[new].body[1].of = p
        <4>1. p \in 1 .. Len(started) + 1
          BY <1>2
        <4>2. Before(p)'
          BY <2>1, <3>2, <4>1
        <4>3. Body(p)' = receiver.have
          BY <2>1, <3>2
        <4> QED  BY <2>1, <3>1, <4>2, <4>3
      <3>4. Received(p)'
        <4>1. new \in Whole' /\ results'[new].body = Body(p)'
          BY <3>3, Zenon
        <4> QED
          BY <4>1, Zenon DEF Received
      <3>5. ASSUME NEW i \in Whole
            PROVE  \E q \in 1 .. Len(started) :
                      /\ q = results'[i].body[1].of /\ q < p /\ results'[i].body = Body(q)' /\ Before(q)'
        <4>1. PICK q \in 1 .. Len(started) : q = results[i].body[1].of /\ results[i].body = Body(q) /\ Before(q)
          BY WholeIs DEF LineGood, InOrder
        <4>2. q \in 1 .. Len(started) + 1
          BY <1>2
        <4>3. Before(q)'
          BY <3>2, <4>1, <4>2
        <4>4. Body(q)' = Body(q)
          BY <3>2
        <4> QED  BY <2>1, <3>1, <4>1, <4>3, <4>4
      <3>6. \A i \in Whole' : results'[i].body[1].of <= p /\ results'[i].body[1].of \in Nat
        <4> TAKE i \in Whole'
        <4>1. CASE i = new
          BY <2>3, <3>3, <4>1
        <4>2. CASE i \in Whole
          BY <1>2, <2>3, <3>5, <4>2
        <4> QED  BY <3>1, <4>1, <4>2
      <3>7. InOrder'
        <4>1. \A i \in Whole' : \E q \in 1 .. Len(started)' : results'[i].body = Body(q)'
          BY <1>1, <3>1, <3>3, <3>5
        <4>2. \A i, j \in Whole' : i < j => results'[i].body[1].of < results'[j].body[1].of
          <5> TAKE i, j \in Whole'
          <5> HAVE i < j
          <5>1. i \in Whole
            BY <3>1 DEF new
          <5>2. CASE j \in Whole
            BY <3>1, <5>1, <5>2 DEF LineGood, InOrder
          <5>3. CASE j = new
            BY <3>3, <3>5, <5>1, <5>3
          <5> QED  BY <3>1, <5>2, <5>3
        <4>3. \A i \in Whole' : Before(results[i].body[1].of)'
          <5> TAKE i \in Whole'
          <5>1. PICK q \in 1 .. Len(started) : q = results'[i].body[1].of /\ Before(q)'
            BY <3>1, <3>3, <3>5
          <5> QED  BY <5>1 DEF Before
        <4> QED  BY <4>1, <4>2, <4>3 DEF InOrder
      <3> QED  BY <1>1, <1>2, <2>1, <2>2, <2>3, <3>3, <3>4, <3>6, <3>7, NextPackage
    <2> QED  BY <2>5, <2>6
  <1>7. receiver.size = 0 \/ Len(receiver.have) < receiver.size \/ (receiver.size > 0 /\ Len(receiver.have) = receiver.size)
    BY <1>2
  <1> QED  BY <1>4, <1>5, <1>6, <1>7

----------------------------------------------------------------------------
(* All of it *)

\* While nobody gives up, every step keeps the line good, and no length goes astray.
LEMMA LineStep ==
    PkgIInv /\ [PkgNext]_pkgVars /\ PkgTyped' => LineTrue' /\ PackagesInOrder' /\ FramingKept'
<1> SUFFICES ASSUME PkgIInv, [PkgNext]_pkgVars, PkgTyped', ~gaveUp' PROVE LineGood' /\ ~astray'
  BY DEF LineTrue, LineGood, BeginTrue, Begun, PackagesInOrder, InOrder, Before, Fits, Received, FramingKept
<1>0. PkgTyped /\ SenderTrue /\ ReceiverTrue /\ FullTrue
  BY DEF PkgIInv
<1>1. ~gaveUp
  BY DEF PkgNext, pkgVars, PkgSend, SendSome, SendDone, SendGivesUp, SenderEnds, PkgRecv, TakeSome,
         LengthRead, BodyRead, RecvGivesUp, RecvFails
<1>2. LineGood /\ ~astray
  BY <1>1, GoodIs DEF PkgIInv, FramingKept
<1>3. CASE PkgSend
  BY <1>0, <1>2, <1>3, PackageJoins DEF PkgSend
<1>4. CASE SendSome \/ SendDone
  <2>1. LineGood'
    BY <1>0, <1>2, <1>4, SenderGoesOn
  <2>2. astray' = astray
    BY <1>4 DEF SendSome, SendDone
  <2> QED  BY <1>2, <2>1, <2>2
<1>5. CASE SendGivesUp \/ SenderEnds
  <2>1. LineGood'
    BY <1>0, <1>2, <1>5, SenderLeaves
  <2>2. astray' = astray
    BY <1>5 DEF SendGivesUp, SenderEnds
  <2> QED  BY <1>2, <2>1, <2>2
<1>6. CASE PkgRecv \/ TakeSome
  <2>1. LineGood'
    BY <1>0, <1>2, <1>6, ReceiverGoesOn
  <2>2. astray' = astray
    BY <1>6 DEF PkgRecv, TakeSome
  <2> QED  BY <1>2, <2>1, <2>2
<1>7. CASE LengthRead
  BY <1>0, <1>2, <1>7, LengthGone
<1>8. CASE BodyRead
  BY <1>0, <1>2, <1>8, BodyGone DEF BodyRead
<1>9. CASE RecvGivesUp
  <2>1. receiver.have = <<>> /\ receiver.pc = "length" /\ Give("error", <<>>) /\ "error" \in {"zero", "error"}
    BY <1>9 DEF RecvGivesUp, Reading
  <2>2. Begun = 0
    BY <2>1 DEF Begun, InBody
  <2> QED  BY <1>0, <1>2, <1>9, <2>1, <2>2, NothingGiven DEF RecvGivesUp
<1>10. CASE RecvFails
  <2>1. fin /\ stream = <<>> /\ Give("error", <<>>) /\ UNCHANGED <<stream, fin, sender, started, refused, astray>>
    BY <1>0, <1>10 DEF RecvFails, ReceiverTrue
  <2>2. sender.rest = <<>>
    BY <1>0, <2>1, Fields DEF SenderTrue
  <2>3. receiver'.have = <<>>
    BY <2>1, NotReadingIs DEF Give
  <2>4. "error" \in {"ok", "zero", "error"} /\ <<>> \in Seq(Units) /\ "error" # "ok"
    OBVIOUS
  <2>5. Whole' = Whole /\ \A i \in Whole : results'[i] = results[i]
    BY <1>0, <2>1, <2>4, WholeSame
  <2> QED  BY <1>0, <1>2, <2>1, <2>2, <2>3, <2>5, LineEmpty
<1>11. CASE UNCHANGED pkgVars
  BY <1>0, <1>2, <1>11, SameLine DEF pkgVars, Line, Begun, InBody, Whole
<1> QED  BY <1>3, <1>4, <1>5, <1>6, <1>7, <1>8, <1>9, <1>10, <1>11 DEF PkgNext

\* At first the line is empty.
LEMMA PkgBegins == PkgInit => PkgIInv
<1> SUFFICES ASSUME PkgInit PROVE PkgIInv
  OBVIOUS
<1>1. /\ stream = <<>> /\ started = <<>> /\ results = <<>> /\ sender = Resting /\ receiver = NotReading
      /\ ~fin /\ ~reset /\ ~gaveUp /\ ~astray /\ refused = {}
      /\ fin \in BOOLEAN /\ reset \in BOOLEAN /\ gaveUp \in BOOLEAN /\ astray \in BOOLEAN
      /\ Len(started) = 0 /\ Len(results) = 0 /\ Len(stream) = 0
  BY DEF PkgInit
<1>2. PkgTyped
  <2>1. <<>> \in Seq(Units) /\ <<>> \in Seq(BodySizes) /\ 0 <= Window
        /\ <<>> \in Seq([ret : {"ok", "zero", "error"}, body : Seq(Units), size : Nat])
    BY PkgAssumption
  <2> QED  BY <1>1, <2>1, RestingIs, NotReadingIs DEF PkgTyped
<1>3. sender.pc = "idle" /\ sender.rest = <<>> /\ receiver.pc = "idle" /\ receiver.have = <<>>
  BY <1>1, RestingIs, NotReadingIs
<1>4. SenderTrue /\ ReceiverTrue
  BY <1>1, <1>3 DEF SenderTrue, ReceiverTrue
<1>5. ShortTrue /\ FullTrue /\ FramingKept /\ Whole = {}
  BY <1>1 DEF ShortTrue, FullTrue, FramingKept, Whole
<1>6. Line = <<>> /\ Begun = 0
  BY <1>1, <1>3 DEF Line, Row, Begun, InBody
<1>7. InOrder /\ Before(Len(started) + 1)
  BY <1>1, <1>5 DEF InOrder, Before
<1>8. LineGood
  BY <1>6, <1>7, EmptyChain DEF LineGood, BeginsAt
<1> QED  BY <1>2, <1>4, <1>5, <1>8, GoodIs DEF PkgIInv

\* Whatever parts the kernel's calls move, whoever waits or does not, and wherever
\* the sender ends: while no call gave up inside a package, PkgRecv gives the
\* packages that PkgSend was given, whole, in their order and once; a length is
\* never taken from the midst of a body; a short package is the last one.
THEOREM PackagesHold == PkgSpec => []PackagesSound
<1>1. PkgInit => PkgIInv
  BY PkgBegins
<1>2. PkgIInv /\ [PkgNext]_pkgVars => PkgIInv'
  BY PkgTypeStep, SenderStep, ReceiverStep, ShortStep, FullStep, LineStep DEF PkgIInv
<1>3. PkgIInv => PackagesSound
  <2> SUFFICES ASSUME PkgIInv PROVE PackagesSound
    OBVIOUS
  <2>1. PkgTypeOK
    <3>1. PkgTyped
      BY DEF PkgIInv
    <3>2. receiver.need >= 0
      BY <3>1, Fields
    <3>3. \A i \in 1 .. Len(results) : results[i].ret \in {"ok", "zero", "error"}
      BY <3>1, ResultIs
    <3> QED  BY <3>1, <3>2, <3>3, Fields DEF PkgTyped, PkgTypeOK
  <2>2. ShortAtTheEnd
    BY DEF PkgIInv, ShortTrue, Short, ShortAtTheEnd
  <2> QED  BY <2>1, <2>2 DEF PkgIInv, PackagesSound
<1> QED  BY <1>1, <1>2, <1>3, PTL DEF PkgSpec

----------------------------------------------------------------------------
(***************************************************************************)
(* The heartbeat server.  By machine, the texts shown, the units read, the *)
(* units received and the units not yet sent are one line, which only an   *)
(* end cuts; and whatever the server still has to look at is the edge or   *)
(* the event of its descriptor.                                            *)
(***************************************************************************)

\* The unit that a machine sends as its j-th.
Unit(j) == <<(j - 1) \div 3 + 1, ((j - 1) % 3) + 1>>

HbShape ==
    /\ client \in [Machines -> {"down", "run", "ended"}]
    /\ units \in [Machines -> Nat] /\ \A c \in Machines : units[c] <= 3 * MaxSends[c]
    /\ conn \in [Machines -> {"none", "queued", "open", "closed"}]
    /\ inbox \in [Machines -> Seq(Nat \X Nat)]
    /\ over \in [Machines -> {"no", "fin", "reset", "told"}]
    /\ ready \subseteq Machines \cup {"listen"}
    /\ events \subseteq [fd : Machines \cup {"listen"}, err : BOOLEAN]
    /\ reading \in Machines \cup {"none"}
    /\ have \in Seq(Nat \X Nat) /\ Len(have) <= 3
    /\ cache \in (Machines \cup {"nobody"}) \X Nat
    /\ shown \in [Machines -> Seq((Machines \cup {"nobody"}) \X Nat)]
    /\ ahead \in [Machines -> BOOLEAN] /\ crowd \in BOOLEAN

\* The units read of an unfinished package, those of the texts shown before it, and
\* whether an edge or an event will lead the server to a descriptor.
Held(c) == IF reading = c THEN Len(have) ELSE 0
ShownUnits(c) == 3 * Len(shown[c])
HasEvent(c) == \E e \in events : e.fd = c
Noticed(c) == c \in ready \/ HasEvent(c)

\* Edges and events are of what is open, one event of each, and of the reading too.
Watched ==
    /\ \A fd \in ready : fd = "listen" \/ conn[fd] = "open"
    /\ \A e \in events : IF e.fd = "listen" THEN ~e.err ELSE conn[e.fd] = "open"
    /\ \A e, f \in events : e.fd = f.fd => e = f
    /\ reading # "none" => [fd |-> reading, err |-> FALSE] \in events
    /\ \A e \in events : e.err => over[e.fd] \in {"reset", "told"}

\* How far the client, its connection and its end have come.
Lives(c) ==
    /\ client[c] = "ended" <=> over[c] # "no"
    /\ client[c] = "down" <=> conn[c] = "none"
    /\ conn[c] = "closed" => over[c] # "no" /\ inbox[c] = <<>>
    /\ conn[c] \in {"none", "queued"} => shown[c] = <<>> /\ over[c] # "told"
    /\ over[c] = "reset" => inbox[c] = <<>>
    /\ over[c] = "told" => inbox[c] = <<>> /\ \A e \in events : e.fd = c => e.err

\* What was shown, what was read and what is received are the units that machine c
\* has sent, in a row.
Exact(c) ==
    /\ over[c] # "told"
    /\ \A n \in 1 .. Len(shown[c]) : shown[c][n] = <<c, n>>
    /\ reading = c => \A i \in 1 .. Len(have) : have[i] = Unit(ShownUnits(c) + i)
    /\ \A i \in 1 .. Len(inbox[c]) : inbox[c][i] = Unit(ShownUnits(c) + Held(c) + i)
    /\ ShownUnits(c) + Held(c) + Len(inbox[c]) <= units[c]
    /\ over[c] \in {"no", "fin"} /\ conn[c] # "closed" => ShownUnits(c) + Held(c) + Len(inbox[c]) = units[c]
\* After a text that was not the machine's, nothing comes any more.
Spent(c) ==
    /\ over[c] \in {"fin", "told"} /\ inbox[c] = <<>> /\ Held(c) = 0
    /\ shown[c] # <<>> /\ ShownUnits(c) <= units[c] + 3
    /\ \A n \in 1 .. Len(shown[c]) - 1 : shown[c][n] = <<c, n>>
InLine(c) == Exact(c) \/ Spent(c)

\* What the server has not seen of a connection leads it there, and a machine that
\* did not go on too early is at most one package ahead of it.
Seen(c) ==
    /\ conn[c] = "open" /\ over[c] \in {"reset", "told"} =>
          c \in ready \/ [fd |-> c, err |-> TRUE] \in events
    /\ conn[c] = "open" /\ ~ahead[c] /\ (inbox[c] # <<>> \/ over[c] = "fin") => Noticed(c)
    /\ over[c] = "fin" /\ ~ahead[c] => inbox[c] = <<>> /\ Held(c) = 0
    /\ over[c] = "no" /\ ~ahead[c] => units[c] <= ShownUnits(c) + 3

\* Machines that come one by one are not forgotten at the door.
Door == ~crowd => \A c, d \in Queued : c = d /\ Noticed("listen")

HbRule(c) == Lives(c) /\ InLine(c) /\ Seen(c)
HbInd == HbShape /\ Watched /\ Door /\ \A c \in Machines : HbRule(c)

\* A step that leaves machine c, its connection and its edges as they are keeps its rules.
Untouched(c) ==
    /\ client'[c] = client[c] /\ units'[c] = units[c] /\ conn'[c] = conn[c]
    /\ inbox'[c] = inbox[c] /\ over'[c] = over[c] /\ shown'[c] = shown[c] /\ ahead'[c] = ahead[c]
    /\ reading' = c <=> reading = c
    /\ reading = c => have' = have
    /\ c \in ready' <=> c \in ready
    /\ \A e \in events' : e.fd = c => e \in events
    /\ \A e \in events : e.fd = c => e \in events'

LEMMA UntouchedKept ==
    ASSUME NEW c \in Machines, Untouched(c), HbRule(c),
           \A err \in BOOLEAN : [fd |-> c, err |-> err].fd = c
    PROVE  HbRule(c)'
  <1>1. Held(c)' = Held(c) /\ ShownUnits(c)' = ShownUnits(c)
    BY DEF Untouched, Held, ShownUnits
  <1>2. Lives(c)'
    BY DEF Untouched, Lives, HbRule
  <1>3. InLine(c)'
    <2>1. CASE Exact(c)
      <3>1. Exact(c)'
        BY <2>1, <1>1 DEF Untouched, Exact
      <3> QED  BY <3>1 DEF InLine
    <2>2. CASE Spent(c)
      <3>1. Spent(c)'
        BY <2>2, <1>1 DEF Untouched, Spent
      <3> QED  BY <3>1 DEF InLine
    <2> QED  BY <2>1, <2>2 DEF HbRule, InLine
  <1>4. Seen(c)'
    <2>1. Noticed(c)' <=> Noticed(c)
      BY DEF Untouched, Noticed, HasEvent
    <2>2. [fd |-> c, err |-> TRUE] \in events' <=> [fd |-> c, err |-> TRUE] \in events
      BY DEF Untouched
    <2> QED  BY <1>1, <2>1, <2>2 DEF Untouched, Seen, HbRule
  <1> QED  BY <1>2, <1>3, <1>4 DEF HbRule

LEMMA HbParts ==
    ASSUME HbShape, NEW c \in Machines
    PROVE  /\ Held(c) \in Nat /\ Held(c) <= 3 /\ ShownUnits(c) \in Nat /\ \E k \in Nat : k = Len(shown[c]) /\ ShownUnits(c) = 3 * k
           /\ units[c] \in Nat /\ MaxSends[c] \in Nat /\ units[c] <= 3 * MaxSends[c]
           /\ inbox[c] \in Seq(Nat \X Nat) /\ Len(inbox[c]) \in Nat
           /\ Len(have) \in Nat /\ Len(have) <= 3
  <1>1. /\ shown[c] \in Seq((Machines \cup {"nobody"}) \X Nat) /\ units[c] \in Nat
        /\ inbox[c] \in Seq(Nat \X Nat) /\ have \in Seq(Nat \X Nat) /\ Len(have) <= 3
        /\ units[c] <= 3 * MaxSends[c] /\ MaxSends[c] \in Nat
    BY HbAssumption DEF HbShape
  <1>2. Len(shown[c]) \in Nat /\ Len(inbox[c]) \in Nat /\ Len(have) \in Nat /\ Len(have) <= 3
    <2>1. Len(shown[c]) \in Nat
      BY <1>1, LenProperties, Zenon
    <2>2. Len(inbox[c]) \in Nat
      BY <1>1, LenProperties, Zenon
    <2>3. Len(have) \in Nat
      BY <1>1, LenProperties, Zenon
    <2>4. Len(have) <= 3
      BY <1>1
    <2> QED  BY <2>1, <2>2, <2>3, <2>4, Zenon
  <1>3. Held(c) \in Nat /\ Held(c) <= 3
    BY <1>2 DEF Held
  <1>4. ShownUnits(c) = 3 * Len(shown[c]) /\ ShownUnits(c) \in Nat
    BY <1>2 DEF ShownUnits
  <1> QED  BY <1>1, <1>2, <1>3, <1>4

LEMMA UnitPart ==
    ASSUME NEW k \in Nat
    PROVE  Unit(3 * k + 1) = <<k + 1, 1>> /\ Unit(3 * k + 2) = <<k + 1, 2>> /\ Unit(3 * k + 3) = <<k + 1, 3>>
  BY DEF Unit

LEMMA EventParts ==
    ASSUME HbShape, Watched, NEW e \in events
    PROVE  /\ e.fd \in Machines \cup {"listen"} /\ e.err \in BOOLEAN /\ e = [fd |-> e.fd, err |-> e.err]
           /\ e.fd # "listen" => e.fd \in Machines /\ conn[e.fd] = "open"
           /\ e.err => e.fd \in Machines /\ over[e.fd] \in {"reset", "told"}
  <1>1. e.fd \in Machines \cup {"listen"} /\ e.err \in BOOLEAN /\ e = [fd |-> e.fd, err |-> e.err]
    BY DEF HbShape
  <1> QED  BY <1>1 DEF Watched

LEMMA HbStart == HbInit => HbInd
  <1> SUFFICES ASSUME HbInit PROVE HbInd
    OBVIOUS
  <1> USE HbAssumption
  <1>1. HbShape
    <2>1. cache \in (Machines \cup {"nobody"}) \X Nat
      BY DEF HbInit, NoText
    <2>2. \A c \in Machines : units[c] = 0 /\ MaxSends[c] \in Nat
      BY DEF HbInit
    <2>3. \A c \in Machines : units[c] <= 3 * MaxSends[c]
      BY <2>2
    <2>4. ready \subseteq Machines \cup {"listen"} /\ events \subseteq [fd : Machines \cup {"listen"}, err : BOOLEAN]
      BY DEF HbInit
    <2>5. inbox \in [Machines -> Seq(Nat \X Nat)] /\ have \in Seq(Nat \X Nat) /\ Len(have) <= 3
      BY DEF HbInit
    <2>6. shown \in [Machines -> Seq((Machines \cup {"nobody"}) \X Nat)]
      BY DEF HbInit
    <2>7. /\ client \in [Machines -> {"down", "run", "ended"}] /\ units \in [Machines -> Nat]
          /\ conn \in [Machines -> {"none", "queued", "open", "closed"}]
          /\ over \in [Machines -> {"no", "fin", "reset", "told"}]
          /\ reading \in Machines \cup {"none"} /\ ahead \in [Machines -> BOOLEAN] /\ crowd \in BOOLEAN
      BY DEF HbInit
    <2> QED  BY <2>1, <2>3, <2>4, <2>5, <2>6, <2>7 DEF HbShape
  <1>2. Watched /\ Door
    BY DEF HbInit, Watched, Door, Queued
  <1>3. ASSUME NEW c \in Machines PROVE HbRule(c)
    <2>1. Lives(c)
      BY DEF HbInit, Lives
    <2>2. Exact(c)
      BY DEF HbInit, Exact, ShownUnits, Held
    <2>3. Seen(c)
      BY DEF HbInit, Seen, ShownUnits, Held, Noticed
    <2> QED  BY <2>1, <2>2, <2>3 DEF HbRule, InLine
  <1> QED  BY <1>1, <1>2, <1>3 DEF HbInd


LEMMA ConnectKeeps ==
    ASSUME HbInd, NEW d \in Machines, ConnTCPSocket(d)
    PROVE  HbInd'
  <1> USE HbAssumption DEF HbInd
  <1>1. HbShape'
    BY DEF ConnTCPSocket, HbShape
  <1>a. conn[d] = "none" /\ conn' = [conn EXCEPT ![d] = "queued"] /\ conn \in [Machines -> {"none", "queued", "open", "closed"}]
    BY DEF ConnTCPSocket, HbRule, Lives, HbShape
  <1>b. client[d] = "down" /\ client'[d] = "run" /\ client \in [Machines -> {"down", "run", "ended"}]
    BY DEF ConnTCPSocket, HbShape
  <1>2. Watched'
    BY <1>a DEF ConnTCPSocket, Watched, HbShape
  <1>3. Door'
    <2>1. Queued' = Queued \cup {d}
      BY <1>a DEF Queued
    <2>2. Noticed("listen")'
      BY DEF ConnTCPSocket, Noticed
    <2> QED  BY <2>1, <2>2 DEF Door, ConnTCPSocket
  <1>4. ASSUME NEW c \in Machines PROVE HbRule(c)'
    <2>1. CASE c # d
      <3>1. Untouched(c)
        <4>1. c # "listen" /\ c \in ready' <=> c \in ready
          BY DEF ConnTCPSocket
        <4>2. client'[c] = client[c] /\ conn'[c] = conn[c]
          BY <2>1 DEF ConnTCPSocket, HbShape
        <4> QED  BY <4>1, <4>2 DEF ConnTCPSocket, Untouched
      <3> QED  BY <3>1, UntouchedKept
    <2>2. CASE c = d
      <3>1. conn'[d] = "queued" /\ over'[d] = over[d] /\ over[d] = "no" /\ shown' = shown /\ shown[d] = <<>>
        BY <1>a, <1>b DEF HbRule, Lives, ConnTCPSocket, HbShape
      <3>2. Lives(d)'
        BY <3>1, <1>a, <1>b DEF HbRule, Lives, ConnTCPSocket, HbShape
      <3>3. InLine(d)'
        <4>1. Exact(d)
          BY <3>1 DEF HbRule, InLine, Spent
        <4>2. Held(d)' = Held(d) /\ ShownUnits(d)' = ShownUnits(d)
          BY DEF Held, ShownUnits, ConnTCPSocket
        <4>3. Exact(d)'
          BY <3>1, <4>1, <4>2, <1>a DEF Exact, ConnTCPSocket
        <4> QED  BY <4>3 DEF InLine
      <3>4. Seen(d)'
        BY <3>1, <1>a DEF HbRule, Seen, Held, ShownUnits, ConnTCPSocket
      <3> QED  BY <2>2, <3>2, <3>3, <3>4 DEF HbRule
    <2> QED  BY <2>1, <2>2
  <1> QED  BY <1>1, <1>2, <1>3, <1>4

LEMMA OneMore ==
    ASSUME NEW b \in Nat, NEW h \in Nat, NEW n \in Nat, NEW m \in Nat, b + h + n = m
    PROVE  b + h + (n + 1) = m + 1
  OBVIOUS

LEMMA SendKeeps ==
    ASSUME HbInd, NEW d \in Machines, PkgSendUnit(d)
    PROVE  HbInd'
  <1> USE HbAssumption DEF HbInd
  <1> DEFINE u == <<PackagesOf(d) + 1, (units[d] % 3) + 1>>
  <1>a. /\ units[d] \in Nat /\ MaxSends[d] \in Nat /\ units[d] < 3 * MaxSends[d]
        /\ u \in Nat \X Nat /\ u = Unit(units[d] + 1)
    <2>1. units[d] \in Nat /\ MaxSends[d] \in Nat
      BY HbParts, Zenon
    <2>2. units[d] \div 3 < MaxSends[d]
      BY DEF PkgSendUnit, PackagesOf
    <2>3. units[d] \div 3 \in Nat /\ units[d] % 3 \in Nat /\ units[d] < 3 * MaxSends[d]
      BY <2>1, <2>2
    <2>4. u = Unit(units[d] + 1)
      BY <2>1 DEF PackagesOf, Unit
    <2> QED  BY <2>1, <2>3, <2>4 DEF PackagesOf
  <1>b. /\ inbox' = [inbox EXCEPT ![d] = Append(@, u)] /\ inbox \in [Machines -> Seq(Nat \X Nat)]
        /\ units' = [units EXCEPT ![d] = @ + 1] /\ units \in [Machines -> Nat]
    BY DEF PkgSendUnit, HbShape
  <1>c. ready' = IF conn[d] = "open" THEN ready \cup {d} ELSE ready
    BY DEF PkgSendUnit, EdgeOf
  <1> HIDE DEF u
  <1>1. HbShape'
    <2>1. inbox' \in [Machines -> Seq(Nat \X Nat)]
      BY <1>a, <1>b
    <2>2. units' \in [Machines -> Nat] /\ \A c \in Machines : units'[c] <= 3 * MaxSends[c]
      <3>1. units' \in [Machines -> Nat] /\ units'[d] = units[d] + 1
        BY <1>a, <1>b
      <3>2. ASSUME NEW c \in Machines PROVE units'[c] <= 3 * MaxSends[c]
        <4>1. CASE c = d
          BY <4>1, <3>1, <1>a
        <4>2. CASE c # d
          BY <4>2, <1>b, HbParts
        <4> QED  BY <4>1, <4>2
      <3> QED  BY <3>1, <3>2
    <2>3. ahead' \in [Machines -> BOOLEAN]
      BY DEF PkgSendUnit, HbShape
    <2> QED  BY <2>1, <2>2, <2>3, <1>c DEF PkgSendUnit, HbShape
  <1>2. Watched'
    BY <1>c DEF PkgSendUnit, Watched, HbShape
  <1>3. Door'
    BY <1>c DEF PkgSendUnit, Door, Queued, Noticed, HasEvent
  <1>4. ASSUME NEW c \in Machines PROVE HbRule(c)'
    <2>1. CASE c # d
      <3>1. units'[c] = units[c] /\ inbox'[c] = inbox[c]
        BY <2>1, <1>b, Zenon
      <3>2. ahead'[c] = ahead[c]
        BY <2>1 DEF PkgSendUnit, HbShape
      <3>3. Untouched(c)
        BY <2>1, <1>c, <3>1, <3>2 DEF PkgSendUnit, Untouched
      <3> QED  BY <3>3, UntouchedKept
    <2>2. CASE c = d
      <3>1. client[d] = "run" /\ over[d] = "no" /\ conn[d] # "closed" /\ Exact(d)
        BY DEF HbRule, Lives, PkgSendUnit, InLine, Spent, HbShape
      <3>2. Held(d) \in Nat /\ ShownUnits(d) \in Nat /\ Held(d)' = Held(d) /\ ShownUnits(d)' = ShownUnits(d)
        BY HbParts DEF Held, ShownUnits, PkgSendUnit
      <3>3. inbox[d] \in Seq(Nat \X Nat) /\ inbox'[d] = Append(inbox[d], u) /\ units'[d] = units[d] + 1
        BY <1>b
      <3>4. ShownUnits(d) + Held(d) + Len(inbox[d]) = units[d]
        BY <3>1 DEF Exact
      <3>5. Lives(d)'
        BY <3>1, <3>3 DEF HbRule, Lives, PkgSendUnit
      <3>6. Exact(d)'
        <4>1. \A i \in 1 .. Len(inbox'[d]) : inbox'[d][i] = Unit(ShownUnits(d) + Held(d) + i)
          <5>1. \A i \in 1 .. Len(inbox[d]) : inbox[d][i] = Unit(ShownUnits(d) + Held(d) + i)
            BY <3>1 DEF Exact
          <5>2. TAKE i \in 1 .. Len(inbox'[d])
          <5>3. CASE i <= Len(inbox[d])
            BY <5>1, <5>3, <3>3, <1>a
          <5>4. CASE i = Len(inbox[d]) + 1
            <6>1. inbox'[d][i] = u
              BY <5>4, <3>3, <1>a
            <6>2. ShownUnits(d) + Held(d) + i = units[d] + 1
              <7>1. Len(inbox[d]) \in Nat
                BY HbParts, Zenon
              <7>2. ShownUnits(d) + Held(d) + (Len(inbox[d]) + 1) = units[d] + 1
                BY <7>1, <3>2, <3>4, <1>a, OneMore, SMTT(60)
              <7> QED  BY <5>4, <7>2, Zenon
            <6> QED  BY <6>1, <6>2, <1>a
          <5>5. Len(inbox'[d]) = Len(inbox[d]) + 1 /\ Len(inbox[d]) \in Nat
            BY <3>3, <1>a
          <5>6. i \in Nat /\ (i <= Len(inbox[d]) \/ i = Len(inbox[d]) + 1)
            BY <5>5
          <5> QED  BY <5>3, <5>4, <5>6
        <4>2. ShownUnits(d) + Held(d) + Len(inbox'[d]) = units'[d]
          <5>1. Len(inbox[d]) \in Nat
            BY HbParts, Zenon
          <5>2. ShownUnits(d) + Held(d) + (Len(inbox[d]) + 1) = units[d] + 1
            BY <5>1, <3>2, <3>4, <1>a, OneMore, SMTT(60)
          <5>3. Len(inbox'[d]) = Len(inbox[d]) + 1
            BY <3>3, <1>a
          <5> QED  BY <5>2, <5>3, <3>3, Zenon
        <4>3. ShownUnits(d)' + Held(d)' + Len(inbox'[d]) <= units'[d]
          BY <4>2, <3>2, <3>3, <1>a
        <4>4. \A i \in 1 .. Len(inbox'[d]) : inbox'[d][i] = Unit(ShownUnits(d)' + Held(d)' + i)
          BY <4>1, <3>2
        <4>5. over' = over /\ conn' = conn /\ have' = have /\ reading' = reading /\ shown' = shown
          BY DEF PkgSendUnit
        <4> QED  BY <4>2, <4>3, <4>4, <4>5, <3>1, <3>2 DEF Exact
      <3>7. Seen(d)'
        <4>1. over'[d] = "no" /\ conn' = conn /\ events' = events
          BY <3>1 DEF PkgSendUnit
        <4>2. conn'[d] = "open" => Noticed(d)'
          BY <1>c, <4>1 DEF Noticed
        <4>3. ~ahead'[d] => units'[d] <= ShownUnits(d) + 3
          <5>1. SUFFICES ASSUME ~ahead'[d] PROVE units[d] < ShownUnits(d) + 3
            BY <3>2, <3>3, <1>a
          <5>2. ~ahead[d] /\ (units[d] % 3 # 0 \/ ~Unread(d))
            BY <5>1 DEF PkgSendUnit, HbShape
          <5>3. CASE ~Unread(d)
            BY <5>3, <3>2, <3>3, <3>4 DEF Unread, Held
          <5>4. CASE units[d] % 3 # 0
            <6>1. units[d] <= ShownUnits(d) + 3
              BY <5>2, <3>1 DEF HbRule, Seen
            <6>2. PICK k \in Nat : ShownUnits(d) = 3 * k
              BY HbParts, Zenon
            <6> QED  BY <6>1, <6>2, <5>4, <1>a
          <5> QED  BY <5>2, <5>3, <5>4
        <4> QED  BY <4>1, <4>2, <4>3, <3>2 DEF Seen
      <3> QED  BY <2>2, <3>5, <3>6, <3>7 DEF HbRule, InLine
    <2> QED  BY <2>1, <2>2
  <1> QED  BY <1>1, <1>2, <1>3, <1>4

LEMMA EndKeeps ==
    ASSUME HbInd, NEW d \in Machines, ClientEnds(d)
    PROVE  HbInd'
  <1> USE HbAssumption DEF HbInd
  <1>c. ready' = IF conn[d] = "open" THEN ready \cup {d} ELSE ready
    BY DEF ClientEnds, EdgeOf
  <1>1. HbShape'
    BY <1>c DEF ClientEnds, HbShape
  <1>a. client[d] = "run" /\ over[d] = "no" /\ over'[d] = "fin" /\ conn[d] # "closed" /\ Exact(d)
    BY DEF HbRule, Lives, ClientEnds, InLine, Spent, HbShape
  <1>2. Watched'
    <2>1. ready' \subseteq ready \cup {d} /\ (d \in ready' => d \in ready \/ conn[d] = "open")
      BY <1>c
    <2>2. \A c \in Machines : over[c] \in {"reset", "told"} => over'[c] = over[c]
      BY <1>a DEF ClientEnds, HbShape
    <2> QED  BY <2>1, <2>2, EventParts DEF ClientEnds, Watched
  <1>3. Door'
    BY <1>c DEF ClientEnds, Door, Queued, Noticed, HasEvent
  <1>4. ASSUME NEW c \in Machines PROVE HbRule(c)'
    <2>1. CASE c # d
      BY <2>1, UntouchedKept, <1>c DEF ClientEnds, Untouched, HbShape
    <2>2. CASE c = d
      <3>2. Held(d)' = Held(d) /\ ShownUnits(d)' = ShownUnits(d)
        BY DEF Held, ShownUnits, ClientEnds
      <3>5. Lives(d)'
        BY <1>a DEF HbRule, Lives, ClientEnds, HbShape
      <3>6. Exact(d)'
        BY <3>2, <1>a DEF Exact, ClientEnds
      <3>7. Seen(d)'
        <4>2. conn'[d] = "open" => Noticed(d)'
          BY <1>c DEF Noticed, ClientEnds
        <4>3. ~ahead'[d] => inbox[d] = <<>> /\ Held(d) = 0
          BY DEF ClientEnds, Unread, Held, HbShape
        <4> QED  BY <4>2, <4>3, <1>a, <3>2 DEF Seen, ClientEnds
      <3> QED  BY <2>2, <3>5, <3>6, <3>7 DEF HbRule, InLine
    <2> QED  BY <2>1, <2>2
  <1> QED  BY <1>1, <1>2, <1>3, <1>4

LEMMA ResetKeeps ==
    ASSUME HbInd, NEW d \in Machines, ClientReset(d)
    PROVE  HbInd'
  <1> USE HbAssumption DEF HbInd
  <1>c. ready' = IF conn[d] = "open" THEN ready \cup {d} ELSE ready
    BY DEF ClientReset, EdgeOf
  <1>1. HbShape'
    <2>1. inbox' \in [Machines -> Seq(Nat \X Nat)]
      <3>1. inbox \in [Machines -> Seq(Nat \X Nat)] /\ <<>> \in Seq(Nat \X Nat)
        BY DEF HbShape
      <3> QED  BY <3>1, Zenon DEF ClientReset
    <2> QED  BY <2>1, <1>c DEF ClientReset, HbShape
  <1>a. /\ client[d] = "run" /\ over[d] = "no" /\ over'[d] = "reset" /\ conn[d] # "closed" /\ Exact(d)
        /\ inbox'[d] = <<>>
    BY ZenonT(60) DEF HbRule, Lives, ClientReset, InLine, Spent, HbShape
  <1>2. Watched'
    BY <1>c, <1>a DEF ClientReset, Watched, HbShape
  <1>3. Door'
    BY <1>c DEF ClientReset, Door, Queued, Noticed, HasEvent
  <1>4. ASSUME NEW c \in Machines PROVE HbRule(c)'
    <2>1. CASE c # d
      BY <2>1, UntouchedKept, <1>c DEF ClientReset, Untouched, HbShape
    <2>2. CASE c = d
      <3>2. Held(d)' = Held(d) /\ ShownUnits(d)' = ShownUnits(d) /\ Held(d) \in Nat /\ ShownUnits(d) \in Nat
        BY HbParts DEF Held, ShownUnits, ClientReset
      <3>5. Lives(d)'
        BY <1>a DEF HbRule, Lives, ClientReset, HbShape
      <3>6. Exact(d)'
        <4>1. Len(inbox[d]) \in Nat /\ units[d] \in Nat
          BY HbParts, Zenon
        <4>2. ShownUnits(d) + Held(d) + 0 <= units[d]
          BY <3>2, <4>1, <1>a DEF Exact
        <4> QED  BY <3>2, <4>2, <1>a DEF Exact, ClientReset
      <3>7. Seen(d)'
        BY <1>a, <1>c DEF Seen, ClientReset
      <3> QED  BY <2>2, <3>5, <3>6, <3>7 DEF HbRule, InLine
    <2> QED  BY <2>1, <2>2
  <1> QED  BY <1>1, <1>2, <1>3, <1>4

LEMMA ReadParts ==
    ASSUME HbShape, Watched, reading # "none"
    PROVE  /\ reading \in Machines /\ reading # "listen" /\ conn[reading] = "open"
           /\ [fd |-> reading, err |-> FALSE] \in events
           /\ \A e \in events : e.fd = reading => ~e.err
  <1>1. reading \in Machines /\ reading # "listen" /\ [fd |-> reading, err |-> FALSE] \in events
    BY HbAssumption DEF HbShape, Watched
  <1>2. conn[reading] = "open"
    BY <1>1, EventParts
  <1>3. ASSUME NEW e \in events, e.fd = reading PROVE ~e.err
    <2>1. e = [fd |-> reading, err |-> FALSE]
      BY <1>1, <1>3 DEF Watched
    <2> QED  BY <2>1
  <1> QED  BY <1>1, <1>2, <1>3

\* The connection of machine d is closed and its event done.
LEMMA CloseKeeps ==
    ASSUME HbInd, NEW d \in Machines, conn[d] = "open", over[d] # "no", CloseConn(d),
           events' \subseteq events, \A e \in events' : e.fd # d,
           \A e \in events : e.fd # d => e \in events',
           reading' = "none", reading \in {d, "none"}, have' \in {have, <<>>},
           cache' \in (Machines \cup {"nobody"}) \X Nat,
           UNCHANGED <<client, units, over, shown, ahead, crowd>>
    PROVE  HbInd'
  <1> USE HbAssumption DEF HbInd
  <1>a. conn' = [conn EXCEPT ![d] = "closed"] /\ inbox' = [inbox EXCEPT ![d] = <<>>] /\ ready' = ready \ {d}
    BY DEF CloseConn
  <1>b. d # "none" /\ d # "listen"
    OBVIOUS
  <1>1. HbShape'
    <2>1. inbox' \in [Machines -> Seq(Nat \X Nat)]
      <3>1. inbox \in [Machines -> Seq(Nat \X Nat)] /\ <<>> \in Seq(Nat \X Nat)
        BY DEF HbShape
      <3> QED  BY <3>1, <1>a, Zenon
    <2>2. have' \in Seq(Nat \X Nat) /\ Len(have') <= 3
      <3>1. <<>> \in Seq(Nat \X Nat) /\ Len(<<>>) <= 3
        OBVIOUS
      <3>2. have \in Seq(Nat \X Nat) /\ Len(have) <= 3
        BY DEF HbShape
      <3>3. CASE have' = have
        BY <3>2, <3>3, Zenon
      <3>4. CASE have' = <<>>
        BY <3>1, <3>4, Zenon
      <3> QED  BY <3>3, <3>4
    <2> QED  BY <2>1, <2>2, <1>a DEF HbShape
  <1>2. Watched'
    <2>1. conn'[d] = "closed" /\ \A c \in Machines : c # d => conn'[c] = conn[c]
      BY <1>a DEF HbShape
    <2>2. ASSUME NEW fd \in ready' PROVE fd = "listen" \/ conn'[fd] = "open"
      BY <2>1, <2>2, <1>a DEF Watched, HbShape
    <2>3. ASSUME NEW e \in events' PROVE IF e.fd = "listen" THEN ~e.err ELSE conn'[e.fd] = "open"
      BY <2>1, <2>3, EventParts DEF Watched
    <2> QED  BY <2>2, <2>3 DEF Watched
  <1>3. Door'
    <2>1. Queued' = Queued
      BY <1>a DEF Queued, HbShape
    <2>2. Noticed("listen") => Noticed("listen")'
      BY <1>a, <1>b DEF Noticed, HasEvent
    <2> QED  BY <2>1, <2>2 DEF Door
  <1>4. ASSUME NEW c \in Machines PROVE HbRule(c)'
    <2>1. CASE c # d
      <3>1. Untouched(c)
        BY <2>1, <1>a DEF Untouched, HbShape
      <3> QED  BY <3>1, UntouchedKept
    <2>2. CASE c = d
      <3>1. conn'[d] = "closed" /\ inbox'[d] = <<>>
        BY <1>a DEF HbShape
      <3>2. Held(d)' = 0 /\ ShownUnits(d)' = ShownUnits(d) /\ Held(d) \in Nat /\ ShownUnits(d) \in Nat
             /\ Len(inbox[d]) \in Nat /\ units[d] \in Nat
        BY <1>b, HbParts DEF Held, ShownUnits
      <3>3. Lives(d)'
        BY <3>1 DEF HbRule, Lives
      <3>4. InLine(d)'
        <4>1. CASE Exact(d)
          <5>1. ShownUnits(d)' + Held(d)' + 0 <= units'[d]
            BY <3>2, <4>1 DEF Exact
          <5>2. Exact(d)'
            BY <5>1, <3>1, <4>1, <1>b DEF Exact
          <5> QED  BY <5>2 DEF InLine
        <4>2. CASE Spent(d)
          <5>1. Spent(d)'
            BY <3>1, <3>2, <4>2 DEF Spent
          <5> QED  BY <5>1 DEF InLine
        <4> QED  BY <4>1, <4>2 DEF HbRule, InLine
      <3>5. Seen(d)'
        BY <3>1, <3>2 DEF Seen, HbRule
      <3> QED  BY <2>2, <3>3, <3>4, <3>5 DEF HbRule
    <2> QED  BY <2>1, <2>2
  <1> QED  BY <1>1, <1>2, <1>3, <1>4

LEMMA ErrorEventKeeps == ASSUME HbInd, ErrorEvent PROVE HbInd'
  <1>1. PICK e \in events : e.err /\ CloseConn(e.fd) /\ events' = events \ {e}
    BY DEF ErrorEvent
  <1>2. e.fd \in Machines /\ conn[e.fd] = "open" /\ over[e.fd] # "no"
    BY <1>1, EventParts DEF HbInd, Watched
  <1>3. \A f \in events' : f.fd # e.fd
    BY <1>1 DEF HbInd, Watched
  <1>4. cache' \in (Machines \cup {"nobody"}) \X Nat
    BY DEF ErrorEvent, HbInd, HbShape
  <1> QED  BY <1>1, <1>2, <1>3, <1>4, CloseKeeps DEF ErrorEvent

LEMMA WaitKeeps == ASSUME HbInd, epoll_wait PROVE HbInd'
  <1> USE HbAssumption DEF HbInd
  <1>a. events = {} /\ reading = "none" /\ ready' = {}
    BY DEF epoll_wait, AtRest
  <1>b. ready \subseteq Machines \cup {"listen"} /\ \A fd \in ready : Event(fd).fd = fd /\ Event(fd).err \in BOOLEAN
    BY DEF HbShape, Event
  <1>c. events' = {Event(fd) : fd \in {d \in ready : Readable(d)}}
    BY DEF epoll_wait
  <1>d. \A e \in events' : e.fd \in ready /\ Readable(e.fd) /\ e = Event(e.fd)
    BY <1>b, <1>c
  <1>g. \A fd \in ready : Event(fd).err <=> fd # "listen" /\ over[fd] \in {"reset", "told"}
    BY DEF Event
  <1>h. \A e \in events' : e.err <=> e.fd # "listen" /\ over[e.fd] \in {"reset", "told"}
    BY <1>d, <1>g
  <1>e. \A fd \in ready : Readable(fd) => Event(fd) \in events'
    BY <1>c
  <1>f. UNCHANGED <<client, units, conn, inbox, over, reading, have, cache, shown, ahead, crowd>>
    BY DEF epoll_wait
  <1>1. HbShape'
    <2>1. events' \subseteq [fd : Machines \cup {"listen"}, err : BOOLEAN]
      <3>1. \A fd \in ready : Event(fd) \in [fd : Machines \cup {"listen"}, err : BOOLEAN]
        BY <1>b DEF Event
      <3> QED  BY <1>d, <3>1
    <2> QED  BY <2>1, <1>a, <1>f DEF HbShape
  <1>2. Watched'
    <2>1. \A e \in events' : IF e.fd = "listen" THEN ~e.err ELSE conn'[e.fd] = "open"
      BY <1>d, <1>f, <1>h DEF Watched
    <2>2. \A e, f \in events' : e.fd = f.fd => e = f
      BY <1>d
    <2>3. \A e \in events' : e.err => over'[e.fd] \in {"reset", "told"}
      BY <1>f, <1>h
    <2> QED  BY <2>1, <2>2, <2>3, <1>a, <1>f DEF Watched
  <1>3. Door'
    <2>1. SUFFICES ASSUME ~crowd, NEW c \in Queued, NEW d \in Queued PROVE c = d /\ Noticed("listen")'
      BY <1>f DEF Door, Queued
    <2>2. c = d /\ "listen" \in ready
      BY <2>1, <1>a DEF Door, Noticed, HasEvent
    <2>3. Readable("listen")
      BY DEF Readable
    <2> QED  BY <2>2, <2>3, <1>b, <1>e DEF Noticed, HasEvent
  <1>4. ASSUME NEW c \in Machines PROVE HbRule(c)'
    <2>1. Held(c)' = Held(c) /\ ShownUnits(c)' = ShownUnits(c) /\ c # "listen"
      BY <1>f DEF Held, ShownUnits
    <2>2. Lives(c)'
      BY <2>1, <1>h, <1>f DEF HbRule, Lives
    <2>3. InLine(c)'
      BY <2>1, <1>f DEF HbRule, InLine, Exact, Spent
    <2>4. Seen(c)'
      <3>1. c \in ready /\ over[c] \in {"reset", "told"} => [fd |-> c, err |-> TRUE] \in events'
        BY <2>1, <1>e DEF Readable, Event
      <3>2. c \in ready /\ (inbox[c] # <<>> \/ over[c] = "fin") => Noticed(c)'
        BY <2>1, <1>b, <1>e DEF Readable, Noticed, HasEvent
      <3> QED  BY <3>1, <3>2, <2>1, <1>a, <1>f DEF HbRule, Seen, Noticed, HasEvent
    <2> QED  BY <2>2, <2>3, <2>4 DEF HbRule
  <1> QED  BY <1>1, <1>2, <1>3, <1>4

LEMMA AcceptKeeps == ASSUME HbInd, Accept PROVE HbInd'
  <1> USE HbAssumption DEF HbInd
  <1>1. PICK d \in Queued : /\ conn' = [conn EXCEPT ![d] = "open"]
                            /\ ready' = IF Readable(d) THEN ready \cup {d} ELSE ready
    BY DEF Accept
  <1>a. d \in Machines /\ conn[d] = "queued" /\ conn'[d] = "open" /\ d # "listen"
        /\ \A c \in Machines : c # d => conn'[c] = conn[c]
    BY <1>1 DEF Queued, HbShape
  <1>b. events' = {e \in events : e.fd # "listen"}
        /\ UNCHANGED <<client, units, inbox, over, reading, have, cache, shown, ahead, crowd>>
    BY DEF Accept
  <1>2. HbShape'
    BY <1>1, <1>a, <1>b DEF HbShape
  <1>3. Watched'
    <2>1. \A fd \in ready' : fd = "listen" \/ conn'[fd] = "open"
      BY <1>1, <1>a DEF Watched, HbShape
    <2>2. ASSUME NEW e \in events' PROVE IF e.fd = "listen" THEN ~e.err ELSE conn'[e.fd] = "open"
      BY <2>2, <1>a, <1>b, EventParts
    <2>3. reading' # "none" => [fd |-> reading', err |-> FALSE] \in events'
      BY <1>b DEF Accept
    <2> QED  BY <2>1, <2>2, <2>3, <1>b DEF Watched
  <1>4. Door'
    <2>1. Queued' = Queued \ {d}
      BY <1>a DEF Queued, HbShape
    <2> QED  BY <2>1, <1>b DEF Door
  <1>5. ASSUME NEW c \in Machines PROVE HbRule(c)'
    <2>1. CASE c # d
      <3>1. Untouched(c)
        BY <2>1, <1>1, <1>a, <1>b DEF Untouched, HbShape
      <3> QED  BY <3>1, UntouchedKept
    <2>2. CASE c = d
      <3>1. Held(d)' = Held(d) /\ ShownUnits(d)' = ShownUnits(d)
        BY <1>b DEF Held, ShownUnits
      <3>2. Lives(d)'
        BY <1>a, <1>b DEF HbRule, Lives
      <3>3. InLine(d)'
        BY <3>1, <1>a, <1>b DEF HbRule, InLine, Exact, Spent
      <3>4. Seen(d)'
        <4>1. inbox[d] # <<>> \/ over[d] # "no" => d \in ready'
          BY <1>1, <1>a DEF Readable
        <4> QED  BY <4>1, <3>1, <1>a, <1>b DEF HbRule, Seen, Noticed
      <3> QED  BY <2>2, <3>2, <3>3, <3>4 DEF HbRule
    <2> QED  BY <2>1, <2>2
  <1> QED  BY <1>2, <1>3, <1>4, <1>5

LEMMA ReadEventKeeps == ASSUME HbInd, ReadEvent PROVE HbInd'
  <1> USE HbAssumption DEF HbInd
  <1>1. PICK e \in events : e.fd # "listen" /\ ~e.err /\ reading' = e.fd
    BY DEF ReadEvent
  <1> DEFINE d == e.fd
  <1>a. d \in Machines /\ d # "none" /\ conn[d] = "open" /\ e = [fd |-> d, err |-> FALSE]
    BY <1>1, EventParts
  <1>b. reading = "none" /\ have' = <<>> /\ reading' = d
        /\ UNCHANGED <<client, units, conn, inbox, over, ready, events, cache, shown, ahead, crowd>>
    BY <1>1 DEF ReadEvent
  <1> HIDE DEF d
  <1>2. HbShape'
    <2>1. <<>> \in Seq(Nat \X Nat) /\ Len(<<>>) <= 3
      OBVIOUS
    <2> QED  BY <2>1, <1>a, <1>b DEF HbShape
  <1>3. Watched'
    BY <1>a, <1>b DEF Watched
  <1>4. Door'
    BY <1>b DEF Door, Queued, Noticed, HasEvent
  <1>5. ASSUME NEW c \in Machines PROVE HbRule(c)'
    <2>1. CASE c # d
      <3>1. Untouched(c)
        BY <2>1, <1>b DEF Untouched
      <3> QED  BY <3>1, UntouchedKept
    <2>2. CASE c = d
      <3>1. Held(d)' = 0 /\ Held(d) = 0 /\ ShownUnits(d)' = ShownUnits(d)
        BY <1>a, <1>b DEF Held, ShownUnits
      <3>2. Lives(d)'
        BY <1>a, <1>b DEF HbRule, Lives
      <3>3. InLine(d)'
        <4>1. CASE Exact(d)
          <5>1. Exact(d)'
            BY <4>1, <3>1, <1>b DEF Exact
          <5> QED  BY <5>1 DEF InLine
        <4>2. CASE Spent(d)
          <5>1. Spent(d)'
            BY <4>2, <3>1, <1>b DEF Spent
          <5> QED  BY <5>1 DEF InLine
        <4> QED  BY <1>a, <4>1, <4>2 DEF HbRule, InLine
      <3>4. Seen(d)'
        BY <3>1, <1>a, <1>b DEF HbRule, Seen, Noticed, HasEvent
      <3> QED  BY <2>2, <3>2, <3>3, <3>4 DEF HbRule
    <2> QED  BY <2>1, <2>2
  <1> QED  BY <1>2, <1>3, <1>4, <1>5

LEMMA AppendParts ==
    ASSUME NEW S, NEW s \in Seq(S), NEW u \in S
    PROVE  /\ Append(s, u) \in Seq(S) /\ Len(s) \in Nat /\ Len(Append(s, u)) = Len(s) + 1
           /\ \A i \in 1 .. Len(s) : Append(s, u)[i] = s[i]
           /\ Append(s, u)[Len(s) + 1] = u
  OBVIOUS

LEMMA HeadTailParts ==
    ASSUME NEW S, NEW s \in Seq(S), s # <<>>
    PROVE  /\ Tail(s) \in Seq(S) /\ Head(s) \in S /\ Head(s) = s[1]
           /\ Len(Tail(s)) = Len(s) - 1 /\ Len(s) \in Nat /\ Len(s) >= 1
           /\ \A i \in 1 .. Len(s) - 1 : Tail(s)[i] = s[i + 1]
  OBVIOUS

LEMMA ReadUnitKeeps == ASSUME HbInd, ReadUnit PROVE HbInd'
  <1> USE HbAssumption DEF HbInd
  <1>0. PICK d \in Machines : d = reading
    BY ReadParts DEF ReadUnit
  <1> DEFINE u == Head(inbox[d])
  <1>a. /\ d = reading /\ d # "none" /\ Len(have) < 3 /\ inbox[d] # <<>>
        /\ [fd |-> d, err |-> FALSE] \in events
    BY <1>0, ReadParts DEF ReadUnit
  <1>b. /\ have' = Append(have, u) /\ inbox' = [inbox EXCEPT ![d] = Tail(@)]
        /\ UNCHANGED <<client, units, conn, over, ready, events, reading, cache, shown, ahead, crowd>>
    BY <1>a DEF ReadUnit
  <1>c. /\ inbox[d] \in Seq(Nat \X Nat) /\ Tail(inbox[d]) \in Seq(Nat \X Nat) /\ u \in Nat \X Nat /\ u = inbox[d][1]
        /\ Len(Tail(inbox[d])) = Len(inbox[d]) - 1 /\ Len(inbox[d]) \in Nat /\ Len(inbox[d]) >= 1
        /\ \A i \in 1 .. Len(inbox[d]) - 1 : Tail(inbox[d])[i] = inbox[d][i + 1]
    <2>1. inbox[d] \in Seq(Nat \X Nat)
      BY HbParts
    <2> QED  BY <2>1, <1>a, HeadTailParts, SMTT(60)
  <1>d. /\ have \in Seq(Nat \X Nat) /\ have' \in Seq(Nat \X Nat) /\ Len(have) \in Nat /\ Len(have') = Len(have) + 1
        /\ \A i \in 1 .. Len(have) : have'[i] = have[i]
        /\ have'[Len(have) + 1] = u
    <2>1. have \in Seq(Nat \X Nat)
      BY DEF HbShape
    <2> HIDE DEF u
    <2> QED  BY <2>1, <1>b, <1>c, AppendParts, SMTT(60)
  <1>e. inbox'[d] = Tail(inbox[d]) /\ \A c \in Machines : c # d => inbox'[c] = inbox[c]
    BY <1>a, <1>b DEF HbShape
  <1> HIDE DEF u
  <1>1. HbShape'
    <2>1. inbox' \in [Machines -> Seq(Nat \X Nat)]
      BY <1>a, <1>b, <1>c DEF HbShape
    <2>2. Len(have') <= 3
      BY <1>a, <1>d
    <2> QED  BY <2>1, <2>2, <1>b, <1>d DEF HbShape
  <1>2. Watched'
    BY <1>b DEF Watched
  <1>3. Door'
    BY <1>b DEF Door, Queued, Noticed, HasEvent
  <1>4. ASSUME NEW c \in Machines PROVE HbRule(c)'
    <2>1. CASE c # d
      <3>1. Untouched(c)
        BY <2>1, <1>a, <1>b, <1>e DEF Untouched
      <3> QED  BY <3>1, UntouchedKept
    <2>2. CASE c = d
      <3>1. /\ Held(d) = Len(have) /\ Held(d)' = Len(have) + 1 /\ ShownUnits(d)' = ShownUnits(d) /\ ShownUnits(d) \in Nat
            /\ units[d] \in Nat
        BY <1>a, <1>b, <1>d, HbParts DEF Held, ShownUnits
      <3>2. Exact(d)
        BY <1>a DEF HbRule, InLine, Spent
      <3>3. Lives(d)'
        BY <1>a, <1>b DEF HbRule, Lives
      <3>4. Exact(d)'
        <4>1. \A i \in 1 .. Len(have') : have'[i] = Unit(ShownUnits(d) + i)
          <5>1. \A i \in 1 .. Len(have) : have[i] = Unit(ShownUnits(d) + i)
            BY <3>2, <1>a DEF Exact
          <5>2. u = Unit(ShownUnits(d) + Len(have) + 1)
            BY <3>1, <3>2, <1>c DEF Exact
          <5>3. TAKE i \in 1 .. Len(have')
          <5>4. CASE i \in 1 .. Len(have)
            BY <5>1, <5>4, <1>d
          <5>5. CASE i = Len(have) + 1
            <6>1. ShownUnits(d) + i = ShownUnits(d) + Len(have) + 1
              BY <5>5, <3>1, <1>d
            <6> QED  BY <6>1, <5>2, <5>5, <1>d
          <5> QED  BY <5>4, <5>5, <1>d
        <4>2. \A i \in 1 .. Len(inbox'[d]) : inbox'[d][i] = Unit(ShownUnits(d) + (Len(have) + 1) + i)
          <5>1. \A i \in 1 .. Len(inbox[d]) : inbox[d][i] = Unit(ShownUnits(d) + Len(have) + i)
            BY <3>1, <3>2 DEF Exact
          <5>2. TAKE i \in 1 .. Len(inbox'[d])
          <5>a. i \in 1 .. Len(inbox[d]) - 1
            BY <1>c, <1>e
          <5>b. i + 1 \in 1 .. Len(inbox[d])
            BY <5>a, <1>c
          <5>3. i + 1 \in 1 .. Len(inbox[d]) /\ inbox'[d][i] = inbox[d][i + 1]
            BY <5>a, <5>b, <1>c, <1>e, Zenon
          <5>4. inbox[d][i + 1] = Unit(ShownUnits(d) + Len(have) + (i + 1))
            BY <5>1, <5>3
          <5>5. ShownUnits(d) + Len(have) + (i + 1) = ShownUnits(d) + (Len(have) + 1) + i
            BY <3>1, <1>c, <1>d, <1>e
          <5> QED  BY <5>3, <5>4, <5>5
        <4>3. ShownUnits(d) + (Len(have) + 1) + Len(inbox'[d]) = ShownUnits(d) + Len(have) + Len(inbox[d])
          BY <3>1, <1>c, <1>d, <1>e, SMTT(60)
        <4> QED  BY <4>1, <4>2, <4>3, <3>1, <3>2, <1>b DEF Exact
      <3>5. Seen(d)'
        <4>1. ~(over[d] = "fin" /\ ~ahead[d])
          BY <1>a DEF HbRule, Seen
        <4>2. Noticed(d)'
          BY <1>a, <1>b DEF Noticed, HasEvent
        <4> QED  BY <4>1, <4>2, <3>1, <1>b DEF HbRule, Seen
      <3> QED  BY <2>2, <3>3, <3>4, <3>5 DEF HbRule, InLine
    <2> QED  BY <2>1, <2>2
  <1> QED  BY <1>1, <1>2, <1>3, <1>4

\* A text is shown for the connection that is read, and its event is done.
LEMMA ShowParts ==
    ASSUME HbInd, reading # "none", NEW text \in (Machines \cup {"nobody"}) \X Nat,
           UnPackHBpkg4J(text), Handled
    PROVE  /\ reading \in Machines /\ reading' = "none" /\ have' = <<>> /\ Held(reading) = Len(have)
           /\ shown' \in [Machines -> Seq((Machines \cup {"nobody"}) \X Nat)]
           /\ Len(shown[reading]) \in Nat /\ Len(shown'[reading]) = Len(shown[reading]) + 1
           /\ shown'[reading] # <<>>
           /\ \A n \in 1 .. Len(shown[reading]) : shown'[reading][n] = shown[reading][n]
           /\ shown'[reading][Len(shown[reading]) + 1] = text
           /\ \A e \in events' : e.fd # reading
           /\ events' \subseteq events
           /\ \A e \in events : e.fd # reading => e \in events'
           /\ \A c \in Machines : c # reading => shown'[c] = shown[c]
  <1>1. reading \in Machines /\ reading # "none"
    BY ReadParts DEF HbInd
  <1>2. shown \in [Machines -> Seq((Machines \cup {"nobody"}) \X Nat)]
    BY DEF HbInd, HbShape
  <1>3. shown' = [shown EXCEPT ![reading] = Append(@, text)]
    BY DEF UnPackHBpkg4J
  <1> DEFINE T == (Machines \cup {"nobody"}) \X Nat
             s == shown[reading]
  <1>4. s \in Seq(T) /\ text \in T /\ shown'[reading] = Append(s, text)
    BY <1>1, <1>2, <1>3
  <1>5. \A c \in Machines : c # reading => shown'[c] = shown[c]
    BY <1>1, <1>2, <1>3
  <1> HIDE DEF T, s
  <1>6. /\ Append(s, text) \in Seq(T) /\ Len(s) \in Nat /\ Len(Append(s, text)) = Len(s) + 1 /\ Append(s, text) # <<>>
        /\ \A n \in 1 .. Len(s) : Append(s, text)[n] = s[n]
        /\ Append(s, text)[Len(s) + 1] = text
    BY <1>4
  <1>7. shown' \in [Machines -> Seq(T)]
    BY <1>1, <1>2, <1>3, <1>4, <1>6 DEF T, s
  <1> QED  BY <1>1, <1>4, <1>5, <1>6, <1>7 DEF T, s, Handled, Held

LEMMA NoneLeft ==
    ASSUME NEW k \in Nat, NEW v \in Nat, NEW w \in Nat, v <= 3 * k + 3, (3 * k + 3) + w = v
    PROVE  w = 0
  OBVIOUS

LEMMA PackageReadKeeps == ASSUME HbInd, PackageRead PROVE HbInd'
  <1> USE HbAssumption DEF HbInd
  <1>0. PICK d \in Machines : d = reading
    BY ReadParts DEF PackageRead
  <1>00. PICK k \in Nat : k = Len(shown[d]) /\ ShownUnits(d) = 3 * k
    BY HbParts
  <1>a. /\ d = reading /\ d # "none" /\ Len(have) = 3 /\ cache' = Text /\ UnPackHBpkg4J(Text) /\ Handled
        /\ UNCHANGED <<client, units, conn, inbox, over, ready, ahead, crowd>>
    BY <1>0 DEF PackageRead, Complete
  <1>b. d \in Machines /\ conn[d] = "open"
    BY <1>a, ReadParts
  <1>c. Held(d) = 3 /\ k \in Nat /\ ShownUnits(d) = 3 * k /\ units[d] \in Nat /\ Len(inbox[d]) \in Nat
    BY <1>a, <1>b, <1>00, HbParts DEF Held
  <1>d. Exact(d)
    BY <1>b, <1>c DEF HbRule, InLine, Spent
  <1>e. Text = <<d, k + 1>>
    <2>1. have[1] = Unit(3 * k + 1) /\ have[2] = Unit(3 * k + 2) /\ have[3] = Unit(3 * k + 3)
      BY <1>a, <1>c, <1>d DEF Exact
    <2>2. have[1] = <<k + 1, 1>> /\ have[2] = <<k + 1, 2>> /\ have[3] = <<k + 1, 3>>
      BY <2>1, <1>c, UnitPart
    <2> QED  BY <2>2, <1>a DEF Text
  <1>f. Text \in (Machines \cup {"nobody"}) \X Nat
    BY <1>b, <1>c, <1>e
  <1>g. /\ reading' = "none" /\ have' = <<>>
        /\ shown' \in [Machines -> Seq((Machines \cup {"nobody"}) \X Nat)]
        /\ Len(shown'[d]) = k + 1
        /\ \A n \in 1 .. k : shown'[d][n] = shown[d][n]
        /\ shown'[d][k + 1] = Text
        /\ \A e \in events' : e.fd # d
        /\ events' \subseteq events
        /\ \A e \in events : e.fd # d => e \in events'
        /\ \A c \in Machines : c # d => shown'[c] = shown[c]
    BY <1>a, <1>f, <1>00, ShowParts
  <1>1. HbShape'
    <2>1. <<>> \in Seq(Nat \X Nat) /\ Len(<<>>) <= 3
      OBVIOUS
    <2> QED  BY <2>1, <1>a, <1>f, <1>g DEF HbShape
  <1>2. Watched'
    BY <1>a, <1>g DEF Watched
  <1>3. Door'
    BY <1>a, <1>b, <1>g DEF Door, Queued, Noticed, HasEvent
  <1>4. ASSUME NEW c \in Machines PROVE HbRule(c)'
    <2>1. CASE c # d
      <3>1. Untouched(c)
        BY <2>1, <1>a, <1>g DEF Untouched
      <3> QED  BY <3>1, UntouchedKept
    <2>2. CASE c = d
      <3>1. Held(d)' = 0 /\ ShownUnits(d)' = 3 * k + 3
        BY <1>a, <1>b, <1>c, <1>g DEF Held, ShownUnits
      <3>2. Lives(d)'
        BY <1>a, <1>b, <1>d, <1>g DEF HbRule, Lives, Exact
      <3>3. Exact(d)'
        <4>1. \A n \in 1 .. Len(shown'[d]) : shown'[d][n] = <<d, n>>
          <5>1. \A n \in 1 .. k : shown[d][n] = <<d, n>>
            BY <1>d, <1>00 DEF Exact
          <5>2. TAKE n \in 1 .. Len(shown'[d])
          <5>3. CASE n \in 1 .. k
            BY <5>1, <5>3, <1>g
          <5>4. CASE n = k + 1
            BY <5>4, <1>e, <1>g
          <5> QED  BY <5>3, <5>4, <1>c, <1>g
        <4>2. \A i \in 1 .. Len(inbox[d]) : inbox[d][i] = Unit((3 * k + 3) + 0 + i)
          BY <1>c, <1>d DEF Exact
        <4>3. (3 * k + 3) + 0 + Len(inbox[d]) = ShownUnits(d) + Held(d) + Len(inbox[d])
          BY <1>c
        <4>4. ShownUnits(d) + Held(d) + Len(inbox[d]) <= units[d]
              /\ (over[d] \in {"no", "fin"} /\ conn[d] # "closed" => ShownUnits(d) + Held(d) + Len(inbox[d]) = units[d])
          BY <1>d DEF Exact
        <4>5. (3 * k + 3) + 0 + Len(inbox[d]) <= units[d]
              /\ (over[d] \in {"no", "fin"} /\ conn[d] # "closed" => (3 * k + 3) + 0 + Len(inbox[d]) = units[d])
          BY <4>3, <4>4
        <4>6. over[d] # "told" /\ reading' # d
          BY <1>a, <1>d, <1>g DEF Exact
        <4>7. conn'[d] = conn[d] /\ inbox'[d] = inbox[d] /\ over'[d] = over[d] /\ units'[d] = units[d]
          BY <1>a
        <4>8. \A i \in 1 .. Len(inbox'[d]) : inbox'[d][i] = Unit(ShownUnits(d)' + Held(d)' + i)
          BY <4>2, <4>7, <3>1
        <4>9. ShownUnits(d)' + Held(d)' + Len(inbox'[d]) <= units'[d]
              /\ (over'[d] \in {"no", "fin"} /\ conn'[d] # "closed" =>
                     ShownUnits(d)' + Held(d)' + Len(inbox'[d]) = units'[d])
          BY <4>5, <4>7, <3>1
        <4> QED  BY <4>1, <4>6, <4>7, <4>8, <4>9 DEF Exact
      <3>4. Seen(d)'
        <4>1. over[d] \in {"reset", "told"} => d \in ready
          BY <1>a, <1>b, ReadParts DEF HbRule, Seen
        <4>2. over[d] = "no" /\ ~ahead[d] => inbox[d] = <<>>
          <5>1. SUFFICES ASSUME over[d] = "no", ~ahead[d] PROVE Len(inbox[d]) = 0
            BY <1>b, EmptySeq, HbParts
          <5>2. units[d] <= ShownUnits(d) + 3
            BY <5>1, <1>b DEF HbRule, Seen
          <5>3. ShownUnits(d) + Held(d) + Len(inbox[d]) = units[d]
            BY <5>1, <1>b, <1>d DEF Exact
          <5>4. PICK w \in Nat, v \in Nat : w = Len(inbox[d]) /\ v = units[d]
            BY <1>c
          <5>5. v <= 3 * k + 3 /\ (3 * k + 3) + w = v
            BY <5>2, <5>3, <5>4, <1>c
          <5>6. w = 0
            BY <5>5, NoneLeft, <1>c
          <5> QED  BY <5>4, <5>6
        <4>3. over[d] = "fin" => ahead[d]
          <5>1. Held(d) # 0
            BY <1>c
          <5> QED  BY <1>b, <5>1 DEF HbRule, Seen
        <4>4. over[d] \in {"reset", "told"} => inbox[d] = <<>>
          BY <1>b DEF HbRule, Lives
        <4>5. over[d] \in {"no", "fin", "reset", "told"}
          BY <1>b DEF HbShape
        <4>6. over[d] = "no" /\ ~ahead[d] => units[d] <= (3 * k + 3) + 3
          <5>1. over[d] = "no" /\ ~ahead[d] => units[d] <= ShownUnits(d) + 3
            BY <1>b DEF HbRule, Seen
          <5> QED  BY <5>1, <1>c
        <4> QED  BY <4>1, <4>2, <4>3, <4>4, <4>5, <4>6, <3>1, <1>a DEF Seen
      <3> QED  BY <2>2, <3>2, <3>3, <3>4 DEF HbRule, InLine
    <2> QED  BY <2>1, <2>2
  <1> QED  BY <1>1, <1>2, <1>3, <1>4

LEMMA EndReadKeeps == ASSUME HbInd, EndRead PROVE HbInd'
  <1> USE HbAssumption DEF HbInd
  <1>0. PICK d \in Machines : d = reading
    BY ReadParts DEF EndRead, AtEnd
  <1>a. /\ d = reading /\ d # "none" /\ inbox[d] = <<>> /\ over[d] \in {"fin", "told"} /\ Handled /\ conn[d] = "open"
        /\ UNCHANGED <<client, units, over, ahead, crowd>>
    BY <1>0, ReadParts DEF EndRead, AtEnd
  <1>b. over[d] = "fin"
    BY <1>a, ReadParts DEF HbRule, Lives
  <1>1. CASE Len(have) < 2
    <2>1. CloseConn(d) /\ UNCHANGED shown /\ (cache' = cache \/ cache' = NoText)
      BY <1>a, <1>1 DEF EndRead
    <2>3. cache' \in (Machines \cup {"nobody"}) \X Nat
      BY <2>1 DEF HbShape, NoText
    <2>2. /\ events' \subseteq events /\ \A e \in events' : e.fd # d
          /\ \A e \in events : e.fd # d => e \in events'
          /\ reading' = "none" /\ have' = <<>>
      BY <1>a DEF Handled
    <2> QED  BY <2>1, <2>2, <2>3, <1>a, <1>b, CloseKeeps
  <1>2. CASE ~(Len(have) < 2)
    <2>1. cache' = NoText /\ UnPackHBpkg4J(NoText) /\ UNCHANGED <<conn, inbox, ready>>
      BY <1>2, <1>a DEF EndRead
    <2>2. NoText \in (Machines \cup {"nobody"}) \X Nat
      BY DEF NoText
    <2>3. PICK k \in Nat : k = Len(shown[d]) /\ ShownUnits(d) = 3 * k
      BY HbParts
    <2>4. /\ reading' = "none" /\ have' = <<>> /\ Held(d) = Len(have)
          /\ shown' \in [Machines -> Seq((Machines \cup {"nobody"}) \X Nat)]
          /\ Len(shown'[d]) = k + 1 /\ shown'[d] # <<>>
          /\ \A n \in 1 .. k : shown'[d][n] = shown[d][n]
          /\ \A e \in events' : e.fd # d
          /\ events' \subseteq events
          /\ \A e \in events : e.fd # d => e \in events'
          /\ \A c \in Machines : c # d => shown'[c] = shown[c]
      BY <1>a, <2>1, <2>2, <2>3, ShowParts
    <2>5. HbShape'
      <3>1. <<>> \in Seq(Nat \X Nat) /\ Len(<<>>) <= 3
        OBVIOUS
      <3> QED  BY <3>1, <2>1, <2>2, <2>4, <1>a DEF HbShape
    <2>6. Watched'
      BY <1>a, <2>1, <2>4 DEF Watched
    <2>7. Door'
      BY <1>a, <2>1, <2>4 DEF Door, Queued, Noticed, HasEvent
    <2>8. ASSUME NEW c \in Machines PROVE HbRule(c)'
      <3>1. CASE c # d
        <4>1. Untouched(c)
          BY <3>1, <1>a, <2>1, <2>4 DEF Untouched
        <4> QED  BY <4>1, UntouchedKept
      <3>2. CASE c = d
        <4>1. /\ Held(d)' = 0 /\ ShownUnits(d)' = 3 * k + 3 /\ Held(d) \in Nat /\ Held(d) # 0 /\ Len(inbox[d]) \in Nat
              /\ units[d] \in Nat
          <5>1. Held(d) \in Nat /\ Len(inbox[d]) \in Nat /\ units[d] \in Nat
            BY HbParts, Zenon
          <5>2. Held(d)' = 0
            BY <1>a, <2>4 DEF Held
          <5>3. ShownUnits(d)' = 3 * (k + 1)
            BY <2>4, Zenon DEF ShownUnits
          <5>4. ShownUnits(d)' = 3 * k + 3
            BY ONLY k \in Nat, <5>3
          <5>5. Held(d) # 0
            BY <1>2, <2>4
          <5> QED  BY <5>1, <5>2, <5>4, <5>5
        <4>2. Exact(d)
          BY <4>1 DEF HbRule, InLine, Spent
        <4>3. Lives(d)'
          BY <1>a, <1>b, <2>1, <2>4 DEF HbRule, Lives
        <4>4. Spent(d)'
          <5>1. 3 * k <= units[d]
            <6>1. ShownUnits(d) + Held(d) + Len(inbox[d]) <= units[d]
              BY <4>2, Zenon DEF Exact
            <6> QED  BY <6>1, <2>3, <4>1
          <5>2. ShownUnits(d)' <= units[d] + 3
            BY <5>1, <4>1, <2>3
          <5>3. \A n \in 1 .. Len(shown'[d]) - 1 : shown'[d][n] = <<d, n>>
            <6>1. \A n \in 1 .. k : shown[d][n] = <<d, n>>
              BY <2>3, <4>2 DEF Exact
            <6>2. TAKE n \in 1 .. Len(shown'[d]) - 1
            <6>3. n \in 1 .. k
              BY <2>4
            <6> QED  BY <6>1, <6>3, <2>4, Zenon
          <5> QED  BY <5>2, <5>3, <4>1, <1>a, <1>b, <2>1, <2>4 DEF Spent
        <4>5. Seen(d)'
          <5>1. ahead[d]
            BY <1>b, <4>1 DEF HbRule, Seen
          <5> QED  BY <5>1, <1>a, <1>b DEF Seen
        <4> QED  BY <3>2, <4>3, <4>4, <4>5 DEF HbRule, InLine
      <3> QED  BY <3>1, <3>2
    <2> QED  BY <2>5, <2>6, <2>7, <2>8
  <1> QED  BY <1>1, <1>2

LEMMA ErrorReadKeeps == ASSUME HbInd, ErrorRead PROVE HbInd'
  <1> USE HbAssumption DEF HbInd
  <1>0. PICK d \in Machines : d = reading
    BY ReadParts DEF ErrorRead, AtEnd
  <1>a. /\ d = reading /\ d # "none" /\ inbox[d] = <<>> /\ over[d] = "reset" /\ Handled /\ conn[d] = "open"
        /\ UnPackHBpkg4J(cache) /\ over' = [over EXCEPT ![d] = "told"]
        /\ UNCHANGED <<client, units, conn, inbox, ready, cache, ahead, crowd>>
    BY <1>0, ReadParts DEF ErrorRead, AtEnd
  <1>b. over'[d] = "told" /\ \A c \in Machines : c # d => over'[c] = over[c]
    BY <1>a DEF HbShape
  <1>1. cache \in (Machines \cup {"nobody"}) \X Nat
    BY DEF HbShape
  <1>2. PICK k \in Nat : k = Len(shown[d]) /\ ShownUnits(d) = 3 * k
    BY HbParts
  <1>3. /\ reading' = "none" /\ have' = <<>> /\ Held(d) = Len(have)
        /\ shown' \in [Machines -> Seq((Machines \cup {"nobody"}) \X Nat)]
        /\ Len(shown'[d]) = k + 1 /\ shown'[d] # <<>>
        /\ \A n \in 1 .. k : shown'[d][n] = shown[d][n]
        /\ \A e \in events' : e.fd # d
        /\ events' \subseteq events
        /\ \A e \in events : e.fd # d => e \in events'
        /\ \A c \in Machines : c # d => shown'[c] = shown[c]
    BY <1>a, <1>1, <1>2, ShowParts
  <1>4. HbShape'
    <2>1. <<>> \in Seq(Nat \X Nat) /\ Len(<<>>) <= 3
      OBVIOUS
    <2> QED  BY <2>1, <1>a, <1>3 DEF HbShape
  <1>5. Watched'
    <2>1. \A e \in events' : e.err => over'[e.fd] \in {"reset", "told"}
      BY <1>b, <1>3, EventParts
    <2> QED  BY <2>1, <1>a, <1>3 DEF Watched
  <1>6. Door'
    BY <1>a, <1>3 DEF Door, Queued, Noticed, HasEvent
  <1>7. ASSUME NEW c \in Machines PROVE HbRule(c)'
    <2>1. CASE c # d
      <3>1. Untouched(c)
        BY <2>1, <1>a, <1>b, <1>3 DEF Untouched
      <3> QED  BY <3>1, UntouchedKept
    <2>2. CASE c = d
      <3>1. /\ Held(d)' = 0 /\ ShownUnits(d)' = 3 * k + 3 /\ Held(d) \in Nat /\ Len(inbox[d]) \in Nat /\ units[d] \in Nat
        <4>1. Held(d) \in Nat /\ Len(inbox[d]) \in Nat /\ units[d] \in Nat
          BY HbParts, Zenon
        <4>2. Held(d)' = 0
          BY <1>a, <1>3 DEF Held
        <4>3. ShownUnits(d)' = 3 * (k + 1)
          BY <1>3, Zenon DEF ShownUnits
        <4>4. ShownUnits(d)' = 3 * k + 3
          BY ONLY k \in Nat, <4>3
        <4> QED  BY <4>1, <4>2, <4>4
      <3>2. Exact(d)
        BY <1>a DEF HbRule, InLine, Spent
      <3>3. Lives(d)'
        BY <1>a, <1>b, <1>3 DEF HbRule, Lives
      <3>4. Spent(d)'
        <4>1. 3 * k <= units[d]
          <5>1. ShownUnits(d) + Held(d) + Len(inbox[d]) <= units[d]
            BY <3>2, Zenon DEF Exact
          <5> QED  BY <5>1, <1>2, <3>1
        <4>2. ShownUnits(d)' <= units[d] + 3
          BY <4>1, <3>1, <1>2
        <4>3. \A n \in 1 .. Len(shown'[d]) - 1 : shown'[d][n] = <<d, n>>
          <5>1. \A n \in 1 .. k : shown[d][n] = <<d, n>>
            BY <1>2, <3>2 DEF Exact
          <5>2. TAKE n \in 1 .. Len(shown'[d]) - 1
          <5>3. n \in 1 .. k
            BY <1>3
          <5> QED  BY <5>1, <5>3, <1>3, Zenon
        <4> QED  BY <4>2, <4>3, <3>1, <1>a, <1>b, <1>3 DEF Spent
      <3>5. Seen(d)'
        <4>1. d \in ready
          BY <1>a, ReadParts DEF HbRule, Seen
        <4> QED  BY <4>1, <1>a, <1>b DEF Seen
      <3> QED  BY <2>2, <3>3, <3>4, <3>5 DEF HbRule, InLine
    <2> QED  BY <2>1, <2>2
  <1> QED  BY <1>4, <1>5, <1>6, <1>7

LEMMA HbStutter == ASSUME HbInd, UNCHANGED hbVars PROVE HbInd'
  <1> USE DEF HbInd
  <1>a. UNCHANGED <<client, units, conn, inbox, over, ready, events, reading, have, cache, shown, ahead, crowd>>
    BY DEF hbVars
  <1>1. HbShape'
    BY <1>a DEF HbShape
  <1>2. Watched' /\ Door'
    BY <1>a DEF Watched, Door, Queued, Noticed, HasEvent
  <1>3. ASSUME NEW c \in Machines PROVE HbRule(c)'
    <2>1. Untouched(c)
      BY <1>a DEF Untouched
    <2> QED  BY <2>1, UntouchedKept
  <1> QED  BY <1>1, <1>2, <1>3

LEMMA HbIndSound == ASSUME HbInd PROVE HeartbeatSound
  <1> USE HbAssumption DEF HbInd
  <1>1. HbTypeOK
    <2>1. \A c \in Machines : units[c] \in 0 .. 3 * MaxSends[c]
      <3>1. TAKE c \in Machines
      <3>2. units[c] \in Nat /\ MaxSends[c] \in Nat /\ units[c] <= 3 * MaxSends[c]
        BY HbParts
      <3> QED  BY <3>2
    <2>2. \A e \in events : e.fd = "listen" \/ conn[e.fd] = "open"
      BY EventParts
    <2> QED  BY <2>1, <2>2 DEF HbShape, Watched, HbTypeOK
  <1>2. ShownAsSent
    <2>1. SUFFICES ASSUME NEW c \in Machines
                   PROVE  /\ over[c] \in {"no", "reset"} => \A n \in 1 .. Len(shown[c]) : ShownTrue(c, n)
                          /\ \A n \in 1 .. Len(shown[c]) - 1 : ShownTrue(c, n)
      BY DEF ShownAsSent
    <2>2. PICK k \in Nat : k = Len(shown[c]) /\ ShownUnits(c) = 3 * k
      BY HbParts
    <2>3. Held(c) \in Nat /\ Len(inbox[c]) \in Nat /\ units[c] \in Nat
      BY HbParts
    <2>4. CASE Exact(c)
      <3>1. 3 * k <= units[c]
        BY <2>2, <2>3, <2>4 DEF Exact
      <3>2. \A n \in 1 .. k : n <= units[c] \div 3
        BY <3>1, <2>2, <2>3
      <3> QED  BY <3>2, <2>2, <2>4 DEF Exact, ShownTrue, PackagesOf
    <2>5. CASE Spent(c)
      <3>1. 3 * k <= units[c] + 3
        BY <2>2, <2>5 DEF Spent
      <3>2. \A n \in 1 .. k - 1 : n <= units[c] \div 3
        BY <3>1, <2>2, <2>3
      <3> QED  BY <3>2, <2>2, <2>5 DEF Spent, ShownTrue, PackagesOf
    <2> QED  BY <2>4, <2>5 DEF HbRule, InLine
  <1>3. NothingForgotten
    <2>1. SUFFICES ASSUME AtRest, ~HasEvents
                   PROVE  /\ crowd \/ Queued = {}
                          /\ \A c \in Machines : conn[c] = "open" /\ ~ahead[c] => inbox[c] = <<>> /\ over[c] = "no"
      BY DEF NothingForgotten
    <2>2. events = {} /\ \A fd \in ready : ~Readable(fd)
      BY <2>1 DEF AtRest, HasEvents
    <2>3. crowd \/ Queued = {}
      BY <2>2 DEF Door, Noticed, HasEvent, Readable
    <2>4. ASSUME NEW c \in Machines, conn[c] = "open", ~ahead[c] PROVE inbox[c] = <<>> /\ over[c] = "no"
      <3>1. c \in ready => inbox[c] = <<>> /\ over[c] = "no"
        BY <2>2 DEF Readable
      <3>2. over[c] \in {"no", "fin", "reset", "told"}
        BY DEF HbShape
      <3> QED  BY <2>2, <2>4, <3>1, <3>2 DEF HbRule, Seen, Noticed, HasEvent
    <2> QED  BY <2>3, <2>4
  <1> QED  BY <1>1, <1>2, <1>3 DEF HeartbeatSound

\* Whatever the machines send, how they end and in what order epoll reports it: the
\* server shows for a connection what its machine sent, in order and once, up to one
\* last text when it was cut off, and while it waits it has forgotten nothing that did
\* not come upon the edge of something else.
THEOREM HeartbeatHolds == HbSpec => []HeartbeatSound
  <1>1. HbInit => HbInd
    BY HbStart
  <1>2. HbInd /\ [HbNext]_hbVars => HbInd'
    <2> SUFFICES ASSUME HbInd, [HbNext]_hbVars PROVE HbInd'
      OBVIOUS
    <2>1. ASSUME NEW c \in Machines, ConnTCPSocket(c) PROVE HbInd'
      BY <2>1, ConnectKeeps
    <2>2. ASSUME NEW c \in Machines, PkgSendUnit(c) PROVE HbInd'
      BY <2>2, SendKeeps
    <2>3. ASSUME NEW c \in Machines, ClientEnds(c) PROVE HbInd'
      BY <2>3, EndKeeps
    <2>4. ASSUME NEW c \in Machines, ClientReset(c) PROVE HbInd'
      BY <2>4, ResetKeeps
    <2>5. CASE epoll_wait
      BY <2>5, WaitKeeps
    <2>6. CASE Accept
      BY <2>6, AcceptKeeps
    <2>7. CASE ErrorEvent
      BY <2>7, ErrorEventKeeps
    <2>8. CASE ReadEvent
      BY <2>8, ReadEventKeeps
    <2>9. CASE ReadUnit
      BY <2>9, ReadUnitKeeps
    <2>10. CASE PackageRead
      BY <2>10, PackageReadKeeps
    <2>11. CASE EndRead
      BY <2>11, EndReadKeeps
    <2>12. CASE ErrorRead
      BY <2>12, ErrorReadKeeps
    <2>13. CASE UNCHANGED hbVars
      BY <2>13, HbStutter
    <2> QED  BY <2>1, <2>2, <2>3, <2>4, <2>5, <2>6, <2>7, <2>8, <2>9, <2>10, <2>11, <2>12, <2>13 DEF HbNext
  <1>3. HbInd => HeartbeatSound
    BY HbIndSound
  <1> QED  BY <1>1, <1>2, <1>3, PTL DEF HbSpec

=============================================================================
