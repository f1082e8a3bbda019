------------------------------ MODULE OsFsProofs -------------------------------
(*****************************************************************************)
(* The mappings of OsMemory, for any number of threads and objects and any   *)
(* address space; the descriptors of FsDevice, for any names, file systems,  *)
(* paths, lengths and number of open files; and the paths of FsPath, for any *)
(* path.                                                                     *)
(*****************************************************************************)
EXTENDS OsMemory, FsDevice, FsPath, WellFoundedInduction, FiniteSetTheorems, TLAPS

(* The loop of _inner_ProcessPath: the characters read so far are split.     *)
PathType ==
  /\ arg \in Seq(Chars) /\ read \in 0..Len(arg) /\ imount \in Int
  /\ mount \in Seq(Chars) /\ processed \in Seq(Chars)

(* What is no name and no colon, with every run of slashes as one: what is   *)
(* behind the colon, and the slash that is left of those before the name.    *)
KeptSoFar(p, n, f, e) == {k \in 1..n : k \notin f..e /\ ~(p[k] = "/" /\ SlashAt(p, k + 1))}

(* The variables after n characters of p. *)
SplitSoFar(p, n, c, m, r, f, e) ==
  /\ Splits(p, n, f, e) /\ m = SubSeq(p, f, e - 1)
  /\ Selects(r, p, KeptSoFar(p, n, f, e))
  /\ c = IF e <= n THEN -1 ELSE e - f

ReadIsSplit ==
  \E f, e \in 1..(read + 1) : SplitSoFar(arg, read, imount, mount, processed, f, e)

PathIInv == PathType /\ PathIsSplit /\ (where = "loop" => ReadIsSplit)

LEMMA WithSlash ==
  /\ <<"/">> \in Seq(Chars)
  /\ \A r \in Seq(Chars) : Append(r, "/") \in Seq(Chars)
  BY ArgsAssumption

(* Another position, behind the others, adds its character at the end. *)
LEMMA SelectsNext ==
  ASSUME NEW p \in Seq(Chars), NEW n \in Nat, n < Len(p), NEW K \in SUBSET (1..n),
         NEW r \in Seq(Chars), Selects(r, p, K)
  PROVE  Selects(Append(r, p[n + 1]), p, K \cup {n + 1})
<1> DEFINE L == K \cup {n + 1}
           Upto(J, k) == {l \in J : l <= k}
<1>1. IsFiniteSet(K) /\ Cardinality(K) \in Nat
  <2>1. IsFiniteSet(1..n)
    BY FS_Interval
  <2> QED
    BY <2>1, FS_Subset, FS_CardinalityType
<1>2. Cardinality(L) = Cardinality(K) + 1
  <2>1. n + 1 \notin K
    OBVIOUS
  <2> QED
    BY <1>1, <2>1, FS_AddElement
<1>3. Len(r) = Cardinality(K) /\ \A k \in K : r[Cardinality(Upto(K, k))] = p[k]
  BY DEF Selects
<1>4. ASSUME NEW k \in K
      PROVE  Upto(L, k) = Upto(K, k) /\ Cardinality(Upto(K, k)) \in 1..Len(r)
  <2>1. Upto(L, k) = Upto(K, k)
    OBVIOUS
  <2>2. Upto(K, k) \subseteq K /\ Upto(K, k) # {}
    OBVIOUS
  <2>3. /\ IsFiniteSet(Upto(K, k)) /\ Cardinality(Upto(K, k)) \in Nat
        /\ Cardinality(Upto(K, k)) <= Cardinality(K) /\ Cardinality(Upto(K, k)) # 0
    <3> HIDE DEF Upto
    <3> QED
      BY <1>1, <2>2, FS_Subset, FS_CardinalityType, FS_EmptySet
  <2> HIDE DEF Upto
  <2> QED
    BY <1>1, <1>3, <2>1, <2>3
<1>5. Upto(L, n + 1) = L
  <2>1. \A l \in L : l <= n + 1
    OBVIOUS
  <2> HIDE DEF L
  <2> QED
    BY <2>1
<1> DEFINE s == Append(r, p[n + 1])
<1>6. p[n + 1] \in Chars
  OBVIOUS
<1>7. Len(s) = Len(r) + 1 /\ s[Len(r) + 1] = p[n + 1] /\ \A k \in 1..Len(r) : s[k] = r[k]
  BY <1>6
<1> HIDE DEF s, Upto, L
<1>8. \A k \in K : s[Cardinality(Upto(L, k))] = p[k]
  BY <1>3, <1>4, <1>7
<1>9. s[Cardinality(Upto(L, n + 1))] = p[n + 1]
  BY <1>2, <1>3, <1>5, <1>7
<1>10. Len(s) = Cardinality(L)
  BY <1>2, <1>3, <1>7
<1>11. L = K \cup {n + 1}
  BY DEF L
<1>12. Selects(s, p, L)
  BY <1>8, <1>9, <1>10, <1>11 DEF Selects, Upto
<1> QED
  BY <1>12 DEF s, L

(* The slash, the colon or the letter behind the first n characters. *)
LEMMA SplitsNext ==
  ASSUME NEW p \in Seq(Chars), NEW n \in Nat, n < Len(p),
         NEW f \in 1..(n + 1), NEW e \in 1..(n + 1), Splits(p, n, f, e)
  PROVE  /\ e <= n /\ p[n + 1] # ":" => Splits(p, n + 1, f, e)
         /\ f = n + 1 /\ p[n + 1] = "/" => Splits(p, n + 1, n + 2, n + 2)
         /\ e = n + 1 /\ p[n + 1] \notin {"/", ":"} => Splits(p, n + 1, f, n + 2)
         /\ f <= n /\ e = n + 1 /\ p[n + 1] = ":" => Splits(p, n + 1, f, n + 1)
<1>1. ASSUME e <= n, p[n + 1] # ":"
      PROVE  Splits(p, n + 1, f, e)
  <2>1. p[e] = ":" /\ f < e /\ \A k \in (e + 1)..(n + 1) : p[k] # ":"
    BY <1>1 DEF Splits
  <2> QED
    BY <1>1, <2>1 DEF Splits
<1>2. f = n + 1 /\ p[n + 1] = "/" => Splits(p, n + 1, n + 2, n + 2)
  BY DEF Splits
<1>3. e = n + 1 /\ p[n + 1] \notin {"/", ":"} => Splits(p, n + 1, f, n + 2)
  BY DEF Splits
<1>4. f <= n /\ e = n + 1 /\ p[n + 1] = ":" => Splits(p, n + 1, f, n + 1)
  BY DEF Splits
<1> QED
  BY <1>1, <1>2, <1>3, <1>4

(* A slash in the name, a colon without a name and a second colon: the whole *)
(* path has no split.                                                        *)
LEMMA OutOfPlace ==
  ASSUME NEW p \in Seq(Chars), NEW n \in Nat, n < Len(p),
         NEW f \in 1..(n + 1), NEW e \in 1..(n + 1), Splits(p, n, f, e),
         \/ p[n + 1] = "/" /\ e = n + 1 /\ f < e
         \/ p[n + 1] = ":" /\ e <= n
         \/ p[n + 1] = ":" /\ f = n + 1,
         NEW g \in 1..(Len(p) + 1), NEW h \in 1..(Len(p) + 1), Splits(p, Len(p), g, h)
  PROVE  FALSE
<1>1. f = g
  <2>1. g <= f
    <3>1. p[f] # "/"
      BY DEF Splits
    <3> QED
      BY <3>1 DEF Splits
  <2>2. ~(g < f)
    <3>1. g < f => p[g] = "/"
      BY DEF Splits
    <3>2. g < f => g = h
      BY <3>1 DEF Splits
    <3> QED
      BY <3>2 DEF Splits
  <2> QED
    BY <2>1, <2>2
<1>2. CASE f = n + 1
  BY <1>1, <1>2 DEF Splits
<1>3. CASE p[n + 1] = "/" /\ e = n + 1 /\ f < e
  <2>1. h <= n + 1
    BY <1>1, <1>3 DEF Splits
  <2>2. h <= Len(p) /\ p[h] = ":" /\ f < h
    BY <1>1, <2>1 DEF Splits
  <2> QED
    BY <1>3, <2>1, <2>2 DEF Splits
<1>4. CASE p[n + 1] = ":" /\ e <= n
  <2>1. p[e] = ":" /\ f < e
    BY <1>4 DEF Splits
  <2>2. h <= e
    BY <1>1, <2>1 DEF Splits
  <2>3. p[h] = ":" /\ f < h
    BY <1>1, <1>4, <2>2 DEF Splits
  <2>4. h = e
    BY <2>2, <2>3 DEF Splits
  <2> QED
    BY <1>4, <2>4 DEF Splits
<1> QED
  BY <1>2, <1>3, <1>4

(* The name grows with the letter behind it. *)
LEMMA NameNext ==
  ASSUME NEW p \in Seq(Chars), NEW n \in Nat, n < Len(p), NEW f \in 1..(n + 1)
  PROVE  /\ SubSeq(p, f, n + 1) = Append(SubSeq(p, f, n), p[n + 1])
         /\ SubSeq(p, n + 2, n + 1) = <<>> /\ SubSeq(p, n + 1, n) = <<>>
         /\ SubSeq(p, f, n) \in Seq(Chars) /\ Len(SubSeq(p, f, n)) = n + 1 - f
<1>1. SubSeq(p, n + 2, n + 1) = <<>> /\ SubSeq(p, n + 1, n) = <<>>
  OBVIOUS
<1>2. SubSeq(p, f, n) \in Seq(Chars) /\ Len(SubSeq(p, f, n)) = n + 1 - f
  OBVIOUS
<1>3. SubSeq(p, f, n + 1) = Append(SubSeq(p, f, n), p[n + 1])
  OBVIOUS
<1> QED
  BY <1>1, <1>2, <1>3

(* What the loop does with the next character keeps a split of what was read. *)
LEMMA SplitSlash ==
  ASSUME NEW p \in Seq(Chars), NEW n \in Nat, n < Len(p), p[n + 1] = "/",
         NEW c, NEW m, NEW r \in Seq(Chars),
         NEW f \in 1..(n + 1), NEW e \in 1..(n + 1), SplitSoFar(p, n, c, m, r, f, e),
         c <= 0
  PROVE  \E g, h \in 1..(n + 2) :
           SplitSoFar(p, n + 1, c, m, IF SlashAt(p, n + 2) THEN r ELSE Append(r, "/"), g, h)
<1> DEFINE K == KeptSoFar(p, n, f, e)
           N == IF SlashAt(p, n + 2) THEN K ELSE K \cup {n + 1}
           s == IF SlashAt(p, n + 2) THEN r ELSE Append(r, "/")
<1>1. Splits(p, n, f, e) /\ m = SubSeq(p, f, e - 1) /\ Selects(r, p, K)
  BY DEF SplitSoFar
<1>2. K \in SUBSET (1..n)
  BY DEF KeptSoFar
<1>3. Selects(s, p, N)
  <2> HIDE DEF K
  <2>1. CASE SlashAt(p, n + 2)
    BY <1>1, <2>1
  <2>2. CASE ~SlashAt(p, n + 2)
    BY <1>1, <1>2, <2>2, SelectsNext
  <2> QED
    BY <2>1, <2>2
<1>4. CASE e <= n
  <2>1. KeptSoFar(p, n + 1, f, e) = N
    <3>1. /\ \A k \in 1..n : k \in KeptSoFar(p, n + 1, f, e) <=> k \in K
          /\ n + 1 \in KeptSoFar(p, n + 1, f, e) <=> ~SlashAt(p, n + 2)
      BY <1>4 DEF KeptSoFar
    <3>2. KeptSoFar(p, n + 1, f, e) \subseteq 1..(n + 1)
      BY DEF KeptSoFar
    <3> DEFINE M == KeptSoFar(p, n + 1, f, e)
    <3> HIDE DEF K, M
    <3>3. M \subseteq 1..(n + 1) /\ (\A k \in 1..n : k \in M <=> k \in K)
          /\ (n + 1 \in M <=> ~SlashAt(p, n + 2))
      BY <3>1, <3>2, Zenon DEF M
    <3>4. /\ \A k : k \in 1..(n + 1) <=> (k \in 1..n \/ k = n + 1)
          /\ ~(n + 1 \in 1..n)
      OBVIOUS
    <3>5. CASE SlashAt(p, n + 2)
      <4>1. \A k : k \in M <=> k \in K
        BY <1>2, <3>4, <3>3, <3>5, Zenon
      <4> QED
        BY <3>5, <4>1, Zenon DEF M
    <3>6. CASE ~SlashAt(p, n + 2)
      <4>1. \A k : k \in M <=> k \in K \cup {n + 1}
        BY <1>2, <3>4, <3>3, <3>6, Zenon
      <4> QED
        BY <3>6, <4>1, Zenon DEF M
    <3> QED
      BY <3>5, <3>6
  <2>2. Splits(p, n + 1, f, e)
    BY <1>1, <1>4, SplitsNext
  <2>3. c = -1 /\ e <= n + 1
    BY <1>4 DEF SplitSoFar
  <2> HIDE DEF K, N, s
  <2>4. SplitSoFar(p, n + 1, c, m, s, f, e)
    BY <1>1, <1>3, <2>1, <2>2, <2>3, Zenon DEF SplitSoFar
  <2>5. f \in 1..(n + 2) /\ e \in 1..(n + 2)
    OBVIOUS
  <2> QED
    BY <2>4, <2>5, Zenon DEF s
<1>5. CASE e = n + 1
  <2>1. f = n + 1 /\ c = 0
    BY <1>5 DEF SplitSoFar
  <2>2. KeptSoFar(p, n + 1, n + 2, n + 2) = N
    <3>1. K = KeptSoFar(p, n, n + 1, n + 1)
      BY <1>5, <2>1
    <3>2. CASE SlashAt(p, n + 2)
      BY <3>1, <3>2 DEF KeptSoFar
    <3>3. CASE ~SlashAt(p, n + 2)
      BY <3>1, <3>3 DEF KeptSoFar
    <3> QED
      BY <3>2, <3>3
  <2>3. Splits(p, n + 1, n + 2, n + 2)
    BY <1>1, <2>1, SplitsNext
  <2>4. m = SubSeq(p, n + 2, (n + 2) - 1)
    <3>1. (n + 2) - 1 = n + 1 /\ e - 1 = n
      BY <1>5
    <3> QED
      BY <1>1, <2>1, <3>1, NameNext
  <2>5. ~(n + 2 <= n + 1) /\ c = (n + 2) - (n + 2) /\ n + 2 \in 1..(n + 2)
    BY <2>1
  <2> HIDE DEF K, N, s
  <2>6. SplitSoFar(p, n + 1, c, m, s, n + 2, n + 2)
    BY <1>3, <2>2, <2>3, <2>4, <2>5, Zenon DEF SplitSoFar
  <2> QED
    BY <2>5, <2>6, Zenon DEF s
<1> QED
  BY <1>4, <1>5

LEMMA SplitColon ==
  ASSUME NEW p \in Seq(Chars), NEW n \in Nat, n < Len(p), p[n + 1] = ":",
         NEW c, NEW m, NEW r \in Seq(Chars),
         NEW f \in 1..(n + 1), NEW e \in 1..(n + 1), SplitSoFar(p, n, c, m, r, f, e),
         c > 0
  PROVE  SplitSoFar(p, n + 1, -1, m, r, f, n + 1)
<1>1. Splits(p, n, f, e) /\ m = SubSeq(p, f, e - 1) /\ Selects(r, p, KeptSoFar(p, n, f, e))
  BY DEF SplitSoFar
<1>2. e = n + 1 /\ f <= n
  BY DEF SplitSoFar
<1>3. Splits(p, n + 1, f, n + 1)
  BY <1>1, <1>2, SplitsNext
<1>4. KeptSoFar(p, n + 1, f, n + 1) = KeptSoFar(p, n, f, e)
  BY <1>2 DEF KeptSoFar
<1> QED
  BY <1>1, <1>2, <1>3, <1>4 DEF SplitSoFar

LEMMA SplitLetter ==
  ASSUME NEW p \in Seq(Chars), NEW n \in Nat, n < Len(p), p[n + 1] \notin {"/", ":"},
         NEW c, NEW m, NEW r \in Seq(Chars),
         NEW f \in 1..(n + 1), NEW e \in 1..(n + 1), SplitSoFar(p, n, c, m, r, f, e)
  PROVE  IF c = -1 THEN SplitSoFar(p, n + 1, c, m, Append(r, p[n + 1]), f, e)
         ELSE SplitSoFar(p, n + 1, c + 1, Append(m, p[n + 1]), r, f, n + 2)
<1> DEFINE K == KeptSoFar(p, n, f, e)
<1>1. Splits(p, n, f, e) /\ m = SubSeq(p, f, e - 1) /\ Selects(r, p, K)
  BY DEF SplitSoFar
<1>2. K \in SUBSET (1..n)
  BY DEF KeptSoFar
<1>3. CASE e <= n
  <2>1. KeptSoFar(p, n + 1, f, e) = K \cup {n + 1}
    BY <1>3 DEF KeptSoFar
  <2>2. Splits(p, n + 1, f, e)
    BY <1>1, <1>3, SplitsNext
  <2>3. c = -1 /\ e <= n + 1
    BY <1>3 DEF SplitSoFar
  <2> HIDE DEF K
  <2>4. Selects(Append(r, p[n + 1]), p, K \cup {n + 1})
    BY <1>1, <1>2, SelectsNext
  <2> QED
    BY <1>1, <2>1, <2>2, <2>3, <2>4, Zenon DEF SplitSoFar
<1>4. CASE e = n + 1
  <2>1. c = e - f
    BY <1>4 DEF SplitSoFar
  <2>2. KeptSoFar(p, n + 1, f, n + 2) = K
    BY <1>4 DEF KeptSoFar
  <2>3. Splits(p, n + 1, f, n + 2)
    BY <1>1, <1>4, SplitsNext
  <2>4. Append(m, p[n + 1]) = SubSeq(p, f, n + 1)
    BY <1>1, <1>4, NameNext
  <2> HIDE DEF K
  <2>5. c + 1 = (n + 2) - f /\ c # -1 /\ (n + 2) - 1 = n + 1
    BY <1>4, <2>1
  <2> QED
    BY <1>1, <2>2, <2>3, <2>4, <2>5 DEF SplitSoFar
<1> QED
  BY <1>3, <1>4

LEMMA PathInitIInv == PathInit => PathIInv
<1> SUFFICES ASSUME PathInit PROVE PathIInv
  OBVIOUS
<1>1. PathType
  BY ArgsAssumption DEF PathInit, PathType
<1>2. PathIsSplit
  BY DEF PathInit, PathIsSplit
<1>3. SplitSoFar(arg, 0, 0, <<>>, <<>>, 1, 1)
  <2>1. KeptSoFar(arg, 0, 1, 1) = {}
    BY DEF KeptSoFar
  <2>2. Selects(<<>>, arg, {})
    BY FS_EmptySet DEF Selects
  <2>3. Splits(arg, 0, 1, 1)
    BY DEF Splits
  <2>4. <<>> = SubSeq(arg, 1, 0)
    BY <1>1 DEF PathType
  <2>5. ~(1 <= 0) /\ 1 - 1 = 0
    OBVIOUS
  <2> QED
    BY <2>1, <2>2, <2>3, <2>4, <2>5, Zenon DEF SplitSoFar
<1>4. ReadIsSplit
  BY <1>3 DEF PathInit, ReadIsSplit
<1> QED
  BY <1>1, <1>2, <1>4 DEF PathIInv

(* Every step of the loop keeps the invariant. *)
LEMMA SlashKeeps ==
  ASSUME PathIInv, Slash
  PROVE  PathIInv'
<1>1. PICK f \in 1..(read + 1), e \in 1..(read + 1) :
        SplitSoFar(arg, read, imount, mount, processed, f, e)
  BY DEF PathIInv, Slash, ReadIsSplit
<1>2. /\ read < Len(arg) /\ arg[read + 1] = "/"
      /\ read \in Nat /\ arg \in Seq(Chars) /\ processed \in Seq(Chars)
  BY DEF PathIInv, PathType, Slash, Character
<1>3. CASE imount > 0 /\ Refuse
  <2>1. e = read + 1 /\ f < e /\ Splits(arg, read, f, e)
    BY <1>1, <1>2, <1>3 DEF SplitSoFar
  <2>2. ~\E g, h \in 1..(Len(arg) + 1) : Splits(arg, Len(arg), g, h)
    BY <1>2, <2>1, OutOfPlace
  <2>3. PathType'
    BY <1>3 DEF PathIInv, PathType, Refuse
  <2> QED
    BY <1>3, <2>2, <2>3 DEF PathIInv, PathIsSplit, Refuse
<1>4. CASE /\ imount <= 0 /\ read' = read + 1
           /\ processed' = IF SlashAt(arg, read + 2) THEN processed ELSE Append(processed, "/")
           /\ UNCHANGED <<arg, imount, mount, where>>
  <2>1. where' = "loop"
    BY <1>4 DEF Slash
  <2>2. PathType'
    <3>1. processed' \in Seq(Chars)
      BY <1>2, <1>4, WithSlash
    <3> QED
      BY <1>2, <1>4, <3>1 DEF PathIInv, PathType
  <2>3. PathIsSplit'
    BY <2>1 DEF PathIsSplit
  <2>4. \E g, h \in 1..(read + 2) :
          SplitSoFar(arg, read + 1, imount, mount,
                     IF SlashAt(arg, read + 2) THEN processed ELSE Append(processed, "/"), g, h)
    BY <1>1, <1>2, <1>4, SplitSlash
  <2>5. read + 2 = (read + 1) + 1
    BY <1>2
  <2>6. ReadIsSplit'
    BY <1>4, <2>4, <2>5, Zenon DEF ReadIsSplit
  <2> QED
    BY <2>2, <2>3, <2>6 DEF PathIInv
<1> QED
  BY <1>3, <1>4 DEF Slash

LEMMA ColonKeeps ==
  ASSUME PathIInv, Colon
  PROVE  PathIInv'
<1>1. PICK f \in 1..(read + 1), e \in 1..(read + 1) :
        SplitSoFar(arg, read, imount, mount, processed, f, e)
  BY DEF PathIInv, Colon, ReadIsSplit
<1>2. /\ read < Len(arg) /\ arg[read + 1] = ":"
      /\ read \in Nat /\ arg \in Seq(Chars) /\ processed \in Seq(Chars)
  BY DEF PathIInv, PathType, Colon, Character
<1>3. CASE imount <= 0 /\ Refuse
  <2>1. (e <= read \/ f = read + 1) /\ Splits(arg, read, f, e)
    <3>1. Splits(arg, read, f, e) /\ imount = IF e <= read THEN -1 ELSE e - f
      BY <1>1 DEF SplitSoFar
    <3>2. e <= read + 1 /\ f <= e
      BY <3>1 DEF Splits
    <3> QED
      BY <1>2, <1>3, <3>1, <3>2
  <2>2. ~\E g, h \in 1..(Len(arg) + 1) : Splits(arg, Len(arg), g, h)
    BY <1>2, <2>1, OutOfPlace
  <2>3. PathType'
    BY <1>3 DEF PathIInv, PathType, Refuse
  <2> QED
    BY <1>3, <2>2, <2>3 DEF PathIInv, PathIsSplit, Refuse
<1>4. CASE /\ imount > 0 /\ imount' = -1 /\ read' = read + 1
           /\ UNCHANGED <<arg, mount, processed, where>>
  <2>1. where' = "loop"
    BY <1>4 DEF Colon
  <2>2. PathType'
    BY <1>2, <1>4 DEF PathIInv, PathType
  <2>3. PathIsSplit'
    BY <2>1 DEF PathIsSplit
  <2>4. SplitSoFar(arg, read + 1, -1, mount, processed, f, read + 1)
    BY <1>1, <1>2, <1>4, SplitColon
  <2>5. f \in 1..((read + 1) + 1) /\ read + 1 \in 1..((read + 1) + 1)
    BY <1>2
  <2>6. ReadIsSplit'
    BY <1>4, <2>4, <2>5, Zenon DEF ReadIsSplit
  <2> QED
    BY <2>2, <2>3, <2>6 DEF PathIInv
<1> QED
  BY <1>3, <1>4 DEF Colon

LEMMA LetterKeeps ==
  ASSUME PathIInv, Letter
  PROVE  PathIInv'
<1>1. PICK f \in 1..(read + 1), e \in 1..(read + 1) :
        SplitSoFar(arg, read, imount, mount, processed, f, e)
  BY DEF PathIInv, Letter, ReadIsSplit
<1>2. /\ read < Len(arg) /\ arg[read + 1] \notin {"/", ":"} /\ Character = arg[read + 1]
      /\ read \in Nat /\ arg \in Seq(Chars) /\ arg[read + 1] \in Chars
      /\ mount \in Seq(Chars) /\ processed \in Seq(Chars) /\ imount \in Int
  BY DEF PathIInv, PathType, Letter, Character
<1>3. read' = read + 1 /\ arg' = arg /\ where' = "loop" /\ PathIsSplit'
  BY DEF Letter, PathIsSplit
<1>4. /\ f \in 1..((read + 1) + 1) /\ e \in 1..((read + 1) + 1)
      /\ read + 2 \in 1..((read + 1) + 1)
  BY <1>2
<1>5. IF imount = -1
      THEN SplitSoFar(arg, read + 1, imount, mount, Append(processed, arg[read + 1]), f, e)
      ELSE SplitSoFar(arg, read + 1, imount + 1, Append(mount, arg[read + 1]), processed, f, read + 2)
  BY <1>1, <1>2, SplitLetter
<1>6. PathType' /\ ReadIsSplit'
  <2>1. CASE imount = -1
    <3>1. processed' = Append(processed, arg[read + 1]) /\ UNCHANGED <<mount, imount>>
      BY <1>2, <2>1 DEF Letter
    <3>2. PathType'
      BY <1>2, <1>3, <3>1 DEF PathType
    <3>3. ReadIsSplit'
      BY <1>3, <1>4, <1>5, <2>1, <3>1, Zenon DEF ReadIsSplit
    <3> QED
      BY <3>2, <3>3
  <2>2. CASE imount # -1
    <3>1. mount' = Append(mount, arg[read + 1]) /\ imount' = imount + 1 /\ processed' = processed
      BY <1>2, <2>2 DEF Letter
    <3>2. PathType'
      BY <1>2, <1>3, <3>1 DEF PathType
    <3>3. ReadIsSplit'
      BY <1>3, <1>4, <1>5, <2>2, <3>1, Zenon DEF ReadIsSplit
    <3> QED
      BY <3>2, <3>3
  <2> QED
    BY <2>1, <2>2
<1> QED
  BY <1>3, <1>6 DEF PathIInv

LEMMA ReturnKeeps ==
  ASSUME PathIInv, Return
  PROVE  PathIInv'
<1>1. PICK f \in 1..(read + 1), e \in 1..(read + 1) :
        SplitSoFar(arg, read, imount, mount, processed, f, e)
  BY DEF PathIInv, Return, ReadIsSplit
<1>2. /\ read = Len(arg) /\ arg \in Seq(Chars) /\ processed \in Seq(Chars)
      /\ UNCHANGED <<arg, read, imount, mount>> /\ where' = "valid"
  BY DEF PathIInv, PathType, Return
<1>3. PathType'
  <2>1. processed' \in Seq(Chars)
    BY <1>2, WithSlash DEF Return
  <2> QED
    BY <1>2, <2>1 DEF PathIInv, PathType
<1> DEFINE K == KeptSoFar(arg, read, f, e)
<1>4. processed = <<>> <=> K = {}
  <2>1. Len(processed) = Cardinality(K)
    BY <1>1 DEF SplitSoFar, Selects
  <2>2. IsFiniteSet(1..read) /\ K \in SUBSET (1..read)
    BY <1>2, FS_Interval DEF KeptSoFar
  <2> HIDE DEF K
  <2>3. IsFiniteSet(K)
    BY <2>2, FS_Subset
  <2> QED
    BY <1>2, <2>1, <2>3, FS_EmptySet
<1>5. Splits(arg, read, f, e) /\ mount = SubSeq(arg, f, e - 1) /\ Selects(processed, arg, K)
  BY <1>1 DEF SplitSoFar
<1> HIDE DEF K
<1>6. IF mount # <<>> /\ K = {} THEN processed' = <<"/">> ELSE Selects(processed', arg, K)
  BY <1>4, <1>5 DEF Return
<1>8. f = 1 => K = Kept(arg, read, e)
  BY <1>2, <1>5 DEF K, KeptSoFar, Kept
<1>9. f = 1 /\ mount # <<>> => IF Kept(arg, read, e) = {} THEN processed' = <<"/">>
                               ELSE Selects(processed', arg, Kept(arg, read, e))
  BY <1>6, <1>8, Zenon
<1>7. PathIsSplit'
  BY <1>2, <1>5, <1>9, Zenon DEF PathIsSplit
<1> QED
  BY <1>2, <1>3, <1>7 DEF PathIInv

LEMMA PathNextIInv == PathIInv /\ [PathNext]_pathvars => PathIInv'
<1> SUFFICES ASSUME PathIInv, [PathNext]_pathvars PROVE PathIInv'
  OBVIOUS
<1>1. CASE UNCHANGED pathvars
  <2>1. UNCHANGED <<arg, read, imount, mount, processed, where>>
    BY <1>1 DEF pathvars
  <2> QED
    BY <2>1 DEF PathIInv, PathType, PathIsSplit, ReadIsSplit
<1> QED
  BY <1>1, SlashKeeps, ColonKeeps, LetterKeeps, ReturnKeeps DEF PathNext

(* _inner_ProcessPath refuses exactly the paths that are none of a device,   *)
(* finds the name in every other one, and, where the path begins with the    *)
(* name, what is behind the colon, however long it is and whatever its       *)
(* characters are.                                                           *)
THEOREM FsPathIsSplit == PathSpec => []PathIsSplit
<1>1. PathIInv => PathIsSplit
  BY DEF PathIInv
<1> QED
  BY <1>1, PathInitIInv, PathNextIInv, PTL DEF PathSpec

-------------------------------------------------------------------------------
(* Devices, files and descriptors. *)
USE LowerAssumption, BoundsAssumption, LengthsAssumption, HalfAssumption

Device == [mount : Names, on : FileSystems]
OpenFiles == [file : File, offset : Nat]
Known == [file : [on : FileSystems \cup {None}, path : Paths \cup {None}],
          pos : Int, sure : BOOLEAN, shifted : BOOLEAN]

FsType ==
  /\ devices \in Seq(Device) /\ files \in Seq(OpenFiles)
  /\ size \in [File -> Int]
  /\ mounted \in [{Lower[n] : n \in Names} -> FileSystems \cup {None}]
  /\ DOMAIN held \subseteq Int /\ \A d \in DOMAIN held : held[d] \in Known

(* No two devices have the same name, and each is what its name stands for. *)
DevicesDiffer ==
  \A i, j \in 1..Len(devices) : Lower[devices[i].mount] = Lower[devices[j].mount] => i = j
NamesStand == \A i \in 1..Len(devices) : mounted[Lower[devices[i].mount]] = devices[i].on

FsIInv == FsType /\ DevicesDiffer /\ NamesStand /\ DescriptorNamesItsFile /\ OffsetIsPosition

(* Of some numbers one is the least. *)
LEMMA LeastOf ==
  ASSUME NEW T \in SUBSET Nat, T # {}
  PROVE  \E x \in T : \A y \in T : x <= y
<1> DEFINE R == OpToRel(<, Nat)
<1>1. IsWellFoundedOn(R, Nat)
  BY NatLessThanWellFounded
<1>2. \A x, y \in Nat : <<y, x>> \in R <=> y < x
  BY DEF OpToRel
<1> HIDE DEF R
<1>3. PICK x \in T : \A y \in T : ~(<<y, x>> \in R)
  BY <1>1, WFMin
<1>4. \A y \in T : ~(y < x)
  BY <1>2, <1>3, Zenon
<1> QED
  BY <1>4

(* A list with another k-th member. *)
LEMMA ReplacedIs ==
  ASSUME NEW S, NEW s \in Seq(S), NEW k \in 1..Len(s), NEW g \in S
  PROVE  [s EXCEPT ![k] = g] \in Seq(S)
  OBVIOUS

(* What is left of a list without its k-th member. *)
LEMMA RemoveAtIs ==
  ASSUME NEW S, NEW s \in Seq(S), NEW k \in 1..Len(s)
  PROVE  /\ RemoveAt(s, k) \in Seq(S) /\ Len(RemoveAt(s, k)) = Len(s) - 1
         /\ \A n \in 1..(k - 1) : RemoveAt(s, k)[n] = s[n]
         /\ \A n \in k..(Len(s) - 1) : RemoveAt(s, k)[n] = s[n + 1]
<1> DEFINE a == SubSeq(s, 1, k - 1)
           b == SubSeq(s, k + 1, Len(s))
<1>1. a \in Seq(S) /\ Len(a) = k - 1 /\ \A n \in 1..(k - 1) : a[n] = s[n]
  OBVIOUS
<1>2. b \in Seq(S) /\ Len(b) = Len(s) - k /\ \A n \in 1..(Len(s) - k) : b[n] = s[k + n]
  OBVIOUS
<1>3. RemoveAt(s, k) = a \o b
  BY DEF RemoveAt
<1> HIDE DEF a, b
<1>4. a \o b \in Seq(S) /\ Len(a \o b) = Len(s) - 1
  <2>1. a \o b \in Seq(S)
    BY <1>1, <1>2
  <2>2. \A x, y \in Seq(S) : Len(x \o y) = Len(x) + Len(y)
    OBVIOUS
  <2>3. (k - 1) + (Len(s) - k) = Len(s) - 1
    OBVIOUS
  <2>4. Len(a \o b) = Len(a) + Len(b)
    BY <1>1, <1>2, <2>2
  <2> QED
    BY <1>1, <1>2, <2>1, <2>3, <2>4
<1>5. \A n \in 1..(k - 1) : (a \o b)[n] = a[n]
  BY <1>1, <1>2
<1>6. ASSUME NEW n \in k..(Len(s) - 1) PROVE (a \o b)[n] = s[n + 1]
  <2>1. (a \o b)[n] = b[n - (k - 1)]
    BY <1>1, <1>2
  <2>2. n - (k - 1) \in 1..(Len(s) - k) /\ k + (n - (k - 1)) = n + 1
    OBVIOUS
  <2> QED
    BY <1>2, <2>1, <2>2
<1> QED
  BY <1>1, <1>3, <1>4, <1>5, <1>6

(* SearchDevice finds a device of this name, if there is one. *)
LEMMA SearchFinds ==
  ASSUME FsType, NEW n \in Names
  PROVE  LET I == {i \in 1..Len(devices) : Lower[devices[i].mount] = Lower[n]}
         IN  IF I = {} THEN SearchDevice(n) = 0 ELSE SearchDevice(n) \in I
<1> DEFINE I == {i \in 1..Len(devices) : Lower[devices[i].mount] = Lower[n]}
<1>1. SearchDevice(n) = IF I # {} THEN Min(I) ELSE 0
  BY DEF SearchDevice, SelectInSeq
<1>2. I \in SUBSET Nat
  OBVIOUS
<1> HIDE DEF I
<1>3. ASSUME I # {} PROVE Min(I) \in I
  <2>1. \E x \in I : \A y \in I : x <= y
    BY <1>2, <1>3, LeastOf
  <2> QED
    BY <2>1 DEF Min
<1> QED
  BY <1>1, <1>3 DEF I

-------------------------------------------------------------------------------
(* Mount takes a name that no device has. *)
LEMMA MountKeeps ==
  ASSUME FsIInv, NEW n \in Names, NEW fs \in FileSystems, Mount(n, fs)
  PROVE  FsIInv'
<1> USE DEF FsIInv
<1> DEFINE e == [mount |-> n, on |-> fs]
<1>1. /\ devices' = Append(devices, e) /\ mounted' = [mounted EXCEPT ![Lower[n]] = fs]
      /\ UNCHANGED <<files, size, held>>
  BY DEF Mount
<1>2. devices \in Seq(Device) /\ e \in Device /\ e.mount = n /\ e.on = fs
  BY DEF FsType, Device
<1>3. \A i \in 1..Len(devices) : Lower[devices[i].mount] # Lower[n]
  BY <1>2 DEF Mount
<1> HIDE DEF e
<1>4. /\ devices' \in Seq(Device) /\ Len(devices') = Len(devices) + 1
      /\ \A i \in 1..Len(devices) : devices'[i] = devices[i]
      /\ devices'[Len(devices) + 1] = e
  BY <1>1, <1>2
<1>5. FsType'
  BY <1>1, <1>4 DEF FsType
<1>6. DevicesDiffer'
  <2> SUFFICES ASSUME NEW i \in 1..Len(devices'), NEW j \in 1..Len(devices'),
                      Lower[devices'[i].mount] = Lower[devices'[j].mount]
               PROVE  i = j
    BY DEF DevicesDiffer
  <2>1. \A k \in 1..Len(devices') : k \in 1..Len(devices) \/ k = Len(devices) + 1
    BY <1>2, <1>4
  <2> QED
    BY <1>2, <1>3, <1>4, <2>1 DEF DevicesDiffer
<1>7. NamesStand'
  <2> SUFFICES ASSUME NEW i \in 1..Len(devices')
               PROVE  mounted'[Lower[devices'[i].mount]] = devices'[i].on
    BY DEF NamesStand
  <2>1. i \in 1..Len(devices) \/ i = Len(devices) + 1
    BY <1>2, <1>4
  <2>2. CASE i \in 1..Len(devices)
    <3>1. devices[i] \in Device
      BY <1>2, <2>2
    <3> QED
      BY <1>1, <1>3, <1>4, <2>2, <3>1 DEF NamesStand, FsType, Device
  <2>3. CASE i = Len(devices) + 1
    BY <1>1, <1>2, <1>4, <2>3 DEF FsType
  <2> QED
    BY <2>1, <2>2, <2>3
<1>8. DescriptorNamesItsFile' /\ OffsetIsPosition'
  BY <1>1 DEF DescriptorNamesItsFile, OffsetIsPosition, IsFile, At, Index
<1> QED
  BY <1>5, <1>6, <1>7, <1>8

(* Unmount removes the one device of this name. *)
LEMMA UnmountKeeps ==
  ASSUME FsIInv, NEW n \in Names, Unmount(n)
  PROVE  FsIInv'
<1> USE DEF FsIInv
<1> DEFINE I == {i \in 1..Len(devices) : Lower[devices[i].mount] = Lower[n]}
           k == SearchDevice(n)
<1>1. mounted' = [mounted EXCEPT ![Lower[n]] = None] /\ UNCHANGED <<files, size, held>>
  BY DEF Unmount
<1>2. devices' = IF I = {} THEN devices ELSE RemoveAt(devices, k)
  BY DEF Unmount, RemoveFirstMatch, SearchDevice
<1>3. devices \in Seq(Device)
  BY DEF FsType
<1>4. I # {} => k \in I
  BY SearchFinds
<1>5. /\ devices' \in Seq(Device)
      /\ \A i \in 1..Len(devices') : \E j \in 1..Len(devices) \ I :
           devices'[i] = devices[j] /\ j = IF I = {} \/ i < k THEN i ELSE i + 1
  <2>1. CASE I = {}
    BY <1>2, <1>3, <2>1
  <2>2. CASE I # {}
    <3>1. k \in 1..Len(devices) /\ Lower[devices[k].mount] = Lower[n] /\ devices' = RemoveAt(devices, k)
      BY <1>2, <1>4, <2>2
    <3>2. \A j \in 1..Len(devices) : j # k => j \notin I
      BY <3>1 DEF DevicesDiffer
    <3> HIDE DEF I, k
    <3>3. /\ devices' \in Seq(Device) /\ Len(devices') = Len(devices) - 1
          /\ \A i \in 1..(k - 1) : devices'[i] = devices[i]
          /\ \A i \in k..(Len(devices) - 1) : devices'[i] = devices[i + 1]
      BY <1>3, <3>1, RemoveAtIs
    <3>4. ASSUME NEW i \in 1..Len(devices')
          PROVE  \E j \in 1..Len(devices) \ I : devices'[i] = devices[j] /\ j = IF i < k THEN i ELSE i + 1
      <4>1. CASE i < k
        <5>1. i \in 1..(k - 1) /\ i \in 1..Len(devices) /\ i # k
          BY <3>1, <4>1, <3>3
        <5> QED
          BY <3>2, <3>3, <4>1, <5>1
      <4>2. CASE ~(i < k)
        <5>1. i \in k..(Len(devices) - 1) /\ i + 1 \in 1..Len(devices) /\ i + 1 # k
          BY <1>3, <3>1, <4>2, <3>3
        <5> QED
          BY <3>2, <3>3, <4>2, <5>1
      <4> QED
        BY <4>1, <4>2
    <3> QED
      BY <2>2, <3>3, <3>4
  <2> QED
    BY <2>1, <2>2
<1>6. FsType'
  BY <1>1, <1>5 DEF FsType
<1>7. DevicesDiffer'
  <2> SUFFICES ASSUME NEW i \in 1..Len(devices'), NEW j \in 1..Len(devices'),
                      Lower[devices'[i].mount] = Lower[devices'[j].mount]
               PROVE  i = j
    BY DEF DevicesDiffer
  <2> HIDE DEF I, k
  <2>1. PICK p \in 1..Len(devices) \ I : devices'[i] = devices[p] /\ p = IF I = {} \/ i < k THEN i ELSE i + 1
    BY <1>5
  <2>2. PICK q \in 1..Len(devices) \ I : devices'[j] = devices[q] /\ q = IF I = {} \/ j < k THEN j ELSE j + 1
    BY <1>5
  <2>3. p = q
    BY <2>1, <2>2 DEF DevicesDiffer
  <2>4. I = {} \/ k \in Nat
    BY <1>4 DEF I
  <2> QED
    BY <2>1, <2>2, <2>3, <2>4
<1>8. NamesStand'
  <2> SUFFICES ASSUME NEW i \in 1..Len(devices')
               PROVE  mounted'[Lower[devices'[i].mount]] = devices'[i].on
    BY DEF NamesStand
  <2>1. PICK j \in 1..Len(devices) \ I : devices'[i] = devices[j]
    BY <1>5
  <2>2. devices[j] \in Device /\ Lower[devices[j].mount] # Lower[n]
    BY <1>3
  <2> QED
    BY <1>1, <2>1, <2>2 DEF NamesStand, FsType, Device
<1>9. DescriptorNamesItsFile' /\ OffsetIsPosition'
  BY <1>1 DEF DescriptorNamesItsFile, OffsetIsPosition, IsFile, At, Index
<1> QED
  BY <1>6, <1>7, <1>8, <1>9

(* UnmountAll leaves no device, and the files as they were. *)
LEMMA UnmountAllKeeps ==
  ASSUME FsIInv, UnmountAll
  PROVE  FsIInv'
<1> USE DEF FsIInv
<1>1. devices' = <<>> /\ mounted' = [w \in DOMAIN mounted |-> None] /\ UNCHANGED <<files, size, held>>
  BY DEF UnmountAll
<1>2. FsType'
  <2>1. devices' \in Seq(Device)
    BY <1>1
  <2> QED
    BY <1>1, <2>1 DEF FsType
<1>3. DevicesDiffer' /\ NamesStand'
  BY <1>1 DEF DevicesDiffer, NamesStand
<1>4. DescriptorNamesItsFile' /\ OffsetIsPosition'
  BY <1>1 DEF DescriptorNamesItsFile, OffsetIsPosition, IsFile, At, Index
<1> QED
  BY <1>2, <1>3, <1>4

-------------------------------------------------------------------------------
(* The numbers of descriptors and the places in the list go together. *)
LEMMA IndexDiffers ==
  ASSUME NEW d \in Int
  PROVE  /\ Index(d) \in Int /\ Index(d) = d - 199
         /\ \A e \in Int : (Index(e) = Index(d) => e = d) /\ (e < d => Index(e) < Index(d))
  BY DEF Index

(* _open_r: the new file is behind all others, on what its name stands for. *)
LEMMA OpenKeeps ==
  ASSUME FsIInv, NEW n \in Names, NEW p \in Paths, NEW creat \in BOOLEAN, NEW trunc \in BOOLEAN,
         Open(n, p, creat, trunc)
  PROVE  FsIInv'
<1> USE DEF FsIInv
<1> DEFINE i == SearchDevice(n)
           f == [on |-> devices[i].on, path |-> p]
           e == [file |-> f, offset |-> 0]
           x == Number(files')
           new == [file |-> [on |-> mounted[Lower[n]], path |-> p],
                   pos |-> 0, sure |-> TRUE, shifted |-> FALSE]
<1>1. /\ i # 0 /\ files' = Append(files, e) /\ size' = [size EXCEPT ![f] = OpenFile(f, creat, trunc)]
      /\ held' = [d \in DOMAIN held \cup {x} |-> IF d # x THEN held[d] ELSE new]
      /\ UNCHANGED <<devices, mounted>>
  BY DEF Open
<1>2. i \in 1..Len(devices) /\ Lower[devices[i].mount] = Lower[n]
  BY <1>1, SearchFinds
<1>3. devices[i] \in Device /\ mounted[Lower[n]] = devices[i].on
  BY <1>2 DEF NamesStand, FsType
<1>4. f \in File /\ e \in OpenFiles /\ new.file = f
  BY <1>3 DEF File, Device, OpenFiles
<1>5. OpenFile(f, creat, trunc) \in Int
  BY <1>4 DEF OpenFile, FsType
<1>6. new \in Known /\ new.pos = 0 /\ new.sure /\ ~new.shifted
  BY <1>3 DEF Known, Device
<1>7. e.file = f /\ e.offset = 0
  OBVIOUS
<1> HIDE DEF i, f, e, new
<1>8. /\ files' \in Seq(OpenFiles) /\ Len(files') = Len(files) + 1 /\ Len(files) \in Nat
      /\ \A k \in 1..Len(files) : files'[k] = files[k]
      /\ files'[Len(files) + 1] = e
  BY <1>1, <1>4 DEF FsType
<1>9. x \in Int /\ Index(x) = Len(files) + 1
  BY <1>8 DEF Index, Number
<1> HIDE DEF x
<1>10. FsType'
  <2>1. DOMAIN held' \subseteq Int /\ \A d \in DOMAIN held' : held'[d] \in Known
    BY <1>1, <1>6, <1>9 DEF FsType
  <2>2. size' \in [File -> Int]
    BY <1>1, <1>4, <1>5 DEF FsType
  <2> QED
    BY <1>1, <1>8, <2>1, <2>2 DEF FsType
<1>11. DevicesDiffer' /\ NamesStand'
  BY <1>1 DEF DevicesDiffer, NamesStand
<1>12. DescriptorNamesItsFile' /\ OffsetIsPosition'
  <2> SUFFICES ASSUME NEW d \in DOMAIN held', ~held'[d].shifted
               PROVE  /\ Index(d) \in DOMAIN files' /\ files'[Index(d)].file = held'[d].file
                      /\ held'[d].sure => files'[Index(d)].offset = held'[d].pos
    BY DEF DescriptorNamesItsFile, OffsetIsPosition, IsFile, At
  <2>1. DOMAIN files' = 1..(Len(files) + 1) /\ DOMAIN files = 1..Len(files)
    BY <1>8 DEF FsType
  <2>2. CASE d = x
    BY <1>1, <1>4, <1>6, <1>7, <1>8, <1>9, <2>1, <2>2
  <2>3. CASE d # x
    <3>1. d \in DOMAIN held /\ held'[d] = held[d]
      BY <1>1, <2>3
    <3>2. /\ Index(d) \in 1..Len(files) /\ files[Index(d)].file = held[d].file
          /\ held[d].sure => files[Index(d)].offset = held[d].pos
      BY <2>1, <3>1 DEF DescriptorNamesItsFile, OffsetIsPosition, IsFile, At
    <3> QED
      BY <1>8, <2>1, <3>1, <3>2
  <2> QED
    BY <2>2, <2>3
<1> QED
  BY <1>10, <1>11, <1>12

(* The offset of a descriptor becomes o. *)
MovedTo(d, o) == files' = [files EXCEPT ![Index(d)].offset = o]

(* A descriptor is moved to o, and the program knows it there. *)
LEMMA MovingKeeps ==
  ASSUME FsIInv, NEW d \in DOMAIN held, IsFile(d), NEW o \in Nat,
         MovedTo(d, o),
         NEW pos \in Int, NEW sure \in BOOLEAN,
         ~held[d].shifted /\ sure => o = pos,
         Know(d, pos, sure), size' \in [File -> Int], UNCHANGED <<devices, mounted>>
  PROVE  FsIInv'
<1> USE DEF FsIInv
<1> DEFINE k == Index(d)
           g == [files[k] EXCEPT !.offset = o]
<1>1. d \in Int /\ k \in Int /\ \A e \in Int : Index(e) = k => e = d
  BY IndexDiffers DEF FsType
<1>2. /\ files \in Seq(OpenFiles) /\ DOMAIN files = 1..Len(files) /\ k \in 1..Len(files)
      /\ files[k] \in OpenFiles
  BY DEF FsType, IsFile
<1>3. g \in OpenFiles /\ g.file = files[k].file /\ g.offset = o
  BY <1>2 DEF OpenFiles
<1>4. files' = [files EXCEPT ![k] = g]
  BY DEF MovedTo
<1> HIDE DEF g
<1>5. /\ files' \in Seq(OpenFiles) /\ DOMAIN files' = 1..Len(files)
      /\ \A j \in 1..Len(files) : files'[j] = IF j = k THEN g ELSE files[j]
  <2> HIDE DEF FsIInv, k
  <2>1. files' \in Seq(OpenFiles)
    <3>1. [files EXCEPT ![k] = g] \in Seq(OpenFiles)
      BY <1>2, <1>3, ReplacedIs
    <3> QED
      BY <1>4, <3>1
  <2>2. DOMAIN files' = 1..Len(files)
    BY <1>2, <1>4
  <2>3. \A j \in 1..Len(files) : files'[j] = IF j = k THEN g ELSE files[j]
    BY <1>2, <1>4
  <2> QED
    BY <2>1, <2>2, <2>3
<1>6. held[d] \in Known
  BY DEF FsType
<1>7. /\ DOMAIN held' = DOMAIN held
      /\ \A e \in DOMAIN held : e # d => held'[e] = held[e]
      /\ held'[d] \in Known /\ held'[d].shifted = held[d].shifted
      /\ ~held[d].shifted => /\ held'[d].file = held[d].file /\ held'[d].sure = sure
                             /\ sure => held'[d].pos = pos
  <2>1. CASE held[d].shifted
    BY <1>6, <2>1 DEF Know
  <2>2. CASE ~held[d].shifted
    <3> DEFINE np == IF sure THEN pos ELSE 0
               h == [held[d] EXCEPT !.pos = np, !.sure = sure]
    <3>1. held' = [held EXCEPT ![d] = h]
      BY <2>2 DEF Know
    <3>2. np \in Int /\ (sure => np = pos)
      OBVIOUS
    <3> HIDE DEF np
    <3>3. /\ h \in Known /\ h.shifted = held[d].shifted /\ h.file = held[d].file
          /\ h.sure = sure /\ (sure => h.pos = pos)
      <4>1. h \in Known /\ h.shifted = held[d].shifted /\ h.file = held[d].file
        BY <1>6, <3>2 DEF Known
      <4>2. h.sure = sure /\ h.pos = np
        BY <1>6 DEF Known
      <4> QED
        BY <3>2, <4>1, <4>2
    <3> HIDE DEF h
    <3> QED
      BY <3>1, <3>2, <3>3
  <2> QED
    BY <2>1, <2>2
<1>8. FsType'
  BY <1>5, <1>7 DEF FsType
<1>9. DevicesDiffer' /\ NamesStand'
  BY DEF DevicesDiffer, NamesStand
<1>10. DescriptorNamesItsFile' /\ OffsetIsPosition'
  <2> SUFFICES ASSUME NEW e \in DOMAIN held', ~held'[e].shifted
               PROVE  /\ Index(e) \in DOMAIN files' /\ files'[Index(e)].file = held'[e].file
                      /\ held'[e].sure => files'[Index(e)].offset = held'[e].pos
    BY DEF DescriptorNamesItsFile, OffsetIsPosition, IsFile, At
  <2>1. e \in DOMAIN held /\ e \in Int /\ ~held[e].shifted
    BY <1>7 DEF FsType
  <2>2. /\ Index(e) \in 1..Len(files) /\ files[Index(e)].file = held[e].file
        /\ held[e].sure => files[Index(e)].offset = held[e].pos
    BY <1>2, <2>1 DEF DescriptorNamesItsFile, OffsetIsPosition, IsFile, At
  <2> HIDE DEF k
  <2>3. CASE e = d
    BY <1>3, <1>5, <1>7, <2>1, <2>2, <2>3 DEF k
  <2>4. CASE e # d
    <3>1. Index(e) # k
      BY <1>1, <2>1, <2>4
    <3> QED
      BY <1>5, <1>7, <2>1, <2>2, <2>4, <3>1
  <2> QED
    BY <2>3, <2>4
<1> QED
  BY <1>8, <1>9, <1>10

(* What is known of a descriptor that leads to a file. *)
LEMMA OfDescriptor ==
  ASSUME FsIInv, NEW d \in DOMAIN held, IsFile(d)
  PROVE  /\ At(d).file \in File /\ At(d).offset \in Nat /\ size[At(d).file] \in Int
         /\ held[d].pos \in Int /\ held[d].sure \in BOOLEAN
         /\ ~held[d].shifted /\ held[d].sure => At(d).offset = held[d].pos
<1>1. At(d) \in OpenFiles /\ held[d] \in Known
  BY DEF FsIInv, FsType, IsFile, At
<1>2. size[At(d).file] \in Int
  BY <1>1 DEF FsIInv, FsType, OpenFiles
<1> QED
  BY <1>1, <1>2 DEF FsIInv, OffsetIsPosition, OpenFiles, Known

(* A distance that fits an int is not cut. *)
LEMMA IntOf ==
  ASSUME NEW x \in Int
  PROVE  ToInt(x) \in Int /\ (Fits(x) => ToInt(x) = x)
<1> DEFINE m == 2 * Half
           y == x + Half
<1>1. m \in Nat \ {0} /\ y \in Int
  OBVIOUS
<1>2. Fits(x) => y \in 0..(m - 1)
  BY DEF Fits
<1>3. ToInt(x) = (y % m) - Half
  BY DEF ToInt
<1> HIDE DEF m, y
<1>4. y % m \in Int /\ (y \in 0..(m - 1) => y % m = y)
  BY <1>1
<1> QED
  BY <1>2, <1>3, <1>4 DEF y

(* Seek by pos from b: the descriptor is there, if the distance fits. *)
LEMMA SeekMoves ==
  ASSUME NEW d \in Int, NEW pos \in Int, NEW b \in Int, Seek(d, pos, b)
  PROVE  \E o \in Nat : MovedTo(d, o) /\ (Fits(pos) => o = b + pos)
<1>1. ToInt(pos) \in Int /\ (Fits(pos) => ToInt(pos) = pos)
  BY IntOf
<1>2. b + ToInt(pos) \in Nat /\ MovedTo(d, b + ToInt(pos))
  BY DEF Seek, MovedTo
<1> QED
  BY <1>1, <1>2

(* _lseek_r: from the start and the end the position is known afresh. *)
LEMMA LseekKeeps ==
  ASSUME FsIInv, NEW d \in DOMAIN held, NEW pos \in Int, NEW whence \in {"set", "cur", "end"},
         Lseek(d, pos, whence)
  PROVE  FsIInv'
<1> DEFINE z == size[At(d).file]
           o == At(d).offset
           q == held[d].pos + pos
<1>1. IsFile(d) /\ UNCHANGED <<devices, size, mounted>> /\ d \in Int
  BY DEF Lseek, FsIInv, FsType
<1>2. /\ o \in Nat /\ z \in Int /\ held[d].pos \in Int /\ held[d].sure \in BOOLEAN
      /\ ~held[d].shifted /\ held[d].sure => o = held[d].pos
  BY <1>1, OfDescriptor
<1>3. size' \in [File -> Int] /\ Fits(pos) \in BOOLEAN
  BY <1>1 DEF FsIInv, FsType, Fits
<1>4. \/ Seek(d, pos, 0) /\ Know(d, pos, Fits(pos))
      \/ Seek(d, pos, o) /\ Know(d, q, held[d].sure /\ Fits(pos))
      \/ Seek(d, pos, z) /\ Know(d, z + pos, Fits(pos))
      \/ Seek(d, pos, 0) /\ Know(d, 0, FALSE)
  BY DEF Lseek
<1> HIDE DEF z, o
<1>5. CASE Seek(d, pos, 0) /\ Know(d, pos, Fits(pos))
  <2>1. PICK n \in Nat : MovedTo(d, n) /\ (Fits(pos) => n = 0 + pos)
    BY <1>1, <1>5, SeekMoves
  <2>2. Fits(pos) => n = pos
    BY <2>1
  <2> QED
    BY <1>1, <1>3, <1>5, <2>1, <2>2, MovingKeeps
<1>6. CASE Seek(d, pos, o) /\ Know(d, q, held[d].sure /\ Fits(pos))
  <2>1. PICK n \in Nat : MovedTo(d, n) /\ (Fits(pos) => n = o + pos)
    BY <1>1, <1>2, <1>6, SeekMoves
  <2>2. q \in Int /\ (~held[d].shifted /\ held[d].sure /\ Fits(pos) => n = q)
    BY <1>2, <2>1
  <2> HIDE DEF q
  <2>3. (held[d].sure /\ Fits(pos)) \in BOOLEAN
    BY <1>2, <1>3
  <2> QED
    BY <1>1, <1>3, <1>6, <2>1, <2>2, <2>3, MovingKeeps
<1>7. CASE Seek(d, pos, z) /\ Know(d, z + pos, Fits(pos))
  <2>1. PICK n \in Nat : MovedTo(d, n) /\ (Fits(pos) => n = z + pos)
    BY <1>1, <1>2, <1>7, SeekMoves
  <2>2. z + pos \in Int
    BY <1>2
  <2> QED
    BY <1>1, <1>3, <1>7, <2>1, <2>2, MovingKeeps
<1>8. CASE Seek(d, pos, 0) /\ Know(d, 0, FALSE)
  <2>1. PICK n \in Nat : MovedTo(d, n)
    BY <1>1, <1>8, SeekMoves
  <2>2. 0 \in Int /\ FALSE \in BOOLEAN
    OBVIOUS
  <2> QED
    BY <1>1, <1>3, <1>8, <2>1, <2>2, MovingKeeps
<1> QED
  BY <1>4, <1>5, <1>6, <1>7, <1>8

(* _read_r moves the offset by what was read. *)
LEMMA ReadKeeps ==
  ASSUME FsIInv, NEW d \in DOMAIN held, NEW len \in Nat, Read(d, len)
  PROVE  FsIInv'
<1> DEFINE o == At(d).offset
           g == Got(d, len)
           q == held[d].pos + g
           sure == held[d].sure /\ Fits(g)
<1>1. IsFile(d) /\ UNCHANGED <<devices, size, mounted>> /\ d \in Int
  BY DEF Read, FsIInv, FsType
<1>2. /\ o \in Nat /\ size[At(d).file] \in Int /\ held[d].pos \in Int /\ held[d].sure \in BOOLEAN
      /\ ~held[d].shifted /\ held[d].sure => o = held[d].pos
  BY <1>1, OfDescriptor
<1>3. size' \in [File -> Int]
  BY <1>1 DEF FsIInv, FsType
<1>4. g \in Int
  BY <1>2 DEF Got
<1>5. Seek(d, g, o) /\ Know(d, q, sure)
  BY DEF Read
<1> HIDE DEF o, g
<1>6. PICK n \in Nat : MovedTo(d, n) /\ (Fits(g) => n = o + g)
  <2>1. d \in Int /\ g \in Int /\ o \in Int /\ Seek(d, g, o)
    BY <1>1, <1>2, <1>4, <1>5
  <2> QED
    BY ONLY <2>1, SeekMoves
<1>7. q \in Int /\ (~held[d].shifted /\ sure => n = q)
  BY <1>2, <1>4, <1>6
<1>8. sure \in BOOLEAN
  BY <1>2 DEF Fits
<1> HIDE DEF q, sure
<1> QED
  BY <1>1, <1>3, <1>5, <1>6, <1>7, <1>8, MovingKeeps

(* _write_r leaves the offset, and the program is not sure any more. *)
LEMMA WriteKeeps ==
  ASSUME FsIInv, NEW d \in DOMAIN held, NEW len \in Nat, Write(d, len)
  PROVE  FsIInv'
<1> DEFINE o == At(d).offset
           f == At(d).file
<1>1. /\ IsFile(d) /\ UNCHANGED <<devices, mounted>> /\ d \in Int
      /\ size' = [size EXCEPT ![f] = IF o + len > @ THEN o + len ELSE @]
      /\ Seek(d, 0, o) /\ Know(d, 0, FALSE)
  BY DEF Write, FsIInv, FsType
<1>2. o \in Nat /\ f \in File /\ size[f] \in Int
  BY <1>1, OfDescriptor
<1> HIDE DEF o, f
<1>3. size' \in [File -> Int]
  BY <1>1, <1>2 DEF FsIInv, FsType
<1>4. PICK n \in Nat : MovedTo(d, n)
  BY <1>1, <1>2, SeekMoves
<1>5. 0 \in Int /\ FALSE \in BOOLEAN
  OBVIOUS
<1> QED
  BY <1>1, <1>3, <1>4, <1>5, MovingKeeps

(* _open_r that fails leaves a file that no descriptor leads to. *)
LEMMA OpenFailsKeeps ==
  ASSUME FsIInv, NEW n \in Names, NEW p \in Paths, OpenFails(n, p)
  PROVE  FsIInv'
<1> USE DEF FsIInv
<1>1. /\ UNCHANGED <<devices, files, mounted, held>>
      /\ \E f : size' = [size EXCEPT ![f] = 0]
  BY DEF OpenFails
<1>2. size' \in [File -> Int]
  <2>1. size \in [File -> Int] /\ 0 \in Int
    BY DEF FsType
  <2> HIDE DEF FsIInv
  <2> QED
    BY <1>1, <2>1
<1>3. FsType'
  BY <1>1, <1>2 DEF FsType
<1>4. DevicesDiffer' /\ NamesStand' /\ DescriptorNamesItsFile' /\ OffsetIsPosition'
  BY <1>1 DEF DevicesDiffer, NamesStand, DescriptorNamesItsFile, OffsetIsPosition, IsFile, At,
     Index
<1> QED
  BY <1>3, <1>4

(* _close_r: what is behind the closed file moves, and its numbers are       *)
(* known to lead elsewhere; what is before it stays.                         *)
LEMMA CloseKeeps ==
  ASSUME FsIInv, NEW d \in DOMAIN held, CloseFile(d)
  PROVE  FsIInv'
<1> USE DEF FsIInv
<1> DEFINE k == Index(d)
<1>1. /\ files' = IF IsFile(d) THEN RemoveAt(files, k) ELSE files
      /\ held' = [e \in DOMAIN held \ {d} |-> IF IsFile(d) /\ e > d THEN Shifted ELSE held[e]]
      /\ UNCHANGED <<devices, size, mounted>>
  BY DEF CloseFile
<1>2. files \in Seq(OpenFiles) /\ DOMAIN files = 1..Len(files)
  BY DEF FsType
<1>3. d \in Int /\ k \in Int /\ \A e \in Int : e < d => Index(e) < k
  BY IndexDiffers DEF FsType
<1>4. Shifted \in Known /\ Shifted.shifted
  BY DEF Shifted, Known, Nowhere
<1> HIDE DEF k
<1>5. /\ files' \in Seq(OpenFiles)
      /\ IsFile(d) => /\ k \in 1..Len(files) /\ Len(files') = Len(files) - 1
                      /\ \A n \in 1..(k - 1) : files'[n] = files[n]
  <2>1. CASE IsFile(d)
    <3>1. k \in 1..Len(files)
      BY <1>2, <2>1 DEF IsFile, k
    <3> QED
      BY <1>1, <1>2, <2>1, <3>1, RemoveAtIs
  <2>2. CASE ~IsFile(d)
    BY <1>1, <1>2, <2>2
  <2> QED
    BY <2>1, <2>2
<1>6. FsType'
  <2>1. DOMAIN held' \subseteq Int /\ \A e \in DOMAIN held' : held'[e] \in Known
    BY <1>1, <1>4 DEF FsType
  <2> QED
    BY <1>1, <1>5, <2>1 DEF FsType
<1>7. DevicesDiffer' /\ NamesStand'
  BY <1>1 DEF DevicesDiffer, NamesStand
<1>8. DescriptorNamesItsFile' /\ OffsetIsPosition'
  <2> SUFFICES ASSUME NEW e \in DOMAIN held', ~held'[e].shifted
               PROVE  /\ Index(e) \in DOMAIN files' /\ files'[Index(e)].file = held'[e].file
                      /\ held'[e].sure => files'[Index(e)].offset = held'[e].pos
    BY DEF DescriptorNamesItsFile, OffsetIsPosition, IsFile, At
  <2>1. e \in DOMAIN held /\ e # d /\ e \in Int /\ held'[e] = held[e] /\ ~(IsFile(d) /\ e > d)
    BY <1>1, <1>4 DEF FsType
  <2>2. /\ Index(e) \in 1..Len(files) /\ files[Index(e)].file = held[e].file
        /\ held[e].sure => files[Index(e)].offset = held[e].pos
    BY <1>2, <2>1 DEF DescriptorNamesItsFile, OffsetIsPosition, IsFile, At
  <2>3. CASE IsFile(d)
    <3>1. e < d
      BY <1>3, <2>1, <2>3
    <3>2. Index(e) < k
      BY <1>3, <2>1, <3>1
    <3>3. Index(e) \in 1..(k - 1) /\ DOMAIN files' = 1..(Len(files) - 1)
      BY <1>3, <1>5, <2>2, <2>3, <3>2
    <3>4. Index(e) \in 1..(Len(files) - 1)
      BY <1>3, <1>5, <2>2, <2>3, <3>2
    <3> QED
      BY <1>5, <2>1, <2>2, <2>3, <3>3, <3>4
  <2>4. CASE ~IsFile(d)
    BY <1>1, <1>2, <2>1, <2>2, <2>4
  <2> QED
    BY <2>3, <2>4
<1> QED
  BY <1>6, <1>7, <1>8

-------------------------------------------------------------------------------
(* The program starts with no device and no file. *)
LEMMA FsInitIInv == FsInit => FsIInv
<1> SUFFICES ASSUME FsInit PROVE FsIInv
  OBVIOUS
<1>1. FsType
  <2>1. devices \in Seq(Device) /\ files \in Seq(OpenFiles)
    BY DEF FsInit
  <2>2. size \in [File -> Int]
    BY DEF FsInit
  <2> QED
    BY <2>1, <2>2 DEF FsInit, FsType
<1> QED
  BY <1>1 DEF FsInit, FsIInv, DevicesDiffer, NamesStand, DescriptorNamesItsFile,
     OffsetIsPosition

(* Every call keeps what is known of the descriptors. *)
LEMMA FsNextIInv == FsIInv /\ [FsNext]_fsvars => FsIInv'
<1> SUFFICES ASSUME FsIInv, [FsNext]_fsvars PROVE FsIInv'
  OBVIOUS
<1>1. CASE UNCHANGED fsvars
  BY <1>1 DEF fsvars, FsIInv, FsType, DevicesDiffer, NamesStand, DescriptorNamesItsFile,
     OffsetIsPosition, IsFile, At, Index
<1>2. ASSUME NEW n \in Names, \/ \E fs \in FileSystems : Mount(n, fs)
                              \/ Unmount(n)
                              \/ \E p \in Paths, creat, trunc \in BOOLEAN : Open(n, p, creat, trunc)
                              \/ \E p \in Paths : OpenFails(n, p)
      PROVE  FsIInv'
  BY <1>2, MountKeeps, UnmountKeeps, OpenKeeps, OpenFailsKeeps
<1>3. ASSUME NEW d \in DOMAIN held,
             \/ CloseFile(d)
             \/ \E len \in Lengths : Read(d, len) \/ Write(d, len)
             \/ \E pos \in Moves, whence \in {"set", "cur", "end"} : Lseek(d, pos, whence)
      PROVE  FsIInv'
  <2>1. CASE CloseFile(d)
    BY <2>1, CloseKeeps
  <2>2. ASSUME NEW len \in Lengths, Read(d, len) \/ Write(d, len)
        PROVE  FsIInv'
    BY <2>2, ReadKeeps, WriteKeeps
  <2>3. ASSUME NEW pos \in Moves, NEW whence \in {"set", "cur", "end"}, Lseek(d, pos, whence)
        PROVE  FsIInv'
    BY <2>3, LseekKeeps
  <2> QED
    BY <1>3, <2>1, <2>2, <2>3
<1> QED
  BY <1>1, <1>2, <1>3, UnmountAllKeeps DEF FsNext

(* The devices, the files and the descriptors fit in every state. *)
THEOREM FsInvariance == FsSpec => []FsIInv
  BY FsInitIInv, FsNextIInv, PTL DEF FsSpec

(* For any names, file systems and paths, and any number of open files: a    *)
(* descriptor leads to the file that _open_r opened for it, until a file     *)
(* before it is closed.                                                      *)
THEOREM FsDescriptorNamesItsFile == FsSpec => []DescriptorNamesItsFile
  BY FsInvariance, PTL DEF FsIInv

(* For files of any size and ints of any width: reads and seeks leave a      *)
(* descriptor where the program takes it to be, until it writes or a         *)
(* distance does not fit an int, and again after a seek from the start or    *)
(* the end.                                                                  *)
THEOREM FsOffsetIsPosition == FsSpec => []OffsetIsPosition
  BY FsInvariance, PTL DEF FsIInv

-------------------------------------------------------------------------------
(* Mappings. *)
USE SpaceAssumption, RegionsAssumption, SizeAssumption, ObjectsAssumption

Object == [address : Nat, size : 1..MaxSize, handle : BOOLEAN]
Call == [pc : {"idle", "search", "map"}, o : Objects \cup {NoObject}]

TypeOK ==
  /\ curaddr \in Nat
  /\ kern \in [Pages -> Objects \cup {Free, Other}]
  /\ obj \in [Objects -> Object]
  /\ th \in [Threads -> Call]
  /\ addr \in [Threads -> Nat]

(* A thread inside Map has an object, which no other thread has and which is *)
(* not mapped yet: this is what keeps a second mapping out.                  *)
BusyIsUnmapped ==
  \A t \in Threads :
    /\ th[t].pc # "idle" => th[t].o \in Objects
    /\ th[t].o \in Objects => obj[th[t].o].address = 0
    /\ \A u \in Threads : th[t].o \in Objects /\ th[u].o = th[t].o => u = t

IInv == TypeOK /\ BusyIsUnmapped /\ MappingIsKnown

(* The program starts with nothing mapped for an object. *)
LEMMA InitIInv == Init => IInv
<1> SUFFICES ASSUME Init PROVE IInv
    OBVIOUS
<1>1. TypeOK
  <2>1. obj \in [Objects -> Object]
    <3> DEFINE Fresh == {[address |-> 0, size |-> n, handle |-> TRUE] : n \in 1..MaxSize}
    <3>1. obj \in [Objects -> Fresh]
      BY DEF Init
    <3>2. Fresh \subseteq Object
      <4>1. 0 \in Nat /\ TRUE \in BOOLEAN
        OBVIOUS
      <4>2. ASSUME NEW n \in 1..MaxSize
            PROVE  [address |-> 0, size |-> n, handle |-> TRUE] \in Object
        BY <4>1, Zenon DEF Object
      <4> QED
        BY <4>2, Zenon
    <3> HIDE DEF Fresh
    <3> QED
      BY <3>1, <3>2
  <2>2. kern \in [Pages -> Objects \cup {Free, Other}]
    BY DEF Init
  <2>3. th \in [Threads -> Call] /\ addr \in [Threads -> Nat] /\ curaddr \in Nat
    BY DEF Init, Idle, Call
  <2> QED
    BY <2>1, <2>2, <2>3 DEF TypeOK
<1>2. BusyIsUnmapped
  BY DEF Init, BusyIsUnmapped, Idle, NoObject
<1>3. MappingIsKnown
  BY DEF Init, MappingIsKnown, Free, Other, Pages
<1> QED
  BY <1>1, <1>2, <1>3 DEF IInv

(* Map takes an object that is not mapped and that no thread has. *)
LEMMA MapKeeps ==
  ASSUME IInv, NEW t \in Threads, NEW o \in Objects, Map(t, o)
  PROVE  IInv'
<1> USE DEF IInv
<1>1. TypeOK'
  BY DEF Map, TypeOK, Call
<1>2. BusyIsUnmapped'
  BY DEF Map, TypeOK, Call, BusyIsUnmapped, Unused
<1>3. MappingIsKnown'
  BY DEF Map, MappingIsKnown
<1> QED
  BY <1>1, <1>2, <1>3

(* A round of the search changes no mapping. *)
LEMMA QueryKeeps ==
  ASSUME IInv, NEW t \in Threads, Query(t)
  PROVE  IInv'
<1> USE DEF IInv
<1>1. th[t].o \in Objects
  BY DEF Query, BusyIsUnmapped
<1>2. th' \in [Threads -> Call] /\ \A u \in Threads : th'[u].o = th[u].o
  <2>1. th' = th \/ th' = [th EXCEPT ![t].pc = "map"]
    BY DEF Query
  <2> QED
    BY <2>1 DEF TypeOK, Call
<1>3. \A u \in Threads : th'[u].pc # "idle" => th'[u].o \in Objects
  BY <1>1, <1>2 DEF Query, TypeOK, Call, BusyIsUnmapped
<1>4. curaddr' \in Nat /\ addr' \in [Threads -> Nat]
  <2> DEFINE n == obj[th[t].o].size
             a == Queried(t)
  <2>1. n \in Nat /\ a \in Nat
    BY <1>1 DEF TypeOK, Object, Queried
  <2>2. \A next \in Nat : [addr EXCEPT ![t] = next] \in [Threads -> Nat]
    BY DEF TypeOK
  <2>3. PICK first \in Pages, last \in Pages :
          \/ addr' = [addr EXCEPT ![t] = last + 1] /\ curaddr' = curaddr
          \/ \E i \in DOMAIN Regions : addr' = [addr EXCEPT ![t] = Regions[i].end] /\ curaddr' = curaddr
          \/ curaddr' = a + n /\ addr' = [addr EXCEPT ![t] = a]
    BY DEF Query, Past
  <2>4. last + 1 \in Nat /\ \A i \in DOMAIN Regions : Regions[i].end \in Nat
    BY DEF Pages
  <2>5. a + n \in Nat /\ curaddr \in Nat
    BY <2>1 DEF TypeOK
  <2> HIDE DEF a, n
  <2> QED
    BY <2>1, <2>2, <2>3, <2>4, <2>5
<1>5. UNCHANGED <<kern, obj>>
  BY DEF Query
<1>6. TypeOK'
  BY <1>2, <1>4, <1>5 DEF TypeOK
<1>7. BusyIsUnmapped'
  BY <1>2, <1>3, <1>5 DEF BusyIsUnmapped
<1>8. MappingIsKnown'
  BY <1>5 DEF MappingIsKnown
<1> QED
  BY <1>6, <1>7, <1>8

(* A search that fails moves the hint. *)
LEMMA QueryFailsKeeps ==
  ASSUME IInv, NEW t \in Threads, QueryFails(t)
  PROVE  IInv'
<1> USE DEF IInv
<1>1. th[t].o \in Objects
  BY DEF QueryFails, BusyIsUnmapped
<1>2. Queried(t) \in Nat /\ obj[th[t].o].size \in Nat
  BY <1>1 DEF TypeOK, Object, Queried
<1>3. TypeOK'
  <2>1. Idle \in Call
    BY DEF Idle, Call
  <2> QED
    BY <1>2, <2>1 DEF QueryFails, TypeOK
<1>4. BusyIsUnmapped'
  BY DEF QueryFails, TypeOK, BusyIsUnmapped, Idle, NoObject
<1>5. MappingIsKnown'
  BY DEF QueryFails, MappingIsKnown
<1> QED
  BY <1>3, <1>4, <1>5

(* The kernel maps a range that is free, for an object that had none. *)
LEMMA MapMemoryKeeps ==
  ASSUME IInv, NEW t \in Threads, MapMemory(t)
  PROVE  IInv'
<1> USE DEF IInv
<1> DEFINE o == th[t].o
           range == addr[t]..(addr[t] + obj[o].size - 1)
<1>1. o \in Objects /\ obj[o].address = 0
  BY DEF MapMemory, BusyIsUnmapped
<1>2. /\ th' = [th EXCEPT ![t] = Idle] /\ curaddr' = curaddr
      /\ addr' = [addr EXCEPT ![t] = 0]
  BY DEF MapMemory
<1>3. CASE UNCHANGED <<kern, obj>>
  <2>1. TypeOK'
    BY <1>2, <1>3 DEF TypeOK, Call, Idle
  <2>2. BusyIsUnmapped'
    BY <1>2, <1>3 DEF TypeOK, BusyIsUnmapped, Idle, NoObject
  <2>3. MappingIsKnown'
    BY <1>3 DEF MappingIsKnown
  <2> QED
    BY <2>1, <2>2, <2>3
<1>4. CASE /\ range \subseteq {p \in Pages : kern[p] = Free}
           /\ kern' = [p \in Pages |-> IF p \in range THEN o ELSE kern[p]]
           /\ obj' = [obj EXCEPT ![o].address = addr[t]]
  <2>1. TypeOK'
    BY <1>1, <1>2, <1>4 DEF TypeOK, Call, Idle, Object
  <2>2. \A u \in Threads \ {t} : th'[u] = th[u] /\ th[u].o # o
    BY <1>1, <1>2 DEF TypeOK, BusyIsUnmapped
  <2>3. \A q \in Objects : q # o => obj'[q] = obj[q]
    BY <1>1, <1>4 DEF TypeOK
  <2>4. th'[t] = Idle
    BY <1>2 DEF TypeOK
  <2>5. BusyIsUnmapped'
    BY <2>2, <2>3, <2>4 DEF BusyIsUnmapped, Idle, NoObject
  <2>6. obj'[o].address = addr[t] /\ obj'[o].size = obj[o].size
    BY <1>1, <1>4 DEF TypeOK, Object
  <2>7. addr[t] \in range /\ addr[t] # 0
    <3>1. addr[t] \in Nat /\ obj[o].size \in Nat /\ obj[o].size >= 1
      BY <1>1 DEF TypeOK, Object
    <3>2. addr[t] \in range
      BY <3>1
    <3> QED
      BY <3>2, <1>4 DEF Pages
  <2>8. {p \in Pages : kern[p] = o} = {}
    BY <1>1 DEF MappingIsKnown
  <2>9. {p \in Pages : kern'[p] = o} = range
    BY <2>8, <1>4
  <2>10. \A q \in Objects : q # o => {p \in Pages : kern'[p] = q} = {p \in Pages : kern[p] = q}
    BY <1>4, <2>8 DEF Free
  <2>11. ASSUME NEW q \in Objects
         PROVE  {p \in Pages : kern'[p] = q} =
                  IF obj'[q].address = 0 THEN {}
                  ELSE obj'[q].address..(obj'[q].address + obj'[q].size - 1)
    <3>1. CASE q = o
      BY <3>1, <2>6, <2>7, <2>9
    <3>2. CASE q # o
      BY <3>2, <2>3, <2>10 DEF MappingIsKnown
    <3> QED
      BY <3>1, <3>2
  <2> QED
    BY <2>1, <2>5, <2>11 DEF MappingIsKnown
<1> QED
  BY <1>3, <1>4 DEF MapMemory

(* Unmap and the destructor free exactly the range of the object. *)
LEMMA UnmapKeeps ==
  ASSUME IInv, NEW o \in Objects, Unused(o),
         th' = th, addr' = addr, curaddr' = curaddr,
         kern' = IF obj[o].address # 0 THEN Unmapped(o) ELSE kern,
         obj' \in [Objects -> Object], obj'[o].address = 0,
         \A q \in Objects : q # o => obj'[q] = obj[q]
  PROVE  IInv'
<1> USE DEF IInv
<1>1. TypeOK'
  BY DEF TypeOK, Unmapped
<1>2. BusyIsUnmapped'
  BY DEF BusyIsUnmapped, Unused
<1>3. {p \in Pages : kern'[p] = o} = {}
  <2>1. ASSUME NEW p \in Pages, kern'[p] = o
        PROVE  FALSE
    <3>1. CASE obj[o].address = 0
      BY <2>1, <3>1 DEF MappingIsKnown
    <3>2. CASE obj[o].address # 0
      <4>1. kern[p] = o
        BY <2>1, <3>2 DEF Unmapped, Free
      <4>2. p \in obj[o].address..(obj[o].address + obj[o].size - 1)
        BY <3>2, <4>1 DEF MappingIsKnown
      <4> QED
        BY <2>1, <3>2, <4>1, <4>2 DEF Unmapped, Free
    <3> QED
      BY <3>1, <3>2
  <2> QED
    BY <2>1
<1>4. \A q \in Objects : q # o => {p \in Pages : kern'[p] = q} = {p \in Pages : kern[p] = q}
  <2>1. ASSUME NEW q \in Objects, q # o, NEW p \in Pages
        PROVE  kern'[p] = q <=> kern[p] = q
    BY <2>1 DEF Unmapped, Free
  <2> QED
    BY <2>1
<1>5. MappingIsKnown'
  <2> SUFFICES ASSUME NEW q \in Objects
               PROVE  {p \in Pages : kern'[p] = q} =
                        IF obj'[q].address = 0 THEN {}
                        ELSE obj'[q].address..(obj'[q].address + obj'[q].size - 1)
    BY DEF MappingIsKnown
  <2>1. CASE q = o
    BY <2>1, <1>3
  <2>2. CASE q # o
    BY <2>2, <1>4 DEF MappingIsKnown
  <2> QED
    BY <2>1, <2>2
<1> QED
  BY <1>1, <1>2, <1>5

(* A reservation for a stack and a new object touch no mapping. *)
LEMMA OthersKeep ==
  ASSUME IInv,
         \/ \E t \in Threads : ReserveVirtualMemoryMap(t)
         \/ \E o \in Objects : Create(o)
         \/ UNCHANGED vars
  PROVE  IInv'
<1> USE DEF IInv
<1>1. CASE \E t \in Threads : ReserveVirtualMemoryMap(t)
  <2>1. curaddr' \in Nat /\ UNCHANGED <<kern, obj, th, addr>>
    BY <1>1 DEF ReserveVirtualMemoryMap, Pages
  <2> QED
    BY <2>1 DEF TypeOK, BusyIsUnmapped, MappingIsKnown
<1>2. ASSUME NEW o \in Objects, Create(o)
      PROVE  IInv'
  <2>1. /\ UNCHANGED <<curaddr, kern, th, addr>> /\ obj' \in [Objects -> Object]
        /\ \A q \in Objects : obj'[q].address = obj[q].address /\ obj'[q].size = obj[q].size
    BY <1>2 DEF Create, TypeOK, Object
  <2> QED
    BY <2>1 DEF TypeOK, BusyIsUnmapped, MappingIsKnown
<1>3. CASE UNCHANGED vars
  BY <1>3 DEF vars, TypeOK, BusyIsUnmapped, MappingIsKnown
<1> QED
  BY <1>1, <1>2, <1>3

(* What the kernel has mapped for an object of os_Memory.cpp is what the     *)
(* object knows of and will unmap, whatever ranges the searches without a    *)
(* lock hand out.                                                            *)
THEOREM MemoryMappingIsKnown == Spec => []MappingIsKnown
<1>1. Init => IInv
  BY InitIInv
<1>2. IInv /\ [Next]_vars => IInv'
  <2> SUFFICES ASSUME IInv, [Next]_vars PROVE IInv'
    OBVIOUS
  <2>1. ASSUME NEW t \in Threads, NEW o \in Objects, Map(t, o) PROVE IInv'
    BY <2>1, MapKeeps
  <2>2. ASSUME NEW t \in Threads, Query(t) PROVE IInv'
    BY <2>2, QueryKeeps
  <2>7. ASSUME NEW t \in Threads, QueryFails(t) PROVE IInv'
    BY <2>7, QueryFailsKeeps
  <2>3. ASSUME NEW t \in Threads, MapMemory(t) PROVE IInv'
    BY <2>3, MapMemoryKeeps
  <2>4. ASSUME NEW o \in Objects, Unmap(o) PROVE IInv'
    <3>1. /\ obj' \in [Objects -> Object] /\ obj'[o].address = 0
          /\ \A q \in Objects : q # o => obj'[q] = obj[q]
      BY <2>4 DEF Unmap, IInv, TypeOK, Object
    <3> QED
      BY <2>4, <3>1, UnmapKeeps DEF Unmap
  <2>5. ASSUME NEW o \in Objects, Destroy(o) PROVE IInv'
    <3>1. /\ obj' \in [Objects -> Object] /\ obj'[o].address = 0
          /\ \A q \in Objects : q # o => obj'[q] = obj[q]
      BY <2>5 DEF Destroy, IInv, TypeOK, Object
    <3> QED
      BY <2>5, <3>1, UnmapKeeps DEF Destroy
  <2>6. ASSUME \/ \E t \in Threads : ReserveVirtualMemoryMap(t)
               \/ \E o \in Objects : Create(o)
               \/ UNCHANGED vars
        PROVE IInv'
    BY <2>6, OthersKeep
  <2> QED
    BY <2>1, <2>2, <2>3, <2>4, <2>5, <2>6, <2>7 DEF Next
<1>3. IInv => MappingIsKnown
  BY DEF IInv
<1> QED
  BY <1>1, <1>2, <1>3, PTL DEF Spec
===============================================================================
