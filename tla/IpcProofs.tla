------------------------------ MODULE IpcProofs --------------------------------
(*****************************************************************************)
(* Sessions close their own handles and nothing else is left open, for any   *)
(* number of objects and handles (IpcSession); and the fields of a request   *)
(* and of its answer are found where they were written, for all that fit     *)
(* into the buffer (IpcMessage); and what the viewer shows was written, for  *)
(* any number of threads and messages and texts of any length (FloraLog).    *)
(*****************************************************************************)
EXTENDS IpcSession, IpcMessage, FloraLog, TLAPS

(* The log of flora.  Words are only told apart. *)
IdOf(m) == <<"id", m>>
TypeOf(m) == <<"type", m>>
LenOf(m) == <<"len", m>>
TextOf(m, i) == <<"text", m, i>>
LogWords == {IdOf(m) : m \in Messages} \cup {TypeOf(m) : m \in Messages}
              \cup {LenOf(m) : m \in Messages} \cup {TextOf(m, i) : m \in Messages, i \in Nat}

(* The p-th word is the last one of a message. *)
Ends(s, p) ==
  p = 0 \/ \E k \in 1..p, m \in Messages : s[k] = LenOf(m) /\ k + TextLen[m] = p

(* What follows the end of a message and each word of it, if anything does.  *)
(* A header is sent in one piece, and so is a text.                          *)
HeadersFollow(s) ==
  \A p \in 0..(Len(s) - 1) : Ends(s, p) => \E m \in Messages : s[p + 1] = IdOf(m)
TypesFollow(s) ==
  \A k \in 1..Len(s), m \in Messages :
    s[k] = IdOf(m) => k < Len(s) /\ s[k + 1] = TypeOf(m)
LengthsFollow(s) ==
  \A k \in 1..(Len(s) - 1), m \in Messages : s[k] = TypeOf(m) => s[k + 1] = LenOf(m)
TextsFollow(s) ==
  \A k \in 1..(Len(s) - 1), m \in Messages :
    s[k] = LenOf(m) => /\ k + TextLen[m] <= Len(s)
                       /\ \A i \in 1..TextLen[m] : s[k + i] = TextOf(m, i)
Framed(s) == HeadersFollow(s) /\ TypesFollow(s) /\ LengthsFollow(s) /\ TextsFollow(s)

LEMMA WordsDiffer ==
  ASSUME NEW m \in Messages, NEW n \in Messages, NEW i \in Nat
  PROVE  /\ IdOf(m) # TypeOf(n) /\ IdOf(m) # LenOf(n) /\ TypeOf(m) # LenOf(n)
         /\ TextOf(m, i) # IdOf(n) /\ TextOf(m, i) # TypeOf(n) /\ TextOf(m, i) # LenOf(n)
         /\ (TypeOf(m) = TypeOf(n) => m = n) /\ (LenOf(m) = LenOf(n) => m = n)
         /\ (IdOf(m) = IdOf(n) => m = n)
<1>1. IdOf(m)[1] = "id" /\ TypeOf(m)[1] = "type" /\ TypeOf(n)[1] = "type" /\ LenOf(n)[1] = "len"
      /\ IdOf(n)[1] = "id" /\ TextOf(m, i)[1] = "text"
  BY DEF IdOf, TypeOf, LenOf, TextOf
<1>2. (TypeOf(m) = TypeOf(n) => m = n) /\ (LenOf(m) = LenOf(n) => m = n) /\ (IdOf(m) = IdOf(n) => m = n)
  BY DEF IdOf, TypeOf, LenOf
<1> QED
  BY <1>1, <1>2

LEMMA LogGrows ==
  ASSUME NEW s \in Seq(LogWords), NEW w \in Seq(LogWords)
  PROVE  /\ s \o w \in Seq(LogWords) /\ Len(s \o w) = Len(s) + Len(w)
         /\ \A k \in 1..Len(s) : (s \o w)[k] = s[k]
         /\ \A k \in 1..Len(w) : (s \o w)[Len(s) + k] = w[k]
  OBVIOUS

LEMMA Sent ==
  ASSUME NEW m \in Messages
  PROVE  /\ <<IdOf(m), TypeOf(m)>> \in Seq(LogWords) /\ <<LenOf(m)>> \in Seq(LogWords)
         /\ Text(m) \in Seq(LogWords) /\ Len(Text(m)) = TextLen[m]
         /\ \A i \in 1..TextLen[m] : Text(m)[i] = TextOf(m, i)
<1>1. <<IdOf(m), TypeOf(m)>> \in Seq(LogWords) /\ <<LenOf(m)>> \in Seq(LogWords)
  BY DEF LogWords
<1>2. TextLen[m] \in Nat
  BY TextAssumption
<1>3. Text(m) \in [1..TextLen[m] -> LogWords]
  BY <1>2 DEF Text, LogWords, TextOf
<1>4. \A i \in 1..TextLen[m] : Text(m)[i] = TextOf(m, i)
  BY DEF Text, TextOf
<1> HIDE DEF Text
<1> QED
  BY <1>1, <1>2, <1>3, <1>4

(* The last word of a message is its length or one of its text. *)
LEMMA LastWord ==
  ASSUME NEW s \in Seq(LogWords), TextsFollow(s), NEW p \in 1..Len(s), Ends(s, p)
  PROVE  \E m \in Messages : \/ s[p] = LenOf(m) /\ TextLen[m] = 0
                             \/ \E i \in Nat : s[p] = TextOf(m, i)
<1>1. PICK k \in 1..p, m \in Messages : s[k] = LenOf(m) /\ k + TextLen[m] = p
  BY DEF Ends
<1>2. TextLen[m] \in Nat
  BY TextAssumption
<1>3. CASE TextLen[m] = 0
  BY <1>1, <1>3
<1>4. CASE TextLen[m] # 0
  <2>1. k \in 1..(Len(s) - 1) /\ TextLen[m] \in 1..TextLen[m]
    BY <1>1, <1>2, <1>4
  <2>2. s[k + TextLen[m]] = TextOf(m, TextLen[m])
    BY <1>1, <2>1 DEF TextsFollow
  <2> QED
    BY <1>1, <1>2, <2>2
<1> QED
  BY <1>3, <1>4

LEMMA EndsStay ==
  ASSUME NEW s \in Seq(LogWords), NEW w \in Seq(LogWords), NEW p \in 0..Len(s)
  PROVE  Ends(s \o w, p) <=> Ends(s, p)
<1>1. \A k \in 1..p : (s \o w)[k] = s[k]
  BY LogGrows
<1> QED
  BY <1>1, Zenon DEF Ends

(* The end of a message in what is longer by w is one in s, or lies behind   *)
(* the last word of s that is a length.                                      *)
LEMMA NewEnd ==
  ASSUME NEW s \in Seq(LogWords), NEW w \in Seq(LogWords), TextsFollow(s),
         \A k \in 1..Len(w), m \in Messages : w[k] # LenOf(m),
         NEW p \in (Len(s) + 1)..(Len(s) + Len(w)), Ends(s \o w, p)
  PROVE  \E m \in Messages : Len(s) > 0 /\ s[Len(s)] = LenOf(m) /\ Len(s) + TextLen[m] = p
<1>1. PICK k \in 1..p, m \in Messages : (s \o w)[k] = LenOf(m) /\ k + TextLen[m] = p
  BY DEF Ends
<1>2. TextLen[m] \in Nat
  BY TextAssumption
<1>3. k <= Len(s)
  <2>1. SUFFICES ASSUME k > Len(s) PROVE FALSE
    OBVIOUS
  <2>2. k - Len(s) \in 1..Len(w) /\ Len(s) + (k - Len(s)) = k
    BY <2>1
  <2>3. (s \o w)[k] = w[k - Len(s)]
    BY <2>2, LogGrows
  <2> QED
    BY <1>1, <2>2, <2>3
<1>4. s[k] = LenOf(m)
  BY <1>1, <1>3, LogGrows
<1>5. ~(k < Len(s))
  <2>1. SUFFICES ASSUME k < Len(s) PROVE FALSE
    OBVIOUS
  <2>2. k + TextLen[m] <= Len(s)
    BY <1>4, <2>1 DEF TextsFollow
  <2> QED
    BY <1>1, <2>2
<1>6. k = Len(s)
  BY <1>3, <1>5
<1> QED
  BY <1>1, <1>4, <1>6

(* What follows a word of s follows it in what is longer, but for the last   *)
(* one; so only the last word and the new ones are to be looked at.          *)
FramedFrom(t, n) ==
  /\ \A p \in n..(Len(t) - 1) : Ends(t, p) => \E m \in Messages : t[p + 1] = IdOf(m)
  /\ \A k \in (n + 1)..Len(t), m \in Messages :
       t[k] = IdOf(m) => k < Len(t) /\ t[k + 1] = TypeOf(m)
  /\ \A k \in n..(Len(t) - 1), m \in Messages :
       k > 0 /\ t[k] = TypeOf(m) => t[k + 1] = LenOf(m)
  /\ \A k \in n..(Len(t) - 1), m \in Messages :
       k > 0 /\ t[k] = LenOf(m) => /\ k + TextLen[m] <= Len(t)
                                   /\ \A i \in 1..TextLen[m] : t[k + i] = TextOf(m, i)

LEMMA OldStays ==
  ASSUME NEW s \in Seq(LogWords), NEW w \in Seq(LogWords), Framed(s), FramedFrom(s \o w, Len(s))
  PROVE  Framed(s \o w)
<1> DEFINE t == s \o w
           n == Len(s)
           l == Len(t)
<1>1. n \in Nat /\ l \in Nat /\ n <= l /\ \A k \in 1..n : t[k] = s[k]
  BY LogGrows
<1>2. \A p \in 0..n : Ends(t, p) <=> Ends(s, p)
  BY EndsStay
<1> HIDE DEF t
<1>3. HeadersFollow(t)
  <2> SUFFICES ASSUME NEW p \in 0..(l - 1), Ends(t, p)
               PROVE  \E m \in Messages : t[p + 1] = IdOf(m)
    BY DEF HeadersFollow
  <2>1. CASE p < n
    <3>1. p \in 0..(n - 1) /\ p \in 0..n /\ p + 1 \in 1..n
      BY <1>1, <2>1
    <3>2. PICK m \in Messages : s[p + 1] = IdOf(m)
      BY <1>2, <3>1 DEF Framed, HeadersFollow
    <3> QED
      BY <1>1, <3>1, <3>2
  <2>2. CASE p >= n
    <3>1. p \in n..(l - 1)
      BY <1>1, <2>2
    <3> QED
      BY <3>1 DEF FramedFrom, t
  <2> QED
    BY <1>1, <2>1, <2>2
<1>4. TypesFollow(t)
  <2> SUFFICES ASSUME NEW k \in 1..l, NEW m \in Messages, t[k] = IdOf(m)
               PROVE  k < l /\ t[k + 1] = TypeOf(m)
    BY DEF TypesFollow
  <2>1. CASE k <= n
    <3>1. k \in 1..n
      BY <1>1, <2>1
    <3>2. k < n /\ s[k + 1] = TypeOf(m)
      BY <1>1, <3>1 DEF Framed, TypesFollow
    <3>3. k + 1 \in 1..n
      BY <1>1, <3>1, <3>2
    <3> QED
      BY <1>1, <3>2, <3>3
  <2>2. CASE k > n
    <3>1. k \in (n + 1)..l
      BY <1>1, <2>2
    <3> QED
      BY <3>1 DEF FramedFrom, t
  <2> QED
    BY <1>1, <2>1, <2>2
<1>5. LengthsFollow(t)
  <2> SUFFICES ASSUME NEW k \in 1..(l - 1), NEW m \in Messages, t[k] = TypeOf(m)
               PROVE  t[k + 1] = LenOf(m)
    BY DEF LengthsFollow
  <2>1. CASE k < n
    <3>1. k \in 1..(n - 1) /\ k \in 1..n /\ k + 1 \in 1..n
      BY <1>1, <2>1
    <3> QED
      BY <1>1, <3>1 DEF Framed, LengthsFollow
  <2>2. CASE k >= n
    <3>1. k \in n..(l - 1) /\ k > 0
      BY <1>1, <2>2
    <3> QED
      BY <3>1 DEF FramedFrom, t
  <2> QED
    BY <1>1, <2>1, <2>2
<1>6. TextsFollow(t)
  <2> SUFFICES ASSUME NEW k \in 1..(l - 1), NEW m \in Messages, t[k] = LenOf(m)
               PROVE  /\ k + TextLen[m] <= l
                      /\ \A i \in 1..TextLen[m] : t[k + i] = TextOf(m, i)
    BY DEF TextsFollow
  <2>1. CASE k < n
    <3> DEFINE d == TextLen[m]
    <3>1. k \in 1..(n - 1) /\ k \in 1..n /\ d \in Nat
      BY <1>1, <2>1, TextAssumption
    <3>2. k + d <= n /\ \A i \in 1..d : s[k + i] = TextOf(m, i)
      BY <1>1, <3>1 DEF Framed, TextsFollow
    <3> HIDE DEF d, n, l
    <3>3. k + d <= l /\ \A i \in 1..d : k + i \in 1..n
      BY <1>1, <3>1, <3>2
    <3>4. \A i \in 1..d : t[k + i] = TextOf(m, i)
      BY <1>1, <3>2, <3>3
    <3> QED
      BY <3>3, <3>4 DEF d
  <2>2. CASE k >= n
    <3>1. k \in n..(l - 1) /\ k > 0
      BY <1>1, <2>2
    <3> QED
      BY <3>1 DEF FramedFrom, t
  <2> QED
    BY <1>1, <2>1, <2>2
<1>7. Framed(t)
  BY <1>3, <1>4, <1>5, <1>6 DEF Framed
<1> QED
  BY <1>7 DEF t

(* Each send leaves the stream framed. *)
LEMMA HeaderFramed ==
  ASSUME NEW s \in Seq(LogWords), Framed(s), NEW m \in Messages, Ends(s, Len(s))
  PROVE  Framed(s \o <<IdOf(m), TypeOf(m)>>)
<1> DEFINE w == <<IdOf(m), TypeOf(m)>>
           t == s \o w
           n == Len(s)
<1>1. w \in Seq(LogWords) /\ Len(w) = 2 /\ w[1] = IdOf(m) /\ w[2] = TypeOf(m)
  BY Sent
<1> HIDE DEF w
<1>2. n \in Nat /\ Len(t) = n + 2 /\ t[n + 1] = IdOf(m) /\ t[n + 2] = TypeOf(m)
  BY <1>1, LogGrows
<1>3. \A k \in 1..Len(w), j \in Messages : w[k] # LenOf(j)
  BY <1>1, WordsDiffer
<1>4. ASSUME n > 0, NEW j \in Messages
      PROVE  t[n] # TypeOf(j) /\ (t[n] = LenOf(j) => TextLen[j] = 0)
  <2>1. PICK l \in Messages : \/ s[n] = LenOf(l) /\ TextLen[l] = 0
                              \/ \E i \in Nat : s[n] = TextOf(l, i)
    BY <1>4, LastWord DEF Framed
  <2>2. t[n] = s[n]
    BY <1>1, <1>4, LogGrows
  <2> QED
    BY <2>1, <2>2, WordsDiffer
<1>5. ~Ends(t, n + 1)
  <2> SUFFICES ASSUME Ends(t, n + 1) PROVE FALSE
    OBVIOUS
  <2>1. n + 1 \in (n + 1)..(n + Len(w)) /\ TextsFollow(s)
    BY <1>1, <1>2 DEF Framed
  <2>2. PICK j \in Messages : n > 0 /\ s[n] = LenOf(j) /\ n + TextLen[j] = n + 1
    BY <1>1, <1>3, <2>1, NewEnd
  <2>3. t[n] = s[n]
    BY <1>1, <2>2, LogGrows
  <2> QED
    BY <1>2, <1>4, <2>2, <2>3
<1>6. FramedFrom(t, n)
  <2> HIDE DEF t, n
  <2>1. /\ \A k \in n..(Len(t) - 1) : k = n \/ k = n + 1
        /\ \A k \in (n + 1)..Len(t) : k = n + 1 \/ k = n + 2
        /\ n + 1 < Len(t) /\ (n + 1) + 1 = n + 2
    BY <1>2
  <2>2. \A p \in n..(Len(t) - 1) : Ends(t, p) => \E j \in Messages : t[p + 1] = IdOf(j)
    BY <1>2, <1>5, <2>1
  <2>3. \A k \in (n + 1)..Len(t), j \in Messages :
          t[k] = IdOf(j) => k < Len(t) /\ t[k + 1] = TypeOf(j)
    BY <1>2, <2>1, WordsDiffer
  <2>4. \A k \in n..(Len(t) - 1), j \in Messages : k > 0 => t[k] # TypeOf(j)
    BY <1>2, <1>4, <2>1, WordsDiffer
  <2>5. \A k \in n..(Len(t) - 1), j \in Messages : k > 0 /\ t[k] = LenOf(j) => TextLen[j] = 0
    BY <1>2, <1>4, <2>1, WordsDiffer
  <2>6. \A k \in n..(Len(t) - 1) : k + 0 <= Len(t)
    BY <1>2
  <2>7. 1..0 = {}
    OBVIOUS
  <2> QED
    BY <2>2, <2>3, <2>4, <2>5, <2>6, <2>7, Zenon DEF FramedFrom
<1> QED
  BY <1>1, <1>6, OldStays DEF w

LEMMA LengthFramed ==
  ASSUME NEW s \in Seq(LogWords), Framed(s), NEW m \in Messages,
         Len(s) > 0, s[Len(s)] = TypeOf(m)
  PROVE  Framed(s \o <<LenOf(m)>>)
<1> DEFINE w == <<LenOf(m)>>
           t == s \o w
           n == Len(s)
<1>1. w \in Seq(LogWords) /\ Len(w) = 1 /\ w[1] = LenOf(m)
  BY Sent
<1> HIDE DEF w
<1>2. n \in Nat /\ Len(t) = n + 1 /\ t[n + 1] = LenOf(m) /\ t[n] = TypeOf(m)
  <2>1. n \in Nat /\ n \in 1..n /\ 1 \in 1..Len(w)
    BY <1>1
  <2>2. Len(t) = n + Len(w) /\ t[n] = s[n] /\ t[n + 1] = w[1]
    BY <1>1, <2>1, LogGrows
  <2> QED
    BY <1>1, <2>1, <2>2
<1>3. ~Ends(t, n)
  <2>1. ~Ends(s, n)
    BY LastWord, WordsDiffer DEF Framed
  <2> QED
    BY <1>1, <2>1, EndsStay
<1>4. FramedFrom(t, n)
  <2> HIDE DEF t, n
  <2>1. /\ \A k \in n..(Len(t) - 1) : k = n
        /\ \A k \in (n + 1)..Len(t) : k = n + 1
    BY <1>2
  <2>2. \A k \in (n + 1)..Len(t), j \in Messages : t[k] # IdOf(j)
    BY <1>2, <2>1, WordsDiffer
  <2>3. \A k \in n..(Len(t) - 1), j \in Messages : t[k] = TypeOf(j) => t[k + 1] = LenOf(j)
    BY <1>2, <2>1, WordsDiffer
  <2>4. \A k \in n..(Len(t) - 1), j \in Messages : t[k] # LenOf(j)
    BY <1>2, <2>1, WordsDiffer
  <2> QED
    BY <1>3, <2>1, <2>2, <2>3, <2>4, Zenon DEF FramedFrom
<1> QED
  BY <1>1, <1>4, OldStays DEF w

LEMMA TextFramed ==
  ASSUME NEW s \in Seq(LogWords), Framed(s), NEW m \in Messages,
         Len(s) > 0, s[Len(s)] = LenOf(m)
  PROVE  Framed(s \o Text(m)) /\ Ends(s \o Text(m), Len(s \o Text(m)))
<1> DEFINE w == Text(m)
           t == s \o w
           n == Len(s)
           d == TextLen[m]
<1>1. /\ w \in Seq(LogWords) /\ Len(w) = d /\ d \in Nat
      /\ \A i \in 1..d : w[i] = TextOf(m, i)
  BY Sent, TextAssumption
<1> HIDE DEF w
<1>2. /\ n \in Nat /\ n > 0 /\ Len(t) = n + d /\ \A i \in 1..d : t[n + i] = TextOf(m, i)
      /\ t[n] = LenOf(m)
  BY <1>1, LogGrows
<1>3. \A k \in 1..Len(w), j \in Messages : w[k] # LenOf(j)
  BY <1>1, WordsDiffer
<1>4. \A p \in (n + 1)..(n + d) : Ends(t, p) => p = n + d
  <2> SUFFICES ASSUME NEW p \in (n + 1)..(n + d), Ends(t, p)
               PROVE  p = n + d
    OBVIOUS
  <2>1. PICK j \in Messages : s[n] = LenOf(j) /\ n + TextLen[j] = p
    BY <1>1, <1>3, NewEnd DEF Framed
  <2>2. j = m
    BY <2>1, WordsDiffer
  <2> QED
    BY <2>1, <2>2
<1>5. Ends(t, n) => d = 0
  <2> SUFFICES ASSUME Ends(s, n) PROVE d = 0
    BY <1>1, EndsStay
  <2>1. PICK l \in Messages : \/ s[n] = LenOf(l) /\ TextLen[l] = 0
                              \/ \E i \in Nat : s[n] = TextOf(l, i)
    BY LastWord DEF Framed
  <2> QED
    BY <2>1, WordsDiffer
<1>6. FramedFrom(t, n) /\ Ends(t, Len(t))
  <2> HIDE DEF t, n, d
  <2>1. \A k \in (n + 1)..Len(t) : \E i \in 1..d : t[k] = TextOf(m, i)
    <3> SUFFICES ASSUME NEW k \in (n + 1)..Len(t)
                 PROVE  \E i \in 1..d : t[k] = TextOf(m, i)
      OBVIOUS
    <3>1. k - n \in 1..d /\ n + (k - n) = k
      BY <1>1, <1>2
    <3> QED
      BY <1>2, <3>1
  <2>2. \A k \in (n + 1)..Len(t), j \in Messages :
          t[k] # IdOf(j) /\ t[k] # TypeOf(j) /\ t[k] # LenOf(j)
    <3> SUFFICES ASSUME NEW k \in (n + 1)..Len(t), NEW j \in Messages
                 PROVE  t[k] # IdOf(j) /\ t[k] # TypeOf(j) /\ t[k] # LenOf(j)
      OBVIOUS
    <3>1. PICK i \in 1..d : t[k] = TextOf(m, i)
      BY <2>1
    <3>2. i \in Nat
      BY <1>1, <3>1
    <3> QED
      BY <3>1, <3>2, WordsDiffer
  <2>3. \A p \in n..(Len(t) - 1) : ~Ends(t, p)
    <3> SUFFICES ASSUME NEW p \in n..(Len(t) - 1), Ends(t, p) PROVE FALSE
      OBVIOUS
    <3>1. p = n \/ p \in (n + 1)..(n + d)
      BY <1>1, <1>2
    <3> QED
      BY <1>1, <1>2, <1>4, <1>5, <3>1
  <2>4. \A k \in n..(Len(t) - 1) : k = n \/ k \in (n + 1)..Len(t)
    BY <1>1, <1>2
  <2>5. \A k \in n..(Len(t) - 1), j \in Messages : t[k] # TypeOf(j)
    BY <1>2, <2>2, <2>4, WordsDiffer
  <2>6. \A k \in n..(Len(t) - 1), j \in Messages : t[k] = LenOf(j) => k = n /\ j = m
    BY <1>2, <2>2, <2>4, WordsDiffer
  <2>7. n + TextLen[m] <= Len(t) /\ \A i \in 1..TextLen[m] : t[n + i] = TextOf(m, i)
    BY <1>1, <1>2 DEF d
  <2>8. FramedFrom(t, n)
    BY <2>2, <2>3, <2>5, <2>6, <2>7, Zenon DEF FramedFrom
  <2>9. n \in 1..Len(t) /\ n + TextLen[m] = Len(t)
    BY <1>1, <1>2 DEF d
  <2>10. Ends(t, Len(t))
    BY <1>2, <2>9, Zenon DEF Ends
  <2> QED
    BY <2>8, <2>10
<1> QED
  BY <1>1, <1>6, OldStays DEF w

(* The threads that write, and where the viewer is.  Nothing is said once    *)
(* two writes have overlapped or a read has come short.                      *)
Writer(next, m) == [next |-> next, m |-> m]
Viewer(at, m, len) == [at |-> at, id |-> IdOf(m), type |-> TypeOf(m), len |-> len]

LogType ==
  /\ stream \in Seq(LogWords) /\ arrived \in Nat /\ pos \in Nat
  /\ pos <= arrived /\ arrived <= Len(stream)
  /\ DOMAIN srv = Servers

Started == \A k \in 1..Len(stream), m \in Messages : stream[k] = IdOf(m) => m \notin todo

EndsIn(w) == Len(stream) > 0 /\ stream[Len(stream)] = w

OneWrites == \A r, s \in Servers : srv[r] # Nobody /\ srv[s] # Nobody => r = s
IdleFits == up /\ (\A s \in Servers : srv[s] = Nobody) => Ends(stream, Len(stream))
WriterFits(x) ==
  \/ x = Nobody
  \/ \E m \in Messages \ todo :
       \/ x = Writer("header", m) /\ (up => Ends(stream, Len(stream)))
       \/ x = Writer("length", m) /\ (up => EndsIn(TypeOf(m)))
       \/ x = Writer("text", m) /\ (up => EndsIn(LenOf(m)))
WritersFit == OneWrites /\ IdleFits /\ \A s \in Servers : WriterFits(srv[s])

ViewerFits ==
  \/ view = Waiting /\ Ends(stream, pos)
  \/ \E m \in Messages \ todo :
       \/ view = Viewer("length", m, 0) /\ pos > 0 /\ stream[pos] = TypeOf(m)
       \/ view = Viewer("text", m, TextLen[m]) /\ pos > 0 /\ stream[pos] = LenOf(m)

Shows == \A r \in shown : \E m \in Messages \ todo : r = Record(m)

LogInv ==
  LogType /\ Framed(stream) /\ Started /\ WritersFit /\ ViewerFits /\ Shows

LogIInv == ~torn => LogInv

LEMMA LogInitIInv == LogInit => LogIInv
<1> SUFFICES ASSUME LogInit PROVE LogInv
  BY DEF LogIInv
<1>1. stream = <<>> /\ Len(stream) = 0
  BY DEF LogInit
<1>2. LogType
  BY DEF LogInit, LogType
<1>3. Framed(stream) /\ Started
  BY <1>1 DEF Framed, HeadersFollow, TypesFollow, LengthsFollow, TextsFollow, Started
<1>4. WritersFit
  BY <1>1 DEF LogInit, WritersFit, OneWrites, IdleFits, WriterFits, Ends
<1>5. ViewerFits /\ Shows
  BY DEF LogInit, ViewerFits, Shows, Ends
<1> QED
  BY <1>2, <1>3, <1>4, <1>5 DEF LogInv

LEMMA WriterIs ==
  ASSUME NEW m, NEW next \in {"header", "length", "text"}
  PROVE  Writer(next, m) # Nobody /\ Writer(next, m).next = next /\ Writer(next, m).m = m
  BY DEF Writer, Nobody

(* A message is asked for: what is not asked for stays so. *)
LEMMA AskKeeps ==
  ASSUME LogInv, NEW m \in Messages, todo' = todo \ {m},
         UNCHANGED <<stream, arrived, up, pos, view, shown>>, DOMAIN srv' = Servers
  PROVE  /\ LogType' /\ Framed(stream)' /\ Started' /\ ViewerFits' /\ Shows'
         /\ \A x : WriterFits(x) => WriterFits(x)'
<1>1. Messages \ todo \subseteq Messages \ todo'
  OBVIOUS
<1>2. LogType' /\ Framed(stream)'
  BY DEF LogInv, LogType
<1>3. Started'
  BY DEF LogInv, Started
<1>4. Shows'
  BY <1>1 DEF LogInv, Shows
<1>5. ViewerFits'
  BY <1>1 DEF LogInv, ViewerFits
<1>6. \A x : WriterFits(x) => WriterFits(x)'
  BY <1>1 DEF WriterFits, EndsIn
<1> QED
  BY <1>2, <1>3, <1>4, <1>5, <1>6

LEMMA LogWriteKeeps ==
  ASSUME LogInv, NEW s \in Servers, NEW m \in Messages, LogWrite(s, m), ~torn'
  PROVE  LogInv'
<1>1. (\A r \in Servers : srv[r] = Nobody) /\ srv' = [srv EXCEPT ![s] = Writer("header", m)]
  BY DEF LogWrite, Writer
<1>2. DOMAIN srv' = Servers /\ srv'[s] = Writer("header", m) /\ \A r \in Servers : r # s => srv'[r] = Nobody
  BY <1>1 DEF LogInv, LogType
<1>3. /\ LogType' /\ Framed(stream)' /\ Started' /\ ViewerFits' /\ Shows'
      /\ \A x : WriterFits(x) => WriterFits(x)'
  BY <1>2, AskKeeps DEF LogWrite
<1>4. UNCHANGED <<stream, up>> /\ m \notin todo' /\ (up => Ends(stream, Len(stream)))
  BY <1>1 DEF LogWrite, LogInv, WritersFit, IdleFits
<1>5. OneWrites' /\ IdleFits'
  BY <1>2, <1>4 DEF OneWrites, IdleFits
<1>6. \A r \in Servers : WriterFits(srv[r])'
  <2>1. WriterFits(srv[s])'
    BY <1>2, <1>4 DEF WriterFits
  <2>2. \A r \in Servers : r # s => WriterFits(srv[r])'
    BY <1>2 DEF WriterFits
  <2> QED
    BY <2>1, <2>2
<1> QED
  BY <1>3, <1>5, <1>6 DEF LogInv, WritersFit

LEMMA LogRefusedKeeps ==
  ASSUME LogInv, NEW m \in Messages, WriteRefused(m)
  PROVE  LogInv'
<1>1. /\ LogType' /\ Framed(stream)' /\ Started' /\ ViewerFits' /\ Shows'
      /\ \A x : WriterFits(x) => WriterFits(x)'
  BY AskKeeps DEF WriteRefused, LogInv, LogType
<1>2. UNCHANGED <<stream, up, srv>>
  BY DEF WriteRefused
<1>3. WritersFit'
  BY <1>1, <1>2 DEF LogInv, WritersFit, OneWrites, IdleFits
<1> QED
  BY <1>1, <1>3 DEF LogInv

(* Words are sent: the viewer does not see a difference. *)
LEMMA GrowKeeps ==
  ASSUME LogInv, NEW w \in Seq(LogWords), stream' = stream \o w,
         UNCHANGED <<arrived, todo, pos, view, shown>>, DOMAIN srv' = Servers
  PROVE  LogType' /\ ViewerFits' /\ Shows'
<1>1. stream \in Seq(LogWords) /\ pos \in 0..Len(stream)
  BY DEF LogInv, LogType
<1>2. stream' \in Seq(LogWords) /\ Len(stream') = Len(stream) + Len(w) /\ Len(w) \in Nat
      /\ \A k \in 1..Len(stream) : stream'[k] = stream[k]
  BY <1>1, LogGrows
<1>3. Ends(stream, pos) => Ends(stream', pos)
  BY <1>1, EndsStay
<1>4. LogType'
  BY <1>1, <1>2 DEF LogInv, LogType
<1>5. ViewerFits'
  <2>1. pos > 0 => stream'[pos] = stream[pos]
    BY <1>1, <1>2
  <2> QED
    BY <1>3, <2>1 DEF LogInv, ViewerFits
<1>6. Shows'
  BY DEF LogInv, Shows
<1> QED
  BY <1>4, <1>5, <1>6

(* One thread sends, and the others are idle. *)
LEMMA LogSendKeeps ==
  ASSUME LogInv, NEW s \in Servers, NEW m \in Messages \ todo, NEW next,
         NEW w \in Seq(LogWords), srv[s] # Nobody, srv' = [srv EXCEPT ![s] = next],
         stream' = stream \o w, Framed(stream'), Started', up,
         UNCHANGED <<arrived, up, todo, pos, view, shown>>,
         \/ next = Nobody /\ Ends(stream', Len(stream'))
         \/ next = Writer("length", m) /\ EndsIn(TypeOf(m))'
         \/ next = Writer("text", m) /\ EndsIn(LenOf(m))'
  PROVE  LogInv'
<1>1. DOMAIN srv' = Servers /\ srv'[s] = next /\ \A r \in Servers : r # s => srv'[r] = Nobody
  BY DEF LogInv, LogType, WritersFit, OneWrites
<1>2. LogType' /\ ViewerFits' /\ Shows'
  BY <1>1, GrowKeeps
<1>3. OneWrites'
  BY <1>1 DEF OneWrites
<1>4. next # Nobody \/ Ends(stream', Len(stream'))
  BY WriterIs
<1>5. IdleFits'
  BY <1>1, <1>4 DEF IdleFits
<1>6. \A r \in Servers : WriterFits(srv[r])'
  <2>1. WriterFits(srv[s])'
    BY <1>1 DEF WriterFits
  <2>2. \A r \in Servers : r # s => WriterFits(srv[r])'
    BY <1>1 DEF WriterFits
  <2> QED
    BY <2>1, <2>2
<1> QED
  BY <1>2, <1>3, <1>5, <1>6 DEF LogInv, WritersFit

(* A send that fails ends the Write, and nothing is sent any more. *)
LEMMA LogFailKeeps ==
  ASSUME LogInv, NEW s \in Servers, ~up, srv' = [srv EXCEPT ![s] = Nobody],
         UNCHANGED <<stream, arrived, up, todo, pos, view, shown>>
  PROVE  LogInv'
<1>1. DOMAIN srv' = Servers /\ \A r \in Servers : srv'[r] = Nobody \/ srv'[r] = srv[r]
  BY DEF LogInv, LogType
<1>2. LogType' /\ Framed(stream)' /\ Started' /\ ViewerFits' /\ Shows'
  BY <1>1 DEF LogInv, LogType, Started, ViewerFits, Shows
<1>3. OneWrites' /\ IdleFits'
  BY <1>1 DEF LogInv, WritersFit, OneWrites, IdleFits
<1>4. \A r \in Servers : WriterFits(srv[r])'
  BY <1>1 DEF LogInv, WritersFit, WriterFits
<1> QED
  BY <1>2, <1>3, <1>4 DEF LogInv, WritersFit

(* Words that are no ids start no message. *)
LEMMA StartedStays ==
  ASSUME LogInv, NEW w \in Seq(LogWords), stream' = stream \o w, UNCHANGED todo,
         \A k \in 1..Len(w), m \in Messages : w[k] = IdOf(m) => m \notin todo
  PROVE  Started'
<1> SUFFICES ASSUME NEW k \in 1..Len(stream'), NEW m \in Messages, stream'[k] = IdOf(m)
             PROVE  m \notin todo
  BY DEF Started
<1> DEFINE n == Len(stream)
<1>1. /\ stream \in Seq(LogWords) /\ n \in Nat /\ Len(w) \in Nat /\ Len(stream') = n + Len(w)
      /\ \A j \in 1..n : stream'[j] = stream[j]
      /\ \A j \in 1..Len(w) : stream'[n + j] = w[j]
  BY LogGrows DEF LogInv, LogType
<1>2. CASE k <= n
  <2>1. k \in 1..n
    BY <1>1, <1>2
  <2> QED
    BY <1>1, <2>1 DEF LogInv, Started
<1>3. CASE k > n
  <2>1. k - n \in 1..Len(w) /\ n + (k - n) = k
    BY <1>1, <1>3
  <2>2. w[k - n] = IdOf(m)
    BY <1>1, <2>1
  <2> QED
    BY <2>1, <2>2
<1> QED
  BY <1>1, <1>2, <1>3

(* The stream ends in the last word that was sent. *)
LEMMA LastSent ==
  ASSUME NEW s \in Seq(LogWords), NEW w \in Seq(LogWords), Len(w) > 0
  PROVE  Len(s \o w) > 0 /\ (s \o w)[Len(s \o w)] = w[Len(w)]
<1>1. Len(s) \in Nat /\ Len(w) \in Nat /\ Len(w) \in 1..Len(w)
  OBVIOUS
<1>2. Len(s \o w) = Len(s) + Len(w) /\ (s \o w)[Len(s) + Len(w)] = w[Len(w)]
  BY <1>1, LogGrows
<1> QED
  BY <1>1, <1>2

LEMMA HeaderKeeps ==
  ASSUME LogInv, NEW s \in Servers, SendLogHeader(s)
  PROVE  LogInv'
<1>1. PICK m \in Messages \ todo :
        srv[s] = Writer("header", m) /\ (up => Ends(stream, Len(stream)))
  <2>1. srv[s].next = "header" /\ WriterFits(srv[s])
    BY DEF SendLogHeader, LogInv, WritersFit
  <2> QED
    BY <2>1, WriterIs DEF WriterFits, Nobody
<1> DEFINE w == <<IdOf(m), TypeOf(m)>>
<1>2. SendRaw(s, w, Writer("length", m))
  BY <1>1 DEF SendLogHeader, Writer, IdOf, TypeOf
<1>3. w \in Seq(LogWords) /\ Len(w) = 2 /\ w[1] = IdOf(m) /\ w[2] = TypeOf(m)
  BY Sent
<1> HIDE DEF w
<1>4. CASE up
  <2>1. /\ stream' = stream \o w /\ srv' = [srv EXCEPT ![s] = Writer("length", m)]
        /\ UNCHANGED <<arrived, up, todo, pos, view, shown>>
    BY <1>2, <1>4 DEF SendRaw
  <2>2. Framed(stream')
    BY <1>1, <1>4, <2>1, HeaderFramed DEF w, LogInv, LogType
  <2>3. EndsIn(TypeOf(m))'
    <3>1. stream \in Seq(LogWords) /\ Len(w) > 0
      BY <1>3 DEF LogInv, LogType
    <3> QED
      BY <1>3, <2>1, <3>1, LastSent DEF EndsIn
  <2>4. \A k \in 1..Len(w), j \in Messages : w[k] = IdOf(j) => j \notin todo
    BY <1>3, WordsDiffer
  <2>5. Started'
    BY <1>3, <2>1, <2>4, StartedStays
  <2>6. srv[s] # Nobody
    BY <1>1, WriterIs
  <2> QED
    BY <1>3, <1>4, <2>1, <2>2, <2>3, <2>5, <2>6, LogSendKeeps
<1>5. CASE ~up
  BY <1>2, <1>5, LogFailKeeps DEF SendRaw
<1> QED
  BY <1>4, <1>5

LEMMA StringKeeps ==
  ASSUME LogInv, NEW s \in Servers, SendString(s)
  PROVE  LogInv'
<1>1. CASE srv[s].next = "length"
  <2>1. PICK m \in Messages \ todo :
          srv[s] = Writer("length", m) /\ (up => EndsIn(TypeOf(m)))
    <3>1. WriterFits(srv[s])
      BY DEF LogInv, WritersFit
    <3> QED
      BY <1>1, <3>1, WriterIs DEF WriterFits, Nobody
  <2> DEFINE w == <<LenOf(m)>>
  <2>2. SendRaw(s, w, Writer("text", m))
    BY <1>1, <2>1 DEF SendString, Writer, LenOf
  <2>3. w \in Seq(LogWords) /\ Len(w) = 1 /\ w[1] = LenOf(m)
    BY Sent
  <2> HIDE DEF w
  <2>4. CASE up
    <3>1. /\ stream' = stream \o w /\ srv' = [srv EXCEPT ![s] = Writer("text", m)]
          /\ UNCHANGED <<arrived, up, todo, pos, view, shown>>
      BY <2>2, <2>4 DEF SendRaw
    <3>2. Framed(stream')
      BY <2>1, <2>4, <3>1, LengthFramed DEF w, LogInv, LogType, EndsIn
    <3>3. EndsIn(LenOf(m))'
      <4>1. stream \in Seq(LogWords) /\ Len(w) > 0
        BY <2>3 DEF LogInv, LogType
      <4> QED
        BY <2>3, <3>1, <4>1, LastSent DEF EndsIn
    <3>4. \A k \in 1..Len(w), j \in Messages : w[k] = IdOf(j) => j \notin todo
      BY <2>3, WordsDiffer
    <3>5. Started'
      BY <2>3, <3>1, <3>4, StartedStays
    <3>6. srv[s] # Nobody
      BY <2>1, WriterIs
    <3> QED
      BY <2>3, <2>4, <3>1, <3>2, <3>3, <3>5, <3>6, LogSendKeeps
  <2>5. CASE ~up
    BY <2>2, <2>5, LogFailKeeps DEF SendRaw
  <2> QED
    BY <2>4, <2>5
<1>2. CASE srv[s].next = "text"
  <2>1. PICK m \in Messages \ todo :
          srv[s] = Writer("text", m) /\ (up => EndsIn(LenOf(m)))
    <3>1. WriterFits(srv[s])
      BY DEF LogInv, WritersFit
    <3> QED
      BY <1>2, <3>1, WriterIs DEF WriterFits, Nobody
  <2> DEFINE w == Text(m)
  <2>2. SendRaw(s, w, Nobody)
    BY <1>2, <2>1 DEF SendString, Writer
  <2>3. w \in Seq(LogWords) /\ Len(w) = TextLen[m] /\ \A k \in 1..Len(w) : w[k] = TextOf(m, k)
    BY Sent
  <2> HIDE DEF w
  <2>4. CASE up
    <3>1. /\ stream' = stream \o w /\ srv' = [srv EXCEPT ![s] = Nobody]
          /\ UNCHANGED <<arrived, up, todo, pos, view, shown>>
      BY <2>2, <2>4 DEF SendRaw
    <3>2. Framed(stream') /\ Ends(stream', Len(stream'))
      BY <2>1, <2>4, <3>1, TextFramed DEF w, LogInv, LogType, EndsIn
    <3>3. \A k \in 1..Len(w), j \in Messages : w[k] = IdOf(j) => j \notin todo
      <4>1. \A k \in 1..Len(w) : k \in Nat
        BY <2>3
      <4> QED
        BY <2>3, <4>1, WordsDiffer
    <3>4. Started'
      BY <2>3, <3>1, <3>3, StartedStays
    <3>5. srv[s] # Nobody
      BY <2>1, WriterIs
    <3> QED
      BY <2>3, <2>4, <3>1, <3>2, <3>4, <3>5, LogSendKeeps
  <2>5. CASE ~up
    BY <2>2, <2>5, LogFailKeeps DEF SendRaw
  <2> QED
    BY <2>4, <2>5
<1> QED
  BY <1>1, <1>2 DEF SendString

LEMMA SocketKeeps ==
  ASSUME LogInv, Deliver \/ Lose
  PROVE  LogInv'
<1>1. UNCHANGED <<stream, todo, srv, pos, view, shown>> /\ (up' => up)
  BY DEF Deliver, Lose
<1>2. arrived' \in Nat /\ arrived <= arrived' /\ arrived' <= Len(stream)
  BY DEF Deliver, Lose, LogInv, LogType
<1>3. LogType'
  BY <1>1, <1>2 DEF LogInv, LogType
<1>4. Framed(stream)' /\ Started' /\ ViewerFits' /\ Shows'
  BY <1>1 DEF LogInv, Started, ViewerFits, Shows
<1>5. WritersFit'
  BY <1>1 DEF LogInv, WritersFit, OneWrites, IdleFits, WriterFits, EndsIn
<1> QED
  BY <1>3, <1>4, <1>5 DEF LogInv

(* A read that finds all it asks for. *)
LEMMA WholeRead ==
  ASSUME LogInv, NEW n \in Nat, Take(n), ~torn'
  PROVE  /\ pos + n <= arrived /\ pos' = pos + n
         /\ Data(n) = [i \in 1..n |-> stream[pos + i]]
<1>1. Count(n) = n
  BY DEF Take, Count, LogInv, LogType
<1>2. pos + n <= arrived
  BY <1>1 DEF Count, LogInv, LogType
<1>3. Data(n) = [i \in 1..n |-> stream[pos + i]]
  <2>1. \A i \in 1..n : i <= Count(n)
    BY <1>1
  <2> QED
    BY <2>1 DEF Data
<1> QED
  BY <1>1, <1>2, <1>3 DEF Take

(* The viewer reads on: the threads and the stream are as before. *)
LEMMA ReadKeepsOthers ==
  ASSUME LogInv, NEW n \in Nat, Take(n), ~torn'
  PROVE  LogType' /\ Framed(stream)' /\ Started' /\ WritersFit'
<1>1. UNCHANGED <<stream, arrived, up, todo, srv>>
  BY DEF Take
<1>2. pos + n <= arrived /\ pos' = pos + n
  BY WholeRead
<1>3. LogType'
  BY <1>1, <1>2 DEF LogInv, LogType
<1>4. Framed(stream)' /\ Started'
  BY <1>1 DEF LogInv, Started
<1>5. WritersFit'
  BY <1>1 DEF LogInv, WritersFit, OneWrites, IdleFits, WriterFits, EndsIn
<1> QED
  BY <1>3, <1>4, <1>5

LEMMA ViewerIs ==
  ASSUME NEW m, NEW len, NEW at \in {"length", "text"}
  PROVE  Viewer(at, m, len).at = at /\ Waiting.at = "header"
  BY DEF Viewer, Waiting

LEMMA ReadHeaderKeeps ==
  ASSUME LogInv, ReadHeader, ~torn'
  PROVE  LogInv'
<1>1. view = Waiting /\ Ends(stream, pos)
  <2>1. view.at = "header" /\ ViewerFits
    BY DEF ReadHeader, LogInv
  <2> QED
    BY <2>1, ViewerIs DEF ViewerFits
<1>2. LogType' /\ Framed(stream)' /\ Started' /\ WritersFit'
  BY ReadKeepsOthers DEF ReadHeader
<1>3. pos + 2 <= arrived /\ pos' = pos + 2 /\ Data(2) = [i \in 1..2 |-> stream[pos + i]]
  BY WholeRead DEF ReadHeader
<1>4. Data(2)[1] = stream[pos + 1] /\ Data(2)[2] = stream[pos + 2]
  BY <1>3
<1>5. pos \in 0..(Len(stream) - 1) /\ pos + 1 \in 1..Len(stream) /\ (pos + 1) + 1 = pos + 2
  BY <1>3 DEF LogInv, LogType
<1>6. PICK m \in Messages : stream[pos + 1] = IdOf(m)
  BY <1>1, <1>5 DEF LogInv, Framed, HeadersFollow
<1>7. stream[pos + 2] = TypeOf(m) /\ m \notin todo
  <2>1. stream[(pos + 1) + 1] = TypeOf(m)
    BY <1>5, <1>6 DEF LogInv, Framed, TypesFollow
  <2>2. m \notin todo
    BY <1>5, <1>6 DEF LogInv, Started
  <2> QED
    BY <1>5, <2>1, <2>2
<1>8. view' = Viewer("length", m, 0)
  BY <1>4, <1>6, <1>7 DEF ReadHeader, Viewer
<1>9. UNCHANGED <<stream, todo, shown>> /\ pos' > 0
  BY <1>3, <1>5 DEF ReadHeader, Take
<1>10. ViewerFits'
  BY <1>3, <1>7, <1>8, <1>9 DEF ViewerFits
<1>11. Shows'
  BY <1>9 DEF LogInv, Shows
<1> QED
  BY <1>2, <1>10, <1>11 DEF LogInv

LEMMA ReadLengthKeeps ==
  ASSUME LogInv, ReadLength, ~torn'
  PROVE  LogInv'
<1>1. PICK m \in Messages \ todo :
        view = Viewer("length", m, 0) /\ pos > 0 /\ stream[pos] = TypeOf(m)
  <2>1. view.at = "length" /\ ViewerFits
    BY DEF ReadLength, LogInv
  <2> QED
    BY <2>1, ViewerIs DEF ViewerFits
<1>2. LogType' /\ Framed(stream)' /\ Started' /\ WritersFit'
  BY ReadKeepsOthers DEF ReadLength
<1>3. pos + 1 <= arrived /\ pos' = pos + 1 /\ Data(1) = [i \in 1..1 |-> stream[pos + i]]
  BY WholeRead DEF ReadLength
<1>4. Data(1)[1] = stream[pos + 1]
  BY <1>3
<1>5. pos \in 1..(Len(stream) - 1)
  BY <1>1, <1>3 DEF LogInv, LogType
<1>6. stream[pos + 1] = LenOf(m)
  BY <1>1, <1>5 DEF LogInv, Framed, LengthsFollow
<1>7. Data(1)[1][1] = "len" /\ Data(1)[1][2] = m
  BY <1>4, <1>6 DEF LenOf
<1>8. view' = [view EXCEPT !.at = "text", !.len = TextLen[m]]
  BY <1>7 DEF ReadLength
<1>9. view' = Viewer("text", m, TextLen[m])
  BY <1>1, <1>8 DEF Viewer
<1>10. UNCHANGED <<stream, todo, shown>> /\ pos' > 0
  BY <1>3, <1>5 DEF ReadLength, Take
<1>11. ViewerFits'
  BY <1>3, <1>6, <1>9, <1>10 DEF ViewerFits
<1>12. Shows'
  BY <1>10 DEF LogInv, Shows
<1> QED
  BY <1>2, <1>11, <1>12 DEF LogInv

LEMMA ReadTextKeeps ==
  ASSUME LogInv, ReadText, ~torn'
  PROVE  LogInv'
<1>1. PICK m \in Messages \ todo :
        view = Viewer("text", m, TextLen[m]) /\ pos > 0 /\ stream[pos] = LenOf(m)
  <2>1. view.at = "text" /\ ViewerFits
    BY DEF ReadText, LogInv
  <2> QED
    BY <2>1, ViewerIs DEF ViewerFits
<1> DEFINE d == TextLen[m]
<1>2. d \in Nat /\ view.len = d /\ view.id = IdOf(m) /\ view.type = TypeOf(m)
  BY <1>1, TextAssumption DEF Viewer
<1>3. Take(d)
  BY <1>2 DEF ReadText
<1>4. LogType' /\ Framed(stream)' /\ Started' /\ WritersFit'
  BY <1>2, <1>3, ReadKeepsOthers
<1>5. pos + d <= arrived /\ pos' = pos + d /\ Data(d) = [i \in 1..d |-> stream[pos + i]]
  BY <1>2, <1>3, WholeRead
<1>6. \A i \in 1..d : stream[pos + i] = TextOf(m, i)
  <2>1. CASE d = 0
    BY <2>1
  <2>2. CASE d # 0
    <3>1. pos \in 1..(Len(stream) - 1)
      BY <1>1, <1>2, <1>5, <2>2 DEF LogInv, LogType
    <3> QED
      BY <1>1, <3>1 DEF LogInv, Framed, TextsFollow
  <2> QED
    BY <2>1, <2>2
<1>7. Data(d) = Text(m)
  BY <1>5, <1>6 DEF Text, TextOf
<1>8. shown' \subseteq shown \cup {Record(m)}
  BY <1>2, <1>7 DEF ReadText, Record, IdOf, TypeOf
<1>9. UNCHANGED <<stream, todo>> /\ view' = Waiting
  BY <1>3 DEF Take, ReadText
<1>10. Shows'
  BY <1>8, <1>9 DEF LogInv, Shows
<1>11. Ends(stream, pos + d)
  <2>1. pos \in 1..(pos + d)
    BY <1>1, <1>2 DEF LogInv, LogType
  <2> QED
    BY <1>1, <2>1 DEF Ends
<1>12. ViewerFits'
  BY <1>5, <1>9, <1>11 DEF ViewerFits
<1> QED
  BY <1>4, <1>10, <1>12 DEF LogInv

LEMMA LogNextIInv == LogIInv /\ [LogNext]_logvars => LogIInv'
<1> SUFFICES ASSUME LogIInv, [LogNext]_logvars, ~torn' PROVE LogInv'
  BY DEF LogIInv
<1>1. ~torn
  BY DEF LogNext, logvars, LogWrite, WriteRefused, Send, SendLogHeader, SendString, SendRaw,
         Deliver, Lose, Receive, ReadHeader, ReadLength, ReadText, Take
<1>2. LogInv
  BY <1>1 DEF LogIInv
<1>3. CASE UNCHANGED logvars
  <2>1. UNCHANGED <<stream, arrived, up, todo, srv, pos, view, shown>>
    BY <1>3 DEF logvars
  <2>2. LogType' /\ Framed(stream)' /\ Started' /\ ViewerFits' /\ Shows'
    BY <1>2, <2>1 DEF LogInv, LogType, Started, ViewerFits, Shows
  <2>3. WritersFit'
    BY <1>2, <2>1 DEF LogInv, WritersFit, OneWrites, IdleFits, WriterFits, EndsIn
  <2> QED
    BY <2>2, <2>3 DEF LogInv
<1>4. CASE Send
  BY <1>2, <1>4, HeaderKeeps, StringKeeps DEF Send
<1>5. CASE Receive
  BY <1>2, <1>5, ReadHeaderKeeps, ReadLengthKeeps, ReadTextKeeps DEF Receive
<1> QED
  BY <1>2, <1>3, <1>4, <1>5, LogWriteKeeps, LogRefusedKeeps, SocketKeeps DEF LogNext

(* For any number of threads and messages and texts of any length, what the  *)
(* viewer shows was written, as long as no two writes overlap and no read    *)
(* comes short.                                                              *)
THEOREM LogShownWasWritten == LogSpec => []ShownWasWritten
<1>1. LogIInv => ShownWasWritten
  BY DEF LogIInv, LogInv, Shows, ShownWasWritten
<1> QED
  BY <1>1, LogInitIInv, LogNextIInv, PTL DEF LogSpec

-------------------------------------------------------------------------------
(* The layout of a request, for every request and not only the small ones.   *)
USE WordsAssumption

(* Whole words and what is left of them. *)
LEMMA Words4 ==
  ASSUME NEW n \in Nat
  PROVE  /\ n \div 4 \in Nat /\ (n + 3) \div 4 \in Nat /\ (n + 3) \div 4 <= n \div 4 + 1
         /\ \A k \in Nat : (n + 4 * k) \div 4 = n \div 4 + k
<1>1. n \div 4 \in Nat /\ (n + 3) \div 4 \in Nat /\ (n + 3) \div 4 <= n \div 4 + 1
  OBVIOUS
<1>2. \A k \in Nat : (n + 4 * k) \div 4 = n \div 4 + k
  OBVIOUS
<1> QED
  BY <1>1, <1>2

(* The padding that aligns to four words is of at most three, and does so. *)
LEMMA PadAligns ==
  ASSUME NEW at \in Nat
  PROVE  Pad(at) \in 0..3 /\ (at + Pad(at)) % 4 = 0
<1>1. PICK r \in 0..3 : at % 4 = r
  OBVIOUS
<1>2. Pad(at) = (4 - r) % 4
  BY <1>1 DEF Pad
<1>3. Pad(at) = IF r = 0 THEN 0 ELSE 4 - r
  BY <1>2
<1>4. (at + Pad(at)) % 4 = 0
  BY <1>1, <1>3
<1> QED
  BY <1>3, <1>4

(* The part of the buffer that PrepareCommandHeader sets aside for the raw   *)
(* data holds the padding, the header of a domain, all the data and the      *)
(* object ids behind them: they never run into the sizes and the receive     *)
(* buffers that are written behind that part.  The data are aligned to 16    *)
(* bytes, as the server expects.                                             *)
THEOREM RawDataFit ==
  \A q \in Request :
    /\ DataAt(q) + RawLen(q) <= SizesAt(q)
    /\ q.domain => DataAt(q) + q.raw \div 4 + q.oids <= SizesAt(q)
    /\ DataAt(q) % 4 = 0
<1> TAKE q \in Request
<1> DEFINE at == RawAt(q)
           data == q.raw \div 4
<1>1. at \in Nat /\ q.raw \in Nat /\ q.oids \in Nat /\ q.domain \in BOOLEAN
  BY DEF Request, RawAt, DescriptorsAt, HandlesAt, Special
<1>2. Pad(at) \in 0..3 /\ (at + Pad(at)) % 4 = 0
  BY <1>1, PadAligns
<1>3. data \in Nat /\ RawLen(q) \in Nat /\ RawLen(q) <= data + 1
  BY <1>1, Words4 DEF RawLen
<1> HIDE DEF at
<1>4. CASE q.domain
  <2>1. RawSize(q) = q.raw + 4 * (4 + q.oids)
    BY <1>1, <1>4 DEF RawSize
  <2>2. RawWords(q) = data + 4 + q.oids + 4
    BY <1>1, <2>1, Words4 DEF RawWords
  <2>3. DataAt(q) = at + Pad(at) + 4 /\ SizesAt(q) = at + RawWords(q)
    BY <1>4 DEF DataAt, SizesAt, at
  <2> HIDE DEF data
  <2>4. DataAt(q) % 4 = 0
    BY <1>1, <1>2, <2>3
  <2>5. DataAt(q) + RawLen(q) <= SizesAt(q)
    BY <1>1, <1>2, <1>3, <2>2, <2>3
  <2>6. DataAt(q) + data + q.oids <= SizesAt(q)
    <3>1. \A a, d, o \in Nat, p \in 0..3 : (a + p + 4) + d + o <= a + (d + 4 + o + 4)
      OBVIOUS
    <3>2. (at + Pad(at) + 4) + data + q.oids <= at + (data + 4 + q.oids + 4)
      BY <1>1, <1>2, <1>3, <3>1
    <3> QED
      BY <3>2, <2>2, <2>3
  <2> QED
    BY <1>4, <2>4, <2>5, <2>6 DEF data
<1>5. CASE ~q.domain
  <2>1. RawWords(q) = data + 4
    BY <1>1, <1>5 DEF RawSize, RawWords
  <2>2. DataAt(q) = at + Pad(at) /\ SizesAt(q) = at + RawWords(q)
    BY <1>1, <1>2, <1>5 DEF DataAt, SizesAt, at
  <2> HIDE DEF data
  <2>3. DataAt(q) + RawLen(q) <= SizesAt(q)
    BY <1>1, <1>2, <1>3, <2>1, <2>2
  <2>4. DataAt(q) % 4 = 0
    BY <1>2, <2>2
  <2> QED
    BY <1>5, <2>3, <2>4
<1> QED
  BY <1>1, <1>4, <1>5

-------------------------------------------------------------------------------
(* What concatenation, naming and writing do, word by word. *)
Joined(b, a, m, t, n) ==
  /\ Len(b) = m + n
  /\ \A i \in 1..m : b[i] = a[i]
  /\ \A i \in 1..n : b[m + i] = t[i]

(* A sequence joined to another, word by word. *)
LEMMA Cat ==
  ASSUME NEW S, NEW a \in Seq(S), NEW t \in Seq(S), NEW m \in Nat, NEW n \in Nat,
         Len(a) = m, Len(t) = n
  PROVE  a \o t \in Seq(S) /\ Joined(a \o t, a, m, t, n)
<1>1. Len(a \o t) = m + n
  OBVIOUS
<1>2. \A i \in 1..m : (a \o t)[i] = a[i]
  OBVIOUS
<1>3. \A i \in 1..n : (a \o t)[m + i] = t[i]
  OBVIOUS
<1> QED
  BY <1>1, <1>2, <1>3 DEF Joined

(* The words of a field, of which w has n behind the first at. *)
Field(w, at, name, n) == \A i \in 1..n : w[at + i] = <<name, i>>
InSet(S, name) == \A i \in Nat : <<name, i>> \in S
Grown(b, a, m, name, n) ==
  Len(b) = m + n /\ (\A i \in 1..m : b[i] = a[i]) /\ Field(b, m, name, n)

(* The words that a field is made of. *)
LEMMA NamedWords ==
  ASSUME NEW S, NEW name, NEW n \in Nat, InSet(S, name)
  PROVE  Named(name, n) \in Seq(S) /\ Len(Named(name, n)) = n /\ Field(Named(name, n), 0, name, n)
  BY DEF Named, InSet, Field

(* A field joined to a sequence. *)
LEMMA CatNamed ==
  ASSUME NEW S, NEW a \in Seq(S), NEW m \in Nat, Len(a) = m,
         NEW name, NEW n \in Nat, InSet(S, name)
  PROVE  a \o Named(name, n) \in Seq(S) /\ Grown(a \o Named(name, n), a, m, name, n)
<1> DEFINE t == Named(name, n)
           b == a \o t
<1>1. t \in Seq(S) /\ Len(t) = n /\ Field(t, 0, name, n)
  BY NamedWords
<1> HIDE DEF t
<1>2. b \in Seq(S) /\ Joined(b, a, m, t, n)
  BY <1>1, Cat
<1> HIDE DEF b
<1>3. \A i \in 1..n : b[m + i] = <<name, i>>
  <2>1. \A i \in 1..n : b[m + i] = t[i]
    BY <1>2 DEF Joined
  <2>2. \A i \in 1..n : t[i] = <<name, i>>
    BY <1>1 DEF Field
  <2> QED
    BY <2>1, <2>2
<1>4. Grown(b, a, m, name, n)
  BY <1>2, <1>3 DEF Joined, Grown, Field
<1> QED
  BY <1>2, <1>4 DEF b, t

(* A field that is in a message stays where it is when more is joined. *)
LEMMA FieldStays ==
  ASSUME NEW a, NEW b, NEW m \in Nat, \A i \in 1..m : b[i] = a[i],
         NEW at \in Nat, NEW n \in Nat, at + n <= m, NEW name, Field(a, at, name, n)
  PROVE  Field(b, at, name, n)
<1> SUFFICES ASSUME NEW i \in 1..n PROVE b[at + i] = <<name, i>>
  BY DEF Field
<1>1. at + i \in 1..m
  OBVIOUS
<1> QED
  BY <1>1 DEF Field

(* A field of what is joined is found behind what was there. *)
LEMMA FieldMoves ==
  ASSUME NEW a, NEW b, NEW m \in Nat, NEW k \in Nat, \A i \in 1..k : b[m + i] = a[i],
         NEW at \in Nat, NEW n \in Nat, at + n <= k, NEW name, Field(a, at, name, n)
  PROVE  Field(b, m + at, name, n)
<1> SUFFICES ASSUME NEW i \in 1..n PROVE b[(m + at) + i] = <<name, i>>
  BY DEF Field
<1>1. at + i \in 1..k /\ m + (at + i) = (m + at) + i
  OBVIOUS
<1> QED
  BY <1>1 DEF Field

Buffer == 0..(Words - 1)

(* Put writes the words, and no others. *)
LEMMA PutWords ==
  ASSUME NEW w, DOMAIN w = Buffer, NEW at \in Nat, NEW words, NEW n \in Nat, Len(words) = n
  PROVE  /\ DOMAIN Put(w, at, words) = Buffer
         /\ \A i \in Buffer : i < at \/ i >= at + n => Put(w, at, words)[i] = w[i]
         /\ \A i \in 1..n : at + i - 1 \in Buffer => Put(w, at, words)[at + i - 1] = words[i]
<1>1. DOMAIN Put(w, at, words) = Buffer
  BY DEF Put
<1>2. ASSUME NEW i \in Buffer, i < at \/ i >= at + n
      PROVE  Put(w, at, words)[i] = w[i]
  BY <1>2 DEF Put, Buffer
<1>3. ASSUME NEW i \in 1..n, at + i - 1 \in Buffer
      PROVE  Put(w, at, words)[at + i - 1] = words[i]
  <2>1. (at + i - 1) - at + 1 = i /\ at + i - 1 \in at..(at + n - 1)
    OBVIOUS
  <2> QED
    BY <1>3, <2>1 DEF Put
<1> QED
  BY <1>1, <1>2, <1>3

(* A field is found when its words are where it is looked for. *)
LEMMA SliceNamed ==
  ASSUME NEW w, NEW at, NEW n, NEW name, \A i \in 1..n : w[at + i - 1] = <<name, i>>
  PROVE  Slice(w, at, n) = Named(name, n)
  BY DEF Slice, Named


-------------------------------------------------------------------------------
(* The words before the raw data: two of header, then handles and            *)
(* descriptors.                                                              *)
Fields == {"pid", "copy", "move", "instatic", "in", "out", "exch", "static", "buf"}
InfoWord(m) == [pid |-> m.pid, copy |-> m.copy, move |-> m.move]
IsWords(S) == \A f \in Fields : InSet(S, f)

(* Where the handles and the descriptors begin. *)
LEMMA HandlesAreAt ==
  ASSUME NEW m, m.pid \in BOOLEAN, m.copy \in Nat, m.move \in Nat
  PROVE  /\ Special(m) \in BOOLEAN /\ HandlesAt(m) \in Nat /\ HandlesAt(m) >= 3
         /\ DescriptorsAt(m) \in Nat /\ DescriptorsAt(m) >= 2
         /\ Special(m) => DescriptorsAt(m) = HandlesAt(m) + m.copy + m.move
         /\ ~Special(m) => DescriptorsAt(m) = 2 /\ m.copy = 0 /\ m.move = 0
  BY DEF Special, HandlesAt, DescriptorsAt

(* The handles, by their places in the message. *)
HandlesIn(w, at, m) ==
  Special(m) =>
    /\ w[at + 1] = InfoWord(m)
    /\ Field(w, at + (HandlesAt(m) - 2), "copy", m.copy)
    /\ Field(w, at + (HandlesAt(m) - 2) + m.copy, "move", m.move)

(* HandleWords holds them there. *)
LEMMA HandleWordsAre ==
  ASSUME NEW m, m.pid \in BOOLEAN, m.copy \in Nat, m.move \in Nat,
         NEW S, IsWords(S), InfoWord(m) \in S
  PROVE  /\ HandleWords(m) \in Seq(S) /\ Len(HandleWords(m)) = DescriptorsAt(m) - 2
         /\ HandlesIn(HandleWords(m), 0, m)
<1>1. CASE ~Special(m)
  BY <1>1, HandlesAreAt DEF HandleWords, HandlesIn
<1>2. CASE Special(m)
  <2> DEFINE k == IF m.pid THEN 2 ELSE 0
             a == <<InfoWord(m)>>
             b == a \o Named("pid", k)
             c == b \o Named("copy", m.copy)
             d == c \o Named("move", m.move)
             n == 1 + k
             l == n + m.copy
  <2>1. /\ k \in Nat /\ HandlesAt(m) = 3 + k /\ DescriptorsAt(m) = 3 + k + m.copy + m.move
        /\ n \in Nat /\ l \in Nat /\ n >= 1
    BY <1>2 DEF HandlesAt, DescriptorsAt
  <2>2. HandleWords(m) = d
    BY <1>2 DEF HandleWords, InfoWord
  <2>3. a \in Seq(S) /\ Len(a) = 1 /\ a[1] = InfoWord(m)
    OBVIOUS
  <2>4. InSet(S, "pid") /\ InSet(S, "copy") /\ InSet(S, "move")
    BY DEF Fields, IsWords
  <2> HIDE DEF k, a
  <2>5. b \in Seq(S) /\ Grown(b, a, 1, "pid", k)
    BY <2>1, <2>3, <2>4, CatNamed
  <2> HIDE DEF b
  <2>6. Len(b) = n /\ b[1] = InfoWord(m)
    BY <2>3, <2>5 DEF Grown
  <2> HIDE DEF n
  <2>7. c \in Seq(S) /\ Grown(c, b, n, "copy", m.copy)
    BY <2>1, <2>4, <2>5, <2>6, CatNamed
  <2> HIDE DEF c
  <2>8. Len(c) = l /\ c[1] = InfoWord(m) /\ Field(c, n, "copy", m.copy)
    BY <2>1, <2>6, <2>7 DEF Grown
  <2>9. d \in Seq(S) /\ Grown(d, c, l, "move", m.move)
    <3> HIDE DEF l
    <3> QED
      BY <2>1, <2>4, <2>7, <2>8, CatNamed
  <2> HIDE DEF d
  <2>10. /\ Len(d) = n + m.copy + m.move /\ d[1] = InfoWord(m)
         /\ Field(d, n + m.copy, "move", m.move)
    BY <2>1, <2>8, <2>9 DEF Grown
  <2>11. Field(d, n, "copy", m.copy)
    <3>1. \A i \in 1..l : d[i] = c[i]
      BY <2>9 DEF Grown
    <3>2. n + m.copy <= l
      BY <2>1
    <3> QED
      BY <2>1, <2>8, <3>1, <3>2, FieldStays
  <2>12. HandlesAt(m) - 2 = n /\ DescriptorsAt(m) - 2 = n + m.copy + m.move /\ 0 + n = n
    BY <2>1 DEF n
  <2>13. HandlesIn(d, 0, m)
    <3>1. 0 + (HandlesAt(m) - 2) = n /\ 0 + (HandlesAt(m) - 2) + m.copy = n + m.copy /\ 0 + 1 = 1
      BY <2>1, <2>12
    <3> QED
      BY <2>10, <2>11, <3>1 DEF HandlesIn
  <2> QED
    BY <2>2, <2>9, <2>10, <2>12, <2>13
<1> QED
  BY <1>1, <1>2, HandlesAreAt

(* The descriptors of a request, by their places in the message. *)
DescriptorsIn(w, at, q) ==
  /\ Field(w, at, "instatic", 2 * q.instatic)
  /\ Field(w, at + 2 * q.instatic, "in", 3 * q.in)
  /\ Field(w, at + 2 * q.instatic + 3 * q.in, "out", 3 * q.out)
  /\ Field(w, at + 2 * q.instatic + 3 * q.in + 3 * q.out, "exch", 3 * q.exch)

(* Descriptors holds them there. *)
LEMMA DescriptorsAre ==
  ASSUME NEW q \in Request, NEW S, IsWords(S)
  PROVE  /\ Descriptors(q) \in Seq(S)
         /\ Len(Descriptors(q)) = 2 * q.instatic + 3 * q.in + 3 * q.out + 3 * q.exch
         /\ DescriptorsIn(Descriptors(q), 0, q)
<1> DEFINE n1 == 2 * q.instatic
           n2 == 3 * q.in
           n3 == 3 * q.out
           n4 == 3 * q.exch
           m2 == n1 + n2
           m3 == n1 + n2 + n3
           a == Named("instatic", n1)
           b == a \o Named("in", n2)
           c == b \o Named("out", n3)
           d == c \o Named("exch", n4)
<1>1. n1 \in Nat /\ n2 \in Nat /\ n3 \in Nat /\ n4 \in Nat /\ m2 \in Nat /\ m3 \in Nat
  BY DEF Request
<1>2. Descriptors(q) = d
  BY DEF Descriptors
<1> HIDE DEF n1, n2, n3, n4
<1>3. InSet(S, "instatic") /\ InSet(S, "in") /\ InSet(S, "out") /\ InSet(S, "exch")
  BY DEF Fields, IsWords
<1>4. a \in Seq(S) /\ Len(a) = n1 /\ Field(a, 0, "instatic", n1)
  BY <1>1, <1>3, NamedWords
<1> HIDE DEF a
<1>5. b \in Seq(S) /\ Grown(b, a, n1, "in", n2)
  BY <1>1, <1>3, <1>4, CatNamed
<1> HIDE DEF b
<1>6. c \in Seq(S) /\ Grown(c, b, m2, "out", n3)
  <2>1. Len(b) = m2
    BY <1>5 DEF Grown
  <2> HIDE DEF m2
  <2> QED
    BY <1>1, <1>3, <1>5, <2>1, CatNamed
<1> HIDE DEF c
<1>7. d \in Seq(S) /\ Grown(d, c, m3, "exch", n4)
  <2>1. Len(c) = m3
    BY <1>1, <1>6 DEF Grown
  <2> HIDE DEF m3
  <2> QED
    BY <1>1, <1>3, <1>6, <2>1, CatNamed
<1> HIDE DEF d
<1>8. /\ \A i \in 1..n1 : b[i] = a[i]
      /\ \A i \in 1..m2 : c[i] = b[i]
      /\ \A i \in 1..m3 : d[i] = c[i]
  BY <1>5, <1>6, <1>7 DEF Grown
<1>9. Field(d, 0, "instatic", n1)
  <2>1. 0 + n1 <= n1 /\ 0 + n1 <= m2 /\ 0 + n1 <= m3
    BY <1>1
  <2> HIDE DEF m2, m3
  <2>2. Field(b, 0, "instatic", n1)
    BY <1>1, <1>4, <1>8, <2>1, FieldStays
  <2>3. Field(c, 0, "instatic", n1)
    BY <1>1, <1>8, <2>1, <2>2, FieldStays
  <2> QED
    BY <1>1, <1>8, <2>1, <2>3, FieldStays
<1>10. Field(d, n1, "in", n2)
  <2>1. n1 + n2 <= m2 /\ n1 + n2 <= m3
    BY <1>1
  <2>2. Field(b, n1, "in", n2)
    BY <1>5 DEF Grown
  <2> HIDE DEF m2, m3
  <2>3. Field(c, n1, "in", n2)
    BY <1>1, <1>8, <2>1, <2>2, FieldStays
  <2> QED
    BY <1>1, <1>8, <2>1, <2>3, FieldStays
<1>11. Field(d, m2, "out", n3)
  <2>1. m2 + n3 <= m3
    BY <1>1
  <2>2. Field(c, m2, "out", n3)
    BY <1>6 DEF Grown
  <2> HIDE DEF m2, m3
  <2> QED
    BY <1>1, <1>8, <2>1, <2>2, FieldStays
<1>12. Field(d, m3, "exch", n4) /\ Len(d) = m3 + n4
  BY <1>7 DEF Grown
<1>13. DescriptorsIn(d, 0, q)
  <2>1. 0 + n1 = n1 /\ 0 + n1 + n2 = m2 /\ 0 + n1 + n2 + n3 = m3
    BY <1>1
  <2> QED
    BY <1>9, <1>10, <1>11, <1>12, <2>1 DEF DescriptorsIn, n1, n2, n3, n4
<1> QED
  BY <1>2, <1>7, <1>12, <1>13 DEF n1, n2, n3, n4

-------------------------------------------------------------------------------
(* The words of the buffer, which count from 0. *)
Found(w, at, name, n) == \A i \in 1..n : w[at + i - 1] = <<name, i>>
Front(h1, h2, m, desc) == <<h1, h2>> \o HandleWords(m) \o desc
StartsWith(w, f, n) == \A i \in 1..n : w[i - 1] = f[i]

(* The front of a message: its two words of header, the handles, and behind  *)
(* them the descriptors.                                                     *)
LEMMA FrontIs ==
  ASSUME NEW m, m.pid \in BOOLEAN, m.copy \in Nat, m.move \in Nat,
         NEW S, IsWords(S), InfoWord(m) \in S, NEW h1 \in S, NEW h2 \in S,
         NEW desc \in Seq(S), NEW n \in Nat, Len(desc) = n
  PROVE  /\ Len(Front(h1, h2, m, desc)) = DescriptorsAt(m) + n
         /\ Front(h1, h2, m, desc)[1] = h1 /\ Front(h1, h2, m, desc)[2] = h2
         /\ HandlesIn(Front(h1, h2, m, desc), 2, m)
         /\ \A i \in 1..n : Front(h1, h2, m, desc)[DescriptorsAt(m) + i] = desc[i]
<1> DEFINE a == <<h1, h2>>
           t == HandleWords(m)
           b == a \o t
           f == b \o desc
           k == DescriptorsAt(m) - 2
           d == DescriptorsAt(m)
<1>1. k \in Nat /\ d \in Nat /\ 2 + k = d /\ d >= 2
  BY HandlesAreAt
<1>2. a \in Seq(S) /\ Len(a) = 2 /\ a[1] = h1 /\ a[2] = h2
  OBVIOUS
<1>3. t \in Seq(S) /\ Len(t) = k /\ HandlesIn(t, 0, m)
  BY HandleWordsAre
<1> HIDE DEF a, t, k, d
<1>4. b \in Seq(S) /\ Joined(b, a, 2, t, k)
  BY <1>1, <1>2, <1>3, Cat
<1> HIDE DEF b
<1>5. Len(b) = d
  BY <1>1, <1>4 DEF Joined
<1>6. f \in Seq(S) /\ Joined(f, b, d, desc, n)
  BY <1>1, <1>4, <1>5, Cat
<1> HIDE DEF f
<1>7. Len(f) = d + n /\ \A i \in 1..n : f[d + i] = desc[i]
  BY <1>6 DEF Joined
<1>8. f[1] = h1 /\ f[2] = h2
  <2>1. b[1] = a[1] /\ b[2] = a[2]
    BY <1>4 DEF Joined
  <2>2. f[1] = b[1] /\ f[2] = b[2]
    BY <1>1, <1>6 DEF Joined
  <2> QED
    BY <1>2, <2>1, <2>2
<1>9. \A i \in 1..k : f[2 + i] = t[i]
  <2> SUFFICES ASSUME NEW i \in 1..k PROVE f[2 + i] = t[i]
    OBVIOUS
  <2>1. 2 + i \in 1..d
    BY <1>1
  <2>2. b[2 + i] = t[i]
    BY <1>4 DEF Joined
  <2>3. f[2 + i] = b[2 + i]
    BY <1>6, <2>1 DEF Joined
  <2> QED
    BY <2>2, <2>3
<1>10. HandlesIn(f, 2, m)
  <2>1. CASE Special(m)
    <3> DEFINE h == HandlesAt(m) - 2
               l == h + m.copy
    <3>1. h \in Nat /\ l \in Nat /\ h >= 1 /\ h + m.copy <= k /\ l + m.move <= k /\ k >= 1
      <4>1. /\ HandlesAt(m) \in Nat /\ HandlesAt(m) >= 3
            /\ DescriptorsAt(m) = HandlesAt(m) + m.copy + m.move
        BY <2>1, HandlesAreAt
      <4>2. k = HandlesAt(m) + m.copy + m.move - 2
        BY <4>1 DEF k
      <4>3. /\ h \in Nat /\ h >= 1 /\ l \in Nat
        BY <4>1
      <4>4. h + m.copy <= k /\ l + m.move <= k /\ k >= 1
        <5> DEFINE g == HandlesAt(m)
                   c == m.copy
                   v == m.move
        <5>1. g \in Nat /\ g >= 3 /\ c \in Nat /\ v \in Nat /\ k = g + c + v - 2
          BY <4>1, <4>2
        <5> HIDE DEF g, c, v
        <5>2. (g - 2) + c <= k /\ ((g - 2) + c) + v <= k /\ k >= 1
          BY ONLY <5>1
        <5> QED
          BY <5>2 DEF g, c, v
      <4> QED
        BY <4>3, <4>4
    <3>2. t[1] = InfoWord(m) /\ Field(t, h, "copy", m.copy) /\ Field(t, l, "move", m.move)
      <4>1. 0 + 1 = 1 /\ 0 + h = h /\ 0 + h + m.copy = l
        BY <3>1
      <4> QED
        BY <1>3, <2>1, <4>1 DEF HandlesIn
    <3> HIDE DEF h
    <3>3. Field(f, 2 + h, "copy", m.copy)
      BY <1>1, <1>9, <3>1, <3>2, FieldMoves
    <3>4. Field(f, 2 + l, "move", m.move)
      <4> HIDE DEF l
      <4> QED
        BY <1>1, <1>9, <3>1, <3>2, FieldMoves
    <3>5. f[2 + 1] = InfoWord(m)
      BY <1>9, <3>1, <3>2
    <3>6. 2 + l = 2 + h + m.copy
      BY <3>1
    <3> QED
      BY <3>3, <3>4, <3>5, <3>6 DEF HandlesIn, h
  <2>2. CASE ~Special(m)
    BY <2>2 DEF HandlesIn
  <2> QED
    BY <2>1, <2>2
<1>11. f = Front(h1, h2, m, desc)
  BY DEF Front, f, b, a, t
<1> QED
  BY <1>7, <1>8, <1>10, <1>11 DEF d

(* A field of the front of a message is found in the buffer that starts      *)
(* with it.                                                                  *)
LEMMA FieldFound ==
  ASSUME NEW w, NEW f, NEW l \in Nat, StartsWith(w, f, l),
         NEW at \in Nat, NEW n \in Nat, at + n <= l, NEW name, Field(f, at, name, n)
  PROVE  Found(w, at, name, n)
<1> SUFFICES ASSUME NEW i \in 1..n PROVE w[at + i - 1] = <<name, i>>
  BY DEF Found
<1>1. at + i \in 1..l
  OBVIOUS
<1>2. w[(at + i) - 1] = f[at + i]
  BY <1>1 DEF StartsWith
<1> QED
  BY <1>2 DEF Field

(* What is written into the buffer is found there. *)
LEMMA PutFound ==
  ASSUME NEW w, DOMAIN w = Buffer, NEW at \in Nat, NEW n \in Nat, at + n <= Words, NEW name
  PROVE  Found(Put(w, at, Named(name, n)), at, name, n)
<1>1. Len(Named(name, n)) = n /\ \A i \in 1..n : Named(name, n)[i] = <<name, i>>
  BY DEF Named
<1> DEFINE x == Named(name, n)
<1> HIDE DEF x
<1>2. \A i \in 1..n : at + i - 1 \in Buffer
  BY DEF Buffer
<1>3. Len(x) = n
  BY <1>1 DEF x
<1>4. \A i \in 1..n : Put(w, at, x)[at + i - 1] = x[i]
  BY <1>2, <1>3, PutWords
<1> QED
  BY <1>1, <1>4 DEF Found, x

(* A field stays when something is written before or behind it. *)
LEMMA PutKeeps ==
  ASSUME NEW w, DOMAIN w = Buffer, NEW at \in Nat, NEW words, NEW k \in Nat, Len(words) = k,
         NEW a \in Nat, NEW n \in Nat, a + n <= Words, a + n <= at \/ at + k <= a,
         NEW name, Found(w, a, name, n)
  PROVE  Found(Put(w, at, words), a, name, n)
<1> SUFFICES ASSUME NEW i \in 1..n PROVE Put(w, at, words)[a + i - 1] = <<name, i>>
  BY DEF Found
<1>1. a + i - 1 \in Buffer
  BY DEF Buffer
<1>2. a + i - 1 < at \/ a + i - 1 >= at + k
  OBVIOUS
<1>3. Put(w, at, words)[a + i - 1] = w[a + i - 1]
  BY <1>1, <1>2, PutWords
<1> QED
  BY <1>3 DEF Found

(* The front of a message, when it is written and later. *)
LEMMA PutStarts ==
  ASSUME NEW w, DOMAIN w = Buffer, NEW f, NEW l \in Nat, l <= Words, Len(f) = l
  PROVE  StartsWith(Put(w, 0, f), f, l)
<1> SUFFICES ASSUME NEW i \in 1..l PROVE Put(w, 0, f)[i - 1] = f[i]
  BY DEF StartsWith
<1>1. i - 1 \in Buffer /\ i - 1 \in 0..(0 + l - 1) /\ (i - 1) - 0 + 1 = i
  BY DEF Buffer
<1> QED
  BY <1>1 DEF Put

(* What is written further up leaves the start of the buffer alone. *)
LEMMA PutKeepsStart ==
  ASSUME NEW w, DOMAIN w = Buffer, NEW at \in Nat, NEW words, NEW k \in Nat, Len(words) = k,
         NEW f, NEW l \in Nat, l <= Words, l <= at, StartsWith(w, f, l)
  PROVE  StartsWith(Put(w, at, words), f, l)
<1> SUFFICES ASSUME NEW i \in 1..l PROVE Put(w, at, words)[i - 1] = f[i]
  BY DEF StartsWith
<1>1. i - 1 \in Buffer /\ i - 1 < at
  BY DEF Buffer
<1>2. \A j \in Buffer : j < at => Put(w, at, words)[j] = w[j]
  BY PutWords
<1>3. Put(w, at, words)[i - 1] = w[i - 1]
  BY <1>1, <1>2
<1> QED
  BY <1>3 DEF StartsWith

-------------------------------------------------------------------------------
(* The places of the fields of a request, in their order. *)
LEMMA RequestPlaces ==
  ASSUME NEW q \in Requests
  PROVE  /\ q \in Request /\ RawAt(q) \in Nat /\ RawAt(q) + Pad(RawAt(q)) \in Nat
         /\ DataAt(q) \in Nat /\ RawLen(q) \in Nat /\ SizesAt(q) \in Nat /\ SizeWords(q) \in Nat
         /\ ReceivesAt(q) \in Nat /\ q.raw \div 4 \in Nat
         /\ RawAt(q) <= RawAt(q) + Pad(RawAt(q)) /\ RawAt(q) <= DataAt(q)
         /\ q.domain => DataAt(q) = RawAt(q) + Pad(RawAt(q)) + 4
         /\ DataAt(q) + RawLen(q) <= SizesAt(q)
         /\ q.domain => DataAt(q) + q.raw \div 4 + q.oids <= SizesAt(q)
         /\ q.domain /\ q.oids > 0 => RawLen(q) = q.raw \div 4
         /\ ReceivesAt(q) = SizesAt(q) + SizeWords(q)
         /\ ReceivesAt(q) + 2 * q.outstatic <= Words
<1>1. q \in Request /\ ReceivesAt(q) + 2 * q.outstatic <= Words
  BY RequestsAssumption
<1>2. q.domain /\ q.oids > 0 => q.raw % 4 = 0
  BY RequestsAssumption
<1>3. /\ DataAt(q) + RawLen(q) <= SizesAt(q)
      /\ q.domain => DataAt(q) + q.raw \div 4 + q.oids <= SizesAt(q)
  BY <1>1, RawDataFit
<1>4. /\ RawAt(q) \in Nat /\ q.raw \in Nat /\ q.domain \in BOOLEAN /\ q.oids \in Nat
      /\ q.outstatic \in Nat
  BY <1>1 DEF Request, RawAt, DescriptorsAt, HandlesAt, Special
<1>5. Pad(RawAt(q)) \in 0..3
  BY <1>4, PadAligns
<1>6. RawLen(q) \in Nat /\ q.raw \div 4 \in Nat
  BY <1>4, Words4 DEF RawLen
<1>7. q.raw % 4 = 0 => RawLen(q) = q.raw \div 4
  BY <1>4 DEF RawLen
<1>8. RawSize(q) \in Nat
  BY <1>4 DEF RawSize
<1>9. RawWords(q) \in Nat
  BY <1>8, Words4 DEF RawWords
<1>10. SizesAt(q) \in Nat
  BY <1>4, <1>9 DEF SizesAt
<1>11. SizeWords(q) \in Nat
  <2>1. 2 * q.outstatic \in Nat
    BY <1>4
  <2> QED
    BY <2>1, Words4 DEF SizeWords
<1>12. ReceivesAt(q) = SizesAt(q) + SizeWords(q) /\ ReceivesAt(q) \in Nat
  BY <1>10, <1>11 DEF ReceivesAt
<1>13. /\ DataAt(q) \in Nat /\ RawAt(q) + Pad(RawAt(q)) \in Nat
       /\ RawAt(q) <= RawAt(q) + Pad(RawAt(q)) /\ RawAt(q) <= DataAt(q)
       /\ q.domain => DataAt(q) = RawAt(q) + Pad(RawAt(q)) + 4
  BY <1>4, <1>5 DEF DataAt
<1> QED
  BY <1>1, <1>2, <1>3, <1>4, <1>6, <1>7, <1>10, <1>11, <1>12, <1>13

RequestFront(q) == Front(Header(q)[1], Header(q)[2], q, Descriptors(q))

(* Where PrepareCommandHeader and ProcessRequest leave the words of q. *)
Laid(w, q) ==
  /\ StartsWith(w, RequestFront(q), RawAt(q))
  /\ Found(w, SizesAt(q), "sizes", SizeWords(q))
  /\ Found(w, ReceivesAt(q), "receive", 2 * q.outstatic)
  /\ Found(w, DataAt(q), "raw", RawLen(q))
  /\ q.domain => /\ w[RawAt(q) + Pad(RawAt(q))] = Domain(q)[1]
                 /\ Found(w, DataAt(q) + q.raw \div 4, "oid", q.oids)

(* The two words of header, and the front they begin. *)
LEMMA RequestFrontIs ==
  ASSUME NEW q \in Request
  PROVE  /\ Header(q) \o HandleWords(q) \o Descriptors(q) = RequestFront(q)
         /\ Len(RequestFront(q)) = RawAt(q)
         /\ RequestFront(q)[1] = Header(q)[1] /\ RequestFront(q)[2] = Header(q)[2]
         /\ HandlesIn(RequestFront(q), 2, q)
         /\ DescriptorsIn(RequestFront(q), DescriptorsAt(q), q)
<1> DEFINE h1 == Header(q)[1]
           h2 == Header(q)[2]
           D == Descriptors(q)
           P == Fields \X Nat
           S == P \cup {InfoWord(q), h1, h2}
           n1 == 2 * q.instatic
           n2 == 3 * q.in
           n3 == 3 * q.out
           n4 == 3 * q.exch
           n == n1 + n2 + n3 + n4
           d == DescriptorsAt(q)
           f == RequestFront(q)
<1>1. Header(q) = <<h1, h2>>
  BY DEF Header
<1>2. Header(q) \o HandleWords(q) \o D = f
  BY <1>1 DEF RequestFront, Front
<1>3. q.pid \in BOOLEAN /\ q.copy \in Nat /\ q.move \in Nat
  BY DEF Request
<1>4. n1 \in Nat /\ n2 \in Nat /\ n3 \in Nat /\ n4 \in Nat /\ n \in Nat
  BY DEF Request
<1>5. d \in Nat /\ d + n = RawAt(q)
  <2>1. d \in Nat
    BY <1>3, HandlesAreAt
  <2>2. q.in \in Nat /\ q.out \in Nat /\ q.exch \in Nat /\ q.instatic \in Nat
    BY DEF Request
  <2> HIDE DEF d
  <2>3. d + n = d + 2 * q.instatic + 3 * (q.in + q.out + q.exch)
    BY <2>1, <2>2
  <2> QED
    BY <2>1, <2>3 DEF RawAt, d
<1>6. IsWords(S) /\ InfoWord(q) \in S /\ h1 \in S /\ h2 \in S
  BY DEF IsWords, InSet
<1> HIDE DEF h1, h2, P, S
<1>7. D \in Seq(S) /\ Len(D) = n /\ DescriptorsIn(D, 0, q)
  BY <1>6, DescriptorsAre
<1> HIDE DEF n, D
<1>8. f = Front(h1, h2, q, D)
  BY DEF RequestFront, h1, h2, D
<1>9. /\ Len(f) = d + n /\ f[1] = h1 /\ f[2] = h2 /\ HandlesIn(f, 2, q)
      /\ \A i \in 1..n : f[d + i] = D[i]
  BY <1>3, <1>4, <1>6, <1>7, <1>8, FrontIs
<1>10. DescriptorsIn(f, d, q)
  <2> DEFINE m2 == n1 + n2
             m3 == n1 + n2 + n3
  <2>1. /\ m2 \in Nat /\ m3 \in Nat /\ 0 + n1 <= n /\ n1 + n2 <= n /\ m2 + n3 <= n /\ m3 + n4 <= n
    BY <1>4 DEF n
  <2>2. /\ Field(D, 0, "instatic", n1) /\ Field(D, n1, "in", n2)
        /\ Field(D, m2, "out", n3) /\ Field(D, m3, "exch", n4)
    <3>1. 0 + n1 = n1 /\ 0 + n1 + n2 = m2 /\ 0 + n1 + n2 + n3 = m3
      BY <1>4
    <3> QED
      BY <1>7, <3>1 DEF DescriptorsIn
  <2>3. d + 0 = d /\ d + m2 = d + n1 + n2 /\ d + m3 = d + n1 + n2 + n3
    BY <1>4, <1>5
  <2> HIDE DEF m2, m3, f, d, n1, n2, n3, n4
  <2>4. Field(f, d + 0, "instatic", n1)
    BY <1>4, <1>5, <1>9, <2>1, <2>2, FieldMoves
  <2>5. Field(f, d + n1, "in", n2)
    BY <1>4, <1>5, <1>9, <2>1, <2>2, FieldMoves
  <2>6. Field(f, d + m2, "out", n3)
    BY <1>4, <1>5, <1>9, <2>1, <2>2, FieldMoves
  <2>7. Field(f, d + m3, "exch", n4)
    BY <1>4, <1>5, <1>9, <2>1, <2>2, FieldMoves
  <2> QED
    BY <2>3, <2>4, <2>5, <2>6, <2>7 DEF DescriptorsIn, n1, n2, n3, n4
<1> QED
  BY <1>2, <1>5, <1>9, <1>10 DEF h1, h2, D

(* A request is laid out so, whatever was in the buffer: no field that is    *)
(* written later runs into an earlier one.                                   *)
LEMMA RequestIsLaid ==
  ASSUME NEW q \in Requests, NEW w, DOMAIN w = Buffer
  PROVE  LET W == Put(PrepareCommandHeader(q, w), DataAt(q), Named("raw", RawLen(q)))
         IN  DOMAIN W = Buffer /\ Laid(W, q)
<1> DEFINE r == RawAt(q)
           raw == RawAt(q) + Pad(RawAt(q))
           dat == DataAt(q)
           x == q.raw \div 4
           s == SizesAt(q)
           v == ReceivesAt(q)
           n == SizeWords(q)
           u == 2 * q.outstatic
           l == RawLen(q)
           o == q.oids
           f == RequestFront(q)
           w1 == Put(w, 0, f)
           w2 == Put(w1, s, Named("sizes", n))
           w3 == Put(w2, v, Named("receive", u))
           w4 == Put(w3, raw, Domain(q))
           w5 == Put(w4, dat + x, Named("oid", o))
           w6 == IF q.domain THEN w5 ELSE w3
           w7 == Put(w6, dat, Named("raw", l))
<1>1. /\ r \in Nat /\ raw \in Nat /\ dat \in Nat /\ x \in Nat /\ s \in Nat /\ v \in Nat /\ n \in Nat
      /\ l \in Nat /\ r <= raw /\ r <= dat /\ (q.domain => dat = raw + 4) /\ dat + l <= s
      /\ (q.domain => dat + x + o <= s) /\ (q.domain /\ o > 0 => l = x) /\ v = s + n
      /\ v + u <= Words /\ q \in Request
  BY RequestPlaces
<1>2. u \in Nat /\ o \in Nat /\ q.domain \in BOOLEAN /\ dat + x \in Nat
  BY <1>1 DEF Request
<1>3. Len(f) = r /\ Header(q) \o HandleWords(q) \o Descriptors(q) = f
  BY <1>1, RequestFrontIs
<1>4. Put(PrepareCommandHeader(q, w), DataAt(q), Named("raw", RawLen(q))) = w7
  <2>1. q.domain => raw + 4 + q.raw \div 4 = dat + x
    BY <1>1
  <2> QED
    BY <1>3, <2>1 DEF PrepareCommandHeader
<1>5. Laid(w7, q) <=>
        /\ StartsWith(w7, f, r) /\ Found(w7, s, "sizes", n) /\ Found(w7, v, "receive", u)
        /\ Found(w7, dat, "raw", l)
        /\ q.domain => w7[raw] = Domain(q)[1] /\ Found(w7, dat + x, "oid", o)
  BY DEF Laid
<1>6. Len(Domain(q)) = 4
  BY DEF Domain
<1>7. \A name, k : k \in Nat => Len(Named(name, k)) = k
  BY DEF Named
<1>8. /\ r <= Words /\ r <= s /\ r <= v /\ s + n <= v /\ v <= Words /\ s + n <= Words
      /\ dat + l <= Words /\ dat + l <= v
      /\ q.domain => r <= dat + x /\ dat + x + o <= Words /\ dat + x + o <= v /\ raw + 4 <= s
                     /\ raw + 4 <= v /\ raw < Words
  <2> HIDE DEF r, raw, dat, x, s, v, n, u, l, o
  <2> QED
    BY <1>1, <1>2
<1> HIDE DEF r, raw, dat, x, s, v, n, u, l, o, f
<1>9. DOMAIN w1 = Buffer /\ StartsWith(w1, f, r)
  BY <1>1, <1>3, <1>8, PutStarts, PutWords
<1> HIDE DEF w1
<1>10. DOMAIN w2 = Buffer /\ StartsWith(w2, f, r) /\ Found(w2, s, "sizes", n)
  <2> DEFINE t == Named("sizes", n)
  <2>1. Len(t) = n
    BY <1>1, <1>7
  <2>2. Found(w2, s, "sizes", n)
    BY <1>1, <1>8, <1>9, PutFound
  <2> HIDE DEF t
  <2>3. DOMAIN Put(w1, s, t) = Buffer
    BY <1>1, <1>9, <2>1, PutWords
  <2>4. StartsWith(Put(w1, s, t), f, r)
    BY <1>1, <1>8, <1>9, <2>1, PutKeepsStart
  <2> QED
    BY <2>2, <2>3, <2>4 DEF t
<1> HIDE DEF w2
<1>11. /\ DOMAIN w3 = Buffer /\ StartsWith(w3, f, r) /\ Found(w3, s, "sizes", n)
       /\ Found(w3, v, "receive", u)
  <2> DEFINE t == Named("receive", u)
  <2>1. Len(t) = u
    BY <1>2, <1>7
  <2>2. Found(w3, v, "receive", u)
    BY <1>1, <1>2, <1>10, PutFound
  <2> HIDE DEF t
  <2>3. DOMAIN Put(w2, v, t) = Buffer
    BY <1>1, <1>2, <1>10, <2>1, PutWords
  <2>4. StartsWith(Put(w2, v, t), f, r)
    BY <1>1, <1>2, <1>8, <1>10, <2>1, PutKeepsStart
  <2>5. Found(Put(w2, v, t), s, "sizes", n)
    BY <1>1, <1>2, <1>8, <1>10, <2>1, PutKeeps
  <2> QED
    BY <2>2, <2>3, <2>4, <2>5 DEF t
<1> HIDE DEF w3
<1>12. ASSUME q.domain
       PROVE  /\ DOMAIN w4 = Buffer /\ StartsWith(w4, f, r) /\ Found(w4, s, "sizes", n)
              /\ Found(w4, v, "receive", u) /\ w4[raw] = Domain(q)[1]
  <2> DEFINE t == Domain(q)
             k == 4
  <2>1. raw + 1 - 1 = raw /\ raw \in Buffer /\ 1 \in 1..k /\ raw + k <= s /\ raw + k <= v
    BY <1>1, <1>8, <1>12 DEF Buffer
  <2> HIDE DEF t
  <2>2. Len(t) = k /\ k \in Nat
    BY <1>6 DEF t
  <2> HIDE DEF k
  <2>3. DOMAIN Put(w3, raw, t) = Buffer /\ Put(w3, raw, t)[raw] = t[1]
    <3>1. /\ DOMAIN Put(w3, raw, t) = Buffer
          /\ \A i \in 1..k : raw + i - 1 \in Buffer => Put(w3, raw, t)[raw + i - 1] = t[i]
      BY <1>1, <1>11, <2>2, PutWords
    <3> QED
      BY <2>1, <3>1
  <2>4. StartsWith(Put(w3, raw, t), f, r)
    BY <1>1, <1>8, <1>11, <2>2, PutKeepsStart
  <2>5. Found(Put(w3, raw, t), s, "sizes", n)
    BY <1>1, <1>8, <1>11, <1>12, <2>1, <2>2, PutKeeps
  <2>6. Found(Put(w3, raw, t), v, "receive", u)
    BY <1>1, <1>2, <1>8, <1>11, <1>12, <2>1, <2>2, PutKeeps
  <2> QED
    BY <2>3, <2>4, <2>5, <2>6 DEF t
<1> HIDE DEF w4
<1>13. ASSUME q.domain
       PROVE  /\ DOMAIN w5 = Buffer /\ StartsWith(w5, f, r) /\ Found(w5, s, "sizes", n)
              /\ Found(w5, v, "receive", u) /\ w5[raw] = Domain(q)[1]
              /\ Found(w5, dat + x, "oid", o)
  <2> DEFINE t == Named("oid", o)
             e == dat + x
  <2>1. /\ Len(t) = o /\ e \in Nat /\ e + o <= Words /\ e + o <= s /\ e + o <= v /\ r <= e
        /\ raw < e /\ raw \in Buffer
    BY <1>1, <1>2, <1>7, <1>8, <1>13 DEF Buffer
  <2> HIDE DEF e
  <2>2. Found(Put(w4, e, t), e, "oid", o)
    BY <1>2, <1>12, <1>13, <2>1, PutFound
  <2> HIDE DEF t
  <2>3. DOMAIN Put(w4, e, t) = Buffer /\ Put(w4, e, t)[raw] = w4[raw]
    <3>1. DOMAIN w4 = Buffer
      BY <1>12, <1>13
    <3>2. /\ DOMAIN Put(w4, e, t) = Buffer
          /\ \A i \in Buffer : i < e => Put(w4, e, t)[i] = w4[i]
      BY <1>2, <2>1, <3>1, PutWords
    <3> QED
      BY <2>1, <3>2
  <2>4. StartsWith(Put(w4, e, t), f, r)
    BY <1>1, <1>2, <1>8, <1>12, <1>13, <2>1, PutKeepsStart
  <2>5. Found(Put(w4, e, t), s, "sizes", n)
    BY <1>1, <1>2, <1>8, <1>12, <1>13, <2>1, PutKeeps
  <2>6. Found(Put(w4, e, t), v, "receive", u)
    BY <1>1, <1>2, <1>8, <1>12, <1>13, <2>1, PutKeeps
  <2> QED
    BY <1>12, <1>13, <2>2, <2>3, <2>4, <2>5, <2>6 DEF t, e
<1> HIDE DEF w5
<1>14. /\ DOMAIN w6 = Buffer /\ StartsWith(w6, f, r) /\ Found(w6, s, "sizes", n)
       /\ Found(w6, v, "receive", u)
       /\ q.domain => w6[raw] = Domain(q)[1] /\ Found(w6, dat + x, "oid", o)
  BY <1>2, <1>11, <1>13
<1> HIDE DEF w6
<1>15. /\ DOMAIN w7 = Buffer /\ StartsWith(w7, f, r) /\ Found(w7, s, "sizes", n)
       /\ Found(w7, v, "receive", u) /\ Found(w7, dat, "raw", l)
  <2> DEFINE t == Named("raw", l)
  <2>1. Len(t) = l
    BY <1>1, <1>7
  <2>2. Found(w7, dat, "raw", l)
    BY <1>1, <1>8, <1>14, PutFound
  <2> HIDE DEF t
  <2>3. DOMAIN Put(w6, dat, t) = Buffer
    BY <1>1, <1>14, <2>1, PutWords
  <2>4. StartsWith(Put(w6, dat, t), f, r)
    BY <1>1, <1>8, <1>14, <2>1, PutKeepsStart
  <2>5. Found(Put(w6, dat, t), s, "sizes", n)
    BY <1>1, <1>8, <1>14, <2>1, PutKeeps
  <2>6. Found(Put(w6, dat, t), v, "receive", u)
    BY <1>1, <1>2, <1>8, <1>14, <2>1, PutKeeps
  <2> QED
    BY <2>2, <2>3, <2>4, <2>5, <2>6 DEF t
<1>16. ASSUME q.domain
       PROVE  w7[raw] = Domain(q)[1] /\ Found(w7, dat + x, "oid", o)
  <2> DEFINE t == Named("raw", l)
             e == dat + x
  <2>1. Len(t) = l /\ raw \in Buffer /\ raw < dat /\ e \in Nat /\ e + o <= Words
    BY <1>1, <1>2, <1>7, <1>8, <1>16 DEF Buffer
  <2> HIDE DEF t
  <2>2. Put(w6, dat, t)[raw] = w6[raw]
    BY <1>1, <1>14, <2>1, PutWords
  <2>3. Found(Put(w6, dat, t), e, "oid", o)
    <3>1. CASE o = 0
      BY <3>1 DEF Found
    <3>2. CASE o > 0
      <4>1. dat + l <= e
        BY <1>1, <1>16, <3>2
      <4>2. Found(w6, e, "oid", o)
        BY <1>14, <1>16
      <4> HIDE DEF e
      <4> QED
        BY <1>1, <1>2, <1>14, <2>1, <4>1, <4>2, PutKeeps
    <3> QED
      BY <1>2, <3>1, <3>2
  <2> QED
    BY <1>14, <1>16, <2>2, <2>3 DEF t
<1> QED
  BY <1>4, <1>5, <1>15, <1>16 DEF r, raw, dat, x, s, v, n, u, l, o, f

(* The numbers that the server reads are those of the request. *)
LEMMA HeaderRead ==
  ASSUME NEW q \in Requests, NEW w, Laid(w, q)
  PROVE  /\ w[0] = Header(q)[1] /\ w[1] = Header(q)[2]
         /\ Special(q) => w[2] = InfoWord(q)
<1> DEFINE f == RequestFront(q)
           l == RawAt(q)
<1>1. q \in Request /\ l \in Nat
  BY RequestPlaces
<1>2. f[1] = Header(q)[1] /\ f[2] = Header(q)[2] /\ HandlesIn(f, 2, q)
  BY <1>1, RequestFrontIs
<1>3. /\ q.pid \in BOOLEAN /\ q.copy \in Nat /\ q.move \in Nat /\ q.instatic \in Nat /\ q.in \in Nat
      /\ q.out \in Nat /\ q.exch \in Nat
  BY <1>1 DEF Request
<1>4. l >= DescriptorsAt(q)
  <2>1. DescriptorsAt(q) \in Nat
    BY <1>3, HandlesAreAt
  <2> QED
    BY <1>3, <2>1 DEF RawAt
<1>5. l >= 2 /\ (Special(q) => l >= 3)
  <2>1. /\ DescriptorsAt(q) \in Nat /\ DescriptorsAt(q) >= 2
        /\ Special(q) => HandlesAt(q) \in Nat /\ HandlesAt(q) >= 3
                         /\ DescriptorsAt(q) = HandlesAt(q) + q.copy + q.move
    BY <1>3, HandlesAreAt
  <2> QED
    BY <1>1, <1>3, <1>4, <2>1
<1>6. StartsWith(w, f, l)
  BY DEF Laid
<1> HIDE DEF f, l
<1>7. \A i \in 1..l : w[i - 1] = f[i]
  BY <1>6 DEF StartsWith
<1>8. w[1 - 1] = f[1] /\ w[2 - 1] = f[2]
  BY <1>1, <1>5, <1>7
<1>9. ASSUME Special(q) PROVE w[2] = InfoWord(q)
  <2>1. w[3 - 1] = f[3]
    BY <1>1, <1>5, <1>7, <1>9
  <2>2. f[2 + 1] = InfoWord(q)
    BY <1>2, <1>9 DEF HandlesIn
  <2> QED
    BY <2>1, <2>2
<1> QED
  BY <1>2, <1>8, <1>9

(* The server finds every field of a request that is laid out. *)
LEMMA ServerFinds ==
  ASSUME rq \in Requests, NEW w, Laid(w, rq)
  PROVE  Server(w) =
           [copy |-> Named("copy", rq.copy), move |-> Named("move", rq.move),
            instatic |-> Named("instatic", 2 * rq.instatic), in |-> Named("in", 3 * rq.in),
            out |-> Named("out", 3 * rq.out), exch |-> Named("exch", 3 * rq.exch),
            raw |-> Named("raw", RawLen(rq)),
            oids |-> Named("oid", IF rq.domain THEN rq.oids ELSE 0),
            sizes |-> Named("sizes", SizeWords(rq)),
            receive |-> Named("receive", 2 * rq.outstatic)]
<1> DEFINE n1 == 2 * rq.instatic
           n2 == 3 * rq.in
           n3 == 3 * rq.out
           n4 == 3 * rq.exch
           d == DescriptorsAt(rq)
           m2 == d + n1
           m3 == d + n1 + n2
           m4 == d + n1 + n2 + n3
           r == RawAt(rq)
           f == RequestFront(rq)
           hs == IF Special(rq) THEN w[2] ELSE [pid |-> FALSE, copy |-> 0, move |-> 0]
<1>1. rq \in Request
  BY RequestPlaces
<1>2. /\ rq.pid \in BOOLEAN /\ rq.copy \in Nat /\ rq.move \in Nat /\ rq.instatic \in Nat
      /\ rq.in \in Nat /\ rq.out \in Nat /\ rq.exch \in Nat /\ rq.outstatic \in Nat
      /\ rq.domain \in BOOLEAN /\ rq.oids \in Nat
  BY <1>1 DEF Request
<1>3. w[0] = Header(rq)[1] /\ w[1] = Header(rq)[2] /\ (Special(rq) => w[2] = InfoWord(rq))
  BY HeaderRead
<1>4. /\ w[0].instatic = rq.instatic /\ w[0].in = rq.in /\ w[0].out = rq.out /\ w[0].exch = rq.exch
      /\ w[1].size = RawWords(rq) + SizeWords(rq) /\ w[1].special = Special(rq)
      /\ w[1].receive = IF rq.outstatic > 0 THEN rq.outstatic + 2 ELSE 0
  BY <1>3 DEF Header
<1>5. Special(rq) \in BOOLEAN /\ d \in Nat /\ HandlesAt(rq) \in Nat
  BY <1>2, HandlesAreAt
<1>6. /\ hs.copy = rq.copy /\ hs.move = rq.move
      /\ d = IF Special(rq) THEN 3 + (IF hs.pid THEN 2 ELSE 0) + hs.copy + hs.move ELSE 2
  <2>1. CASE Special(rq)
    <3>1. hs = InfoWord(rq)
      BY <1>3, <2>1
    <3>2. d = HandlesAt(rq) + rq.copy + rq.move
      BY <1>2, <2>1, HandlesAreAt
    <3> QED
      BY <2>1, <3>1, <3>2 DEF InfoWord, HandlesAt
  <2>2. CASE ~Special(rq)
    <3>1. d = 2 /\ rq.copy = 0 /\ rq.move = 0
      BY <1>2, <2>2, HandlesAreAt
    <3> QED
      BY <2>2, <3>1
  <2> QED
    BY <1>5, <2>1, <2>2
<1>7. r = d + n1 + n2 + n3 + n4 /\ r \in Nat
  <2> HIDE DEF d
  <2>1. r = d + 2 * rq.instatic + 3 * (rq.in + rq.out + rq.exch)
    BY DEF RawAt, d
  <2> QED
    BY <1>2, <1>5, <2>1
<1>8. /\ StartsWith(w, f, r) /\ HandlesIn(f, 2, rq) /\ DescriptorsIn(f, d, rq)
  BY <1>1, RequestFrontIs DEF Laid
<1>9. /\ n1 \in Nat /\ n2 \in Nat /\ n3 \in Nat /\ n4 \in Nat /\ m2 \in Nat /\ m3 \in Nat /\ m4 \in Nat
      /\ d + n1 <= r /\ m2 + n2 <= r /\ m3 + n3 <= r /\ m4 + n4 <= r /\ m4 + n4 = r
      /\ m2 + n2 = m3 /\ m3 + n3 = m4
  <2> HIDE DEF d, r
  <2> QED
    BY <1>2, <1>5, <1>7
<1>10. /\ Slice(w, d, n1) = Named("instatic", n1) /\ Slice(w, m2, n2) = Named("in", n2)
       /\ Slice(w, m3, n3) = Named("out", n3) /\ Slice(w, m4, n4) = Named("exch", n4)
  <2>1. /\ Field(f, d, "instatic", n1) /\ Field(f, m2, "in", n2)
        /\ Field(f, m3, "out", n3) /\ Field(f, m4, "exch", n4)
    BY <1>8 DEF DescriptorsIn
  <2> HIDE DEF n1, n2, n3, n4, d, m2, m3, m4, f, r
  <2>2. Found(w, d, "instatic", n1)
    BY <1>5, <1>7, <1>8, <1>9, <2>1, FieldFound
  <2>3. Found(w, m2, "in", n2)
    BY <1>7, <1>8, <1>9, <2>1, FieldFound
  <2>4. Found(w, m3, "out", n3)
    BY <1>7, <1>8, <1>9, <2>1, FieldFound
  <2>5. Found(w, m4, "exch", n4)
    BY <1>7, <1>8, <1>9, <2>1, FieldFound
  <2> QED
    BY <2>2, <2>3, <2>4, <2>5, SliceNamed DEF Found
<1>11. /\ Slice(w, d - rq.copy - rq.move, rq.copy) = Named("copy", rq.copy)
       /\ Slice(w, d - rq.move, rq.move) = Named("move", rq.move)
  <2>1. CASE Special(rq)
    <3> DEFINE h == HandlesAt(rq)
               e == h + rq.copy
    <3>1. d = h + rq.copy + rq.move /\ h \in Nat /\ h >= 3
      BY <1>2, <2>1, HandlesAreAt
    <3>2. Field(f, h, "copy", rq.copy) /\ Field(f, e, "move", rq.move)
      <4>1. 2 + (h - 2) = h /\ 2 + (h - 2) + rq.copy = e
        BY <1>2, <3>1
      <4> QED
        BY <1>8, <2>1, <4>1 DEF HandlesIn
    <3> HIDE DEF h
    <3>3. d - rq.copy - rq.move = h /\ d - rq.move = e /\ e \in Nat
      BY <1>2, <3>1
    <3>4. h + rq.copy <= r /\ e + rq.move <= r
      <4> HIDE DEF d, r
      <4> QED
        BY <1>2, <1>5, <1>7, <1>9, <3>1
    <3> HIDE DEF e, d, r, f
    <3>5. Found(w, h, "copy", rq.copy)
      BY <1>2, <1>7, <1>8, <3>1, <3>2, <3>4, FieldFound
    <3>6. Found(w, e, "move", rq.move)
      BY <1>2, <1>7, <1>8, <3>2, <3>3, <3>4, FieldFound
    <3> QED
      BY <3>3, <3>5, <3>6, SliceNamed DEF Found
  <2>2. CASE ~Special(rq)
    <3>1. rq.copy = 0 /\ rq.move = 0
      BY <1>2, <2>2, HandlesAreAt
    <3> QED
      BY <3>1 DEF Slice, Named
  <2> QED
    BY <1>5, <2>1, <2>2
<1> DEFINE s == SizesAt(rq)
           n == SizeWords(rq)
           v == ReceivesAt(rq)
           u == 2 * rq.outstatic
           raw == r + Pad(r)
           nrecv == IF w[1].receive > 2 THEN w[1].receive - 2 ELSE 0
<1>12. /\ s \in Nat /\ n \in Nat /\ v \in Nat /\ v = s + n /\ raw \in Nat
       /\ DataAt(rq) = raw + (IF rq.domain THEN 4 ELSE 0)
  BY RequestPlaces DEF DataAt
<1>13. nrecv = rq.outstatic
  BY <1>2, <1>4
<1>14. (2 * nrecv + 3) \div 4 = n /\ 2 * nrecv = u
  BY <1>13 DEF SizeWords
<1>15. s = r + RawWords(rq) /\ r + w[1].size = v /\ r + w[1].size - n = s
  <2>1. s = r + RawWords(rq)
    BY DEF SizesAt
  <2>2. RawWords(rq) \in Nat
    <3>1. rq.raw \in Nat
      BY <1>1 DEF Request
    <3>2. RawSize(rq) \in Nat
      BY <1>2, <3>1 DEF RawSize
    <3> QED
      BY <3>2, Words4 DEF RawWords
  <2> HIDE DEF s, r, n, v
  <2>3. w[1].size = RawWords(rq) + n
    BY <1>4 DEF n
  <2> QED
    BY <1>7, <1>12, <2>1, <2>2, <2>3
<1>16. /\ Slice(w, r + w[1].size - (2 * nrecv + 3) \div 4, (2 * nrecv + 3) \div 4)
             = Named("sizes", SizeWords(rq))
       /\ Slice(w, r + w[1].size, 2 * nrecv) = Named("receive", 2 * rq.outstatic)
  <2>1. Found(w, s, "sizes", n) /\ Found(w, v, "receive", u)
    BY DEF Laid
  <2>2. Slice(w, s, n) = Named("sizes", n) /\ Slice(w, v, u) = Named("receive", u)
    BY <2>1, SliceNamed DEF Found
  <2> HIDE DEF s, r, v, nrecv
  <2> QED
    BY <1>14, <1>15, <2>2
<1>17. Slice(w, raw + (IF rq.domain THEN 4 ELSE 0), RawLen(rq)) = Named("raw", RawLen(rq))
  <2>1. Found(w, DataAt(rq), "raw", RawLen(rq))
    BY DEF Laid
  <2> QED
    BY <1>12, <2>1, SliceNamed DEF Found
<1>18. (IF rq.domain THEN Slice(w, raw + 4 + w[raw].size \div 4, w[raw].oids) ELSE <<>>)
         = Named("oid", IF rq.domain THEN rq.oids ELSE 0)
  <2>1. CASE rq.domain
    <3>1. w[raw] = Domain(rq)[1] /\ Found(w, DataAt(rq) + rq.raw \div 4, "oid", rq.oids)
      BY <2>1 DEF Laid
    <3>2. w[raw].size = rq.raw /\ w[raw].oids = rq.oids
      BY <3>1 DEF Domain
    <3>3. Slice(w, DataAt(rq) + rq.raw \div 4, rq.oids) = Named("oid", rq.oids)
      BY <3>1, SliceNamed DEF Found
    <3>4. DataAt(rq) = raw + 4
      BY <1>12, <2>1
    <3> QED
      BY <2>1, <3>2, <3>3, <3>4
  <2>2. CASE ~rq.domain
    BY <2>2 DEF Named
  <2> QED
    BY <1>2, <2>1, <2>2
<1>19. Server(w) =
         [copy |-> Slice(w, d - rq.copy - rq.move, rq.copy), move |-> Slice(w, d - rq.move, rq.move),
          instatic |-> Slice(w, d, n1), in |-> Slice(w, m2, n2),
          out |-> Slice(w, m3, n3), exch |-> Slice(w, m4, n4),
          raw |-> Slice(w, raw + (IF rq.domain THEN 4 ELSE 0), RawLen(rq)),
          oids |-> IF rq.domain THEN Slice(w, raw + 4 + w[raw].size \div 4, w[raw].oids) ELSE <<>>,
          sizes |-> Slice(w, r + w[1].size - (2 * nrecv + 3) \div 4, (2 * nrecv + 3) \div 4),
          receive |-> Slice(w, r + w[1].size, 2 * nrecv)]
  <2>1. m2 + n2 = m3 /\ m3 + n3 = m4 /\ m4 + n4 = r
    BY <1>9
  <2>2. /\ 2 * w[0].instatic = n1 /\ 3 * w[0].in = n2 /\ 3 * w[0].out = n3 /\ 3 * w[0].exch = n4
        /\ w[1].special = Special(rq)
    BY <1>4
  <2> HIDE DEF r, d, n1, n2, n3, n4
  <2> QED
    BY <1>6, <2>1, <2>2 DEF Server
<1> QED
  BY <1>10, <1>11, <1>16, <1>17, <1>18, <1>19

-------------------------------------------------------------------------------
(* The words of the answer. *)
ReplyDescriptors(p) == Named("static", 2 * p.statics) \o Named("buf", 3 * p.bufs)
ReplyFront(p) ==
  Front([statics |-> p.statics, bufs |-> p.bufs], [special |-> Special(p)], p, ReplyDescriptors(p))
ReplyDomain(p) == IF p.domain THEN <<p.oids, 0, 0, 0>> ELSE <<>>
ReplyTail(p) == ReplyDomain(p) \o Named("raw", RawLen(p)) \o Named("oid", p.oids)
ReplyBuffer(w, p) ==
  Put(Put(w, 0, ReplyFront(p)), ReplyRawAt(p) + Pad(ReplyRawAt(p)), ReplyTail(p))

(* The places of the fields of an answer, in their order. *)
LEMMA ReplyPlaces ==
  ASSUME NEW p \in Replies
  PROVE  /\ p \in Reply /\ p.pid \in BOOLEAN /\ p.copy \in Nat /\ p.move \in Nat
         /\ p.statics \in Nat /\ p.bufs \in Nat /\ p.oids \in Nat /\ p.domain \in BOOLEAN
         /\ DescriptorsAt(p) \in Nat /\ ReplyRawAt(p) \in Nat /\ RawLen(p) \in Nat
         /\ DescriptorsAt(p) <= ReplyRawAt(p)
         /\ ReplyRawAt(p) + Pad(ReplyRawAt(p)) \in Nat
         /\ ReplyRawAt(p) <= ReplyRawAt(p) + Pad(ReplyRawAt(p))
         /\ ReplyDataAt(p) = ReplyRawAt(p) + Pad(ReplyRawAt(p)) + (IF p.domain THEN 4 ELSE 0)
         /\ ReplyDataAt(p) \in Nat /\ ReplyDataAt(p) + RawLen(p) + p.oids <= Words
         /\ p.oids > 0 => p.domain
<1>1. p \in Reply /\ (p.oids > 0 => p.domain) /\ ReplyDataAt(p) + RawLen(p) + p.oids <= Words
  BY RepliesAssumption
<1>2. /\ p.pid \in BOOLEAN /\ p.copy \in Nat /\ p.move \in Nat /\ p.statics \in Nat
      /\ p.bufs \in Nat /\ p.oids \in Nat /\ p.domain \in BOOLEAN /\ p.raw \in Nat
  BY <1>1 DEF Reply
<1>3. DescriptorsAt(p) \in Nat
  BY <1>2, HandlesAreAt
<1>4. ReplyRawAt(p) \in Nat /\ DescriptorsAt(p) <= ReplyRawAt(p)
  BY <1>2, <1>3 DEF ReplyRawAt
<1>5. Pad(ReplyRawAt(p)) \in 0..3
  BY <1>4, PadAligns
<1>6. RawLen(p) \in Nat
  BY <1>2, Words4 DEF RawLen
<1>7. ReplyDataAt(p) = ReplyRawAt(p) + Pad(ReplyRawAt(p)) + (IF p.domain THEN 4 ELSE 0)
  BY DEF ReplyDataAt
<1> QED
  BY <1>1, <1>2, <1>3, <1>4, <1>5, <1>6, <1>7

(* The front of an answer, which ends where the raw data are aligned from. *)
LEMMA ReplyFrontIs ==
  ASSUME NEW p \in Replies
  PROVE  /\ Len(ReplyFront(p)) = ReplyRawAt(p)
         /\ ReplyFront(p)[1] = [statics |-> p.statics, bufs |-> p.bufs]
         /\ ReplyFront(p)[2] = [special |-> Special(p)]
         /\ HandlesIn(ReplyFront(p), 2, p)
<1> DEFINE h1 == [statics |-> p.statics, bufs |-> p.bufs]
           h2 == [special |-> Special(p)]
           D == ReplyDescriptors(p)
           P == Fields \X Nat
           S == P \cup {InfoWord(p), h1, h2}
           n1 == 2 * p.statics
           n2 == 3 * p.bufs
           n == n1 + n2
           a == Named("static", n1)
<1>1. /\ p.pid \in BOOLEAN /\ p.copy \in Nat /\ p.move \in Nat /\ n1 \in Nat /\ n2 \in Nat
      /\ n \in Nat /\ DescriptorsAt(p) \in Nat
  BY ReplyPlaces
<1>2. IsWords(S) /\ InfoWord(p) \in S /\ h1 \in S /\ h2 \in S
  BY DEF IsWords, InSet
<1>3. DescriptorsAt(p) + n = ReplyRawAt(p)
  BY <1>1 DEF ReplyRawAt
<1>4. D = a \o Named("buf", n2)
  BY DEF ReplyDescriptors
<1> HIDE DEF h1, h2, P, S, n1, n2
<1>5. InSet(S, "static") /\ InSet(S, "buf")
  BY <1>2 DEF Fields, IsWords
<1>6. a \in Seq(S) /\ Len(a) = n1
  BY <1>1, <1>5, NamedWords
<1> HIDE DEF a, D
<1>7. D \in Seq(S) /\ Grown(D, a, n1, "buf", n2)
  BY <1>1, <1>4, <1>5, <1>6, CatNamed
<1>8. Len(D) = n
  BY <1>7 DEF Grown
<1> HIDE DEF n
<1>9. ReplyFront(p) = Front(h1, h2, p, D)
  BY DEF ReplyFront, h1, h2, D
<1>10. /\ Len(ReplyFront(p)) = DescriptorsAt(p) + n /\ ReplyFront(p)[1] = h1
       /\ ReplyFront(p)[2] = h2 /\ HandlesIn(ReplyFront(p), 2, p)
  BY <1>1, <1>2, <1>7, <1>8, <1>9, FrontIs
<1> QED
  BY <1>3, <1>10 DEF h1, h2

(* The part of an answer behind its front: the header of a domain, the raw   *)
(* data and the object ids.                                                  *)
LEMMA ReplyTailIs ==
  ASSUME NEW p \in Replies, NEW k, k = IF p.domain THEN 4 ELSE 0
  PROVE  /\ k \in Nat /\ Len(ReplyTail(p)) = k + RawLen(p) + p.oids
         /\ p.domain => ReplyTail(p)[1] = p.oids
         /\ Field(ReplyTail(p), k, "raw", RawLen(p))
         /\ Field(ReplyTail(p), k + RawLen(p), "oid", p.oids)
<1> DEFINE P == {"raw", "oid"} \X Nat
           S == P \cup {p.oids, 0}
           l == RawLen(p)
           o == p.oids
           a == ReplyDomain(p)
           b == a \o Named("raw", l)
           c == b \o Named("oid", o)
           m == k + l
<1>1. l \in Nat /\ o \in Nat /\ p.domain \in BOOLEAN /\ k \in Nat /\ m \in Nat
  BY ReplyPlaces
<1>2. InSet(S, "raw") /\ InSet(S, "oid") /\ p.oids \in S /\ 0 \in S
  BY DEF InSet
<1> HIDE DEF P, S
<1>3. a \in Seq(S) /\ Len(a) = k /\ (p.domain => a[1] = p.oids)
  <2>1. CASE p.domain
    <3>1. a = <<p.oids, 0, 0, 0>> /\ k = 4
      BY <2>1 DEF ReplyDomain
    <3> HIDE DEF a
    <3> QED
      BY <1>2, <3>1
  <2>2. CASE ~p.domain
    BY <2>2 DEF ReplyDomain
  <2> QED
    BY <1>1, <2>1, <2>2
<1>4. ReplyTail(p) = c
  BY DEF ReplyTail
<1> HIDE DEF a, l, o
<1>5. b \in Seq(S) /\ Grown(b, a, k, "raw", l)
  BY <1>1, <1>2, <1>3, CatNamed
<1> HIDE DEF b
<1>6. Len(b) = m
  BY <1>5 DEF Grown
<1> HIDE DEF m
<1>7. c \in Seq(S) /\ Grown(c, b, m, "oid", o)
  BY <1>1, <1>2, <1>5, <1>6, CatNamed
<1> HIDE DEF c
<1>8. Len(c) = m + o /\ Field(c, m, "oid", o) /\ \A i \in 1..m : c[i] = b[i]
  BY <1>7 DEF Grown
<1>9. Field(b, k, "raw", l) /\ \A i \in 1..k : b[i] = a[i]
  BY <1>5 DEF Grown
<1>10. k + l <= m /\ k <= m
  BY <1>1 DEF m
<1>11. Field(c, k, "raw", l)
  <2> SUFFICES ASSUME NEW i \in 1..l PROVE c[k + i] = <<"raw", i>>
    BY DEF Field
  <2>1. k + i \in 1..m
    BY <1>1, <1>10
  <2>2. c[k + i] = b[k + i]
    BY <1>8, <2>1
  <2> QED
    BY <1>9, <2>2 DEF Field
<1>12. ASSUME p.domain PROVE c[1] = p.oids
  <2>1. 1 \in 1..k /\ 1 \in 1..m
    BY <1>1, <1>10, <1>12
  <2> QED
    BY <1>3, <1>8, <1>9, <1>12, <2>1
<1> QED
  BY <1>1, <1>4, <1>8, <1>11, <1>12 DEF l, o, m

(* A field of words that are written into the buffer is found there. *)
LEMMA PutField ==
  ASSUME NEW w, DOMAIN w = Buffer, NEW at \in Nat, NEW words, NEW k \in Nat, Len(words) = k,
         at + k <= Words, NEW a \in Nat, NEW n \in Nat, a + n <= k, NEW name,
         Field(words, a, name, n)
  PROVE  Found(Put(w, at, words), at + a, name, n)
<1> SUFFICES ASSUME NEW i \in 1..n PROVE Put(w, at, words)[(at + a) + i - 1] = <<name, i>>
  BY DEF Found
<1>1. a + i \in 1..k /\ at + (a + i) - 1 \in Buffer /\ (at + a) + i - 1 = at + (a + i) - 1
  BY DEF Buffer
<1>2. \A j \in 1..k : at + j - 1 \in Buffer => Put(w, at, words)[at + j - 1] = words[j]
  BY PutWords
<1>3. Put(w, at, words)[at + (a + i) - 1] = words[a + i]
  BY <1>1, <1>2
<1> QED
  BY <1>1, <1>3 DEF Field

(* Where the answer leaves its words. *)
ReplyLaid(w, p) ==
  /\ StartsWith(w, ReplyFront(p), ReplyRawAt(p))
  /\ p.domain => w[ReplyRawAt(p) + Pad(ReplyRawAt(p))] = p.oids
  /\ Found(w, ReplyDataAt(p), "raw", RawLen(p))
  /\ Found(w, ReplyDataAt(p) + RawLen(p), "oid", p.oids)

(* The answer is laid out so, whatever the request left in the buffer. *)
LEMMA ReplyIsLaid ==
  ASSUME NEW p \in Replies, NEW w, DOMAIN w = Buffer
  PROVE  DOMAIN ReplyBuffer(w, p) = Buffer /\ ReplyLaid(ReplyBuffer(w, p), p)
<1> DEFINE r == ReplyRawAt(p)
           raw == ReplyRawAt(p) + Pad(ReplyRawAt(p))
           k == IF p.domain THEN 4 ELSE 0
           dat == ReplyDataAt(p)
           l == RawLen(p)
           o == p.oids
           n == k + l + o
           f == ReplyFront(p)
           t == ReplyTail(p)
           w1 == Put(w, 0, f)
           w2 == Put(w1, raw, t)
<1>1. /\ r \in Nat /\ raw \in Nat /\ k \in Nat /\ dat \in Nat /\ l \in Nat /\ o \in Nat
      /\ r <= raw /\ dat = raw + k /\ dat + l + o <= Words /\ p.domain \in BOOLEAN
  BY ReplyPlaces
<1>2. Len(f) = r
  BY ReplyFrontIs
<1>3. /\ Len(t) = n /\ (p.domain => t[1] = o) /\ Field(t, k, "raw", l)
      /\ Field(t, k + l, "oid", o)
  BY ReplyTailIs
<1>4. p.domain => k = 4
  OBVIOUS
<1>5. ReplyBuffer(w, p) = w2
  BY DEF ReplyBuffer
<1>6. ReplyLaid(w2, p) <=>
        /\ StartsWith(w2, f, r) /\ (p.domain => w2[raw] = o) /\ Found(w2, dat, "raw", l)
        /\ Found(w2, dat + l, "oid", o)
  BY DEF ReplyLaid
<1> HIDE DEF r, raw, k, dat, l, o, f, t
<1>7. n \in Nat /\ raw + n <= Words /\ r <= Words /\ k + l <= n /\ k + l \in Nat /\ (k + l) + o <= n
      /\ raw + (k + l) = dat + l /\ k <= n
  BY <1>1
<1> HIDE DEF n
<1>8. DOMAIN w1 = Buffer /\ StartsWith(w1, f, r)
  BY <1>1, <1>2, <1>7, PutStarts, PutWords
<1> HIDE DEF w1
<1>9. DOMAIN w2 = Buffer /\ StartsWith(w2, f, r)
  BY <1>1, <1>3, <1>7, <1>8, PutWords, PutKeepsStart
<1>10. Found(w2, raw + k, "raw", l)
  BY <1>1, <1>3, <1>7, <1>8, PutField
<1>11. Found(w2, raw + (k + l), "oid", o)
  <2> DEFINE e == k + l
  <2>1. e \in Nat /\ e + o <= n /\ Field(t, e, "oid", o)
    BY <1>3, <1>7
  <2> HIDE DEF e
  <2>2. Found(w2, raw + e, "oid", o)
    BY <1>1, <1>3, <1>7, <1>8, <2>1, PutField
  <2> QED
    BY <2>2 DEF e
<1>12. ASSUME p.domain PROVE w2[raw] = o
  <2>1. raw + 1 - 1 = raw /\ raw \in Buffer /\ 1 \in 1..n
    BY <1>1, <1>4, <1>7, <1>12 DEF Buffer
  <2>2. \A i \in 1..n : raw + i - 1 \in Buffer => Put(w1, raw, t)[raw + i - 1] = t[i]
    BY <1>1, <1>3, <1>7, <1>8, PutWords
  <2> QED
    BY <1>3, <1>12, <2>1, <2>2
<1> QED
  BY <1>1, <1>5, <1>6, <1>7, <1>9, <1>10, <1>11, <1>12

(* The handles of an answer, copied ones first, are found one by one. *)
HandleFields(c, m) == Named("copy", c) \o Named("move", m)

HandlesLaid(w, at, c, m, n) ==
  /\ at \in Nat /\ c \in Nat /\ m \in Nat /\ n \in Nat /\ n <= c + m
  /\ Found(w, at, "copy", c) /\ Found(w, at + c, "move", m)

(* The handles that the client takes are the first ones of the answer. *)
LEMMA HandlesFound ==
  ASSUME NEW w, NEW at, NEW c, NEW m, NEW n, HandlesLaid(w, at, c, m, n)
  PROVE  Slice(w, at, n) = Slice(HandleFields(c, m), 1, n)
<1>0. /\ at \in Nat /\ c \in Nat /\ m \in Nat /\ n \in Nat /\ n <= c + m
      /\ Found(w, at, "copy", c) /\ Found(w, at + c, "move", m)
  BY DEF HandlesLaid
<1> USE <1>0
<1> DEFINE S == {"copy", "move"} \X Nat
           a == Named("copy", c)
           b == a \o Named("move", m)
<1>1. InSet(S, "copy") /\ InSet(S, "move")
  BY DEF InSet
<1> HIDE DEF S
<1>2. a \in Seq(S) /\ Len(a) = c /\ Field(a, 0, "copy", c)
  BY <1>1, NamedWords
<1> HIDE DEF a
<1>3. Grown(b, a, c, "move", m)
  BY <1>1, <1>2, CatNamed
<1> HIDE DEF b
<1>4. \A i \in 1..c : b[i] = <<"copy", i>>
  <2>1. \A i \in 1..c : b[i] = a[i]
    BY <1>3 DEF Grown
  <2>2. \A i \in 1..c : a[i] = <<"copy", i>>
    BY <1>2 DEF Field
  <2> QED
    BY <2>1, <2>2
<1>5. \A i \in 1..m : b[c + i] = <<"move", i>>
  BY <1>3 DEF Grown, Field
<1>6. ASSUME NEW i \in 1..n PROVE w[at + i - 1] = b[1 + i - 1]
  <2>1. CASE i <= c
    <3>1. i \in 1..c /\ 1 + i - 1 = i
      BY <2>1
    <3> QED
      BY <1>4, <3>1 DEF Found
  <2>2. CASE i > c
    <3>1. PICK j \in 1..m : i = c + j
      <4>1. i - c \in 1..m /\ i = c + (i - c)
        BY <2>2
      <4> QED
        BY <4>1
    <3>2. at + i - 1 = (at + c) + j - 1 /\ 1 + i - 1 = c + j
      BY <3>1
    <3>3. w[(at + c) + j - 1] = <<"move", j>>
      BY DEF Found
    <3> QED
      BY <1>5, <3>2, <3>3
  <2> QED
    BY <2>1, <2>2
<1>7. Slice(w, at, n) = Slice(b, 1, n)
  BY <1>6 DEF Slice
<1> QED
  BY <1>7 DEF b, a, HandleFields

(* ProcessResponse finds the fields of an answer that is laid out.  *)
LEMMA ClientFinds ==
  ASSUME rp \in Replies, rp.domain = rq.domain, NEW w, ReplyLaid(w, rp)
  PROVE  ProcessResponse(w) =
           [hs |-> Slice(Named("copy", rp.copy) \o Named("move", rp.move), 1,
                         Least(rp.copy + rp.move, 8)),
            raw |-> Named("raw", RawLen(rp)),
            oids |-> Named("oid", IF rp.domain THEN Least(rp.oids, 8) ELSE 0)]
<1> DEFINE r == ReplyRawAt(rp)
           raw == r + Pad(r)
           k == IF rq.domain THEN 4 ELSE 0
           dat == raw + k
           l == RawLen(rp)
           d == DescriptorsAt(rp)
           f == ReplyFront(rp)
           c == rp.copy
           m == rp.move
           h == IF Special(rp) THEN 3 + (IF w[2].pid THEN 2 ELSE 0) ELSE 2
           oh == IF Special(rp) THEN w[2].copy + w[2].move ELSE 0
<1>1. /\ rp.pid \in BOOLEAN /\ c \in Nat /\ m \in Nat /\ rp.statics \in Nat /\ rp.bufs \in Nat
      /\ rp.oids \in Nat /\ rp.domain \in BOOLEAN /\ r \in Nat /\ l \in Nat /\ d \in Nat /\ d <= r
      /\ ReplyDataAt(rp) = dat /\ raw \in Nat
  BY ReplyPlaces
<1>2. /\ Special(rp) \in BOOLEAN /\ HandlesAt(rp) \in Nat /\ HandlesAt(rp) >= 3 /\ d >= 2
      /\ Special(rp) => d = HandlesAt(rp) + c + m
      /\ ~Special(rp) => d = 2 /\ c = 0 /\ m = 0
  BY <1>1, HandlesAreAt
<1>3. /\ StartsWith(w, f, r) /\ HandlesIn(f, 2, rp)
      /\ f[1] = [statics |-> rp.statics, bufs |-> rp.bufs] /\ f[2] = [special |-> Special(rp)]
  BY ReplyFrontIs DEF ReplyLaid
<1>4. /\ w[0].statics = rp.statics /\ w[0].bufs = rp.bufs /\ w[1].special = Special(rp)
  <2>1. r >= 2
    BY <1>1, <1>2
  <2> HIDE DEF r, f
  <2>2. w[1 - 1] = f[1] /\ w[2 - 1] = f[2]
    BY <1>1, <1>3, <2>1 DEF StartsWith
  <2> QED
    BY <1>3, <2>2
<1>5. Special(rp) => w[2] = InfoWord(rp)
  <2> SUFFICES ASSUME Special(rp) PROVE w[2] = InfoWord(rp)
    OBVIOUS
  <2>1. r >= 3
    BY <1>1, <1>2
  <2>2. f[2 + 1] = InfoWord(rp)
    BY <1>3 DEF HandlesIn
  <2> HIDE DEF r, f
  <2>3. w[3 - 1] = f[3]
    BY <1>1, <1>3, <2>1 DEF StartsWith
  <2> QED
    BY <2>2, <2>3
<1>6. oh = c + m /\ h + oh = d /\ (Special(rp) => h = HandlesAt(rp)) /\ h \in Nat
  <2>1. CASE Special(rp)
    <3>1. w[2].pid = rp.pid /\ w[2].copy = c /\ w[2].move = m
      BY <1>5, <2>1 DEF InfoWord
    <3>2. h = HandlesAt(rp) /\ oh = c + m
      BY <2>1, <3>1 DEF HandlesAt
    <3> QED
      BY <1>1, <1>2, <2>1, <3>2
  <2>2. CASE ~Special(rp)
    BY <1>2, <2>2
  <2> QED
    BY <1>2, <2>1, <2>2
<1> DEFINE n == Least(oh, 8)
<1>7. n \in Nat /\ n <= c + m
  <2> HIDE DEF oh
  <2> QED
    BY <1>1, <1>6 DEF Least
<1>8. Slice(w, h, n) = Slice(HandleFields(c, m), 1, n)
  <2>1. Found(w, h, "copy", c) /\ Found(w, h + c, "move", m)
    <3>1. CASE Special(rp)
      <4> DEFINE g == HandlesAt(rp)
                 e == g + c
      <4>1. /\ g \in Nat /\ e \in Nat /\ g + c <= r /\ e + m <= r /\ h = g
        <5> HIDE DEF h, r, d
        <5> QED
          BY <1>1, <1>2, <1>6, <3>1
      <4>2. Field(f, g, "copy", c) /\ Field(f, e, "move", m)
        <5>1. 2 + (g - 2) = g /\ 2 + (g - 2) + c = e
          BY <1>1, <1>2
        <5> QED
          BY <1>3, <3>1, <5>1 DEF HandlesIn
      <4> HIDE DEF g, e, f, r
      <4>3. Found(w, g, "copy", c)
        BY <1>1, <1>3, <4>1, <4>2, FieldFound
      <4>4. Found(w, e, "move", m)
        BY <1>1, <1>3, <4>1, <4>2, FieldFound
      <4> HIDE DEF h
      <4> QED
        BY <4>1, <4>3, <4>4 DEF e
    <3>2. CASE ~Special(rp)
      BY <1>2, <3>2 DEF Found
    <3> QED
      BY <1>2, <3>1, <3>2
  <2>2. h \in Nat /\ c \in Nat /\ m \in Nat
    BY <1>1, <1>6
  <2> HIDE DEF h, n, c, m
  <2>3. HandlesLaid(w, h, c, m, n)
    BY <1>7, <2>1, <2>2 DEF HandlesLaid
  <2> QED
    BY <2>3, HandlesFound
<1>9. Slice(w, dat, l) = Named("raw", l)
  <2>1. Found(w, dat, "raw", l)
    BY <1>1 DEF ReplyLaid
  <2> QED
    BY <2>1, SliceNamed DEF Found
<1>10. (IF rq.domain THEN Slice(w, dat + l, Least(w[raw], 8)) ELSE <<>>)
         = Named("oid", IF rp.domain THEN Least(rp.oids, 8) ELSE 0)
  <2>1. CASE rp.domain
    <3> DEFINE o == Least(rp.oids, 8)
               e == dat + l
    <3>1. w[raw] = rp.oids
      BY <2>1 DEF ReplyLaid
    <3>2. Found(w, e, "oid", rp.oids)
      BY <1>1 DEF ReplyLaid
    <3>3. o \in Nat /\ o <= rp.oids
      BY <1>1 DEF Least
    <3> HIDE DEF o, e
    <3>4. \A i \in 1..o : w[e + i - 1] = <<"oid", i>>
      BY <1>1, <3>2, <3>3 DEF Found
    <3>5. Slice(w, e, o) = Named("oid", o)
      BY <3>4, SliceNamed
    <3> QED
      BY <2>1, <3>1, <3>5 DEF o, e
  <2>2. CASE ~rp.domain
    BY <2>2 DEF Named
  <2> QED
    BY <1>1, <2>1, <2>2
<1>11. ProcessResponse(w) =
         [hs |-> Slice(w, h, n), raw |-> Slice(w, dat, l),
          oids |-> IF rq.domain THEN Slice(w, dat + l, Least(w[raw], 8)) ELSE <<>>]
  <2>1. AfterHandles(h, oh) + 2 * w[0].statics + 3 * w[0].bufs = r
    <3>1. r = d + 2 * rp.statics + 3 * rp.bufs
      BY DEF ReplyRawAt
    <3> HIDE DEF h, oh, d, r
    <3> QED
      BY <1>4, <1>6, <3>1 DEF AfterHandles
  <2> HIDE DEF r
  <2> QED
    BY <1>4, <2>1 DEF ProcessResponse
<1> QED
  BY <1>6, <1>8, <1>9, <1>10, <1>11 DEF HandleFields

-------------------------------------------------------------------------------
(* A request that was sent is laid out in the buffer, and so is an answer;   *)
(* the two properties follow from that alone.                                *)
MsgInv ==
  /\ rq \in Requests /\ DOMAIN tls = Buffer
  /\ step = "sent" => Laid(tls, rq)
  /\ step = "answered" => rp \in Replies /\ rp.domain = rq.domain /\ ReplyLaid(tls, rp)

(* ProcessRequest lays the request out for the server. *)
LEMMA ProcessRequestKeeps ==
  ASSUME MsgInv, ProcessRequest
  PROVE  MsgInv'
<1>1. rq \in Requests /\ DOMAIN tls = Buffer /\ rq' = rq /\ step' = "sent"
  BY DEF MsgInv, ProcessRequest
<1>2. DOMAIN tls' = Buffer /\ Laid(tls', rq)
  BY <1>1, RequestIsLaid DEF ProcessRequest
<1> QED
  BY <1>1, <1>2 DEF MsgInv

(* The server's answer is laid out for ProcessResponse. *)
LEMMA AnswerKeeps ==
  ASSUME MsgInv, Answer
  PROVE  MsgInv'
<1>1. rq \in Requests /\ DOMAIN tls = Buffer /\ rq' = rq /\ step' = "answered"
  BY DEF MsgInv, Answer
<1>2. PICK p \in Replies : p.domain = rq.domain /\ rp' = p /\ tls' = ReplyBuffer(tls, p)
  BY DEF Answer, ReplyBuffer, ReplyFront, Front, ReplyTail, ReplyDomain, ReplyDescriptors
<1>3. DOMAIN tls' = Buffer /\ ReplyLaid(tls', p)
  BY <1>1, <1>2, ReplyIsLaid
<1> QED
  BY <1>1, <1>2, <1>3 DEF MsgInv

(* The messages in the buffer are laid out in every state. *)
THEOREM MsgInvariance == MsgSpec => []MsgInv
<1>1. MsgInit => MsgInv
  BY DEF MsgInit, MsgInv, Buffer
<1>2. MsgInv /\ [MsgNext]_msgvars => MsgInv'
  <2> SUFFICES ASSUME MsgInv, [MsgNext]_msgvars PROVE MsgInv'
    OBVIOUS
  <2>1. CASE ProcessRequest
    BY <2>1, ProcessRequestKeeps
  <2>2. CASE Answer
    BY <2>2, AnswerKeeps
  <2>3. CASE UNCHANGED msgvars
    BY <2>3 DEF MsgInv, msgvars
  <2> QED
    BY <2>1, <2>2, <2>3 DEF MsgNext
<1> QED
  BY <1>1, <1>2, PTL DEF MsgSpec

(* For every request that fits into the buffer, of whatever counts: the      *)
(* server finds every field that PrepareCommandHeader and ProcessRequest     *)
(* wrote, by the header they wrote.                                          *)
THEOREM IpcRequestArrives == MsgSpec => []RequestArrives
<1>1. MsgInv => RequestArrives
  BY ServerFinds DEF MsgInv, RequestArrives
<1> QED
  BY <1>1, MsgInvariance, PTL

(* For every answer that fits into the buffer: ProcessResponse takes its     *)
(* first eight handles and object ids and all of its raw data.               *)
THEOREM IpcReplyArrives == MsgSpec => []ReplyArrives
<1>1. MsgInv => ReplyArrives
  BY ClientFinds DEF MsgInv, ReplyArrives
<1> QED
  BY <1>1, MsgInvariance, PTL

-------------------------------------------------------------------------------
(* Sessions and their handles. *)
USE HandlesAssumption, PortAssumption

Steps == {"idle", "init", "probe", "pid", "get", "convert"}
Calls == [at : Steps, o : Objects \cup {NoObject}, domain : BOOLEAN]
Types == {"none", "Invalid", "Normal", "Domain", "DomainSubService"}

SessionType ==
  /\ kern \in [Handles -> Nat] /\ made \in Nat
  /\ obj \in [All -> [handle : Handles \cup {0}, type : Types]]
  /\ initialized \in BOOLEAN
  /\ call \in Calls
  /\ born \in [All -> Nat]

(* The kernel's sessions are numbered, and each is behind one handle. *)
SessionsDiffer ==
  \A h \in Handles :
    /\ kern[h] <= made
    /\ \A g \in Handles : kern[g] = kern[h] /\ kern[h] # 0 => g = h

(* The objects with a session that they, and no domain, would close. *)
Holds(o) == obj[o].type \in {"Invalid", "Normal", "Domain"} /\ born[o] # 0

(* Each has a session of its own, and its handle leads there. *)
SessionIsOwn ==
  \A o \in All :
    /\ Holds(o) => obj[o].handle \in Handles /\ kern[obj[o].handle] = born[o]
    /\ Owns(o) => born[o] # 0
    /\ \A p \in All : Holds(o) /\ Holds(p) /\ born[p] = born[o] => p = o

(* An object of a domain has the domain's handle, and another one's number   *)
(* is never that of a session that is gone.                                  *)
SubIsOwn ==
  \A o \in All :
    /\ born[o] <= made
    /\ obj[o].type = "DomainSubService" =>
         /\ born[o] # 0 /\ obj[o].handle \in Handles
         /\ kern[obj[o].handle] = born[o] \/ \A h \in Handles : kern[h] # born[o]

(* The call under way is about one of the program's objects, which has no    *)
(* session until it gets one from sm.                                        *)
CallFits ==
  /\ call.at # "idle" => call.o \in Objects /\ obj[call.o].type = "Invalid"
  /\ call.at \in {"init", "probe", "pid", "get"} => born[call.o] = 0
  /\ call.at = "convert" => born[call.o] # 0
  /\ \A o \in Objects : obj[o].type = "none" => born[o] = 0
  /\ call.at \in {"probe", "pid"} \/ initialized => Owns(Port)
  /\ obj[Port].type \in {"none", "Normal"}

IInv ==
  /\ moved \in BOOLEAN
  /\ ~moved => /\ SessionType /\ SessionsDiffer /\ SessionIsOwn /\ SubIsOwn /\ CallFits
               /\ NothingElseLeaks

(* Closing handles leaves the sessions of the others different. *)
LEMMA DifferStays ==
  ASSUME SessionType, SessionsDiffer, made' = made,
         \A h \in Handles : kern'[h] = kern[h] \/ kern'[h] = 0
  PROVE  SessionsDiffer'
  BY DEF SessionType, SessionsDiffer

(* When one handle is closed, an object of a domain leads to its domain as   *)
(* before, or its domain is gone.                                            *)
LEMMA SubStays ==
  ASSUME SessionsDiffer, SubIsOwn, NEW q \in All, obj[q].type = "DomainSubService",
         \A h \in Handles : kern'[h] = kern[h] \/ kern'[h] = 0,
         \A h \in Handles : kern'[h] # kern[h] => \A g \in Handles \ {h} : kern'[g] = kern[g]
  PROVE  kern'[obj[q].handle] = born[q] \/ \A h \in Handles : kern'[h] # born[q]
<1>1. obj[q].handle \in Handles /\ born[q] # 0
  BY DEF SubIsOwn
<1>2. CASE \A h \in Handles : kern[h] # born[q]
  BY <1>1, <1>2
<1>3. CASE kern[obj[q].handle] = born[q] /\ kern'[obj[q].handle] # born[q]
  <2>1. kern'[obj[q].handle] = 0
    BY <1>1, <1>3
  <2>2. ASSUME NEW h \in Handles, h # obj[q].handle PROVE kern'[h] = kern[h] /\ kern[h] # born[q]
    BY <1>1, <1>3, <2>2 DEF SessionsDiffer
  <2> QED
    BY <1>1, <2>1, <2>2
<1> QED
  BY <1>2, <1>3 DEF SubIsOwn

(* The steps of a call are calls. *)
LEMMA CallSteps ==
  ASSUME call \in Calls
  PROVE  Idle \in Calls /\ \A a \in Steps : [call EXCEPT !.at = a] \in Calls
BY DEF Calls, Steps, Idle

(* The program starts with no session, and no handle is given out. *)
LEMMA InitIInv == Init => IInv
<1> SUFFICES ASSUME Init PROVE IInv
  OBVIOUS
<1>1. SessionType
  BY DEF Init, SessionType, Types, Absent, Idle, All, Calls, Steps
<1>2. \A o \in All : born[o] = 0 /\ obj[o] = Absent
  BY DEF Init
<1>3. SessionIsOwn /\ SubIsOwn
  BY <1>1, <1>2 DEF SessionType, SessionIsOwn, SubIsOwn, Holds, Owns, Absent
<1>4. SessionsDiffer /\ NothingElseLeaks
  BY DEF Init, SessionsDiffer, NothingElseLeaks
<1>5. CallFits
  BY <1>2 DEF Init, CallFits, Idle, Absent, All
<1>6. moved \in BOOLEAN
  BY DEF Init
<1> QED
  BY <1>1, <1>3, <1>4, <1>5, <1>6 DEF IInv

-------------------------------------------------------------------------------
(* The port's new session is nobody's, and the old one is closed. *)
LEMMA ConnectKeeps ==
  ASSUME IInv, ~moved, Connect
  PROVE  IInv'
<1> USE DEF IInv, All
<1>1. SessionType'
  BY DEF SessionType, Calls, Steps, Types, CallFits, Connect, Free, CloseHandle, Owns
<1>2. SessionsDiffer'
  BY DEF SessionType, Calls, SessionsDiffer, Connect, Free, CloseHandle, Owns
<1>3. SessionIsOwn'
  BY DEF SessionType, Calls, SessionsDiffer, SessionIsOwn, SubIsOwn, CallFits, Holds,
     Connect, Free, CloseHandle, Owns
<1>4. SubIsOwn'
  BY DEF SessionType, Calls, SessionsDiffer, SessionIsOwn, SubIsOwn, CallFits, Holds,
     Connect, Free, CloseHandle, Owns
<1>5. CallFits'
  BY DEF SessionType, Calls, SessionIsOwn, CallFits, Holds, Connect, Free, CloseHandle, Owns
<1>6. NothingElseLeaks'
  BY DEF SessionType, Calls, SessionsDiffer, SessionIsOwn, CallFits, NothingElseLeaks,
     Holds, Connect, Free, CloseHandle, Owns
<1> QED
  BY <1>1, <1>2, <1>3, <1>4, <1>5, <1>6 DEF Connect

(* The probe's session is closed at once. *)
LEMMA ProbeKeeps ==
  ASSUME IInv, ~moved, Probe
  PROVE  IInv'
<1> USE DEF IInv, All
<1>1. SessionType'
  <2>1. kern' \in [Handles -> Nat] /\ made' \in Nat /\ born' \in [All -> Nat]
    BY DEF SessionType, Calls, Probe, Free, CloseHandle
  <2>2. obj' \in [All -> [handle : Handles \cup {0}, type : Types]]
    BY DEF SessionType, Calls, Types, CallFits, Probe, Free, CloseHandle
  <2>3. call' \in Calls
    BY CallSteps DEF SessionType, Steps, Probe
  <2>4. initialized' \in BOOLEAN
    BY Zenon DEF SessionType, Calls, Probe
  <2> QED
    BY <2>1, <2>2, <2>3, <2>4 DEF SessionType
<1>2. SessionsDiffer'
  BY DEF SessionType, Calls, SessionsDiffer, Probe, Free, CloseHandle
<1>3. SessionIsOwn'
  BY DEF SessionType, Calls, SessionsDiffer, SessionIsOwn, SubIsOwn, CallFits, Holds, Probe,
     Free, CloseHandle, Owns
<1>4. SubIsOwn'
  BY DEF SessionType, Calls, SessionsDiffer, SessionIsOwn, SubIsOwn, CallFits, Holds, Probe,
     Free, CloseHandle, Owns
<1>5. CallFits'
  BY DEF SessionType, Calls, SessionIsOwn, CallFits, Holds, Probe, Free, CloseHandle, Owns
<1>6. NothingElseLeaks'
  BY DEF SessionType, Calls, SessionsDiffer, SessionIsOwn, CallFits, NothingElseLeaks,
     Holds, Probe, Free, CloseHandle, Owns
<1> QED
  BY <1>1, <1>2, <1>3, <1>4, <1>5, <1>6 DEF Probe

(* The request with the process id changes no session. *)
LEMMA SendPidKeeps ==
  ASSUME IInv, ~moved, SendPid
  PROVE  IInv'
<1> USE DEF IInv, All
<1>1. SessionType'
  <2>1. kern' \in [Handles -> Nat] /\ made' \in Nat /\ born' \in [All -> Nat]
    BY DEF SessionType, Calls, SendPid
  <2>2. obj' \in [All -> [handle : Handles \cup {0}, type : Types]]
    BY DEF SessionType, Calls, Types, CallFits, SendPid
  <2>3. call' \in Calls
    BY CallSteps DEF SessionType, Steps, SendPid
  <2>4. initialized' \in BOOLEAN
    BY Zenon DEF SessionType, Calls, SendPid
  <2> QED
    BY <2>1, <2>2, <2>3, <2>4 DEF SessionType
<1>2. SessionsDiffer'
  BY DEF SessionType, Calls, SessionsDiffer, SendPid
<1>3. SessionIsOwn'
  BY DEF SessionType, Calls, SessionsDiffer, SessionIsOwn, SubIsOwn, CallFits, Holds,
     SendPid, Owns
<1>4. SubIsOwn'
  BY DEF SessionType, Calls, SessionsDiffer, SessionIsOwn, SubIsOwn, CallFits, Holds,
     SendPid, Owns
<1>5. CallFits'
  <2>1. CASE call' = Idle /\ initialized' = initialized
    BY <2>1 DEF SessionType, Calls, CallFits, SendPid, Idle, Owns
  <2>2. CASE call' = [call EXCEPT !.at = "get"]
    BY <2>2 DEF SessionType, Calls, CallFits, SendPid, Owns
  <2> QED
    BY <2>1, <2>2 DEF SendPid
<1>6. NothingElseLeaks'
  BY DEF SessionType, Calls, SessionsDiffer, SessionIsOwn, CallFits, NothingElseLeaks,
     Holds, SendPid, Owns
<1> QED
  BY <1>1, <1>2, <1>3, <1>4, <1>5, <1>6 DEF SendPid

(* Nothing is done, or nothing could be. *)
LEMMA InitializeReturnsKeeps ==
  ASSUME IInv, ~moved, InitializeReturns
  PROVE  IInv'
<1> USE DEF IInv, All
<1>1. SessionType'
  BY DEF SessionType, Calls, Steps, Types, CallFits, InitializeReturns, Idle
<1>2. SessionsDiffer'
  BY DEF SessionType, Calls, SessionsDiffer, InitializeReturns, Idle
<1>3. SessionIsOwn'
  BY DEF SessionType, Calls, SessionsDiffer, SessionIsOwn, SubIsOwn, CallFits, Holds,
     InitializeReturns, Idle, Owns
<1>4. SubIsOwn'
  BY DEF SessionType, Calls, SessionsDiffer, SessionIsOwn, SubIsOwn, CallFits, Holds,
     InitializeReturns, Idle, Owns
<1>5. CallFits'
  BY DEF SessionType, Calls, SessionIsOwn, CallFits, Holds, InitializeReturns, Idle, Owns
<1>6. NothingElseLeaks'
  BY DEF SessionType, Calls, SessionsDiffer, SessionIsOwn, CallFits, NothingElseLeaks,
     Holds, InitializeReturns, Idle, Owns
<1> QED
  BY <1>1, <1>2, <1>3, <1>4, <1>5, <1>6 DEF InitializeReturns

(* The port closes its own session. *)
LEMMA FinalizeKeeps ==
  ASSUME IInv, ~moved, Finalize
  PROVE  IInv'
<1> USE DEF IInv, All
<1>1. SessionType'
  BY DEF SessionType, Calls, Steps, Types, CallFits, Finalize, Idle, Absent, CloseHandle, Owns
<1>2. SessionsDiffer'
  <2>1. made' = made /\ \A h \in Handles : kern'[h] = kern[h] \/ kern'[h] = 0
    BY DEF SessionType, Finalize, CloseHandle
  <2> QED
    BY <2>1, DifferStays
<1>3. SessionIsOwn'
  BY DEF SessionType, Calls, SessionsDiffer, SessionIsOwn, SubIsOwn, CallFits, Holds,
     Finalize, Idle, Absent, CloseHandle, Owns
<1>4. SubIsOwn'
  <2> SUFFICES ASSUME NEW q \in All
               PROVE  /\ born'[q] <= made'
                      /\ obj'[q].type = "DomainSubService" =>
                           /\ born'[q] # 0 /\ obj'[q].handle \in Handles
                           /\ \/ kern'[obj'[q].handle] = born'[q]
                              \/ \A h \in Handles : kern'[h] # born'[q]
    BY DEF SubIsOwn
  <2>1. /\ born'[q] <= made'
        /\ obj'[q].type = "DomainSubService" => q # Port /\ obj'[q] = obj[q] /\ born'[q] = born[q]
    BY DEF SessionType, Calls, SubIsOwn, Finalize, Absent
  <2>2. \A h \in Handles : kern'[h] = kern[h] \/ kern'[h] = 0
    BY DEF SessionType, Calls, Finalize, Closed, CloseHandle
  <2>3. \A h \in Handles : kern'[h] # kern[h] => \A g \in Handles \ {h} : kern'[g] = kern[g]
    BY DEF SessionType, Calls, Finalize, Closed, CloseHandle
  <2> QED
    BY <2>1, <2>2, <2>3, SubStays DEF SubIsOwn
<1>5. CallFits'
  BY DEF SessionType, Calls, SessionIsOwn, CallFits, Holds, Finalize, Idle, Absent,
     CloseHandle, Owns
<1>6. NothingElseLeaks'
  BY DEF SessionType, Calls, SessionsDiffer, SessionIsOwn, CallFits, NothingElseLeaks,
     Holds, Finalize, Idle, Absent, CloseHandle, Owns
<1> QED
  BY <1>1, <1>2, <1>3, <1>4, <1>5, <1>6 DEF Finalize

(* The new session is the object's alone, which had none. *)
LEMMA GetServiceKeeps ==
  ASSUME IInv, ~moved, GetService
  PROVE  IInv'
<1> USE DEF IInv, All
<1>1. SessionType'
  <2>1. kern' \in [Handles -> Nat] /\ made' \in Nat /\ born' \in [All -> Nat]
    BY DEF SessionType, Calls, GetService, Free, Idle
  <2>2. obj' \in [All -> [handle : Handles \cup {0}, type : Types]]
    BY DEF SessionType, Calls, Types, CallFits, GetService, Free, Idle
  <2>3. call' \in Calls
    BY CallSteps DEF SessionType, Steps, GetService
  <2>4. initialized' \in BOOLEAN
    BY Zenon DEF SessionType, Calls, GetService
  <2> QED
    BY <2>1, <2>2, <2>3, <2>4 DEF SessionType
<1>2. SessionsDiffer'
  BY DEF SessionType, Calls, SessionsDiffer, GetService, Free, Idle
<1>3. SessionIsOwn'
  BY DEF SessionType, Calls, SessionsDiffer, SessionIsOwn, SubIsOwn, CallFits, Holds,
     GetService, Free, Idle, Owns
<1>4. SubIsOwn'
  BY DEF SessionType, Calls, SessionsDiffer, SessionIsOwn, SubIsOwn, CallFits, Holds,
     GetService, Free, Idle, Owns
<1>5. CallFits'
  BY DEF SessionType, Calls, SessionIsOwn, CallFits, Holds, GetService, Free, Idle, Owns
<1>6. NothingElseLeaks'
  BY DEF SessionType, Calls, SessionsDiffer, SessionIsOwn, CallFits, NothingElseLeaks,
     Holds, GetService, Free, Idle, Owns
<1> QED
  BY <1>1, <1>2, <1>3, <1>4, <1>5, <1>6 DEF GetService

(* A session that becomes a domain will be closed. *)
LEMMA ConvertToDomainKeeps ==
  ASSUME IInv, ~moved, ConvertToDomain
  PROVE  IInv'
<1> USE DEF IInv, All
<1>1. SessionType'
  BY DEF SessionType, Calls, Steps, Types, CallFits, ConvertToDomain, Converted, Idle
<1>2. SessionsDiffer'
  BY DEF SessionType, Calls, SessionsDiffer, ConvertToDomain, Converted, Idle
<1>3. SessionIsOwn'
  BY DEF SessionType, Calls, SessionsDiffer, SessionIsOwn, SubIsOwn, CallFits, Holds,
     ConvertToDomain, Converted, Idle, Owns
<1>4. SubIsOwn'
  BY DEF SessionType, Calls, SessionsDiffer, SessionIsOwn, SubIsOwn, CallFits, Holds,
     ConvertToDomain, Converted, Idle, Owns
<1>5. CallFits'
  BY DEF SessionType, Calls, SessionIsOwn, CallFits, Holds, ConvertToDomain, Converted, Idle,
     Owns
<1>6. NothingElseLeaks'
  BY DEF SessionType, Calls, SessionsDiffer, SessionIsOwn, CallFits, NothingElseLeaks,
     Holds, ConvertToDomain, Converted, Idle, Owns
<1> QED
  BY <1>1, <1>2, <1>3, <1>4, <1>5, <1>6 DEF ConvertToDomain

(* A new object has no session yet. *)
LEMMA CreateKeeps ==
  ASSUME IInv, ~moved, NEW o \in Objects, NEW d \in BOOLEAN, Create(o, d)
  PROVE  IInv'
<1> USE DEF IInv, All
<1>1. SessionType'
  BY DEF SessionType, Calls, Steps, Types, CallFits, Create, Idle, Live
<1>2. SessionsDiffer'
  BY DEF SessionType, Calls, SessionsDiffer, Create, Idle, Live
<1>3. SessionIsOwn'
  BY DEF SessionType, Calls, SessionsDiffer, SessionIsOwn, SubIsOwn, CallFits, Holds,
     Create, Idle, Live, Owns
<1>4. SubIsOwn'
  BY DEF SessionType, Calls, SessionsDiffer, SessionIsOwn, SubIsOwn, CallFits, Holds,
     Create, Idle, Live, Owns
<1>5. CallFits'
  BY DEF SessionType, Calls, SessionIsOwn, CallFits, Holds, Create, Idle, Live, Owns
<1>6. NothingElseLeaks'
  BY DEF SessionType, Calls, SessionsDiffer, SessionIsOwn, CallFits, NothingElseLeaks,
     Holds, Create, Idle, Live, Owns
<1> QED
  BY <1>1, <1>2, <1>3, <1>4, <1>5, <1>6 DEF Create

(* As in ConvertToDomain, for a session that is open. *)
LEMMA ConvertKeeps ==
  ASSUME IInv, ~moved, NEW o \in Objects, Convert(o)
  PROVE  IInv'
<1> USE DEF IInv, All
<1>1. SessionType'
  BY DEF SessionType, Calls, Steps, Types, CallFits, Convert, Converted, Usable, Idle, Live
<1>2. SessionsDiffer'
  BY DEF SessionType, Calls, SessionsDiffer, Convert, Converted, Usable, Idle, Live
<1>3. SessionIsOwn'
  BY DEF SessionType, Calls, SessionsDiffer, SessionIsOwn, SubIsOwn, CallFits, Holds,
     Convert, Converted, Usable, Idle, Live, Owns
<1>4. SubIsOwn'
  BY DEF SessionType, Calls, SessionsDiffer, SessionIsOwn, SubIsOwn, CallFits, Holds,
     Convert, Converted, Usable, Idle, Live, Owns
<1>5. CallFits'
  BY DEF SessionType, Calls, SessionIsOwn, CallFits, Holds, Convert, Converted, Usable,
     Idle, Live, Owns
<1>6. NothingElseLeaks'
  BY DEF SessionType, Calls, SessionsDiffer, SessionIsOwn, CallFits, NothingElseLeaks,
     Holds, Convert, Converted, Usable, Idle, Live, Owns
<1> QED
  BY <1>1, <1>2, <1>3, <1>4, <1>5, <1>6 DEF Convert

(* An object closes its own session, and what it was a domain for is gone. *)
LEMMA CloseKeeps ==
  ASSUME IInv, ~moved, NEW o \in Objects, Close(o)
  PROVE  IInv'
<1> USE DEF IInv, All
<1>1. SessionType'
  BY DEF SessionType, Calls, Steps, Types, CallFits, Close, Closed, CloseHandle, Owns, Live,
     Idle
<1>2. SessionsDiffer'
  <2>1. made' = made /\ \A h \in Handles : kern'[h] = kern[h] \/ kern'[h] = 0
    BY DEF SessionType, Close, Closed, CloseHandle
  <2> QED
    BY <2>1, DifferStays
<1>3. SessionIsOwn'
  BY DEF SessionType, Calls, SessionsDiffer, SessionIsOwn, SubIsOwn, CallFits, Holds, Close,
     Closed, CloseHandle, Owns, Live, Idle
<1>4. SubIsOwn'
  BY DEF SessionType, Calls, SessionsDiffer, SessionIsOwn, SubIsOwn, CallFits, Holds, Close,
     Closed, CloseHandle, Owns, Live, Idle
<1>5. CallFits'
  BY DEF SessionType, Calls, SessionIsOwn, CallFits, Holds, Close, Closed, CloseHandle,
     Owns, Live, Idle
<1>6. NothingElseLeaks'
  BY DEF SessionType, Calls, SessionsDiffer, SessionIsOwn, CallFits, NothingElseLeaks,
     Holds, Close, Closed, CloseHandle, Owns, Live, Idle
<1> QED
  BY <1>1, <1>2, <1>3, <1>4, <1>5, <1>6 DEF Close

(* So does one that is destroyed. *)
LEMMA DestroyKeeps ==
  ASSUME IInv, ~moved, NEW o \in Objects, Destroy(o)
  PROVE  IInv'
<1> USE DEF IInv, All
<1>1. SessionType'
  BY DEF SessionType, Calls, Steps, Types, CallFits, Destroy, Closed, CloseHandle, Owns,
     Live, Idle, Absent
<1>2. SessionsDiffer'
  <2>1. made' = made /\ \A h \in Handles : kern'[h] = kern[h] \/ kern'[h] = 0
    BY DEF SessionType, Destroy, Closed, CloseHandle
  <2> QED
    BY <2>1, DifferStays
<1>3. SessionIsOwn'
  BY DEF SessionType, Calls, SessionsDiffer, SessionIsOwn, SubIsOwn, CallFits, Holds,
     Destroy, Closed, CloseHandle, Owns, Live, Idle, Absent
<1>4. SubIsOwn'
  <2> SUFFICES ASSUME NEW q \in All
               PROVE  /\ born'[q] <= made'
                      /\ obj'[q].type = "DomainSubService" =>
                           /\ born'[q] # 0 /\ obj'[q].handle \in Handles
                           /\ \/ kern'[obj'[q].handle] = born'[q]
                              \/ \A h \in Handles : kern'[h] # born'[q]
    BY DEF SubIsOwn
  <2>1. /\ born'[q] <= made'
        /\ obj'[q].type = "DomainSubService" => q # o /\ obj'[q] = obj[q] /\ born'[q] = born[q]
    BY DEF SessionType, Calls, SubIsOwn, Destroy, Absent
  <2>2. \A h \in Handles : kern'[h] = kern[h] \/ kern'[h] = 0
    BY DEF SessionType, Calls, Destroy, Closed, CloseHandle
  <2>3. \A h \in Handles : kern'[h] # kern[h] => \A g \in Handles \ {h} : kern'[g] = kern[g]
    BY DEF SessionType, Calls, Destroy, Closed, CloseHandle
  <2> QED
    BY <2>1, <2>2, <2>3, SubStays DEF SubIsOwn
<1>5. CallFits'
  BY DEF SessionType, Calls, SessionIsOwn, CallFits, Holds, Destroy, Closed, CloseHandle,
     Owns, Live, Idle, Absent
<1>6. NothingElseLeaks'
  BY DEF SessionType, Calls, SessionsDiffer, SessionIsOwn, CallFits, NothingElseLeaks,
     Holds, Destroy, Closed, CloseHandle, Owns, Live, Idle, Absent
<1> QED
  BY <1>1, <1>2, <1>3, <1>4, <1>5, <1>6 DEF Destroy

(* An object of the domain shares its session; another has a new one. *)
LEMMA OutSessionKeeps ==
  ASSUME IInv, ~moved, NEW o \in Objects, NEW p \in Objects, OutSession(p, o)
  PROVE  IInv'
<1> USE DEF IInv, All
<1>1. SessionType'
  BY DEF SessionType, Calls, Steps, Types, CallFits, OutSession, Usable, Live, Idle, Free
<1>2. SessionsDiffer'
  BY DEF SessionType, Calls, SessionsDiffer, OutSession, Usable, Live, Idle, Free
<1>3. SessionIsOwn'
  BY DEF SessionType, Calls, SessionsDiffer, SessionIsOwn, SubIsOwn, CallFits, Holds,
     OutSession, Usable, Live, Idle, Free, Owns
<1>4. SubIsOwn'
  BY DEF SessionType, Calls, SessionsDiffer, SessionIsOwn, SubIsOwn, CallFits, Holds,
     OutSession, Usable, Live, Idle, Free, Owns
<1>5. CallFits'
  BY DEF SessionType, Calls, SessionIsOwn, CallFits, Holds, OutSession, Usable, Live, Idle,
     Free, Owns
<1>6. NothingElseLeaks'
  BY DEF SessionType, Calls, SessionsDiffer, SessionIsOwn, CallFits, NothingElseLeaks,
     Holds, OutSession, Usable, Live, Idle, Free, Owns
<1> QED
  BY <1>1, <1>2, <1>3, <1>4, <1>5, <1>6 DEF OutSession

-------------------------------------------------------------------------------
(* Every step, also of a program that has moved a session, of which nothing  *)
(* is said.                                                                  *)
LEMMA NextIInv == IInv /\ [Next]_vars => IInv'
<1> SUFFICES ASSUME IInv, [Next]_vars PROVE IInv'
  OBVIOUS
<1>1. CASE moved
  BY <1>1 DEF IInv, Next, vars, Connect, Probe, SendPid, InitializeReturns, Finalize,
     GetService,
     ConvertToDomain, Create, Convert, Close, Destroy, OutSession, Move
<1>2. CASE UNCHANGED vars
  BY <1>2 DEF vars, IInv, SessionType, SessionsDiffer, SessionIsOwn, SubIsOwn, CallFits,
     NothingElseLeaks, Holds, Owns
<1>3. ASSUME ~moved, NEW o \in Objects, NEW p \in Objects, Move(p, o) PROVE IInv'
  BY <1>3 DEF Move, IInv
<1> QED
  BY <1>1, <1>2, <1>3, ConnectKeeps, ProbeKeeps, SendPidKeeps, InitializeReturnsKeeps,
     FinalizeKeeps, GetServiceKeeps, ConvertToDomainKeeps, CreateKeeps, ConvertKeeps, CloseKeeps,
     DestroyKeeps, OutSessionKeeps
  DEF Next

(* The objects of a program that moves no session and the kernel's table     *)
(* agree for ever.                                                           *)
THEOREM Invariance == Spec => []IInv
<1> QED
  BY InitIInv, NextIInv, PTL DEF Spec

(* A session that would close a handle closes its own, also after numbers    *)
(* of handles were given out again (Session::Close).                         *)
THEOREM SessionHandleIsOwn == Spec => []HandleIsOwn
<1>1. IInv => HandleIsOwn
  BY DEF IInv, HandleIsOwn, SessionIsOwn, SubIsOwn, SessionType, Types, Holds, Owns, IsValid
<1> QED
  BY Invariance, <1>1, PTL

(* No session is left open by Close, the destructor, sm::Initialize and      *)
(* sm::Finalize but those got by name and never made a domain.               *)
THEOREM SessionNothingElseLeaks == Spec => []NothingElseLeaks
<1>1. IInv => NothingElseLeaks
  BY DEF IInv, NothingElseLeaks
<1> QED
  BY Invariance, <1>1, PTL

(* While sm is initialised its port is open (sm_Port.cpp). *)
THEOREM SessionPortIsOpen == Spec => []PortIsOpen
<1>1. IInv => PortIsOpen
  BY DEF IInv, PortIsOpen, SessionIsOwn, CallFits, Holds, Owns, All
<1> QED
  BY Invariance, <1>1, PTL
===============================================================================
