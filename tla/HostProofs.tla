--------------------------- MODULE HostProofs ---------------------------
(***************************************************************************)
(* The two ways between the host and the memory controller, each by itself.*)
(* Read data, for every depth of the FIFOs and latency of the PHY: no word *)
(* is lost, duplicated or reordered up to the sender, no beat from there   *)
(* into the channel.  Instructions, for every set of commands and waits,   *)
(* every depth and latency of the FIFOs, and dfi_ready falling at any      *)
(* clock: one sequence at a time; and none loses a word, if it fits.       *)
(***************************************************************************)
EXTENDS ReadBack, IseqHost, IseqPathProofs, SequenceTheorems

-----------------------------------------------------------------------------
(* Read data.                                                              *)

\* The numbers of words, and what the data path may carry.
WordNo == 0 .. WordNumbers - 1
Data == {Nothing, Periodic} \cup [what : {"word"}, n : WordNo]

-----------------------------------------------------------------------------
(* Numbers of words.                                                       *)

\* Quotient and remainder put a number together again.
LEMMA Rest ==
  ASSUME NEW a \in Int, NEW q \in Nat \ {0}
  PROVE  a % q \in 0 .. q - 1 /\ a \div q \in Int /\ a = q * (a \div q) + (a % q)
<1>1. a % q \in 0 .. q - 1
  BY SMT
<1>2. a \div q \in Int
  BY SMT
<1>3. a = q * (a \div q) + (a % q)
  BY SMT
<1>4. QED
  BY <1>1, <1>2, <1>3

\* There is only one remainder.
LEMMA RestIs ==
  ASSUME NEW a \in Int, NEW q \in Nat \ {0}, NEW x \in Int, NEW r \in 0 .. q - 1,
         a = q * x + r
  PROVE  a % q = r
<1> DEFINE y == a \div q
           s == a % q
<1>1. y \in Int /\ s \in 0 .. q - 1 /\ a = q * y + s
  BY Rest
<1> SUFFICES s = r
  OBVIOUS
<1> HIDE DEF y, s
<1>2. q * (x - y) = s - r
  BY <1>1, SMT
<1>3. x - y \in Int /\ (x - y >= 1 \/ x - y <= -1 \/ x - y = 0)
  BY <1>1, SMT
<1>4. QED
  BY <1>1, <1>2, <1>3, SMT

\* What % WordNumbers does to a number at most one round away.
LEMMA OneRound ==
  ASSUME NEW a \in Int
  PROVE  /\ a \in WordNo => a % WordNumbers = a
         /\ a - WordNumbers \in WordNo => a % WordNumbers = a - WordNumbers
         /\ a + WordNumbers \in WordNo => a % WordNumbers = a + WordNumbers
<1> DEFINE q == WordNumbers
<1>1. q \in Nat \ {0}
  BY ReadBackAssumption, SMT
<1>2. a = q * 0 + a /\ a = q * 1 + (a - q) /\ a = q * (-1) + (a + q)
  BY <1>1, SMT
<1>3. ASSUME a \in WordNo PROVE a % q = a
  BY <1>1, <1>2, <1>3, RestIs DEF WordNo
<1>4. ASSUME a - q \in WordNo PROVE a % q = a - q
  BY <1>1, <1>2, <1>4, RestIs DEF WordNo
<1>5. ASSUME a + q \in WordNo PROVE a % q = a + q
  BY <1>1, <1>2, <1>5, RestIs DEF WordNo
<1>6. QED
  BY <1>3, <1>4, <1>5

\* The age of word n when word o is the oldest, with no division left in it.
AgeFrom(n, o) == IF n >= o THEN n - o ELSE n - o + WordNumbers
NextNo(n) == IF n = WordNumbers - 1 THEN 0 ELSE n + 1

\* Age without its division.
LEMMA AgeIs ==
  ASSUME NEW n \in WordNo, NEW o \in WordNo
  PROVE  (n - o) % WordNumbers = AgeFrom(n, o) /\ AgeFrom(n, o) \in WordNo
<1>1. WordNumbers \in Nat /\ n \in Int /\ o \in Int /\ n - o \in Int
  BY ReadBackAssumption, SMT DEF WordNo
<1>2. CASE n >= o
  <2>1. n - o \in WordNo
    BY <1>1, <1>2, SMT DEF WordNo
  <2>2. QED
    BY <1>1, <1>2, <2>1, OneRound DEF AgeFrom
<1>3. CASE ~(n >= o)
  <2>1. n - o + WordNumbers \in WordNo
    BY <1>1, <1>3, SMT DEF WordNo
  <2>2. QED
    BY <1>1, <1>3, <2>1, OneRound DEF AgeFrom
<1>4. QED
  BY <1>2, <1>3

\* The numbers after a number.
LEMMA NextNoIs ==
  ASSUME NEW n \in WordNo
  PROVE  /\ (n + 1) % WordNumbers = NextNo(n)
         /\ NextNo(n) \in WordNo
         /\ (n + 2) % WordNumbers = NextNo(NextNo(n))
         /\ n % WordNumbers = n
<1>1. WordNumbers \in Nat /\ WordNumbers > 1 /\ n \in Int
  BY ReadBackAssumption, SMT DEF WordNo
<1>2. n % WordNumbers = n
  BY <1>1, OneRound
<1>3. (n + 1) % WordNumbers = NextNo(n) /\ NextNo(n) \in WordNo
  <2>1. n + 1 \in Int /\ (n + 1 \in WordNo \/ (n + 1) - WordNumbers \in WordNo)
    BY <1>1, SMT DEF WordNo
  <2>2. (n + 1 \in WordNo <=> n # WordNumbers - 1) /\ (n = WordNumbers - 1 => (n + 1) - WordNumbers = 0)
    BY <1>1, SMT DEF WordNo
  <2>3. QED
    BY <2>1, <2>2, <1>1, OneRound DEF NextNo
<1>4. (n + 2) % WordNumbers = NextNo(NextNo(n))
  <2>1. n + 2 \in Int /\ (n + 2 \in WordNo \/ (n + 2) - WordNumbers \in WordNo)
    BY <1>1, SMT DEF WordNo
  <2>2. n + 2 \in WordNo => NextNo(NextNo(n)) = n + 2
    BY <1>1, SMT DEF WordNo, NextNo
  <2>3. (n + 2) - WordNumbers \in WordNo => NextNo(NextNo(n)) = (n + 2) - WordNumbers
    BY <1>1, SMT DEF WordNo, NextNo
  <2> DEFINE a == n + 2
  <2>4. a \in Int /\ (a \in WordNo \/ a - WordNumbers \in WordNo)
    BY <2>1
  <2>5. /\ a \in WordNo => NextNo(NextNo(n)) = a
        /\ a - WordNumbers \in WordNo => NextNo(NextNo(n)) = a - WordNumbers
    BY <2>2, <2>3
  <2>6. a % WordNumbers = NextNo(NextNo(n))
    <3> HIDE DEF a
    <3>1. QED
      BY <2>4, <2>5, OneRound
  <2>7. QED
    BY <2>6
<1>5. QED
  BY <1>2, <1>3, <1>4

\* Ages grow with the number and shrink with the oldest one's.
LEMMA AgeSteps ==
  ASSUME NEW n \in WordNo, NEW o \in WordNo
  PROVE  /\ AgeFrom(n, o) >= 1 => AgeFrom(n, NextNo(o)) = AgeFrom(n, o) - 1
         /\ AgeFrom(n, o) + 1 < WordNumbers => AgeFrom(NextNo(n), o) = AgeFrom(n, o) + 1
         /\ AgeFrom(n, n) = 0
<1>1. WordNumbers \in Nat /\ WordNumbers > 1
  BY ReadBackAssumption, SMT
<1>2. QED
  BY <1>1, SMT DEF WordNo, AgeFrom, NextNo

-----------------------------------------------------------------------------
(* What is on its way, as a function of the places it takes.               *)

Stages == 0 .. PhyLatency + 1
IsWord(d) == d.what = "word"

\* The words on their way are those of the ages l .. t - 1, each once, in order.
Ordered(way, o, l, t) ==
  /\ \A i \in Stages : IsWord(way[i]) => AgeFrom(way[i].n, o) \in l .. t - 1
  /\ \A v \in l .. t - 1 : \E i \in Stages : IsWord(way[i]) /\ AgeFrom(way[i].n, o) = v
  /\ \A i, j \in Stages : IsWord(way[i]) /\ IsWord(way[j]) /\ i < j =>
       AgeFrom(way[i].n, o) < AgeFrom(way[j].n, o)

\* The word that arrives is the one after those in the FIFO; the rest moves on.
Moved(way, new) ==
  /\ \A i \in 0 .. PhyLatency : IsWord(new[i]) <=> IsWord(way[i + 1])
  /\ \A i \in 0 .. PhyLatency : IsWord(way[i + 1]) => new[i].n = way[i + 1].n
  /\ ~IsWord(new[PhyLatency + 1])

\* The word that arrives has the least age.
LEMMA WayMoves ==
  ASSUME NEW way, NEW new, NEW o \in WordNo, NEW l \in Nat, NEW t \in Nat,
         \A i \in Stages : IsWord(way[i]) => way[i].n \in WordNo,
         Ordered(way, o, l, t), Moved(way, new)
  PROVE  /\ IsWord(way[0]) => AgeFrom(way[0].n, o) = l /\ l < t
                              /\ Ordered(new, o, l + 1, t)
         /\ ~IsWord(way[0]) => Ordered(new, o, l, t)
<1>1. PhyLatency \in Nat /\ PhyLatency >= 1
  BY ReadBackAssumption, SMT
<1>2. \A i \in 0 .. PhyLatency : i \in Stages /\ i + 1 \in Stages
  BY <1>1, SMT DEF Stages
<1>3. \A i \in Stages : i = PhyLatency + 1 \/ i \in 0 .. PhyLatency
  BY <1>1, SMT DEF Stages
<1>4. \A i \in Stages : i = 0 \/ i - 1 \in 0 .. PhyLatency
  BY <1>1, SMT DEF Stages
<1>5. \A i \in Stages : IsWord(way[i]) => AgeFrom(way[i].n, o) \in l .. t - 1
  BY DEF Ordered
<1>6. \A v \in l .. t - 1 : \E i \in Stages : IsWord(way[i]) /\ AgeFrom(way[i].n, o) = v
  BY DEF Ordered
<1>7. \A i, j \in Stages : IsWord(way[i]) /\ IsWord(way[j]) /\ i < j =>
        AgeFrom(way[i].n, o) < AgeFrom(way[j].n, o)
  BY DEF Ordered
<1>8. \A i \in Stages : IsWord(new[i]) => i \in 0 .. PhyLatency /\ i + 1 \in Stages
                                          /\ IsWord(way[i + 1]) /\ new[i].n = way[i + 1].n
  BY <1>2, <1>3 DEF Moved
<1>9. \A i \in Stages : IsWord(way[i]) /\ i # 0 =>
        i - 1 \in Stages /\ IsWord(new[i - 1]) /\ new[i - 1].n = way[i].n
  <2> TAKE i \in Stages
  <2> HAVE IsWord(way[i]) /\ i # 0
  <2>1. i - 1 \in 0 .. PhyLatency /\ (i - 1) + 1 = i
    BY <1>4, <1>1, SMT DEF Stages
  <2>2. QED
    BY <2>1, <1>2 DEF Moved
<1>10. \A i, j \in Stages : IsWord(new[i]) /\ IsWord(new[j]) /\ i < j =>
         AgeFrom(new[i].n, o) < AgeFrom(new[j].n, o)
  <2> TAKE i, j \in Stages
  <2> HAVE IsWord(new[i]) /\ IsWord(new[j]) /\ i < j
  <2>1. i + 1 < j + 1
    BY <1>1, SMT DEF Stages
  <2>2. QED
    BY <2>1, <1>7, <1>8
<1>11. \A i \in Stages : IsWord(new[i]) => AgeFrom(new[i].n, o) \in l .. t - 1
  BY <1>5, <1>8
<1>12. 0 \in Stages
  BY <1>1, SMT DEF Stages
<1>13. ASSUME ~IsWord(way[0]) PROVE Ordered(new, o, l, t)
  <2>1. \A v \in l .. t - 1 : \E i \in Stages : IsWord(new[i]) /\ AgeFrom(new[i].n, o) = v
    <3> TAKE v \in l .. t - 1
    <3>1. PICK i \in Stages : IsWord(way[i]) /\ AgeFrom(way[i].n, o) = v
      BY <1>6
    <3>2. i # 0
      BY <3>1, <1>13
    <3>3. QED
      BY <3>1, <3>2, <1>9
  <2>2. QED
    BY <2>1, <1>10, <1>11 DEF Ordered
<1>14. ASSUME IsWord(way[0])
       PROVE  AgeFrom(way[0].n, o) = l /\ l < t /\ Ordered(new, o, l + 1, t)
  <2> DEFINE a == AgeFrom(way[0].n, o)
  <2>1. a \in l .. t - 1
    BY <1>5, <1>12, <1>14
  <2>2. l \in l .. t - 1
    BY <2>1, SMT
  <2>3. PICK i \in Stages : IsWord(way[i]) /\ AgeFrom(way[i].n, o) = l
    BY <2>2, <1>6
  <2>4. a = l
    <3>1. CASE i = 0
      BY <3>1, <2>3
    <3>2. CASE i # 0
      <4>1. 0 < i
        BY <3>2, <1>1, SMT DEF Stages
      <4>2. a < l
        BY <4>1, <2>3, <1>7, <1>12, <1>14
      <4>3. QED
        BY <4>2, <2>1, SMT
    <3>3. QED
      BY <3>1, <3>2
  <2> HIDE DEF a
  <2>5. \A j \in Stages : IsWord(new[j]) => AgeFrom(new[j].n, o) \in l + 1 .. t - 1
    <3> TAKE j \in Stages
    <3> HAVE IsWord(new[j])
    <3>1. 0 < j + 1
      BY <1>1, SMT DEF Stages
    <3>2. a < AgeFrom(new[j].n, o)
      BY <3>1, <1>7, <1>8, <1>12, <1>14 DEF a
    <3>3. AgeFrom(new[j].n, o) \in l .. t - 1
      BY <1>11
    <3>4. QED
      BY <3>2, <3>3, <2>4, SMT
  <2>6. \A v \in l + 1 .. t - 1 : \E j \in Stages : IsWord(new[j]) /\ AgeFrom(new[j].n, o) = v
    <3> TAKE v \in l + 1 .. t - 1
    <3>1. v \in l .. t - 1 /\ v # l
      BY SMT
    <3>2. PICK j \in Stages : IsWord(way[j]) /\ AgeFrom(way[j].n, o) = v
      BY <1>6, <3>1
    <3>3. j # 0
      BY <3>1, <3>2, <2>4 DEF a
    <3>4. QED
      BY <3>2, <3>3, <1>9
  <2>7. Ordered(new, o, l + 1, t)
    BY <2>5, <2>6, <1>10 DEF Ordered
  <2>8. QED
    BY <2>1, <2>4, <2>7, SMT DEF a
<1>15. QED
  BY <1>13, <1>14

\* A read puts its two words behind everything else.
LEMMA WordsEnter ==
  ASSUME NEW way, NEW new, NEW o \in WordNo, NEW l \in Nat, NEW t \in Nat, l <= t,
         NEW w \in WordNo, NEW x \in WordNo,
         Ordered(way, o, l, t),
         ~IsWord(way[PhyLatency]), ~IsWord(way[PhyLatency + 1]),
         \A i \in 0 .. PhyLatency - 1 : new[i] = way[i],
         IsWord(new[PhyLatency]), new[PhyLatency].n = w, AgeFrom(w, o) = t,
         IsWord(new[PhyLatency + 1]), new[PhyLatency + 1].n = x, AgeFrom(x, o) = t + 1
  PROVE  Ordered(new, o, l, t + 2)
<1>1. PhyLatency \in Nat /\ PhyLatency >= 1
  BY ReadBackAssumption, SMT
<1>2. \A i \in Stages : i \in 0 .. PhyLatency - 1 \/ i = PhyLatency \/ i = PhyLatency + 1
  BY <1>1, SMT DEF Stages
<1>3. PhyLatency \in Stages /\ PhyLatency + 1 \in Stages
  BY <1>1, SMT DEF Stages
<1>4. \A i \in Stages : IsWord(way[i]) => i \in 0 .. PhyLatency - 1 /\ new[i] = way[i]
  BY <1>2
<1>5. \A i \in Stages : IsWord(new[i]) =>
        \/ i \in 0 .. PhyLatency - 1 /\ IsWord(way[i]) /\ new[i] = way[i]
           /\ AgeFrom(new[i].n, o) \in l .. t - 1
        \/ i = PhyLatency /\ AgeFrom(new[i].n, o) = t
        \/ i = PhyLatency + 1 /\ AgeFrom(new[i].n, o) = t + 1
  BY <1>2 DEF Ordered
<1>6. \A i \in Stages : IsWord(new[i]) => AgeFrom(new[i].n, o) \in l .. t + 1
  BY <1>5, SMT
<1>7. \A v \in l .. t + 1 : \E i \in Stages : IsWord(new[i]) /\ AgeFrom(new[i].n, o) = v
  <2> TAKE v \in l .. t + 1
  <2>1. v \in l .. t - 1 \/ v = t \/ v = t + 1
    BY SMT
  <2>2. CASE v \in l .. t - 1
    <3>1. PICK i \in Stages : IsWord(way[i]) /\ AgeFrom(way[i].n, o) = v
      BY <2>2 DEF Ordered
    <3>2. QED
      BY <3>1, <1>4
  <2>3. CASE v = t
    BY <2>3, <1>3
  <2>4. CASE v = t + 1
    BY <2>4, <1>3
  <2>5. QED
    BY <2>1, <2>2, <2>3, <2>4
<1>8. \A i, j \in Stages : IsWord(new[i]) /\ IsWord(new[j]) /\ i < j =>
        AgeFrom(new[i].n, o) < AgeFrom(new[j].n, o)
  <2> TAKE i, j \in Stages
  <2> HAVE IsWord(new[i]) /\ IsWord(new[j]) /\ i < j
  <2>1. CASE j \in 0 .. PhyLatency - 1
    <3>1. i # PhyLatency /\ i # PhyLatency + 1 /\ j # PhyLatency /\ j # PhyLatency + 1
      BY <2>1, <1>1, SMT DEF Stages
    <3>2. IsWord(way[i]) /\ new[i] = way[i] /\ IsWord(way[j]) /\ new[j] = way[j]
      BY <3>1, <1>5
    <3>3. QED
      BY <3>2 DEF Ordered
  <2>2. CASE j = PhyLatency
    <3>1. i # PhyLatency /\ i # PhyLatency + 1
      BY <2>2, <1>1, SMT DEF Stages
    <3>2. AgeFrom(new[i].n, o) \in l .. t - 1
      BY <3>1, <1>5
    <3>3. QED
      BY <3>2, <2>2, SMT
  <2>3. CASE j = PhyLatency + 1
    <3>1. i # PhyLatency + 1
      BY <2>3, <1>1, SMT DEF Stages
    <3>2. AgeFrom(new[i].n, o) \in l .. t - 1 \/ AgeFrom(new[i].n, o) = t
      BY <3>1, <1>5
    <3>3. QED
      BY <3>2, <2>3, SMT
  <2>4. QED
    BY <1>2, <2>1, <2>2, <2>3
<1>9. (t + 2) - 1 = t + 1
  BY SMT
<1>10. QED
  BY <1>6, <1>7, <1>8, <1>9 DEF Ordered

\* When the oldest word is sent, every other one is younger by one.
LEMMA WordLeaves ==
  ASSUME NEW way, NEW o \in WordNo, NEW l \in Nat, NEW t \in Nat, l >= 1,
         \A i \in Stages : IsWord(way[i]) => way[i].n \in WordNo,
         Ordered(way, o, l, t)
  PROVE  Ordered(way, NextNo(o), l - 1, t - 1)
<1>1. \A i \in Stages : IsWord(way[i]) =>
        /\ AgeFrom(way[i].n, o) \in l .. t - 1
        /\ AgeFrom(way[i].n, NextNo(o)) = AgeFrom(way[i].n, o) - 1
  <2> TAKE i \in Stages
  <2> HAVE IsWord(way[i])
  <2>1. AgeFrom(way[i].n, o) \in l .. t - 1
    BY DEF Ordered
  <2>2. AgeFrom(way[i].n, o) >= 1
    BY <2>1, SMT
  <2>3. QED
    BY <2>1, <2>2, AgeSteps
<1>2. \A i \in Stages : IsWord(way[i]) => AgeFrom(way[i].n, NextNo(o)) \in l - 1 .. (t - 1) - 1
  BY <1>1, SMT
<1>3. \A v \in l - 1 .. (t - 1) - 1 :
        \E i \in Stages : IsWord(way[i]) /\ AgeFrom(way[i].n, NextNo(o)) = v
  <2> TAKE v \in l - 1 .. (t - 1) - 1
  <2>1. v + 1 \in l .. t - 1 /\ (v + 1) - 1 = v
    BY SMT
  <2>2. PICK i \in Stages : IsWord(way[i]) /\ AgeFrom(way[i].n, o) = v + 1
    BY <2>1 DEF Ordered
  <2>3. QED
    BY <2>1, <2>2, <1>1
<1>4. \A i, j \in Stages : IsWord(way[i]) /\ IsWord(way[j]) /\ i < j =>
        AgeFrom(way[i].n, NextNo(o)) < AgeFrom(way[j].n, NextNo(o))
  <2> TAKE i, j \in Stages
  <2> HAVE IsWord(way[i]) /\ IsWord(way[j]) /\ i < j
  <2>1. AgeFrom(way[i].n, o) < AgeFrom(way[j].n, o)
    BY DEF Ordered
  <2>2. QED
    BY <2>1, <1>1, SMT
<1>5. QED
  BY <1>2, <1>3, <1>4 DEF Ordered

-----------------------------------------------------------------------------
(* The read-back FIFO.                                                     *)

\* The FIFO holds the words of the ages 0, 1, ... in order.
InFifo(q, o) == \A k \in 1 .. Len(q) : AgeFrom(q[k], o) = k - 1

\* A word of the next age goes in, the oldest word out.
LEMMA FifoTakes ==
  ASSUME NEW q \in Seq(WordNo), NEW n \in WordNo, NEW o \in WordNo,
         InFifo(q, o), AgeFrom(n, o) = Len(q)
  PROVE  /\ InFifo(Append(q, n), o) /\ Append(q, n) \in Seq(WordNo)
         /\ Len(Append(q, n)) = Len(q) + 1
<1>1. Append(q, n) \in Seq(WordNo) /\ Len(Append(q, n)) = Len(q) + 1 /\ Len(q) \in Nat
  BY AppendProperties, LenProperties
<1>2. \A k \in 1 .. Len(q) : Append(q, n)[k] = q[k]
  BY AppendProperties
<1>3. Append(q, n)[Len(q) + 1] = n
  BY AppendProperties
<1>4. \A k \in 1 .. Len(q) + 1 : k \in 1 .. Len(q) \/ k = Len(q) + 1
  BY <1>1, SMT
<1>5. ASSUME NEW k \in 1 .. Len(q) + 1 PROVE AgeFrom(Append(q, n)[k], o) = k - 1
  <2>1. CASE k \in 1 .. Len(q)
    BY <2>1, <1>2 DEF InFifo
  <2>2. CASE k = Len(q) + 1
    <3>1. k - 1 = Len(q)
      BY <1>1, <2>2, SMT
    <3>2. QED
      BY <3>1, <2>2, <1>3
  <2>3. QED
    BY <1>4, <2>1, <2>2
<1>6. QED
  BY <1>1, <1>5 DEF InFifo

\* The sender takes the oldest word: every other one's age falls by one.
LEMMA FifoGives ==
  ASSUME NEW q \in Seq(WordNo), NEW o \in WordNo, q # << >>, InFifo(q, o)
  PROVE  /\ InFifo(Tail(q), NextNo(o)) /\ Tail(q) \in Seq(WordNo)
         /\ Len(Tail(q)) = Len(q) - 1 /\ Len(q) >= 1
<1>1. Tail(q) \in Seq(WordNo) /\ Len(Tail(q)) = Len(q) - 1 /\ Len(q) \in Nat /\ Len(q) >= 1
  BY HeadTailProperties, LenProperties, EmptySeq, SMT
<1>2. \A k \in 1 .. Len(Tail(q)) : Tail(q)[k] = q[k + 1]
  BY HeadTailProperties
<1>3. ASSUME NEW k \in 1 .. Len(Tail(q)) PROVE AgeFrom(Tail(q)[k], NextNo(o)) = k - 1
  <2>1. k + 1 \in 1 .. Len(q) /\ (k + 1) - 1 = k /\ k >= 1
    BY <1>1, SMT
  <2>2. q[k + 1] \in WordNo
    BY <2>1, ElementOfSeq
  <2>3. AgeFrom(q[k + 1], o) = k
    BY <2>1 DEF InFifo
  <2>4. QED
    BY <2>1, <2>2, <2>3, <1>2, AgeSteps
<1>4. QED
  BY <1>1, <1>3 DEF InFifo

-----------------------------------------------------------------------------
(* The state of the read path, and what a clock does to it.                *)

\* Words are told from everything else by their kind.
LEMMA DataKinds ==
  /\ Nothing \in Data /\ ~IsWord(Nothing)
  /\ Periodic \in Data /\ ~IsWord(Periodic) /\ Periodic # Nothing
  /\ \A d \in Data : IsWord(d) => d.n \in WordNo /\ d # Nothing
  /\ \A n \in WordNo : Word(n) \in Data /\ IsWord(Word(n)) /\ Word(n).n = n
<1>1. \A n \in WordNo : n % WordNumbers = n
  BY NextNoIs
<1>2. QED
  BY <1>1, SMT DEF Data, Nothing, Periodic, Word, IsWord

\* The inductive invariant: WordsInOrder, and that what is read fits in the FIFO.
ReadTypeOK ==
  /\ phy \in Seq(Data) /\ Len(phy) = PhyLatency
  /\ half \in Data /\ cap \in Data
  /\ rdback \in Seq(WordNo)
  /\ oldest \in WordNo /\ newest \in WordNo

WordsInv ==
  /\ ReadTypeOK
  /\ InFifo(rdback, oldest)
  /\ Len(rdback) <= AgeFrom(newest, oldest) /\ AgeFrom(newest, oldest) <= RdbackDepth
  /\ Ordered(Way, oldest, Len(rdback), AgeFrom(newest, oldest))

\* The stages, one by one.
LEMMA WayData ==
  ASSUME ReadTypeOK
  PROVE  /\ \A i \in Stages : Way[i] \in Data
         /\ Way[0] = cap /\ Way[PhyLatency + 1] = half
         /\ \A i \in 1 .. PhyLatency : Way[i] = phy[i]
<1>1. PhyLatency \in Nat /\ PhyLatency >= 1
  BY ReadBackAssumption, SMT
<1>2. \A i \in Stages : i = 0 \/ i = PhyLatency + 1 \/ i \in 1 .. PhyLatency
  BY <1>1, SMT DEF Stages
<1>3. 0 \in Stages /\ PhyLatency + 1 \in Stages /\ PhyLatency + 1 # 0
  BY <1>1, SMT DEF Stages
<1>4. \A i \in 1 .. PhyLatency : i \in Stages /\ i # 0 /\ i # PhyLatency + 1
  BY <1>1, SMT DEF Stages
<1>5. /\ Way[0] = cap /\ Way[PhyLatency + 1] = half
      /\ \A i \in 1 .. PhyLatency : Way[i] = phy[i]
  BY <1>3, <1>4 DEF Way, Stages
<1>6. \A i \in 1 .. PhyLatency : phy[i] \in Data
  BY ElementOfSeq DEF ReadTypeOK
<1>7. QED
  BY <1>2, <1>5, <1>6 DEF ReadTypeOK

\* WordsInOrder is said with the ages of words; without % they are these.
LEMMA WordsInvIsOrder ==
  ASSUME WordsInv
  PROVE  WordsInOrder
<1>1. ReadTypeOK
  BY DEF WordsInv
<1>2. \A n \in WordNo : Age(n) = AgeFrom(n, oldest)
  BY <1>1, AgeIs DEF Age, ReadTypeOK
<1>3. \A i \in Stages : IsWord(Way[i]) => Age(Way[i].n) = AgeFrom(Way[i].n, oldest)
  BY <1>1, <1>2, WayData, DataKinds
<1>4. Age(newest) = AgeFrom(newest, oldest)
  BY <1>1, <1>2 DEF ReadTypeOK
<1>5. \A k \in 1 .. Len(rdback) : Age(rdback[k]) = k - 1
  <2> TAKE k \in 1 .. Len(rdback)
  <2>1. rdback[k] \in WordNo
    BY <1>1, ElementOfSeq DEF ReadTypeOK
  <2>2. QED
    BY <2>1, <1>2 DEF WordsInv, InFifo
<1> DEFINE words == { i \in 0 .. PhyLatency + 1 : Way[i].what = "word" }
<1>6. \A i : i \in words <=> i \in Stages /\ IsWord(Way[i])
  BY DEF Stages, IsWord
<1> HIDE DEF words
<1>7. { Age(Way[i].n) : i \in words } = Len(rdback) .. Age(newest) - 1
  <2>1. \A i \in words : Age(Way[i].n) \in Len(rdback) .. Age(newest) - 1
    BY <1>3, <1>4, <1>6 DEF WordsInv, Ordered
  <2>2. \A v \in Len(rdback) .. Age(newest) - 1 : \E i \in words : Age(Way[i].n) = v
    BY <1>3, <1>4, <1>6 DEF WordsInv, Ordered
  <2>3. QED
    BY <2>1, <2>2
<1>8. \A i, j \in words : i < j => Age(Way[i].n) < Age(Way[j].n)
  BY <1>3, <1>6 DEF WordsInv, Ordered
<1>9. QED
  BY <1>5, <1>7, <1>8 DEF WordsInOrder, words

\* How a clock moves the data on its way.
LEMMA WayClk ==
  ASSUME ReadTypeOK, NEW r \in Data, half # Nothing => r = Nothing,
         IssueRead(r), cap' = phy[1], half' \in Data
  PROVE  /\ phy' \in Seq(Data) /\ Len(phy') = PhyLatency /\ cap' \in Data
         /\ \A i \in 0 .. PhyLatency - 1 : Way'[i] = Way[i + 1]
         /\ Way'[PhyLatency] = IF half # Nothing THEN half ELSE r
         /\ Way'[PhyLatency + 1] = half'
<1> DEFINE x == IF half # Nothing THEN half ELSE r
<1>1. PhyLatency \in Nat /\ PhyLatency >= 1
  BY ReadBackAssumption, SMT
<1>2. x \in Data /\ phy' = Append(Tail(phy), x)
  BY DEF IssueRead, ReadTypeOK
<1> HIDE DEF x
<1>3. phy \in Seq(Data) /\ Len(phy) = PhyLatency /\ phy # << >>
  BY <1>1, EmptySeq, SMT DEF ReadTypeOK
<1>4. /\ Tail(phy) \in Seq(Data) /\ Len(Tail(phy)) = PhyLatency - 1
      /\ \A i \in 1 .. PhyLatency - 1 : Tail(phy)[i] = phy[i + 1]
  BY <1>1, <1>3, HeadTailProperties
<1>5. /\ phy' \in Seq(Data) /\ Len(phy') = PhyLatency - 1 + 1
      /\ \A i \in 1 .. PhyLatency - 1 : phy'[i] = Tail(phy)[i]
      /\ phy'[PhyLatency - 1 + 1] = x
  BY <1>2, <1>4, AppendProperties
<1>6. PhyLatency - 1 + 1 = PhyLatency
  BY <1>1, SMT
<1>7. cap' \in Data
  BY <1>1, <1>3, ElementOfSeq
<1>9. /\ Way'[0] = cap' /\ Way'[PhyLatency + 1] = half'
      /\ \A i \in 1 .. PhyLatency : Way'[i] = phy'[i]
  <2>1. 0 \in Stages /\ PhyLatency + 1 \in Stages /\ PhyLatency + 1 # 0
    BY <1>1, SMT DEF Stages
  <2>2. \A i \in 1 .. PhyLatency : i \in Stages /\ i # 0 /\ i # PhyLatency + 1
    BY <1>1, SMT DEF Stages
  <2>3. QED
    BY <2>1, <2>2 DEF Way, Stages
<1>10. Way'[PhyLatency] = x
  BY <1>1, <1>5, <1>6, <1>9
<1>11. \A i \in 0 .. PhyLatency - 1 : Way'[i] = Way[i + 1]
  <2> TAKE i \in 0 .. PhyLatency - 1
  <2>1. i = 0 \/ i \in 1 .. PhyLatency - 1
    BY <1>1, SMT
  <2>2. i + 1 \in 1 .. PhyLatency
    BY <1>1, SMT
  <2>3. Way[i + 1] = phy[i + 1]
    BY <2>2, WayData
  <2>4. CASE i = 0
    BY <2>3, <2>4, <1>9
  <2>5. CASE i \in 1 .. PhyLatency - 1
    <3>1. i \in 1 .. PhyLatency
      BY <2>5, <1>1, SMT
    <3>2. QED
      BY <3>1, <2>3, <2>5, <1>4, <1>5, <1>9
  <2>6. QED
    BY <2>1, <2>4, <2>5
<1>12. QED
  BY <1>5, <1>6, <1>7, <1>9, <1>10, <1>11 DEF x

\* The dispatcher starts no read that the host has no room for, and none in
\* between the two words of one.
LEMMA ReadsAre ==
  ASSUME WordsInv, NEW r \in Reads
  PROVE  /\ r \in Data
         /\ half # Nothing => r = Nothing
         /\ IsWord(r) => r = Word(newest) /\ half = Nothing
                         /\ AgeFrom(newest, oldest) + 2 <= RdbackDepth
<1>1. newest \in WordNo /\ oldest \in WordNo
  BY DEF WordsInv, ReadTypeOK
<1>2. Age(newest) = AgeFrom(newest, oldest)
  BY <1>1, AgeIs DEF Age
<1>3. AgeFrom(newest, oldest) \in Int /\ RdbackDepth \in Int
  BY <1>1, AgeIs, ReadBackAssumption, SMT DEF WordNo
<1>4. \/ r = Nothing
      \/ r = Periodic /\ half = Nothing
      \/ r = Word(newest) /\ half = Nothing /\ ~(AgeFrom(newest, oldest) + 2 > RdbackDepth)
  BY <1>2 DEF Reads
<1>5. ~(AgeFrom(newest, oldest) + 2 > RdbackDepth) => AgeFrom(newest, oldest) + 2 <= RdbackDepth
  BY <1>3, SMT
<1>6. QED
  BY <1>1, <1>4, <1>5, DataKinds

\* The sender takes the oldest word.
LEMMA SenderTakes ==
  ASSUME WordsInv, NEW o, o = IF FifoPop THEN (oldest + 1) % WordNumbers ELSE oldest,
         NEW q, q = IF FifoPop THEN Tail(rdback) ELSE rdback
  PROVE  /\ o \in WordNo /\ q \in Seq(WordNo) /\ Len(q) \in Nat
         /\ InFifo(q, o)
         /\ Len(q) <= AgeFrom(newest, o) /\ AgeFrom(newest, o) <= AgeFrom(newest, oldest)
         /\ Ordered(Way, o, Len(q), AgeFrom(newest, o))
         /\ AgeFrom(newest, o) \in Nat
<1>1. /\ newest \in WordNo /\ oldest \in WordNo /\ rdback \in Seq(WordNo)
      /\ InFifo(rdback, oldest) /\ Len(rdback) <= AgeFrom(newest, oldest)
      /\ Ordered(Way, oldest, Len(rdback), AgeFrom(newest, oldest)) /\ ReadTypeOK
  BY DEF WordsInv, ReadTypeOK
<1>2. AgeFrom(newest, oldest) \in Nat /\ Len(rdback) \in Nat
  BY <1>1, AgeIs, LenProperties, SMT DEF WordNo
<1>3. CASE ~FifoPop
  BY <1>1, <1>2, <1>3, SMT
<1>4. CASE FifoPop
  <2>1. o = NextNo(oldest) /\ q = Tail(rdback) /\ rdback # << >> /\ o \in WordNo
    BY <1>1, <1>4, NextNoIs DEF FifoPop
  <2>2. /\ InFifo(q, o) /\ q \in Seq(WordNo) /\ Len(q) = Len(rdback) - 1 /\ Len(rdback) >= 1
    BY <1>1, <2>1, FifoGives
  <2>3. AgeFrom(newest, oldest) >= 1
    BY <1>1, <1>2, <2>2, SMT
  <2>4. AgeFrom(newest, o) = AgeFrom(newest, oldest) - 1
    BY <1>1, <2>1, <2>3, AgeSteps
  <2>5. \A i \in Stages : IsWord(Way[i]) => Way[i].n \in WordNo
    BY <1>1, WayData, DataKinds
  <2>6. Ordered(Way, o, Len(q), AgeFrom(newest, o))
    BY <1>1, <1>2, <2>1, <2>2, <2>4, <2>5, WordLeaves
  <2>7. QED
    BY <1>1, <1>2, <2>1, <2>2, <2>3, <2>4, <2>6, SMT
<1>5. QED
  BY <1>3, <1>4

\* The capturer writes the word that arrives behind the others: there is room.
LEMMA CapturerWrites ==
  ASSUME WordsInv, NEW o, o = IF FifoPop THEN (oldest + 1) % WordNumbers ELSE oldest
  PROVE  /\ RdbackNext \in Seq(WordNo) /\ InFifo(RdbackNext, o)
         /\ Len(RdbackNext) \in Nat /\ Len(RdbackNext) <= AgeFrom(newest, o)
         /\ \A new : Moved(Way, new) => Ordered(new, o, Len(RdbackNext), AgeFrom(newest, o))
<1> DEFINE q == IF FifoPop THEN Tail(rdback) ELSE rdback
           t == AgeFrom(newest, o)
<1>1. /\ o \in WordNo /\ q \in Seq(WordNo) /\ Len(q) \in Nat
      /\ InFifo(q, o)
      /\ Len(q) <= t /\ t <= AgeFrom(newest, oldest) /\ Ordered(Way, o, Len(q), t) /\ t \in Nat
  BY SenderTakes
<1>2. ReadTypeOK
  BY DEF WordsInv
<1>3. \A i \in Stages : IsWord(Way[i]) => Way[i].n \in WordNo
  BY <1>2, WayData, DataKinds
<1>4. Way[0] = cap /\ (IsWord(cap) => cap.n \in WordNo)
  BY <1>2, WayData, DataKinds DEF ReadTypeOK
<1>5. \A new : Moved(Way, new) =>
        /\ IsWord(cap) => AgeFrom(cap.n, o) = Len(q) /\ Len(q) < t
                          /\ Ordered(new, o, Len(q) + 1, t)
        /\ ~IsWord(cap) => Ordered(new, o, Len(q), t)
  <2> TAKE new
  <2> HAVE Moved(Way, new)
  <2> HIDE DEF q, t
  <2>1. QED
    BY <1>1, <1>3, <1>4, WayMoves
<1>6. CASE ~IsWord(cap)
  <2>1. RdbackNext = q \o << >>
    BY <1>6 DEF RdbackNext, Capture, IsWord
  <2>2. RdbackNext = q
    <3> HIDE DEF q
    <3>1. QED
      BY <2>1, <1>1, ConcatEmptySeq
  <2> HIDE DEF q, t
  <2>3. QED
    BY <1>1, <1>5, <1>6, <2>2 DEF t
<1>7. CASE IsWord(cap)
  <2>1. AgeFrom(cap.n, o) = Len(q) /\ Len(q) < t
    <3> DEFINE mid == [i \in Stages |-> IF i <= PhyLatency THEN Way[i + 1] ELSE Nothing]
    <3>1. PhyLatency \in Nat /\ PhyLatency + 1 \in Stages /\ ~(PhyLatency + 1 <= PhyLatency)
      BY ReadBackAssumption, SMT DEF Stages
    <3>2. \A i \in 0 .. PhyLatency : i \in Stages /\ i <= PhyLatency
      BY <3>1, SMT DEF Stages
    <3>3. Moved(Way, mid)
      BY <3>1, <3>2, DataKinds DEF Moved
    <3>4. QED
      BY <3>3, <1>5, <1>7
  <2>2. Len(rdback) < RdbackDepth
    <3>1. Len(rdback) \in Nat /\ RdbackDepth \in Nat
      BY <1>2, LenProperties, ReadBackAssumption, SMT DEF ReadTypeOK
    <3>2. AgeFrom(newest, oldest) \in Int /\ AgeFrom(newest, oldest) <= RdbackDepth
          /\ Len(rdback) <= AgeFrom(newest, oldest)
      BY <1>2, AgeIs, SMT DEF ReadTypeOK, WordsInv, WordNo
    <3>3. AgeFrom(cap.n, oldest) \in Len(rdback) .. AgeFrom(newest, oldest) - 1
      <4>1. 0 \in Stages
        BY ReadBackAssumption, SMT DEF Stages
      <4>2. QED
        BY <4>1, <1>4, <1>7 DEF WordsInv, Ordered
    <3>4. QED
      BY <3>1, <3>2, <3>3, SMT
  <2>3. RdbackNext = q \o <<cap.n>>
    BY <1>7, <2>2 DEF RdbackNext, Capture, IsWord
  <2> HIDE DEF q
  <2>4. RdbackNext = Append(q, cap.n)
    BY <2>3, <1>1, <1>4, <1>7, AppendIsConcat
  <2>5. /\ InFifo(RdbackNext, o) /\ RdbackNext \in Seq(WordNo) /\ Len(RdbackNext) = Len(q) + 1
    BY <2>1, <2>4, <1>1, <1>4, <1>7, FifoTakes
  <2>6. \A new : Moved(Way, new) => Ordered(new, o, Len(q) + 1, t)
    BY <1>5, <1>7
  <2> HIDE DEF t
  <2>7. Len(RdbackNext) \in Nat /\ Len(RdbackNext) <= t
    BY <1>1, <2>1, <2>5, SMT
  <2>8. QED
    BY <2>5, <2>6, <2>7 DEF t
<1>8. QED
  BY <1>6, <1>7

\* A clock keeps the order, whatever the dispatcher starts.
LEMMA WordsClk ==
  ASSUME WordsInv, NEW r \in Reads, CaptureClk(r),
         oldest' = IF FifoPop THEN (oldest + 1) % WordNumbers ELSE oldest
  PROVE  WordsInv'
<1> DEFINE o == oldest'
           l == Len(rdback')
           t == AgeFrom(newest, o)
           u == AgeFrom(newest', o)
<1>1. /\ newest \in WordNo /\ oldest \in WordNo /\ half \in Data /\ ReadTypeOK
  BY DEF WordsInv, ReadTypeOK
<1>2. /\ r \in Data /\ (half # Nothing => r = Nothing)
      /\ IsWord(r) => r = Word(newest) /\ half = Nothing
                      /\ AgeFrom(newest, oldest) + 2 <= RdbackDepth
  BY ReadsAre
<1>3. IssueRead(r) /\ cap' = phy[1] /\ rdback' = RdbackNext
  BY DEF CaptureClk
<1>4. /\ rdback' \in Seq(WordNo) /\ InFifo(rdback', o) /\ l \in Nat /\ l <= t
      /\ \A new : Moved(Way, new) => Ordered(new, o, l, t)
  BY <1>3, CapturerWrites
<1>5. o \in WordNo /\ t \in Nat /\ t <= AgeFrom(newest, oldest)
  BY SenderTakes
<1>6. /\ AgeFrom(newest, oldest) \in Int /\ RdbackDepth \in Nat /\ WordNumbers \in Nat
      /\ RdbackDepth < WordNumbers /\ PhyLatency \in Nat /\ PhyLatency >= 1
      /\ AgeFrom(newest, oldest) <= RdbackDepth
  <2>1. AgeFrom(newest, oldest) \in Int
    BY <1>1, AgeIs, SMT DEF WordNo
  <2>2. QED
    BY <2>1, ReadBackAssumption, SMT DEF WordsInv
<1>7. /\ IsWord(r) => half' = Word(newest + 1) /\ newest' = NextNo(NextNo(newest))
      /\ ~IsWord(r) => half' = r /\ newest' = newest
  <2>1. r = Nothing \/ r = Periodic \/ IsWord(r)
    BY <1>2, SMT DEF Data, IsWord
  <2>2. newest' = IF IsWord(r) THEN NextNo(NextNo(newest)) ELSE newest
    BY <1>1, <1>3, NextNoIs DEF IssueRead, IsWord
  <2>3. CASE IsWord(r)
    <3>1. r # Nothing /\ r # Periodic
      BY <2>3, DataKinds
    <3>2. QED
      BY <1>3, <2>2, <2>3, <3>1 DEF IssueRead
  <2>4. CASE ~IsWord(r)
    BY <1>3, <2>1, <2>2, <2>4, DataKinds DEF IssueRead
  <2>5. QED
    BY <2>3, <2>4
<1>8. /\ NextNo(newest) \in WordNo /\ NextNo(NextNo(newest)) \in WordNo
      /\ Word(newest + 1) \in Data /\ IsWord(Word(newest + 1))
      /\ Word(newest + 1).n = NextNo(newest)
  <2>1. NextNo(newest) \in WordNo /\ (newest + 1) % WordNumbers = NextNo(newest)
    BY <1>1, NextNoIs
  <2>2. NextNo(NextNo(newest)) \in WordNo
    BY <2>1, NextNoIs
  <2>3. Word(newest + 1) = [what |-> "word", n |-> NextNo(newest)]
    BY <2>1 DEF Word
  <2>4. QED
    BY <2>1, <2>2, <2>3 DEF Data, IsWord
<1>9. half' \in Data /\ newest' \in WordNo
  BY <1>1, <1>2, <1>7, <1>8
<1>10. /\ phy' \in Seq(Data) /\ Len(phy') = PhyLatency /\ cap' \in Data
       /\ \A i \in 0 .. PhyLatency - 1 : Way'[i] = Way[i + 1]
       /\ Way'[PhyLatency] = IF half # Nothing THEN half ELSE r
       /\ Way'[PhyLatency + 1] = half'
  BY <1>1, <1>2, <1>3, <1>9, WayClk
<1>11. ReadTypeOK'
  BY <1>4, <1>5, <1>9, <1>10 DEF ReadTypeOK
<1>12. Way[PhyLatency + 1] = half
  BY <1>1, WayData
<1>13. \A i \in 0 .. PhyLatency : i = PhyLatency \/ i \in 0 .. PhyLatency - 1
  BY <1>6, SMT
<1>14. l <= u /\ u <= RdbackDepth /\ Ordered(Way', o, l, u)
  <2> HIDE DEF o, l
  <2>1. CASE ~IsWord(r)
    <3>1. u = t /\ half' = r
      BY <1>7, <2>1
    <3>2. IsWord(Way'[PhyLatency]) <=> IsWord(half)
      BY <1>10, <2>1, DataKinds
    <3>3. IsWord(half) => Way'[PhyLatency] = half
      BY <1>10, DataKinds
    <3>4. \A i \in 0 .. PhyLatency : IsWord(Way'[i]) <=> IsWord(Way[i + 1])
      BY <1>10, <1>12, <1>13, <3>2
    <3>5. \A i \in 0 .. PhyLatency : IsWord(Way[i + 1]) => Way'[i].n = Way[i + 1].n
      BY <1>10, <1>12, <1>13, <3>3
    <3>6. Moved(Way, Way')
      BY <3>1, <3>4, <3>5, <1>10, <2>1 DEF Moved
    <3>7. Ordered(Way', o, l, t)
      BY <3>6, <1>4
    <3> HIDE DEF t, u
    <3>8. QED
      BY <3>1, <3>7, <1>4, <1>5, <1>6, SMT
  <2>2. CASE IsWord(r)
    <3> DEFINE mid == [i \in Stages |-> IF i <= PhyLatency THEN Way[i + 1] ELSE Nothing]
    <3>1. r = Word(newest) /\ half = Nothing /\ AgeFrom(newest, oldest) + 2 <= RdbackDepth
      BY <1>2, <2>2
    <3>2. Way'[PhyLatency] = r /\ IsWord(r) /\ r.n = newest
      BY <1>1, <1>10, <2>2, <3>1, DataKinds
    <3>3. IsWord(Way'[PhyLatency + 1]) /\ Way'[PhyLatency + 1].n = NextNo(newest)
      BY <1>7, <1>8, <1>10, <2>2
    <3>4. /\ PhyLatency + 1 \in Stages /\ ~(PhyLatency + 1 <= PhyLatency)
          /\ \A i \in 0 .. PhyLatency : i \in Stages /\ i <= PhyLatency
          /\ PhyLatency \in 0 .. PhyLatency
          /\ \A i \in 0 .. PhyLatency - 1 : i \in 0 .. PhyLatency
      BY <1>6, SMT DEF Stages
    <3>5. /\ \A i \in 0 .. PhyLatency : mid[i] = Way[i + 1]
          /\ mid[PhyLatency + 1] = Nothing
      BY <3>4
    <3> HIDE DEF mid
    <3>6. Moved(Way, mid)
      BY <3>5, DataKinds DEF Moved
    <3>7. Ordered(mid, o, l, t)
      BY <3>6, <1>4
    <3>8. ~IsWord(mid[PhyLatency]) /\ ~IsWord(mid[PhyLatency + 1])
      BY <3>1, <3>4, <3>5, <1>12, DataKinds
    <3>9. \A i \in 0 .. PhyLatency - 1 : Way'[i] = mid[i]
      BY <3>4, <3>5, <1>10
    <3>10. t + 1 < WordNumbers /\ t + 1 + 1 < WordNumbers + 1 /\ t + 2 <= RdbackDepth
      <4> HIDE DEF t
      <4>1. QED
        BY <3>1, <1>5, <1>6, SMT
    <3>11. AgeFrom(NextNo(newest), o) = t + 1
      BY <3>10, <1>1, <1>5, AgeSteps
    <3>12. AgeFrom(NextNo(NextNo(newest)), o) = t + 2
      <4>1. AgeFrom(NextNo(newest), o) + 1 < WordNumbers
        <5> HIDE DEF t
        <5>1. QED
          BY <3>10, <3>11, <1>5, <1>6, SMT
      <4>2. AgeFrom(NextNo(NextNo(newest)), o) = AgeFrom(NextNo(newest), o) + 1
        BY <4>1, <1>5, <1>8, AgeSteps
      <4> HIDE DEF t
      <4>3. QED
        BY <4>2, <3>11, <1>5, SMT
    <3>13. u = t + 2
      BY <3>12, <1>7, <2>2
    <3>14. AgeFrom(newest, o) = t
      OBVIOUS
    <3> HIDE DEF t, u
    <3>15. Ordered(Way', o, l, t + 2)
      BY <1>1, <1>4, <1>5, <1>8, <3>2, <3>3, <3>7, <3>8, <3>9, <3>11, <3>14, WordsEnter
    <3>16. QED
      BY <3>10, <3>13, <3>15, <1>4, <1>5, SMT
  <2>3. QED
    BY <2>1, <2>2
<1>15. QED
  BY <1>4, <1>11, <1>14 DEF WordsInv

\* A reset of the memory side leaves nothing read and nothing on its way.
LEMMA WordsForgotten ==
  ASSUME ReadTypeOK, phy' = NoReadData, half' = Nothing, cap' = Nothing, rdback' = << >>,
         oldest' = newest, newest' = newest
  PROVE  WordsInv'
<1>1. PhyLatency \in Nat /\ PhyLatency >= 1 /\ RdbackDepth \in Nat
  BY ReadBackAssumption, SMT
<1>2. newest \in WordNo /\ AgeFrom(newest, newest) = 0
  BY AgeSteps DEF ReadTypeOK
<1>3. NoReadData \in Seq(Data) /\ Len(NoReadData) = PhyLatency
  <2>1. NoReadData \in [1 .. PhyLatency -> Data]
    BY DataKinds DEF NoReadData
  <2>2. QED
    BY <1>1, <2>1, SeqDef, LenProperties, IsASeq
<1>4. << >> \in Seq(WordNo) /\ Len(<< >>) = 0
  BY EmptySeq
<1>5. ReadTypeOK'
  BY <1>2, <1>3, <1>4, DataKinds DEF ReadTypeOK
<1>6. \A i \in Stages : Way'[i] = Nothing
  <2>1. ASSUME NEW i \in Stages PROVE i = 0 \/ i = PhyLatency + 1 \/ i \in 1 .. PhyLatency
    BY <1>1, SMT DEF Stages
  <2>2. \A i \in Stages : i \in 0 .. PhyLatency + 1
    BY DEF Stages
  <2>3. QED
    BY <2>1, <2>2 DEF Way, NoReadData
<1>7. \A k \in 1 .. 0 : FALSE
  BY SMT
<1>8. InFifo(<< >>, newest)
  BY <1>4, <1>7 DEF InFifo
<1>9. \A v \in 0 .. 0 - 1 : FALSE
  BY SMT
<1>10. Ordered(Way', newest, 0, 0)
  BY <1>6, <1>9, DataKinds DEF Ordered
<1>11. QED
  BY <1>1, <1>2, <1>4, <1>5, <1>8, <1>10, SMT DEF WordsInv

\* At the start nothing is read and nothing on its way.
LEMMA WordsInit == ReadBackInit => WordsInv
<1> SUFFICES ASSUME ReadBackInit PROVE WordsInv
  OBVIOUS
<1>1. PhyLatency \in Nat /\ PhyLatency >= 1 /\ RdbackDepth \in Nat /\ 0 \in WordNo
  BY ReadBackAssumption, SMT DEF WordNo
<1>2. oldest = 0 /\ newest = 0 /\ AgeFrom(0, 0) = 0
  BY <1>1, AgeSteps DEF ReadBackInit
<1>3. NoReadData \in Seq(Data) /\ Len(NoReadData) = PhyLatency
  <2>1. NoReadData \in [1 .. PhyLatency -> Data]
    BY DataKinds DEF NoReadData
  <2>2. QED
    BY <1>1, <2>1, SeqDef, LenProperties, IsASeq
<1>4. << >> \in Seq(WordNo) /\ Len(<< >>) = 0
  BY EmptySeq
<1>5. ReadTypeOK
  BY <1>1, <1>3, <1>4, DataKinds DEF ReadTypeOK, ReadBackInit
<1>6. \A i \in Stages : Way[i] = Nothing
  <2>1. ASSUME NEW i \in Stages PROVE i = 0 \/ i = PhyLatency + 1 \/ i \in 1 .. PhyLatency
    BY <1>1, SMT DEF Stages
  <2>2. \A i \in Stages : i \in 0 .. PhyLatency + 1
    BY DEF Stages
  <2>3. QED
    BY <2>1, <2>2 DEF Way, NoReadData, ReadBackInit
<1>7. \A k \in 1 .. 0 : FALSE
  BY SMT
<1>8. rdback = << >> /\ InFifo(<< >>, 0)
  BY <1>4, <1>7 DEF InFifo, ReadBackInit
<1>9. \A v \in 0 .. 0 - 1 : FALSE
  BY SMT
<1>10. Ordered(Way, 0, 0, 0)
  BY <1>6, <1>9, DataKinds DEF Ordered
<1>11. QED
  BY <1>1, <1>2, <1>4, <1>5, <1>8, <1>10, SMT DEF WordsInv

\* Every step keeps the order, resets included.
LEMMA WordsNext == WordsInv /\ [ReadBackNext]_readBackVars => WordsInv'
<1> SUFFICES ASSUME WordsInv, [ReadBackNext]_readBackVars PROVE WordsInv'
  OBVIOUS
<1>1. CASE ReadBackClk
  <2>1. PICK r \in Reads : CaptureClk(r)
    BY <1>1 DEF ReadBackClk
  <2>2. oldest' = IF FifoPop THEN (oldest + 1) % WordNumbers ELSE oldest
    BY <1>1 DEF ReadBackClk, SenderClk
  <2>3. QED
    BY <2>1, <2>2, WordsClk
<1>2. CASE RiffaRst
  <2>1. PICK r \in Reads : CaptureClk(r)
    BY <1>2 DEF RiffaRst
  <2>2. oldest' = IF FifoPop THEN (oldest + 1) % WordNumbers ELSE oldest
    BY <1>2 DEF RiffaRst
  <2>3. QED
    BY <2>1, <2>2, WordsClk
<1>3. CASE ReadBackRst
  BY <1>3, WordsForgotten DEF ReadBackRst, WordsInv
<1>4. CASE UNCHANGED <<phy, half, cap, rdback, oldest, newest>>
  BY <1>4 DEF WordsInv, ReadTypeOK, Way
<1>5. CASE MonitorRead
  BY <1>4, <1>5 DEF MonitorRead
<1>6. CASE UNCHANGED readBackVars
  BY <1>4, <1>6 DEF readBackVars
<1>7. QED
  BY <1>1, <1>2, <1>3, <1>5, <1>6 DEF ReadBackNext

\* For every depth of the read-back FIFO and every latency of the PHY, no word
\* of a host's read is lost, duplicated or reordered on its way to the sender.
THEOREM ReadBackKeepsOrder == ReadBackSpec => []WordsInOrder
<1>1. QED
  BY WordsInit, WordsNext, WordsInvIsOrder, PTL DEF ReadBackSpec

-----------------------------------------------------------------------------
(* The beats in the channel.                                               *)

Kinds == {"none", "open", "end", "data"}
Entries == [kind : Kinds, w : WordNo, b : 0 .. 3, again : BOOLEAN]
GateStates == {"IDLE", "OPENING", "OPEN", "CLOSED"}

SenderTypeOK == sender \in [busy : BOOLEAN, data : WordNo, state : 0 .. 7, valid : BOOLEAN]
GateTypeOK ==
  /\ gate \in [state : GateStates, tx : BOOLEAN, wen : BOOLEAN, data : Entries,
               pause : BOOLEAN, closed : BOOLEAN]
  /\ evts \in Seq(Entries)

\* The beats the sender meant follow each other.
Linked(s) ==
  \A i, j \in 1 .. Len(s) :
    /\ i < j /\ Sent(s[i]) /\ Sent(s[j])
    /\ \A k \in i + 1 .. j - 1 : ~Sent(s[k])
    => Follows(s[i], s[j].w, s[j].b)

\* i is the place of the last of them.
LastSent(s, i) == Sent(s[i]) /\ \A k \in i + 1 .. Len(s) : ~Sent(s[k])

\* The beat the sender is about to send follows it, or it ended its word.
Tip(s, snd) ==
  \A i \in 1 .. Len(s) : LastSent(s, i) =>
    IF snd.busy THEN Follows(s[i], snd.data, snd.state % 4) ELSE s[i].b = 3

\* The inductive invariant: also what the sender's next beat may follow.
BeatsInv ==
  /\ SenderTypeOK /\ GateTypeOK
  /\ ~sender.busy => sender.state % 4 = 0
  /\ gate.state = "OPENING" => ~Sent(gate.data)
  /\ Linked(Entered) /\ Tip(Entered, sender)

\* A marker, or a beat between two words, disturbs no word.
LEMMA UnsentEnters ==
  ASSUME NEW s \in Seq(Entries), NEW e \in Entries, ~Sent(e), NEW snd,
         Linked(s), Tip(s, snd)
  PROVE  Append(s, e) \in Seq(Entries) /\ Linked(Append(s, e)) /\ Tip(Append(s, e), snd)
<1> DEFINE a == Append(s, e)
           n == Len(s)
<1>1. /\ a \in Seq(Entries) /\ Len(a) = n + 1 /\ n \in Nat
      /\ \A i \in 1 .. n : a[i] = s[i]
      /\ a[n + 1] = e
  BY AppendProperties, LenProperties
<1> HIDE DEF a, n
<1>2. \A i \in 1 .. n + 1 : i = n + 1 \/ i \in 1 .. n
  BY <1>1, SMT
<1>3. \A i \in 1 .. n + 1 : Sent(a[i]) => i \in 1 .. n /\ a[i] = s[i] /\ Sent(s[i])
  BY <1>1, <1>2
<1>4. Linked(a)
  <2> SUFFICES ASSUME NEW i \in 1 .. n + 1, NEW j \in 1 .. n + 1,
                      i < j, Sent(a[i]), Sent(a[j]),
                      \A k \in i + 1 .. j - 1 : ~Sent(a[k])
               PROVE  Follows(a[i], a[j].w, a[j].b)
    BY <1>1 DEF Linked
  <2>1. i \in 1 .. n /\ j \in 1 .. n /\ a[i] = s[i] /\ a[j] = s[j] /\ Sent(s[i]) /\ Sent(s[j])
    BY <1>3
  <2>2. \A k \in i + 1 .. j - 1 : k \in 1 .. n
    BY <1>1, <2>1, SMT
  <2>3. \A k \in i + 1 .. j - 1 : ~Sent(s[k])
    BY <2>2, <1>1
  <2>4. QED
    BY <2>1, <2>3 DEF Linked, n
<1>5. Tip(a, snd)
  <2> SUFFICES ASSUME NEW i \in 1 .. n + 1, LastSent(a, i)
               PROVE  IF snd.busy THEN Follows(a[i], snd.data, snd.state % 4) ELSE a[i].b = 3
    BY <1>1 DEF Tip
  <2>1. i \in 1 .. n /\ a[i] = s[i] /\ Sent(s[i])
    BY <1>3 DEF LastSent
  <2>2. \A k \in i + 1 .. n : k \in 1 .. n /\ k \in i + 1 .. n + 1
    BY <1>1, <2>1, SMT
  <2>3. \A k \in i + 1 .. n : ~Sent(s[k])
    BY <2>2, <1>1 DEF LastSent
  <2>4. LastSent(s, i)
    BY <2>1, <2>3 DEF LastSent, n
  <2>5. QED
    BY <2>1, <2>4 DEF Tip, n
<1>6. QED
  BY <1>1, <1>4, <1>5 DEF a

\* The sender's beat enters, and is the last one from then on.
LEMMA SentEnters ==
  ASSUME NEW s \in Seq(Entries), NEW e \in Entries, Sent(e), NEW snd,
         Linked(s), Tip(s, snd), snd.busy, e.w = snd.data, e.b = snd.state % 4
  PROVE  /\ Append(s, e) \in Seq(Entries) /\ Linked(Append(s, e))
         /\ \A i \in 1 .. Len(Append(s, e)) : LastSent(Append(s, e), i) => Append(s, e)[i] = e
<1> DEFINE a == Append(s, e)
           n == Len(s)
<1>1. /\ a \in Seq(Entries) /\ Len(a) = n + 1 /\ n \in Nat
      /\ \A i \in 1 .. n : a[i] = s[i]
      /\ a[n + 1] = e
  BY AppendProperties, LenProperties
<1> HIDE DEF a, n
<1>2. \A i \in 1 .. n + 1 : i = n + 1 \/ i \in 1 .. n
  BY <1>1, SMT
<1>3. Linked(a)
  <2> SUFFICES ASSUME NEW i \in 1 .. n + 1, NEW j \in 1 .. n + 1,
                      i < j, Sent(a[i]), Sent(a[j]),
                      \A k \in i + 1 .. j - 1 : ~Sent(a[k])
               PROVE  Follows(a[i], a[j].w, a[j].b)
    BY <1>1 DEF Linked
  <2>1. i \in 1 .. n /\ a[i] = s[i] /\ Sent(s[i])
    <3>1. i \in 1 .. n
      BY <1>1, SMT
    <3>2. QED
      BY <3>1, <1>1
  <2>2. \A k \in i + 1 .. j - 1 : k \in 1 .. n
    BY <1>1, <2>1, SMT
  <2>3. \A k \in i + 1 .. j - 1 : ~Sent(s[k])
    BY <2>2, <1>1
  <2>4. CASE j \in 1 .. n
    BY <2>1, <2>3, <2>4, <1>1 DEF Linked, n
  <2>5. CASE j = n + 1
    <3>1. j - 1 = n
      BY <1>1, <2>5, SMT
    <3>2. LastSent(s, i)
      BY <2>1, <2>3, <3>1 DEF LastSent, n
    <3>3. Follows(s[i], snd.data, snd.state % 4)
      BY <2>1, <3>2 DEF Tip, n
    <3>4. a[j] = e
      BY <2>5, <1>1
    <3>5. QED
      BY <2>1, <3>3, <3>4
  <2>6. QED
    BY <1>2, <2>4, <2>5
<1>4. ASSUME NEW i \in 1 .. n + 1, LastSent(a, i) PROVE a[i] = e
  <2>1. CASE i = n + 1
    BY <2>1, <1>1
  <2>2. CASE i \in 1 .. n
    <3>1. n + 1 \in i + 1 .. n + 1
      BY <1>1, <2>2, SMT
    <3>2. QED
      BY <3>1, <1>1, <1>4 DEF LastSent
  <2>3. QED
    BY <1>2, <2>1, <2>2
<1>5. QED
  BY <1>1, <1>3, <1>4 DEF a

\* The PCIe side takes the oldest entry.
LEMMA EntryTaken ==
  ASSUME NEW s \in Seq(Entries), s # << >>, NEW snd, Linked(s), Tip(s, snd)
  PROVE  Tail(s) \in Seq(Entries) /\ Linked(Tail(s)) /\ Tip(Tail(s), snd)
<1> DEFINE a == Tail(s)
           n == Len(s)
<1>1. /\ a \in Seq(Entries) /\ Len(a) = n - 1 /\ n \in Nat /\ n >= 1
      /\ \A i \in 1 .. n - 1 : a[i] = s[i + 1]
  BY HeadTailProperties, LenProperties, EmptySeq, SMT
<1> HIDE DEF a, n
<1>2. \A i \in 1 .. n - 1 : i + 1 \in 1 .. n
  BY <1>1, SMT
<1>3. Linked(a)
  <2> SUFFICES ASSUME NEW i \in 1 .. n - 1, NEW j \in 1 .. n - 1,
                      i < j, Sent(a[i]), Sent(a[j]),
                      \A k \in i + 1 .. j - 1 : ~Sent(a[k])
               PROVE  Follows(a[i], a[j].w, a[j].b)
    BY <1>1 DEF Linked
  <2>1. \A k \in (i + 1) + 1 .. (j + 1) - 1 :
          k - 1 \in i + 1 .. j - 1 /\ k - 1 \in 1 .. n - 1 /\ (k - 1) + 1 = k
    BY <1>1, SMT
  <2>2. \A k \in (i + 1) + 1 .. (j + 1) - 1 : ~Sent(s[k])
    BY <2>1, <1>1
  <2>3. i + 1 < j + 1
    BY SMT
  <2>4. QED
    BY <2>2, <2>3, <1>1, <1>2 DEF Linked, n
<1>4. Tip(a, snd)
  <2> SUFFICES ASSUME NEW i \in 1 .. n - 1, LastSent(a, i)
               PROVE  IF snd.busy THEN Follows(a[i], snd.data, snd.state % 4) ELSE a[i].b = 3
    BY <1>1 DEF Tip
  <2>1. \A k \in (i + 1) + 1 .. n :
          k - 1 \in i + 1 .. n - 1 /\ k - 1 \in 1 .. n - 1 /\ (k - 1) + 1 = k
    BY <1>1, SMT
  <2>2. \A k \in (i + 1) + 1 .. n : ~Sent(s[k])
    BY <2>1, <1>1 DEF LastSent
  <2>3. LastSent(s, i + 1)
    BY <2>2, <1>1 DEF LastSent, n
  <2>4. QED
    BY <2>3, <1>1, <1>2 DEF Tip, n
<1>5. QED
  BY <1>1, <1>3, <1>4 DEF a

-----------------------------------------------------------------------------
(* What a clock puts into the channel.                                     *)

\* Nothing enters, an entry that is no beat of a word, or the sender's beat.
Nil(new) == new = Entered /\ ~(CHNL_TX_DATA_REN /\ sender.busy)
Other(new) == /\ \E e \in Entries : ~Sent(e) /\ new = Append(Entered, e)
              /\ ~(CHNL_TX_DATA_REN /\ sender.busy)
OneBeat(new) == /\ CHNL_TX_DATA_REN /\ sender.busy
                /\ CHNL_TX_DATA \in Entries /\ Sent(CHNL_TX_DATA)
                /\ new = Append(Entered, CHNL_TX_DATA)

\* One entry more, or none.
LEMMA EntriesAre ==
  ASSUME NEW v \in Seq(Entries), NEW e \in Entries
  PROVE  v \o <<e>> = Append(v, e) /\ v \o << >> = v /\ Append(v, e) \in Seq(Entries)
BY AppendIsConcat, ConcatEmptySeq, AppendProperties

\* What is in the gate's register is an entry too.
LEMMA EnteredType ==
  ASSUME GateTypeOK
  PROVE  Entered \in Seq(Entries)
<1>1. evts \in Seq(Entries) /\ gate.data \in Entries
  BY DEF GateTypeOK
<1>2. QED
  BY <1>1, EntriesAre DEF Entered

\* The markers and the beat of a clock are entries.
LEMMA EntryTypes ==
  ASSUME SenderTypeOK
  PROVE  /\ \A k \in Kinds : Entry(k) \in Entries /\ (k # "data" => ~Sent(Entry(k)))
         /\ CHNL_TX_DATA \in Entries
         /\ sender.busy <=> Sent(CHNL_TX_DATA)
         /\ CHNL_TX_DATA.w = sender.data /\ CHNL_TX_DATA.b = sender.state % 4
<1>1. 0 \in WordNo
  BY ReadBackAssumption, SMT DEF WordNo
<1>2. sender.state % 4 \in 0 .. 3
  BY SMT DEF SenderTypeOK
<1>3. sender.data \in WordNo /\ sender.busy \in BOOLEAN
  BY DEF SenderTypeOK
<1>4. \A k \in Kinds : Entry(k) \in Entries /\ (k # "data" => ~Sent(Entry(k)))
  BY <1>1, SMT DEF Entry, Entries, Sent
<1>5. /\ CHNL_TX_DATA \in Entries /\ (sender.busy <=> Sent(CHNL_TX_DATA))
      /\ CHNL_TX_DATA.w = sender.data /\ CHNL_TX_DATA.b = sender.state % 4
  BY <1>2, <1>3 DEF CHNL_TX_DATA, Beat, Entries, Sent, Kinds
<1>6. QED
  BY <1>4, <1>5

\* What the gate does to its state, its write enable and its entry.
LEMMA GateSteps ==
  ASSUME SenderTypeOK, GateTypeOK, GateClk, gate.state = "OPENING" => ~Sent(gate.data)
  PROVE  /\ gate' \in [state : GateStates, tx : BOOLEAN, wen : BOOLEAN, data : Entries,
                       pause : BOOLEAN, closed : BOOLEAN]
         /\ gate'.state = "OPENING" => ~Sent(gate'.data)
         /\ TxFull => gate'.wen = gate.wen /\ gate'.data = gate.data
         /\ ~TxFull /\ gate.state = "OPEN" =>
              gate'.wen = CHNL_TX_DATA_VALID /\ gate'.data = CHNL_TX_DATA
         /\ ~TxFull /\ gate.state # "OPEN" => ~Sent(gate'.data)
<1> DEFINE G == [state : GateStates, tx : BOOLEAN, wen : BOOLEAN, data : Entries,
                 pause : BOOLEAN, closed : BOOLEAN]
           full == TxFull
           valid == CHNL_TX_DATA_VALID
           beat == CHNL_TX_DATA
           tx == CHNL_TX
           open == Entry("open")
           end == Entry("end")
<1>1. valid \in BOOLEAN /\ tx \in BOOLEAN
  BY DEF SenderTypeOK, CHNL_TX_DATA_VALID, CHNL_TX
<1>2. open \in Entries /\ end \in Entries /\ ~Sent(open) /\ ~Sent(end) /\ beat \in Entries
  BY EntryTypes DEF Kinds
<1>3. gate \in G
  BY DEF GateTypeOK
<1>4. gate' = [GateNext EXCEPT !.tx = tx]
  BY DEF GateClk
<1>5. full \in BOOLEAN
  BY DEF TxFull
<1>6. CASE gate.state = "IDLE"
  <2>1. GateNext = LET g == [gate EXCEPT !.pause = FALSE, !.closed = FALSE]
                   IN  IF full THEN g
                       ELSE [g EXCEPT !.wen = gate.tx, !.data = open,
                                      !.state = IF gate.tx THEN "OPENING" ELSE "IDLE"]
    BY <1>6 DEF GateNext, GateIdleClk
  <2> HIDE DEF full, valid, beat, tx, open, end
  <2>2. /\ gate' \in G
        /\ full => gate'.wen = gate.wen /\ gate'.data = gate.data /\ gate'.state = "IDLE"
        /\ ~full => gate'.data = open
    BY <1>1, <1>2, <1>3, <1>4, <1>5, <1>6, <2>1 DEF GateStates
  <2>3. QED
    BY <1>2, <1>6, <2>2 DEF full
<1>7. CASE gate.state = "OPENING"
  <2>1. GateNext = [gate EXCEPT !.closed = gate.closed \/ ~gate.tx,
                                !.state = IF full THEN @ ELSE
                                          IF gate.closed \/ ~gate.tx THEN "CLOSED" ELSE "OPEN"]
    BY <1>7 DEF GateNext, GateOpeningClk
  <2> HIDE DEF full, valid, beat, tx, open, end
  <2>2. gate' \in G /\ gate'.wen = gate.wen /\ gate'.data = gate.data
    BY <1>1, <1>2, <1>3, <1>4, <1>5, <1>7, <2>1 DEF GateStates
  <2>3. QED
    BY <1>7, <2>2 DEF full
<1>8. CASE gate.state = "OPEN"
  <2>1. GateNext = [gate EXCEPT !.wen = IF full THEN @ ELSE valid,
                                !.data = IF full THEN @ ELSE beat,
                                !.state = IF gate.tx THEN "OPEN" ELSE "CLOSED"]
    BY <1>8 DEF GateNext, GateOpenClk
  <2> HIDE DEF full, valid, beat, tx, open, end
  <2>2. /\ gate' \in G /\ gate'.state # "OPENING"
        /\ full => gate'.wen = gate.wen /\ gate'.data = gate.data
        /\ ~full => gate'.wen = valid /\ gate'.data = beat
    BY <1>1, <1>2, <1>3, <1>4, <1>5, <1>8, <2>1 DEF GateStates
  <2>3. QED
    BY <1>8, <2>2 DEF full, valid, beat
<1>9. CASE gate.state = "CLOSED"
  <2>1. GateNext = IF full THEN gate
                   ELSE [gate EXCEPT !.pause = TRUE, !.wen = TRUE, !.data = end,
                                     !.state = IF gate.pause THEN "IDLE" ELSE "CLOSED"]
    BY <1>9 DEF GateNext, GateClosedClk
  <2> HIDE DEF full, valid, beat, tx, open, end
  <2>2. /\ gate' \in G /\ gate'.state # "OPENING"
        /\ full => gate'.wen = gate.wen /\ gate'.data = gate.data
        /\ ~full => gate'.data = end
    BY <1>1, <1>2, <1>3, <1>4, <1>5, <1>9, <2>1 DEF GateStates
  <2>3. QED
    BY <1>2, <1>9, <2>2 DEF full
<1>10. QED
  BY <1>3, <1>6, <1>7, <1>8, <1>9 DEF GateStates

\* A clock of the gate puts at most one entry in, the beat the sender counts as sent
\* exactly if there is one.
LEMMA ChannelTakes ==
  ASSUME SenderTypeOK, GateTypeOK, GateClk, gate.state = "OPENING" => ~Sent(gate.data)
  PROVE  /\ GateTypeOK' /\ (gate.state = "OPENING" => ~Sent(gate.data))'
         /\ Nil(Entered') \/ Other(Entered') \/ OneBeat(Entered')
<1>1. /\ gate.data \in Entries /\ gate.wen \in BOOLEAN /\ gate'.data \in Entries
      /\ gate'.wen \in BOOLEAN /\ evts \in Seq(Entries)
  BY GateSteps DEF GateTypeOK
<1>2. evts' = IF gate.wen /\ ~TxFull THEN Append(evts, gate.data) ELSE evts
  BY DEF GateClk
<1>3. evts' \in Seq(Entries)
  BY <1>1, <1>2, EntriesAre
<1>4. GateTypeOK' /\ (gate.state = "OPENING" => ~Sent(gate.data))'
  BY <1>3, GateSteps DEF GateTypeOK
<1>5. CASE TxFull
  <2>1. gate'.wen = gate.wen /\ gate'.data = gate.data /\ evts' = evts
    BY <1>2, <1>5, GateSteps
  <2>2. Nil(Entered')
    BY <1>5, <2>1 DEF Nil, Entered, CHNL_TX_DATA_REN
  <2>3. QED
    BY <1>4, <2>2
<1>6. CASE ~TxFull
  <2>1. evts' = Entered
    BY <1>1, <1>2, <1>6, EntriesAre DEF Entered
  <2>2. Entered' = IF gate'.wen THEN Append(Entered, gate'.data) ELSE Entered
    <3>1. Entered' = evts' \o (IF gate'.wen THEN <<gate'.data>> ELSE << >>)
      BY DEF Entered
    <3>2. QED
      BY <3>1, <2>1, <1>1, <1>3, EntriesAre
  <2>3. CASE gate.state # "OPEN"
    <3>1. ~Sent(gate'.data) /\ ~CHNL_TX_DATA_REN
      BY <1>6, <2>3, GateSteps DEF CHNL_TX_DATA_REN
    <3>2. Nil(Entered') \/ Other(Entered')
      BY <3>1, <2>2, <1>1 DEF Nil, Other
    <3>3. QED
      BY <1>4, <3>2
  <2>4. CASE gate.state = "OPEN"
    <3>1. gate'.wen = CHNL_TX_DATA_VALID /\ gate'.data = CHNL_TX_DATA /\ CHNL_TX_DATA_REN
      BY <1>6, <2>4, GateSteps DEF CHNL_TX_DATA_REN
    <3>2. CASE sender.busy
      <4>1. gate'.wen /\ Sent(CHNL_TX_DATA) /\ CHNL_TX_DATA \in Entries
        BY <3>1, <3>2, EntryTypes DEF CHNL_TX_DATA_VALID
      <4>2. OneBeat(Entered')
        BY <4>1, <3>1, <3>2, <2>2 DEF OneBeat
      <4>3. QED
        BY <1>4, <4>2
    <3>3. CASE ~sender.busy
      <4>1. ~Sent(gate'.data)
        BY <3>1, <3>3, EntryTypes
      <4>2. Nil(Entered') \/ Other(Entered')
        BY <4>1, <3>3, <2>2, <1>1 DEF Nil, Other
      <4>3. QED
        BY <1>4, <4>2
    <3>4. QED
      BY <3>2, <3>3
  <2>5. QED
    BY <2>3, <2>4
<1>7. QED
  BY <1>5, <1>6

\* What the sender does to its word and its place in it.
LEMMA SenderSteps ==
  ASSUME SenderTypeOK, rdback \in Seq(WordNo), ~sender.busy => sender.state % 4 = 0
  PROVE  LET s == SenderNext  sends == CHNL_TX_DATA_REN /\ sender.busy
         IN  /\ s \in [busy : BOOLEAN, data : WordNo, state : 0 .. 7, valid : BOOLEAN]
             /\ ~s.busy => s.state % 4 = 0
             /\ ~sends /\ sender.busy => s.busy /\ s.data = sender.data /\ s.state = sender.state
             /\ ~sender.busy => s.state % 4 = 0
             /\ sends /\ sender.state % 4 = 3 => ~s.busy
             /\ sends /\ sender.state % 4 # 3 =>
                  s.busy /\ s.data = sender.data /\ s.state % 4 = (sender.state % 4) + 1
<1> DEFINE S == [busy : BOOLEAN, data : WordNo, state : 0 .. 7, valid : BOOLEAN]
           ren == CHNL_TX_DATA_REN
           pop == FifoPop
           head == IF FifoPop THEN Head(rdback) ELSE sender.data
           place == sender.state % 4
           next == (sender.state + 1) % 8
<1>1. sender \in S /\ ren \in BOOLEAN /\ pop \in BOOLEAN
  BY DEF SenderTypeOK, CHNL_TX_DATA_REN, FifoPop, TxFull
<1>2. head \in WordNo
  BY HeadTailProperties DEF FifoPop, SenderTypeOK
<1>3. sender.state \in 0 .. 7 /\ place \in 0 .. 3 /\ next \in 0 .. 7
  BY SMT DEF SenderTypeOK
<1>4. (place = 3 => next % 4 = 0) /\ (place # 3 => next % 4 = place + 1)
  BY SMT DEF SenderTypeOK
<1>5. CASE sender.busy
  <2>1. SenderNext = [sender EXCEPT !.busy = ~(ren /\ place = 3),
                                    !.state = IF ren THEN next ELSE sender.state,
                                    !.valid = TRUE]
    BY <1>5 DEF SenderNext
  <2> DEFINE s == SenderNext
  <2> HIDE DEF ren, place, next
  <2>2. s \in S /\ s.busy = ~(ren /\ place = 3) /\ s.data = sender.data
        /\ s.state = IF ren THEN next ELSE sender.state
    BY <1>1, <1>3, <2>1
  <2> HIDE DEF s, S
  <2>3. ~s.busy => s.state % 4 = 0
    BY <2>2, <1>4
  <2>4. ~ren => s.busy /\ s.state = sender.state
    BY <2>2
  <2>5. ren /\ place = 3 => ~s.busy
    BY <2>2
  <2>6. ren /\ place # 3 => s.busy /\ s.state % 4 = place + 1
    BY <2>2, <1>4
  <2>7. QED
    BY <1>5, <2>2, <2>3, <2>4, <2>5, <2>6 DEF s, S, ren, place
<1>6. CASE ~sender.busy
  <2>1. SenderNext = [sender EXCEPT !.busy = pop, !.data = head]
    BY <1>6 DEF SenderNext
  <2> DEFINE s == SenderNext
  <2> HIDE DEF pop, head
  <2>2. s \in S /\ s.state = sender.state
    BY <1>1, <1>2, <2>1
  <2> HIDE DEF s, S
  <2>3. s.state % 4 = 0
    BY <1>6, <2>2
  <2>4. QED
    BY <1>6, <2>2, <2>3 DEF s, S
<1>7. QED
  BY <1>5, <1>6

\* A clock of the sender and of the gate keeps the beats in order.
LEMMA BeatsClk ==
  ASSUME BeatsInv, rdback \in Seq(WordNo), GateClk, sender' = SenderNext
  PROVE  BeatsInv'
<1> DEFINE sends == CHNL_TX_DATA_REN /\ sender.busy
           s == SenderNext
           new == Entered'
<1>1. /\ SenderTypeOK /\ GateTypeOK /\ (~sender.busy => sender.state % 4 = 0)
      /\ (gate.state = "OPENING" => ~Sent(gate.data))
      /\ Linked(Entered) /\ Tip(Entered, sender) /\ Entered \in Seq(Entries)
  BY EnteredType DEF BeatsInv
<1>2. /\ GateTypeOK' /\ (gate.state = "OPENING" => ~Sent(gate.data))'
      /\ Nil(new) \/ Other(new) \/ OneBeat(new)
  BY <1>1, ChannelTakes
<1>3. /\ s \in [busy : BOOLEAN, data : WordNo, state : 0 .. 7, valid : BOOLEAN]
      /\ ~s.busy => s.state % 4 = 0
      /\ ~sends /\ sender.busy => s.busy /\ s.data = sender.data /\ s.state = sender.state
      /\ ~sender.busy => s.state % 4 = 0
      /\ sends /\ sender.state % 4 = 3 => ~s.busy
      /\ sends /\ sender.state % 4 # 3 =>
           s.busy /\ s.data = sender.data /\ s.state % 4 = (sender.state % 4) + 1
  BY <1>1, SenderSteps
<1>4. sender' = s
  OBVIOUS
<1> HIDE DEF s, new
<1>5. ASSUME ~sends, NEW q, Tip(q, sender) PROVE Tip(q, s)
  <2> SUFFICES ASSUME NEW i \in 1 .. Len(q), LastSent(q, i)
               PROVE  IF s.busy THEN Follows(q[i], s.data, s.state % 4) ELSE q[i].b = 3
    BY DEF Tip
  <2>1. IF sender.busy THEN Follows(q[i], sender.data, sender.state % 4) ELSE q[i].b = 3
    BY <1>5 DEF Tip
  <2>2. CASE sender.busy
    BY <2>1, <2>2, <1>3, <1>5
  <2>3. CASE ~sender.busy
    BY <2>1, <2>3, <1>3 DEF Follows
  <2>4. QED
    BY <2>2, <2>3
<1>6. Linked(new) /\ Tip(new, s)
  <2>1. CASE Nil(new)
    BY <2>1, <1>1, <1>5 DEF Nil
  <2>2. CASE Other(new)
    <3>1. PICK e \in Entries : ~Sent(e) /\ new = Append(Entered, e)
      BY <2>2 DEF Other
    <3>2. Linked(new) /\ Tip(new, sender)
      BY <3>1, <1>1, UnsentEnters
    <3>3. ~sends
      BY <2>2 DEF Other
    <3>4. QED
      BY <3>2, <3>3, <1>5
  <2>3. CASE OneBeat(new)
    <3> DEFINE e == CHNL_TX_DATA
    <3>1. sends /\ e \in Entries /\ Sent(e) /\ new = Append(Entered, e)
      BY <2>3 DEF OneBeat
    <3>2. e.w = sender.data /\ e.b = sender.state % 4
      BY <1>1, EntryTypes
    <3> HIDE DEF e
    <3>3. Linked(new) /\ \A i \in 1 .. Len(new) : LastSent(new, i) => new[i] = e
      BY <3>1, <3>2, <1>1, SentEnters
    <3>4. CASE sender.state % 4 = 3
      BY <3>1, <3>2, <3>3, <3>4, <1>3 DEF Tip
    <3>5. CASE sender.state % 4 # 3
      <4>1. s.busy /\ Follows(e, s.data, s.state % 4)
        BY <3>1, <3>2, <3>5, <1>3 DEF Follows
      <4>2. QED
        BY <3>3, <4>1 DEF Tip
    <3>6. QED
      BY <3>4, <3>5
  <2>4. QED
    BY <1>2, <2>1, <2>2, <2>3
<1>7. SenderTypeOK'
  BY <1>3, <1>4 DEF SenderTypeOK
<1>8. QED
  BY <1>2, <1>3, <1>4, <1>6, <1>7 DEF BeatsInv, new

\* The PCIe side takes an entry: out of the FIFO only.
LEMMA BeatsTaken == ASSUME BeatsInv, MonitorRead PROVE BeatsInv'
<1> DEFINE reg == IF gate.wen THEN <<gate.data>> ELSE << >>
<1>1. /\ evts \in Seq(Entries) /\ evts # << >> /\ gate.data \in Entries
      /\ evts' = Tail(evts) /\ gate' = gate /\ sender' = sender
  BY DEF MonitorRead, BeatsInv, GateTypeOK
<1>2. Tail(evts) \in Seq(Entries)
  BY <1>1, HeadTailProperties
<1>3. reg \in Seq(Entries)
  BY <1>1, SMT
<1>4. Entered = evts \o reg /\ Entered' = Tail(evts) \o reg
  BY <1>1 DEF Entered
<1> HIDE DEF reg
<1>5. Tail(evts) \o reg = Tail(evts \o reg) /\ evts \o reg # << >>
  BY <1>1, <1>3, SMT
<1>6. Linked(Entered') /\ Tip(Entered', sender)
  <2>1. Entered \in Seq(Entries) /\ Linked(Entered) /\ Tip(Entered, sender)
    BY EnteredType DEF BeatsInv
  <2>2. QED
    BY <1>4, <1>5, <2>1, EntryTaken
<1>7. QED
  BY <1>1, <1>2, <1>6 DEF BeatsInv, SenderTypeOK, GateTypeOK

\* With nothing in the channel every beat may be the next.
LEMMA NothingEntered ==
  ASSUME NEW snd PROVE Linked(<< >>) /\ Tip(<< >>, snd)
<1>1. Len(<< >>) = 0 /\ \A i \in 1 .. 0 : FALSE
  BY SMT
<1>2. QED
  BY <1>1 DEF Linked, Tip

\* The state after a reset of the channel.
LEMMA GateIdleType ==
  /\ GateIdle \in [state : GateStates, tx : BOOLEAN, wen : BOOLEAN, data : Entries,
                   pause : BOOLEAN, closed : BOOLEAN]
  /\ << >> \in Seq(Entries) /\ GateIdle.state # "OPENING" /\ ~GateIdle.wen
<1>1. Entry("none") \in Entries
  <2>1. 0 \in WordNo
    BY ReadBackAssumption, SMT DEF WordNo
  <2>2. QED
    BY <2>1 DEF Entry, Entries, Kinds
<1>2. QED
  BY <1>1 DEF GateIdle, GateStates

\* A reset of the channel empties it and cuts the sender's word off.
LEMMA BeatsReset ==
  ASSUME BeatsInv, RiffaRst PROVE BeatsInv'
<1>1. /\ sender' = [sender EXCEPT !.busy = FALSE, !.state = 0, !.valid = CHNL_TX_DATA_VALID]
      /\ gate' = GateIdle /\ evts' = << >>
  BY DEF RiffaRst
<1>2. sender.busy \in BOOLEAN /\ CHNL_TX_DATA_VALID \in BOOLEAN /\ SenderTypeOK
  BY DEF BeatsInv, SenderTypeOK, CHNL_TX_DATA_VALID
<1>3. SenderTypeOK' /\ sender'.state = 0
  <2> DEFINE v == CHNL_TX_DATA_VALID
  <2>1. v \in BOOLEAN /\ sender' = [sender EXCEPT !.busy = FALSE, !.state = 0, !.valid = v]
    BY <1>1, <1>2
  <2> HIDE DEF v
  <2>2. sender \in [busy : BOOLEAN, data : WordNo, state : 0 .. 7, valid : BOOLEAN]
        /\ 0 \in 0 .. 7
    BY <1>2, SMT DEF SenderTypeOK
  <2>3. QED
    BY <2>1, <2>2 DEF SenderTypeOK
<1>4. GateTypeOK' /\ gate'.state # "OPENING" /\ ~gate'.wen
  BY <1>1, GateIdleType DEF GateTypeOK
<1>5. Entered' = << >>
  <2>1. Entered' = << >> \o << >>
    BY <1>1, <1>4 DEF Entered
  <2>2. QED
    BY <2>1, SMT
<1>6. 0 % 4 = 0
  BY SMT
<1>7. QED
  BY <1>3, <1>4, <1>5, <1>6, NothingEntered DEF BeatsInv

\* At the start nothing has entered.
LEMMA BeatsInit == ReadBackInit => BeatsInv
<1> SUFFICES ASSUME ReadBackInit PROVE BeatsInv
  OBVIOUS
<1>1. sender = SenderIdle /\ gate = GateIdle /\ evts = << >>
  BY DEF ReadBackInit
<1>2. 0 \in WordNo
  BY ReadBackAssumption, SMT DEF WordNo
<1>3. SenderTypeOK /\ sender.state = 0
  BY <1>1, <1>2, SMT DEF SenderTypeOK, SenderIdle
<1>4. GateTypeOK /\ gate.state # "OPENING" /\ ~gate.wen
  BY <1>1, GateIdleType DEF GateTypeOK
<1>5. Entered = << >>
  <2>1. Entered = << >> \o << >>
    BY <1>1, <1>4 DEF Entered
  <2>2. QED
    BY <2>1, SMT
<1>6. 0 % 4 = 0
  BY SMT
<1>7. QED
  BY <1>3, <1>4, <1>5, <1>6, NothingEntered DEF BeatsInv

\* What the sender takes must be words: the invariant of the memory side is needed.
LEMMA BeatsNext == WordsInv /\ BeatsInv /\ [ReadBackNext]_readBackVars => BeatsInv'
<1> SUFFICES ASSUME WordsInv, BeatsInv, [ReadBackNext]_readBackVars PROVE BeatsInv'
  OBVIOUS
<1>1. rdback \in Seq(WordNo)
  BY DEF WordsInv, ReadTypeOK
<1>2. CASE ReadBackClk
  BY <1>1, <1>2, BeatsClk DEF ReadBackClk, SenderClk
<1>3. CASE MonitorRead
  BY <1>3, BeatsTaken
<1>4. CASE ReadBackRst
  BY <1>1, <1>4, BeatsClk DEF ReadBackRst
<1>5. CASE RiffaRst
  BY <1>5, BeatsReset
<1>6. CASE UNCHANGED readBackVars
  BY <1>6 DEF readBackVars, BeatsInv, SenderTypeOK, GateTypeOK, Entered
<1>7. QED
  BY <1>2, <1>3, <1>4, <1>5, <1>6 DEF ReadBackNext

\* BeatsInOrder is the part of it that the host can see.
LEMMA BeatsInvIsOrder == BeatsInv => BeatsInOrder
BY DEF BeatsInv, BeatsInOrder, Linked

\* For every depth of the gate's FIFO and whatever the PCIe side takes when, the
\* four beats of a word enter the channel once each and in order.
THEOREM BeatsEnterInOrder == ReadBackSpec => []BeatsInOrder
<1>1. WordsInv /\ BeatsInv /\ [ReadBackNext]_readBackVars => (WordsInv /\ BeatsInv)'
  BY WordsNext, BeatsNext
<1>2. QED
  BY WordsInit, BeatsInit, <1>1, BeatsInvIsOrder, PTL DEF ReadBackSpec

-----------------------------------------------------------------------------
(* Instructions.                                                           *)

USE DEF InstrOrNone

\* The words of the sequence under way, in the FIFOs and on their way there.
OnItsWay == IF instr_r = NoInstr THEN 0 ELSE 1
Held(l) == Len(fifo[l])
Taken == Held(0) + Held(1) + OnItsWay

\* A sequence is dealt out evenly, and what the path holds of it is at most what
\* the host has sent: one word more, when the END of a sequence that a reset cut
\* off is still in the host's word register and is taken as the next one's first.
Filling == state_r # "IDLE" \/ process_iseq_r
CapacityInv ==
  /\ sent \in Nat
  /\ sent > 0 => sent <= MaxLen - 1
  /\ state_r # "MAINT"
  /\ ~Filling => sel_fifo = 0
  /\ Filling => Held(0) = Held(1) + sel_fifo
  /\ state_r = "APP" =>
       /\ app = NoInstr => Taken <= sent + 1
       /\ app # NoInstr /\ app.op # "END" => Taken <= sent
       /\ app # NoInstr /\ app.op = "END" => Taken <= MaxLen
  /\ process_iseq_r => Taken <= MaxLen + 1

HostInv == PathTypeOK /\ PathInv /\ sent \in Nat

-----------------------------------------------------------------------------
LEMMA OfferedType ==
  ASSUME sent \in Nat, NEW rx \in Offered
  PROVE  rx \in InstrOrNone
<1>1. \A op \in Opcodes, n \in Nat : App(op, n) \in Instruction
  BY DEF App, Instruction
<1>2. DDR_INSTR \subseteq Opcodes /\ {"WAIT", "END"} \subseteq Opcodes
  BY DEF Opcodes
<1>3. QED BY <1>1, <1>2, HostAssumption DEF Offered, Words

\* The host counts the words of its sequence, its END not.
LEMMA SentStep ==
  ASSUME sent \in Nat, sent > 0 => sent <= MaxLen - 1,
         NEW rx \in Offered, Deliver(rx)
  PROVE  /\ sent' \in Nat
         /\ sent' > 0 => sent' <= MaxLen - 1
         /\ rx = NoInstr => sent' = sent
         /\ rx # NoInstr /\ rx.op # "END" => sent' = sent + 1
         /\ rx # NoInstr /\ rx.op = "END" => sent > 0
<1>1. MaxLen \in Nat
  BY HostAssumption
<1>2. ASSUME rx \in Words
      PROVE  rx.op # "END" /\ rx # NoInstr
  BY <1>2, HostAssumption DEF Words, App, DDR_INSTR, NoInstr
<1>3. CASE rx = NoInstr
  BY <1>3 DEF Deliver
<1>4. CASE rx \in Words /\ sent < MaxLen - 1
  BY <1>1, <1>2, <1>4 DEF Deliver
<1>5. CASE rx = App("END", 0) /\ sent > 0
  <2>1. rx.op = "END" /\ rx # NoInstr
    BY <1>5 DEF App, NoInstr
  <2>2. QED BY <1>1, <1>5, <2>1 DEF Deliver
<1>6. QED BY <1>3, <1>4, <1>5 DEF Offered

-----------------------------------------------------------------------------
(* Types and one sequence at a time.                                       *)

LEMMA HostInvInit == HostInit => HostInv
  BY PathTypeInit, PathInvInit DEF HostInit, HostInv

LEMMA HostInvStep ==
  ASSUME HostInv, [HostNext]_hostVars
  PROVE  HostInv'
<1> USE DEF HostInv
<1>1. ASSUME NEW rx \in Offered, Deliver(rx)
      PROVE  sent' \in Nat
  BY <1>1 DEF Deliver
<1>2. CASE HostClk
  <2>1. PICK dfi_ready \in DfiReadies, rx \in Offered :
          PathClk(rx, NoInstr, dfi_ready, FALSE) /\ Deliver(rx)
    BY <1>2 DEF HostClk
  <2>2. rx \in InstrOrNone /\ NoInstr \in InstrOrNone
    BY OfferedType
  <2>3. PathTypeOK'
    BY <2>1, <2>2, PathTypeStep
  <2>4. PathInv'
    BY <2>1, PathInvClk
  <2>5. QED BY <1>1, <2>1, <2>3, <2>4
<1>3. CASE HostRst
  <2>1. PICK dfi_ready \in DfiReadies, rx \in Offered :
          PathRst(rx, dfi_ready, FALSE) /\ Deliver(rx)
    BY <1>3 DEF HostRst
  <2>2. rx \in InstrOrNone /\ NoInstr \in InstrOrNone
    BY OfferedType
  <2>3. PathTypeOK'
    BY <2>1, <2>2, PathTypeStep
  <2>4. PathInv'
    BY <2>1, PathInvRst
  <2>5. QED BY <1>1, <2>1, <2>3, <2>4
<1>4. CASE UNCHANGED hostVars
  <2>1. UNCHANGED <<pathVars, sent>>
    BY <1>4 DEF hostVars
  <2>2. PathTypeOK' /\ PathInv'
    BY <2>1, PathStutter
  <2>3. QED BY <2>1, <2>2
<1>5. QED BY <1>2, <1>3, <1>4 DEF HostNext

\* Every register of the path keeps the values its width allows, dfi_ready
\* falling at any clock included.
THEOREM HostTypes == HostSpec => []PathTypeOK
<1>1. HostInv => PathTypeOK
  BY DEF HostInv
<1>2. HostInv /\ [HostNext]_hostVars => HostInv'
  BY HostInvStep
<1>3. QED BY <1>1, <1>2, HostInvInit, PTL DEF HostSpec

\* The receiver fills the FIFOs only over an idle dispatcher, and starts a
\* sequence only when no word of the last one is left in a FIFO, a register
\* stage or on its way there, although the FIFOs show a word late and a reset
\* clears some of the registers only.
THEOREM HostOneSequenceAtATime == HostSpec => []OneSequenceAtATime
<1>1. HostInv => OneSequenceAtATime
  BY PathInvOneSequence DEF HostInv
<1>2. HostInv /\ [HostNext]_hostVars => HostInv'
  BY HostInvStep
<1>3. QED BY <1>1, <1>2, HostInvInit, PTL DEF HostSpec

-----------------------------------------------------------------------------
(* No word is lost.                                                        *)

Fits == MaxLen + 1 <= 2 * FifoDepth

LEMMA CapacityInit == HostInit => CapacityInv
<1> SUFFICES ASSUME HostInit PROVE CapacityInv
  OBVIOUS
<1>1. /\ sent = 0 /\ state_r = "IDLE" /\ process_iseq_r = FALSE /\ sel_fifo = 0
  BY DEF HostInit, PathInit, ReceiverInit
<1>2. QED BY <1>1 DEF CapacityInv, Filling

\* A sequence dealt out evenly and no longer than the two FIFOs finds a place.
LEMMA RoomForWord ==
  ASSUME Fits, HostInv, CapacityInv
  PROVE  NoInstructionDropped
<1>1. SUFFICES ASSUME NEW l \in Lanes, FifoWr(l)
               PROVE  Held(l) < FifoDepth
  BY DEF NoInstructionDropped, Held
<1>2. l = sel_fifo /\ instr_r # NoInstr
  BY <1>1 DEF FifoWr
<1>3. /\ fifo[0] \in Seq(Instruction) /\ fifo[1] \in Seq(Instruction)
      /\ sel_fifo \in {0, 1}
  BY DEF HostInv, PathTypeOK, Lanes
<1>4. Held(0) \in Nat /\ Held(1) \in Nat
  BY <1>3 DEF Held
<1>5. Filling
  BY <1>2 DEF HostInv, PathInv, Filling
<1>6. Taken <= MaxLen + 1
  <2>1. Taken \in Nat
    <3>1. OnItsWay \in Nat
      BY DEF OnItsWay
    <3>2. QED BY <1>4, <3>1 DEF Taken
  <2>2. MaxLen \in Nat /\ sent \in Nat /\ (sent > 0 => sent <= MaxLen - 1)
    BY HostAssumption DEF CapacityInv
  <2>3. CASE process_iseq_r
    BY <2>3 DEF CapacityInv
  <2>4. CASE state_r = "APP"
    BY <2>1, <2>2, <2>4 DEF CapacityInv
  <2>5. QED BY <1>5, <2>3, <2>4 DEF CapacityInv, Filling, HostInv, PathTypeOK
<1>7. /\ Held(0) = Held(1) + sel_fifo
      /\ Held(0) + Held(1) + 1 <= 2 * FifoDepth
  <2>1. Taken = Held(0) + Held(1) + 1
    BY <1>2 DEF Taken, OnItsWay
  <2>2. FifoDepth \in Nat /\ MaxLen \in Nat
    BY PathAssumption, HostAssumption
  <2>3. QED BY <1>4, <1>5, <1>6, <2>1, <2>2 DEF CapacityInv, Fits
<1>8. FifoDepth \in Nat
  BY PathAssumption
<1>9. CASE sel_fifo = 0
  BY <1>2, <1>4, <1>7, <1>8, <1>9
<1>10. CASE sel_fifo = 1
  BY <1>2, <1>4, <1>7, <1>8, <1>10
<1>11. QED BY <1>3, <1>9, <1>10

\* While the receiver takes a sequence, its word register is written to the FIFO
\* whose turn it is.
LEMMA FillStep ==
  ASSUME Fits, HostInv, CapacityInv, FifoClk, sel_fifo' = SelNext, state_r = "APP"
  PROVE  /\ Held(0)' + Held(1)' = Taken
         /\ Held(0)' = Held(1)' + sel_fifo'
<1>1. /\ PathTypeOK /\ ~dispatcher_busy_r /\ ~process_iseq_r
      /\ sel_fifo \in {0, 1}
      /\ Held(0) = Held(1) + sel_fifo
  BY DEF HostInv, PathInv, PathTypeOK, CapacityInv, Filling, Lanes
<1>2. \A l \in {0, 1} :
        /\ Held(l) \in Nat
        /\ FifoWr(l) => Held(l)' = Held(l) + 1
        /\ ~FifoWr(l) => Held(l)' = Held(l)
  BY <1>1, FifoFills, RoomForWord DEF NoInstructionDropped, Lanes, Held
<1>3. CASE instr_r = NoInstr
  <2>1. ~FifoWr(0) /\ ~FifoWr(1) /\ sel_fifo' = sel_fifo
    BY <1>1, <1>3 DEF FifoWr, SelNext
  <2>2. QED BY <1>1, <1>2, <1>3, <2>1 DEF Taken, OnItsWay
<1>4. CASE instr_r # NoInstr /\ sel_fifo = 0
  <2>1. FifoWr(0) /\ ~FifoWr(1) /\ sel_fifo' = 1
    BY <1>1, <1>4 DEF FifoWr, SelNext
  <2>2. QED BY <1>1, <1>2, <1>4, <2>1 DEF Taken, OnItsWay
<1>5. CASE instr_r # NoInstr /\ sel_fifo = 1
  <2>1. ~FifoWr(0) /\ FifoWr(1) /\ sel_fifo' = 0
    BY <1>1, <1>5 DEF FifoWr, SelNext
  <2>2. QED BY <1>1, <1>2, <1>5, <2>1 DEF Taken, OnItsWay
<1>6. QED BY <1>1, <1>3, <1>4, <1>5

LEMMA CapacityClk ==
  ASSUME Fits, HostInv, CapacityInv, NEW dfi_ready, NEW rx \in Offered,
         rx # NoInstr => RxDataRen, PathClk(rx, NoInstr, dfi_ready, FALSE), Deliver(rx)
  PROVE  CapacityInv'
<1>1. /\ FifoClk
      /\ ReceiverClk(app, NoInstr, ~dispatcher_busy_r)
      /\ app' = AppNext(rx)
  BY DEF PathClk
<1>2. /\ sent \in Nat /\ sent' \in Nat /\ MaxLen \in Nat
      /\ sent > 0 => sent <= MaxLen - 1
      /\ sent' > 0 => sent' <= MaxLen - 1
      /\ rx = NoInstr => sent' = sent
      /\ rx # NoInstr /\ rx.op # "END" => sent' = sent + 1
      /\ rx # NoInstr /\ rx.op = "END" => sent > 0
  BY SentStep, HostAssumption DEF CapacityInv
<1>3. Held(0) \in Nat /\ Held(1) \in Nat
  BY DEF HostInv, PathTypeOK, Lanes, Held
<1>4. CASE Stay(app, NoInstr, ~dispatcher_busy_r)
  <2>1. /\ state_r = "IDLE" /\ state_r' = "IDLE" /\ process_iseq_r' = FALSE
        /\ sel_fifo' = SelNext
    BY <1>4 DEF Stay, Load
  <2>2. sel_fifo' = 0
    BY <2>1 DEF SelNext, HostInv, PathInv, CapacityInv, Filling
  <2>3. QED BY <1>2, <2>1, <2>2 DEF CapacityInv, Filling
<1>5. CASE StartApp(app, ~dispatcher_busy_r)
  <2>1. /\ MayStart(~dispatcher_busy_r) /\ app # NoInstr
        /\ state_r' = "APP" /\ process_iseq_r' = FALSE /\ instr_r' # NoInstr
        /\ sel_fifo' = SelNext
    BY <1>5 DEF StartApp, Load
  <2>2. /\ instr_r = NoInstr /\ sel_fifo = 0 /\ ~process_iseq_r
        /\ \A l \in Lanes : fifo[l] = << >>
    BY <2>1 DEF MayStart, HostInv, PathInv, CapacityInv, Filling
  <2>3. sel_fifo' = 0 /\ (\A l \in {0, 1} : fifo'[l] = << >>)
    BY <1>1, <2>1, <2>2, FifoStep DEF SelNext, FifoWr, HostInv, Lanes
  <2>4. Held(0)' = 0 /\ Held(1)' = 0
    BY <2>3 DEF Held
  <2>5. Taken' = 1
    BY <2>1, <2>4 DEF Taken, OnItsWay
  <2>6. app' = rx
    BY <1>1, <2>1 DEF AppNext, RxDataRen, app_ack
  <2>7. /\ app' = NoInstr => Taken' <= sent' + 1
        /\ app' # NoInstr /\ app'.op # "END" => Taken' <= sent'
        /\ app' # NoInstr /\ app'.op = "END" => Taken' <= MaxLen
    <3>1. CASE rx = NoInstr
      BY <1>2, <2>5, <2>6, <3>1
    <3>2. CASE rx # NoInstr /\ rx.op # "END"
      <4>1. sent' >= 1
        BY <1>2, <3>2
      <4>2. QED BY <2>5, <2>6, <3>2, <4>1
    <3>3. CASE rx # NoInstr /\ rx.op = "END"
      <4>1. 1 <= MaxLen
        BY <1>2, <3>3
      <4>2. QED BY <2>5, <2>6, <3>3, <4>1
    <3>4. QED BY <3>1, <3>2, <3>3
  <2>8. QED BY <1>2, <2>1, <2>3, <2>4, <2>7 DEF CapacityInv, Filling
<1>6. CASE TakeApp(app)
  <2>1. /\ state_r = "APP" /\ sel_fifo' = SelNext
        /\ app # NoInstr /\ app.op = "END" =>
             state_r' = "IDLE" /\ process_iseq_r' /\ instr_r' = app
        /\ ~(app # NoInstr /\ app.op = "END") =>
             state_r' = "APP" /\ process_iseq_r' = FALSE /\ instr_r' = app
    BY <1>6 DEF TakeApp, Load, NoInstr
  <2>2. /\ Held(0)' + Held(1)' = Taken
        /\ Held(0)' = Held(1)' + sel_fifo'
    BY <1>1, <2>1, FillStep
  <2>3. app' = rx
    BY <1>1, <2>1 DEF AppNext, RxDataRen, app_ack
  <2>4. /\ Taken \in Nat
        /\ app = NoInstr => Taken' = Taken
        /\ app # NoInstr => Taken' = Taken + 1
    <3>1. instr_r' = app /\ OnItsWay \in Nat
      BY <2>1 DEF OnItsWay
    <3>2. Taken \in Nat
      BY <1>3, <3>1 DEF Taken
    <3>3. Taken' = Taken + OnItsWay'
      BY <2>2 DEF Taken
    <3>4. QED BY <3>1, <3>2, <3>3 DEF OnItsWay
  <2>5. CASE app # NoInstr /\ app.op = "END"
    <3>1. Taken' <= MaxLen + 1
      BY <1>2, <2>1, <2>4, <2>5 DEF CapacityInv
    <3>2. QED BY <1>2, <2>1, <2>2, <2>5, <3>1 DEF CapacityInv, Filling
  <2>6. CASE ~(app # NoInstr /\ app.op = "END")
    <3>1. Taken' <= sent + 1
      BY <1>2, <2>1, <2>4, <2>6 DEF CapacityInv
    <3>2. /\ app' = NoInstr => Taken' <= sent' + 1
          /\ app' # NoInstr /\ app'.op # "END" => Taken' <= sent'
          /\ app' # NoInstr /\ app'.op = "END" => Taken' <= MaxLen
      BY <1>2, <2>3, <2>4, <3>1
    <3>3. QED BY <1>2, <2>1, <2>2, <2>6, <3>2 DEF CapacityInv, Filling
  <2>7. QED BY <2>5, <2>6
<1>7. ~StartMaint(app, NoInstr, ~dispatcher_busy_r) /\ ~TakeMaint(NoInstr)
  BY DEF StartMaint, TakeMaint, CapacityInv
<1>8. QED BY <1>1, <1>4, <1>5, <1>6, <1>7 DEF ReceiverClk

LEMMA CapacityStep ==
  ASSUME Fits, HostInv, CapacityInv, [HostNext]_hostVars
  PROVE  CapacityInv'
<1>1. CASE HostClk
  BY <1>1, CapacityClk DEF HostClk
<1>2. CASE HostRst
  <2>1. PICK dfi_ready \in DfiReadies, rx \in Offered :
          PathRst(rx, dfi_ready, FALSE) /\ Deliver(rx)
    BY <1>2 DEF HostRst
  <2>2. state_r' = "IDLE" /\ process_iseq_r' = FALSE /\ sel_fifo' = 0
    BY <2>1 DEF PathRst, ReceiverRst
  <2>3. sent' \in Nat /\ (sent' > 0 => sent' <= MaxLen - 1)
    BY <2>1, SentStep DEF CapacityInv
  <2>4. QED BY <2>2, <2>3 DEF CapacityInv, Filling
<1>3. CASE UNCHANGED hostVars
  BY <1>3 DEF hostVars, pathVars, receiverVars, CapacityInv, Filling, Taken,
     OnItsWay, Held
<1>4. QED BY <1>1, <1>2, <1>3 DEF HostNext

\* instr_receiver.v ignores the FIFOs' full flags; a host whose sequences, their
\* END included, are shorter than the two FIFOs together loses no word for it.
\* That is less than the 8192 instructions of softmc.h when the FIFOs hold 1024.
THEOREM HostNothingDropped ==
  ASSUME MaxLen + 1 <= 2 * FifoDepth
  PROVE  HostSpec => []NoInstructionDropped
<1>1. Fits
  BY DEF Fits
<1>2. HostInit => HostInv /\ CapacityInv
  BY HostInvInit, CapacityInit
<1>3. HostInv /\ CapacityInv /\ [HostNext]_hostVars => HostInv' /\ CapacityInv'
  BY <1>1, HostInvStep, CapacityStep
<1>4. HostInv /\ CapacityInv => NoInstructionDropped
  BY <1>1, RoomForWord
<1>5. QED BY <1>2, <1>3, <1>4, PTL DEF HostSpec
=============================================================================
