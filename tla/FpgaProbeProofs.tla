-------------------------- MODULE FpgaProbeProofs --------------------------
(***************************************************************************)
(* That every list of the Linux driver's fpga_probe and fpga_remove gives  *)
(* back what the board has acquired, for any number of boards, places and  *)
(* channels.  First what a list is worth, then what a board holds at each  *)
(* of the acquisitions, then the lists one by one, then the steps.         *)
(***************************************************************************)
EXTENDS FpgaProbe, SequenceTheorems, WellFoundedInduction, TLAPS

-----------------------------------------------------------------------------
(* A list of releases: no thing twice, and the interrupt is released before *)
(* what its handler uses.                                                   *)
Names ==
  {"device", "mask", "sc", "regions", "bar0_length", "bar0", "msi", "irq",
   "read_devctl", "write_devctl", "read_lnkctl", "write_lnkctl", "devctl", "lnkctl",
   "lnkctl_from_devctl", "info", "recv_array", "send_array",
   "recv", "recv_msgs", "recv_buf", "send", "send_msgs", "send_buf", "spill", "slot"}
Resources == Names \X Nat
Listed(s) == { s[k] : k \in 1 .. Len(s) }
Irq == <<"irq", 0>>
Used == {<<"sc", 0>>, <<"bar0", 0>>}
Guarded(s) ==
  \A j \in 1 .. Len(s) : s[j] = Irq =>
    \A r \in Used : \E k \in 1 .. Len(s) : j < k /\ s[k] = r
Good(s) == s \in Seq(Resources) /\ IsInjective(s) /\ Guarded(s)

LEMMA GoodTail ==
  ASSUME NEW s, Good(s), s # << >>
  PROVE  Good(Tail(s)) /\ Listed(Tail(s)) = Listed(s) \ {Head(s)}
<1>1. s \in Seq(Resources) /\ Len(s) \in Nat /\ Len(s) > 0 /\ DOMAIN s = 1 .. Len(s)
  BY EmptySeq DEF Good
<1>2. /\ Tail(s) \in Seq(Resources) /\ Len(Tail(s)) = Len(s) - 1
      /\ DOMAIN Tail(s) = 1 .. Len(s) - 1
      /\ \A k \in 1 .. Len(s) - 1 : Tail(s)[k] = s[k + 1]
      /\ Head(s) = s[1]
  BY <1>1
<1>3. \A j, k \in 1 .. Len(s) : s[j] = s[k] => j = k
  BY <1>1 DEF Good, IsInjective
<1>4. IsInjective(Tail(s))
  <2>1. \A j, k \in 1 .. Len(s) - 1 : Tail(s)[j] = Tail(s)[k] => j = k
    BY <1>1, <1>2, <1>3
  <2>2. QED BY <1>2, <2>1 DEF IsInjective
<1>5. Guarded(Tail(s))
  <2>1. SUFFICES ASSUME NEW j \in 1 .. Len(s) - 1, Tail(s)[j] = Irq, NEW r \in Used
                 PROVE  \E k \in 1 .. Len(s) - 1 : j < k /\ Tail(s)[k] = r
    BY <1>2 DEF Guarded
  <2>2. j + 1 \in 1 .. Len(s) /\ s[j + 1] = Irq
    BY <1>1, <1>2, <2>1
  <2>3. PICK k \in 1 .. Len(s) : j + 1 < k /\ s[k] = r
    BY <2>2 DEF Good, Guarded
  <2>4. k - 1 \in 1 .. Len(s) - 1 /\ j < k - 1 /\ Tail(s)[k - 1] = r
    BY <1>1, <1>2, <2>3
  <2>5. QED BY <2>4
<1>6. Listed(Tail(s)) = Listed(s) \ {Head(s)}
  <2>1. ASSUME NEW r \in Listed(Tail(s))
        PROVE  r \in Listed(s) /\ r # Head(s)
    <3>1. PICK k \in 1 .. Len(s) - 1 : r = Tail(s)[k]
      BY <1>2 DEF Listed
    <3>2. k + 1 \in 1 .. Len(s) /\ r = s[k + 1] /\ k + 1 # 1 /\ 1 \in 1 .. Len(s)
      BY <1>1, <1>2, <3>1
    <3>3. QED BY <1>2, <1>3, <3>2 DEF Listed
  <2>2. ASSUME NEW r \in Listed(s), r # Head(s)
        PROVE  r \in Listed(Tail(s))
    <3>1. PICK k \in 1 .. Len(s) : r = s[k]
      BY DEF Listed
    <3>2. k - 1 \in 1 .. Len(s) - 1
      BY <1>1, <1>2, <2>2, <3>1
    <3>3. Tail(s)[k - 1] = r
      BY <1>1, <1>2, <3>1, <3>2
    <3>4. QED BY <1>2, <3>2, <3>3 DEF Listed
  <2>3. QED BY <2>1, <2>2
<1>7. QED BY <1>2, <1>4, <1>5, <1>6 DEF Good

LEMMA GoodConcat ==
  ASSUME NEW s, NEW u, Good(s), Good(u), Listed(s) \cap Listed(u) = {}, Irq \notin Listed(s)
  PROVE  Good(s \o u) /\ Listed(s \o u) = Listed(s) \cup Listed(u)
<1> DEFINE m == Len(s)
           n == Len(u)
           c == s \o u
<1>1. /\ s \in Seq(Resources) /\ u \in Seq(Resources) /\ c \in Seq(Resources)
      /\ m \in Nat /\ n \in Nat /\ Len(c) = m + n
      /\ DOMAIN s = 1 .. m /\ DOMAIN u = 1 .. n /\ DOMAIN c = 1 .. m + n
      /\ \A k \in 1 .. m : c[k] = s[k]
      /\ \A k \in m + 1 .. m + n : c[k] = u[k - m]
  BY DEF Good
<1>2. /\ \A k \in 1 .. m : c[k] = s[k] /\ c[k] \in Listed(s)
      /\ \A k \in 1 .. m + n : ~(k <= m) => k - m \in 1 .. n /\ c[k] = u[k - m] /\ c[k] \in Listed(u)
      /\ \A k \in 1 .. n : k + m \in 1 .. m + n /\ c[k + m] = u[k]
  <2>1. \A k \in 1 .. m : c[k] = s[k] /\ c[k] \in Listed(s)
    BY <1>1 DEF Listed
  <2>2. \A k \in 1 .. m + n : ~(k <= m) => k - m \in 1 .. n /\ c[k] = u[k - m]
    BY <1>1
  <2>3. \A k \in 1 .. m + n : ~(k <= m) => c[k] \in Listed(u)
    BY <2>2 DEF Listed
  <2>4. \A k \in 1 .. n : k + m \in m + 1 .. m + n /\ k + m \in 1 .. m + n /\ (k + m) - m = k
    BY <1>1
  <2>5. \A k \in 1 .. n : c[k + m] = u[k]
    BY <1>1, <2>4
  <2>6. QED BY <2>1, <2>2, <2>3, <2>4, <2>5
<1> HIDE DEF c, m, n
<1>3. IsInjective(c)
  <2>1. \A j, k \in 1 .. m : s[j] = s[k] => j = k
    BY <1>1 DEF Good, IsInjective
  <2>2. \A j, k \in 1 .. n : u[j] = u[k] => j = k
    BY <1>1 DEF Good, IsInjective
  <2>3. SUFFICES ASSUME NEW j \in 1 .. m + n, NEW k \in 1 .. m + n, c[j] = c[k]
                 PROVE  j = k
    BY <1>1 DEF IsInjective
  <2>4. CASE j <= m /\ k <= m
    BY <1>1, <1>2, <2>1, <2>3, <2>4
  <2>5. CASE ~(j <= m) /\ ~(k <= m)
    <3>1. j - m = k - m
      BY <1>2, <2>2, <2>3, <2>5
    <3>2. QED BY <1>1, <3>1
  <2>6. CASE (j <= m) # (k <= m)
    <3>1. j <= m => j \in 1 .. m
      BY <1>1
    <3>2. k <= m => k \in 1 .. m
      BY <1>1
    <3>3. QED BY <1>2, <2>3, <2>6, <3>1, <3>2
  <2>7. QED BY <2>4, <2>5, <2>6
<1>4. Guarded(c)
  <2>1. SUFFICES ASSUME NEW j \in 1 .. m + n, c[j] = Irq, NEW r \in Used
                 PROVE  \E k \in 1 .. m + n : j < k /\ c[k] = r
    BY <1>1 DEF Guarded
  <2>2. ~(j <= m)
    <3>1. j <= m => j \in 1 .. m
      BY <1>1
    <3>2. QED BY <1>2, <2>1, <3>1
  <2>3. j - m \in 1 .. n /\ u[j - m] = Irq
    BY <1>2, <2>1, <2>2
  <2>4. PICK k \in 1 .. n : j - m < k /\ u[k] = r
    BY <2>3 DEF Good, Guarded, n
  <2>5. j < k + m
    BY <1>1, <2>4
  <2>6. QED BY <1>2, <2>4, <2>5
<1>5. Listed(c) = Listed(s) \cup Listed(u)
  <2>1. ASSUME NEW r \in Listed(c)
        PROVE  r \in Listed(s) \cup Listed(u)
    <3>1. PICK k \in 1 .. m + n : r = c[k]
      BY <1>1 DEF Listed
    <3>2. k <= m => k \in 1 .. m
      BY <1>1
    <3>3. QED BY <1>2, <3>1, <3>2
  <2>2. ASSUME NEW r \in Listed(s)
        PROVE  r \in Listed(c)
    <3>1. PICK k \in 1 .. m : r = s[k]
      BY DEF Listed, m
    <3>2. k \in 1 .. m + n /\ c[k] = r
      BY <1>1, <1>2, <3>1
    <3>3. QED BY <1>1, <3>2 DEF Listed
  <2>3. ASSUME NEW r \in Listed(u)
        PROVE  r \in Listed(c)
    <3>1. PICK k \in 1 .. n : r = u[k]
      BY DEF Listed, n
    <3>2. QED BY <1>1, <1>2, <3>1 DEF Listed
  <2>4. QED BY <2>1, <2>2, <2>3
<1>6. QED BY <1>1, <1>3, <1>4, <1>5 DEF Good, c

-----------------------------------------------------------------------------
(* The lists the driver's are made of: of the board itself, of a channel,   *)
(* of each of some channels.                                                *)
Tags(S, i) == { <<x, i>> : x \in S }
InEach(S, n) == { <<x, i>> : x \in S, i \in 1 .. n }

\* What a handler's interrupt means for a list of names.
NamesGuarded(names) ==
  \A j \in 1 .. Len(names) : names[j] = "irq" =>
    \A x \in {"sc", "bar0"} : \E k \in 1 .. Len(names) : j < k /\ names[k] = x

LEMMA GoodBoard ==
  ASSUME NEW names \in Seq(Names), IsInjective(names), NamesGuarded(names)
  PROVE  Good(Board(names)) /\ Listed(Board(names)) = Tags(Listed(names), 0)
<1>1. /\ Board(names) \in Seq(Resources) /\ Len(Board(names)) = Len(names)
      /\ Len(names) \in Nat
      /\ DOMAIN names = 1 .. Len(names) /\ DOMAIN Board(names) = 1 .. Len(names)
      /\ \A k \in 1 .. Len(names) : Board(names)[k] = <<names[k], 0>>
  BY DEF Board, Resources
<1>2. IsInjective(Board(names))
  BY <1>1 DEF IsInjective
<1>3. Guarded(Board(names))
  <2>1. SUFFICES ASSUME NEW j \in 1 .. Len(names), names[j] = "irq", NEW r \in Used
                 PROVE  \E k \in 1 .. Len(names) : j < k /\ <<names[k], 0>> = r
    <3>1. SUFFICES ASSUME NEW j \in 1 .. Len(names), Board(names)[j] = Irq, NEW r \in Used
                   PROVE  \E k \in 1 .. Len(names) : j < k /\ Board(names)[k] = r
      <4> DEFINE n == Len(names)
                 b == Board(names)
      <4>1. Len(b) = n
        BY <1>1
      <4> HIDE DEF n, b
      <4>2. SUFFICES Guarded(b)
        BY DEF b
      <4>3. QED BY <4>1 DEF Guarded, n, b
    <3>2. names[j] = "irq"
      BY <1>1, <3>1 DEF Irq
    <3>3. PICK k \in 1 .. Len(names) : j < k /\ <<names[k], 0>> = r
      BY <3>1, <3>2
    <3>4. QED BY <1>1, <3>3
  <2>2. PICK x \in {"sc", "bar0"} : r = <<x, 0>>
    BY DEF Used
  <2>3. PICK k \in 1 .. Len(names) : j < k /\ names[k] = x
    BY <2>1 DEF NamesGuarded
  <2>4. QED BY <2>2, <2>3
<1>4. Listed(Board(names)) = Tags(Listed(names), 0)
  BY <1>1 DEF Listed, Tags
<1>5. QED BY <1>1, <1>2, <1>3, <1>4 DEF Good

LEMMA GoodParts ==
  ASSUME NEW names \in Seq(Names), IsInjective(names), NEW i \in Nat \ {0}
  PROVE  Good(Parts(names, i)) /\ Listed(Parts(names, i)) = Tags(Listed(names), i)
<1>1. /\ Parts(names, i) \in Seq(Resources) /\ Len(Parts(names, i)) = Len(names)
      /\ Len(names) \in Nat
      /\ DOMAIN names = 1 .. Len(names) /\ DOMAIN Parts(names, i) = 1 .. Len(names)
      /\ \A k \in 1 .. Len(names) : Parts(names, i)[k] = <<names[k], i>>
  BY DEF Parts, Resources
<1>2. IsInjective(Parts(names, i))
  BY <1>1 DEF IsInjective
<1>3. Guarded(Parts(names, i))
  BY <1>1 DEF Guarded, Irq
<1>4. Listed(Parts(names, i)) = Tags(Listed(names), i)
  BY <1>1 DEF Listed, Tags
<1>5. QED BY <1>1, <1>2, <1>3, <1>4 DEF Good

\* Where a part of a channel stands among those of all the channels.
LEMMA PartPlace ==
  ASSUME NEW n \in Nat
  PROVE  /\ \A k \in 1 .. 6 * n : /\ ((k - 1) % 6) + 1 \in 1 .. 6
                                  /\ ((k - 1) \div 6) + 1 \in 1 .. n
                                  /\ k = 6 * ((k - 1) \div 6) + ((k - 1) % 6) + 1
         /\ \A q \in 1 .. 6, i \in 1 .. n :
              /\ 6 * (i - 1) + q \in 1 .. 6 * n
              /\ (((6 * (i - 1) + q) - 1) % 6) + 1 = q
              /\ (((6 * (i - 1) + q) - 1) \div 6) + 1 = i
<1>1. ASSUME NEW k \in 1 .. 6 * n
      PROVE  /\ ((k - 1) % 6) + 1 \in 1 .. 6
             /\ ((k - 1) \div 6) + 1 \in 1 .. n
             /\ k = 6 * ((k - 1) \div 6) + ((k - 1) % 6) + 1
  OBVIOUS
<1>2. ASSUME NEW q \in 1 .. 6, NEW i \in 1 .. n
      PROVE  /\ 6 * (i - 1) + q \in 1 .. 6 * n
             /\ (((6 * (i - 1) + q) - 1) % 6) + 1 = q
             /\ (((6 * (i - 1) + q) - 1) \div 6) + 1 = i
  OBVIOUS
<1>3. QED BY <1>1, <1>2

LEMMA GoodEach ==
  ASSUME NEW names \in Seq(Names), IsInjective(names), Len(names) = 6, NEW n \in Nat
  PROVE  /\ Good(EachChannel(names, n))
         /\ Listed(EachChannel(names, n)) = InEach(Listed(names), n)
<1> DEFINE e == EachChannel(names, n)
           nm(k) == ((k - 1) % 6) + 1
           ch(k) == ((k - 1) \div 6) + 1
<1>1. /\ \A k \in 1 .. 6 * n : /\ nm(k) \in 1 .. 6 /\ ch(k) \in 1 .. n
                               /\ k = 6 * (ch(k) - 1) + nm(k)
      /\ \A q \in 1 .. 6, i \in 1 .. n :
           /\ 6 * (i - 1) + q \in 1 .. 6 * n
           /\ nm(6 * (i - 1) + q) = q /\ ch(6 * (i - 1) + q) = i
  <2>1. ASSUME NEW k \in 1 .. 6 * n
        PROVE  nm(k) \in 1 .. 6 /\ ch(k) \in 1 .. n /\ k = 6 * (ch(k) - 1) + nm(k)
    <3>1. nm(k) \in 1 .. 6 /\ ch(k) \in 1 .. n
      BY PartPlace
    <3>2. k = 6 * ((k - 1) \div 6) + ((k - 1) % 6) + 1
      BY PartPlace
    <3>3. QED BY <3>1, <3>2
  <2>2. QED BY <2>1, PartPlace
<1>2. e = [k \in 1 .. 6 * n |-> <<names[nm(k)], ch(k)>>]
  BY DEF EachChannel
<1> HIDE DEF nm, ch, e
<1>3. \A q \in 1 .. 6 : names[q] \in Names
  <2>1. names \in [1 .. Len(names) -> Names]
    BY LenProperties
  <2>2. QED BY <2>1
<1>4. /\ e \in Seq(Resources) /\ Len(e) = 6 * n /\ DOMAIN e = 1 .. 6 * n
      /\ \A k \in 1 .. 6 * n : e[k] = <<names[nm(k)], ch(k)>>
  <2>1. \A k \in 1 .. 6 * n : <<names[nm(k)], ch(k)>> \in Resources
    <3>1. \A k \in 1 .. 6 * n : names[nm(k)] \in Names
      BY <1>1, <1>3
    <3>2. \A i \in 1 .. n : i \in Nat
      OBVIOUS
    <3>3. \A k \in 1 .. 6 * n : ch(k) \in Nat
      BY <1>1, <3>2
    <3>4. QED BY <3>1, <3>3 DEF Resources
  <2>2. 6 * n \in Nat
    OBVIOUS
  <2>3. e \in [1 .. 6 * n -> Resources]
    BY <1>2, <2>1
  <2>4. e \in Seq(Resources) /\ Len(e) = 6 * n
    BY <2>2, <2>3
  <2>5. QED BY <1>2, <2>3, <2>4
<1>5. IsInjective(e)
  <2>1. SUFFICES ASSUME NEW j \in 1 .. 6 * n, NEW k \in 1 .. 6 * n, e[j] = e[k]
                 PROVE  j = k
    BY <1>4 DEF IsInjective
  <2>2. ch(j) = ch(k) /\ names[nm(j)] = names[nm(k)]
    BY <1>4, <2>1
  <2>3. nm(j) = nm(k)
    BY <1>1, <2>2 DEF IsInjective
  <2>4. QED BY <1>1, <2>2, <2>3
<1>6. Guarded(e)
  <2>1. \A k \in 1 .. 6 * n : e[k] # Irq
    BY <1>1, <1>4 DEF Irq
  <2>2. QED BY <1>4, <2>1 DEF Guarded
<1>7. Listed(e) = InEach(Listed(names), n)
  <2>1. ASSUME NEW r \in Listed(e)
        PROVE  r \in InEach(Listed(names), n)
    <3>1. PICK k \in 1 .. 6 * n : r = <<names[nm(k)], ch(k)>>
      BY <1>4 DEF Listed
    <3>2. nm(k) \in 1 .. Len(names) /\ ch(k) \in 1 .. n
      BY <1>1, <3>1
    <3>3. names[nm(k)] \in Listed(names)
      BY <3>2 DEF Listed
    <3>4. QED BY <3>1, <3>2, <3>3 DEF InEach
  <2>2. ASSUME NEW r \in InEach(Listed(names), n)
        PROVE  r \in Listed(e)
    <3>1. PICK q \in 1 .. 6, i \in 1 .. n : r = <<names[q], i>>
      BY DEF Listed, InEach
    <3>2. 6 * (i - 1) + q \in 1 .. 6 * n /\ e[6 * (i - 1) + q] = r
      BY <1>1, <1>4, <3>1
    <3>3. QED BY <1>4, <3>2 DEF Listed
  <2>3. QED BY <2>1, <2>2
<1>8. QED BY <1>4, <1>5, <1>6, <1>7 DEF Good, e

-----------------------------------------------------------------------------
(* The lists of names the driver's are put together from.                   *)
Pci == {"irq", "msi", "bar0", "regions", "device", "sc"}
PartNames == {"recv", "recv_msgs", "recv_buf", "send", "send_msgs", "send_buf"}

Lists(names, S) ==
  /\ names \in Seq(Names) /\ IsInjective(names) /\ NamesGuarded(names)
  /\ Listed(names) = S

LEMMA BoardLists ==
  /\ Lists(<< >>, {})
  /\ Lists(<<"device">>, {"device"})
  /\ Lists(<<"device", "sc">>, {"device", "sc"})
  /\ Lists(<<"regions", "device", "sc">>, {"regions", "device", "sc"})
  /\ Lists(<<"bar0", "regions", "device", "sc">>, {"bar0", "regions", "device", "sc"})
  /\ Lists(<<"msi", "bar0", "regions", "device", "sc">>,
           {"msi", "bar0", "regions", "device", "sc"})
  /\ Lists(<<"irq", "msi", "bar0", "regions", "device", "sc">>,
           {"irq", "msi", "bar0", "regions", "device", "sc"})
  /\ Lists(<<"devctl">>, {"devctl"})
  /\ Lists(<<"lnkctl", "devctl">>, {"lnkctl", "devctl"})
  /\ Lists(<<"recv_array">>, {"recv_array"})
  /\ Lists(<<"send_array">>, {"send_array"})
  /\ Lists(<<"recv_array", "send_array">>, {"recv_array", "send_array"})
  /\ Lists(<<"spill">>, {"spill"})
  /\ Lists(<<"devctl", "lnkctl_from_devctl">>, {"devctl", "lnkctl_from_devctl"})
  /\ Lists(<<"spill", "irq", "bar0", "sc", "msi", "regions", "device">>,
           {"spill", "irq", "bar0", "sc", "msi", "regions", "device"})
<1>1. Lists(<< >>, {})
  BY DEF Lists, Names, IsInjective, NamesGuarded, Listed
<1>2. Lists(<<"device">>, {"device"})
  BY DEF Lists, Names, IsInjective, NamesGuarded, Listed
<1>3. Lists(<<"device", "sc">>, {"device", "sc"})
  BY DEF Lists, Names, IsInjective, NamesGuarded, Listed
<1>4. Lists(<<"regions", "device", "sc">>, {"regions", "device", "sc"})
  <2>1. Len(<<"regions", "device", "sc">>) = 3 /\ DOMAIN <<"regions", "device", "sc">> = 1 .. 3
    OBVIOUS
  <2>2. QED BY <2>1 DEF Lists, Names, IsInjective, NamesGuarded, Listed
<1>5. Lists(<<"bar0", "regions", "device", "sc">>, {"bar0", "regions", "device", "sc"})
  <2>1. Len(<<"bar0", "regions", "device", "sc">>) = 4 /\ DOMAIN <<"bar0", "regions", "device", "sc">> = 1 .. 4
    OBVIOUS
  <2>2. QED BY <2>1 DEF Lists, Names, IsInjective, NamesGuarded, Listed
<1>6. Lists(<<"msi", "bar0", "regions", "device", "sc">>,
            {"msi", "bar0", "regions", "device", "sc"})
  <2>1. Len(<<"msi", "bar0", "regions", "device", "sc">>) = 5 /\ DOMAIN <<"msi", "bar0", "regions", "device", "sc">> = 1 .. 5
    OBVIOUS
  <2>2. QED BY <2>1 DEF Lists, Names, IsInjective, NamesGuarded, Listed
<1>7. Lists(<<"irq", "msi", "bar0", "regions", "device", "sc">>,
            {"irq", "msi", "bar0", "regions", "device", "sc"})
  <2>1. Len(<<"irq", "msi", "bar0", "regions", "device", "sc">>) = 6 /\ DOMAIN <<"irq", "msi", "bar0", "regions", "device", "sc">> = 1 .. 6
    OBVIOUS
  <2>2. QED BY <2>1 DEF Lists, Names, IsInjective, NamesGuarded, Listed
<1>8. Lists(<<"devctl">>, {"devctl"})
  BY DEF Lists, Names, IsInjective, NamesGuarded, Listed
<1>9. Lists(<<"lnkctl", "devctl">>, {"lnkctl", "devctl"})
  BY DEF Lists, Names, IsInjective, NamesGuarded, Listed
<1>10. Lists(<<"recv_array">>, {"recv_array"})
  BY DEF Lists, Names, IsInjective, NamesGuarded, Listed
<1>11. Lists(<<"send_array">>, {"send_array"})
  BY DEF Lists, Names, IsInjective, NamesGuarded, Listed
<1>12. Lists(<<"recv_array", "send_array">>, {"recv_array", "send_array"})
  BY DEF Lists, Names, IsInjective, NamesGuarded, Listed
<1>13. Lists(<<"spill">>, {"spill"})
  BY DEF Lists, Names, IsInjective, NamesGuarded, Listed
<1>14. Lists(<<"devctl", "lnkctl_from_devctl">>, {"devctl", "lnkctl_from_devctl"})
  BY DEF Lists, Names, IsInjective, NamesGuarded, Listed
<1>15. Lists(<<"spill", "irq", "bar0", "sc", "msi", "regions", "device">>,
            {"spill", "irq", "bar0", "sc", "msi", "regions", "device"})
  <2>1. Len(<<"spill", "irq", "bar0", "sc", "msi", "regions", "device">>) = 7 /\ DOMAIN <<"spill", "irq", "bar0", "sc", "msi", "regions", "device">> = 1 .. 7
    OBVIOUS
  <2>2. QED BY <2>1 DEF Lists, Names, IsInjective, NamesGuarded, Listed
<1>16. QED BY <1>1, <1>2, <1>3, <1>4, <1>5, <1>6, <1>7, <1>8, <1>9, <1>10, <1>11, <1>12, <1>13, <1>14, <1>15

LEMMA PartLists ==
  /\ Lists(<<"recv">>, {"recv"})
  /\ Lists(<<"recv_msgs", "recv">>, {"recv_msgs", "recv"})
  /\ Lists(<<"recv_buf", "recv_msgs", "recv">>, {"recv_buf", "recv_msgs", "recv"})
  /\ Lists(<<"send", "recv_buf", "recv_msgs", "recv">>,
           {"send", "recv_buf", "recv_msgs", "recv"})
  /\ Lists(<<"send_msgs", "send", "recv_buf", "recv_msgs", "recv">>,
           {"send_msgs", "send", "recv_buf", "recv_msgs", "recv"})
  /\ Lists(<<"recv", "recv_msgs", "recv_buf", "send", "send_msgs", "send_buf">>,
           {"recv", "recv_msgs", "recv_buf", "send", "send_msgs", "send_buf"})
  /\ Lists(<<"send_buf", "recv_buf", "send_msgs", "recv_msgs", "send", "recv">>,
           {"send_buf", "recv_buf", "send_msgs", "recv_msgs", "send", "recv"})
<1>1. Lists(<<"recv">>, {"recv"})
  BY DEF Lists, Names, IsInjective, NamesGuarded, Listed
<1>2. Lists(<<"recv_msgs", "recv">>, {"recv_msgs", "recv"})
  BY DEF Lists, Names, IsInjective, NamesGuarded, Listed
<1>3. Lists(<<"recv_buf", "recv_msgs", "recv">>, {"recv_buf", "recv_msgs", "recv"})
  <2>1. Len(<<"recv_buf", "recv_msgs", "recv">>) = 3 /\ DOMAIN <<"recv_buf", "recv_msgs", "recv">> = 1 .. 3
    OBVIOUS
  <2>2. QED BY <2>1 DEF Lists, Names, IsInjective, NamesGuarded, Listed
<1>4. Lists(<<"send", "recv_buf", "recv_msgs", "recv">>,
            {"send", "recv_buf", "recv_msgs", "recv"})
  <2>1. Len(<<"send", "recv_buf", "recv_msgs", "recv">>) = 4 /\ DOMAIN <<"send", "recv_buf", "recv_msgs", "recv">> = 1 .. 4
    OBVIOUS
  <2>2. QED BY <2>1 DEF Lists, Names, IsInjective, NamesGuarded, Listed
<1>5. Lists(<<"send_msgs", "send", "recv_buf", "recv_msgs", "recv">>,
            {"send_msgs", "send", "recv_buf", "recv_msgs", "recv"})
  <2>1. Len(<<"send_msgs", "send", "recv_buf", "recv_msgs", "recv">>) = 5 /\ DOMAIN <<"send_msgs", "send", "recv_buf", "recv_msgs", "recv">> = 1 .. 5
    OBVIOUS
  <2>2. QED BY <2>1 DEF Lists, Names, IsInjective, NamesGuarded, Listed
<1>6. Lists(<<"recv", "recv_msgs", "recv_buf", "send", "send_msgs", "send_buf">>,
            {"recv", "recv_msgs", "recv_buf", "send", "send_msgs", "send_buf"})
  <2>1. Len(<<"recv", "recv_msgs", "recv_buf", "send", "send_msgs", "send_buf">>) = 6 /\ DOMAIN <<"recv", "recv_msgs", "recv_buf", "send", "send_msgs", "send_buf">> = 1 .. 6
    OBVIOUS
  <2>2. QED BY <2>1 DEF Lists, Names, IsInjective, NamesGuarded, Listed
<1>7. Lists(<<"send_buf", "recv_buf", "send_msgs", "recv_msgs", "send", "recv">>,
            {"send_buf", "recv_buf", "send_msgs", "recv_msgs", "send", "recv"})
  <2>1. Len(<<"send_buf", "recv_buf", "send_msgs", "recv_msgs", "send", "recv">>) = 6 /\ DOMAIN <<"send_buf", "recv_buf", "send_msgs", "recv_msgs", "send", "recv">> = 1 .. 6
    OBVIOUS
  <2>2. QED BY <2>1 DEF Lists, Names, IsInjective, NamesGuarded, Listed
<1>8. QED BY <1>1, <1>2, <1>3, <1>4, <1>5, <1>6, <1>7

-----------------------------------------------------------------------------
(* What each of the driver's lists gives back.                              *)
Gives(s, R) == Good(s) /\ Listed(s) = R

LEMMA GivesBoard ==
  ASSUME NEW names, NEW S, Lists(names, S)
  PROVE  Gives(Board(names), Tags(S, 0))
BY GoodBoard DEF Lists, Gives

LEMMA GivesParts ==
  ASSUME NEW names, NEW S, Lists(names, S), NEW i \in Nat \ {0}
  PROVE  Gives(Parts(names, i), Tags(S, i))
BY GoodParts DEF Lists, Gives

LEMMA GivesConcat ==
  ASSUME NEW s, NEW R, NEW u, NEW Q, Gives(s, R), Gives(u, Q), R \cap Q = {}, Irq \notin R
  PROVE  Gives(s \o u, R \cup Q)
BY GoodConcat DEF Gives

\* Most of the lists are four of them after another.
LEMMA GivesFour ==
  ASSUME NEW a, NEW A, NEW b, NEW B, NEW c, NEW C, NEW d, NEW D,
         Gives(a, A), Gives(b, B), Gives(c, C), Gives(d, D),
         A \cap B = {}, A \cap C = {}, B \cap C = {},
         A \cap D = {}, B \cap D = {}, C \cap D = {},
         Irq \notin A, Irq \notin B, Irq \notin C
  PROVE  Gives(((a \o b) \o c) \o d, ((A \cup B) \cup C) \cup D)
<1>1. Gives(a \o b, A \cup B)
  BY GivesConcat
<1>2. Gives((a \o b) \o c, (A \cup B) \cup C)
  <2>1. (A \cup B) \cap C = {} /\ Irq \notin A \cup B
    OBVIOUS
  <2>2. QED BY <1>1, <2>1, GivesConcat
<1>3. ((A \cup B) \cup C) \cap D = {} /\ Irq \notin (A \cup B) \cup C
  OBVIOUS
<1>4. QED BY <1>2, <1>3, GivesConcat

\* Things of different channels, or of different names, are different things.
LEMMA TagsApart ==
  /\ \A S, T, i : S \cap T = {} => Tags(S, i) \cap Tags(T, i) = {}
  /\ \A S, T, i, j : i # j => Tags(S, i) \cap Tags(T, j) = {}
  /\ \A S, T, i : \A n \in Nat : i \notin 1 .. n => Tags(S, i) \cap InEach(T, n) = {}
  /\ \A S, i : i # 0 => Irq \notin Tags(S, i)
  /\ \A S : "irq" \notin S => Irq \notin Tags(S, 0)
  /\ \A S : \A n \in Nat : Irq \notin InEach(S, n)
<1>1. \A S, T, i : S \cap T = {} => Tags(S, i) \cap Tags(T, i) = {}
  BY DEF Tags
<1>2. \A S, T, i, j : i # j => Tags(S, i) \cap Tags(T, j) = {}
  BY DEF Tags
<1>3. \A S, T, i : \A n \in Nat : i \notin 1 .. n => Tags(S, i) \cap InEach(T, n) = {}
  BY DEF Tags, InEach
<1>4. \A S, i : i # 0 => Irq \notin Tags(S, i)
  BY DEF Tags, Irq
<1>5. \A S : "irq" \notin S => Irq \notin Tags(S, 0)
  BY DEF Tags, Irq
<1>6. \A S : \A n \in Nat : Irq \notin InEach(S, n)
  BY DEF InEach, Irq
<1>7. QED BY <1>1, <1>2, <1>3, <1>4, <1>5, <1>6

BothArrays == {"recv_array", "send_array"}
Controls == {"lnkctl", "devctl"}

LEMMA GivesEach ==
  ASSUME NEW n \in Nat
  PROVE  /\ Gives(ChannelsUndo(n), InEach(PartNames, n))
         /\ Good(Channels(n)) /\ Listed(Channels(n)) = InEach(PartNames, n)
<1> DEFINE a == <<"send_buf", "recv_buf", "send_msgs", "recv_msgs", "send", "recv">>
           b == <<"recv", "recv_msgs", "recv_buf", "send", "send_msgs", "send_buf">>
<1>1. Len(a) = 6 /\ Len(b) = 6
  OBVIOUS
<1>2. /\ Lists(a, {"send_buf", "recv_buf", "send_msgs", "recv_msgs", "send", "recv"})
      /\ Lists(b, {"recv", "recv_msgs", "recv_buf", "send", "send_msgs", "send_buf"})
  BY PartLists
<1>3. Lists(a, PartNames) /\ Lists(b, PartNames)
  BY <1>2 DEF PartNames
<1>4. ChannelsUndo(n) = EachChannel(a, n) /\ Channels(n) = EachChannel(b, n)
  BY DEF ChannelsUndo, Channels
<1> HIDE DEF a, b
<1>5. QED BY <1>1, <1>3, <1>4, GoodEach DEF Lists, Gives

LEMMA GivesPci ==
  /\ Gives(Board(PciUndo), Tags(Pci, 0))
  /\ Gives(Arrays, Tags(BothArrays, 0))
  /\ Gives(BothAndPciUndo, Tags(Controls, 0) \cup Tags(Pci, 0))
<1>1. Gives(Board(PciUndo), Tags(Pci, 0))
  <2>1. Lists(PciUndo, Pci)
    BY BoardLists DEF PciUndo, Pci
  <2>2. QED BY <2>1, GivesBoard
<1>2. Gives(Arrays, Tags(BothArrays, 0))
  <2>1. Lists(<<"recv_array", "send_array">>, BothArrays)
    BY BoardLists DEF BothArrays
  <2>2. QED BY <2>1, GivesBoard DEF Arrays
<1>3. Gives(BothAndPciUndo, Tags(Controls, 0) \cup Tags(Pci, 0))
  <2>1. Lists(<<"lnkctl", "devctl">>, Controls)
    BY BoardLists DEF Controls
  <2>2. Gives(Board(<<"lnkctl", "devctl">>), Tags(Controls, 0))
    BY <2>1, GivesBoard
  <2>3. Tags(Controls, 0) \cap Tags(Pci, 0) = {}
    <3>1. Controls \cap Pci = {}
      BY DEF Controls, Pci
    <3>2. QED BY <3>1, TagsApart
  <2>4. Irq \notin Tags(Controls, 0)
    <3>1. "irq" \notin Controls
      BY DEF Controls
    <3>2. QED BY <3>1, TagsApart
  <2>5. QED BY <1>1, <2>2, <2>3, <2>4, GivesConcat DEF BothAndPciUndo
<1>4. QED BY <1>1, <1>2, <1>3

\* The parts of a channel that are there when the q-th is asked for.
PartOrder == <<"recv", "recv_msgs", "recv_buf", "send", "send_msgs", "send_buf">>
Earlier(q) == { PartOrder[x] : x \in 1 .. q - 1 }

LEMMA EarlierParts ==
  /\ Earlier(1) = {} /\ Earlier(2) = {"recv"} /\ Earlier(3) = {"recv", "recv_msgs"}
  /\ Earlier(4) = {"recv", "recv_msgs", "recv_buf"}
  /\ Earlier(5) = {"recv", "recv_msgs", "recv_buf", "send"}
  /\ Earlier(6) = {"recv", "recv_msgs", "recv_buf", "send", "send_msgs"}
<1>1. Earlier(1) = {} /\ Earlier(2) = {"recv"} /\ Earlier(3) = {"recv", "recv_msgs"}
  BY DEF Earlier, PartOrder
<1>2. Earlier(4) = {"recv", "recv_msgs", "recv_buf"}
  BY DEF Earlier, PartOrder
<1>3. Earlier(5) = {"recv", "recv_msgs", "recv_buf", "send"}
  BY DEF Earlier, PartOrder
<1>4. Earlier(6) = {"recv", "recv_msgs", "recv_buf", "send", "send_msgs"}
  BY DEF Earlier, PartOrder
<1>5. QED BY <1>1, <1>2, <1>3, <1>4

LEMMA GivesPart ==
  ASSUME NEW q \in 1 .. 6, NEW i \in Nat \ {0}
  PROVE  Gives(PartUndo(PartOrder[q], i), Tags(Earlier(q), i))
<1>1. CASE q = 1
  <2>1. PartUndo(PartOrder[q], i) = Parts(<< >>, i)
    BY <1>1 DEF PartOrder, PartUndo
  <2>2. Lists(<< >>, Earlier(q))
    BY <1>1, BoardLists, EarlierParts
  <2>3. QED BY <2>1, <2>2, GivesParts
<1>2. CASE q = 2
  <2>1. PartUndo(PartOrder[q], i) = Parts(<<"recv">>, i)
    BY <1>2 DEF PartOrder, PartUndo
  <2>2. Lists(<<"recv">>, Earlier(q))
    BY <1>2, PartLists, EarlierParts
  <2>3. QED BY <2>1, <2>2, GivesParts
<1>3. CASE q = 3
  <2>1. PartUndo(PartOrder[q], i) = Parts(<<"recv_msgs", "recv">>, i)
    BY <1>3 DEF PartOrder, PartUndo
  <2>2. Lists(<<"recv_msgs", "recv">>, {"recv_msgs", "recv"})
    BY PartLists
  <2>3. Earlier(q) = {"recv_msgs", "recv"}
    BY <1>3, EarlierParts
  <2>4. QED BY <2>1, <2>2, <2>3, GivesParts
<1>4. CASE q = 4
  <2>1. PartUndo(PartOrder[q], i) = Parts(<<"recv_buf", "recv_msgs", "recv">>, i)
    BY <1>4 DEF PartOrder, PartUndo
  <2>2. Lists(<<"recv_buf", "recv_msgs", "recv">>, {"recv_buf", "recv_msgs", "recv"})
    BY PartLists
  <2>3. Earlier(q) = {"recv_buf", "recv_msgs", "recv"}
    BY <1>4, EarlierParts
  <2>4. QED BY <2>1, <2>2, <2>3, GivesParts
<1>5. CASE q = 5
  <2>1. PartUndo(PartOrder[q], i) = Parts(<<"send", "recv_buf", "recv_msgs", "recv">>, i)
    BY <1>5 DEF PartOrder, PartUndo
  <2>2. Lists(<<"send", "recv_buf", "recv_msgs", "recv">>,
              {"send", "recv_buf", "recv_msgs", "recv"})
    BY PartLists
  <2>3. Earlier(q) = {"send", "recv_buf", "recv_msgs", "recv"}
    BY <1>5, EarlierParts
  <2>4. QED BY <2>1, <2>2, <2>3, GivesParts
<1>6. CASE q = 6
  <2>1. PartUndo(PartOrder[q], i)
          = Parts(<<"send_msgs", "send", "recv_buf", "recv_msgs", "recv">>, i)
    BY <1>6 DEF PartOrder, PartUndo
  <2>2. Lists(<<"send_msgs", "send", "recv_buf", "recv_msgs", "recv">>,
              {"send_msgs", "send", "recv_buf", "recv_msgs", "recv"})
    BY PartLists
  <2>3. Earlier(q) = {"send_msgs", "send", "recv_buf", "recv_msgs", "recv"}
    BY <1>6, EarlierParts
  <2>4. QED BY <2>1, <2>2, <2>3, GivesParts
<1>7. QED BY <1>1, <1>2, <1>3, <1>4, <1>5, <1>6

LEMMA GivesChannel ==
  ASSUME NEW q \in 1 .. 6, NEW i \in Nat \ {0}
  PROVE  Gives(ChannelFailure(PartOrder[q], i),
               ((Tags(Earlier(q), i) \cup InEach(PartNames, i - 1)) \cup Tags(BothArrays, 0))
                 \cup (Tags(Controls, 0) \cup Tags(Pci, 0)))
<1> DEFINE own == Tags(Earlier(q), i)
           before == InEach(PartNames, i - 1)
           arrays == Tags(BothArrays, 0)
           both == Tags(Controls, 0) \cup Tags(Pci, 0)
           parts == PartUndo(PartOrder[q], i)
           channels == ChannelsUndo(i - 1)
<1>1. i - 1 \in Nat /\ i \notin 1 .. i - 1 /\ 0 \notin 1 .. i - 1 /\ i # 0
  OBVIOUS
<1>2. Gives(parts, own) /\ Gives(channels, before) /\ Gives(Arrays, arrays)
      /\ Gives(BothAndPciUndo, both)
  BY <1>1, GivesPart, GivesEach, GivesPci
<1>3. own \cap before = {} /\ Irq \notin own /\ Irq \notin before
  BY <1>1, TagsApart
<1>4. own \cap arrays = {} /\ before \cap arrays = {} /\ Irq \notin arrays
  <2>1. "irq" \notin BothArrays
    BY DEF BothArrays
  <2>2. Irq \notin arrays
    BY <2>1, TagsApart
  <2>3. own \cap arrays = {}
    BY <1>1, TagsApart
  <2>4. arrays \cap before = {}
    BY <1>1, TagsApart
  <2>5. QED BY <2>2, <2>3, <2>4
<1>5. own \cap both = {} /\ before \cap both = {} /\ arrays \cap both = {}
  <2>1. Controls \cap BothArrays = {} /\ Pci \cap BothArrays = {}
    BY DEF Controls, BothArrays, Pci
  <2>2. Tags(Controls, 0) \cap arrays = {} /\ Tags(Pci, 0) \cap arrays = {}
    BY <2>1, TagsApart
  <2>3. Tags(Controls, 0) \cap before = {} /\ Tags(Pci, 0) \cap before = {}
    BY <1>1, TagsApart
  <2>4. Tags(Controls, 0) \cap own = {} /\ Tags(Pci, 0) \cap own = {}
    BY <1>1, TagsApart
  <2>5. QED BY <2>2, <2>3, <2>4
<1>6. ChannelFailure(PartOrder[q], i) = ((parts \o channels) \o Arrays) \o BothAndPciUndo
  BY DEF ChannelFailure
<1> HIDE DEF own, before, arrays, both, parts, channels
<1>7. Gives(((parts \o channels) \o Arrays) \o BothAndPciUndo,
            ((own \cup before) \cup arrays) \cup both)
  BY <1>2, <1>3, <1>4, <1>5, GivesFour
<1>8. QED BY <1>6, <1>7 DEF own, before, arrays, both

\* What is only set back is nothing that was acquired.
LEMMA WithoutSettings ==
  /\ Settings = Tags({"devctl", "lnkctl", "lnkctl_from_devctl"}, 0)
  /\ Tags(Pci, 0) \ Settings = Tags(Pci, 0)
  /\ Tags(BothArrays, 0) \ Settings = Tags(BothArrays, 0)
  /\ Tags({"spill"}, 0) \ Settings = Tags({"spill"}, 0)
  /\ Tags(Controls, 0) \ Settings = {}
  /\ \A S : \A i \in Nat \ {0} : Tags(S, i) \ Settings = Tags(S, i)
  /\ \A S : \A n \in Nat : InEach(S, n) \ Settings = InEach(S, n)
<1>1. Settings = Tags({"devctl", "lnkctl", "lnkctl_from_devctl"}, 0)
  BY DEF Settings, Tags
<1>2. Tags(Pci, 0) \ Settings = Tags(Pci, 0)
  BY DEF Settings, Tags, Pci
<1>3. Tags(BothArrays, 0) \ Settings = Tags(BothArrays, 0)
  BY DEF Settings, Tags, BothArrays
<1>4. Tags({"spill"}, 0) \ Settings = Tags({"spill"}, 0)
  BY DEF Settings, Tags
<1>5. Tags(Controls, 0) \ Settings = {}
  BY DEF Settings, Tags, Controls
<1>6. \A S : \A i \in Nat \ {0} : Tags(S, i) \ Settings = Tags(S, i)
  BY DEF Settings, Tags
<1>7. \A S : \A n \in Nat : InEach(S, n) \ Settings = InEach(S, n)
  BY DEF Settings, InEach
<1>8. QED BY <1>1, <1>2, <1>3, <1>4, <1>5, <1>6, <1>7

\* What a board holds when all of its channels are there, and then everything.
BeforeSpill ==
  (Tags(Pci, 0) \cup Tags(BothArrays, 0)) \cup InEach(PartNames, NumChnls)
Complete == BeforeSpill \cup Tags({"spill"}, 0)

\* A list that gives back H and sets registers back, the interrupt before the rest.
Returns(s, H) == Good(s) /\ Listed(s) \ Settings = H

\* Nothing of these is of two kinds, and only the device's own has the interrupt.
LEMMA KindsApart ==
  ASSUME NEW n \in Nat
  PROVE  /\ InEach(PartNames, n) \cap Tags(Pci, 0) = {}
         /\ InEach(PartNames, n) \cap Tags(BothArrays, 0) = {}
         /\ InEach(PartNames, n) \cap Tags(Controls, 0) = {}
         /\ InEach(PartNames, n) \cap Tags({"spill"}, 0) = {}
         /\ Tags(BothArrays, 0) \cap Tags(Pci, 0) = {}
         /\ Tags(BothArrays, 0) \cap Tags(Controls, 0) = {}
         /\ Tags(BothArrays, 0) \cap Tags({"spill"}, 0) = {}
         /\ Tags(Controls, 0) \cap Tags(Pci, 0) = {}
         /\ Tags(Controls, 0) \cap Tags({"spill"}, 0) = {}
         /\ Tags({"spill"}, 0) \cap Tags(Pci, 0) = {}
         /\ Irq \notin InEach(PartNames, n) /\ Irq \notin Tags(BothArrays, 0)
         /\ Irq \notin Tags(Controls, 0) /\ Irq \notin Tags({"spill"}, 0)
<1>1. 0 \notin 1 .. n
  OBVIOUS
<1>2. /\ Tags(Pci, 0) \cap InEach(PartNames, n) = {}
      /\ Tags(BothArrays, 0) \cap InEach(PartNames, n) = {}
      /\ Tags(Controls, 0) \cap InEach(PartNames, n) = {}
      /\ Tags({"spill"}, 0) \cap InEach(PartNames, n) = {}
  BY <1>1, TagsApart
<1>3. /\ Tags(BothArrays, 0) \cap Tags(Pci, 0) = {}
      /\ Tags(BothArrays, 0) \cap Tags(Controls, 0) = {}
      /\ Tags(BothArrays, 0) \cap Tags({"spill"}, 0) = {}
      /\ Tags(Controls, 0) \cap Tags(Pci, 0) = {}
      /\ Tags(Controls, 0) \cap Tags({"spill"}, 0) = {}
      /\ Tags({"spill"}, 0) \cap Tags(Pci, 0) = {}
  <2>1. /\ BothArrays \cap Pci = {} /\ BothArrays \cap Controls = {}
        /\ BothArrays \cap {"spill"} = {} /\ Controls \cap Pci = {}
        /\ Controls \cap {"spill"} = {} /\ {"spill"} \cap Pci = {}
    BY DEF BothArrays, Controls, Pci
  <2>2. QED BY <2>1, TagsApart
<1>4. /\ Irq \notin Tags(BothArrays, 0)
      /\ Irq \notin Tags(Controls, 0) /\ Irq \notin Tags({"spill"}, 0)
  <2>1. "irq" \notin BothArrays /\ "irq" \notin Controls /\ "irq" \notin {"spill"}
    BY DEF BothArrays, Controls
  <2>2. QED BY <2>1, TagsApart
<1>5. Irq \notin InEach(PartNames, n)
  BY TagsApart
<1>6. QED BY <1>2, <1>3, <1>4, <1>5

LEMMA ReturnsSpill == Returns(SpillFailure, BeforeSpill)
<1> DEFINE e == InEach(PartNames, NumChnls)
           c == Tags(Controls, 0)
           a == Tags(BothArrays, 0)
           p == Tags(Pci, 0)
           controls == Board(<<"lnkctl", "devctl">>)
<1>1. NumChnls \in Nat
  BY ProbeAssumption
<1>2. Gives(controls, c)
  <2>1. Lists(<<"lnkctl", "devctl">>, Controls)
    BY BoardLists DEF Controls
  <2>2. QED BY <2>1, GivesBoard
<1>3. /\ Gives(ChannelsUndo(NumChnls), e) /\ Gives(Arrays, a)
      /\ Gives(Board(PciUndo), p)
  BY <1>1, GivesEach, GivesPci
<1>4. /\ e \cap c = {} /\ e \cap a = {} /\ c \cap a = {} /\ e \cap p = {}
      /\ c \cap p = {} /\ a \cap p = {} /\ Irq \notin e /\ Irq \notin c /\ Irq \notin a
  BY <1>1, KindsApart
<1>5. e \ Settings = e /\ c \ Settings = {} /\ a \ Settings = a /\ p \ Settings = p
  BY <1>1, WithoutSettings
<1>6. SpillFailure = ((ChannelsUndo(NumChnls) \o controls) \o Arrays) \o Board(PciUndo)
  BY DEF SpillFailure
<1>7. BeforeSpill = (p \cup a) \cup e
  BY DEF BeforeSpill
<1> HIDE DEF e, c, a, p, controls
<1>8. Gives(SpillFailure, ((e \cup c) \cup a) \cup p)
  BY <1>2, <1>3, <1>4, <1>6, GivesFour
<1>9. (((e \cup c) \cup a) \cup p) \ Settings = (p \cup a) \cup e
  BY <1>5
<1>10. QED BY <1>7, <1>8, <1>9 DEF Gives, Returns

LEMMA ReturnsSlot == Returns(SlotFailure, Complete)
<1> DEFINE e == InEach(PartNames, NumChnls)
           s == Tags({"spill"}, 0)
           a == Tags(BothArrays, 0)
           c == Tags(Controls, 0)
           p == Tags(Pci, 0)
           spill == Board(<<"spill">>)
<1>1. NumChnls \in Nat
  BY ProbeAssumption
<1>2. Gives(spill, s)
  BY BoardLists, GivesBoard
<1>3. /\ Gives(ChannelsUndo(NumChnls), e) /\ Gives(Arrays, a)
      /\ Gives(BothAndPciUndo, c \cup p)
  BY <1>1, GivesEach, GivesPci
<1>4. /\ e \cap a = {} /\ e \cap s = {} /\ a \cap s = {} /\ e \cap p = {} /\ e \cap c = {}
      /\ a \cap p = {} /\ a \cap c = {} /\ s \cap p = {} /\ c \cap s = {}
      /\ Irq \notin e /\ Irq \notin a /\ Irq \notin s
  BY <1>1, KindsApart
<1>5. /\ e \ Settings = e /\ c \ Settings = {} /\ a \ Settings = a
      /\ p \ Settings = p /\ s \ Settings = s
  BY <1>1, WithoutSettings
<1>6. SlotFailure = ((ChannelsUndo(NumChnls) \o Arrays) \o spill) \o BothAndPciUndo
  BY DEF SlotFailure
<1>7. Complete = ((p \cup a) \cup e) \cup s
  BY DEF BeforeSpill, Complete
<1> HIDE DEF e, c, a, p, s, spill
<1>8. Gives(SlotFailure, ((e \cup a) \cup s) \cup (c \cup p))
  <2>1. e \cap (c \cup p) = {} /\ a \cap (c \cup p) = {} /\ s \cap (c \cup p) = {}
    BY <1>4
  <2>2. QED BY <1>2, <1>3, <1>4, <1>6, <2>1, GivesFour
<1>9. (((e \cup a) \cup s) \cup (c \cup p)) \ Settings = ((p \cup a) \cup e) \cup s
  BY <1>5
<1>10. QED BY <1>7, <1>8, <1>9 DEF Gives, Returns

LEMMA ReturnsRemove == Returns(RemoveUndo, Complete)
<1> DEFINE e == InEach(PartNames, NumChnls)
           back == {"devctl", "lnkctl_from_devctl"}
           all == {"spill", "irq", "bar0", "sc", "msi", "regions", "device"}
           b == Tags(back, 0)
           a == Tags(BothArrays, 0)
           l == Tags(all, 0)
           first == Board(<<"devctl", "lnkctl_from_devctl">>)
           last == Board(<<"spill", "irq", "bar0", "sc", "msi", "regions", "device">>)
<1>1. NumChnls \in Nat
  BY ProbeAssumption
<1>2. Gives(first, b) /\ Gives(last, l)
  <2>1. Lists(<<"devctl", "lnkctl_from_devctl">>, back)
    BY BoardLists
  <2>2. Lists(<<"spill", "irq", "bar0", "sc", "msi", "regions", "device">>, all)
    BY BoardLists
  <2>3. QED BY <2>1, <2>2, GivesBoard
<1>3. Gives(ChannelsUndo(NumChnls), e) /\ Gives(Arrays, a)
  BY <1>1, GivesEach, GivesPci
<1>4. b \cap e = {} /\ e \cap l = {}
  <2>1. 0 \notin 1 .. NumChnls
    BY <1>1
  <2>2. b \cap e = {} /\ l \cap e = {}
    BY <1>1, <2>1, TagsApart
  <2>3. QED BY <2>2
<1>5. b \cap a = {} /\ b \cap l = {} /\ a \cap l = {}
  <2>1. back \cap BothArrays = {} /\ back \cap all = {} /\ BothArrays \cap all = {}
    BY DEF BothArrays
  <2>2. QED BY <2>1, TagsApart
<1>6. e \cap a = {} /\ Irq \notin e /\ Irq \notin a /\ Irq \notin b
  <2>1. "irq" \notin back
    OBVIOUS
  <2>2. Irq \notin b
    BY <2>1, TagsApart
  <2>3. QED BY <1>1, <2>2, KindsApart
<1>7. e \ Settings = e /\ a \ Settings = a /\ b \ Settings = {} /\ l \ Settings = l
  <2>1. b \ Settings = {} /\ l \ Settings = l
    BY DEF Settings, Tags
  <2>2. QED BY <1>1, <2>1, WithoutSettings
<1>8. Complete = ((Tags(Pci, 0) \cup a) \cup e) \cup Tags({"spill"}, 0)
  BY DEF BeforeSpill, Complete
<1>9. l = Tags(Pci, 0) \cup Tags({"spill"}, 0)
  BY DEF Pci, Tags
<1>10. RemoveUndo = ((first \o ChannelsUndo(NumChnls)) \o Arrays) \o last
  BY DEF RemoveUndo
<1> HIDE DEF e, b, a, l, first, last
<1>11. Gives(RemoveUndo, ((b \cup e) \cup a) \cup l)
  BY <1>2, <1>3, <1>4, <1>5, <1>6, <1>10, GivesFour
<1>12. (((b \cup e) \cup a) \cup l) \ Settings
         = ((Tags(Pci, 0) \cup a) \cup e) \cup Tags({"spill"}, 0)
  BY <1>7, <1>9
<1>13. QED BY <1>8, <1>11, <1>12 DEF Gives, Returns

-----------------------------------------------------------------------------
(* What a board holds at each of the acquisitions: the first fifteen are    *)
(* its own, then come the parts of its channels, the spill buffer and its   *)
(* place in the table.                                                      *)
HeldAt(k) == { Acquisitions[j] : j \in 1 .. k - 1 } \ Checks

BoardOrder ==
  <<"device", "mask", "sc", "regions", "bar0_length", "bar0", "msi", "irq",
    "read_devctl", "write_devctl", "read_lnkctl", "write_lnkctl",
    "info", "recv_array", "send_array">>

LEMMA Places ==
  /\ Acquisitions \in Seq(Resources) /\ Len(Acquisitions) = 17 + 6 * NumChnls
  /\ \A k \in 1 .. 15 : Acquisitions[k] = <<BoardOrder[k], 0>>
  /\ \A j \in 1 .. 6 * NumChnls :
       /\ Acquisitions[15 + j] = Channels(NumChnls)[j]
       /\ Channels(NumChnls)[j] = <<PartOrder[((j - 1) % 6) + 1], ((j - 1) \div 6) + 1>>
  /\ Acquisitions[16 + 6 * NumChnls] = <<"spill", 0>>
  /\ Acquisitions[17 + 6 * NumChnls] = <<"slot", 0>>
<1> DEFINE n == 6 * NumChnls
           a == Board(BoardOrder)
           b == Channels(NumChnls)
           c == Board(<<"spill", "slot">>)
           all == (a \o b) \o c
<1>1. NumChnls \in Nat /\ n \in Nat
  BY ProbeAssumption
<1>2. /\ a \in Seq(Resources) /\ Len(a) = 15
      /\ \A k \in 1 .. 15 : a[k] = <<BoardOrder[k], 0>>
  <2>1. Len(BoardOrder) = 15
    BY DEF BoardOrder
  <2>2. BoardOrder \in Seq(Names)
    BY DEF BoardOrder, Names
  <2>3. \A k \in 1 .. 15 : BoardOrder[k] \in Names
    BY <2>1, <2>2, ElementOfSeq
  <2>4. \A k \in 1 .. 15 : <<BoardOrder[k], 0>> \in Resources
    BY <2>3 DEF Resources
  <2>5. a = [k \in 1 .. 15 |-> <<BoardOrder[k], 0>>]
    BY <2>1 DEF Board
  <2>6. QED BY <2>4, <2>5
<1>3. /\ b \in Seq(Resources) /\ Len(b) = n
      /\ \A j \in 1 .. n : b[j] = <<PartOrder[((j - 1) % 6) + 1], ((j - 1) \div 6) + 1>>
  <2>1. b \in Seq(Resources)
    BY <1>1, GivesEach DEF Good
  <2>2. b = [k \in 1 .. n |-> <<PartOrder[((k - 1) % 6) + 1], ((k - 1) \div 6) + 1>>]
    BY DEF Channels, EachChannel, PartOrder
  <2>3. DOMAIN b = 1 .. n /\ Len(b) \in Nat /\ DOMAIN b = 1 .. Len(b)
    BY <2>1, <2>2, LenProperties
  <2>4. Len(b) = n
    <3> HIDE DEF b, n
    <3>1. QED BY <1>1, <2>3
  <2>5. \A j \in 1 .. n : b[j] = <<PartOrder[((j - 1) % 6) + 1], ((j - 1) \div 6) + 1>>
    BY <2>2
  <2>6. QED BY <2>1, <2>4, <2>5
<1>4. c \in Seq(Resources) /\ Len(c) = 2 /\ c[1] = <<"spill", 0>> /\ c[2] = <<"slot", 0>>
  <2>1. c = [k \in 1 .. 2 |-> <<(<<"spill", "slot">>)[k], 0>>]
    BY DEF Board
  <2>2. <<"spill", 0>> \in Resources /\ <<"slot", 0>> \in Resources
    BY DEF Resources, Names
  <2>3. c[1] = <<"spill", 0>> /\ c[2] = <<"slot", 0>>
    BY <2>1
  <2>4. c \in [1 .. 2 -> Resources]
    <3>1. \A k \in 1 .. 2 : c[k] \in Resources
      <4>1. \A k \in 1 .. 2 : k = 1 \/ k = 2
        OBVIOUS
      <4>2. QED BY <2>2, <2>3, <4>1
    <3>2. QED BY <2>1, <3>1
  <2> HIDE DEF c
  <2>5. \A m \in Nat : \A f \in [1 .. m -> Resources] : f \in Seq(Resources) /\ Len(f) = m
    OBVIOUS
  <2>6. c \in Seq(Resources) /\ Len(c) = 2
    BY <2>4, <2>5
  <2>7. QED BY <2>3, <2>6
<1>5. Acquisitions = all
  BY DEF Acquisitions, BoardOrder
<1> HIDE DEF n, a, b, c
<1>6. /\ a \o b \in Seq(Resources) /\ Len(a \o b) = 15 + n
      /\ \A k \in 1 .. 15 + n : (a \o b)[k] = IF k <= 15 THEN a[k] ELSE b[k - 15]
  <2>1. /\ a \o b \in Seq(Resources) /\ Len(a \o b) = Len(a) + Len(b)
        /\ \A k \in 1 .. Len(a) + Len(b) :
             (a \o b)[k] = IF k <= Len(a) THEN a[k] ELSE b[k - Len(a)]
    BY <1>2, <1>3, ConcatProperties
  <2>2. Len(a) = 15 /\ Len(b) = n
    BY <1>2, <1>3
  <2>3. QED BY <2>1, <2>2
<1>7. /\ all \in Seq(Resources) /\ Len(all) = 17 + n
      /\ \A k \in 1 .. 17 + n : all[k] = IF k <= 15 + n THEN (a \o b)[k] ELSE c[k - (15 + n)]
  <2> DEFINE ab == a \o b
  <2>1. ab \in Seq(Resources) /\ Len(ab) = 15 + n
    BY <1>6
  <2> HIDE DEF ab
  <2>2. /\ ab \o c \in Seq(Resources) /\ Len(ab \o c) = Len(ab) + Len(c)
        /\ \A k \in 1 .. Len(ab) + Len(c) :
             (ab \o c)[k] = IF k <= Len(ab) THEN ab[k] ELSE c[k - Len(ab)]
    BY <1>4, <2>1, ConcatProperties
  <2>3. Len(ab) = 15 + n /\ Len(ab) + Len(c) = 17 + n
    BY <1>1, <1>4, <2>1
  <2>4. QED BY <2>2, <2>3 DEF ab
<1> HIDE DEF all
<1>8. \A k \in 1 .. 15 : all[k] = a[k]
  <2>1. \A k \in 1 .. 15 : k \in 1 .. 17 + n /\ k \in 1 .. 15 + n /\ k <= 15 + n /\ k <= 15
    BY <1>1
  <2>2. ASSUME NEW k \in 1 .. 15
        PROVE  all[k] = a[k]
    <3>1. all[k] = (a \o b)[k]
      BY <1>7, <2>1
    <3>2. (a \o b)[k] = a[k]
      BY <1>6, <2>1
    <3>3. QED BY <3>1, <3>2
  <2>3. QED BY <2>2
<1>9. \A j \in 1 .. n : all[15 + j] = b[j]
  <2>1. \A j \in 1 .. n : /\ 15 + j \in 1 .. 17 + n /\ 15 + j \in 1 .. 15 + n
                          /\ 15 + j <= 15 + n /\ ~(15 + j <= 15) /\ (15 + j) - 15 = j
    BY <1>1
  <2>2. ASSUME NEW j \in 1 .. n
        PROVE  all[15 + j] = b[j]
    <3>1. all[15 + j] = (a \o b)[15 + j]
      BY <1>7, <2>1
    <3>2. (a \o b)[15 + j] = b[j]
      BY <1>6, <2>1
    <3>3. QED BY <3>1, <3>2
  <2>3. QED BY <2>2
<1>10. all[16 + n] = c[1] /\ all[17 + n] = c[2]
  <2>1. /\ 16 + n \in 1 .. 17 + n /\ ~(16 + n <= 15 + n) /\ (16 + n) - (15 + n) = 1
        /\ 17 + n \in 1 .. 17 + n /\ ~(17 + n <= 15 + n) /\ (17 + n) - (15 + n) = 2
    BY <1>1
  <2>2. QED BY <1>7, <2>1
<1>11. QED BY <1>2, <1>3, <1>4, <1>5, <1>7, <1>8, <1>9, <1>10 DEF n, b

LEMMA HeldStep ==
  ASSUME NEW k \in Nat \ {0}
  PROVE  HeldAt(k + 1) = HeldAt(k) \cup ({Acquisitions[k]} \ Checks)
<1>1. (k + 1) - 1 = k /\ 1 .. k = (1 .. k - 1) \cup {k}
  OBVIOUS
<1>2. QED BY <1>1 DEF HeldAt

LEMMA HeldFirst ==
  /\ HeldAt(1) = {} /\ HeldAt(2) = Tags({"device"}, 0) /\ HeldAt(3) = Tags({"device"}, 0)
  /\ HeldAt(4) = Tags({"device", "sc"}, 0)
  /\ HeldAt(5) = Tags({"regions", "device", "sc"}, 0)
  /\ HeldAt(6) = Tags({"regions", "device", "sc"}, 0)
  /\ HeldAt(7) = Tags({"bar0", "regions", "device", "sc"}, 0)
  /\ HeldAt(8) = Tags({"msi", "bar0", "regions", "device", "sc"}, 0)
  /\ \A k \in 9 .. 14 : HeldAt(k) = Tags(Pci, 0)
  /\ HeldAt(15) = Tags(Pci, 0) \cup Tags({"recv_array"}, 0)
  /\ HeldAt(16) = Tags(Pci, 0) \cup Tags(BothArrays, 0)
<1>1. /\ BoardOrder[1] = "device" /\ BoardOrder[2] = "mask" /\ BoardOrder[3] = "sc"
      /\ BoardOrder[4] = "regions" /\ BoardOrder[5] = "bar0_length"
      /\ BoardOrder[6] = "bar0" /\ BoardOrder[7] = "msi" /\ BoardOrder[8] = "irq"
      /\ BoardOrder[9] = "read_devctl" /\ BoardOrder[10] = "write_devctl"
      /\ BoardOrder[11] = "read_lnkctl" /\ BoardOrder[12] = "write_lnkctl"
      /\ BoardOrder[13] = "info" /\ BoardOrder[14] = "recv_array"
      /\ BoardOrder[15] = "send_array"
  BY DEF BoardOrder
<1>2. ASSUME NEW k \in 1 .. 15
      PROVE  HeldAt(k + 1) = HeldAt(k) \cup ({<<BoardOrder[k], 0>>} \ Checks)
  <2>1. k \in Nat \ {0}
    OBVIOUS
  <2>2. QED BY <2>1, HeldStep, Places
<1>3. \A c \in {"mask", "bar0_length", "read_devctl", "write_devctl",
                "read_lnkctl", "write_lnkctl", "info"} : {<<c, 0>>} \ Checks = {}
  BY DEF Checks
<1>4. \A c \in {"device", "sc", "regions", "bar0", "msi", "irq", "recv_array", "send_array"} :
        {<<c, 0>>} \ Checks = Tags({c}, 0)
  BY DEF Checks, Tags
<1>5. \A S, T : Tags(S, 0) \cup Tags(T, 0) = Tags(S \cup T, 0)
  BY DEF Tags
<1>6. HeldAt(1) = {}
  BY DEF HeldAt
<1>7. HeldAt(2) = Tags({"device"}, 0)
  <2>1. HeldAt(2) = HeldAt(1) \cup ({<<"device", 0>>} \ Checks)
    BY <1>1, <1>2
  <2>2. QED BY <1>4, <1>6, <2>1
<1>8. HeldAt(3) = Tags({"device"}, 0)
  <2>1. HeldAt(3) = HeldAt(2) \cup ({<<"mask", 0>>} \ Checks)
    BY <1>1, <1>2
  <2>2. QED BY <1>3, <1>7, <2>1
<1>9. HeldAt(4) = Tags({"device", "sc"}, 0)
  <2>1. HeldAt(4) = HeldAt(3) \cup ({<<"sc", 0>>} \ Checks)
    BY <1>1, <1>2
  <2>2. HeldAt(4) = Tags({"device"}, 0) \cup Tags({"sc"}, 0)
    BY <1>4, <1>8, <2>1
  <2>3. {"device"} \cup {"sc"} = {"device", "sc"}
    OBVIOUS
  <2>4. Tags({"device"}, 0) \cup Tags({"sc"}, 0) = Tags({"device"} \cup {"sc"}, 0)
    BY <1>5
  <2>5. QED BY <2>2, <2>3, <2>4
<1>10. HeldAt(5) = Tags({"regions", "device", "sc"}, 0)
  <2>1. HeldAt(5) = HeldAt(4) \cup ({<<"regions", 0>>} \ Checks)
    BY <1>1, <1>2
  <2>2. HeldAt(5) = Tags({"device", "sc"}, 0) \cup Tags({"regions"}, 0)
    BY <1>4, <1>9, <2>1
  <2>3. {"device", "sc"} \cup {"regions"} = {"regions", "device", "sc"}
    OBVIOUS
  <2>4. Tags({"device", "sc"}, 0) \cup Tags({"regions"}, 0) = Tags({"device", "sc"} \cup {"regions"}, 0)
    BY <1>5
  <2>5. QED BY <2>2, <2>3, <2>4
<1>11. HeldAt(6) = Tags({"regions", "device", "sc"}, 0)
  <2>1. HeldAt(6) = HeldAt(5) \cup ({<<"bar0_length", 0>>} \ Checks)
    BY <1>1, <1>2
  <2>2. QED BY <1>3, <1>10, <2>1
<1>12. HeldAt(7) = Tags({"bar0", "regions", "device", "sc"}, 0)
  <2>1. HeldAt(7) = HeldAt(6) \cup ({<<"bar0", 0>>} \ Checks)
    BY <1>1, <1>2
  <2>2. HeldAt(7) = Tags({"regions", "device", "sc"}, 0) \cup Tags({"bar0"}, 0)
    BY <1>4, <1>11, <2>1
  <2>3. {"regions", "device", "sc"} \cup {"bar0"} = {"bar0", "regions", "device", "sc"}
    OBVIOUS
  <2>4. Tags({"regions", "device", "sc"}, 0) \cup Tags({"bar0"}, 0) = Tags({"regions", "device", "sc"} \cup {"bar0"}, 0)
    BY <1>5
  <2>5. QED BY <2>2, <2>3, <2>4
<1>13. HeldAt(8) = Tags({"msi", "bar0", "regions", "device", "sc"}, 0)
  <2>1. HeldAt(8) = HeldAt(7) \cup ({<<"msi", 0>>} \ Checks)
    BY <1>1, <1>2
  <2>2. HeldAt(8) = Tags({"bar0", "regions", "device", "sc"}, 0) \cup Tags({"msi"}, 0)
    BY <1>4, <1>12, <2>1
  <2>3. {"bar0", "regions", "device", "sc"} \cup {"msi"}
          = {"msi", "bar0", "regions", "device", "sc"}
    OBVIOUS
  <2>4. Tags({"bar0", "regions", "device", "sc"}, 0) \cup Tags({"msi"}, 0) = Tags({"bar0", "regions", "device", "sc"} \cup {"msi"}, 0)
    BY <1>5
  <2>5. QED BY <2>2, <2>3, <2>4
<1>14. HeldAt(9) = Tags(Pci, 0)
  <2>1. HeldAt(9) = HeldAt(8) \cup ({<<"irq", 0>>} \ Checks)
    BY <1>1, <1>2
  <2>2. HeldAt(9) = Tags({"msi", "bar0", "regions", "device", "sc"}, 0) \cup Tags({"irq"}, 0)
    BY <1>4, <1>13, <2>1
  <2>3. {"msi", "bar0", "regions", "device", "sc"} \cup {"irq"} = Pci
    BY DEF Pci
  <2>4. Tags({"msi", "bar0", "regions", "device", "sc"}, 0) \cup Tags({"irq"}, 0) = Tags({"msi", "bar0", "regions", "device", "sc"} \cup {"irq"}, 0)
    BY <1>5
  <2>5. QED BY <2>2, <2>3, <2>4
<1>15. \A k \in 9 .. 14 : HeldAt(k) = Tags(Pci, 0)
  <2>1. HeldAt(10) = HeldAt(9) \cup ({<<"read_devctl", 0>>} \ Checks)
    BY <1>1, <1>2
  <2>2. HeldAt(11) = HeldAt(10) \cup ({<<"write_devctl", 0>>} \ Checks)
    BY <1>1, <1>2
  <2>3. HeldAt(12) = HeldAt(11) \cup ({<<"read_lnkctl", 0>>} \ Checks)
    BY <1>1, <1>2
  <2>4. HeldAt(13) = HeldAt(12) \cup ({<<"write_lnkctl", 0>>} \ Checks)
    BY <1>1, <1>2
  <2>5. HeldAt(14) = HeldAt(13) \cup ({<<"info", 0>>} \ Checks)
    BY <1>1, <1>2
  <2>6. /\ HeldAt(9) = Tags(Pci, 0) /\ HeldAt(10) = Tags(Pci, 0) /\ HeldAt(11) = Tags(Pci, 0)
        /\ HeldAt(12) = Tags(Pci, 0) /\ HeldAt(13) = Tags(Pci, 0) /\ HeldAt(14) = Tags(Pci, 0)
    BY <1>3, <1>14, <2>1, <2>2, <2>3, <2>4, <2>5
  <2>7. QED BY <2>6
<1>16. HeldAt(15) = Tags(Pci, 0) \cup Tags({"recv_array"}, 0)
  <2>1. HeldAt(15) = HeldAt(14) \cup ({<<"recv_array", 0>>} \ Checks)
    BY <1>1, <1>2
  <2>2. HeldAt(14) = Tags(Pci, 0)
    BY <1>15
  <2>3. QED BY <1>4, <2>1, <2>2
<1>17. HeldAt(16) = Tags(Pci, 0) \cup Tags(BothArrays, 0)
  <2>1. HeldAt(16) = HeldAt(15) \cup ({<<"send_array", 0>>} \ Checks)
    BY <1>1, <1>2
  <2>2. Tags({"recv_array"}, 0) \cup Tags({"send_array"}, 0) = Tags(BothArrays, 0)
    BY <1>5 DEF BothArrays
  <2>3. QED BY <1>4, <1>16, <2>1, <2>2
<1>18. QED BY <1>6, <1>7, <1>8, <1>9, <1>10, <1>11, <1>12, <1>13, <1>15, <1>16, <1>17

LEMMA HeldParts ==
  ASSUME NEW m \in 0 .. 6 * NumChnls
  PROVE  HeldAt(16 + m) = HeldAt(16) \cup { Channels(NumChnls)[j] : j \in 1 .. m }
<1> DEFINE n == 6 * NumChnls
           b == Channels(NumChnls)
<1>1. n \in Nat /\ m \in 0 .. n
  BY ProbeAssumption
<1>2. /\ \A j \in 1 .. n : Acquisitions[15 + j] = b[j]
      /\ \A j \in 1 .. n : b[j] \notin Checks
  <2>1. \A j \in 1 .. n : /\ Acquisitions[15 + j] = b[j]
                          /\ b[j] = <<PartOrder[((j - 1) % 6) + 1], ((j - 1) \div 6) + 1>>
    BY Places
  <2>2. NumChnls \in Nat
    BY ProbeAssumption
  <2>3. \A j \in 1 .. n : ((j - 1) \div 6) + 1 \in 1 .. NumChnls
    BY <2>2, PartPlace
  <2>4. \A i \in 1 .. NumChnls : i # 0
    BY <2>2
  <2>5. \A j \in 1 .. n : ((j - 1) \div 6) + 1 # 0
    BY <2>3, <2>4
  <2>6. \A r \in Checks : r[2] = 0
    BY DEF Checks
  <2>7. ASSUME NEW j \in 1 .. n
        PROVE  b[j] \notin Checks
    <3>1. b[j][2] # 0
      BY <2>1, <2>5
    <3>2. QED BY <2>6, <3>1
  <2>8. QED BY <2>1, <2>7
<1> HIDE DEF n, b
<1>3. 1 .. (16 + m) - 1 = 1 .. 16 - 1 \cup { 15 + j : j \in 1 .. m }
  <2>1. ASSUME NEW k \in 1 .. (16 + m) - 1, k \notin 1 .. 16 - 1
        PROVE  k \in { 15 + j : j \in 1 .. m }
    <3>1. k - 15 \in 1 .. m /\ k = 15 + (k - 15)
      BY <1>1, <2>1
    <3>2. QED BY <3>1
  <2>2. \A j \in 1 .. m : 15 + j \in 1 .. (16 + m) - 1
    BY <1>1
  <2>3. \A k \in 1 .. 16 - 1 : k \in 1 .. (16 + m) - 1
    BY <1>1
  <2>4. QED BY <2>1, <2>2, <2>3
<1>4. \A j \in 1 .. m : j \in 1 .. n
  BY <1>1
<1>5. HeldAt(16 + m) = { Acquisitions[k] : k \in 1 .. (16 + m) - 1 } \ Checks
  BY DEF HeldAt
<1>6. HeldAt(16) = { Acquisitions[k] : k \in 1 .. 16 - 1 } \ Checks
  BY DEF HeldAt
<1>7. ASSUME NEW r \in HeldAt(16 + m), r \notin HeldAt(16)
      PROVE  r \in { b[j] : j \in 1 .. m }
  <2>1. PICK k \in 1 .. (16 + m) - 1 : r = Acquisitions[k]
    BY <1>5
  <2>2. k \notin 1 .. 16 - 1
    BY <1>5, <1>6, <1>7, <2>1
  <2>3. PICK j \in 1 .. m : k = 15 + j
    BY <1>3, <2>2
  <2>4. QED BY <1>2, <1>4, <2>1, <2>3
<1>8. ASSUME NEW r \in HeldAt(16)
      PROVE  r \in HeldAt(16 + m)
  BY <1>3, <1>5, <1>6
<1>9. ASSUME NEW j \in 1 .. m
      PROVE  b[j] \in HeldAt(16 + m)
  BY <1>2, <1>3, <1>4, <1>5
<1>10. HeldAt(16 + m) = HeldAt(16) \cup { b[j] : j \in 1 .. m }
  BY <1>7, <1>8, <1>9
<1>11. QED BY <1>10 DEF b

\* The parts before the q-th of channel i: those of the channels before it, and its
\* own that come before.
LEMMA PartsBefore ==
  ASSUME NEW q \in 1 .. 6, NEW i \in 1 .. NumChnls
  PROVE  { Channels(NumChnls)[j] : j \in 1 .. (6 * (i - 1) + q) - 1 }
           = InEach(PartNames, i - 1) \cup Tags(Earlier(q), i)
<1> DEFINE n == 6 * NumChnls
           b == Channels(NumChnls)
           nm(j) == ((j - 1) % 6) + 1
           ch(j) == ((j - 1) \div 6) + 1
<1>1. NumChnls \in Nat /\ n \in Nat
  BY ProbeAssumption
<1>2. /\ \A j \in 1 .. n : nm(j) \in 1 .. 6 /\ ch(j) \in 1 .. NumChnls
      /\ \A x \in 1 .. 6, y \in 1 .. NumChnls :
           6 * (y - 1) + x \in 1 .. n /\ nm(6 * (y - 1) + x) = x /\ ch(6 * (y - 1) + x) = y
  BY <1>1, PartPlace
<1>3. \A j \in 1 .. n : j = 6 * (ch(j) - 1) + nm(j)
  <2>1. \A j \in 1 .. n : j = 6 * ((j - 1) \div 6) + ((j - 1) % 6) + 1
    BY <1>1, PartPlace
  <2>2. QED BY <1>1, <2>1
<1>4. \A j \in 1 .. n : b[j] = <<PartOrder[nm(j)], ch(j)>>
  BY Places
<1>5. PartNames = { PartOrder[x] : x \in 1 .. 6 }
  BY DEF PartNames, PartOrder
<1> HIDE DEF b, nm, ch
<1> DEFINE k == 6 * (i - 1) + q
<1>6. /\ \A j \in 1 .. k - 1 : j \in 1 .. n
      /\ \A j \in 1 .. k - 1 : ch(j) \in 1 .. i - 1 \/ (ch(j) = i /\ nm(j) \in 1 .. q - 1)
      /\ \A x \in 1 .. 6, y \in 1 .. i - 1 : y \in 1 .. NumChnls /\ 6 * (y - 1) + x \in 1 .. k - 1
      /\ \A x \in 1 .. q - 1 : x \in 1 .. 6 /\ 6 * (i - 1) + x \in 1 .. k - 1
  <2>1. k \in 1 .. n
    BY <1>2
  <2>2. \A j \in 1 .. k - 1 : j \in 1 .. n
    BY <1>1, <2>1
  <2>3. ASSUME NEW j \in 1 .. k - 1
        PROVE  ch(j) \in 1 .. i - 1 \/ (ch(j) = i /\ nm(j) \in 1 .. q - 1)
    <3>1. /\ nm(j) \in 1 .. 6 /\ ch(j) \in 1 .. NumChnls
          /\ j = 6 * (ch(j) - 1) + nm(j)
      BY <1>2, <1>3, <2>2
    <3>2. QED BY <1>1, <3>1
  <2>4. \A x \in 1 .. 6, y \in 1 .. i - 1 : y \in 1 .. NumChnls /\ 6 * (y - 1) + x \in 1 .. k - 1
    BY <1>1
  <2>5. \A x \in 1 .. q - 1 : x \in 1 .. 6 /\ 6 * (i - 1) + x \in 1 .. k - 1
    BY <1>1
  <2>6. QED BY <2>2, <2>3, <2>4, <2>5
<1>7. ASSUME NEW j \in 1 .. k - 1
      PROVE  b[j] \in InEach(PartNames, i - 1) \cup Tags(Earlier(q), i)
  <2>1. b[j] = <<PartOrder[nm(j)], ch(j)>> /\ nm(j) \in 1 .. 6
    BY <1>2, <1>4, <1>6
  <2>2. CASE ch(j) \in 1 .. i - 1
    <3>1. PartOrder[nm(j)] \in PartNames
      BY <1>5, <2>1
    <3>2. QED BY <2>1, <2>2, <3>1 DEF InEach
  <2>3. CASE ch(j) = i /\ nm(j) \in 1 .. q - 1
    <3>1. PartOrder[nm(j)] \in Earlier(q)
      BY <2>3 DEF Earlier
    <3>2. QED BY <2>1, <2>3, <3>1 DEF Tags
  <2>4. QED BY <1>6, <2>2, <2>3
<1>8. ASSUME NEW r \in InEach(PartNames, i - 1)
      PROVE  \E j \in 1 .. k - 1 : r = b[j]
  <2>1. PICK x \in 1 .. 6, y \in 1 .. i - 1 : r = <<PartOrder[x], y>>
    BY <1>5 DEF InEach
  <2>2. y \in 1 .. NumChnls /\ 6 * (y - 1) + x \in 1 .. k - 1
    BY <1>6
  <2>3. b[6 * (y - 1) + x] = <<PartOrder[x], y>>
    BY <1>2, <1>4, <2>2
  <2>4. QED BY <2>1, <2>2, <2>3
<1>9. ASSUME NEW r \in Tags(Earlier(q), i)
      PROVE  \E j \in 1 .. k - 1 : r = b[j]
  <2>1. PICK x \in 1 .. q - 1 : r = <<PartOrder[x], i>>
    BY DEF Tags, Earlier
  <2>2. x \in 1 .. 6 /\ 6 * (i - 1) + x \in 1 .. k - 1
    BY <1>6
  <2>3. b[6 * (i - 1) + x] = <<PartOrder[x], i>>
    BY <1>2, <1>4, <2>2
  <2>4. QED BY <2>1, <2>2, <2>3
<1> HIDE DEF k
<1>10. { b[j] : j \in 1 .. k - 1 } = InEach(PartNames, i - 1) \cup Tags(Earlier(q), i)
  BY <1>7, <1>8, <1>9
<1>11. QED BY <1>10 DEF b, k

LEMMA HeldChannel ==
  ASSUME NEW q \in 1 .. 6, NEW i \in 1 .. NumChnls
  PROVE  /\ Acquisitions[15 + (6 * (i - 1) + q)] = <<PartOrder[q], i>>
         /\ HeldAt(15 + (6 * (i - 1) + q))
              = (Tags(Pci, 0) \cup Tags(BothArrays, 0))
                  \cup (InEach(PartNames, i - 1) \cup Tags(Earlier(q), i))
<1> DEFINE k == 6 * (i - 1) + q
<1>1. NumChnls \in Nat
  BY ProbeAssumption
<1>2. /\ k \in 1 .. 6 * NumChnls /\ ((k - 1) % 6) + 1 = q /\ ((k - 1) \div 6) + 1 = i
  BY <1>1, PartPlace
<1>3. { Channels(NumChnls)[j] : j \in 1 .. k - 1 }
        = InEach(PartNames, i - 1) \cup Tags(Earlier(q), i)
  BY PartsBefore
<1> HIDE DEF k
<1>4. /\ Acquisitions[15 + k] = Channels(NumChnls)[k]
      /\ Channels(NumChnls)[k] = <<PartOrder[((k - 1) % 6) + 1], ((k - 1) \div 6) + 1>>
  BY <1>2, Places
<1>5. k - 1 \in 0 .. 6 * NumChnls /\ 16 + (k - 1) = 15 + k
  BY <1>1, <1>2
<1>6. HeldAt(16 + (k - 1)) = HeldAt(16) \cup { Channels(NumChnls)[j] : j \in 1 .. k - 1 }
  BY <1>5, HeldParts
<1>7. HeldAt(15 + k) = (Tags(Pci, 0) \cup Tags(BothArrays, 0))
                          \cup (InEach(PartNames, i - 1) \cup Tags(Earlier(q), i))
  BY <1>3, <1>5, <1>6, HeldFirst
<1>8. QED BY <1>2, <1>4, <1>7 DEF k

LEMMA HeldLast ==
  /\ HeldAt(16 + 6 * NumChnls) = BeforeSpill
  /\ HeldAt(17 + 6 * NumChnls) = Complete
  /\ Everything = Complete
<1> DEFINE n == 6 * NumChnls
           b == Channels(NumChnls)
<1>1. NumChnls \in Nat /\ n \in Nat /\ n \in 0 .. n
  BY ProbeAssumption
<1>2. HeldAt(16 + n) = HeldAt(16) \cup { b[j] : j \in 1 .. n }
  BY <1>1, HeldParts
<1>3. { b[j] : j \in 1 .. n } = InEach(PartNames, NumChnls)
  <2>1. Listed(b) = InEach(PartNames, NumChnls) /\ b \in Seq(Resources)
    BY <1>1, GivesEach DEF Good
  <2>2. Len(b) = n
    <3>1. b = [k \in 1 .. n |-> <<PartOrder[((k - 1) % 6) + 1], ((k - 1) \div 6) + 1>>]
      BY DEF Channels, EachChannel, PartOrder
    <3>2. DOMAIN b = 1 .. n /\ Len(b) \in Nat /\ DOMAIN b = 1 .. Len(b)
      BY <2>1, <3>1, LenProperties
    <3> HIDE DEF b, n
    <3>3. QED BY <1>1, <3>2
  <2>3. QED BY <2>1, <2>2 DEF Listed
<1>4. /\ Len(Acquisitions) = 17 + n
      /\ Acquisitions[16 + n] = <<"spill", 0>> /\ Acquisitions[17 + n] = <<"slot", 0>>
  BY Places
<1> HIDE DEF n, b
<1>5. HeldAt(16 + n) = BeforeSpill
  BY <1>2, <1>3, HeldFirst DEF BeforeSpill
<1>6. HeldAt(17 + n) = Complete
  <2>1. 16 + n \in Nat \ {0} /\ (16 + n) + 1 = 17 + n
    BY <1>1
  <2>2. HeldAt(17 + n) = HeldAt(16 + n) \cup ({<<"spill", 0>>} \ Checks)
    BY <1>4, <2>1, HeldStep
  <2>3. {<<"spill", 0>>} \ Checks = Tags({"spill"}, 0)
    BY DEF Checks, Tags
  <2>4. QED BY <1>5, <2>2, <2>3 DEF Complete
<1>7. Everything = Complete
  <2>1. 17 + n \in Nat \ {0} /\ ((17 + n) + 1) - 1 = 17 + n
    BY <1>1
  <2>2. HeldAt((17 + n) + 1) = HeldAt(17 + n) \cup ({<<"slot", 0>>} \ Checks)
    BY <1>4, <2>1, HeldStep
  <2>3. {<<"slot", 0>>} \ Checks = {}
    BY DEF Checks
  <2>4. HeldAt((17 + n) + 1) = Everything
    BY <1>4, <2>1 DEF HeldAt, Everything
  <2>5. QED BY <1>6, <2>2, <2>3, <2>4
<1>8. QED BY <1>5, <1>6, <1>7 DEF n

\* Every place is the board's own, a part's of a channel, the spill buffer's or the last.
LEMMA EveryPlace ==
  ASSUME NEW k \in 1 .. Len(Acquisitions)
  PROVE  \/ k \in 1 .. 15 /\ Acquisitions[k] = <<BoardOrder[k], 0>>
         \/ \E q \in 1 .. 6, i \in 1 .. NumChnls :
              k = 15 + (6 * (i - 1) + q) /\ Acquisitions[k] = <<PartOrder[q], i>>
         \/ k = 16 + 6 * NumChnls /\ Acquisitions[k] = <<"spill", 0>>
         \/ k = 17 + 6 * NumChnls /\ Acquisitions[k] = <<"slot", 0>>
<1> DEFINE n == 6 * NumChnls
<1>1. NumChnls \in Nat /\ n \in Nat /\ Len(Acquisitions) = 17 + n
  <2>1. NumChnls \in Nat
    BY ProbeAssumption
  <2>2. n \in Nat
    BY <2>1
  <2>3. Len(Acquisitions) = 17 + 6 * NumChnls
    BY Places, Zenon
  <2>4. QED BY <2>1, <2>2, <2>3
<1>2. CASE k \in 1 .. 15
  BY <1>2, Places
<1>3. CASE k \in 16 .. 15 + n
  <2> DEFINE j == k - 15
             q == ((j - 1) % 6) + 1
             i == ((j - 1) \div 6) + 1
  <2>1. j \in 1 .. n /\ k = 15 + j
    BY <1>1, <1>3
  <2>2. /\ q \in 1 .. 6 /\ i \in 1 .. NumChnls
        /\ j = 6 * ((j - 1) \div 6) + ((j - 1) % 6) + 1
    BY <1>1, <2>1, PartPlace
  <2>3. j = 6 * (i - 1) + q
    BY <2>1, <2>2
  <2> HIDE DEF q, i, j
  <2>4. k = 15 + (6 * (i - 1) + q) /\ Acquisitions[k] = <<PartOrder[q], i>>
    BY <2>1, <2>2, <2>3, HeldChannel
  <2>5. QED BY <2>2, <2>4
<1>4. CASE k = 16 + n
  BY <1>4, Places
<1>5. CASE k = 17 + n
  BY <1>5, Places
<1>6. k \in 1 .. 17 + n
  BY <1>1
<1> HIDE DEF n
<1>7. k \in 1 .. 15 \/ k \in 16 .. 15 + n \/ k = 16 + n \/ k = 17 + n
  BY <1>1, <1>6
<1>8. QED BY <1>2, <1>3, <1>4, <1>5, <1>7

LEMMA NamedPlaces ==
  ASSUME NEW k \in 1 .. Len(Acquisitions)
  PROVE  /\ Acquisitions[k][1] = "slot" <=> k = 17 + 6 * NumChnls
         /\ Acquisitions[k][1] = "spill" <=> k = 16 + 6 * NumChnls
         /\ Acquisitions[k][1] = "recv_array" => k = 14
<1>1. NumChnls \in Nat /\ NumChnls > 0
  BY ProbeAssumption
<1>2. CASE k \in 1 .. 15 /\ Acquisitions[k] = <<BoardOrder[k], 0>>
  <2>1. /\ BoardOrder[k] # "slot" /\ BoardOrder[k] # "spill"
        /\ BoardOrder[k] = "recv_array" => k = 14
    BY <1>2 DEF BoardOrder
  <2>2. k # 17 + 6 * NumChnls /\ k # 16 + 6 * NumChnls
    BY <1>1, <1>2
  <2>3. QED BY <1>2, <2>1, <2>2
<1>3. ASSUME NEW q \in 1 .. 6, NEW i \in 1 .. NumChnls,
             k = 15 + (6 * (i - 1) + q), Acquisitions[k] = <<PartOrder[q], i>>
      PROVE  /\ Acquisitions[k][1] = "slot" <=> k = 17 + 6 * NumChnls
             /\ Acquisitions[k][1] = "spill" <=> k = 16 + 6 * NumChnls
             /\ Acquisitions[k][1] = "recv_array" => k = 14
  <2>1. PartOrder[q] \notin {"slot", "spill", "recv_array"}
    BY DEF PartOrder
  <2>2. k # 17 + 6 * NumChnls /\ k # 16 + 6 * NumChnls
    BY <1>1, <1>3
  <2>3. QED BY <1>3, <2>1, <2>2
<1>4. CASE k = 16 + 6 * NumChnls /\ Acquisitions[k] = <<"spill", 0>>
  <2>1. k # 17 + 6 * NumChnls
    BY <1>1, <1>4
  <2>2. QED BY <1>4, <2>1
<1>5. CASE k = 17 + 6 * NumChnls /\ Acquisitions[k] = <<"slot", 0>>
  <2>1. k # 16 + 6 * NumChnls
    BY <1>1, <1>5
  <2>2. QED BY <1>5, <2>1
<1>6. QED BY <1>2, <1>3, <1>4, <1>5, EveryPlace

-----------------------------------------------------------------------------
(* Every failure gives back what the board then holds.                      *)
LEMMA ReturnsArrays ==
  ASSUME NEW A, A \subseteq BothArrays
  PROVE  LET held == Tags(Pci, 0) \cup Tags(A, 0)
         IN  Returns(ArrayFailure(held), held)
<1> DEFINE held == Tags(Pci, 0) \cup Tags(A, 0)
           c == Tags(Controls, 0)
           p == Tags(Pci, 0)
           R == A \cap {"recv_array"}
           S == A \cap {"send_array"}
           first == IF <<"recv_array", 0>> \in held THEN <<"recv_array">> ELSE << >>
           second == IF <<"send_array", 0>> \in held THEN <<"send_array">> ELSE << >>
<1>1. /\ <<"recv_array", 0>> \in held <=> "recv_array" \in A
      /\ <<"send_array", 0>> \in held <=> "send_array" \in A
  BY DEF Tags, Pci
<1>2. Lists(first, R)
  <2>1. CASE "recv_array" \in A
    <3>1. first = <<"recv_array">> /\ R = {"recv_array"}
      BY <1>1, <2>1
    <3>2. QED BY <3>1, BoardLists
  <2>2. CASE "recv_array" \notin A
    <3>1. first = << >> /\ R = {}
      BY <1>1, <2>2
    <3>2. QED BY <3>1, BoardLists
  <2>3. QED BY <2>1, <2>2
<1>3. Lists(second, S)
  <2>1. CASE "send_array" \in A
    <3>1. second = <<"send_array">> /\ S = {"send_array"}
      BY <1>1, <2>1
    <3>2. QED BY <3>1, BoardLists
  <2>2. CASE "send_array" \notin A
    <3>1. second = << >> /\ S = {}
      BY <1>1, <2>2
    <3>2. QED BY <3>1, BoardLists
  <2>3. QED BY <2>1, <2>2
<1>4. ArrayFailure(held) = (Board(first) \o Board(second)) \o BothAndPciUndo
  BY DEF ArrayFailure
<1>5. Tags(R, 0) \cup Tags(S, 0) = Tags(A, 0)
  <2>1. R \cup S = A
    BY DEF BothArrays
  <2>2. \A X, Y : Tags(X, 0) \cup Tags(Y, 0) = Tags(X \cup Y, 0)
    BY DEF Tags
  <2> HIDE DEF R, S
  <2>3. QED BY <2>1, <2>2
<1>6. Tags(A, 0) \subseteq Tags(BothArrays, 0)
  BY DEF Tags
<1>7. /\ Tags(R, 0) \cap Tags(S, 0) = {}
      /\ Irq \notin Tags(R, 0)
  <2>1. R \cap S = {} /\ "irq" \notin R
    OBVIOUS
  <2> HIDE DEF R, S
  <2>2. QED BY <2>1, TagsApart
<1>8. /\ Tags(A, 0) \cap p = {} /\ Tags(A, 0) \cap c = {} /\ Irq \notin Tags(A, 0)
  <2>1. /\ Tags(BothArrays, 0) \cap Tags(Pci, 0) = {}
        /\ Tags(BothArrays, 0) \cap Tags(Controls, 0) = {}
        /\ Irq \notin Tags(BothArrays, 0)
    <3>1. 1 \in Nat
      OBVIOUS
    <3>2. QED BY <3>1, KindsApart
  <2>2. QED BY <1>6, <2>1
<1>9. Tags(A, 0) \ Settings = Tags(A, 0) /\ c \ Settings = {} /\ p \ Settings = p
  <2>1. Tags(BothArrays, 0) \ Settings = Tags(BothArrays, 0)
    BY WithoutSettings
  <2>2. Tags(A, 0) \ Settings = Tags(A, 0)
    BY <1>6, <2>1
  <2>3. QED BY <2>2, WithoutSettings
<1> HIDE DEF first, second, R, S, c, p, held
<1>10. Gives(Board(first), Tags(R, 0)) /\ Gives(Board(second), Tags(S, 0))
  BY <1>2, <1>3, GivesBoard
<1>11. Gives(Board(first) \o Board(second), Tags(A, 0))
  BY <1>5, <1>7, <1>10, GivesConcat
<1>12. Gives(BothAndPciUndo, c \cup p)
  BY GivesPci DEF c, p
<1>13. Gives((Board(first) \o Board(second)) \o BothAndPciUndo, Tags(A, 0) \cup (c \cup p))
  <2>1. Tags(A, 0) \cap (c \cup p) = {}
    BY <1>8
  <2>2. QED BY <1>8, <1>11, <1>12, <2>1, GivesConcat
<1>14. (Tags(A, 0) \cup (c \cup p)) \ Settings = held
  <2>1. (Tags(A, 0) \cup (c \cup p)) \ Settings = p \cup Tags(A, 0)
    BY <1>9
  <2>2. QED BY <2>1 DEF held, p
<1>15. Returns(ArrayFailure(held), held)
  BY <1>4, <1>13, <1>14 DEF Gives, Returns
<1>16. QED BY <1>15 DEF held

LEMMA ReturnsPci ==
  ASSUME NEW names, NEW S, Lists(names, S), S \subseteq Pci
  PROVE  Returns(Board(names), Tags(S, 0))
<1>1. Gives(Board(names), Tags(S, 0))
  BY GivesBoard
<1>2. Tags(S, 0) \ Settings = Tags(S, 0)
  BY DEF Tags, Settings, Pci
<1>3. QED BY <1>1, <1>2 DEF Gives, Returns

LEMMA ReturnsConfig ==
  /\ \A name : name # "write_lnkctl" => Returns(ConfigFailure(name), Tags(Pci, 0))
  /\ Returns(ConfigFailure("write_lnkctl"), Tags(Pci, 0))
  /\ Returns(InfoFailure, Tags(Pci, 0))
<1>1. ASSUME NEW names, NEW S, Lists(names, S), S \subseteq Controls
      PROVE  Returns(Board(names) \o Board(PciUndo), Tags(Pci, 0))
  <2>1. Gives(Board(names), Tags(S, 0)) /\ Gives(Board(PciUndo), Tags(Pci, 0))
    BY <1>1, GivesBoard, GivesPci
  <2>2. Tags(S, 0) \cap Tags(Pci, 0) = {}
    <3>1. S \cap Pci = {}
      BY <1>1 DEF Controls, Pci
    <3>2. QED BY <3>1, TagsApart
  <2>3. Irq \notin Tags(S, 0)
    <3>1. "irq" \notin S
      BY <1>1 DEF Controls
    <3>2. QED BY <3>1, TagsApart
  <2>4. Gives(Board(names) \o Board(PciUndo), Tags(S, 0) \cup Tags(Pci, 0))
    BY <2>1, <2>2, <2>3, GivesConcat
  <2>5. (Tags(S, 0) \cup Tags(Pci, 0)) \ Settings = Tags(Pci, 0)
    <3>1. Tags(S, 0) \subseteq Tags(Controls, 0)
      BY <1>1 DEF Tags
    <3>2. QED BY <3>1, WithoutSettings
  <2>6. QED BY <2>4, <2>5 DEF Gives, Returns
<1>2. /\ Lists(<< >>, {}) /\ Lists(<<"devctl">>, {"devctl"})
      /\ Lists(<<"lnkctl", "devctl">>, Controls)
  BY BoardLists DEF Controls
<1>3. {} \subseteq Controls /\ {"devctl"} \subseteq Controls /\ Controls \subseteq Controls
  BY DEF Controls
<1>4. /\ Returns(Board(<< >>) \o Board(PciUndo), Tags(Pci, 0))
      /\ Returns(Board(<<"devctl">>) \o Board(PciUndo), Tags(Pci, 0))
      /\ Returns(Board(<<"lnkctl", "devctl">>) \o Board(PciUndo), Tags(Pci, 0))
  BY <1>1, <1>2, <1>3
<1>5. QED BY <1>4 DEF ConfigFailure, InfoFailure, BothAndPciUndo

LEMMA ReturnsFailure ==
  ASSUME NEW k \in 1 .. Len(Acquisitions),
         Acquisitions[k][1] \notin {"slot", "spill", "recv_array"}
  PROVE  Returns(FailureOf(Acquisitions[k], HeldAt(k)), HeldAt(k))
<1> DEFINE r == Acquisitions[k]
<1>1. CASE k \in 1 .. 15 /\ r = <<BoardOrder[k], 0>>
  <2>1. ASSUME NEW names, NEW S, Lists(names, S), S \subseteq Pci, HeldAt(k) = Tags(S, 0),
               FailureOf(r, HeldAt(k)) = Board(names)
        PROVE  Returns(FailureOf(r, HeldAt(k)), HeldAt(k))
    BY <2>1, ReturnsPci
  <2>2. ASSUME NEW c \in {"device", "mask", "sc", "regions", "bar0_length", "bar0", "msi", "irq"},
               r = <<c, 0>>
        PROVE  FailureOf(r, HeldAt(k)) = PciFailure(c)
    BY <2>2 DEF FailureOf
  <2>3. CASE k = 1
    <3>1. r = <<"device", 0>>
      BY <1>1, <2>3 DEF BoardOrder
    <3>2. FailureOf(r, HeldAt(k)) = Board(<< >>)
      BY <2>2, <3>1 DEF PciFailure
    <3>3. HeldAt(k) = Tags({}, 0) /\ Lists(<< >>, {})
      BY <2>3, HeldFirst, BoardLists DEF Tags
    <3>4. QED BY <2>1, <3>2, <3>3
  <2>4. CASE k = 2 \/ k = 3
    <3>1. r = <<"mask", 0>> \/ r = <<"sc", 0>>
      BY <1>1, <2>4 DEF BoardOrder
    <3>2. FailureOf(r, HeldAt(k)) = Board(<<"device">>)
      BY <2>2, <3>1 DEF PciFailure
    <3>3. HeldAt(k) = Tags({"device"}, 0) /\ Lists(<<"device">>, {"device"})
      BY <2>4, HeldFirst, BoardLists
    <3>4. {"device"} \subseteq Pci
      BY DEF Pci
    <3>5. QED BY <2>1, <3>2, <3>3, <3>4
  <2>5. CASE k = 4
    <3>1. r = <<"regions", 0>>
      BY <1>1, <2>5 DEF BoardOrder
    <3>2. FailureOf(r, HeldAt(k)) = Board(<<"device", "sc">>)
      BY <2>2, <3>1 DEF PciFailure
    <3>3. HeldAt(k) = Tags({"device", "sc"}, 0) /\ Lists(<<"device", "sc">>, {"device", "sc"})
      BY <2>5, HeldFirst, BoardLists
    <3>4. {"device", "sc"} \subseteq Pci
      BY DEF Pci
    <3>5. QED BY <2>1, <3>2, <3>3, <3>4
  <2>6. CASE k = 5 \/ k = 6
    <3>1. r = <<"bar0_length", 0>> \/ r = <<"bar0", 0>>
      BY <1>1, <2>6 DEF BoardOrder
    <3>2. FailureOf(r, HeldAt(k)) = Board(<<"regions", "device", "sc">>)
      BY <2>2, <3>1 DEF PciFailure
    <3>3. /\ HeldAt(k) = Tags({"regions", "device", "sc"}, 0)
          /\ Lists(<<"regions", "device", "sc">>, {"regions", "device", "sc"})
      BY <2>6, HeldFirst, BoardLists
    <3>4. {"regions", "device", "sc"} \subseteq Pci
      BY DEF Pci
    <3>5. QED BY <2>1, <3>2, <3>3, <3>4
  <2>7. CASE k = 7
    <3>1. r = <<"msi", 0>>
      BY <1>1, <2>7 DEF BoardOrder
    <3>2. FailureOf(r, HeldAt(k)) = Board(<<"bar0", "regions", "device", "sc">>)
      BY <2>2, <3>1 DEF PciFailure
    <3>3. /\ HeldAt(k) = Tags({"bar0", "regions", "device", "sc"}, 0)
          /\ Lists(<<"bar0", "regions", "device", "sc">>, {"bar0", "regions", "device", "sc"})
      BY <2>7, HeldFirst, BoardLists
    <3>4. {"bar0", "regions", "device", "sc"} \subseteq Pci
      BY DEF Pci
    <3>5. QED BY <2>1, <3>2, <3>3, <3>4
  <2>8. CASE k = 8
    <3>1. r = <<"irq", 0>>
      BY <1>1, <2>8 DEF BoardOrder
    <3>2. FailureOf(r, HeldAt(k)) = Board(<<"msi", "bar0", "regions", "device", "sc">>)
      BY <2>2, <3>1 DEF PciFailure
    <3>3. /\ HeldAt(k) = Tags({"msi", "bar0", "regions", "device", "sc"}, 0)
          /\ Lists(<<"msi", "bar0", "regions", "device", "sc">>,
                   {"msi", "bar0", "regions", "device", "sc"})
      BY <2>8, HeldFirst, BoardLists
    <3>4. {"msi", "bar0", "regions", "device", "sc"} \subseteq Pci
      BY DEF Pci
    <3>5. QED BY <2>1, <3>2, <3>3, <3>4
  <2>9. CASE k \in 9 .. 12
    <3>1. PICK c \in {"read_devctl", "write_devctl", "read_lnkctl", "write_lnkctl"} :
            r = <<c, 0>>
      BY <1>1, <2>9 DEF BoardOrder
    <3>2. FailureOf(r, HeldAt(k)) = ConfigFailure(c)
      BY <3>1 DEF FailureOf
    <3>3. HeldAt(k) = Tags(Pci, 0)
      BY <2>9, HeldFirst
    <3>4. QED BY <3>2, <3>3, ReturnsConfig
  <2>10. CASE k = 13
    <3>1. r = <<"info", 0>>
      BY <1>1, <2>10 DEF BoardOrder
    <3>2. FailureOf(r, HeldAt(k)) = InfoFailure
      BY <3>1 DEF FailureOf
    <3>3. HeldAt(k) = Tags(Pci, 0)
      BY <2>10, HeldFirst
    <3>4. QED BY <3>2, <3>3, ReturnsConfig
  <2>11. k # 14
    BY <1>1 DEF BoardOrder
  <2>12. CASE k = 15
    <3>1. r = <<"send_array", 0>>
      BY <1>1, <2>12 DEF BoardOrder
    <3>2. FailureOf(r, HeldAt(k)) = ArrayFailure(HeldAt(k))
      BY <3>1 DEF FailureOf
    <3>3. HeldAt(k) = Tags(Pci, 0) \cup Tags({"recv_array"}, 0)
      BY <2>12, HeldFirst
    <3>4. {"recv_array"} \subseteq BothArrays
      BY DEF BothArrays
    <3>5. QED BY <3>2, <3>3, <3>4, ReturnsArrays
  <2>13. k = 1 \/ k = 2 \/ k = 3 \/ k = 4 \/ k = 5 \/ k = 6 \/ k = 7 \/ k = 8
         \/ k \in 9 .. 12 \/ k = 13 \/ k = 14 \/ k = 15
    BY <1>1
  <2>14. QED BY <2>3, <2>4, <2>5, <2>6, <2>7, <2>8, <2>9, <2>10, <2>11, <2>12, <2>13
<1>2. ASSUME NEW q \in 1 .. 6, NEW i \in 1 .. NumChnls,
             k = 15 + (6 * (i - 1) + q), r = <<PartOrder[q], i>>
      PROVE  Returns(FailureOf(r, HeldAt(k)), HeldAt(k))
  <2> DEFINE own == Tags(Earlier(q), i)
             before == InEach(PartNames, i - 1)
             arrays == Tags(BothArrays, 0)
             c == Tags(Controls, 0)
             p == Tags(Pci, 0)
             f == ChannelFailure(PartOrder[q], i)
  <2>1. i \in Nat \ {0} /\ i # 0 /\ i - 1 \in Nat
    BY ProbeAssumption
  <2>2. FailureOf(r, HeldAt(k)) = f
    <3>1. r[2] # 0 /\ r[1] = PartOrder[q] /\ r[2] = i
      BY <1>2, <2>1
    <3>2. PartOrder[q] \notin {"read_devctl", "write_devctl", "read_lnkctl", "write_lnkctl",
                             "info", "recv_array", "send_array", "spill"}
      BY DEF PartOrder
    <3> HIDE DEF r
    <3>3. QED BY <3>1, <3>2 DEF FailureOf
  <2>3. Gives(f, ((own \cup before) \cup arrays) \cup (c \cup p))
    BY <2>1, GivesChannel
  <2>4. HeldAt(k) = (p \cup arrays) \cup (before \cup own)
    BY <1>2, HeldChannel
  <2>5. /\ own \ Settings = own /\ before \ Settings = before
        /\ arrays \ Settings = arrays /\ c \ Settings = {} /\ p \ Settings = p
    BY <2>1, WithoutSettings
  <2> HIDE DEF own, before, arrays, c, p, f
  <2>6. (((own \cup before) \cup arrays) \cup (c \cup p)) \ Settings
          = (p \cup arrays) \cup (before \cup own)
    BY <2>5
  <2>7. QED BY <2>2, <2>3, <2>4, <2>6 DEF Gives, Returns
<1>3. QED BY <1>1, <1>2, EveryPlace

-----------------------------------------------------------------------------
(* The invariant.  A board that is probed holds exactly what it has asked   *)
(* for so far; one that is taken apart holds exactly what is still listed,  *)
(* in an order that releases the interrupt before what its handler uses.    *)
(* Where the spill buffer's allocation may fail, a board may have lost      *)
(* everything and be kept.                                                  *)
Last == Len(Acquisitions)
BoardType ==
  [st : {"unbound", "probe", "undo", "store", "bound"}, at : 1 .. Last,
   held : SUBSET Resources, undo : Seq(Resources), then : {"unbound", "probe"},
   id : Slots \cup {-1}]

ProbeTypeOK ==
  /\ module \in {"absent", "pci_driver", "chrdev", "class", "loaded", "failed"}
  /\ registered \in SUBSET {"pci_driver", "chrdev", "class"}
  /\ dev \in [Devs -> BoardType]
  /\ used \in [Slots -> BOOLEAN] /\ fpgas \in [Slots -> Devs \cup {None}]

Placed(b) == b.st \in {"store", "bound"}
Lost(b) == SpillMayFail /\ b.held = {}

HeldAsListed(b) ==
  /\ b.st = "unbound" => b.held = {}
  /\ b.st = "probe" => b.held = HeldAt(b.at) \/ (Lost(b) /\ b.at = Last)
  /\ b.st = "undo" =>
       /\ Returns(b.undo, b.held) \/ (Lost(b) /\ Good(b.undo))
       /\ b.then = "probe" => SpillMayFail /\ b.at = Last
  /\ Placed(b) => b.held = Complete \/ Lost(b)

TableAgrees ==
  /\ \A d \in Devs : Placed(dev[d]) => dev[d].id \in Slots /\ used[dev[d].id]
  /\ \A d \in Devs : dev[d].st = "bound" => fpgas[dev[d].id] = d
  /\ \A s \in Slots : used[s] => \E d \in Devs : Placed(dev[d]) /\ dev[d].id = s
  /\ \A d, e \in Devs : Placed(dev[d]) /\ Placed(dev[e]) /\ dev[d].id = dev[e].id => d = e

ModuleAgrees ==
  /\ registered = {} => \A d \in Devs : dev[d].st = "unbound"
  /\ module \in {"absent", "pci_driver"} => registered = {}

ProbeInv ==
  ProbeTypeOK /\ (\A d \in Devs : HeldAsListed(dev[d])) /\ TableAgrees /\ ModuleAgrees

LEMMA Smallest ==
  ASSUME NEW S \in SUBSET Nat, S # {}
  PROVE  \E t \in S : \A u \in S : t <= u
<1> DEFINE R == OpToRel(<, Nat)
<1>1. IsWellFoundedOn(R, Nat)
  BY NatLessThanWellFounded
<1>2. \A x, y \in Nat : y < x => <<y, x>> \in R
  BY DEF OpToRel
<1> HIDE DEF R
<1>3. PICK t \in S : \A y \in S : ~(<<y, t>> \in R)
  BY <1>1, WFMin
<1>4. ASSUME NEW u \in S
      PROVE  t <= u
  <2>1. t \in Nat /\ u \in Nat
    OBVIOUS
  <2>2. ~(u < t)
    BY <1>2, <1>3, <2>1
  <2>3. QED BY <2>1, <2>2
<1>5. QED BY <1>3, <1>4

LEMMA LastPlace == Last = 17 + 6 * NumChnls /\ Last \in Nat /\ Last >= 23
BY Places, ProbeAssumption DEF Last

\* A step of a board that has no place in the table, before or after it.
LEMMA NotPlaced ==
  ASSUME ProbeInv, NEW d \in Devs, NEW b \in BoardType, dev' = [dev EXCEPT ![d] = b],
         ~Placed(dev[d]), ~Placed(b), HeldAsListed(b), registered # {},
         UNCHANGED <<module, registered, used, fpgas>>
  PROVE  ProbeInv'
<1>1. /\ dev' \in [Devs -> BoardType] /\ dev'[d] = b
      /\ \A e \in Devs : e # d => dev'[e] = dev[e]
  BY DEF ProbeInv, ProbeTypeOK
<1>2. ProbeTypeOK'
  BY <1>1 DEF ProbeInv, ProbeTypeOK
<1>3. \A e \in Devs : HeldAsListed(dev'[e])
  BY <1>1 DEF ProbeInv
<1>4. \A e \in Devs : Placed(dev'[e]) => Placed(dev[e]) /\ dev'[e] = dev[e]
  BY <1>1
<1>5. \A e \in Devs : Placed(dev[e]) => dev'[e] = dev[e]
  BY <1>1
<1>6. TableAgrees'
  <2>1. \A e \in Devs : Placed(dev'[e]) => dev'[e].id \in Slots /\ used[dev'[e].id]
    BY <1>4 DEF ProbeInv, TableAgrees
  <2>2. \A e \in Devs : dev'[e].st = "bound" => fpgas[dev'[e].id] = e
    BY <1>4 DEF ProbeInv, TableAgrees, Placed
  <2>3. \A s \in Slots : used[s] => \E e \in Devs : Placed(dev'[e]) /\ dev'[e].id = s
    BY <1>5 DEF ProbeInv, TableAgrees
  <2>4. \A e, g \in Devs :
          Placed(dev'[e]) /\ Placed(dev'[g]) /\ dev'[e].id = dev'[g].id => e = g
    BY <1>4 DEF ProbeInv, TableAgrees
  <2>5. QED BY <2>1, <2>2, <2>3, <2>4 DEF TableAgrees, Placed
<1>7. ModuleAgrees'
  BY DEF ProbeInv, ModuleAgrees
<1>8. QED BY <1>2, <1>3, <1>6, <1>7 DEF ProbeInv, HeldAsListed, Placed, Lost

LEMMA StepProbe ==
  ASSUME ProbeInv, NEW d \in Devs, fpga_probe(d)
  PROVE  ProbeInv'
<1> DEFINE b == [Unbound EXCEPT !.st = "probe"]
<1>1. b.st = "probe" /\ b.at = 1 /\ b.held = {} /\ b.undo = << >> /\ b.then = "unbound"
      /\ b.id = -1
  BY DEF Unbound
<1>2. b \in BoardType
  <2>1. 1 \in 1 .. Last
    BY LastPlace
  <2>2. << >> \in Seq(Resources)
    OBVIOUS
  <2>3. QED BY <2>1, <2>2 DEF BoardType, Unbound
<1>3. HeldAsListed(b)
  BY <1>1, HeldFirst DEF HeldAsListed, Placed
<1>4. registered # {} /\ ~Placed(dev[d]) /\ ~Placed(b)
  BY <1>1 DEF fpga_probe, Placed
<1>5. dev' = [dev EXCEPT ![d] = b] /\ UNCHANGED <<module, registered, used, fpgas>>
  BY DEF fpga_probe, table
<1> HIDE DEF b
<1>6. QED BY <1>2, <1>3, <1>4, <1>5, NotPlaced

\* What the type and the module say of a board that is being probed or taken apart.
LEMMA BoardFacts ==
  ASSUME ProbeInv, NEW d \in Devs
  PROVE  /\ dev[d] \in BoardType /\ HeldAsListed(dev[d])
         /\ dev[d].st # "unbound" => registered # {}
BY DEF ProbeInv, ProbeTypeOK, ModuleAgrees

LEMMA StepAcquire ==
  ASSUME ProbeInv, NEW d \in Devs, Acquire(d)
  PROVE  ProbeInv'
<1> DEFINE k == dev[d].at
           r == Acquisitions[k]
           b == [dev[d] EXCEPT !.at = @ + 1, !.held = @ \cup ({r} \ Checks)]
<1>1. /\ dev[d] \in BoardType /\ HeldAsListed(dev[d]) /\ registered # {}
      /\ dev[d].st = "probe" /\ r[1] # "slot" /\ k \in 1 .. Last
  BY BoardFacts DEF Acquire, At, BoardType
<1>2. k # Last /\ k + 1 \in 1 .. Last /\ k \in Nat \ {0}
  <2>1. k # 17 + 6 * NumChnls
    BY <1>1, NamedPlaces DEF Last
  <2>2. QED BY <1>1, <2>1, LastPlace
<1>3. r \in Resources
  BY <1>1, Places, ElementOfSeq DEF Last
<1>4. /\ b.st = "probe" /\ b.at = k + 1 /\ b.held = dev[d].held \cup ({r} \ Checks)
  BY <1>1 DEF BoardType
<1>5. b \in BoardType
  <2>1. dev[d].held \cup ({r} \ Checks) \in SUBSET Resources
    BY <1>1, <1>3 DEF BoardType
  <2>2. QED BY <1>1, <1>2, <2>1 DEF BoardType
<1>6. dev' = [dev EXCEPT ![d] = b] /\ UNCHANGED <<module, registered, used, fpgas>>
  BY <1>1 DEF Acquire, At, table, ProbeInv, ProbeTypeOK
<1> HIDE DEF b
<1>7. HeldAsListed(b)
  <2>1. dev[d].held = HeldAt(k)
    BY <1>1, <1>2 DEF HeldAsListed
  <2>2. b.held = HeldAt(b.at)
    BY <1>2, <1>4, <2>1, HeldStep
  <2>3. QED BY <1>4, <2>2 DEF HeldAsListed, Placed
<1>8. ~Placed(dev[d]) /\ ~Placed(b)
  BY <1>1, <1>4 DEF Placed
<1>9. QED BY <1>1, <1>5, <1>6, <1>7, <1>8, NotPlaced

LEMMA StepFail ==
  ASSUME ProbeInv, NEW d \in Devs, Fail(d)
  PROVE  ProbeInv'
<1> DEFINE k == dev[d].at
           r == Acquisitions[k]
<1>1. /\ dev[d] \in BoardType /\ HeldAsListed(dev[d]) /\ registered # {}
      /\ dev[d].st = "probe" /\ r[1] \notin {"slot", "recv_array"} /\ k \in 1 .. Last
  BY BoardFacts DEF Fail, At, BoardType
<1>2. k # Last /\ dev[d].held = HeldAt(k)
  <2>1. k # 17 + 6 * NumChnls
    BY <1>1, NamedPlaces DEF Last
  <2>2. QED BY <1>1, <2>1, LastPlace DEF HeldAsListed
<1>3. CASE r[1] = "spill"
  <2> DEFINE b == [dev[d] EXCEPT !.st = "undo", !.undo = SpillFailure, !.then = "probe",
                                 !.at = @ + 1]
  <2>1. k = 16 + 6 * NumChnls
    BY <1>1, <1>3, NamedPlaces DEF Last
  <2>2. k + 1 = Last /\ k + 1 \in 1 .. Last
    BY <2>1, LastPlace, ProbeAssumption
  <2>3. dev[d].held = BeforeSpill
    BY <1>2, <2>1, HeldLast
  <2>4. SpillFailure \in Seq(Resources)
    BY ReturnsSpill DEF Returns, Good
  <2>5. b \in BoardType
    BY <1>1, <2>2, <2>4 DEF BoardType
  <2>6. /\ b.st = "undo" /\ b.undo = SpillFailure /\ b.then = "probe" /\ b.at = k + 1
        /\ b.held = dev[d].held
    BY <1>1 DEF BoardType
  <2>7. /\ dev' = [dev EXCEPT ![d] = b] /\ UNCHANGED <<module, registered, used, fpgas>>
        /\ SpillMayFail
    BY <1>1, <1>3 DEF Fail, At, table, ProbeInv, ProbeTypeOK
  <2> HIDE DEF b
  <2>8. HeldAsListed(b)
    <3>1. Returns(b.undo, b.held)
      BY <2>3, <2>6, ReturnsSpill
    <3>2. QED BY <2>2, <2>6, <2>7, <3>1 DEF HeldAsListed, Placed
  <2>9. ~Placed(dev[d]) /\ ~Placed(b)
    BY <1>1, <2>6 DEF Placed
  <2>10. QED BY <1>1, <2>5, <2>7, <2>8, <2>9, NotPlaced
<1>4. CASE r[1] # "spill"
  <2> DEFINE f == FailureOf(r, dev[d].held)
             b == [dev[d] EXCEPT !.st = "undo", !.undo = f, !.then = "unbound"]
  <2>1. Returns(f, dev[d].held)
    BY <1>1, <1>2, <1>4, ReturnsFailure DEF Last
  <2>2. f \in Seq(Resources)
    BY <2>1 DEF Returns, Good
  <2>3. dev' = [dev EXCEPT ![d] = b] /\ UNCHANGED <<module, registered, used, fpgas>>
    BY <1>1, <1>4 DEF Fail, GiveBack, At, table, ProbeInv, ProbeTypeOK
  <2> HIDE DEF f
  <2>4. b \in BoardType
    BY <1>1, <2>2 DEF BoardType
  <2>5. b.st = "undo" /\ b.undo = f /\ b.then = "unbound" /\ b.held = dev[d].held
    BY <1>1 DEF BoardType
  <2> HIDE DEF b
  <2>6. HeldAsListed(b)
    BY <2>1, <2>5 DEF HeldAsListed, Placed
  <2>7. ~Placed(dev[d]) /\ ~Placed(b)
    BY <1>1, <2>5 DEF Placed
  <2>8. QED BY <1>1, <2>3, <2>4, <2>6, <2>7, NotPlaced
<1>5. QED BY <1>3, <1>4

LEMMA StepFailRecvArray ==
  ASSUME ProbeInv, NEW d \in Devs, FailRecvArray(d)
  PROVE  ProbeInv'
<1> DEFINE k == dev[d].at
           r == Acquisitions[k]
<1>1. /\ dev[d] \in BoardType /\ HeldAsListed(dev[d]) /\ registered # {}
      /\ dev[d].st = "probe" /\ r[1] = "recv_array" /\ k \in 1 .. Last
  BY BoardFacts DEF FailRecvArray, At, BoardType
<1>2. k = 14 /\ k # Last
  <2>1. k = 14
    BY <1>1, NamedPlaces DEF Last
  <2>2. QED BY <2>1, LastPlace
<1>3. dev[d].held = Tags(Pci, 0)
  <2>1. dev[d].held = HeldAt(14)
    BY <1>1, <1>2 DEF HeldAsListed
  <2>2. QED BY <2>1, HeldFirst
<1>4. PICK held \in {dev[d].held, dev[d].held \cup {<<"send_array", 0>>}} :
        dev' = [dev EXCEPT ![d].held = held, ![d].st = "undo", ![d].then = "unbound",
                           ![d].undo = ArrayFailure(held)]
  BY DEF FailRecvArray
<1>5. Returns(ArrayFailure(held), held)
  <2>1. /\ {} \subseteq BothArrays /\ {"send_array"} \subseteq BothArrays
        /\ Tags({}, 0) = {} /\ Tags({"send_array"}, 0) = {<<"send_array", 0>>}
    BY DEF BothArrays, Tags
  <2>2. \/ held = Tags(Pci, 0) \cup Tags({}, 0)
        \/ held = Tags(Pci, 0) \cup Tags({"send_array"}, 0)
    BY <1>3, <1>4, <2>1
  <2>3. QED BY <2>1, <2>2, ReturnsArrays
<1>6. held \in SUBSET Resources
  <2>1. <<"send_array", 0>> \in Resources
    BY DEF Resources, Names
  <2>2. QED BY <1>1, <1>4, <2>1 DEF BoardType
<1> DEFINE f == ArrayFailure(held)
           b == [dev[d] EXCEPT !.held = held, !.st = "undo", !.then = "unbound", !.undo = f]
<1>7. f \in Seq(Resources)
  BY <1>5 DEF Returns, Good
<1>8. dev' = [dev EXCEPT ![d] = b] /\ UNCHANGED <<module, registered, used, fpgas>>
  BY <1>1, <1>4 DEF FailRecvArray, table, ProbeInv, ProbeTypeOK
<1> HIDE DEF f
<1>9. b \in BoardType
  BY <1>1, <1>6, <1>7 DEF BoardType
<1>10. b.st = "undo" /\ b.undo = f /\ b.then = "unbound" /\ b.held = held
  BY <1>1 DEF BoardType
<1> HIDE DEF b
<1>11. HeldAsListed(b)
  BY <1>5, <1>10 DEF HeldAsListed, Placed, f
<1>12. ~Placed(dev[d]) /\ ~Placed(b)
  BY <1>1, <1>10 DEF Placed
<1>13. QED BY <1>1, <1>8, <1>9, <1>11, <1>12, NotPlaced

LEMMA StepUndo ==
  ASSUME ProbeInv, NEW d \in Devs, Undo(d)
  PROVE  ProbeInv'
<1>1. /\ dev[d] \in BoardType /\ HeldAsListed(dev[d]) /\ registered # {}
      /\ dev[d].st = "undo" /\ UNCHANGED <<module, registered, used, fpgas>>
  BY BoardFacts DEF Undo, table
<1>2. ~Placed(dev[d])
  BY <1>1 DEF Placed
<1>3. /\ Good(dev[d].undo)
      /\ Returns(dev[d].undo, dev[d].held) \/ Lost(dev[d])
      /\ dev[d].then = "probe" => SpillMayFail /\ dev[d].at = Last
  BY <1>1 DEF HeldAsListed, Returns
<1>4. CASE dev[d].undo = << >>
  <2> DEFINE b == [dev[d] EXCEPT !.st = dev[d].then]
  <2>1. b \in BoardType
    BY <1>1 DEF BoardType
  <2>2. b.st = dev[d].then /\ b.held = dev[d].held /\ b.at = dev[d].at
    BY <1>1 DEF BoardType
  <2>3. dev' = [dev EXCEPT ![d] = b]
    BY <1>1, <1>4 DEF Undo, ProbeInv, ProbeTypeOK
  <2> HIDE DEF b
  <2>4. b.held = {}
    <3>1. Listed(<< >>) = {}
      BY DEF Listed
    <3>2. QED BY <1>3, <1>4, <2>2, <3>1 DEF Returns, Lost
  <2>5. b.st = "unbound" \/ (b.st = "probe" /\ SpillMayFail /\ b.at = Last)
    BY <1>1, <1>3, <2>2 DEF BoardType
  <2>6. HeldAsListed(b) /\ ~Placed(b)
    BY <2>4, <2>5 DEF HeldAsListed, Placed, Lost
  <2>7. QED BY <1>1, <1>2, <2>1, <2>3, <2>6, NotPlaced
<1>5. CASE dev[d].undo # << >>
  <2> DEFINE u == dev[d].undo
             b == [dev[d] EXCEPT !.held = @ \ {Head(u)}, !.undo = Tail(@)]
  <2>1. Good(Tail(u)) /\ Listed(Tail(u)) = Listed(u) \ {Head(u)}
    BY <1>3, <1>5, GoodTail
  <2>2. Tail(u) \in Seq(Resources) /\ dev[d].held \ {Head(u)} \in SUBSET Resources
    BY <1>1, <2>1 DEF Good, BoardType
  <2>3. b \in BoardType
    BY <1>1, <2>2 DEF BoardType
  <2>4. /\ b.st = "undo" /\ b.held = dev[d].held \ {Head(u)} /\ b.undo = Tail(u)
        /\ b.then = dev[d].then /\ b.at = dev[d].at
    BY <1>1 DEF BoardType
  <2>5. dev' = [dev EXCEPT ![d] = b]
    BY <1>1, <1>5 DEF Undo, ProbeInv, ProbeTypeOK
  <2> HIDE DEF b
  <2>6. Returns(b.undo, b.held) \/ Lost(b)
    <3>1. CASE Returns(u, dev[d].held)
      <4>1. (Listed(u) \ {Head(u)}) \ Settings = (Listed(u) \ Settings) \ {Head(u)}
        OBVIOUS
      <4>2. QED BY <2>1, <2>4, <3>1, <4>1 DEF Returns
    <3>2. CASE Lost(dev[d])
      BY <2>4, <3>2 DEF Lost
    <3>3. QED BY <1>3, <3>1, <3>2
  <2>7. HeldAsListed(b) /\ ~Placed(b)
    BY <1>3, <2>1, <2>4, <2>6 DEF HeldAsListed, Placed
  <2>8. QED BY <1>1, <1>2, <2>3, <2>5, <2>7, NotPlaced
<1>6. QED BY <1>4, <1>5

LEMMA StepSave ==
  ASSUME ProbeInv, NEW d \in Devs, SaveFpga(d)
  PROVE  ProbeInv'
<1> DEFINE free == { s \in Slots : ~used[s] }
<1>1. /\ dev[d] \in BoardType /\ HeldAsListed(dev[d]) /\ registered # {}
      /\ dev[d].st = "probe" /\ Acquisitions[dev[d].at][1] = "slot"
      /\ dev[d].at \in 1 .. Last
      /\ UNCHANGED <<module, registered, fpgas>>
  BY BoardFacts DEF SaveFpga, At, BoardType
<1>2. dev[d].held = Complete \/ Lost(dev[d])
  <2>1. dev[d].at = 17 + 6 * NumChnls
    BY <1>1, NamedPlaces DEF Last
  <2>2. QED BY <1>1, <2>1, HeldLast DEF HeldAsListed
<1>3. ~Placed(dev[d])
  BY <1>1 DEF Placed
<1>4. CASE free = {}
  <2> DEFINE b == [dev[d] EXCEPT !.st = "undo", !.undo = SlotFailure, !.then = "unbound"]
  <2>1. Good(SlotFailure) /\ SlotFailure \in Seq(Resources)
    BY ReturnsSlot DEF Returns, Good
  <2>2. b \in BoardType
    BY <1>1, <2>1 DEF BoardType
  <2>3. b.st = "undo" /\ b.undo = SlotFailure /\ b.then = "unbound" /\ b.held = dev[d].held
    BY <1>1 DEF BoardType
  <2>4. dev' = [dev EXCEPT ![d] = b] /\ used' = used
    BY <1>1, <1>4 DEF SaveFpga, GiveBack, ProbeInv, ProbeTypeOK
  <2> HIDE DEF b
  <2>5. HeldAsListed(b) /\ ~Placed(b)
    BY <1>2, <2>1, <2>3, ReturnsSlot DEF HeldAsListed, Placed, Lost
  <2>6. QED BY <1>1, <1>3, <2>2, <2>4, <2>5, NotPlaced
<1>5. CASE free # {}
  <2> DEFINE s == CHOOSE t \in free : \A u \in free : t <= u
             b == [dev[d] EXCEPT !.st = "store", !.id = s]
  <2>1. s \in Slots /\ ~used[s]
    <3>1. free \in SUBSET Nat
      BY ProbeAssumption DEF Slots
    <3>2. \E t \in free : \A u \in free : t <= u
      BY <1>5, <3>1, Smallest
    <3>3. s \in free
      BY <3>2
    <3>4. QED BY <3>3
  <2>2. used' = [used EXCEPT ![s] = TRUE] /\ dev' = [dev EXCEPT ![d] = b]
    BY <1>1, <1>5 DEF SaveFpga, ProbeInv, ProbeTypeOK
  <2> HIDE DEF s
  <2>3. b \in BoardType
    BY <1>1, <2>1 DEF BoardType
  <2>4. b.st = "store" /\ b.id = s /\ b.held = dev[d].held
    BY <1>1 DEF BoardType
  <2> HIDE DEF b
  <2>5. HeldAsListed(b) /\ Placed(b)
    BY <1>2, <2>4 DEF HeldAsListed, Placed, Lost
  <2>6. /\ dev' \in [Devs -> BoardType] /\ dev'[d] = b
        /\ \A e \in Devs : e # d => dev'[e] = dev[e]
    BY <2>2, <2>3 DEF ProbeInv, ProbeTypeOK
  <2>7. /\ used' \in [Slots -> BOOLEAN] /\ used'[s]
        /\ \A t \in Slots : t # s => used'[t] = used[t]
    BY <2>1, <2>2 DEF ProbeInv, ProbeTypeOK
  <2>8. ProbeTypeOK'
    BY <1>1, <2>6, <2>7 DEF ProbeInv, ProbeTypeOK
  <2>9. \A e \in Devs : HeldAsListed(dev'[e])
    BY <2>5, <2>6 DEF ProbeInv
  <2>10. \A e \in Devs : Placed(dev[e]) => e # d /\ dev[e].id \in Slots /\ dev[e].id # s
    BY <1>3, <2>1 DEF ProbeInv, TableAgrees
  <2>11. TableAgrees'
    <3>1. \A e \in Devs : Placed(dev'[e]) => dev'[e].id \in Slots /\ used'[dev'[e].id]
      BY <2>1, <2>4, <2>6, <2>7, <2>10 DEF ProbeInv, TableAgrees
    <3>2. \A e \in Devs : dev'[e].st = "bound" => fpgas[dev'[e].id] = e
      BY <2>4, <2>6 DEF ProbeInv, TableAgrees
    <3>3. \A t \in Slots : used'[t] => \E e \in Devs : Placed(dev'[e]) /\ dev'[e].id = t
      <4>1. ASSUME NEW t \in Slots, used'[t], t # s
            PROVE  \E e \in Devs : Placed(dev'[e]) /\ dev'[e].id = t
        <5>1. PICK e \in Devs : Placed(dev[e]) /\ dev[e].id = t
          BY <2>7, <4>1 DEF ProbeInv, TableAgrees
        <5>2. QED BY <2>6, <2>10, <5>1
      <4>2. QED BY <2>4, <2>5, <2>6, <4>1
    <3>4. \A e, g \in Devs :
            Placed(dev'[e]) /\ Placed(dev'[g]) /\ dev'[e].id = dev'[g].id => e = g
      BY <2>4, <2>6, <2>10 DEF ProbeInv, TableAgrees
    <3>5. QED BY <1>1, <3>1, <3>2, <3>3, <3>4 DEF TableAgrees, Placed
  <2>12. ModuleAgrees'
    BY <1>1 DEF ProbeInv, ModuleAgrees
  <2>13. QED BY <2>8, <2>9, <2>11, <2>12 DEF ProbeInv, HeldAsListed, Placed, Lost
<1>6. QED BY <1>4, <1>5

LEMMA StepStore ==
  ASSUME ProbeInv, NEW d \in Devs, StoreFpga(d)
  PROVE  ProbeInv'
<1> DEFINE s == dev[d].id
           b == [dev[d] EXCEPT !.st = "bound"]
<1>1. /\ dev[d] \in BoardType /\ HeldAsListed(dev[d]) /\ registered # {}
      /\ dev[d].st = "store" /\ Placed(dev[d])
      /\ UNCHANGED <<module, registered, used>>
      /\ fpgas' = [fpgas EXCEPT ![s] = d]
  BY BoardFacts DEF StoreFpga, Placed
<1>2. s \in Slots /\ used[s]
  BY <1>1 DEF ProbeInv, TableAgrees
<1>3. dev' = [dev EXCEPT ![d] = b]
  BY <1>1 DEF StoreFpga, ProbeInv, ProbeTypeOK
<1>4. b \in BoardType
  BY <1>1 DEF BoardType
<1>5. b.st = "bound" /\ b.id = s /\ b.held = dev[d].held
  BY <1>1 DEF BoardType
<1> HIDE DEF b
<1>6. HeldAsListed(b) /\ Placed(b)
  BY <1>1, <1>5 DEF HeldAsListed, Placed, Lost
<1>7. /\ dev' \in [Devs -> BoardType] /\ dev'[d] = b
      /\ \A e \in Devs : e # d => dev'[e] = dev[e]
  BY <1>3, <1>4 DEF ProbeInv, ProbeTypeOK
<1>8. /\ fpgas' \in [Slots -> Devs \cup {None}] /\ fpgas'[s] = d
      /\ \A t \in Slots : t # s => fpgas'[t] = fpgas[t]
  BY <1>1, <1>2 DEF ProbeInv, ProbeTypeOK
<1>9. ProbeTypeOK'
  BY <1>1, <1>7, <1>8 DEF ProbeInv, ProbeTypeOK
<1>10. \A e \in Devs : HeldAsListed(dev'[e])
  BY <1>6, <1>7 DEF ProbeInv
<1>11. \A e \in Devs : dev'[e].id = dev[e].id /\ (Placed(dev'[e]) <=> Placed(dev[e]))
  BY <1>1, <1>5, <1>6, <1>7
<1>12. TableAgrees'
  <2>1. \A e \in Devs : Placed(dev'[e]) => dev'[e].id \in Slots /\ used[dev'[e].id]
    BY <1>11 DEF ProbeInv, TableAgrees
  <2>2. \A e \in Devs : dev'[e].st = "bound" => fpgas'[dev'[e].id] = e
    <3>1. ASSUME NEW e \in Devs, dev'[e].st = "bound", e # d
          PROVE  fpgas'[dev'[e].id] = e
      <4>1. dev[e].st = "bound" /\ Placed(dev[e]) /\ dev'[e].id = dev[e].id
        BY <1>7, <3>1 DEF Placed
      <4>2. dev[e].id \in Slots /\ dev[e].id # s /\ fpgas[dev[e].id] = e
        BY <1>1, <3>1, <4>1 DEF ProbeInv, TableAgrees
      <4>3. QED BY <1>8, <4>1, <4>2
    <3>2. fpgas'[dev'[d].id] = d
      BY <1>5, <1>7, <1>8
    <3>3. QED BY <3>1, <3>2
  <2>3. \A t \in Slots : used[t] => \E e \in Devs : Placed(dev'[e]) /\ dev'[e].id = t
    BY <1>11 DEF ProbeInv, TableAgrees
  <2>4. \A e, g \in Devs :
          Placed(dev'[e]) /\ Placed(dev'[g]) /\ dev'[e].id = dev'[g].id => e = g
    BY <1>11 DEF ProbeInv, TableAgrees
  <2>5. QED BY <1>1, <2>1, <2>2, <2>3, <2>4 DEF TableAgrees, Placed
<1>13. ModuleAgrees'
  BY <1>1 DEF ProbeInv, ModuleAgrees
<1>14. QED BY <1>9, <1>10, <1>12, <1>13 DEF ProbeInv, HeldAsListed, Placed, Lost

LEMMA StepRemove ==
  ASSUME ProbeInv, NEW d \in Devs, fpga_remove(d)
  PROVE  ProbeInv'
<1> DEFINE s == dev[d].id
           b == [dev[d] EXCEPT !.st = "undo", !.undo = RemoveUndo, !.then = "unbound"]
<1>1. /\ dev[d] \in BoardType /\ HeldAsListed(dev[d]) /\ registered # {}
      /\ dev[d].st = "bound" /\ Placed(dev[d])
      /\ UNCHANGED <<module, registered, fpgas>>
      /\ used' = [used EXCEPT ![s] = FALSE]
  BY BoardFacts DEF fpga_remove, Placed
<1>2. s \in Slots /\ used[s]
  BY <1>1 DEF ProbeInv, TableAgrees
<1>3. dev' = [dev EXCEPT ![d] = b]
  BY <1>1 DEF fpga_remove, GiveBack, ProbeInv, ProbeTypeOK
<1>4. Good(RemoveUndo) /\ RemoveUndo \in Seq(Resources)
  BY ReturnsRemove DEF Returns, Good
<1>5. b \in BoardType
  BY <1>1, <1>4 DEF BoardType
<1>6. b.st = "undo" /\ b.undo = RemoveUndo /\ b.then = "unbound" /\ b.held = dev[d].held
  BY <1>1 DEF BoardType
<1> HIDE DEF b
<1>7. HeldAsListed(b) /\ ~Placed(b)
  BY <1>1, <1>4, <1>6, ReturnsRemove DEF HeldAsListed, Placed, Lost
<1>8. /\ dev' \in [Devs -> BoardType] /\ dev'[d] = b
      /\ \A e \in Devs : e # d => dev'[e] = dev[e]
  BY <1>3, <1>5 DEF ProbeInv, ProbeTypeOK
<1>9. /\ used' \in [Slots -> BOOLEAN] /\ ~used'[s]
      /\ \A t \in Slots : t # s => used'[t] = used[t]
  BY <1>1, <1>2 DEF ProbeInv, ProbeTypeOK
<1>10. ProbeTypeOK'
  BY <1>1, <1>8, <1>9 DEF ProbeInv, ProbeTypeOK
<1>11. \A e \in Devs : HeldAsListed(dev'[e])
  BY <1>7, <1>8 DEF ProbeInv
<1>12. \A e \in Devs : Placed(dev'[e]) =>
         e # d /\ Placed(dev[e]) /\ dev'[e] = dev[e] /\ dev[e].id # s
  BY <1>1, <1>7, <1>8 DEF ProbeInv, TableAgrees
<1>13. TableAgrees'
  <2>1. \A e \in Devs : Placed(dev'[e]) => dev'[e].id \in Slots /\ used'[dev'[e].id]
    BY <1>9, <1>12 DEF ProbeInv, TableAgrees
  <2>2. \A e \in Devs : dev'[e].st = "bound" => fpgas[dev'[e].id] = e
    BY <1>12 DEF ProbeInv, TableAgrees, Placed
  <2>3. \A t \in Slots : used'[t] => \E e \in Devs : Placed(dev'[e]) /\ dev'[e].id = t
    <3>1. SUFFICES ASSUME NEW t \in Slots, used'[t]
                   PROVE  \E e \in Devs : Placed(dev'[e]) /\ dev'[e].id = t
      OBVIOUS
    <3>2. t # s /\ used[t]
      BY <1>9, <3>1
    <3>3. PICK e \in Devs : Placed(dev[e]) /\ dev[e].id = t
      BY <3>2 DEF ProbeInv, TableAgrees
    <3>4. e # d
      BY <3>2, <3>3
    <3>5. QED BY <1>8, <3>3, <3>4
  <2>4. \A e, g \in Devs :
          Placed(dev'[e]) /\ Placed(dev'[g]) /\ dev'[e].id = dev'[g].id => e = g
    BY <1>12 DEF ProbeInv, TableAgrees
  <2>5. QED BY <1>1, <2>1, <2>2, <2>3, <2>4 DEF TableAgrees, Placed
<1>14. ModuleAgrees'
  BY <1>1 DEF ProbeInv, ModuleAgrees
<1>15. QED BY <1>10, <1>11, <1>13, <1>14 DEF ProbeInv, HeldAsListed, Placed, Lost

LEMMA StepModule ==
  ASSUME ProbeInv,
         \/ fpga_init \/ fpga_exit
         \/ Register("pci_driver", "chrdev") \/ Register("chrdev", "class")
         \/ Register("class", "loaded")
  PROVE  ProbeInv'
<1>1. CASE fpga_init
  <2>1. /\ module = "absent" /\ module' = "pci_driver"
        /\ used' = [s \in Slots |-> FALSE] /\ UNCHANGED <<registered, dev, fpgas>>
    BY <1>1 DEF fpga_init
  <2>2. registered = {} /\ \A d \in Devs : dev[d].st = "unbound"
    BY <2>1 DEF ProbeInv, ModuleAgrees
  <2>3. ProbeTypeOK'
    BY <2>1 DEF ProbeInv, ProbeTypeOK
  <2>4. TableAgrees'
    BY <2>1, <2>2 DEF TableAgrees, Placed
  <2>5. ModuleAgrees'
    BY <2>1, <2>2 DEF ModuleAgrees
  <2>6. QED BY <2>1, <2>3, <2>4, <2>5 DEF ProbeInv, HeldAsListed, Placed, Lost
<1>2. CASE fpga_exit
  <2>1. /\ module' = "absent" /\ registered' = {} /\ UNCHANGED <<dev, used, fpgas>>
        /\ \A d \in Devs : dev[d].st = "unbound"
    BY <1>2 DEF fpga_exit, table
  <2>2. ProbeTypeOK'
    BY <2>1 DEF ProbeInv, ProbeTypeOK
  <2>3. TableAgrees'
    BY <2>1 DEF ProbeInv, TableAgrees, Placed
  <2>4. ModuleAgrees'
    BY <2>1 DEF ModuleAgrees
  <2>5. QED BY <2>1, <2>2, <2>3, <2>4 DEF ProbeInv, HeldAsListed, Placed, Lost
<1>3. ASSUME NEW what \in {"pci_driver", "chrdev", "class"},
             NEW next \in {"chrdev", "class", "loaded"}, Register(what, next)
      PROVE  ProbeInv'
  <2>1. UNCHANGED <<dev, used, fpgas>>
    BY <1>3 DEF Register, table
  <2>2. /\ module' \in {next, "absent", "failed"}
        /\ registered' \in {registered, registered \cup {what}}
        /\ module' = "absent" => registered' = {}
        /\ registered' = {} => registered = {}
    BY <1>3 DEF Register
  <2>3. ProbeTypeOK'
    BY <2>1, <2>2 DEF ProbeInv, ProbeTypeOK
  <2>4. TableAgrees'
    BY <2>1 DEF ProbeInv, TableAgrees, Placed
  <2>5. ModuleAgrees'
    BY <2>1, <2>2 DEF ProbeInv, ModuleAgrees
  <2>6. QED BY <2>1, <2>3, <2>4, <2>5 DEF ProbeInv, HeldAsListed, Placed, Lost
<1>4. QED BY <1>1, <1>2, <1>3

LEMMA ProbeStart == ProbeInit => ProbeInv
<1> SUFFICES ASSUME ProbeInit PROVE ProbeInv
  OBVIOUS
<1>1. /\ module = "absent" /\ registered = {} /\ dev = [d \in Devs |-> Unbound]
      /\ used = [s \in Slots |-> FALSE] /\ fpgas = [s \in Slots |-> None]
  BY DEF ProbeInit
<1>2. Unbound \in BoardType /\ Unbound.st = "unbound" /\ Unbound.held = {}
  <2>1. 1 \in 1 .. Last /\ << >> \in Seq(Resources)
    BY LastPlace
  <2>2. QED BY <2>1 DEF BoardType, Unbound
<1>3. \A d \in Devs : dev[d].st = "unbound" /\ dev[d].held = {}
  BY <1>1, <1>2
<1>4. ProbeTypeOK
  BY <1>1, <1>2 DEF ProbeTypeOK
<1>5. \A d \in Devs : HeldAsListed(dev[d])
  BY <1>3 DEF HeldAsListed, Placed
<1>6. TableAgrees
  BY <1>1, <1>3 DEF TableAgrees, Placed
<1>7. ModuleAgrees
  BY <1>1, <1>3 DEF ModuleAgrees
<1>8. QED BY <1>4, <1>5, <1>6, <1>7 DEF ProbeInv

LEMMA ProbeStep == ProbeInv /\ [ProbeNext]_probeVars => ProbeInv'
<1> SUFFICES ASSUME ProbeInv, [ProbeNext]_probeVars PROVE ProbeInv'
  OBVIOUS
<1>1. CASE UNCHANGED probeVars
  BY <1>1 DEF probeVars, table, ProbeInv, ProbeTypeOK, HeldAsListed, TableAgrees,
              ModuleAgrees, Placed, Lost
<1>2. ASSUME NEW d \in Devs,
             \/ fpga_probe(d) \/ Acquire(d) \/ Fail(d) \/ FailRecvArray(d)
             \/ SaveFpga(d) \/ StoreFpga(d) \/ Undo(d) \/ fpga_remove(d)
      PROVE  ProbeInv'
  BY <1>2, StepProbe, StepAcquire, StepFail, StepFailRecvArray, StepSave, StepStore,
     StepUndo, StepRemove
<1>3. QED BY <1>1, <1>2, StepModule DEF ProbeNext

\* The invariant holds of every behaviour of the driver's fpga_probe, fpga_remove,
\* fpga_init and fpga_exit.
THEOREM ProbeInvariant == ProbeSpec => []ProbeInv
BY ProbeStart, ProbeStep, PTL DEF ProbeSpec

-----------------------------------------------------------------------------
(* What it is for.                                                          *)

\* Whatever fails in fpga_probe, in whatever order boards come and go: as long as a
\* board's interrupt is registered, so are the structure and the registers that the
\* interrupt handler uses.  This needs no assumption on the spill buffer.
THEOREM HandlerHasItsMemory == ProbeSpec => []HandlerMemory
<1>1. \A k \in 1 .. Last : Irq \in HeldAt(k) => Used \subseteq HeldAt(k)
  <2>1. SUFFICES ASSUME NEW k \in 1 .. Last, Irq \in HeldAt(k)
                 PROVE  Used \subseteq HeldAt(k)
    OBVIOUS
  <2>2. k \in Nat /\ Last \in Nat /\ Last >= 23
    BY LastPlace
  <2>3. PICK j \in 1 .. k - 1 : Acquisitions[j] = Irq
    BY <2>1 DEF HeldAt
  <2>4. j = 8
    <3>1. j \in 1 .. Len(Acquisitions)
      BY <2>2, <2>3 DEF Last
    <3>2. CASE j \in 1 .. 15 /\ Acquisitions[j] = <<BoardOrder[j], 0>>
      <4>1. BoardOrder[j] = "irq"
        BY <2>3, <3>2 DEF Irq
      <4>2. QED BY <3>2, <4>1 DEF BoardOrder
    <3>3. \A q \in 1 .. 6, i \in 1 .. NumChnls : Acquisitions[j] # <<PartOrder[q], i>>
      BY <2>3, ProbeAssumption DEF Irq
    <3>4. Acquisitions[j] # <<"spill", 0>> /\ Acquisitions[j] # <<"slot", 0>>
      BY <2>3 DEF Irq
    <3>5. QED BY <3>1, <3>2, <3>3, <3>4, EveryPlace
  <2>5. 3 \in 1 .. k - 1 /\ 6 \in 1 .. k - 1
    BY <2>2, <2>3, <2>4
  <2>6. Acquisitions[3] = <<"sc", 0>> /\ Acquisitions[6] = <<"bar0", 0>>
    <3>1. BoardOrder[3] = "sc" /\ BoardOrder[6] = "bar0"
      BY DEF BoardOrder
    <3>2. QED BY <3>1, Places
  <2>7. <<"sc", 0>> \notin Checks /\ <<"bar0", 0>> \notin Checks
    BY DEF Checks
  <2>8. QED BY <2>5, <2>6, <2>7 DEF HeldAt, Used
<1>2. Used \subseteq Complete
  BY DEF Used, Complete, BeforeSpill, Tags, Pci
<1>3. \A s, H : Returns(s, H) /\ Irq \in H => Used \subseteq H
  <2>1. SUFFICES ASSUME NEW s, NEW H, Returns(s, H), Irq \in H, NEW r \in Used
                 PROVE  r \in H
    OBVIOUS
  <2>2. PICK j \in 1 .. Len(s) : s[j] = Irq
    BY <2>1 DEF Returns, Listed
  <2>3. PICK k \in 1 .. Len(s) : s[k] = r
    BY <2>1, <2>2 DEF Returns, Good, Guarded
  <2>4. r \notin Settings
    BY <2>1 DEF Used, Settings
  <2>5. QED BY <2>1, <2>3, <2>4 DEF Returns, Listed
<1>4. ASSUME ProbeInv
      PROVE  HandlerMemory
  <2>1. SUFFICES ASSUME NEW d \in Devs, Irq \in dev[d].held
                 PROVE  Used \subseteq dev[d].held
    BY DEF HandlerMemory, Irq, Used
  <2>2. dev[d] \in BoardType /\ HeldAsListed(dev[d]) /\ dev[d].held # {}
    BY <1>4, <2>1, BoardFacts
  <2>3. dev[d].at \in 1 .. Last
        /\ dev[d].st \in {"unbound", "probe", "undo", "store", "bound"}
    BY <2>2 DEF BoardType
  <2>4. \/ dev[d].held = HeldAt(dev[d].at)
        \/ Returns(dev[d].undo, dev[d].held)
        \/ dev[d].held = Complete
    BY <2>2, <2>3 DEF HeldAsListed, Placed, Lost
  <2>5. QED BY <1>1, <1>2, <1>3, <2>1, <2>3, <2>4
<1>5. QED BY <1>4, ProbeInvariant, PTL

\* Whatever fails in fpga_probe except the spill buffer's allocation (the one failure
\* after which fpga_probe goes on): what a board gives back is what it has acquired,
\* each thing once, and a board that is not bound holds nothing.
THEOREM EverythingFreedOnce ==
  ASSUME SpillMayFail = FALSE
  PROVE  ProbeSpec => []FreedOnce
<1>1. ASSUME ProbeInv
      PROVE  FreedOnce
  <2>1. SUFFICES ASSUME NEW d \in Devs
                 PROVE  /\ dev[d].st = "undo" =>
                             /\ dev[d].held = Listed(dev[d].undo) \ Settings
                             /\ IsInjective(dev[d].undo)
                        /\ dev[d].st = "unbound" => dev[d].held = {}
    BY DEF FreedOnce, Listed
  <2>2. HeldAsListed(dev[d])
    BY <1>1, BoardFacts
  <2>3. QED BY <2>2 DEF HeldAsListed, Lost, Returns, Good
<1>2. QED BY <1>1, ProbeInvariant, PTL

\* Under the same assumption: a place of the table that is in use belongs to one board,
\* which holds all that a transfer needs, and fpgas leads to it once it is stored.
THEOREM UsedPlacesComplete ==
  ASSUME SpillMayFail = FALSE
  PROVE  ProbeSpec => []UsedIsComplete
<1>1. ASSUME ProbeInv
      PROVE  UsedIsComplete
  <2>1. SUFFICES ASSUME NEW s \in Slots, used[s]
                 PROVE  \E d \in Devs :
                          /\ { e \in Devs : Placed(dev[e]) /\ dev[e].id = s } = {d}
                          /\ dev[d].st = "bound" => fpgas[s] = d
                          /\ dev[d].held = Everything
    BY DEF UsedIsComplete, Placed
  <2>2. PICK d \in Devs : Placed(dev[d]) /\ dev[d].id = s
    BY <1>1, <2>1 DEF ProbeInv, TableAgrees
  <2>3. \A e \in Devs : Placed(dev[e]) /\ dev[e].id = s => e = d
    BY <1>1, <2>2 DEF ProbeInv, TableAgrees
  <2>4. dev[d].st = "bound" => fpgas[s] = d
    BY <1>1, <2>2 DEF ProbeInv, TableAgrees
  <2>5. dev[d].held = Everything
    <3>1. HeldAsListed(dev[d])
      BY <1>1, BoardFacts
    <3>2. QED BY <2>2, <3>1, HeldLast DEF HeldAsListed, Lost
  <2>6. QED BY <2>2, <2>3, <2>4, <2>5
<1>2. QED BY <1>1, ProbeInvariant, PTL
=============================================================================
