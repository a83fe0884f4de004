------------------------- MODULE IpAllocatorProofs -------------------------
(***************************************************************************)
(* Proofs about IpAllocator, for addresses of any number of bytes of any   *)
(* number of bits: incIP counts, and so the search of allocateIP finds the *)
(* lowest free address.                                                    *)
(*                                                                         *)
(* Pow2 and Value are recursive.  That they have values, and what they     *)
(* are, is shown by taking the least number at which it would fail.        *)
(***************************************************************************)
EXTENDS IpAllocator, WellFoundedInduction, TLAPS

----------------------------------------------------------------------------
(* Numbers. *)

\* Every set of numbers has a least element.
LEMMA LeastNumber ==
  ASSUME NEW T \in SUBSET Nat, T # {}
  PROVE  \E n \in T : \A m \in T : n <= m
  <1>1. PICK n \in T : \A m \in T : ~ (<<m, n>> \in OpToRel(<, Nat))
    BY NatLessThanWellFounded, WFMin
  <1>2. \A m \in T : ~ (m < n)
    BY <1>1 DEF OpToRel
  <1> QED
    BY <1>2

\* A set of numbers up to last that has 0 and the successors of its elements.
LEMMA Upwards ==
  ASSUME NEW last \in Nat, NEW S, 0 \in S,
         \A n \in 0 .. last - 1 : n \in S => n + 1 \in S
  PROVE  \A n \in 0 .. last : n \in S
  <1> DEFINE T == {n \in 0 .. last : n \notin S}
  <1> SUFFICES ASSUME T # {}
               PROVE  FALSE
    OBVIOUS
  <1>1. PICK n \in T : \A m \in T : n <= m
    <2>1. T \in SUBSET Nat /\ T # {}
      OBVIOUS
    <2> HIDE DEF T
    <2> QED
      BY <2>1, LeastNumber
  <1>2. n \in 0 .. last /\ n # 0
    BY <1>1
  <1>3. n - 1 \in 0 .. last - 1 /\ n - 1 \notin T
    BY <1>1, <1>2
  <1>4. n - 1 \in S
    BY <1>3
  <1>5. (n - 1) + 1 = n
    BY <1>2
  <1> QED
    BY <1>1, <1>3, <1>4, <1>5

----------------------------------------------------------------------------
(* Powers of two. *)

\* The sizes of the address space.
LEMMA Sizes ==
  /\ Bytes \in Nat \ {0} /\ Bits \in Nat \ {0, 1}
  /\ Width \in Nat /\ Bits <= Width
  BY IpAllocatorAssumption DEF Width

PowersTo(n, g) == g = [m \in 0 .. n |-> IF m = 0 THEN 1 ELSE 2 * g[m - 1]]

\* Pow2 is defined at every exponent up to Width.
LEMMA PowersExist == PowersTo(Width, Pow2)
  <1> DEFINE S == {n \in Nat : \E g : PowersTo(n, g)}
  <1>1. 0 \in S
    <2>1. PowersTo(0, [m \in 0 .. 0 |-> 1])
      BY DEF PowersTo
    <2> QED
      BY <2>1
  <1>2. ASSUME NEW n \in 0 .. Width - 1, n \in S
        PROVE  n + 1 \in S
    <2>1. PICK g : PowersTo(n, g)
      BY <1>2
    <2> DEFINE h == [m \in 0 .. n + 1 |-> IF m = n + 1 THEN 2 * g[n] ELSE g[m]]
    <2>2. \A m \in 0 .. n : h[m] = g[m]
      OBVIOUS
    <2>3. \A m \in 0 .. n : g[m] = IF m = 0 THEN 1 ELSE 2 * g[m - 1]
      BY <2>1 DEF PowersTo
    <2>4. \A m \in 0 .. n : h[m] = IF m = 0 THEN 1 ELSE 2 * h[m - 1]
      BY <2>2, <2>3
    <2>5. h[n + 1] = 2 * h[n]
      OBVIOUS
    <2>6. h = [m \in 0 .. n + 1 |-> h[m]]
      OBVIOUS
    <2> HIDE DEF h
    <2>7. \A m \in 0 .. n + 1 : h[m] = IF m = 0 THEN 1 ELSE 2 * h[m - 1]
      BY <2>4, <2>5, Sizes
    <2>8. PowersTo(n + 1, h)
      BY <2>6, <2>7 DEF PowersTo
    <2> QED
      BY <2>8
  <1> HIDE DEF S
  <1>3. Width \in S
    BY <1>1, <1>2, Upwards, Sizes
  <1> USE DEF S
  <1>4. PICK g : PowersTo(Width, g)
    BY <1>3
  <1> QED
    BY <1>4 DEF PowersTo, Pow2

\* The recursion.
LEMMA Powers ==
  /\ Pow2[0] = 1
  /\ \A n \in 0 .. Width - 1 : Pow2[n + 1] = 2 * Pow2[n]
  <1>1. \A m \in 0 .. Width : Pow2[m] = IF m = 0 THEN 1 ELSE 2 * Pow2[m - 1]
    BY PowersExist DEF PowersTo
  <1> QED
    BY <1>1, Sizes

\* Powers are positive.
LEMMA PowersArePositive == \A n \in 0 .. Width : Pow2[n] \in Nat \ {0}
  <1> DEFINE S == {n \in Nat : Pow2[n] \in Nat \ {0}}
  <1>1. 0 \in S
    BY Powers
  <1>2. \A n \in 0 .. Width - 1 : n \in S => n + 1 \in S
    BY Powers, Sizes
  <1> HIDE DEF S
  <1>3. \A n \in 0 .. Width : n \in S
    BY <1>1, <1>2, Upwards, Sizes
  <1> QED
    BY <1>3 DEF S

\* Exponents add.
LEMMA PowersMultiply ==
  \A a, b \in Nat : a + b <= Width => Pow2[a + b] = Pow2[a] * Pow2[b]
  <1> SUFFICES ASSUME NEW a \in Nat, a <= Width
               PROVE  \A b \in 0 .. Width - a : Pow2[a + b] = Pow2[a] * Pow2[b]
    BY Sizes
  <1> DEFINE S == {b \in Nat : Pow2[a + b] = Pow2[a] * Pow2[b]}
  <1>1. Pow2[a] \in Nat
    BY PowersArePositive, Sizes
  <1>2. 0 \in S
    BY <1>1, Powers
  <1>3. ASSUME NEW b \in 0 .. (Width - a) - 1, b \in S
        PROVE  b + 1 \in S
    <2>1. /\ a + b \in 0 .. Width - 1 /\ b \in 0 .. Width - 1
          /\ a + (b + 1) = (a + b) + 1
      BY Sizes
    <2>2. Pow2[(a + b) + 1] = 2 * Pow2[a + b] /\ Pow2[b + 1] = 2 * Pow2[b]
      BY <2>1, Powers
    <2>3. Pow2[b] \in Nat
      BY <2>1, PowersArePositive, Sizes
    <2>4. Pow2[a + b] = Pow2[a] * Pow2[b]
      BY <1>3
    <2>5. \A x, y \in Nat : 2 * (x * y) = x * (2 * y)
      OBVIOUS
    <2> QED
      BY <1>1, <2>1, <2>2, <2>3, <2>4, <2>5
  <1> HIDE DEF S
  <1>4. \A b \in 0 .. Width - a : b \in S
    BY <1>2, <1>3, Upwards, Sizes
  <1> QED
    BY <1>4 DEF S

\* A byte has at least four values.
LEMMA RadixIsLarge == Radix \in Nat /\ Radix >= 4
  <1>1. Pow2[2] = 4
    BY Powers, Sizes
  <1>2. Pow2[Bits] = 4 * Pow2[Bits - 2]
    <2>1. Bits - 2 \in Nat /\ 2 + (Bits - 2) = Bits
      BY Sizes
    <2> QED
      BY <1>1, <2>1, PowersMultiply, Sizes
  <1>3. Pow2[Bits - 2] \in Nat \ {0}
    BY PowersArePositive, Sizes
  <1> QED
    BY <1>2, <1>3 DEF Radix

----------------------------------------------------------------------------
(* The number of an address. *)

ValuesTo(n, g) ==
  g = [m \in 0 .. n |->
         [ip \in IPs |-> IF m = 0 THEN 0 ELSE g[m - 1][ip] * Radix + ip[m]]]

\* Value is defined for any number of bytes up to all of them.
LEMMA ValuesExist == ValuesTo(Bytes, Value)
  <1> DEFINE S == {n \in Nat : \E g : ValuesTo(n, g)}
             Entry(g, m) == [ip \in IPs |-> IF m = 0 THEN 0 ELSE g[m - 1][ip] * Radix + ip[m]]
  <1>1. 0 \in S
    <2>1. ValuesTo(0, [m \in 0 .. 0 |-> [ip \in IPs |-> 0]])
      BY DEF ValuesTo
    <2> QED
      BY <2>1
  <1>2. ASSUME NEW n \in 0 .. Bytes - 1, n \in S
        PROVE  n + 1 \in S
    <2>1. PICK g : ValuesTo(n, g)
      BY <1>2
    <2> DEFINE h == [m \in 0 .. n + 1 |-> IF m = n + 1 THEN Entry(g, n + 1) ELSE g[m]]
    <2>2. \A m \in 0 .. n : h[m] = g[m]
      OBVIOUS
    <2>3. \A m \in 0 .. n : g[m] = Entry(g, m)
      BY <2>1 DEF ValuesTo
    <2>4. h[n + 1] = Entry(g, n + 1)
      OBVIOUS
    <2>5. h = [m \in 0 .. n + 1 |-> h[m]]
      OBVIOUS
    <2> HIDE DEF h
    <2>6. \A m \in 0 .. n : Entry(h, m) = Entry(g, m)
      <3> SUFFICES ASSUME NEW m \in 0 .. n
                   PROVE  Entry(h, m) = Entry(g, m)
        OBVIOUS
      <3>1. m # 0 => h[m - 1] = g[m - 1]
        BY <2>2
      <3> QED
        BY <3>1
    <2>7. Entry(h, n + 1) = Entry(g, n + 1)
      <3>1. h[(n + 1) - 1] = g[(n + 1) - 1]
        BY <2>2
      <3> QED
        BY <3>1
    <2> HIDE DEF Entry
    <2>8. \A m \in 0 .. n + 1 : h[m] = Entry(h, m)
      BY <2>2, <2>3, <2>4, <2>6, <2>7
    <2>9. h = [m \in 0 .. n + 1 |-> Entry(h, m)]
      BY <2>5, <2>8
    <2>10. ValuesTo(n + 1, h)
      BY <2>9 DEF ValuesTo, Entry
    <2> QED
      BY <2>10
  <1> HIDE DEF S
  <1>3. Bytes \in S
    BY <1>1, <1>2, Upwards, Sizes
  <1> USE DEF S
  <1>4. PICK g : ValuesTo(Bytes, g)
    BY <1>3
  <1> QED
    BY <1>4 DEF ValuesTo, Value

\* The recursion.
LEMMA Values ==
  ASSUME NEW ip \in IPs
  PROVE  /\ Value[0][ip] = 0
         /\ \A n \in 0 .. Bytes - 1 : Value[n + 1][ip] = Value[n][ip] * Radix + ip[n + 1]
  <1>1. \A m \in 0 .. Bytes :
          Value[m][ip] = IF m = 0 THEN 0 ELSE Value[m - 1][ip] * Radix + ip[m]
    <2>1. ASSUME NEW g, ValuesTo(Bytes, g)
          PROVE  \A m \in 0 .. Bytes :
                   g[m][ip] = IF m = 0 THEN 0 ELSE g[m - 1][ip] * Radix + ip[m]
      <3> SUFFICES ASSUME NEW m \in 0 .. Bytes
                   PROVE  g[m][ip] = IF m = 0 THEN 0 ELSE g[m - 1][ip] * Radix + ip[m]
        OBVIOUS
      <3>1. g[m] = [a \in IPs |-> IF m = 0 THEN 0 ELSE g[m - 1][a] * Radix + a[m]]
        BY <2>1 DEF ValuesTo
      <3> QED
        BY <3>1
    <2> QED
      BY <2>1, ValuesExist
  <1> QED
    BY <1>1, Sizes

\* The bytes of an address.
LEMMA ByteValues ==
  \A ip \in IPs : \A n \in 1 .. Bytes : ip[n] \in Nat /\ ip[n] <= Radix - 1
  BY RadixIsLarge DEF IPs

\* Bytes on the left have values.
LEMMA ValuesAreNumbers ==
  ASSUME NEW ip \in IPs
  PROVE  \A n \in 0 .. Bytes : Value[n][ip] \in Nat
  <1> DEFINE S == {n \in Nat : Value[n][ip] \in Nat}
  <1>1. 0 \in S
    BY Values
  <1>2. ASSUME NEW n \in 0 .. Bytes - 1, n \in S
        PROVE  n + 1 \in S
    <2>1. /\ Value[n + 1][ip] = Value[n][ip] * Radix + ip[n + 1]
          /\ Value[n][ip] \in Nat /\ ip[n + 1] \in Nat /\ Radix \in Nat
      BY <1>2, Values, ByteValues, RadixIsLarge, Sizes
    <2>2. \A x, y, z \in Nat : x * y + z \in Nat
      OBVIOUS
    <2> QED
      BY <2>1, <2>2
  <1> HIDE DEF S
  <1>3. \A n \in 0 .. Bytes : n \in S
    BY <1>1, <1>2, Upwards, Sizes
  <1> QED
    BY <1>3 DEF S

\* A number and a byte have one value together.
LEMMA DigitsDiffer ==
  ASSUME NEW v \in Nat, NEW w \in Nat, NEW r \in Nat \ {0},
         NEW a \in 0 .. r - 1, NEW b \in 0 .. r - 1, v * r + a = w * r + b
  PROVE  v = w /\ a = b
  <1>1. \A x, y \in Nat : x < y => x * r + r <= y * r
    <2> SUFFICES ASSUME NEW x \in Nat, NEW y \in Nat, x < y
                 PROVE  x * r + r <= y * r
      OBVIOUS
    <2>1. PICK d \in Nat : y = (x + 1) + d
      BY y - (x + 1) \in Nat
    <2>2. y * r = (x * r + r) + d * r /\ d * r \in Nat /\ x * r \in Nat
      BY <2>1
    <2> QED
      BY <2>2
  <1>2. v * r \in Nat /\ w * r \in Nat
    OBVIOUS
  <1>3. ~ (v < w) /\ ~ (w < v)
    BY <1>1, <1>2
  <1>4. v = w
    BY <1>3
  <1> QED
    BY <1>2, <1>4

\* Different addresses have different numbers.
LEMMA NumbersDiffer ==
  ASSUME NEW x \in IPs, NEW y \in IPs, Number(x) = Number(y)
  PROVE  x = y
  <1> DEFINE S == {n \in Nat : Value[n][x] = Value[n][y] => \A j \in 1 .. n : x[j] = y[j]}
  <1>1. 0 \in S
    OBVIOUS
  <1>2. ASSUME NEW n \in 0 .. Bytes - 1, n \in S
        PROVE  n + 1 \in S
    <2> SUFFICES ASSUME Value[n + 1][x] = Value[n + 1][y]
                 PROVE  \A j \in 1 .. n + 1 : x[j] = y[j]
      OBVIOUS
    <2>1. /\ Value[n][x] \in Nat /\ Value[n][y] \in Nat
          /\ x[n + 1] \in 0 .. Radix - 1 /\ y[n + 1] \in 0 .. Radix - 1
          /\ Radix \in Nat \ {0}
      BY ValuesAreNumbers, ByteValues, RadixIsLarge, Sizes
    <2>2. Value[n][x] * Radix + x[n + 1] = Value[n][y] * Radix + y[n + 1]
      BY Values
    <2>3. Value[n][x] = Value[n][y] /\ x[n + 1] = y[n + 1]
      <3> DEFINE v == Value[n][x]
                 w == Value[n][y]
      <3>1. /\ v \in Nat /\ w \in Nat
            /\ v * Radix + x[n + 1] = w * Radix + y[n + 1]
        BY <2>1, <2>2
      <3> HIDE DEF v, w
      <3>2. v = w /\ x[n + 1] = y[n + 1]
        BY <2>1, <3>1, DigitsDiffer
      <3> QED
        BY <3>2 DEF v, w
    <2>4. \A j \in 1 .. n : x[j] = y[j]
      BY <1>2, <2>3
    <2> QED
      BY <2>3, <2>4, Sizes
  <1> HIDE DEF S
  <1>3. Bytes \in S
    BY <1>1, <1>2, Upwards, Sizes
  <1>4. \A j \in 1 .. Bytes : x[j] = y[j]
    BY <1>3 DEF S, Number
  <1>5. x = [j \in 1 .. Bytes |-> x[j]] /\ y = [j \in 1 .. Bytes |-> y[j]]
    BY DEF IPs
  <1> QED
    BY <1>4, <1>5

----------------------------------------------------------------------------
(* incIP counts. *)

\* The last address of the space.
Ones == [j \in 1 .. Bytes |-> Radix - 1]

\* Its number is the number of all others.
LEMMA SpaceSize == Ones \in IPs /\ Number(Ones) + 1 = Pow2[Width]
  <1>1. Ones \in IPs
    BY RadixIsLarge DEF Ones, IPs
  <1> DEFINE S == {n \in Nat : Value[n][Ones] + 1 = Pow2[Bits * n]}
  <1>2. 0 \in S
    <2>1. Bits * 0 = 0
      BY Sizes
    <2> QED
      BY <1>1, <2>1, Values, Powers
  <1>3. ASSUME NEW n \in 0 .. Bytes - 1, n \in S
        PROVE  n + 1 \in S
    <2> DEFINE v == Value[n][Ones]
               k == Bits * n
    <2>1. v \in Nat /\ v + 1 = Pow2[k] /\ k \in Nat
      BY <1>1, <1>3, ValuesAreNumbers, Sizes
    <2>2. Bits * (n + 1) = k + Bits /\ k + Bits <= Width
      <3> DEFINE d == Bytes - (n + 1)
      <3>1. d \in Nat /\ Bytes = (n + 1) + d
        BY Sizes
      <3> HIDE DEF d
      <3>2. Bits * Bytes = Bits * (n + 1) + Bits * d /\ Bits * d \in Nat
        BY <3>1, Sizes
      <3> QED
        BY <3>2, Sizes DEF Width
    <2>3. Value[n + 1][Ones] = v * Radix + (Radix - 1)
      BY <1>1, Values, Sizes DEF Ones
    <2> HIDE DEF v, k
    <2>4. Pow2[k + Bits] = (v + 1) * Radix
      BY <2>1, <2>2, PowersMultiply, Sizes DEF Radix
    <2>5. v * Radix + (Radix - 1) + 1 = (v + 1) * Radix
      BY <2>1, RadixIsLarge
    <2> QED
      BY <2>2, <2>3, <2>4, <2>5
  <1> HIDE DEF S
  <1>4. Bytes \in S
    BY <1>2, <1>3, Upwards, Sizes
  <1> QED
    BY <1>1, <1>4 DEF S, Number, Width

\* It is the largest.
LEMMA LastAddress ==
  ASSUME NEW ip \in IPs
  PROVE  Number(ip) \in Nat /\ Number(ip) <= Number(Ones)
  <1>1. Ones \in IPs
    BY SpaceSize
  <1> DEFINE S == {n \in Nat : Value[n][ip] <= Value[n][Ones]}
  <1>2. 0 \in S
    BY <1>1, Values
  <1>3. ASSUME NEW n \in 0 .. Bytes - 1, n \in S
        PROVE  n + 1 \in S
    <2> DEFINE v == Value[n][ip]
               w == Value[n][Ones]
               a == ip[n + 1]
    <2>1. /\ v \in Nat /\ w \in Nat /\ v <= w
          /\ a \in Nat /\ a <= Radix - 1
      BY <1>1, <1>3, ValuesAreNumbers, ByteValues, Sizes
    <2>2. /\ Value[n + 1][ip] = v * Radix + a
          /\ Value[n + 1][Ones] = w * Radix + (Radix - 1)
      BY <1>1, Values, Sizes DEF Ones
    <2> HIDE DEF v, w, a
    <2>3. v * Radix <= w * Radix
      <3>1. PICK d \in Nat : w = v + d
        BY <2>1, w - v \in Nat
      <3>2. w * Radix = v * Radix + d * Radix /\ d * Radix \in Nat /\ v * Radix \in Nat
        BY <2>1, <3>1, RadixIsLarge
      <3> QED
        BY <3>2
    <2>4. v * Radix \in Nat /\ w * Radix \in Nat
      BY <2>1, RadixIsLarge
    <2> QED
      BY <2>1, <2>2, <2>3, <2>4, RadixIsLarge
  <1> HIDE DEF S
  <1>4. Bytes \in S
    BY <1>2, <1>3, Upwards, Sizes
  <1> QED
    BY <1>4, ValuesAreNumbers, Sizes DEF S, Number

\* Every byte after n is at its last value: the carry of incIP reaches n.
Carries(ip, n) == \A k \in n + 1 .. Bytes : ip[k] = Radix - 1

\* One byte of incIP, for each of the cases it distinguishes.
LEMMA NextByte ==
  ASSUME NEW ip \in IPs, NEW n \in 1 .. Bytes
  PROVE  /\ ~Carries(ip, n) => IncIP(ip)[n] = ip[n]
         /\ Carries(ip, n) /\ ip[n] # Radix - 1 => IncIP(ip)[n] = ip[n] + 1
         /\ Carries(ip, n) /\ ip[n] = Radix - 1 => IncIP(ip)[n] = 0
  <1>1. IncIP(ip)[n] = IF Carries(ip, n) THEN (ip[n] + 1) % Radix ELSE ip[n]
    BY DEF IncIP, Carries
  <1>2. ip[n] \in Nat /\ ip[n] <= Radix - 1 /\ Radix \in Nat \ {0}
    BY ByteValues, RadixIsLarge
  <1>3. ip[n] # Radix - 1 => (ip[n] + 1) % Radix = ip[n] + 1
    BY <1>2
  <1>4. ip[n] = Radix - 1 => (ip[n] + 1) % Radix = 0
    BY <1>2
  <1> QED
    BY <1>1, <1>3, <1>4

\* incIP gives the next address, and after the last one the first.
LEMMA NextAddress ==
  ASSUME NEW ip \in IPs
  PROVE  /\ IncIP(ip) \in IPs
         /\ Number(IncIP(ip)) = IF ip = Ones THEN 0 ELSE Number(ip) + 1
  <1> DEFINE inc == IncIP(ip)
             Full(n) == \A k \in 1 .. n : ip[k] = Radix - 1
             Next(n) == IF Carries(ip, n) THEN IF Full(n) THEN 0 ELSE Value[n][ip] + 1
                        ELSE Value[n][ip]
             S == {n \in Nat : Value[n][inc] = Next(n)}
  <1>1. inc \in IPs
    <2>1. \A n \in 1 .. Bytes : inc[n] \in 0 .. Radix - 1
      BY NextByte, ByteValues, RadixIsLarge
    <2>2. inc = [n \in 1 .. Bytes |-> inc[n]]
      BY DEF IncIP
    <2> QED
      BY <2>1, <2>2 DEF IPs
  <1> HIDE DEF inc
  <1>2. 0 \in S
    BY <1>1, Values
  <1>3. ASSUME NEW n \in 0 .. Bytes - 1, n \in S
        PROVE  n + 1 \in S
    <2> DEFINE v == Value[n][ip]
               a == ip[n + 1]
    <2>1. /\ Value[n + 1][ip] = v * Radix + a
          /\ Value[n + 1][inc] = Next(n) * Radix + inc[n + 1]
      BY <1>1, <1>3, Values, Sizes
    <2>2. /\ Carries(ip, n) <=> Carries(ip, n + 1) /\ a = Radix - 1
          /\ Full(n + 1) <=> Full(n) /\ a = Radix - 1
      BY Sizes DEF Carries
    <2>3. /\ ~Carries(ip, n + 1) => inc[n + 1] = a
          /\ Carries(ip, n + 1) /\ a # Radix - 1 => inc[n + 1] = a + 1
          /\ Carries(ip, n + 1) /\ a = Radix - 1 => inc[n + 1] = 0
      BY NextByte, Sizes DEF inc
    <2>4. v \in Nat /\ a \in Nat /\ v * Radix \in Nat /\ Radix \in Nat
      BY ValuesAreNumbers, ByteValues, RadixIsLarge, Sizes
    <2> HIDE DEF v, a, Full
    <2>5. Value[n + 1][inc] = Next(n + 1)
      <3>1. CASE ~Carries(ip, n + 1)
        BY <2>1, <2>2, <2>3, <3>1 DEF v
      <3>2. CASE Carries(ip, n + 1) /\ a # Radix - 1
        <4>1. Value[n + 1][inc] = v * Radix + (a + 1)
          BY <2>1, <2>2, <2>3, <3>2 DEF v
        <4> QED
          BY <2>1, <2>2, <2>4, <3>2, <4>1
      <3>3. CASE Carries(ip, n + 1) /\ a = Radix - 1 /\ Full(n)
        BY <2>1, <2>2, <2>3, <2>4, <3>3
      <3>4. CASE Carries(ip, n + 1) /\ a = Radix - 1 /\ ~Full(n)
        <4>1. Value[n + 1][inc] = (v + 1) * Radix + 0
          BY <2>1, <2>2, <2>3, <3>4 DEF v
        <4>2. (v + 1) * Radix + 0 = v * Radix + (Radix - 1) + 1
          BY <2>4
        <4> QED
          BY <2>1, <2>2, <3>4, <4>1, <4>2
      <3> QED
        BY <3>1, <3>2, <3>3, <3>4
    <2> QED
      BY <2>5
  <1> HIDE DEF S
  <1>4. Bytes \in S
    BY <1>2, <1>3, Upwards, Sizes
  <1>5. Carries(ip, Bytes)
    BY Sizes DEF Carries
  <1>6. Full(Bytes) <=> ip = Ones
    <2>1. ip = [k \in 1 .. Bytes |-> ip[k]]
      BY DEF IPs
    <2> QED
      BY <2>1 DEF Ones
  <1>7. Number(inc) = IF ip = Ones THEN 0 ELSE Number(ip) + 1
    BY <1>4, <1>5, <1>6 DEF S, Number
  <1> QED
    BY <1>1, <1>7 DEF inc

----------------------------------------------------------------------------
(* Subnets. *)

\* A subnet, with a prefix of at least one bit, is smaller than the space, which
\* has more than the two addresses that the search leaves out.
LEMMA SubnetSizes ==
  ASSUME prefix \in 1 .. Width
  PROVE  /\ Hosts \in Nat \ {0} /\ Hosts <= Number(Ones)
         /\ Number(Ones) \in Nat /\ Number(Ones) >= 3
  <1>1. Hosts \in Nat \ {0}
    BY PowersArePositive, Sizes DEF Hosts
  <1>2. Pow2[Width] = 2 * (Hosts * Pow2[prefix - 1]) /\ Pow2[prefix - 1] \in Nat \ {0}
    <2>1. prefix - 1 \in 0 .. Width - 1 /\ (prefix - 1) + 1 = prefix
          /\ Width - prefix \in Nat /\ (Width - prefix) + prefix = Width
      BY Sizes
    <2>2. Pow2[prefix] = 2 * Pow2[prefix - 1] /\ Pow2[prefix - 1] \in Nat \ {0}
      BY <2>1, Powers, PowersArePositive, Sizes
    <2>3. Pow2[Width] = Hosts * Pow2[prefix]
      BY <2>1, PowersMultiply, Sizes DEF Hosts
    <2>4. \A x, y \in Nat : x * (2 * y) = 2 * (x * y)
      OBVIOUS
    <2> QED
      BY <1>1, <2>2, <2>3, <2>4
  <1>3. Hosts * Pow2[prefix - 1] \in Nat /\ Hosts * Pow2[prefix - 1] >= Hosts
    <2>1. \A x, y \in Nat \ {0} : x * y \in Nat /\ x * y >= x
      <3> SUFFICES ASSUME NEW x \in Nat \ {0}, NEW y \in Nat \ {0}
                   PROVE  x * y \in Nat /\ x * y >= x
        OBVIOUS
      <3> DEFINE z == y - 1
      <3>1. z \in Nat /\ y = 1 + z
        OBVIOUS
      <3> HIDE DEF z
      <3>2. x * y = x + x * z /\ x * z \in Nat
        BY <3>1
      <3> QED
        BY <3>2
    <2> QED
      BY <1>1, <1>2, <2>1
  <1>4. Pow2[Width] = Radix * Pow2[Width - Bits] /\ Pow2[Width - Bits] \in Nat \ {0}
    BY PowersMultiply, PowersArePositive, Sizes DEF Radix
  <1>5. Pow2[Width] >= 4
    <2> DEFINE z == Pow2[Width - Bits] - 1
               r == Radix
    <2>1. z \in Nat /\ Pow2[Width] = r * (1 + z) /\ r \in Nat /\ r >= 4
      BY <1>4, RadixIsLarge
    <2> HIDE DEF z, r
    <2>2. r * (1 + z) = r + r * z /\ r * z \in Nat
      BY <2>1
    <2> QED
      BY <2>1, <2>2
  <1>6. Number(Ones) \in Nat /\ Number(Ones) + 1 = Pow2[Width]
    BY SpaceSize, LastAddress
  <1> QED
    BY <1>1, <1>2, <1>3, <1>5, <1>6

\* The addresses of a subnet follow its base.
LEMMA SubnetIsAnInterval ==
  ASSUME prefix \in 1 .. Width, base \in IPs, Number(base) % Hosts = 0
  PROVE  \A ip \in IPs :
           Contains(ip) <=> Number(base) <= Number(ip) /\ Number(ip) < Number(base) + Hosts
  <1> SUFFICES ASSUME NEW ip \in IPs
               PROVE  Contains(ip) <=>
                        Number(base) <= Number(ip) /\ Number(ip) < Number(base) + Hosts
    OBVIOUS
  <1> DEFINE a == Number(ip)
             b == Number(base)
             h == Hosts
  <1>1. a \in Nat /\ b \in Nat /\ h \in Nat \ {0} /\ b % h = 0
    BY LastAddress, SubnetSizes
  <1>2. Contains(ip) <=> a \div h = b \div h
    BY DEF Contains
  <1> HIDE DEF a, b, h
  <1>3. a \div h = b \div h => b <= a /\ a < b + h
    BY <1>1, SMT
  <1>4. b <= a /\ a < b + h => a \div h = b \div h
    BY <1>1, SMT
  <1>5. Contains(ip) <=> b <= a /\ a < b + h
    BY <1>2, <1>3, <1>4
  <1> QED
    BY <1>5 DEF a, b, h

----------------------------------------------------------------------------
(* The search. *)

\* The search begins with the first candidate, or with no candidate at all.
LEMMA SearchStarts == Init => AllocInv
  <1> SUFFICES ASSUME Init
               PROVE  AllocInv
    OBVIOUS
  <1> DEFINE b == Number(base)
             top == Number(Ones)
             z == IncIP(base)
  <1>1. /\ prefix \in 1 .. Width /\ base \in IPs /\ b % Hosts = 0
        /\ current = IncIP(z) /\ answer = "searching"
    BY DEF Init
  <1>2. /\ b \in Nat /\ b <= top /\ top \in Nat /\ top >= 3
        /\ \A ip \in IPs : Number(ip) \in Nat /\ Number(ip) <= top
    BY <1>1, LastAddress, SubnetSizes
  <1>3. /\ z \in IPs /\ Number(z) = IF base = Ones THEN 0 ELSE b + 1
        /\ current \in IPs /\ Number(current) = IF z = Ones THEN 0 ELSE Number(z) + 1
    BY <1>1, NextAddress
  <1>4. \A ip \in Candidates : ip \in IPs /\ Number(ip) >= b + 2
    BY DEF Candidates
  <1>5. Contains(current) => b <= Number(current)
    BY <1>1, <1>3, SubnetIsAnInterval
  <1> HIDE DEF b, top, z
  <1>6. CASE base # Ones /\ z # Ones
    <2>1. Number(current) = b + 2
      BY <1>2, <1>3, <1>6
    <2> QED
      BY <1>1, <1>2, <1>3, <1>4, <2>1 DEF AllocInv, AnswerIsLowestFree, b
  <1>7. CASE base = Ones \/ z = Ones
    <2>1. b >= top - 1 /\ Number(current) <= 1
      BY <1>2, <1>3, <1>7 DEF b, top
    <2>2. ~Contains(current) /\ Candidates = {}
      BY <1>2, <1>3, <1>4, <1>5, <2>1
    <2> QED
      BY <1>1, <1>3, <2>2 DEF AllocInv, AnswerIsLowestFree, b
  <1> QED
    BY <1>6, <1>7

\* One round of the loop.
LEMMA SearchGoesOn == AllocInv /\ [Search]_allocVars => AllocInv'
  <1> SUFFICES ASSUME AllocInv, [Search]_allocVars
               PROVE  AllocInv'
    OBVIOUS
  <1> DEFINE b == Number(base)
             n == Number(current)
             top == Number(Ones)
  <1>1. /\ prefix \in 1 .. Width /\ base \in IPs /\ current \in IPs /\ b % Hosts = 0
        /\ \A ip \in IPs : Number(ip) \in Nat /\ Number(ip) <= top
        /\ top \in Nat /\ b \in Nat /\ n \in Nat
    BY LastAddress, SubnetSizes DEF AllocInv
  <1>2. \A ip \in IPs : Contains(ip) <=> b <= Number(ip) /\ Number(ip) < b + Hosts
    BY <1>1, SubnetIsAnInterval
  <1>3. Hosts \in Nat \ {0} /\ Hosts <= top
    BY <1>1, SubnetSizes
  <1>4. Candidates = {ip \in IPs : Contains(ip) /\ Number(ip) >= b + 2}
    BY DEF Candidates
  <1>5. answer = "searching" =>
          \/ n >= b + 2 /\ \A ip \in Candidates : Number(ip) < n => ip \in used
          \/ ~Contains(current) /\ Candidates \subseteq used
    BY DEF AllocInv
  <1> HIDE DEF b, n, top
  <1>6. CASE UNCHANGED allocVars
    BY <1>6 DEF AllocInv, AnswerIsLowestFree, Candidates, Contains, Hosts, allocVars
  <1>7. CASE Search
    <2>1. /\ UNCHANGED <<base, prefix, used>> /\ answer = "searching"
          /\ Hosts' = Hosts /\ Candidates' = Candidates
          /\ \A ip : Contains(ip)' <=> Contains(ip)
      BY <1>7 DEF Search, Hosts, Contains, Candidates
    <2>2. CASE ~Contains(current) /\ answer' = "none" /\ UNCHANGED current
      <3>1. Candidates \subseteq used
        <4>1. CASE n >= b + 2 /\ \A ip \in Candidates : Number(ip) < n => ip \in used
          <5>1. n >= b + Hosts
            BY <1>1, <1>2, <1>3, <2>2, <4>1 DEF n
          <5>2. \A ip \in Candidates : Number(ip) < b + Hosts
            BY <1>2, <1>4
          <5>3. \A ip \in Candidates : Number(ip) < n
            BY <1>1, <1>3, <1>4, <5>1, <5>2
          <5> QED
            BY <4>1, <5>3
        <4> QED
          BY <1>5, <2>1, <4>1
      <3> QED
        BY <1>1, <2>1, <2>2, <3>1 DEF AllocInv, AnswerIsLowestFree, b
    <2>3. CASE /\ Contains(current) /\ current \notin used
               /\ answer' = "found" /\ UNCHANGED current
      <3>1. n >= b + 2 /\ \A ip \in Candidates : Number(ip) < n => ip \in used
        BY <1>5, <2>1, <2>3
      <3>2. current \in Candidates \ used
        BY <1>1, <1>4, <2>3, <3>1 DEF n
      <3>3. \A ip \in Candidates \ used : n <= Number(ip)
        BY <1>1, <1>4, <3>1
      <3> QED
        BY <1>1, <2>1, <2>3, <3>2, <3>3 DEF AllocInv, AnswerIsLowestFree, b, n
    <2>4. CASE /\ Contains(current) /\ current \in used
               /\ current' = IncIP(current) /\ UNCHANGED answer
      <3>1. n >= b + 2 /\ \A ip \in Candidates : Number(ip) < n => ip \in used
        BY <1>5, <2>1, <2>4
      <3>2. current' \in IPs /\ Number(current') = IF current = Ones THEN 0 ELSE n + 1
        BY <1>1, <2>4, NextAddress DEF n
      <3>3. CASE current # Ones
        <4>1. \A ip \in Candidates : Number(ip) < n + 1 => ip \in used
          <5> SUFFICES ASSUME NEW ip \in Candidates, Number(ip) < n + 1
                       PROVE  ip \in used
            OBVIOUS
          <5>1. CASE Number(ip) = n
            BY <1>1, <1>4, <2>4, <5>1, NumbersDiffer DEF n
          <5>2. CASE Number(ip) # n
            BY <1>1, <1>4, <3>1, <5>2
          <5> QED
            BY <5>1, <5>2
        <4>2. Number(current') >= b + 2
          BY <1>1, <3>1, <3>2, <3>3
        <4>3. \A ip \in Candidates : Number(ip) < Number(current') => ip \in used
          BY <3>2, <3>3, <4>1
        <4> QED
          BY <1>1, <2>1, <2>4, <3>2, <4>2, <4>3 DEF AllocInv, AnswerIsLowestFree, b
      <3>4. CASE current = Ones
        <4>1. n = top
          BY <3>4 DEF n, top
        <4>2. \A ip \in Candidates : ip \in used
          <5> SUFFICES ASSUME NEW ip \in Candidates
                       PROVE  ip \in used
            OBVIOUS
          <5>1. CASE Number(ip) = n
            BY <1>1, <1>4, <2>4, <5>1, NumbersDiffer DEF n
          <5>2. CASE Number(ip) # n
            BY <1>1, <1>4, <3>1, <4>1, <5>2
          <5> QED
            BY <5>1, <5>2
        <4>3. ~Contains(current')
          BY <1>1, <1>2, <1>3, <2>4, <3>2, <3>4, <4>1 DEF n
        <4> QED
          BY <1>1, <2>1, <2>4, <3>2, <4>2, <4>3 DEF AllocInv, AnswerIsLowestFree, b
      <3> QED
        BY <3>3, <3>4
    <2> QED
      BY <1>7, <2>2, <2>3, <2>4 DEF Search
  <1> QED
    BY <1>6, <1>7

\* The search keeps its invariant, in every subnet and with any used addresses.
THEOREM SearchInvariant == Spec => []AllocInv
  <1> QED
    BY SearchStarts, SearchGoesOn, PTL DEF Spec

\* allocateIP returns the lowest free address of the subnet, and gives up only
\* when there is none, for addresses and bytes of any width: in particular at the
\* carry from byte to byte and at the end of the address space.
THEOREM LowestFreeAddress == Spec => []AnswerIsLowestFree
  <1>1. AllocInv => AnswerIsLowestFree
    BY DEF AllocInv
  <1> QED
    BY <1>1, SearchInvariant, PTL
============================================================================
