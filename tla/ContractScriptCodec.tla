------------------------- MODULE ContractScriptCodec -------------------------
(***************************************************************************)
(* What the pushes and the state section of ContractScript carry.          *)
(*                                                                         *)
(* Numbers and lengths are read back from their bytes, a push is one       *)
(* element of a script, and a state section is accepted exactly if it is   *)
(* whole.  The recursive functions of the module are shown to be what      *)
(* their equations say by RankRecursion; inductions go by sets of numbers. *)
(*                                                                         *)
(* A sequence of bytes is clean if a search for an OP_RETURN that comes to *)
(* its start comes to its end, whatever is around it (Clean).              *)
(***************************************************************************)
EXTENDS ContractScript, RecursionProofs, SequenceTheorems

(* What a script is made of.                                               *)
Bytes == Seq(Byte)

(* A script has a length, and its elements are numbers below 256.          *)
LEMMA BytesFacts ==
  ASSUME NEW s \in Bytes
  PROVE  Len(s) \in Nat /\ DOMAIN s = 1..Len(s)
         /\ \A k \in 1..Len(s) : s[k] \in Byte /\ s[k] \in Nat /\ s[k] <= 255
  <1>1. Len(s) \in Nat /\ DOMAIN s = 1..Len(s) /\ \A k \in 1..Len(s) : s[k] \in Byte
    BY DEF Bytes
  <1>2. \A b \in Byte : b \in Nat /\ b <= 255
    BY DEF Byte
  <1> QED BY <1>1, <1>2

(* A function on 1..size with bytes for values is a script.                *)
LEMMA BytesMade ==
  ASSUME NEW size \in Nat, NEW s, s = [i \in 1..size |-> s[i]], \A i \in 1..size : s[i] \in Byte
  PROVE  s \in Bytes /\ Len(s) = size
  <1>1. s \in [1..size -> Byte]  BY Zenon
  <1> QED BY <1>1 DEF Bytes

-----------------------------------------------------------------------------
(* Slices.                                                                 *)

(* The slice between two offsets is the middle one of three parts.         *)
LEMMA SliceMiddle ==
  ASSUME NEW S, NEW a \in Seq(S), NEW b \in Seq(S), NEW c \in Seq(S)
  PROVE  Slice(a \o b \o c, Len(a), Len(a) + Len(b)) = b
  BY DEF Slice

(* A slice is a sequence over the same set.                                *)
LEMMA SliceType ==
  ASSUME NEW S, NEW s \in Seq(S), NEW from \in Nat, NEW to \in Nat
  PROVE  Slice(s, from, to) \in Seq(S)
  BY DEF Slice

(* Concatenation is associative.                                           *)
LEMMA Assoc ==
  ASSUME NEW S, NEW a \in Seq(S), NEW b \in Seq(S), NEW c \in Seq(S)
  PROVE  (a \o b) \o c = a \o (b \o c)
  OBVIOUS

(* Three sequences whose grouping does not matter.                         *)
Associative(a, b, c) == (a \o b) \o c = a \o (b \o c)

LEMMA SeqAssociative ==
  ASSUME NEW S, NEW a \in Seq(S), NEW b \in Seq(S), NEW c \in Seq(S)
  PROVE  Associative(a, b, c)
  BY Assoc DEF Associative

(* That of scripts, too.                                                   *)
LEMMA BytesAssociative ==
  ASSUME NEW a \in Bytes, NEW b \in Bytes, NEW c \in Bytes PROVE Associative(a, b, c)
  BY SeqAssociative DEF Bytes
LEMMA BytesAssoc ==
  ASSUME NEW a \in Bytes, NEW b \in Bytes, NEW c \in Bytes
  PROVE  (a \o b) \o c = a \o (b \o c)
  <1>1. Associative(a, b, c)  BY BytesAssociative
  <1> QED BY <1>1 DEF Associative

(* A sequence is its first i elements and the rest.                        *)
LEMMA Cut ==
  ASSUME NEW S, NEW s \in Seq(S), NEW i \in 0..Len(s)
  PROVE  /\ SubSeq(s, 1, i) \in Seq(S) /\ SubSeq(s, i + 1, Len(s)) \in Seq(S)
         /\ Len(SubSeq(s, 1, i)) = i /\ Len(SubSeq(s, i + 1, Len(s))) = Len(s) - i
         /\ s = SubSeq(s, 1, i) \o SubSeq(s, i + 1, Len(s))
  <1> DEFINE a == SubSeq(s, 1, i)
             b == SubSeq(s, i + 1, Len(s))
  <1>1. a \in Seq(S) /\ b \in Seq(S) /\ Len(a) = i /\ Len(b) = Len(s) - i
    OBVIOUS
  <1>0. /\ Len(s) \in Nat /\ \A k \in 1..i : a[k] = s[k]
        /\ \A k \in 1..(Len(s) - i) : b[k] = s[k + i]
    OBVIOUS
  <1> HIDE DEF a, b
  <1>2. a \o b \in Seq(S) /\ Len(a \o b) = Len(s)
    <2>1. a \o b \in Seq(S) /\ Len(a \o b) = Len(a) + Len(b)
      BY <1>1, ConcatProperties
    <2> QED BY <1>0, <1>1, <2>1
  <1>3. \A k \in 1..Len(s) : (a \o b)[k] = s[k]
    BY <1>0, <1>1
  <1>4. s = a \o b
    BY <1>2, <1>3, SeqEqual
  <1> QED BY <1>1, <1>4 DEF a, b

-----------------------------------------------------------------------------
(* Numbers.                                                                *)

(* What is left of n when k bytes are taken away.                          *)
Leaves(n, size, left) ==
  left \in [0..size -> Nat] /\ left[0] = n /\ \A k \in 1..size : left[k] = left[k - 1] \div 256

(* A number is its lowest byte and 256 times the rest.                     *)
LEMMA Divided ==
  ASSUME NEW n \in Nat
  PROVE  n \div 256 \in Nat /\ n % 256 \in Byte /\ n = (n % 256) + 256 * (n \div 256)
  BY DEF Byte

(* The bytes that LittleEndian takes away, one by one.                     *)
LEMMA LittleEndianParts ==
  ASSUME NEW n \in Nat, NEW size \in Nat
  PROVE  \E left : /\ Leaves(n, size, left)
                   /\ LittleEndian(n, size) = [i \in 1..size |-> left[i - 1] % 256]
  <1> DEFINE body(k, g) == IF k = 0 THEN n ELSE g[k - 1] \div 256
             H == [k \in 0..size |-> [g \in [0..size -> Nat] |-> body(k, g)]]
             rank == [k \in 0..size |-> k]
             left == CHOOSE f : f = [k \in 0..size |-> body(k, f)]
  <1>1. \E f : Solves(0..size, Nat, H, f)
    <2>1. rank \in [0..size -> Nat] /\ Nat # {}  OBVIOUS
    <2>2. \A k \in 0..size : \A g \in [0..size -> Nat] : body(k, g) \in Nat
      BY Divided
    <2>3. \A k \in 0..size : \A g \in [0..size -> Nat] : H[k][g] \in Nat
      BY <2>2
    <2>4. ASSUME NEW k \in 0..size, NEW g \in [0..size -> Nat], NEW h \in [0..size -> Nat],
                 \A y \in 0..size : rank[y] < rank[k] => g[y] = h[y]
          PROVE  H[k][g] = H[k][h]
      <3>1. k # 0 => k - 1 \in 0..size /\ rank[k - 1] < rank[k]  OBVIOUS
      <3>2. body(k, g) = body(k, h)  BY <2>4, <3>1
      <3> QED BY <3>2
    <2>5. \A k \in 0..size : \A g, h \in [0..size -> Nat] :
             (\A y \in 0..size : rank[y] < rank[k] => g[y] = h[y]) => H[k][g] = H[k][h]
      BY <2>4
    <2> HIDE DEF H, rank, body, left
    <2>6. Ranked(0..size, Nat, rank, H)  BY <2>1, <2>3, <2>5, Zenon DEF Ranked
    <2> QED BY <2>6, RankRecursion, Zenon
  <1>2. PICK f \in [0..size -> Nat] : \A k \in 0..size : f[k] = H[k][f]
    BY <1>1 DEF Solves
  <1>3. f = [k \in 0..size |-> body(k, f)]
    BY <1>2
  <1>4. left = [k \in 0..size |-> body(k, left)]
    <2>1. left = CHOOSE g : g = [k \in 0..size |-> body(k, g)]  OBVIOUS
    <2> HIDE DEF left, body
    <2> QED BY <1>3, <2>1, Zenon
  <1>5. LittleEndian(n, size) = [i \in 1..size |-> left[i - 1] % 256]
    BY DEF LittleEndian
  <1> HIDE DEF left
  <1> DEFINE P == {k \in 0..size : left[k] \in Nat}
  <1>6. 0 \in P  BY <1>4
  <1>7. ASSUME NEW k \in P, k \in 0..(size - 1) PROVE k + 1 \in P
    <2>1. k + 1 \in 0..size /\ k + 1 # 0 /\ (k + 1) - 1 = k  BY <1>7
    <2>2. left[k + 1] = left[k] \div 256  BY <1>4, <2>1
    <2> QED BY <1>7, <2>1, <2>2, Divided
  <1> HIDE DEF P
  <1>8. 0..size \subseteq P  BY <1>6, <1>7, UpTo
  <1>9. \A k \in 0..size : left[k] \in Nat  BY <1>8 DEF P
  <1>10. left \in [0..size -> Nat]
    BY <1>4, <1>9
  <1>11. left[0] = n /\ \A k \in 1..size : left[k] = left[k - 1] \div 256
    BY <1>4
  <1> QED BY <1>5, <1>10, <1>11 DEF Leaves

(* LittleEndian gives as many bytes as asked for.                          *)
LEMMA LittleEndianType ==
  ASSUME NEW n \in Nat, NEW size \in Nat
  PROVE  LittleEndian(n, size) \in Bytes /\ Len(LittleEndian(n, size)) = size
  <1>1. PICK left : /\ Leaves(n, size, left)
                    /\ LittleEndian(n, size) = [i \in 1..size |-> left[i - 1] % 256]
    BY LittleEndianParts, Zenon
  <1>2. \A i \in 1..size : left[i - 1] % 256 \in Byte
    <2> TAKE i \in 1..size
    <2>1. left[i - 1] \in Nat  BY <1>1 DEF Leaves
    <2> QED BY <2>1, Divided
  <1>3. LittleEndian(n, size) = [i \in 1..size |-> LittleEndian(n, size)[i]]
    BY <1>1
  <1>4. \A i \in 1..size : LittleEndian(n, size)[i] \in Byte
    BY <1>1, <1>2
  <1> QED BY <1>3, <1>4, BytesMade

(* The number that the bytes behind the first k make.                      *)
Makes(bytes, from) ==
  /\ from \in [0..Len(bytes) -> Nat] /\ from[Len(bytes)] = 0
  /\ \A k \in 0..(Len(bytes) - 1) : from[k] = bytes[k + 1] + 256 * from[k + 1]

(* The number that FromLittleEndian makes of the bytes from the last one   *)
(* on.                                                                     *)
LEMMA FromLittleEndianParts ==
  ASSUME NEW bytes \in Bytes
  PROVE  \E from : Makes(bytes, from) /\ FromLittleEndian(bytes) = from[0]
  <1> DEFINE L == Len(bytes)
             body(k, g) == IF k = L THEN 0 ELSE bytes[k + 1] + 256 * g[k + 1]
             H == [k \in 0..L |-> [g \in [0..L -> Nat] |-> body(k, g)]]
             rank == [k \in 0..L |-> L - k]
             from == CHOOSE f : f = [k \in 0..L |-> body(k, f)]
  <1>0. L \in Nat /\ \A k \in 1..L : bytes[k] \in Nat
    BY BytesFacts
  <1>a. FromLittleEndian(bytes) = from[0]
    BY DEF FromLittleEndian
  <1> HIDE DEF L
  <1>1. \E f : Solves(0..L, Nat, H, f)
    <2>1. rank \in [0..L -> Nat] /\ Nat # {}  BY <1>0
    <2>2. ASSUME NEW k \in 0..L, NEW g \in [0..L -> Nat] PROVE body(k, g) \in Nat
      <3>1. k # L => k + 1 \in 1..L /\ k + 1 \in 0..L  BY <1>0
      <3> QED BY <1>0, <3>1
    <2>3. \A k \in 0..L : \A g \in [0..L -> Nat] : H[k][g] \in Nat
      BY <2>2
    <2>4. ASSUME NEW k \in 0..L, NEW g \in [0..L -> Nat], NEW h \in [0..L -> Nat],
                 \A y \in 0..L : rank[y] < rank[k] => g[y] = h[y]
          PROVE  H[k][g] = H[k][h]
      <3>1. k # L => k + 1 \in 0..L /\ rank[k + 1] < rank[k]  BY <1>0
      <3>2. body(k, g) = body(k, h)  BY <2>4, <3>1
      <3> QED BY <3>2
    <2>5. \A k \in 0..L : \A g, h \in [0..L -> Nat] :
             (\A y \in 0..L : rank[y] < rank[k] => g[y] = h[y]) => H[k][g] = H[k][h]
      BY <2>4
    <2> HIDE DEF H, rank, body, from
    <2>6. Ranked(0..L, Nat, rank, H)  BY <2>1, <2>3, <2>5, Zenon DEF Ranked
    <2> QED BY <2>6, RankRecursion, Zenon
  <1>2. PICK f \in [0..L -> Nat] : \A k \in 0..L : f[k] = H[k][f]
    BY <1>1 DEF Solves
  <1>3. f = [k \in 0..L |-> body(k, f)]
    BY <1>2
  <1>4. from = [k \in 0..L |-> body(k, from)]
    <2>1. from = CHOOSE g : g = [k \in 0..L |-> body(k, g)]  OBVIOUS
    <2> HIDE DEF from, body
    <2> QED BY <1>3, <2>1, Zenon
  <1> HIDE DEF from
  <1> DEFINE P == {k \in 0..L : from[L - k] \in Nat}
  <1>5. 0 \in P  BY <1>0, <1>4
  <1>6. ASSUME NEW k \in P, k \in 0..(L - 1) PROVE k + 1 \in P
    <2> DEFINE j == L - (k + 1)
    <2>1. j \in 0..L /\ j # L /\ j + 1 = L - k /\ k + 1 \in 0..L /\ j + 1 \in 1..L
      BY <1>0, <1>6
    <2>2. from[L - k] \in Nat  BY <1>6
    <2> HIDE DEF P
    <2>3. from[j] = bytes[j + 1] + 256 * from[j + 1]  BY <1>4, <2>1
    <2>a. bytes[j + 1] \in Nat /\ from[j + 1] \in Nat  BY <1>0, <2>1, <2>2
    <2> HIDE DEF j
    <2>4. from[j] \in Nat  BY <2>3, <2>a
    <2>5. L - (k + 1) \in 0..L /\ from[L - (k + 1)] \in Nat  BY <2>1, <2>4 DEF j
    <2> QED BY <2>1, <2>5 DEF P
  <1> HIDE DEF P
  <1>7. 0..L \subseteq P  BY <1>0, <1>5, <1>6, UpTo
  <1>8. \A k \in 0..L : from[k] \in Nat
    <2> TAKE k \in 0..L
    <2>1. L - k \in 0..L /\ L - (L - k) = k  BY <1>0
    <2> QED BY <1>7, <2>1 DEF P
  <1>9. from \in [0..L -> Nat]
    BY <1>4, <1>8
  <1>10. from[L] = 0 /\ \A k \in 0..(L - 1) : from[k] = bytes[k + 1] + 256 * from[k + 1]
    BY <1>0, <1>4
  <1> QED BY <1>a, <1>9, <1>10 DEF Makes, L

(* FromLittleEndian makes a natural number.                                *)
LEMMA FromLittleEndianType ==
  ASSUME NEW bytes \in Bytes PROVE FromLittleEndian(bytes) \in Nat
  <1>1. PICK from : Makes(bytes, from) /\ FromLittleEndian(bytes) = from[0]
    BY FromLittleEndianParts
  <1>2. 0 \in 0..Len(bytes)  BY BytesFacts
  <1> QED BY <1>1, <1>2 DEF Makes

(* A number that is used up within size bytes is read back from them.      *)
LEMMA LittleEndianInverse ==
  ASSUME NEW n \in Nat, NEW size \in Nat, NEW left, Leaves(n, size, left), left[size] = 0,
         NEW bytes \in Bytes, Len(bytes) = size, \A k \in 1..size : bytes[k] = left[k - 1] % 256
  PROVE  FromLittleEndian(bytes) = n
  <1>1. PICK from : Makes(bytes, from) /\ FromLittleEndian(bytes) = from[0]
    BY FromLittleEndianParts
  <1> DEFINE P == {k \in 0..size : from[size - k] = left[size - k]}
  <1>2. 0 \in P  BY <1>1 DEF Makes
  <1>3. ASSUME NEW k \in P, k \in 0..(size - 1) PROVE k + 1 \in P
    <2> DEFINE j == size - (k + 1)
    <2>1. from[size - k] = left[size - k]  BY <1>3
    <2> HIDE DEF P
    <2>2. /\ j \in 0..(size - 1) /\ j + 1 = size - k /\ j + 1 \in 1..size /\ (j + 1) - 1 = j
          /\ k + 1 \in 0..size /\ j \in 0..size
      BY <1>3
    <2> HIDE DEF j
    <2>4. from[j] = bytes[j + 1] + 256 * from[j + 1]  BY <1>1, <2>2 DEF Makes
    <2>5. left[j + 1] = left[j] \div 256 /\ left[j] \in Nat  BY <2>2 DEF Leaves
    <2>6. bytes[j + 1] = left[j] % 256  BY <2>2
    <2>7. from[j] = left[j]  BY <2>1, <2>2, <2>4, <2>5, <2>6, Divided
    <2> QED BY <2>2, <2>7 DEF P, j
  <1> HIDE DEF P
  <1>5. 0..size \subseteq P  BY <1>2, <1>3, UpTo
  <1>6. from[0] = left[0]
    <2>1. size \in 0..size /\ size - size = 0  OBVIOUS
    <2> QED BY <1>5, <2>1 DEF P
  <1> QED BY <1>1, <1>6 DEF Leaves

(* The recursion of PowerOf256 defines what it says.                       *)
LEMMA PowerOf256Facts ==
  /\ PowerOf256[0] = 1
  /\ \A k \in Nat : PowerOf256[k] \in Nat /\ PowerOf256[k + 1] = 256 * PowerOf256[k]
  <1> DEFINE body(k, g) == IF k = 0 THEN 1 ELSE 256 * g[k - 1]
             H == [k \in Nat |-> [g \in [Nat -> Nat] |-> body(k, g)]]
             rank == [k \in Nat |-> k]
  <1>1. \E f : Solves(Nat, Nat, H, f)
    <2>1. rank \in [Nat -> Nat] /\ Nat # {}  OBVIOUS
    <2>2. \A k \in Nat : \A g \in [Nat -> Nat] : H[k][g] \in Nat
      OBVIOUS
    <2>3. ASSUME NEW k \in Nat, NEW g \in [Nat -> Nat], NEW h \in [Nat -> Nat],
                 \A y \in Nat : rank[y] < rank[k] => g[y] = h[y]
          PROVE  H[k][g] = H[k][h]
      <3>1. k # 0 => k - 1 \in Nat /\ rank[k - 1] < rank[k]  OBVIOUS
      <3>2. body(k, g) = body(k, h)  BY <2>3, <3>1
      <3> QED BY <3>2
    <2>4. \A k \in Nat : \A g, h \in [Nat -> Nat] :
             (\A y \in Nat : rank[y] < rank[k] => g[y] = h[y]) => H[k][g] = H[k][h]
      BY <2>3
    <2> HIDE DEF H, rank, body
    <2>5. Ranked(Nat, Nat, rank, H)  BY <2>1, <2>2, <2>4, Zenon DEF Ranked
    <2> QED BY <2>5, RankRecursion, Zenon
  <1>2. PICK f \in [Nat -> Nat] : \A k \in Nat : f[k] = H[k][f]
    BY <1>1 DEF Solves
  <1>3. f = [k \in Nat |-> body(k, f)]
    BY <1>2
  <1>4. PowerOf256 = [k \in Nat |-> body(k, PowerOf256)]
    BY <1>3 DEF PowerOf256
  <1>5. PowerOf256[0] = 1  BY <1>4
  <1>6. \A k \in Nat : PowerOf256[k + 1] = 256 * PowerOf256[k]
    <2> TAKE k \in Nat
    <2>1. k + 1 \in Nat /\ k + 1 # 0 /\ (k + 1) - 1 = k  OBVIOUS
    <2> QED BY <1>4, <2>1
  <1> DEFINE P == {k \in Nat : PowerOf256[k] \in Nat}
  <1>7. P = Nat
    <2>1. 0 \in P  BY <1>5
    <2>2. \A k \in P : k + 1 \in P  BY <1>6
    <2>3. P \in SUBSET Nat  OBVIOUS
    <2> HIDE DEF P
    <2> QED BY <2>1, <2>2, <2>3, NatSetInduction
  <1>8. \A k \in Nat : PowerOf256[k] \in Nat  BY <1>7
  <1> QED BY <1>5, <1>6, <1>8, Zenon

(* The recursion of Magnitude defines what it says.                        *)
LEMMA MagnitudeFacts ==
  /\ Magnitude[0] = <<>>
  /\ \A n \in Nat : /\ Magnitude[n] \in Bytes
                    /\ n # 0 => Magnitude[n] = <<n % 256>> \o Magnitude[n \div 256]
  <1> DEFINE lo(n) == n % 256
             hi(n) == n \div 256
             body(n, g) == IF n = 0 THEN <<>> ELSE <<lo(n)>> \o g[hi(n)]
             H == [n \in Nat |-> [g \in [Nat -> Bytes] |-> body(n, g)]]
             rank == [n \in Nat |-> n]
  <1>0. <<>> \in Bytes /\ \A b \in Byte, s \in Bytes : <<b>> \o s \in Bytes
    BY DEF Bytes
  <1>a. Magnitude = CHOOSE g : g = [n \in Nat |-> body(n, g)]  BY DEF Magnitude
  <1>b. \A n \in Nat : lo(n) \in Byte /\ hi(n) \in Nat  BY Divided
  <1>c. \A n \in Nat : n # 0 => hi(n) < n  OBVIOUS
  <1>d. SUFFICES /\ Magnitude[0] = <<>>
                 /\ \A n \in Nat : /\ Magnitude[n] \in Bytes
                                   /\ n # 0 => Magnitude[n] = <<lo(n)>> \o Magnitude[hi(n)]
    OBVIOUS
  <1> HIDE DEF lo, hi
  <1>1. \E f : Solves(Nat, Bytes, H, f)
    <2>1. rank \in [Nat -> Nat] /\ Bytes # {}  BY <1>0
    <2>2. ASSUME NEW n \in Nat, NEW g \in [Nat -> Bytes] PROVE body(n, g) \in Bytes
      BY <1>0, <1>b
    <2>3. \A n \in Nat : \A g \in [Nat -> Bytes] : H[n][g] \in Bytes
      BY <2>2
    <2>4. ASSUME NEW k \in Nat, NEW g \in [Nat -> Bytes], NEW h \in [Nat -> Bytes],
                 \A y \in Nat : rank[y] < rank[k] => g[y] = h[y]
          PROVE  H[k][g] = H[k][h]
      <3>1. k # 0 => hi(k) \in Nat /\ rank[hi(k)] < rank[k]  BY <1>b, <1>c
      <3>2. k # 0 => g[hi(k)] = h[hi(k)]  BY <2>4, <3>1
      <3> QED BY <3>2
    <2>5. \A k \in Nat : \A g, h \in [Nat -> Bytes] :
             (\A y \in Nat : rank[y] < rank[k] => g[y] = h[y]) => H[k][g] = H[k][h]
      BY <2>4
    <2> HIDE DEF H, rank, body
    <2>6. Ranked(Nat, Bytes, rank, H)  BY <2>1, <2>3, <2>5, Zenon DEF Ranked
    <2> QED BY <2>6, RankRecursion, Zenon
  <1>2. PICK f \in [Nat -> Bytes] : \A k \in Nat : f[k] = H[k][f]
    <2> HIDE DEF H
    <2> QED BY <1>1 DEF Solves
  <1>3. f = [n \in Nat |-> body(n, f)]
    <2>1. \A n \in Nat : H[n][f] = body(n, f)  OBVIOUS
    <2> HIDE DEF H, body
    <2>2. \A n \in Nat : f[n] = body(n, f)  BY <1>2, <2>1
    <2> QED BY <2>2
  <1>4. \A n \in Nat : Magnitude[n] = body(n, Magnitude)
    <2> HIDE DEF body
    <2>1. Magnitude = [n \in Nat |-> body(n, Magnitude)]  BY <1>3, <1>a, Zenon
    <2> QED BY <2>1
  <1>5. Magnitude[0] = <<>>  BY <1>4
  <1>6. ASSUME NEW n \in Nat, n # 0 PROVE Magnitude[n] = <<lo(n)>> \o Magnitude[hi(n)]
    BY <1>4, <1>6
  <1> HIDE DEF body, H
  <1> DEFINE P == {n \in Nat : Magnitude[n] \in Bytes}
  <1>7. ASSUME NEW n \in Nat, \A m \in Nat : rank[m] < rank[n] => m \in P PROVE n \in P
    <2>1. n # 0 => hi(n) \in Nat /\ rank[hi(n)] < rank[n]  BY <1>b, <1>c
    <2>2. n # 0 => Magnitude[hi(n)] \in Bytes  BY <1>7, <2>1
    <2>3. CASE n = 0  BY <1>0, <1>5, <2>3
    <2>4. CASE n # 0  BY <1>0, <1>6, <1>b, <2>2, <2>4
    <2> QED BY <2>3, <2>4
  <1>8. Nat \subseteq P
    <2>1. rank \in [Nat -> Nat]  OBVIOUS
    <2> HIDE DEF P, rank
    <2> QED BY <1>7, <2>1, RankInduction
  <1>9. \A n \in Nat : Magnitude[n] \in Bytes  BY <1>8
  <1> HIDE DEF P, rank
  <1> QED BY <1>5, <1>6, <1>9, <1>d

(* So it gives bytes for every number.                                     *)
LEMMA MagnitudeType ==
  ASSUME NEW n \in Nat PROVE Magnitude[n] \in Bytes /\ Len(Magnitude[n]) \in Nat
  BY MagnitudeFacts, BytesFacts

(* The bytes of a number that is a length are four at most.                *)
LEMMA MagnitudeBounds ==
  ASSUME NEW n \in Nat
  PROVE  /\ n # 0 => Len(Magnitude[n]) > 0
         /\ n <= MaxLength => Len(Magnitude[n]) <= 4
  <1>0. \A m \in Nat : Magnitude[m] \in Bytes /\ Len(Magnitude[m]) \in Nat
    BY MagnitudeFacts, BytesFacts
  <1>1. \A m \in Nat : /\ m \div 256 \in Nat
                       /\ m # 0 => Len(Magnitude[m]) = 1 + Len(Magnitude[m \div 256])
                       /\ m = 0 => Len(Magnitude[m]) = 0
    <2> TAKE m \in Nat
    <2>1. m \div 256 \in Nat /\ m % 256 \in Byte  BY Divided
    <2>2. m # 0 => Magnitude[m] = <<m % 256>> \o Magnitude[m \div 256]  BY MagnitudeFacts
    <2>3. Len(<<m % 256>> \o Magnitude[m \div 256]) = 1 + Len(Magnitude[m \div 256])
      BY <1>0, <2>1 DEF Bytes
    <2> QED BY <2>1, <2>2, <2>3, MagnitudeFacts
  <1> DEFINE a == n \div 256
             b == a \div 256
             c == b \div 256
             d == c \div 256
  <1>2. a \in Nat /\ b \in Nat /\ c \in Nat /\ d \in Nat  BY <1>1
  <1>3. n <= MaxLength => d = 0  BY DEF MaxLength
  <1> HIDE DEF a, b, c, d
  <1>4. /\ n # 0 => Len(Magnitude[n]) = 1 + Len(Magnitude[a])
        /\ a # 0 => Len(Magnitude[a]) = 1 + Len(Magnitude[b])
        /\ b # 0 => Len(Magnitude[b]) = 1 + Len(Magnitude[c])
        /\ c # 0 => Len(Magnitude[c]) = 1 + Len(Magnitude[d])
    <2>1. n # 0 => Len(Magnitude[n]) = 1 + Len(Magnitude[a])  BY <1>1 DEF a
    <2>2. a # 0 => Len(Magnitude[a]) = 1 + Len(Magnitude[b])  BY <1>1, <1>2 DEF b
    <2>3. b # 0 => Len(Magnitude[b]) = 1 + Len(Magnitude[c])  BY <1>1, <1>2 DEF c
    <2>4. c # 0 => Len(Magnitude[c]) = 1 + Len(Magnitude[d])  BY <1>1, <1>2 DEF d
    <2> QED BY <2>1, <2>2, <2>3, <2>4
  <1>5. /\ n = 0 => Len(Magnitude[n]) = 0
        /\ a = 0 => Len(Magnitude[a]) = 0
        /\ b = 0 => Len(Magnitude[b]) = 0
        /\ c = 0 => Len(Magnitude[c]) = 0
        /\ d = 0 => Len(Magnitude[d]) = 0
    BY <1>1, <1>2
  <1>6. Len(Magnitude[n]) \in Nat /\ Len(Magnitude[a]) \in Nat /\ Len(Magnitude[b]) \in Nat
        /\ Len(Magnitude[c]) \in Nat /\ Len(Magnitude[d]) \in Nat
    BY <1>0, <1>2
  <1> QED BY <1>3, <1>4, <1>5, <1>6

(* WithLast changes the last byte and no other.                            *)
LEMMA WithLastFacts ==
  ASSUME NEW s \in Bytes, Len(s) > 0, NEW b \in Byte
  PROVE  /\ WithLast(s, b) \in Bytes /\ Len(WithLast(s, b)) = Len(s)
         /\ Last(WithLast(s, b)) = b
         /\ \A k \in 1..(Len(s) - 1) : WithLast(s, b)[k] = s[k]
         /\ WithLast(s, b)[Len(s)] = b
  <1> DEFINE front == SubSeq(s, 1, Len(s) - 1)
  <1>1. Len(s) \in Nat  BY BytesFacts
  <1>2. front \in Bytes /\ Len(front) = Len(s) - 1 /\ \A k \in 1..(Len(s) - 1) : front[k] = s[k]
    <2>1. s \in Seq(Byte)  BY DEF Bytes
    <2>2. front \in Seq(Byte)  BY <1>1, <2>1
    <2>0. 1 \in 1..(Len(s) + 1) /\ Len(s) - 1 \in 0..Len(s)  BY <1>1
    <2>3. Len(front) = Len(s) - 1
      <3> DEFINE m == Len(s) - 1
      <3>1. m \in Nat /\ m <= Len(s)  BY <1>1
      <3> HIDE DEF m
      <3>2. Len(SubSeq(s, 1, m)) = m  BY <1>1, <2>1, <3>1
      <3> QED BY <3>2 DEF m
    <2>4. \A k \in 1..(Len(s) - 1) : front[k] = s[k]  BY <1>1, <2>1
    <2> QED BY <2>2, <2>3, <2>4 DEF Bytes
  <1>3. WithLast(s, b) = Append(front, b)  BY DEF WithLast, Front
  <1> HIDE DEF front
  <1>4. /\ Append(front, b) \in Bytes /\ Len(Append(front, b)) = Len(s)
        /\ Append(front, b)[Len(s)] = b
        /\ \A k \in 1..(Len(s) - 1) : Append(front, b)[k] = front[k]
    BY <1>1, <1>2 DEF Bytes
  <1> QED BY <1>2, <1>3, <1>4 DEF Last

(* A number that fits its word leaves the top bit of the last byte free.   *)
LEMMA WordLeaves ==
  ASSUME NEW n \in Nat, n < 128 * PowerOf256[WordSize - 1], NEW left, Leaves(n, WordSize, left)
  PROVE  left[WordSize - 1] \in Nat /\ left[WordSize - 1] < 128 /\ left[WordSize] = 0
  <1> DEFINE top == WordSize - 1
             P == {k \in 0..top : left[k] < 128 * PowerOf256[top - k]}
  <1>1. top \in Nat /\ top + 1 = WordSize /\ WordSize \in Nat  BY WordAssumption
  <1>2. 0 \in P  BY <1>1 DEF Leaves
  <1>3. ASSUME NEW k \in P, k \in 0..(top - 1) PROVE k + 1 \in P
    <2> DEFINE j == top - (k + 1)
    <2>1. /\ j \in Nat /\ top - k = j + 1 /\ k + 1 \in 0..top /\ k + 1 \in 1..WordSize
          /\ (k + 1) - 1 = k /\ k \in 0..WordSize
      BY <1>1, <1>3
    <2>2. left[k] < 128 * PowerOf256[j + 1]  BY <1>3, <2>1
    <2> HIDE DEF j, P
    <2>3. PowerOf256[j] \in Nat /\ PowerOf256[j + 1] = 256 * PowerOf256[j]
      BY <2>1, PowerOf256Facts
    <2>4. left[k] \in Nat /\ left[k + 1] = left[k] \div 256  BY <2>1 DEF Leaves
    <2>5. left[k + 1] < 128 * PowerOf256[j]
      BY <2>2, <2>3, <2>4
    <2> QED BY <2>1, <2>5 DEF P, j
  <1>4. top \in P
    <2> HIDE DEF P, top
    <2>1. 0..top \subseteq P  BY <1>1, <1>2, <1>3, UpTo
    <2> QED BY <1>1, <2>1
  <1>5. left[top] < 128
    <2>1. top - top = 0  BY <1>1
    <2> QED BY <1>4, <2>1, PowerOf256Facts
  <1>6. left[top] \in Nat /\ left[WordSize] = left[top] \div 256
    <2>1. top \in 0..WordSize /\ WordSize \in 1..WordSize  BY <1>1
    <2> QED BY <2>1 DEF Leaves
  <1> QED BY <1>5, <1>6

(* A number that fits in its word is read back from it.                    *)
LEMMA WordRestored ==
  ASSUME NEW n \in Int, Fits(n)
  PROVE  /\ encodeNum2Bin(n) \in Bytes /\ Len(encodeNum2Bin(n)) = WordSize
         /\ decodeScriptNumber(encodeNum2Bin(n)) = n
  <1> DEFINE m == Abs_(n)
             bytes == LittleEndian(m, WordSize)
             word == encodeNum2Bin(n)
             plain == WithLast(word, Last(word) % 128)
  <1>1. m \in Nat /\ (n >= 0 => m = n) /\ (n < 0 => m = -n)  BY DEF Abs_
  <1>2. WordSize \in Nat /\ WordSize > 0  BY WordAssumption
  <1>3. PICK left : Leaves(m, WordSize, left) /\ bytes = [i \in 1..WordSize |-> left[i - 1] % 256]
    BY <1>1, <1>2, LittleEndianParts
  <1>4. bytes \in Bytes /\ Len(bytes) = WordSize  BY <1>1, <1>2, LittleEndianType
  <1>5. left[WordSize - 1] \in Nat /\ left[WordSize - 1] < 128 /\ left[WordSize] = 0
    BY <1>1, <1>3, WordLeaves DEF Fits
  <1> DEFINE high == left[WordSize - 1]
  <1>6. Last(bytes) = high
    <2>1. WordSize \in 1..WordSize  BY <1>2
    <2>2. bytes[WordSize] = high % 256  BY <1>3, <2>1
    <2> QED BY <1>4, <1>5, <2>2 DEF Last
  <1>7. word = IF n < 0 THEN WithLast(bytes, high + 128) ELSE bytes
    <2>1. high < 128  BY <1>5
    <2> HIDE DEF high, bytes, m
    <2> QED BY <1>6, <2>1 DEF encodeNum2Bin, m, bytes
  <1> HIDE DEF m, bytes, word, plain, high
  <1>8. high + 128 \in Byte /\ high \in Byte /\ high % 128 = high /\ (high + 128) % 128 = high
    BY <1>5 DEF Byte, high
  <1>9. /\ word \in Bytes /\ Len(word) = WordSize
        /\ \A k \in 1..(WordSize - 1) : word[k] = bytes[k]
        /\ Last(word) = IF n < 0 THEN high + 128 ELSE high
    <2>1. CASE n < 0
      <3>1. word = WithLast(bytes, high + 128)  BY <1>7, <2>1
      <3>2. Len(bytes) > 0 /\ high + 128 \in Byte  BY <1>2, <1>4, <1>8
      <3> DEFINE b == high + 128
      <3>3. b \in Byte /\ word = WithLast(bytes, b)  BY <3>1, <3>2
      <3> HIDE DEF b
      <3>4. /\ word \in Bytes /\ Len(word) = Len(bytes) /\ Last(word) = b
            /\ \A k \in 1..(Len(bytes) - 1) : word[k] = bytes[k]
        BY <1>4, <3>2, <3>3, WithLastFacts
      <3> QED BY <1>4, <2>1, <3>4 DEF b
    <2>2. CASE n >= 0
      BY <1>4, <1>6, <1>7, <2>2
    <2> QED BY <2>1, <2>2
  <1>10. Last(word) % 128 = high /\ (Last(word) >= 128 <=> n < 0)
    BY <1>5, <1>8, <1>9 DEF high
  <1>11. /\ plain \in Bytes /\ Len(plain) = WordSize /\ plain[WordSize] = high
         /\ \A k \in 1..(WordSize - 1) : plain[k] = word[k]
    BY <1>2, <1>8, <1>9, <1>10, WithLastFacts DEF plain
  <1>12. \A k \in 1..WordSize : plain[k] = left[k - 1] % 256
    <2> TAKE k \in 1..WordSize
    <2>1. bytes[k] = left[k - 1] % 256  BY <1>3
    <2>2. CASE k = WordSize
      <3>1. high % 256 = high  BY <1>5 DEF high
      <3> QED BY <1>11, <2>2, <3>1 DEF high
    <2>3. CASE k # WordSize
      <3>1. k \in 1..(WordSize - 1)  BY <1>2, <2>3
      <3> QED BY <1>9, <1>11, <2>1, <3>1
    <2> QED BY <2>2, <2>3
  <1>13. FromLittleEndian(plain) = m
    BY <1>1, <1>2, <1>3, <1>5, <1>11, <1>12, LittleEndianInverse
  <1>14. word # <<>>  BY <1>2, <1>9
  <1>15. decodeScriptNumber(word) = IF Last(word) >= 128 THEN -FromLittleEndian(plain)
                                   ELSE FromLittleEndian(plain)
    BY <1>14 DEF decodeScriptNumber, plain
  <1>16. decodeScriptNumber(word) = n
    BY <1>1, <1>10, <1>13, <1>15
  <1> QED BY <1>9, <1>16 DEF word

(* A part of a part.                                                       *)
LEMMA SliceLocal ==
  ASSUME NEW S, NEW pre \in Seq(S), NEW s \in Seq(S), NEW post \in Seq(S),
         NEW from \in Nat, NEW to \in Nat, from <= to, to <= Len(s)
  PROVE  Slice(pre \o s \o post, Len(pre) + from, Len(pre) + to) = Slice(s, from, to)
  <1> DEFINE all == pre \o s \o post
             a == SubSeq(all, Len(pre) + from + 1, Len(pre) + to)
             b == SubSeq(s, from + 1, to)
  <1>1. Len(pre) \in Nat /\ Len(s) \in Nat /\ Len(post) \in Nat  OBVIOUS
  <1>2. /\ all \in Seq(S) /\ Len(all) = Len(pre) + Len(s) + Len(post)
        /\ \A k \in 1..Len(s) : all[Len(pre) + k] = s[k]
    OBVIOUS
  <1>3. b \in Seq(S) /\ Len(b) = to - from /\ \A k \in 1..(to - from) : b[k] = s[from + k]
    <2>1. \A k \in (from + 1)..to : s[k] \in S  OBVIOUS
    <2> QED BY <1>1, <2>1, SubSeqProperties
  <1>4. a \in Seq(S) /\ Len(a) = to - from
        /\ \A k \in 1..(to - from) : a[k] = all[Len(pre) + from + k]
    <2>1. \A k \in (Len(pre) + from + 1)..(Len(pre) + to) : all[k] \in S  BY <1>1, <1>2
    <2> HIDE DEF all
    <2> QED BY <1>1, <2>1, SubSeqProperties
  <1>5. \A k \in 1..(to - from) : all[Len(pre) + from + k] = s[from + k]
    <2> TAKE k \in 1..(to - from)
    <2>1. from + k \in 1..Len(s) /\ Len(pre) + from + k = Len(pre) + (from + k)  BY <1>1
    <2> HIDE DEF all
    <2> QED BY <1>2, <2>1
  <1>6. Slice(all, Len(pre) + from, Len(pre) + to) = a /\ Slice(s, from, to) = b
    <2>1. /\ (IF Len(pre) + to < Len(all) THEN Len(pre) + to ELSE Len(all)) = Len(pre) + to
          /\ (IF to < Len(s) THEN to ELSE Len(s)) = to
      BY <1>1, <1>2
    <2> HIDE DEF all
    <2> QED BY <2>1, Zenon DEF Slice
  <1> HIDE DEF all, a, b
  <1>7. a = b  BY <1>3, <1>4, <1>5, SeqEqual
  <1> QED BY <1>6, <1>7 DEF all

(* A byte of a script, or -1 past its end.                                 *)
LEMMA ByteAtFacts ==
  ASSUME NEW code \in Bytes, NEW offset \in Nat
  PROVE  /\ ByteAt(code, offset) \in Int
         /\ offset < Len(code) => ByteAt(code, offset) = code[offset + 1]
                                  /\ ByteAt(code, offset) \in Byte
         /\ offset >= Len(code) => ByteAt(code, offset) = -1
  <1>1. offset < Len(code) => offset + 1 \in 1..Len(code)  BY BytesFacts
  <1> QED BY <1>1, BytesFacts DEF ByteAt

(* A byte is the same wherever its part stands.                            *)
LEMMA ByteAtLocal ==
  ASSUME NEW pre \in Bytes, NEW s \in Bytes, NEW post \in Bytes, NEW offset \in 0..(Len(s) - 1)
  PROVE  ByteAt(pre \o s \o post, Len(pre) + offset) = s[offset + 1]
  BY DEF ByteAt, Bytes

(* An element is as long as its header at least.                           *)
LEMMA ElementType ==
  ASSUME NEW code \in Bytes, NEW offset \in Nat
  PROVE  /\ Element(code, offset).length \in Nat
         /\ Element(code, offset).length >= Element(code, offset).header
         /\ Element(code, offset).header \in 1..5
         /\ Element(code, offset).opcode = ByteAt(code, offset)
  <1> DEFINE op == ByteAt(code, offset)
             lb == LengthBytes(op)
             size == FromLittleEndian(Slice(code, offset + 1, offset + 1 + lb))
  <1>1. op \in Int  BY ByteAtFacts
  <1>2. lb \in 0..4  BY DEF LengthBytes
  <1>3. size \in Nat
    <2>1. offset + 1 \in Nat /\ offset + 1 + lb \in Nat  BY <1>2
    <2> HIDE DEF lb
    <2>2. Slice(code, offset + 1, offset + 1 + lb) \in Bytes  BY <2>1, SliceType DEF Bytes
    <2> QED BY <2>2, FromLittleEndianType
  <1>4. Element(code, offset) = [opcode |-> op, header |-> 1 + lb,
            length |-> 1 + lb + (IF lb > 0 THEN size ELSE IF op \in 1..75 THEN op ELSE 0)]
    BY DEF Element, ElementOf
  <1> HIDE DEF op, lb, size
  <1>5. /\ Element(code, offset).opcode = op /\ Element(code, offset).header = 1 + lb
        /\ Element(code, offset).length
              = 1 + lb + (IF lb > 0 THEN size ELSE IF op \in 1..75 THEN op ELSE 0)
    BY <1>4
  <1> QED BY <1>1, <1>2, <1>3, <1>5 DEF op

(* An element is the same wherever it stands.                              *)
LEMMA ElementLocal ==
  ASSUME NEW pre \in Bytes, NEW s \in Bytes, NEW post \in Bytes,
         Len(s) > 0, Element(s, 0).header <= Len(s)
  PROVE  Element(pre \o s \o post, Len(pre)) = Element(s, 0)
  <1> DEFINE code == pre \o s \o post
             op == s[1]
             lb == LengthBytes(op)
  <1>0. Len(pre) \in Nat /\ Len(s) \in Nat  BY BytesFacts
  <1>1. ByteAt(code, Len(pre)) = op /\ ByteAt(s, 0) = op
    <2>0. 0 \in 0..(Len(s) - 1)  BY <1>0
    <2>1. ByteAt(code, Len(pre) + 0) = s[0 + 1]  BY <2>0, ByteAtLocal
    <2>2. ByteAt(s, 0) = s[0 + 1]  BY ByteAtFacts
    <2> QED BY <1>0, <2>1, <2>2
  <1>2. lb \in 0..4 /\ Element(s, 0).header = 1 + lb
    <2>1. lb \in 0..4  BY DEF LengthBytes
    <2>2. Element(s, 0) = ElementOf(s, 0, op, lb)  BY <1>1 DEF Element
    <2> HIDE DEF lb, op
    <2> QED BY <2>1, <2>2 DEF ElementOf
  <1>3. Slice(code, Len(pre) + 1, Len(pre) + 1 + lb) = Slice(s, 0 + 1, 0 + 1 + lb)
    <2>1. Slice(code, Len(pre) + 1, Len(pre) + (1 + lb)) = Slice(s, 1, 1 + lb)
      <3> HIDE DEF lb
      <3>1. 1 \in Nat /\ 1 + lb \in Nat /\ 1 <= 1 + lb /\ 1 + lb <= Len(s)  BY <1>2
      <3> QED BY <3>1, SliceLocal DEF Bytes
    <2>2. Len(pre) + (1 + lb) = Len(pre) + 1 + lb  BY <1>0, <1>2
    <2> QED BY <2>1, <2>2
  <1> HIDE DEF code, op, lb
  <1>4. Element(code, Len(pre)) = ElementOf(code, Len(pre), op, lb)
        /\ Element(s, 0) = ElementOf(s, 0, op, lb)
    BY <1>1 DEF Element, lb
  <1>5. ElementOf(code, Len(pre), op, lb) = ElementOf(s, 0, op, lb)
    BY <1>3, Zenon DEF ElementOf
  <1> QED BY <1>4, <1>5 DEF code

-----------------------------------------------------------------------------
(* The search for the OP_RETURN.                                           *)
LEMMA ReturnFromSteps ==
  ASSUME NEW code \in Bytes, NEW o \in 0..Len(code)
  PROVE  ReturnFrom(code)[o] =
            IF ByteAt(code, o) = OP_RETURN THEN o
            ELSE IF o + Element(code, o).length > Len(code) THEN -1
                 ELSE ReturnFrom(code)[o + Element(code, o).length]
  <1> DEFINE L == Len(code)
             next(k) == k + Element(code, k).length
             body(k, g) == IF ByteAt(code, k) = OP_RETURN THEN k
                           ELSE IF next(k) > L THEN -1 ELSE g[next(k)]
             H == [k \in 0..L |-> [g \in [0..L -> Int] |-> body(k, g)]]
             rank == [k \in 0..L |-> L - k]
             f0 == CHOOSE f : f = [k \in 0..L |-> body(k, f)]
  <1>0. L \in Nat /\ \A k \in 0..L : next(k) \in Nat /\ next(k) > k
    <2>1. L \in Nat  BY BytesFacts
    <2>2. ASSUME NEW k \in 0..L PROVE next(k) \in Nat /\ next(k) > k
      <3>1. k \in Nat  BY <2>1
      <3> QED BY <3>1, ElementType
    <2> QED BY <2>1, <2>2
  <1>a. ReturnFrom(code) = f0
    BY DEF ReturnFrom
  <1> HIDE DEF L, next
  <1>1. \E f : Solves(0..L, Int, H, f)
    <2>1. rank \in [0..L -> Nat] /\ Int # {}  BY <1>0
    <2>2. ASSUME NEW k \in 0..L, NEW g \in [0..L -> Int] PROVE body(k, g) \in Int
      <3>1. ~(next(k) > L) => next(k) \in 0..L  BY <1>0
      <3> QED BY <1>0, <3>1
    <2>3. \A k \in 0..L : \A g \in [0..L -> Int] : H[k][g] \in Int
      BY <2>2
    <2>4. ASSUME NEW k \in 0..L, NEW g \in [0..L -> Int], NEW h \in [0..L -> Int],
                 \A y \in 0..L : rank[y] < rank[k] => g[y] = h[y]
          PROVE  H[k][g] = H[k][h]
      <3>0. next(k) \in Nat /\ next(k) > k  BY <1>0
      <3>a. ~(next(k) > L) => next(k) \in 0..L  BY <1>0, <3>0
      <3>b. \A j \in 0..L : rank[j] = L - j /\ rank[j] \in Int  BY <1>0
      <3>c. L \in Int /\ k \in Int /\ L - next(k) < L - k  BY <1>0, <3>0
      <3>1. ~(next(k) > L) => next(k) \in 0..L /\ rank[next(k)] < rank[k]
        BY <3>a, <3>b, <3>c
      <3>2. body(k, g) = body(k, h)  BY <2>4, <3>1
      <3> QED BY <3>2
    <2>5. \A k \in 0..L : \A g, h \in [0..L -> Int] :
             (\A y \in 0..L : rank[y] < rank[k] => g[y] = h[y]) => H[k][g] = H[k][h]
      BY <2>4
    <2> HIDE DEF H, rank, body, f0
    <2>6. Ranked(0..L, Int, rank, H)  BY <2>1, <2>3, <2>5, Zenon DEF Ranked
    <2> QED BY <2>6, RankRecursion, Zenon
  <1>2. PICK f \in [0..L -> Int] : \A k \in 0..L : f[k] = H[k][f]
    BY <1>1 DEF Solves
  <1>3. f = [k \in 0..L |-> body(k, f)]
    BY <1>2
  <1>4. f0 = [k \in 0..L |-> body(k, f0)]
    BY <1>3
  <1> HIDE DEF f0
  <1>5. f0[o] = body(o, f0)  BY <1>4 DEF L
  <1> QED BY <1>a, <1>5 DEF L, next

(* No OP_RETURN is seen in it, whatever is around it.                      *)
Clean(s) ==
  /\ s \in Bytes
  /\ \A pre \in Bytes, post \in Bytes :
        ReturnFrom(pre \o s \o post)[Len(pre)] = ReturnFrom(pre \o s \o post)[Len(pre) + Len(s)]

(* Scripts are closed under concatenation.                                 *)
LEMMA BytesConcat ==
  ASSUME NEW a \in Bytes, NEW b \in Bytes
  PROVE  a \o b \in Bytes /\ Len(a \o b) = Len(a) + Len(b)
  BY DEF Bytes

(* Nothing is clean.                                                       *)
LEMMA CleanEmpty == Clean(<<>>)
  <1>1. <<>> \in Bytes /\ Len(<<>>) = 0  BY DEF Bytes
  <1>2. \A pre \in Bytes : Len(pre) + 0 = Len(pre)  BY BytesFacts
  <1> QED BY <1>1, <1>2 DEF Clean

(* Clean parts make a clean whole.                                         *)
LEMMA CleanConcat ==
  ASSUME NEW a, NEW b, Clean(a), Clean(b) PROVE Clean(a \o b)
  <1>1. a \in Bytes /\ b \in Bytes /\ a \o b \in Bytes /\ Len(a \o b) = Len(a) + Len(b)
    BY BytesConcat DEF Clean
  <1>2. ASSUME NEW pre \in Bytes, NEW post \in Bytes
        PROVE  ReturnFrom(pre \o (a \o b) \o post)[Len(pre)]
                 = ReturnFrom(pre \o (a \o b) \o post)[Len(pre) + Len(a \o b)]
    <2>1. pre \o (a \o b) \o post = pre \o a \o (b \o post)
          /\ pre \o (a \o b) \o post = (pre \o a) \o b \o post
      <3>1. pre \o (a \o b) = (pre \o a) \o b  BY <1>1, BytesAssoc
      <3>2. pre \o a \in Bytes  BY <1>1, BytesConcat
      <3>3. ((pre \o a) \o b) \o post = (pre \o a) \o (b \o post)  BY <1>1, <3>2, BytesAssoc
      <3> QED BY <3>1, <3>3
    <2>2. b \o post \in Bytes /\ pre \o a \in Bytes /\ Len(pre \o a) = Len(pre) + Len(a)
      BY <1>1, BytesConcat
    <2>3. ReturnFrom(pre \o a \o (b \o post))[Len(pre)]
            = ReturnFrom(pre \o a \o (b \o post))[Len(pre) + Len(a)]
      BY <2>2 DEF Clean
    <2>4. ReturnFrom((pre \o a) \o b \o post)[Len(pre \o a)]
            = ReturnFrom((pre \o a) \o b \o post)[Len(pre \o a) + Len(b)]
      BY <2>2 DEF Clean
    <2>5. Len(pre \o a) + Len(b) = Len(pre) + Len(a \o b)
      <3>1. Len(pre) \in Nat /\ Len(a) \in Nat /\ Len(b) \in Nat  BY <1>1, BytesFacts
      <3> QED BY <1>1, <2>2, <3>1
    <2> QED BY <2>1, <2>2, <2>3, <2>4, <2>5
  <1> QED BY <1>1, <1>2 DEF Clean

(* One element that is no OP_RETURN and takes all bytes is clean.          *)
LEMMA CleanElement ==
  ASSUME NEW s \in Bytes, Len(s) > 0, s[1] # OP_RETURN, Element(s, 0).length = Len(s)
  PROVE  Clean(s)
  <1>1. SUFFICES ASSUME NEW pre \in Bytes, NEW post \in Bytes
                 PROVE  ReturnFrom(pre \o s \o post)[Len(pre)]
                          = ReturnFrom(pre \o s \o post)[Len(pre) + Len(s)]
    BY DEF Clean
  <1> DEFINE code == pre \o s \o post
  <1>2. /\ Len(pre) \in Nat /\ Len(s) \in Nat /\ Len(post) \in Nat
        /\ code \in Bytes /\ Len(code) = Len(pre) + Len(s) + Len(post)
    <2>1. Len(pre) \in Nat /\ Len(s) \in Nat /\ Len(post) \in Nat  BY BytesFacts
    <2>2. pre \o s \in Bytes /\ Len(pre \o s) = Len(pre) + Len(s)  BY BytesConcat
    <2> QED BY <2>1, <2>2, BytesConcat
  <1>3. Element(code, Len(pre)) = Element(s, 0)
    <2>1. Element(s, 0).header <= Len(s)
      <3>1. Element(s, 0).length >= Element(s, 0).header  BY ElementType
      <3> QED BY <3>1
    <2> QED BY <2>1, ElementLocal
  <1>4. ByteAt(code, Len(pre)) # OP_RETURN
    <2>0. 0 \in 0..(Len(s) - 1)  BY <1>2
    <2>1. ByteAt(code, Len(pre) + 0) = s[0 + 1]  BY <2>0, ByteAtLocal
    <2> QED BY <1>2, <2>1
  <1> HIDE DEF code
  <1>5. Len(pre) \in 0..Len(code) /\ ~(Len(pre) + Len(s) > Len(code))  BY <1>2
  <1>6. ReturnFrom(code)[Len(pre)] = ReturnFrom(code)[Len(pre) + Len(s)]
    BY <1>2, <1>3, <1>4, <1>5, ReturnFromSteps
  <1> QED BY <1>6 DEF code

(* The largest length is a number (its numeral is kept from the provers).  *)
LEMMA MaxLengthNat == MaxLength \in Nat
  BY SMT DEF MaxLength

(* The length in front of the data, and how it is read.                    *)
LEMMA OneByteRead ==
  ASSUME NEW n \in Byte PROVE <<n>> \in Bytes /\ Len(<<n>>) = 1 /\ FromLittleEndian(<<n>>) = n
  <1>1. <<n>> \in Bytes /\ Len(<<n>>) = 1 /\ <<n>>[1] = n  BY DEF Bytes
  <1>2. PICK from : Makes(<<n>>, from) /\ FromLittleEndian(<<n>>) = from[0]
    BY <1>1, FromLittleEndianParts
  <1>3. from[1] = 0 /\ from[0] = <<n>>[0 + 1] + 256 * from[0 + 1]
    <2>1. 0 \in 0..(Len(<<n>>) - 1)  BY <1>1
    <2> QED BY <1>1, <1>2, <2>1 DEF Makes
  <1>4. from[0] = n
    <2>1. n \in Int  BY DEF Byte
    <2> QED BY <1>1, <1>3, <2>1
  <1> QED BY <1>1, <1>2, <1>4

(* What two and four bytes leave of a number.                              *)
LEMMA FirstLeaves ==
  ASSUME NEW n \in Nat, NEW size \in Nat, NEW left, Leaves(n, size, left)
  PROVE  /\ size = 2 => left[2] = (n \div 256) \div 256
         /\ size = 4 => left[4] = (((n \div 256) \div 256) \div 256) \div 256
  <1>1. left[0] = n /\ \A k \in 1..size : left[k] = left[k - 1] \div 256
    BY DEF Leaves
  <1>2. CASE size = 2
    <2>1. left[1] = left[0] \div 256 /\ left[2] = left[1] \div 256  BY <1>1, <1>2
    <2> QED BY <1>1, <1>2, <2>1
  <1>3. CASE size = 4
    <2>1. /\ left[1] = left[0] \div 256 /\ left[2] = left[1] \div 256
          /\ left[3] = left[2] \div 256 /\ left[4] = left[3] \div 256
      BY <1>1, <1>3
    <2> QED BY <1>1, <1>3, <2>1
  <1> QED BY <1>2, <1>3

(* A length that leaves nothing is read back from its bytes.               *)
LEMMA SizeRead ==
  ASSUME NEW n \in Nat, NEW size \in Nat, \A left : Leaves(n, size, left) => left[size] = 0
  PROVE  /\ LittleEndian(n, size) \in Bytes /\ Len(LittleEndian(n, size)) = size
         /\ FromLittleEndian(LittleEndian(n, size)) = n
  <1>1. PICK left : /\ Leaves(n, size, left)
                    /\ LittleEndian(n, size) = [i \in 1..size |-> left[i - 1] % 256]
    BY LittleEndianParts
  <1>2. LittleEndian(n, size) \in Bytes /\ Len(LittleEndian(n, size)) = size
    BY LittleEndianType
  <1>3. \A k \in 1..size : LittleEndian(n, size)[k] = left[k - 1] % 256  BY <1>1
  <1> QED BY <1>1, <1>2, <1>3, LittleEndianInverse

(* The four forms of a push header.                                        *)
LEMMA HeaderForms ==
  ASSUME NEW n \in Nat, n <= MaxLength
  PROVE  \/ n <= 75 /\ PushHeader(n) = <<n>>
         \/ n <= 255 /\ PushHeader(n) = <<76, n>>
         \/ PushHeader(n) = <<77>> \o LittleEndian(n, 2) /\ (n \div 256) \div 256 = 0
         \/ /\ PushHeader(n) = <<78>> \o LittleEndian(n, 4)
            /\ (((n \div 256) \div 256) \div 256) \div 256 = 0
  <1>1. CASE n <= 75
    <2>1. PushHeader(n) = <<n>>  BY <1>1, SMT DEF PushHeader
    <2> QED BY <1>1, <2>1, SMT
  <1>2. CASE 75 < n /\ n <= 255
    <2>1. PushHeader(n) = <<76, n>>  BY <1>2, SMT DEF PushHeader
    <2> QED BY <1>2, <2>1, SMT
  <1>3. CASE 255 < n /\ n <= 65535
    <2>1. PushHeader(n) = <<77>> \o LittleEndian(n, 2)  BY <1>3, SMT DEF PushHeader
    <2>2. (n \div 256) \div 256 = 0  BY <1>3, SMT
    <2> QED BY <2>1, <2>2, SMT
  <1>4. CASE n > 65535
    <2>1. PushHeader(n) = <<78>> \o LittleEndian(n, 4)  BY <1>4, SMT DEF PushHeader
    <2>2. (((n \div 256) \div 256) \div 256) \div 256 = 0  BY SMT DEF MaxLength
    <2> QED BY <2>1, <2>2, SMT
  <1> QED BY <1>1, <1>2, <1>3, <1>4, SMT

(* A push header is one byte, or an opcode and the length behind it.       *)
LEMMA HeaderParts ==
  ASSUME NEW n \in Nat, n <= MaxLength
  PROVE  \/ n <= 75 /\ PushHeader(n) = <<n>>
         \/ \E op \in 76..78, le \in Bytes :
               /\ PushHeader(n) = <<op>> \o le /\ Len(le) = LengthBytes(op)
               /\ FromLittleEndian(le) = n
  <1> DEFINE Direct == n <= 75 /\ PushHeader(n) = <<n>>
             One == n <= 255 /\ PushHeader(n) = <<76, n>>
             Two == PushHeader(n) = <<77>> \o LittleEndian(n, 2) /\ (n \div 256) \div 256 = 0
             Four == /\ PushHeader(n) = <<78>> \o LittleEndian(n, 4)
                     /\ (((n \div 256) \div 256) \div 256) \div 256 = 0
             Counting == \E op \in 76..78, le \in Bytes :
                            /\ PushHeader(n) = <<op>> \o le /\ Len(le) = LengthBytes(op)
                            /\ FromLittleEndian(le) = n
  <1>0. /\ LengthBytes(76) = 1 /\ LengthBytes(77) = 2 /\ LengthBytes(78) = 4
        /\ 76 \in 76..78 /\ 77 \in 76..78 /\ 78 \in 76..78 /\ 2 \in Nat /\ 4 \in Nat
    BY DEF LengthBytes
  <1>1. One => Counting
    <2>0. SUFFICES ASSUME One PROVE Counting  OBVIOUS
    <2>1. n \in Byte  BY <2>0 DEF Byte
    <2>2. <<n>> \in Bytes /\ Len(<<n>>) = 1 /\ FromLittleEndian(<<n>>) = n
      BY <2>1, OneByteRead
    <2>3. <<76, n>> = <<76>> \o <<n>>  OBVIOUS
    <2> QED BY <1>0, <2>0, <2>2, <2>3
  <1>2. Two => Counting
    <2>0. SUFFICES ASSUME Two PROVE Counting  OBVIOUS
    <2>1. \A left : Leaves(n, 2, left) => left[2] = 0  BY <1>0, <2>0, FirstLeaves
    <2> DEFINE le == LittleEndian(n, 2)
    <2>2. le \in Bytes /\ Len(le) = 2 /\ FromLittleEndian(le) = n
      BY <1>0, <2>1, SizeRead
    <2>3. PushHeader(n) = <<77>> \o le  BY <2>0
    <2> HIDE DEF le
    <2> QED BY <1>0, <2>2, <2>3
  <1>3. Four => Counting
    <2>0. SUFFICES ASSUME Four PROVE Counting  OBVIOUS
    <2>1. \A left : Leaves(n, 4, left) => left[4] = 0  BY <1>0, <2>0, FirstLeaves
    <2> DEFINE le == LittleEndian(n, 4)
    <2>2. le \in Bytes /\ Len(le) = 4 /\ FromLittleEndian(le) = n
      BY <1>0, <2>1, SizeRead
    <2>3. PushHeader(n) = <<78>> \o le  BY <2>0
    <2> HIDE DEF le
    <2> QED BY <1>0, <2>2, <2>3
  <1>4. Direct \/ One \/ Two \/ Four  BY HeaderForms, SMT
  <1> HIDE DEF One, Two, Four
  <1> QED BY <1>1, <1>2, <1>3, <1>4

(* The opcodes that length bytes follow, and how many bytes of data the    *)
(* first byte of an element counts by itself.                              *)
CountsAfter(b) == b \in 76..78
Counted(b) == IF b \in 1..75 THEN b ELSE 0

(* An element that stands at the start.                                    *)
LEMMA ElementParts ==
  ASSUME NEW s \in Bytes, Len(s) > 0
  PROVE  /\ Element(s, 0).opcode = s[1] /\ Element(s, 0).header = 1 + LengthBytes(s[1])
         /\ Element(s, 0).length =
               1 + LengthBytes(s[1])
               + (IF LengthBytes(s[1]) > 0 THEN FromLittleEndian(Slice(s, 1, 1 + LengthBytes(s[1])))
                  ELSE Counted(s[1]))
  <1> DEFINE lb == LengthBytes(s[1])
  <1>1. ByteAt(s, 0) = s[1]
    <2>1. 0 \in Nat /\ 0 < Len(s) /\ 0 + 1 = 1  OBVIOUS
    <2>2. ByteAt(s, 0) = s[0 + 1]  BY <2>1, ByteAtFacts
    <2> QED BY <2>1, <2>2
  <1>2. lb \in 0..4 /\ 0 + 1 = 1 /\ 0 + 1 + lb = 1 + lb
    <2>1. lb \in 0..4  BY DEF LengthBytes
    <2> QED BY <2>1
  <1>3. Element(s, 0) = ElementOf(s, 0, s[1], lb)  BY <1>1 DEF Element
  <1> HIDE DEF lb
  <1> QED BY <1>2, <1>3 DEF ElementOf, Counted, lb

(* An element without length bytes.                                        *)
LEMMA ShortElement ==
  ASSUME NEW s \in Bytes, Len(s) > 0, ~CountsAfter(s[1])
  PROVE  /\ Element(s, 0).opcode = s[1] /\ Element(s, 0).header = 1
         /\ Element(s, 0).length = 1 + Counted(s[1])
  <1>1. LengthBytes(s[1]) = 0  BY DEF LengthBytes, CountsAfter
  <1>2. Element(s, 0).opcode = s[1] /\ Element(s, 0).header = 1 + 0
        /\ Element(s, 0).length = 1 + 0 + Counted(s[1])
    BY <1>1, ElementParts
  <1>3. \A b : Counted(b) \in Nat
    <2> TAKE b
    <2>1. CASE b \in 1..75  BY <2>1 DEF Counted
    <2>2. CASE ~(b \in 1..75)  BY <2>2 DEF Counted
    <2> QED BY <2>1, <2>2
  <1> QED BY <1>2, <1>3

(* A push is one element, and its data is read back from it.               *)
LEMMA PushElement ==
  ASSUME NEW d \in Bytes, Len(d) <= MaxLength, NEW s, s = PushHeader(Len(d)) \o d
  PROVE  /\ s \in Bytes /\ Len(s) > 0 /\ s[1] \in 0..78
         /\ PushHeader(Len(d)) \in Bytes /\ Len(PushHeader(Len(d))) \in 1..5
         /\ Element(s, 0).opcode = s[1] /\ Element(s, 0).length = Len(s)
         /\ Element(s, 0).header = Len(PushHeader(Len(d)))
         /\ ElementData(s, 0, Element(s, 0)) = d
  <1> DEFINE n == Len(d)
             h == PushHeader(n)
             e == Element(s, 0)
             Read == /\ h \in Bytes /\ Len(h) \in 1..5 /\ s[1] \in 0..78
                     /\ s \in Bytes /\ Len(s) = Len(h) + n
                     /\ e.opcode = s[1] /\ e.header = Len(h) /\ e.length = Len(s)
  <1>0. n \in Nat /\ n <= MaxLength  BY BytesFacts
  <1>1. Read
    <2>1. CASE n <= 75 /\ h = <<n>>
      <3>0. s = h \o d  OBVIOUS
      <3> HIDE DEF e, h, n
      <3>1. n \in Byte  BY <1>0, <2>1 DEF Byte
      <3>2. h \in Bytes /\ Len(h) = 1 /\ h[1] = n  BY <2>1, <3>1, OneByteRead
      <3>3. s \in Bytes /\ Len(s) = 1 + n
        BY <3>0, <3>2, BytesConcat DEF n
      <3>4. s[1] = n /\ s[1] \in 0..255 \ (76..78) /\ s[1] \in 0..78
        <4>0. 1 \in 1..(Len(h) + Len(d)) /\ 1 <= Len(h)  BY <3>2, BytesFacts
        <4>1. s[1] = h[1]  BY <3>0, <3>2, <4>0, ConcatProperties DEF Bytes
        <4> QED BY <1>0, <2>1, <3>2, <4>1
      <3>5. Len(s) > 0  BY <1>0, <3>3
      <3>6. e.opcode = n /\ e.header = 1 /\ e.length = 1 + n
        <4>1. ~CountsAfter(s[1]) /\ Counted(s[1]) = s[1]
          BY <1>0, <2>1, <3>4 DEF CountsAfter, Counted
        <4>2. s \in Bytes  BY <3>3
        <4>3. e.opcode = s[1] /\ e.header = 1 /\ e.length = 1 + Counted(s[1])
          BY <3>5, <4>1, <4>2, ShortElement DEF e
        <4>4. s[1] = n  BY <3>4
        <4> QED BY <4>1, <4>3, <4>4
      <3>7. e.length = 1 + n  BY <1>0, <2>1, <3>4, <3>6
      <3> QED BY <1>0, <3>2, <3>3, <3>4, <3>6, <3>7
    <2>2. ASSUME NEW op \in 76..78, NEW le \in Bytes, h = <<op>> \o le,
                 Len(le) = LengthBytes(op), FromLittleEndian(le) = n
          PROVE  Read
      <3> DEFINE lb == LengthBytes(op)
      <3>0. s = h \o d  OBVIOUS
      <3> HIDE DEF e, h, n
      <3>1. op \in Byte /\ lb \in 1..4 /\ op \in 0..78 /\ <<op>> \in Bytes /\ Len(<<op>>) = 1
        <4>1. op \in Byte /\ lb \in 1..4 /\ op \in 0..78  BY DEF Byte, LengthBytes
        <4> QED BY <4>1, OneByteRead
      <3>2. h \in Bytes /\ Len(h) = 1 + lb /\ h[1] = op
        BY <2>2, <3>1 DEF Bytes
      <3>3. s = <<op>> \o le \o d  BY <2>2, <3>0
      <3>4. s \in Bytes /\ Len(s) = 1 + lb + n
        BY <3>0, <3>2, BytesConcat DEF n
      <3>a. s[1] = op  BY <3>0, <3>1, <3>2 DEF Bytes
      <3>5. Slice(s, 1, 1 + lb) = le
        <4>1. Slice(<<op>> \o le \o d, Len(<<op>>), Len(<<op>>) + Len(le)) = le
          BY <2>2, <3>1, SliceMiddle DEF Bytes
        <4> QED BY <2>2, <3>1, <3>3, <4>1
      <3>b. Len(s) > 0 /\ lb > 0  BY <1>0, <3>1, <3>4
      <3>6. e.opcode = s[1] /\ e.header = 1 + lb
            /\ e.length = 1 + lb + FromLittleEndian(Slice(s, 1, 1 + lb))
        BY <3>4, <3>a, <3>b, ElementParts DEF e
      <3>7. e.length = 1 + lb + n  BY <2>2, <3>5, <3>6
      <3> HIDE DEF lb
      <3> QED BY <1>0, <3>1, <3>2, <3>4, <3>a, <3>6, <3>7
    <2>3. \/ n <= 75 /\ h = <<n>>
          \/ \E op \in 76..78, le \in Bytes : /\ h = <<op>> \o le /\ Len(le) = LengthBytes(op)
                                            /\ FromLittleEndian(le) = n
      <3> HIDE DEF n
      <3> QED BY <1>0, HeaderParts
    <2> HIDE DEF e, h, n, Read
    <2> QED BY <2>1, <2>2, <2>3
  <1>2. ElementData(s, 0, e) = d
    <2> HIDE DEF e, h, n
    <2>1. 0 + e.header = Len(h) /\ 0 + e.length = Len(h) + Len(d)
      BY <1>0, <1>1 DEF n
    <2>2. ElementData(s, 0, e) = Slice(s, Len(h), Len(h) + Len(d))
      BY <2>1 DEF ElementData
    <2>3. s = h \o d \o <<>> /\ <<>> \in Bytes
      <3>1. s = h \o d  BY DEF h, n
      <3>2. h \o d \in Seq(Byte)  BY <1>1, BytesConcat DEF Bytes
      <3> QED BY <3>1, <3>2 DEF Bytes
    <2>4. Slice(h \o d \o <<>>, Len(h), Len(h) + Len(d)) = d
      BY <1>1, <2>3, SliceMiddle DEF Bytes
    <2> QED BY <2>2, <2>3, <2>4
  <1>3. Len(s) > 0
    <2> HIDE DEF e, h, n
    <2> QED BY <1>0, <1>1
  <1> QED BY <1>1, <1>2, <1>3

(* What the SDK and the emitter push hides no OP_RETURN.                   *)
LEMMA CleanOpcode ==
  ASSUME NEW byte \in Byte \ ((1..78) \cup {OP_RETURN}) PROVE Clean(<<byte>>)
  <1>1. byte \in Byte /\ byte \in 0..255 \ (1..78) /\ byte # OP_RETURN
    BY DEF Byte
  <1> DEFINE s == <<byte>>
  <1>2. s \in Bytes /\ Len(s) = 1 /\ s[1] = byte  BY <1>1 DEF Bytes
  <1> HIDE DEF s
  <1>3. Element(s, 0).length = 1
    <2>1. s \in Bytes /\ Len(s) > 0  BY <1>2
    <2>2. ~CountsAfter(s[1]) /\ Counted(s[1]) = 0
      BY <1>1, <1>2 DEF CountsAfter, Counted
    <2>3. Element(s, 0).length = 1 + Counted(s[1])  BY <2>1, <2>2, ShortElement
    <2> QED BY <2>2, <2>3
  <1>4. Element(s, 0).length = Len(s) /\ Len(s) > 0 /\ s[1] # OP_RETURN
    BY <1>1, <1>2, <1>3
  <1>5. Clean(s)  BY <1>2, <1>4, CleanElement
  <1> QED BY <1>5 DEF s

(* A push is clean whatever its data.                                      *)
LEMMA CleanPush ==
  ASSUME NEW d \in Bytes, Len(d) <= MaxLength PROVE Clean(PushHeader(Len(d)) \o d)
  <1> DEFINE s == PushHeader(Len(d)) \o d
  <1>1. s \in Bytes /\ Len(s) > 0 /\ s[1] \in 0..78 /\ Element(s, 0).length = Len(s)
    BY PushElement
  <1> HIDE DEF s
  <1>2. s[1] # OP_RETURN
    <2>1. \A b \in 0..78 : b # OP_RETURN  BY DEF OP_RETURN
    <2> QED BY <1>1, <2>1
  <1>3. Clean(s)  BY <1>1, <1>2, CleanElement
  <1> QED BY <1>3 DEF s

(* So is what encodePushData makes.                                        *)
LEMMA CleanPushData ==
  ASSUME NEW d \in Bytes, Len(d) <= MaxLength PROVE Clean(encodePushData(d))
  <1>1. Clean(<<0>>) /\ Clean(<<79>>)
    BY CleanOpcode DEF Byte, OP_RETURN
  <1>2. ASSUME NEW k \in 1..16 PROVE Clean(<<80 + k>>)
    <2>1. 80 + k \in Byte \ ((1..78) \cup {OP_RETURN})  BY DEF Byte, OP_RETURN
    <2> QED BY <2>1, CleanOpcode
  <1>3. Clean(PushHeader(Len(d)) \o d)  BY CleanPush
  <1>4. CASE d = <<>>
    <2>1. encodePushData(d) = <<0>>  BY <1>4 DEF encodePushData
    <2> QED BY <1>1, <2>1
  <1>5. CASE d # <<>> /\ Len(d) = 1 /\ d[1] \in 1..16
    <2>1. encodePushData(d) = <<80 + d[1]>>  BY <1>5 DEF encodePushData
    <2> QED BY <1>2, <1>5, <2>1
  <1>6. CASE d # <<>> /\ ~(Len(d) = 1 /\ d[1] \in 1..16) /\ d = <<129>>
    <2>1. encodePushData(d) = <<79>>  BY <1>6 DEF encodePushData
    <2> QED BY <1>1, <2>1
  <1>7. CASE d # <<>> /\ ~(Len(d) = 1 /\ d[1] \in 1..16) /\ d # <<129>>
    <2>1. encodePushData(d) = PushHeader(Len(d)) \o d  BY <1>7 DEF encodePushData
    <2> QED BY <1>3, <2>1
  <1> QED BY <1>4, <1>5, <1>6, <1>7

(* A push header is bytes.                                                 *)
LEMMA HeaderType ==
  ASSUME NEW n \in Nat PROVE PushHeader(n) \in Bytes
  <1>1. \/ n <= 75 /\ PushHeader(n) = <<n>>
        \/ n <= 255 /\ PushHeader(n) = <<76, n>>
        \/ PushHeader(n) = <<77>> \o LittleEndian(n, 2)
        \/ PushHeader(n) = <<78>> \o LittleEndian(n, 4)
    <2>1. CASE n <= 75
      <3>1. PushHeader(n) = <<n>>  BY <2>1, SMT DEF PushHeader
      <3> QED BY <2>1, <3>1, SMT
    <2>2. CASE 75 < n /\ n <= 255
      <3>1. PushHeader(n) = <<76, n>>  BY <2>2, SMT DEF PushHeader
      <3> QED BY <2>2, <3>1, SMT
    <2>3. CASE 255 < n /\ n <= 65535
      <3>1. PushHeader(n) = <<77>> \o LittleEndian(n, 2)  BY <2>3, SMT DEF PushHeader
      <3> QED BY <3>1, SMT
    <2>4. CASE n > 65535
      <3>1. PushHeader(n) = <<78>> \o LittleEndian(n, 4)  BY <2>4, SMT DEF PushHeader
      <3> QED BY <3>1, SMT
    <2> QED BY <2>1, <2>2, <2>3, <2>4, SMT
  <1>2. LittleEndian(n, 2) \in Bytes /\ LittleEndian(n, 4) \in Bytes
    <2>1. 2 \in Nat /\ 4 \in Nat  OBVIOUS
    <2> QED BY <2>1, LittleEndianType
  <1>3. n <= 255 => n \in Byte  BY DEF Byte
  <1>4. \A b \in Byte : <<b>> \in Bytes /\ <<76, b>> \in Bytes  BY DEF Bytes, Byte
  <1>5. <<77>> \in Bytes /\ <<78>> \in Bytes  BY DEF Bytes, Byte
  <1>6. <<77>> \o LittleEndian(n, 2) \in Bytes /\ <<78>> \o LittleEndian(n, 4) \in Bytes
    BY <1>2, <1>5, BytesConcat
  <1>7. n <= 75 => n <= 255  OBVIOUS
  <1> QED BY <1>1, <1>3, <1>4, <1>6, <1>7

(* encodePushData makes bytes, at least as many as it is given.            *)
LEMMA PushSize ==
  ASSUME NEW d \in Bytes
  PROVE  encodePushData(d) \in Bytes /\ Len(d) <= Len(encodePushData(d))
  <1>0. Len(d) \in Nat /\ PushHeader(Len(d)) \in Bytes  BY BytesFacts, HeaderType
  <1>1. PushHeader(Len(d)) \o d \in Bytes /\ Len(d) <= Len(PushHeader(Len(d)) \o d)
    <2>1. Len(PushHeader(Len(d))) \in Nat  BY <1>0, BytesFacts
    <2> QED BY <1>0, <2>1, BytesConcat
  <1>2. \A b \in Byte : <<b>> \in Bytes /\ Len(<<b>>) = 1  BY DEF Bytes
  <1>3. 0 \in Byte /\ 79 \in Byte /\ \A k \in 1..16 : 80 + k \in Byte  BY DEF Byte
  <1>4. CASE d = <<>>
    <2>1. encodePushData(d) = <<0>>  BY <1>4 DEF encodePushData
    <2>2. Len(d) = 0  BY <1>4
    <2> QED BY <1>2, <1>3, <2>1, <2>2
  <1>5. CASE d # <<>> /\ Len(d) = 1 /\ d[1] \in 1..16
    <2> DEFINE k == d[1]
    <2>1. encodePushData(d) = <<80 + k>>  BY <1>5 DEF encodePushData
    <2>2. k \in 1..16  BY <1>5
    <2> HIDE DEF k
    <2>3. <<80 + k>> \in Bytes /\ Len(<<80 + k>>) = 1  BY <1>2, <1>3, <2>2
    <2>4. Len(d) <= 1  BY <1>5
    <2> QED BY <2>1, <2>3, <2>4
  <1>6. CASE d # <<>> /\ ~(Len(d) = 1 /\ d[1] \in 1..16) /\ d = <<129>>
    <2>1. encodePushData(d) = <<79>>  BY <1>6 DEF encodePushData
    <2>2. Len(d) = 1  BY <1>6
    <2> QED BY <1>2, <1>3, <2>1, <2>2
  <1>7. CASE d # <<>> /\ ~(Len(d) = 1 /\ d[1] \in 1..16) /\ d # <<129>>
    <2>1. encodePushData(d) = PushHeader(Len(d)) \o d  BY <1>7 DEF encodePushData
    <2> QED BY <1>1, <2>1
  <1> QED BY <1>4, <1>5, <1>6, <1>7

(* The bytes of a number with its sign, one more than without at most.     *)
LEMMA SignMagnitudeType ==
  ASSUME NEW n \in Int, n # 0
  PROVE  SignMagnitude(n) \in Bytes /\ Len(SignMagnitude(n)) <= Len(Magnitude[Abs_(n)]) + 1
  <1> DEFINE bytes == Magnitude[Abs_(n)]
             sign == IF n < 0 THEN 128 ELSE 0
  <1>1. Abs_(n) \in Nat /\ Abs_(n) # 0  BY DEF Abs_
  <1>2. bytes \in Bytes /\ Len(bytes) \in Nat /\ Len(bytes) > 0
    <2> DEFINE m == Abs_(n)
    <2>1. m \in Nat /\ m # 0  BY <1>1
    <2> HIDE DEF m
    <2>2. Magnitude[m] \in Bytes /\ Len(Magnitude[m]) \in Nat  BY <2>1, MagnitudeType
    <2>3. Len(Magnitude[m]) > 0  BY <2>1, MagnitudeBounds
    <2> QED BY <2>2, <2>3 DEF m
  <1>3. Last(bytes) \in Byte
    <2>1. Len(bytes) \in 1..Len(bytes)  BY <1>2
    <2> QED BY <1>2, <2>1, BytesFacts DEF Last
  <1>4. sign \in {0, 128}  OBVIOUS
  <1>5. SignMagnitude(n) = IF Last(bytes) >= 128 THEN Append(bytes, sign)
                           ELSE WithLast(bytes, Last(bytes) + sign)
    BY DEF SignMagnitude
  <1> HIDE DEF bytes, sign
  <1>6. Append(bytes, sign) \in Bytes /\ Len(Append(bytes, sign)) = Len(bytes) + 1
    <2>1. sign \in Byte  BY <1>4 DEF Byte
    <2> QED BY <1>2, <2>1 DEF Bytes
  <1>7. CASE Last(bytes) < 128
    <2>1. Last(bytes) + sign \in Byte  BY <1>3, <1>4, <1>7 DEF Byte
    <2>2. WithLast(bytes, Last(bytes) + sign) \in Bytes
          /\ Len(WithLast(bytes, Last(bytes) + sign)) = Len(bytes)
      BY <1>2, <2>1, WithLastFacts
    <2>3. ~(Last(bytes) >= 128)  BY <1>3, <1>7 DEF Byte
    <2> QED BY <1>2, <1>5, <2>2, <2>3 DEF bytes
  <1>8. CASE Last(bytes) >= 128
    BY <1>2, <1>5, <1>6, <1>8 DEF bytes
  <1>9. Last(bytes) < 128 \/ Last(bytes) >= 128  BY <1>3 DEF Byte
  <1> QED BY <1>7, <1>8, <1>9

(* A number is pushed by an opcode of its own or as its bytes.             *)
LEMMA NumberCases ==
  ASSUME NEW n \in Int
  PROVE  \/ \E byte \in Byte \ ((1..78) \cup {OP_RETURN}) : encodeScriptNumber(n) = <<byte>>
         \/ n # 0 /\ encodeScriptNumber(n) = encodePushData(SignMagnitude(n))
  <1>1. CASE n = 0
    <2>1. encodeScriptNumber(n) = <<0>>  BY <1>1 DEF encodeScriptNumber
    <2> QED BY <2>1 DEF Byte, OP_RETURN
  <1>2. CASE n \in 1..16
    <2>1. encodeScriptNumber(n) = <<80 + n>>  BY <1>2 DEF encodeScriptNumber
    <2>2. 80 + n \in Byte \ ((1..78) \cup {OP_RETURN})  BY <1>2 DEF Byte, OP_RETURN
    <2> QED BY <2>1, <2>2
  <1>3. CASE n = -1
    <2>1. encodeScriptNumber(n) = <<79>>  BY <1>3 DEF encodeScriptNumber
    <2> QED BY <2>1 DEF Byte, OP_RETURN
  <1>4. CASE n # 0 /\ n # -1 /\ ~(n \in 1..16)
    <2>1. encodeScriptNumber(n) = encodePushData(SignMagnitude(n))
      BY <1>4 DEF encodeScriptNumber
    <2> QED BY <1>4, <2>1
  <1> QED BY <1>1, <1>2, <1>3, <1>4

(* An opcode of one byte is clean.                                         *)
LEMMA OneByteType ==
  ASSUME NEW byte \in Byte \ ((1..78) \cup {OP_RETURN})
  PROVE  <<byte>> \in Bytes /\ Len(<<byte>>) = 1 /\ Clean(<<byte>>)
  BY CleanOpcode, OneByteRead

(* A number is pushed by bytes, and cleanly.                               *)
LEMMA NumberType ==
  ASSUME NEW n \in Int
  PROVE  /\ encodeScriptNumber(n) \in Bytes
         /\ Len(encodeScriptNumber(n)) <= MaxLength => Clean(encodeScriptNumber(n))
  <1>1. CASE \E byte \in Byte \ ((1..78) \cup {OP_RETURN}) : encodeScriptNumber(n) = <<byte>>
    BY <1>1, OneByteType
  <1>2. CASE n # 0 /\ encodeScriptNumber(n) = encodePushData(SignMagnitude(n))
    <2> DEFINE d == SignMagnitude(n)
    <2>1. d \in Bytes  BY <1>2, SignMagnitudeType
    <2> HIDE DEF d
    <2>2. encodePushData(d) \in Bytes /\ Len(d) <= Len(encodePushData(d))  BY <2>1, PushSize
    <2>3. Len(encodePushData(d)) <= MaxLength => Len(d) <= MaxLength
      <3>1. Len(d) \in Nat /\ Len(encodePushData(d)) \in Nat  BY <2>1, <2>2, BytesFacts
      <3> QED BY <2>2, <3>1, MaxLengthNat
    <2>4. Len(encodePushData(d)) <= MaxLength => Clean(encodePushData(d))
      BY <2>1, <2>3, CleanPushData
    <2> QED BY <1>2, <2>2, <2>4 DEF d
  <1> QED BY <1>1, <1>2, NumberCases

(* An index is pushed cleanly.                                             *)
LEMMA IndexShort ==
  ASSUME NEW n \in Int, Abs_(n) <= MaxLength PROVE Clean(encodeScriptNumber(n))
  <1>1. CASE \E byte \in Byte \ ((1..78) \cup {OP_RETURN}) : encodeScriptNumber(n) = <<byte>>
    BY <1>1, OneByteType
  <1>2. CASE n # 0 /\ encodeScriptNumber(n) = encodePushData(SignMagnitude(n))
    <2>1. SignMagnitude(n) \in Bytes /\ Len(SignMagnitude(n)) <= Len(Magnitude[Abs_(n)]) + 1
      BY <1>2, SignMagnitudeType
    <2>2. Abs_(n) \in Nat  BY DEF Abs_
    <2>3. Len(Magnitude[Abs_(n)]) \in Nat /\ Len(Magnitude[Abs_(n)]) <= 4
      BY <2>2, MagnitudeBounds, MagnitudeFacts, BytesFacts
    <2>4. Len(SignMagnitude(n)) \in Nat  BY <2>1, BytesFacts
    <2>5. Len(SignMagnitude(n)) <= 5  BY <2>1, <2>3, <2>4
    <2>6. Len(SignMagnitude(n)) <= MaxLength  BY <2>4, <2>5, SMT DEF MaxLength
    <2> QED BY <1>2, <2>1, <2>6, CleanPushData
  <1> QED BY <1>1, <1>2, NumberCases

(* An argument is one element.                                             *)
LEMMA ArgType ==
  ASSUME NEW value \in Value
  PROVE  /\ encodeArg(value) \in Bytes
         /\ Short(value) => Clean(encodeArg(value))
  <1>1. CASE value \in [type : {"bigint"}, n : Int]
    <2>1. value.type = "bigint" /\ value.n \in Int  BY <1>1
    <2>2. encodeArg(value) = encodeScriptNumber(value.n)  BY <2>1 DEF encodeArg
    <2> QED BY <2>1, <2>2, NumberType DEF Short
  <1>2. CASE value \in [type : {"boolean"}, value : BOOLEAN]
    <2>1. value.type = "boolean" /\ value.value \in BOOLEAN  BY <1>2
    <2>2. encodeArg(value) = IF value.value THEN <<81>> ELSE <<0>>  BY <2>1 DEF encodeArg
    <2>3. 81 \in Byte \ ((1..78) \cup {OP_RETURN}) /\ 0 \in Byte \ ((1..78) \cup {OP_RETURN})
      BY DEF Byte, OP_RETURN
    <2> QED BY <2>1, <2>2, <2>3, OneByteType
  <1>3. CASE value \in [type : {"data"}, bytes : Seq(Byte)]
    <2>1. value.type = "data" /\ value.bytes \in Bytes  BY <1>3 DEF Bytes
    <2>2. encodeArg(value) = encodePushData(value.bytes)  BY <2>1 DEF encodeArg
    <2> DEFINE d == value.bytes
    <2>3. encodePushData(d) \in Bytes /\ Len(d) <= Len(encodePushData(d))  BY <2>1, PushSize
    <2>4. Len(encodePushData(d)) <= MaxLength => Len(d) <= MaxLength
      <3>1. Len(d) \in Nat /\ Len(encodePushData(d)) \in Nat  BY <2>1, <2>3, BytesFacts
      <3> HIDE DEF d
      <3> QED BY <2>3, <3>1, MaxLengthNat
    <2>5. Len(encodePushData(d)) <= MaxLength => Clean(encodePushData(d))
      BY <2>1, <2>4, CleanPushData
    <2> QED BY <2>2, <2>3, <2>5 DEF Short
  <1> QED BY <1>1, <1>2, <1>3 DEF Value

-----------------------------------------------------------------------------
(* Concatenation.                                                          *)
Joins(S, seqs, f) ==
  /\ f \in [0..Len(seqs) -> Seq(S)] /\ f[0] = <<>>
  /\ \A k \in 1..Len(seqs) : f[k] = f[k - 1] \o seqs[k]

(* Concat joins its parts one by one.                                      *)
LEMMA ConcatParts ==
  ASSUME NEW S, NEW seqs \in Seq(Seq(S))
  PROVE  \E f : Joins(S, seqs, f) /\ Concat(seqs) = f[Len(seqs)]
  <1> DEFINE n == Len(seqs)
             T == Seq(S)
             body(k, g) == IF k = 1 THEN seqs[k] ELSE g[k - 1] \o seqs[k]
             H == [k \in 1..n |-> [g \in [1..n -> T] |-> body(k, g)]]
             rank == [k \in 1..n |-> k]
             flat == CHOOSE g : g = [k \in 1..n |-> body(k, g)]
             f == [k \in 0..n |-> IF k = 0 THEN <<>> ELSE flat[k]]
  <1>0. /\ n \in Nat /\ \A k \in 1..n : seqs[k] \in T
        /\ <<>> \in T /\ \A a, b \in T : a \o b \in T /\ <<>> \o a = a
    OBVIOUS
  <1>a. Concat(seqs) = IF n = 0 THEN seqs ELSE flat[n]
    BY DEF Concat, FlattenSeq
  <1>b. n = 0 => seqs = <<>>  OBVIOUS
  <1> HIDE DEF n, T
  <1>1. \E g : Solves(1..n, T, H, g)
    <2>1. rank \in [1..n -> Nat] /\ T # {}  BY <1>0
    <2>2. ASSUME NEW k \in 1..n, NEW g \in [1..n -> T] PROVE body(k, g) \in T
      <3>1. k # 1 => k - 1 \in 1..n  BY <1>0
      <3> QED BY <1>0, <3>1
    <2>3. \A k \in 1..n : \A g \in [1..n -> T] : H[k][g] \in T
      BY <2>2
    <2>4. ASSUME NEW k \in 1..n, NEW g \in [1..n -> T], NEW h \in [1..n -> T],
                 \A y \in 1..n : rank[y] < rank[k] => g[y] = h[y]
          PROVE  H[k][g] = H[k][h]
      <3>1. k # 1 => k - 1 \in 1..n /\ rank[k - 1] < rank[k]  BY <1>0
      <3>2. body(k, g) = body(k, h)  BY <2>4, <3>1
      <3> QED BY <3>2
    <2>5. \A k \in 1..n : \A g, h \in [1..n -> T] :
             (\A y \in 1..n : rank[y] < rank[k] => g[y] = h[y]) => H[k][g] = H[k][h]
      BY <2>4
    <2> HIDE DEF H, rank, body, flat
    <2>6. Ranked(1..n, T, rank, H)  BY <2>1, <2>3, <2>5, Zenon DEF Ranked
    <2> QED BY <2>6, RankRecursion, Zenon
  <1>2. PICK g \in [1..n -> T] : \A k \in 1..n : g[k] = H[k][g]
    BY <1>1 DEF Solves
  <1>3. g = [k \in 1..n |-> body(k, g)]
    BY <1>2
  <1>4. flat = [k \in 1..n |-> body(k, flat)]
    BY <1>3
  <1> HIDE DEF flat
  <1> DEFINE P == {k \in 0..n : f[k] \in T /\ (k # 0 => f[k] = f[k - 1] \o seqs[k])}
  <1>5. 0 \in P  BY <1>0
  <1>6. ASSUME NEW k \in P, k \in 0..(n - 1) PROVE k + 1 \in P
    <2>1. /\ k + 1 \in 1..n /\ k + 1 \in 0..n /\ (k + 1) - 1 = k /\ k + 1 # 0
          /\ (k # 0 => k \in 1..n /\ k + 1 # 1) /\ (k = 0 => k + 1 = 1)
      BY <1>0, <1>6
    <2>2. f[k] \in T  BY <1>6
    <2>3. f[k + 1] = body(k + 1, flat)  BY <1>4, <2>1
    <2>4. f[k + 1] = f[k] \o seqs[k + 1]
      <3>1. CASE k = 0
        <4>1. f[k] = <<>> /\ f[k + 1] = seqs[k + 1]  BY <2>1, <2>3, <3>1
        <4> QED BY <1>0, <2>1, <4>1
      <3>2. CASE k # 0
        <4>1. f[k] = flat[k] /\ f[k + 1] = flat[k] \o seqs[k + 1]  BY <1>6, <2>1, <2>3, <3>2
        <4> QED BY <4>1
      <3> QED BY <3>1, <3>2
    <2>5. f[k + 1] \in T  BY <1>0, <2>1, <2>2, <2>4
    <2> HIDE DEF f
    <2> QED BY <2>1, <2>4, <2>5
  <1> HIDE DEF P
  <1>7. 0..n \subseteq P  BY <1>0, <1>5, <1>6, UpTo
  <1>8. \A k \in 0..n : f[k] \in T /\ (k # 0 => f[k] = f[k - 1] \o seqs[k])
    BY <1>7 DEF P
  <1>9. f[0] = <<>> /\ DOMAIN f = 0..n /\ f = [k \in 0..n |-> f[k]]  BY <1>0
  <1>10. Concat(seqs) = f[n]
    <2>1. CASE n = 0  BY <1>a, <1>b, <1>0, <2>1
    <2>2. CASE n # 0  BY <1>a, <1>0, <2>2
    <2> QED BY <2>1, <2>2
  <1> HIDE DEF f
  <1>11. f \in [0..n -> T]  BY <1>8, <1>9
  <1>12. \A k \in 1..n : f[k] = f[k - 1] \o seqs[k]
    <2>1. \A k \in 1..n : k \in 0..n /\ k # 0  BY <1>0
    <2> QED BY <1>8, <2>1
  <1> QED BY <1>9, <1>10, <1>11, <1>12 DEF Joins, n, T

(* Each part of what is joined begins it.                                  *)
Prefixed(S, a, s) == \E rest \in Seq(S) : s = a \o rest

LEMMA JoinsPrefix ==
  ASSUME NEW S, NEW seqs \in Seq(Seq(S)), NEW f, Joins(S, seqs, f), NEW i \in 0..Len(seqs)
  PROVE  Prefixed(S, f[i], f[Len(seqs)])
  <1> DEFINE n == Len(seqs)
             P == {k \in 0..(n - i) : \E rest \in Seq(S) : f[i + k] = f[i] \o rest}
  <1>0. /\ n \in Nat /\ \A k \in 0..n : f[k] \in Seq(S)
        /\ \A k \in 1..n : seqs[k] \in Seq(S) /\ f[k] = f[k - 1] \o seqs[k]
    <2>1. n \in Nat /\ \A k \in 1..n : seqs[k] \in Seq(S)  OBVIOUS
    <2>2. f \in [0..n -> Seq(S)] /\ \A k \in 1..n : f[k] = f[k - 1] \o seqs[k]
      BY DEF Joins
    <2> HIDE DEF n
    <2> QED BY <2>1, <2>2
  <1> HIDE DEF n
  <1>i. i \in 0..n  BY DEF n
  <1>1. 0 \in P
    <2>1. i + 0 = i /\ 0 \in 0..(n - i) /\ f[i] \in Seq(S)  BY <1>0, <1>i
    <2>2. f[i] = f[i] \o <<>> /\ <<>> \in Seq(S)  BY <2>1
    <2> QED BY <2>1, <2>2
  <1>2. ASSUME NEW k \in P, k \in 0..((n - i) - 1) PROVE k + 1 \in P
    <2>1. PICK rest \in Seq(S) : f[i + k] = f[i] \o rest  BY <1>2
    <2>2. /\ k + 1 \in 0..(n - i) /\ i + (k + 1) \in 1..n /\ (i + (k + 1)) - 1 = i + k
      BY <1>0, <1>i, <1>2
    <2>3. f[i + (k + 1)] = (f[i] \o rest) \o seqs[i + (k + 1)] /\ seqs[i + (k + 1)] \in Seq(S)
      BY <1>0, <2>1, <2>2
    <2>4. f[i] \in Seq(S)  BY <1>0, <1>i
    <2> HIDE DEF P
    <2>5. f[i + (k + 1)] = f[i] \o (rest \o seqs[i + (k + 1)])
      <3> DEFINE a == f[i]
                 c == seqs[i + (k + 1)]
      <3>1. f[i + (k + 1)] = (a \o rest) \o c /\ a \in Seq(S) /\ c \in Seq(S)
        BY <2>3, <2>4
      <3> HIDE DEF a, c
      <3>a. a \in Seq(S) /\ rest \in Seq(S) /\ c \in Seq(S)  BY <3>1
      <3>2. Associative(a, rest, c)  BY <3>a, SeqAssociative
      <3>3. f[i + (k + 1)] = a \o (rest \o c)  BY <3>1, <3>2 DEF Associative
      <3> QED BY <3>3 DEF a, c
    <2>6. rest \o seqs[i + (k + 1)] \in Seq(S)  BY <2>3
    <2> QED BY <2>2, <2>5, <2>6 DEF P
  <1> HIDE DEF P
  <1>3. n - i \in 0..(n - i) /\ n - i \in Nat /\ i + (n - i) = n  BY <1>0, <1>i
  <1>4. 0..(n - i) \subseteq P  BY <1>1, <1>2, <1>3, UpTo
  <1>5. \E rest \in Seq(S) : f[i + (n - i)] = f[i] \o rest  BY <1>3, <1>4 DEF P
  <1>6. \E rest \in Seq(S) : f[n] = f[i] \o rest  BY <1>3, <1>5
  <1> QED BY <1>6 DEF n, Prefixed

-----------------------------------------------------------------------------
(* One field.                                                              *)
LEMMA DecodeType ==
  ASSUME NEW bytes \in Bytes PROVE decodeScriptNumber(bytes) \in Int
  <1>1. CASE bytes = <<>>  BY <1>1 DEF decodeScriptNumber
  <1>2. CASE bytes # <<>>
    <2> DEFINE plain == WithLast(bytes, Last(bytes) % 128)
    <2>1. Len(bytes) > 0 /\ Len(bytes) \in 1..Len(bytes)
      <3>1. Len(bytes) \in Nat /\ (Len(bytes) = 0 => bytes = <<>>)  BY DEF Bytes
      <3> QED BY <1>2, <3>1
    <2>2. Last(bytes) \in Byte  BY <2>1, BytesFacts DEF Last
    <2>3. Last(bytes) % 128 \in Byte  BY <2>2 DEF Byte
    <2>4. plain \in Bytes  BY <2>1, <2>3, WithLastFacts
    <2>5. decodeScriptNumber(bytes) = IF Last(bytes) >= 128 THEN -FromLittleEndian(plain)
                                     ELSE FromLittleEndian(plain)
      BY <1>2 DEF decodeScriptNumber
    <2> HIDE DEF plain
    <2>6. FromLittleEndian(plain) \in Nat  BY <2>4, FromLittleEndianType
    <2> QED BY <2>5, <2>6
  <1> QED BY <1>1, <1>2

(* The widths of the types that have one.                                  *)
LEMMA WidthFacts ==
  /\ Width("bigint") = WordSize /\ Width("boolean") = 1 /\ Width("Addr") = 20
  /\ \A type : type \notin {"bigint", "boolean", "Addr"} => Width(type) = 0
  /\ WordSize \in Nat /\ WordSize > 0
  BY WordAssumption DEF Width

(* A decoded field is a value.                                             *)
LEMMA DecodedType ==
  ASSUME NEW bytes \in Bytes, NEW type PROVE decodeStateValue(bytes, type) \in Value
  <1>1. CASE type = "bigint"
    <2>1. decodeStateValue(bytes, type) = [type |-> "bigint", n |-> decodeScriptNumber(bytes)]
      BY <1>1 DEF decodeStateValue, Int_
    <2> QED BY <2>1, DecodeType DEF Value
  <1>2. CASE type = "boolean"
    <2>1. decodeStateValue(bytes, type) = [type |-> "boolean", value |-> (bytes # <<0>>)]
      BY <1>2 DEF decodeStateValue, Bool
    <2> QED BY <2>1 DEF Value
  <1>3. CASE type = "Addr"
    <2>1. decodeStateValue(bytes, type) = [type |-> "data", bytes |-> bytes]
      BY <1>3 DEF decodeStateValue, Data
    <2> QED BY <2>1 DEF Value, Bytes
  <1>4. CASE type \notin {"bigint", "boolean", "Addr"}
    <2> DEFINE d == ElementData(bytes, 0, Element(bytes, 0))
    <2>1. decodeStateValue(bytes, type) = [type |-> "data", bytes |-> d]
      BY <1>4 DEF decodeStateValue, Data
    <2>2. Element(bytes, 0).header \in Nat /\ Element(bytes, 0).length \in Nat
      <3>1. 0 \in Nat  OBVIOUS
      <3>2. Element(bytes, 0).header \in 1..5 /\ Element(bytes, 0).length \in Nat
        BY <3>1, ElementType
      <3> QED BY <3>2
    <2>3. d \in Bytes
      <3>1. 0 + Element(bytes, 0).header \in Nat /\ 0 + Element(bytes, 0).length \in Nat
        BY <2>2
      <3> QED BY <3>1, SliceType DEF ElementData, Bytes
    <2> HIDE DEF d
    <2> QED BY <2>1, <2>3 DEF Value, Bytes
  <1> QED BY <1>1, <1>2, <1>3, <1>4

(* A field's bytes: as many as its width, or a push.                       *)
LEMMA FieldCoded ==
  ASSUME NEW type, NEW value, HasType(value, type), type = "bigint" => Fits(value.n),
         NEW c, c = encodeStateValue(value, type)
  PROVE  /\ c \in Bytes /\ decodeStateValue(c, type) = value
         /\ Width(type) > 0 => Len(c) = Width(type)
         /\ Width(type) = 0 =>
               /\ Len(c) > 0 /\ c[1] \in 0..78
               /\ Element(c, 0).opcode = c[1] /\ Element(c, 0).length = Len(c)
  <1>0. value \in Value /\ Short(value)
        /\ value.type = (IF type \in {"bigint", "boolean"} THEN type ELSE "data")
        /\ (type = "Addr" => Len(value.bytes) = 20)
    BY DEF HasType
  <1>1. CASE type = "bigint"
    <2>1. value = [type |-> "bigint", n |-> value.n] /\ value.n \in Int  BY <1>0, <1>1 DEF Value
    <2>2. c = encodeNum2Bin(value.n)  BY <1>1 DEF encodeStateValue
    <2>3. c \in Bytes /\ Len(c) = WordSize /\ decodeScriptNumber(c) = value.n
      BY <1>1, <2>1, <2>2, WordRestored
    <2>4. decodeStateValue(c, type) = [type |-> "bigint", n |-> decodeScriptNumber(c)]
      BY <1>1 DEF decodeStateValue, Int_
    <2>5. decodeStateValue(c, type) = value  BY <2>1, <2>3, <2>4
    <2> QED BY <1>1, <2>3, <2>5, WidthFacts
  <1>2. CASE type = "boolean"
    <2>1. value = [type |-> "boolean", value |-> value.value] /\ value.value \in BOOLEAN
      BY <1>0, <1>2 DEF Value
    <2>2. c = IF value.value THEN <<1>> ELSE <<0>>  BY <1>2 DEF encodeStateValue
    <2>3. c \in Bytes /\ Len(c) = 1
      <3>1. 0 \in Byte /\ 1 \in Byte  BY DEF Byte
      <3> QED BY <2>1, <2>2, <3>1, OneByteRead
    <2>4. decodeStateValue(c, type) = [type |-> "boolean", value |-> (c # <<0>>)]
      BY <1>2 DEF decodeStateValue, Bool
    <2>a. (c # <<0>>) = value.value
      <3>1. <<1>> # <<0>>  OBVIOUS
      <3> QED BY <2>1, <2>2, <3>1
    <2>5. decodeStateValue(c, type) = value  BY <2>1, <2>4, <2>a
    <2>6. Width(type) = 1 /\ ~(Width(type) = 0)
      <3>1. Width(type) = 1  BY <1>2, WidthFacts
      <3> QED BY <3>1
    <2> QED BY <2>3, <2>5, <2>6
  <1>d. ~(type \in {"bigint", "boolean"}) =>
           value = [type |-> "data", bytes |-> value.bytes] /\ value.bytes \in Bytes
    BY <1>0 DEF Value, Bytes
  <1>3. CASE type = "Addr"
    <2>1. value = [type |-> "data", bytes |-> value.bytes] /\ value.bytes \in Bytes
          /\ Len(value.bytes) = 20
      BY <1>0, <1>3, <1>d
    <2>2. c = value.bytes  BY <1>3 DEF encodeStateValue
    <2>3. decodeStateValue(c, type) = [type |-> "data", bytes |-> c]
      BY <1>3 DEF decodeStateValue, Data
    <2>4. Width(type) = 20 /\ ~(Width(type) = 0)
      <3>1. Width(type) = 20  BY <1>3, WidthFacts
      <3> QED BY <3>1
    <2>5. c \in Bytes /\ Len(c) = 20 /\ decodeStateValue(c, type) = value
      BY <2>1, <2>2, <2>3
    <2> QED BY <2>4, <2>5
  <1>4. CASE type \notin {"bigint", "boolean", "Addr"}
    <2> DEFINE d == value.bytes
    <2>1. value = [type |-> "data", bytes |-> d] /\ d \in Bytes  BY <1>4, <1>d
    <2>2. c = PushHeader(Len(d)) \o d  BY <1>4 DEF encodeStateValue
    <2>3. Len(d) <= MaxLength
      <3>1. encodeArg(value) = encodePushData(d)
        <4>1. value.type = "data"  BY <2>1
        <4> QED BY <4>1 DEF encodeArg
      <3>2. Len(encodePushData(d)) <= MaxLength  BY <1>0, <3>1 DEF Short
      <3> HIDE DEF d
      <3>3. encodePushData(d) \in Bytes /\ Len(d) <= Len(encodePushData(d))
        BY <2>1, PushSize
      <3>4. Len(d) \in Nat /\ Len(encodePushData(d)) \in Nat  BY <2>1, <3>3, BytesFacts
      <3> QED BY <3>2, <3>3, <3>4, MaxLengthNat
    <2>4. decodeStateValue(c, type) = [type |-> "data", bytes |-> ElementData(c, 0, Element(c, 0))]
      BY <1>4 DEF decodeStateValue, Data
    <2> HIDE DEF d
    <2>5. /\ c \in Bytes /\ Len(c) > 0 /\ c[1] \in 0..78
          /\ Element(c, 0).opcode = c[1] /\ Element(c, 0).length = Len(c)
          /\ ElementData(c, 0, Element(c, 0)) = d
      BY <2>1, <2>2, <2>3, PushElement
    <2>6. Width(type) = 0 /\ ~(Width(type) > 0)
      <3>1. Width(type) = 0  BY <1>4, WidthFacts
      <3> QED BY <3>1
    <2>7. decodeStateValue(c, type) = value  BY <2>1, <2>4, <2>5
    <2> QED BY <2>5, <2>6, <2>7
  <1> QED BY <1>1, <1>2, <1>3, <1>4

(* A width is a number.                                                    *)
LEMMA WidthType == ASSUME NEW type PROVE Width(type) \in Nat
  <1>1. type \in {"bigint", "boolean", "Addr"} \/ type \notin {"bigint", "boolean", "Addr"}
    OBVIOUS
  <1>2. 0 \in Nat /\ 1 \in Nat /\ 20 \in Nat  OBVIOUS
  <1> QED BY <1>1, <1>2, WidthFacts

(* What FieldCoded says of a field's bytes.                                *)
Codes(c, type) ==
  /\ c \in Bytes
  /\ Width(type) > 0 => Len(c) = Width(type)
  /\ Width(type) = 0 => /\ Len(c) > 0 /\ c[1] \in 0..78
                        /\ Element(c, 0).opcode = c[1] /\ Element(c, 0).length = Len(c)

(* A reader at the field's place gets its bytes.                           *)
FieldReads(blob, at, type, c) ==
  /\ FieldEnd(blob, at, type, Element(blob, at)) = at + Len(c)
  /\ Slice(blob, at, at + Len(c)) = c

(* A field is read back from the bytes it was written to, whatever follows *)
(* them.                                                                   *)
LEMMA FieldRead ==
  ASSUME NEW type, NEW c, Codes(c, type), NEW pre \in Bytes, NEW post \in Bytes,
         NEW blob, blob = pre \o c \o post
  PROVE  FieldReads(blob, Len(pre), type, c)
  <1> DEFINE e == Element(blob, Len(pre))
             end == IF Width(type) > 0 THEN Len(pre) + Width(type) ELSE Len(pre) + e.length
  <1>0. /\ c \in Bytes /\ Len(c) \in Nat /\ Len(pre) \in Nat /\ Len(post) \in Nat
        /\ Len(blob) = Len(pre) + Len(c) + Len(post)
    <2>1. c \in Bytes /\ Len(c) \in Nat /\ Len(pre) \in Nat /\ Len(post) \in Nat
      BY BytesFacts DEF Codes
    <2>2. pre \o c \in Bytes /\ Len(pre \o c) = Len(pre) + Len(c)  BY <2>1, BytesConcat
    <2> QED BY <2>1, <2>2, BytesConcat
  <1>1. Slice(blob, Len(pre), Len(pre) + Len(c)) = c
    BY <1>0, SliceMiddle DEF Bytes
  <1>2. end = Len(pre) + Len(c) /\ (Width(type) > 0 \/ e.opcode \in 0..78)
    <2>1. CASE Width(type) > 0
      BY <2>1 DEF Codes
    <2>2. CASE Width(type) = 0
      <3>1. /\ Len(c) > 0 /\ c[1] \in 0..78
            /\ Element(c, 0).opcode = c[1] /\ Element(c, 0).length = Len(c)
        BY <2>2 DEF Codes
      <3>2. Element(c, 0).header <= Len(c)
        <4>1. 0 \in Nat  OBVIOUS
        <4>2. Element(c, 0).length >= Element(c, 0).header  BY <1>0, <4>1, ElementType
        <4> QED BY <3>1, <4>2
      <3>3. e = Element(c, 0)  BY <1>0, <3>1, <3>2, ElementLocal
      <3>4. ~(Width(type) > 0)  BY <2>2
      <3> QED BY <3>1, <3>3, <3>4
    <2>3. Width(type) = 0 \/ Width(type) > 0  BY WidthType
    <2> QED BY <2>1, <2>2, <2>3
  <1>3. FieldEnd(blob, Len(pre), type, e)
          = IF end <= Len(blob) /\ (Width(type) > 0 \/ e.opcode \in 0..78) THEN end ELSE -1
    BY DEF FieldEnd
  <1> HIDE DEF e, end
  <1>4. end <= Len(blob)  BY <1>0, <1>2
  <1>5. FieldEnd(blob, Len(pre), type, e) = Len(pre) + Len(c)  BY <1>2, <1>3, <1>4
  <1> QED BY <1>1, <1>5 DEF e, FieldReads

(* A field with bytes missing is refused.                                  *)
LEMMA FieldTruncated ==
  ASSUME NEW type, NEW c, Codes(c, type), NEW pre \in Bytes, NEW k \in 0..(Len(c) - 1),
         NEW blob, blob = pre \o SubSeq(c, 1, k)
  PROVE  FieldEnd(blob, Len(pre), type, Element(blob, Len(pre))) = -1
  <1> DEFINE t == SubSeq(c, 1, k)
             e == Element(blob, Len(pre))
             end == IF Width(type) > 0 THEN Len(pre) + Width(type) ELSE Len(pre) + e.length
  <1>a. c \in Bytes /\ Len(c) \in Nat /\ Len(pre) \in Nat
    BY BytesFacts DEF Codes
  <1>b. k \in Nat /\ k < Len(c)  BY <1>a
  <1>0. /\ t \in Bytes /\ Len(t) = k /\ \A j \in 1..k : t[j] = c[j]
    BY <1>a, <1>b DEF Bytes
  <1>c. blob = pre \o t  OBVIOUS
  <1>3. FieldEnd(blob, Len(pre), type, e)
          = IF end <= Len(blob) /\ (Width(type) > 0 \/ e.opcode \in 0..78) THEN end ELSE -1
    BY DEF FieldEnd
  <1> HIDE DEF t
  <1>d. blob \in Bytes /\ Len(blob) = Len(pre) + k  BY <1>0, <1>c, BytesConcat
  <1>f. blob = pre \o t \o <<>> /\ <<>> \in Bytes
    <2>1. blob = blob \o <<>> /\ <<>> \in Bytes  BY <1>d, ConcatEmptySeq DEF Bytes
    <2> QED BY <1>c, <2>1
  <1>e. /\ e.length \in Nat /\ e.length >= e.header /\ e.header \in Nat
        /\ e.opcode = ByteAt(blob, Len(pre))
    <2>1. /\ e.length \in Nat /\ e.length >= e.header /\ e.header \in 1..5
          /\ e.opcode = ByteAt(blob, Len(pre))
      BY <1>a, <1>d, ElementType
    <2> QED BY <2>1
  <1>1. CASE Width(type) > 0
    <2>1. end = Len(pre) + Len(c)  BY <1>1 DEF Codes
    <2>2. ~(end <= Len(blob))  BY <1>a, <1>b, <1>d, <2>1
    <2> QED BY <1>3, <2>2
  <1>2. CASE Width(type) = 0
    <2>0. /\ Len(c) > 0 /\ Element(c, 0).length = Len(c) /\ ~(Width(type) > 0)
          /\ end = Len(pre) + e.length
      BY <1>2 DEF Codes
    <2>1. CASE k = 0
      <3>1. ByteAt(blob, Len(pre)) = -1
        <4>1. Len(pre) >= Len(blob)  BY <1>a, <1>d, <2>1
        <4> QED BY <1>a, <1>d, <4>1, ByteAtFacts
      <3>2. ~(e.opcode \in 0..78)
        <4>1. ~(-1 \in 0..78)  OBVIOUS
        <4> QED BY <1>e, <3>1, <4>1
      <3> QED BY <1>3, <2>0, <3>2
    <2>2. CASE k > 0 /\ Element(c, 0).header <= k
      <3>1. /\ c = <<>> \o t \o SubSeq(c, k + 1, Len(c))
            /\ <<>> \in Bytes /\ SubSeq(c, k + 1, Len(c)) \in Bytes
        <4>1. k \in 0..Len(c)  BY <1>a, <1>b
        <4>2. c = t \o SubSeq(c, k + 1, Len(c)) /\ SubSeq(c, k + 1, Len(c)) \in Bytes
          BY <1>a, <4>1, Cut DEF Bytes, t
        <4>3. <<>> \o t = t /\ <<>> \in Bytes  BY <1>0 DEF Bytes
        <4> QED BY <4>2, <4>3
      <3>2. Element(t, 0).header = 1 + LengthBytes(t[1])
            /\ Element(c, 0).header = 1 + LengthBytes(c[1]) /\ t[1] = c[1]
        <4>1. Len(t) > 0 /\ 1 \in 1..k  BY <1>0, <1>b, <2>2
        <4> QED BY <1>a, <1>0, <2>0, <4>1, ElementParts
      <3>3. Element(t, 0).header <= Len(t) /\ Len(t) > 0  BY <1>0, <2>2, <3>2
      <3>4. Element(c, 0) = Element(t, 0)
        <4>1. Element(<<>> \o t \o SubSeq(c, k + 1, Len(c)), Len(<<>>)) = Element(t, 0)
          BY <1>0, <3>1, <3>3, ElementLocal
        <4>2. Len(<<>>) = 0  OBVIOUS
        <4> QED BY <3>1, <4>1, <4>2
      <3>5. e = Element(t, 0)
        <4>1. blob = pre \o t \o <<>> /\ <<>> \in Bytes  BY <1>f
        <4> QED BY <1>0, <3>3, <4>1, ElementLocal
      <3>6. e.length = Len(c)  BY <2>0, <3>4, <3>5
      <3>7. ~(end <= Len(blob))  BY <1>a, <1>b, <1>d, <2>0, <3>6
      <3> QED BY <1>3, <3>7
    <2>3. CASE k > 0 /\ Element(c, 0).header > k
      <3>1. t[1] = c[1] /\ Len(t) > 0
        <4>1. 1 \in 1..k  BY <1>b, <2>3
        <4> QED BY <1>0, <2>3, <4>1
      <3>2. ByteAt(blob, Len(pre)) = c[1]
        <4>1. blob = pre \o t \o <<>> /\ <<>> \in Bytes  BY <1>f
        <4>2. 0 \in 0..(Len(t) - 1)  BY <1>0, <1>b, <2>3
        <4>3. ByteAt(pre \o t \o <<>>, Len(pre) + 0) = t[0 + 1]
          BY <1>0, <4>1, <4>2, ByteAtLocal
        <4>4. Len(pre) + 0 = Len(pre) /\ 0 + 1 = 1  BY <1>a
        <4>5. ByteAt(blob, Len(pre) + 0) = t[0 + 1]  BY <4>1, <4>3, Zenon
        <4> QED BY <3>1, <4>4, <4>5
      <3>3. e.header = 1 + LengthBytes(c[1])
        BY <3>2 DEF Element, ElementOf
      <3>4. Element(c, 0).header = 1 + LengthBytes(c[1])  BY <1>a, <2>0, ElementParts
      <3>5. ~(end <= Len(blob))
        <4>1. e.length > k  BY <1>e, <1>b, <2>3, <3>3, <3>4
        <4> QED BY <1>a, <1>b, <1>d, <1>e, <2>0, <4>1
      <3> QED BY <1>3, <3>5
    <2>4. Element(c, 0).header \in Nat
      <3>1. 0 \in Nat  OBVIOUS
      <3>2. Element(c, 0).header \in 1..5  BY <1>a, <3>1, ElementType
      <3> QED BY <3>2
    <2> QED BY <1>b, <2>1, <2>2, <2>3, <2>4
  <1> QED BY <1>1, <1>2, WidthType

-----------------------------------------------------------------------------
(* The fields one after the other.                                         *)
Read == [ok : BOOLEAN, offset : Nat, state : Seq(Value)]
(* One step of deserializeState.                                           *)
FieldStep(read, blob, type) ==
  IF read.ok
  THEN ReadField(read, blob, type, FieldEnd(blob, read.offset, type, Element(blob, read.offset)))
  ELSE read

(* A step makes a result of the same kind.                                 *)
LEMMA StepType ==
  ASSUME NEW read \in Read, NEW blob \in Bytes, NEW type
  PROVE  FieldStep(read, blob, type) \in Read
  <1> DEFINE e == Element(blob, read.offset)
             end == FieldEnd(blob, read.offset, type, e)
  <1>0. read.ok \in BOOLEAN /\ read.offset \in Nat /\ read.state \in Seq(Value)
        /\ read = [ok |-> read.ok, offset |-> read.offset, state |-> read.state]
    BY DEF Read
  <1>1. end \in Nat \cup {-1}
    <2>1. e.length \in Nat  BY <1>0, ElementType
    <2>2. Width(type) \in Nat  BY WidthType
    <2> HIDE DEF e
    <2> QED BY <1>0, <2>1, <2>2 DEF FieldEnd
  <1>2. FieldStep(read, blob, type) = IF read.ok THEN ReadField(read, blob, type, end) ELSE read
    BY DEF FieldStep
  <1> HIDE DEF end, e
  <1>3. ReadField(read, blob, type, end) \in Read
    <2>1. CASE end = -1
      <3>1. ReadField(read, blob, type, end) = [read EXCEPT !.ok = FALSE]
        BY <2>1 DEF ReadField
      <3>2. [read EXCEPT !.ok = FALSE] \in Read  BY DEF Read
      <3> QED BY <3>1, <3>2
    <2>2. CASE end # -1
      <3> DEFINE v == decodeStateValue(Slice(blob, read.offset, end), type)
      <3>1. end \in Nat  BY <1>1, <2>2
      <3>2. v \in Value
        <4>1. Slice(blob, read.offset, end) \in Bytes  BY <1>0, <3>1, SliceType DEF Bytes
        <4> QED BY <4>1, DecodedType
      <3>3. ReadField(read, blob, type, end)
              = [ok |-> TRUE, offset |-> end, state |-> Append(read.state, v)]
        BY <2>2 DEF ReadField
      <3> HIDE DEF v
      <3>4. Append(read.state, v) \in Seq(Value)  BY <1>0, <3>2
      <3> QED BY <3>1, <3>3, <3>4 DEF Read
    <2> QED BY <2>1, <2>2
  <1> QED BY <1>2, <1>3

(* The result before the first step.                                       *)
NothingRead == [ok |-> TRUE, offset |-> 0, state |-> <<>>]
(* after[i] is the result after i fields.                                  *)
Reads(fields, blob, after) ==
  /\ after \in [0..Len(fields) -> Read] /\ after[0] = NothingRead
  /\ \A i \in 1..Len(fields) : after[i] = FieldStep(after[i - 1], blob, fields[i].type)

(* deserializeState goes through the fields one by one.                    *)
LEMMA DeserializeParts ==
  ASSUME NEW fields, Len(fields) \in Nat, NEW blob \in Bytes
  PROVE  \E after : /\ Reads(fields, blob, after)
                    /\ deserializeState(fields, blob)
                         = [ok |-> Consumed(after[Len(fields)], blob),
                            state |-> after[Len(fields)].state]
  <1> DEFINE n == Len(fields)
             body(i, g) == IF i = 0 THEN NothingRead
                           ELSE FieldStep(g[i - 1], blob, fields[i].type)
             H == [i \in 0..n |-> [g \in [0..n -> Read] |-> body(i, g)]]
             rank == [i \in 0..n |-> i]
             after == CHOOSE g : g = [i \in 0..n |-> body(i, g)]
  <1>0. n \in Nat /\ NothingRead \in Read
    <2>1. TRUE \in BOOLEAN /\ 0 \in Nat /\ <<>> \in Seq(Value)  OBVIOUS
    <2> QED BY <2>1 DEF NothingRead, Read
  <1>a. deserializeState(fields, blob)
          = [ok |-> Consumed(after[n], blob), state |-> after[n].state]
    BY Zenon DEF deserializeState, FieldStep, NothingRead
  <1> HIDE DEF n
  <1>1. \E g : Solves(0..n, Read, H, g)
    <2>1. rank \in [0..n -> Nat] /\ Read # {}  BY <1>0
    <2>2. ASSUME NEW i \in 0..n, NEW g \in [0..n -> Read] PROVE body(i, g) \in Read
      <3>1. i # 0 => i - 1 \in 0..n  BY <1>0
      <3>2. i # 0 => g[i - 1] \in Read  BY <3>1
      <3> QED BY <1>0, <3>2, StepType
    <2>3. \A i \in 0..n : \A g \in [0..n -> Read] : H[i][g] \in Read
      BY <2>2
    <2>4. ASSUME NEW i \in 0..n, NEW g \in [0..n -> Read], NEW h \in [0..n -> Read],
                 \A y \in 0..n : rank[y] < rank[i] => g[y] = h[y]
          PROVE  H[i][g] = H[i][h]
      <3>1. i # 0 => i - 1 \in 0..n /\ rank[i - 1] < rank[i]  BY <1>0
      <3>2. body(i, g) = body(i, h)  BY <2>4, <3>1
      <3> QED BY <3>2
    <2>5. \A i \in 0..n : \A g, h \in [0..n -> Read] :
             (\A y \in 0..n : rank[y] < rank[i] => g[y] = h[y]) => H[i][g] = H[i][h]
      BY <2>4
    <2> HIDE DEF H, rank, body, after
    <2>6. Ranked(0..n, Read, rank, H)  BY <2>1, <2>3, <2>5, Zenon DEF Ranked
    <2> QED BY <2>6, RankRecursion, Zenon
  <1>2. PICK g \in [0..n -> Read] : \A i \in 0..n : g[i] = H[i][g]
    BY <1>1 DEF Solves
  <1>3. g = [i \in 0..n |-> body(i, g)]
    BY <1>2
  <1>4. after = [i \in 0..n |-> body(i, after)]
    BY <1>3
  <1> HIDE DEF after
  <1> DEFINE P == {i \in 0..n : after[i] \in Read}
  <1>5. 0 \in P  BY <1>0, <1>4
  <1>6. ASSUME NEW i \in P, i \in 0..(n - 1) PROVE i + 1 \in P
    <2>1. i + 1 \in 0..n /\ i + 1 # 0 /\ (i + 1) - 1 = i  BY <1>0, <1>6
    <2>2. after[i + 1] = FieldStep(after[i], blob, fields[i + 1].type)  BY <1>4, <2>1
    <2> QED BY <1>6, <2>1, <2>2, StepType
  <1> HIDE DEF P
  <1>7. 0..n \subseteq P  BY <1>0, <1>5, <1>6, UpTo
  <1>8. after \in [0..n -> Read]
    <2>1. \A i \in 0..n : after[i] \in Read  BY <1>7 DEF P
    <2> QED BY <1>4, <2>1
  <1>9. after[0] = NothingRead  BY <1>0, <1>4
  <1>10. \A i \in 1..n : after[i] = FieldStep(after[i - 1], blob, fields[i].type)
    <2>1. \A i \in 1..n : i \in 0..n /\ i # 0  BY <1>0
    <2> QED BY <1>4, <2>1
  <1> QED BY <1>a, <1>8, <1>9, <1>10 DEF Reads, n

(* The first elements of a concatenation.                                  *)
LEMMA PrefixFacts ==
  ASSUME NEW S, NEW a \in Seq(S), NEW b \in Seq(S), NEW m \in 0..Len(a \o b)
  PROVE  /\ m <= Len(a) => SubSeq(a \o b, 1, m) = SubSeq(a, 1, m)
         /\ m >= Len(a) => /\ SubSeq(a \o b, 1, m) = a \o SubSeq(b, 1, m - Len(a))
                           /\ SubSeq(b, 1, m - Len(a)) \in Seq(S)
  <1> DEFINE c == a \o b
             p == SubSeq(c, 1, m)
  <1>0. /\ Len(a) \in Nat /\ Len(b) \in Nat /\ Len(c) = Len(a) + Len(b) /\ c \in Seq(S)
        /\ \A i \in 1..(Len(a) + Len(b)) : c[i] = IF i <= Len(a) THEN a[i] ELSE b[i - Len(a)]
    BY ConcatProperties
  <1> HIDE DEF c
  <1>1. p \in Seq(S) /\ Len(p) = m /\ \A i \in 1..m : p[i] = c[i]
    <2>1. m \in 0..Len(c)  BY DEF c
    <2> QED BY <1>0, <2>1
  <1>m. m \in 0..(Len(a) + Len(b))  BY <1>0 DEF c
  <1>2. ASSUME m <= Len(a) PROVE p = SubSeq(a, 1, m)
    <2>1. /\ SubSeq(a, 1, m) \in Seq(S) /\ Len(SubSeq(a, 1, m)) = m
          /\ \A i \in 1..m : SubSeq(a, 1, m)[i] = a[i]
      BY <1>0, <1>m, <1>2
    <2>2. \A i \in 1..m : c[i] = a[i]  BY <1>0, <1>m, <1>2
    <2> HIDE DEF p
    <2> QED BY <1>1, <2>1, <2>2, SeqEqual
  <1>3. ASSUME m >= Len(a)
        PROVE  p = a \o SubSeq(b, 1, m - Len(a)) /\ SubSeq(b, 1, m - Len(a)) \in Seq(S)
    <2> DEFINE r == SubSeq(b, 1, m - Len(a))
    <2>1. /\ r \in Seq(S) /\ Len(r) = m - Len(a)
          /\ \A i \in 1..(m - Len(a)) : r[i] = b[i]
      BY <1>0, <1>m, <1>3
    <2> HIDE DEF r, p
    <2>2. /\ a \o r \in Seq(S) /\ Len(a \o r) = m
          /\ \A i \in 1..m : (a \o r)[i] = IF i <= Len(a) THEN a[i] ELSE r[i - Len(a)]
      <3>1. /\ a \o r \in Seq(S) /\ Len(a \o r) = Len(a) + Len(r)
            /\ \A i \in 1..(Len(a) + Len(r)) :
                  (a \o r)[i] = IF i <= Len(a) THEN a[i] ELSE r[i - Len(a)]
        BY <2>1, ConcatProperties
      <3>2. Len(a) + Len(r) = m  BY <1>0, <1>m, <2>1
      <3> QED BY <3>1, <3>2
    <2>3. \A i \in 1..m : p[i] = (a \o r)[i]
      <3> TAKE i \in 1..m
      <3>1. p[i] = IF i <= Len(a) THEN a[i] ELSE b[i - Len(a)]  BY <1>0, <1>1, <1>m
      <3>2. i > Len(a) => i - Len(a) \in 1..(m - Len(a))  BY <1>0, <1>m
      <3>3. i > Len(a) => r[i - Len(a)] = b[i - Len(a)]  BY <2>1, <3>2
      <3>4. i <= Len(a) \/ i > Len(a)  BY <1>0
      <3> QED BY <2>2, <3>1, <3>3, <3>4, <1>0
    <2>4. p = a \o r  BY <1>1, <2>2, <2>3, SeqEqual
    <2> QED BY <2>1, <2>4 DEF r
  <1> QED BY <1>2, <1>3 DEF c

(* A state the fields can hold.                                            *)
Holds(fields, state) ==
  /\ Len(fields) \in Nat /\ DOMAIN fields = 1..Len(fields)
  /\ state \in Seq(Value) /\ Len(state) = Len(fields)
  /\ \A i \in 1..Len(fields) : HasType(state[i], fields[i].type)

(* The bytes of each field.                                                *)
Parts(fields, state) == [i \in DOMAIN fields |-> encodeStateValue(state[i], fields[i].type)]

(* Each field is coded, and the section is their concatenation.            *)
LEMMA PartsFacts ==
  ASSUME NEW fields, NEW state, Holds(fields, state), Serializable(fields, state)
  PROVE  /\ Parts(fields, state) \in Seq(Bytes) /\ Len(Parts(fields, state)) = Len(fields)
         /\ serializeState(fields, state) = Concat(Parts(fields, state))
         /\ \A i \in 1..Len(fields) :
               /\ Codes(Parts(fields, state)[i], fields[i].type)
               /\ decodeStateValue(Parts(fields, state)[i], fields[i].type) = state[i]
  <1> DEFINE n == Len(fields)
             parts == Parts(fields, state)
  <1>0. n \in Nat /\ DOMAIN fields = 1..n /\ \A i \in 1..n : HasType(state[i], fields[i].type)
    BY DEF Holds
  <1> HIDE DEF n
  <1>1. \A i \in 1..n : fields[i].type = "bigint" => Fits(state[i].n)
    BY <1>0 DEF Serializable
  <1>2. parts = [i \in 1..n |-> encodeStateValue(state[i], fields[i].type)]
    BY <1>0 DEF Parts
  <1> HIDE DEF parts
  <1>3. \A i \in 1..n : /\ Codes(parts[i], fields[i].type)
                        /\ decodeStateValue(parts[i], fields[i].type) = state[i]
    <2> TAKE i \in 1..n
    <2> DEFINE type == fields[i].type
               value == state[i]
               c == parts[i]
    <2>1. c = encodeStateValue(value, type)  BY <1>2
    <2>2. HasType(value, type) /\ (type = "bigint" => Fits(value.n))  BY <1>0, <1>1
    <2> HIDE DEF type, value, c
    <2>3. Codes(c, type) /\ decodeStateValue(c, type) = value
      BY <2>1, <2>2, FieldCoded DEF Codes
    <2> QED BY <2>3 DEF type, value, c
  <1>4. parts \in [1..n -> Bytes]
    <2>1. \A i \in 1..n : parts[i] \in Bytes  BY <1>3 DEF Codes
    <2> QED BY <1>2, <2>1
  <1>5. parts \in Seq(Bytes) /\ Len(parts) = n  BY <1>0, <1>4
  <1>6. serializeState(fields, state) = Concat(parts)
    BY DEF serializeState, parts, Parts
  <1> QED BY <1>3, <1>5, <1>6 DEF parts, n

(* That of scripts, in two halves.                                         *)
LEMMA BytesCut ==
  ASSUME NEW a \in Bytes, NEW b \in Bytes, NEW m \in Nat, m >= Len(a), m <= Len(a \o b)
  PROVE  /\ SubSeq(a \o b, 1, m) = a \o SubSeq(b, 1, m - Len(a))
         /\ SubSeq(b, 1, m - Len(a)) \in Bytes
  <1>1. a \in Seq(Byte) /\ b \in Seq(Byte)  BY DEF Bytes
  <1>2. m \in 0..Len(a \o b)  BY <1>1
  <1> QED BY <1>1, <1>2, PrefixFacts, Zenon DEF Bytes

(* Up to a place in the first of two, the second does not matter.          *)
LEMMA BytesPrefix ==
  ASSUME NEW a \in Bytes, NEW b \in Bytes, NEW m \in Nat, m <= Len(a)
  PROVE  SubSeq(a \o b, 1, m) = SubSeq(a, 1, m)
  <1>1. a \in Seq(Byte) /\ b \in Seq(Byte)  BY DEF Bytes
  <1>2. m \in 0..Len(a \o b)  BY <1>1
  <1> QED BY <1>1, <1>2, PrefixFacts, Zenon

(* A part at the start.                                                    *)
Begins(a, s) == \E rest \in Bytes : s = a \o rest

(* The first fields are at the start of the section.                       *)
LEMMA JoinsRest ==
  ASSUME NEW parts \in Seq(Bytes), NEW f, Joins(Byte, parts, f), NEW i \in 0..Len(parts),
         NEW more \in Bytes
  PROVE  Begins(f[i], f[Len(parts)] \o more)
  <1>0. \E rest \in Seq(Byte) : f[Len(parts)] = f[i] \o rest
    <2>1. parts \in Seq(Seq(Byte))  BY DEF Bytes
    <2>2. Prefixed(Byte, f[i], f[Len(parts)])  BY <2>1, JoinsPrefix
    <2> QED BY <2>2 DEF Prefixed
  <1>1. PICK rest \in Seq(Byte) : f[Len(parts)] = f[i] \o rest  BY <1>0
  <1> DEFINE a == f[i]
  <1>2. a \in Bytes /\ rest \in Bytes /\ f[Len(parts)] = a \o rest
    <2>1. a \in Seq(Byte)  BY DEF Joins
    <2> QED BY <1>1, <2>1 DEF Bytes
  <1> HIDE DEF a
  <1>3. (a \o rest) \o more = a \o (rest \o more)  BY <1>2, BytesAssoc
  <1>4. rest \o more \in Bytes  BY <1>2, BytesConcat
  <1>5. f[Len(parts)] \o more = a \o (rest \o more)  BY <1>2, <1>3
  <1> QED BY <1>4, <1>5 DEF a, Begins

(* The fields' bytes, each of which holds its value.                       *)
Coded(fields, state, parts) ==
  /\ Len(fields) \in Nat /\ state \in Seq(Value) /\ Len(state) = Len(fields)
  /\ parts \in Seq(Bytes) /\ Len(parts) = Len(fields)
  /\ \A i \in 1..Len(fields) : /\ Codes(parts[i], fields[i].type)
                               /\ decodeStateValue(parts[i], fields[i].type) = state[i]

(* In what begins with the fields or is cut off within them, the fields    *)
(* before the cut are read.                                                *)
LEMMA ReadSoFar ==
  ASSUME NEW fields, NEW state, NEW parts, Coded(fields, state, parts),
         NEW f, Joins(Byte, parts, f), NEW n \in {Len(parts)},
         NEW more \in Bytes, NEW m \in 0..Len(f[n] \o more),
         NEW blob, blob = SubSeq(f[n] \o more, 1, m),
         NEW after, Reads(fields, blob, after)
  PROVE  \A i \in 0..n :
            IF Len(f[i]) <= m
            THEN after[i] = [ok |-> TRUE, offset |-> Len(f[i]), state |-> SubSeq(state, 1, i)]
            ELSE ~after[i].ok
  <1>0. /\ n \in Nat /\ state \in Seq(Value) /\ Len(state) = n
        /\ parts \in Seq(Seq(Byte)) /\ Len(parts) = n
        /\ \A i \in 1..n : /\ Codes(parts[i], fields[i].type) /\ parts[i] \in Bytes
                           /\ decodeStateValue(parts[i], fields[i].type) = state[i]
    <2>1. /\ n \in Nat /\ state \in Seq(Value) /\ Len(state) = n
          /\ parts \in Seq(Bytes) /\ Len(parts) = n
          /\ \A i \in 1..n : /\ Codes(parts[i], fields[i].type)
                             /\ decodeStateValue(parts[i], fields[i].type) = state[i]
      BY DEF Coded
    <2>2. \A i \in 1..n : parts[i] \in Bytes  BY <2>1 DEF Codes
    <2> QED BY <2>1, <2>2 DEF Bytes
  <1>l. n = Len(parts) /\ n = Len(fields)  BY DEF Coded
  <1>1. /\ \A i \in 0..n : f[i] \in Bytes /\ Len(f[i]) \in Nat
        /\ f[0] = <<>> /\ \A i \in 1..n : f[i] = f[i - 1] \o parts[i]
    <2>1. f \in [0..n -> Bytes] /\ f[0] = <<>> /\ \A i \in 1..n : f[i] = f[i - 1] \o parts[i]
      BY <1>l DEF Joins, Bytes
    <2> QED BY <2>1, BytesFacts
  <1>2. /\ after[0] = NothingRead
        /\ \A i \in 1..n : after[i] = FieldStep(after[i - 1], blob, fields[i].type)
    BY <1>l DEF Reads
  <1>3. \A i \in 0..n : Begins(f[i], f[n] \o more)
    <2>1. parts \in Seq(Bytes)  BY DEF Coded
    <2>2. \A i \in 0..Len(parts) : Begins(f[i], f[Len(parts)] \o more)
      BY <2>1, JoinsRest, Zenon
    <2> QED BY <1>l, <2>2
  <1>n. n \in 0..n /\ f[n] \in Bytes /\ f[n] \o more \in Bytes /\ Len(f[n] \o more) \in Nat
    <2>1. n \in 0..n  BY <1>0
    <2> QED BY <1>1, <2>1, BytesConcat, BytesFacts
  <1>m. m \in Nat /\ m <= Len(f[n] \o more)  BY <1>n
  <1> DEFINE Good(i) == [ok |-> TRUE, offset |-> Len(f[i]), state |-> SubSeq(state, 1, i)]
             P == {i \in 0..n : IF Len(f[i]) <= m THEN after[i] = Good(i) ELSE ~after[i].ok}
  <1>4. 0 \in P
    <2>1. Len(f[0]) = 0 /\ Len(f[0]) <= m /\ 0 \in 0..n  BY <1>0, <1>1, <1>m
    <2>2. SubSeq(state, 1, 0) = <<>>  BY <1>0
    <2> QED BY <1>2, <2>1, <2>2 DEF NothingRead
  <1>5. ASSUME NEW j \in P, j \in 0..(n - 1) PROVE j + 1 \in P
    <2> DEFINE i == j + 1
               c == parts[i]
               type == fields[i].type
    <2>0. i \in 1..n /\ i \in 0..n /\ i - 1 = j /\ j \in 0..n  BY <1>0, <1>5
    <2>1. /\ f[i] = f[j] \o c /\ c \in Bytes /\ Len(c) \in Nat
          /\ f[j] \in Bytes /\ Len(f[j]) \in Nat /\ Len(f[i]) = Len(f[j]) + Len(c)
          /\ f[i] \in Bytes /\ Codes(c, type) /\ decodeStateValue(c, type) = state[i]
      <3>1. f[i] = f[j] \o c /\ c \in Bytes /\ f[j] \in Bytes /\ Len(f[j]) \in Nat
            /\ f[i] \in Bytes /\ Codes(c, type) /\ decodeStateValue(c, type) = state[i]
        BY <1>0, <1>1, <2>0
      <3> HIDE DEF c, type
      <3> QED BY <3>1, BytesConcat, BytesFacts
    <2>2. after[i] = FieldStep(after[j], blob, type)  BY <1>2, <2>0
    <2>3. IF Len(f[j]) <= m THEN after[j] = Good(j) ELSE ~after[j].ok  BY <1>5
    <2> HIDE DEF c, type, P
    <2>4. CASE Len(f[j]) > m
      <3>1. ~(Len(f[j]) <= m) /\ ~(Len(f[i]) <= m)  BY <1>m, <2>1, <2>4
      <3>2. after[i] = after[j]  BY <2>2, <2>3, <3>1 DEF FieldStep
      <3> QED BY <2>0, <2>3, <3>1, <3>2 DEF P
    <2>5. CASE Len(f[j]) <= m
      <3>0. after[j] = Good(j)  BY <2>3, <2>5
      <3>1. after[j].ok /\ after[j].offset = Len(f[j]) /\ after[j].state = SubSeq(state, 1, j)
        <4> DEFINE b == Len(f[j])
                   s == SubSeq(state, 1, j)
        <4>1. after[j] = [ok |-> TRUE, offset |-> b, state |-> s]  BY <3>0
        <4> HIDE DEF b, s
        <4>2. after[j].ok /\ after[j].offset = b /\ after[j].state = s  BY <4>1
        <4> QED BY <4>2 DEF b, s
      <3> DEFINE end == FieldEnd(blob, Len(f[j]), type, Element(blob, Len(f[j])))
      <3>2. after[i] = ReadField(after[j], blob, type, end)
        BY <2>2, <3>1 DEF FieldStep
      <3>3. CASE Len(f[i]) <= m
        <4>1. PICK rest \in Bytes : f[n] \o more = f[i] \o rest  BY <1>3, <2>0 DEF Begins
        <4>2. /\ blob = f[i] \o SubSeq(rest, 1, m - Len(f[i]))
              /\ SubSeq(rest, 1, m - Len(f[i])) \in Bytes
          <5>1. m \in Nat /\ m <= Len(f[i] \o rest) /\ m >= Len(f[i])
            BY <1>m, <1>n, <2>1, <3>3, <4>1
          <5>2. blob = SubSeq(f[i] \o rest, 1, m)  BY <4>1
          <5> HIDE DEF i
          <5>3. f[i] \in Bytes  BY <2>1
          <5>4. /\ SubSeq(f[i] \o rest, 1, m) = f[i] \o SubSeq(rest, 1, m - Len(f[i]))
                /\ SubSeq(rest, 1, m - Len(f[i])) \in Bytes
            BY <5>1, <5>3, BytesCut
          <5> QED BY <5>2, <5>4
        <4> DEFINE post == SubSeq(rest, 1, m - Len(f[i]))
        <4>3. blob = f[j] \o c \o post /\ post \in Bytes  BY <2>1, <4>2
        <4> HIDE DEF post
        <4>4. /\ end = Len(f[j]) + Len(c)
              /\ Slice(blob, Len(f[j]), Len(f[j]) + Len(c)) = c
          <5> DEFINE pre == f[j]
          <5>1. pre \in Bytes /\ blob = pre \o c \o post /\ Codes(c, type)  BY <2>1, <4>3
          <5> HIDE DEF pre
          <5>2. post \in Bytes  BY <4>3
          <5>3. /\ FieldEnd(blob, Len(pre), type, Element(blob, Len(pre))) = Len(pre) + Len(c)
                /\ Slice(blob, Len(pre), Len(pre) + Len(c)) = c
            <6>1. FieldReads(blob, Len(pre), type, c)  BY <5>1, <5>2, FieldRead
            <6> QED BY <6>1 DEF FieldReads
          <5> QED BY <5>3 DEF pre
        <4> HIDE DEF end
        <4>5. end = Len(f[i]) /\ end # -1 /\ Slice(blob, Len(f[j]), end) = c
          BY <2>1, <4>4
        <4>6. after[i] = [ok |-> TRUE, offset |-> end,
                          state |-> Append(SubSeq(state, 1, j), state[i])]
          BY <2>1, <3>1, <3>2, <4>5 DEF ReadField
        <4>7. Append(SubSeq(state, 1, j), state[i]) = SubSeq(state, 1, i)
          BY <1>0, <2>0
        <4>8. after[i] = Good(i)  BY <4>5, <4>6, <4>7
        <4> QED BY <2>0, <3>3, <4>8 DEF P
      <3>4. CASE Len(f[i]) > m
        <4> DEFINE k == m - Len(f[j])
        <4>1. k \in 0..(Len(c) - 1) /\ k <= Len(c)  BY <1>m, <2>1, <2>5, <3>4
        <4>2. PICK rest \in Bytes : f[n] \o more = f[i] \o rest  BY <1>3, <2>0 DEF Begins
        <4>3. blob = f[j] \o SubSeq(c, 1, k)
          <5>1. m \in Nat /\ m <= Len(f[i])  BY <1>m, <3>4, <2>1
          <5>2. blob = SubSeq(f[i] \o rest, 1, m)  BY <4>2
          <5>3. blob = SubSeq(f[i], 1, m)
            <6> HIDE DEF i
            <6>1. f[i] \in Bytes  BY <2>1
            <6>2. SubSeq(f[i] \o rest, 1, m) = SubSeq(f[i], 1, m)
              BY <5>1, <6>1, BytesPrefix
            <6> QED BY <5>2, <6>2
          <5>4. m >= Len(f[j]) /\ m <= Len(f[j] \o c)
            BY <1>m, <2>1, <2>5, <3>4
          <5>5. SubSeq(f[j] \o c, 1, m) = f[j] \o SubSeq(c, 1, m - Len(f[j]))
            <6> DEFINE b == f[j]
            <6>1. b \in Bytes /\ c \in Bytes /\ m >= Len(b) /\ m <= Len(b \o c)
              BY <2>1, <5>4
            <6> HIDE DEF b
            <6>2. SubSeq(b \o c, 1, m) = b \o SubSeq(c, 1, m - Len(b))
              BY <5>1, <6>1, BytesCut
            <6> QED BY <6>2 DEF b
          <5> QED BY <2>1, <5>3, <5>5
        <4> HIDE DEF k
        <4>4. end = -1  BY <2>1, <4>1, <4>3, FieldTruncated
        <4> HIDE DEF end
        <4>5. after[i] = [after[j] EXCEPT !.ok = FALSE]  BY <3>2, <4>4 DEF ReadField
        <4>6. ~after[i].ok  BY <3>0, <4>5
        <4>7. ~(Len(f[i]) <= m)  BY <1>m, <2>1, <3>4
        <4> QED BY <2>0, <4>6, <4>7 DEF P
      <3> QED BY <1>m, <2>1, <3>3, <3>4
    <2> QED BY <1>m, <2>1, <2>4, <2>5
  <1> HIDE DEF P
  <1>6. 0..n \subseteq P  BY <1>0, <1>4, <1>5, UpTo
  <1> QED BY <1>6 DEF P

(* A state that is serializable is coded field by field.                   *)
LEMMA StateCoded ==
  ASSUME NEW fields, NEW state, Holds(fields, state), Serializable(fields, state)
  PROVE  Coded(fields, state, Parts(fields, state))
         /\ serializeState(fields, state) = Concat(Parts(fields, state))
  <1>1. Len(fields) \in Nat /\ state \in Seq(Value) /\ Len(state) = Len(fields)
    BY DEF Holds
  <1> QED BY <1>1, PartsFacts DEF Coded

(* What is read from a section that begins with the fields or ends within  *)
(* them.                                                                   *)
SectionPart(blob, fields, state, section, more, m) ==
  /\ Holds(fields, state) /\ Serializable(fields, state) /\ section = serializeState(fields, state)
  /\ more \in Bytes /\ m \in 0..Len(section \o more) /\ blob = SubSeq(section \o more, 1, m)

(* A state section is accepted exactly if it is whole and nothing follows  *)
(* it; then the state is read back.                                        *)
LEMMA SectionRead ==
  ASSUME NEW blob, NEW fields, NEW state, NEW section, NEW more, NEW m,
         SectionPart(blob, fields, state, section, more, m)
  PROVE  /\ section \in Bytes
         /\ deserializeState(fields, blob).ok <=> m = Len(section)
         /\ m = Len(section) => deserializeState(fields, blob).state = state
  <1> DEFINE parts == Parts(fields, state)
             n == Len(parts)
  <1>s. /\ Holds(fields, state) /\ Serializable(fields, state)
        /\ section = serializeState(fields, state)
        /\ more \in Bytes /\ m \in 0..Len(section \o more) /\ blob = SubSeq(section \o more, 1, m)
    BY DEF SectionPart
  <1> USE <1>s
  <1>1. Coded(fields, state, parts) /\ section = Concat(parts)  BY StateCoded
  <1> HIDE DEF parts
  <1>2. /\ parts \in Seq(Bytes) /\ n = Len(fields) /\ n \in Nat
        /\ state \in Seq(Value) /\ Len(state) = n
    BY <1>1 DEF Coded
  <1>3. PICK f : Joins(Byte, parts, f) /\ Concat(parts) = f[n]
    <2>1. parts \in Seq(Seq(Byte))  BY <1>2 DEF Bytes
    <2> QED BY <2>1, ConcatParts
  <1> HIDE DEF n
  <1>4. section = f[n] /\ section \in Bytes /\ Len(section) \in Nat /\ n \in 0..n
    <2>1. n \in 0..n  BY <1>2
    <2>2. f[n] \in Bytes  BY <1>3, <2>1 DEF Joins, Bytes, n
    <2> QED BY <1>1, <1>3, <2>1, <2>2, BytesFacts
  <1>5. section \o more \in Bytes /\ Len(section \o more) = Len(section) + Len(more)
        /\ Len(more) \in Nat
    BY <1>4, BytesConcat, BytesFacts
  <1>m. m \in Nat /\ m <= Len(section \o more)  BY <1>4, <1>5
  <1>6. blob \in Bytes /\ Len(blob) = m
    <2> DEFINE whole == section \o more
    <2>1. whole \in Seq(Byte) /\ m \in 0..Len(whole)  BY <1>5 DEF Bytes
    <2> HIDE DEF whole
    <2>2. SubSeq(whole, 1, m) \in Seq(Byte) /\ Len(SubSeq(whole, 1, m)) = m  BY <2>1, Cut
    <2> QED BY <2>2 DEF whole, Bytes
  <1>7. PICK after : /\ Reads(fields, blob, after)
                     /\ deserializeState(fields, blob)
                          = [ok |-> Consumed(after[n], blob), state |-> after[n].state]
    <2>1. Len(fields) \in Nat /\ n = Len(fields)  BY <1>2
    <2>2. \E after : /\ Reads(fields, blob, after)
                     /\ deserializeState(fields, blob)
                          = [ok |-> Consumed(after[Len(fields)], blob),
                             state |-> after[Len(fields)].state]
      BY <1>6, <2>1, DeserializeParts
    <2> QED BY <2>1, <2>2
  <1>8. IF Len(section) <= m
        THEN after[n] = [ok |-> TRUE, offset |-> Len(section), state |-> SubSeq(state, 1, n)]
        ELSE ~after[n].ok
    <2>1. /\ n \in {Len(parts)} /\ m \in 0..Len(f[n] \o more)
          /\ blob = SubSeq(f[n] \o more, 1, m)
      BY <1>4 DEF n
    <2>2. \A i \in 0..n :
            IF Len(f[i]) <= m
            THEN after[i] = [ok |-> TRUE, offset |-> Len(f[i]), state |-> SubSeq(state, 1, i)]
            ELSE ~after[i].ok
      BY <1>1, <1>3, <1>7, <2>1, ReadSoFar
    <2> QED BY <1>4, <2>2
  <1>9. SubSeq(state, 1, n) = state  BY <1>2
  <1> DEFINE out == deserializeState(fields, blob)
             last == after[n]
  <1>10. out = [ok |-> Consumed(last, blob), state |-> last.state]  BY <1>7
  <1> HIDE DEF out, last
  <1>11. out.ok = (last.ok /\ last.offset = Len(blob)) /\ out.state = last.state
    BY <1>10 DEF Consumed
  <1>12. CASE Len(section) <= m
    <2>1. last = [ok |-> TRUE, offset |-> Len(section), state |-> state]
      BY <1>8, <1>9, <1>12 DEF last
    <2>2. last.ok /\ last.offset = Len(section) /\ last.state = state  BY <2>1
    <2>3. (out.ok <=> m = Len(section)) /\ out.state = state  BY <1>6, <1>11, <2>2
    <2> QED BY <1>4, <2>3 DEF out
  <1>13. CASE ~(Len(section) <= m)
    <2>1. ~last.ok /\ m # Len(section)  BY <1>4, <1>8, <1>m, <1>13 DEF last
    <2>2. ~out.ok  BY <1>11, <2>1
    <2> QED BY <1>4, <2>1, <2>2 DEF out
  <1> QED BY <1>12, <1>13
=============================================================================
