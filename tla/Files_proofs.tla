----------------------------- MODULE Files_proofs -----------------------------
(***************************************************************************)
(* The identity of a process survives its ends, for any sizes of keys, any *)
(* ids generate_id may return, and any number of runs and of files; and    *)
(* the bytes of a file come back, or are lost no further than              *)
(* DamageIsBounded says, for pieces and blocks of any size.                *)
(***************************************************************************)
EXTENDS Files, SequenceTheorems, WellFoundedInduction, TLAPS

\* The id that create_new_id reads from a file that is there.
IdIn(file) == IF file = <<>> THEN ZeroId ELSE file[1]

\* crypto_init reads a key from the file and does not throw.
Readable(file) == file # Absent /\ Len(file) > KeySize

PCs == {"off", "crypto_init", "write_keys", "create_new_id", "write_id", "running"}

(***************************************************************************)
(* Whatever a process has run with is in its files; and a file is only     *)
(* written by a process that has found it absent, before any has run.      *)
(***************************************************************************)
FilesInv ==
    /\ pc \in PCs
    /\ pc = "write_keys" => /\ keyFile = <<>>
                            /\ key \in [1 .. KeySize -> KeyByte]
                            /\ iv \in [1 .. IvSize -> KeyByte]
    /\ pc \in {"create_new_id", "write_id"} =>
           Readable(keyFile) /\ key = KeyOf(keyFile)
    /\ pc = "write_id" => idFile = <<>> /\ id \in NewId /\ used = {}
    /\ \A u \in used : /\ Readable(keyFile) /\ u.key = KeyOf(keyFile)
                       /\ idFile # Absent /\ u.id = IdIn(idFile)

\* What is written by crypto_init is read back.
LEMMA KeyOfWritten ==
    ASSUME NEW k \in [1 .. KeySize -> KeyByte], NEW v \in [1 .. IvSize -> KeyByte]
    PROVE  Readable(k \o v) /\ KeyOf(k \o v) = k
<1> DEFINE s == k \o v
<1>1. KeySize \in Nat \ {0} /\ IvSize \in Nat \ {0}
  BY LocalFilesAssumption
<1>2. k \in Seq(KeyByte) /\ v \in Seq(KeyByte) /\ Len(k) = KeySize /\ Len(v) = IvSize
  BY <1>1, SeqDef, LenProperties
<1>3. /\ s \in Seq(KeyByte) /\ Len(s) = KeySize + IvSize
      /\ \A i \in 1 .. KeySize : s[i] = k[i]
  <2>1. /\ s \in Seq(KeyByte) /\ Len(s) = Len(k) + Len(v)
        /\ \A i \in 1 .. Len(k) + Len(v) :
               s[i] = IF i <= Len(k) THEN k[i] ELSE v[i - Len(k)]
    BY <1>2, ConcatProperties
  <2> HIDE DEF s
  <2> QED  BY <1>1, <1>2, <2>1
<1> HIDE DEF s
<1>4. Len(s) > KeySize /\ Len(s) # 1
  BY <1>1, <1>3
<1>5. s # Absent
  BY <1>4 DEF Absent
<1>6. KeyOf(s) = SubSeq(s, 1, KeySize)
  BY <1>4, <1>3, <1>1 DEF KeyOf
<1>7. /\ SubSeq(s, 1, KeySize) \in Seq(KeyByte)
      /\ Len(SubSeq(s, 1, KeySize)) = KeySize
      /\ \A i \in 1 .. KeySize : SubSeq(s, 1, KeySize)[i] = s[i]
  BY <1>1, <1>3, SubSeqProperties
<1>8. SubSeq(s, 1, KeySize) = k
  BY <1>1, <1>2, <1>3, <1>7, SeqEqual
<1> QED  BY <1>4, <1>5, <1>6, <1>8 DEF Readable, s

LEMMA EmptyFile == ~Readable(<<>>) /\ <<>> # Absent
<1>1. KeySize \in Nat \ {0}
  BY LocalFilesAssumption
<1> QED  BY <1>1 DEF Readable, Absent

\* FilesInv is inductive.
LEMMA FilesInvStep == FilesInv /\ [Next]_vars => FilesInv'
<1> SUFFICES ASSUME FilesInv, [Next]_vars PROVE FilesInv'
  OBVIOUS
<1>1. CASE Start
  BY <1>1 DEF Start, FilesInv, PCs
<1>2. CASE ReadKeys
  BY <1>2 DEF ReadKeys, FilesInv, PCs, Readable
<1>3. CASE ReadKeysThrows
  BY <1>3 DEF ReadKeysThrows, FilesInv, PCs
<1>4. CASE GenerateKeys
  <2>1. used = {}
    BY <1>4 DEF GenerateKeys, FilesInv, Readable
  <2> QED  BY <1>4, <2>1 DEF GenerateKeys, FilesInv, PCs
<1>5. CASE WriteKeys
  <2>1. used = {}
    BY <1>5, EmptyFile DEF WriteKeys, FilesInv
  <2>2. Readable(keyFile') /\ key' = KeyOf(keyFile')
    BY <1>5, KeyOfWritten DEF WriteKeys, FilesInv
  <2> QED  BY <1>5, <2>1, <2>2 DEF WriteKeys, FilesInv, PCs
<1>6. CASE ReadId
  BY <1>6 DEF ReadId, Runs, FilesInv, PCs, IdIn
<1>7. CASE GenerateId
  <2>1. used = {}
    BY <1>7 DEF GenerateId, FilesInv
  <2> QED  BY <1>7, <2>1 DEF GenerateId, FilesInv, PCs
<1>8. CASE WriteId
  <2>1. idFile' # Absent /\ IdIn(idFile') = id'
    BY <1>8, LocalFilesAssumption DEF WriteId, FilesInv, IdWritten, IdIn, Absent
  <2> QED  BY <1>8, <2>1 DEF WriteId, Runs, FilesInv, PCs
<1>9. CASE End
  BY <1>9 DEF End, FilesInv, PCs
<1>10. CASE UNCHANGED vars
  BY <1>10 DEF vars, FilesInv
<1> QED
  BY <1>1, <1>2, <1>3, <1>4, <1>5, <1>6, <1>7, <1>8, <1>9, <1>10 DEF Next

(***************************************************************************)
(* IdentityKept, for every value of the constants, whatever files are      *)
(* stored and retrieved between the runs.                                  *)
(***************************************************************************)
THEOREM IdentityStays == FilesSpec => []IdentityKept
<1>1. FilesInit => FilesInv
  BY DEF FilesInit, Init, FilesInv, PCs
<1>2. FilesInv /\ [FilesNext]_fileVars => FilesInv'
  BY FilesInvStep DEF FilesNext, fileVars, Store, Retrieve
<1>3. FilesInv => IdentityKept
  BY DEF FilesInv, IdentityKept
<1> QED  BY <1>1, <1>2, <1>3, PTL DEF FilesSpec

-----------------------------------------------------------------------------
(***************************************************************************)
(* How a cipher text is cut and joined, for pieces of any size.            *)
(***************************************************************************)
LEMMA LeastNumber ==
    ASSUME NEW T \in SUBSET Nat, T # {}
    PROVE  \E n \in T : \A m \in T : n <= m
<1> DEFINE R == {pair \in Nat \X Nat : pair[1] < pair[2]}
<1>1. \A m, n \in Nat : <<m, n>> \in R <=> m < n
  OBVIOUS
<1>2. IsWellFoundedOn(R, Nat)
  BY NatLessThanWellFounded DEF OpToRel
<1> HIDE DEF R
<1>3. PICK n \in T : \A m \in T : <<m, n>> \notin R
  BY <1>2, WFMin
<1>4. \A m \in T : ~(m < n)
  BY <1>1, <1>3
<1> QED  BY <1>4

\* Induction, for what can be said with a set of numbers.
LEMMA EveryNumber ==
    ASSUME NEW S, 0 \in S, \A n \in Nat : n \in S => n + 1 \in S
    PROVE  Nat \subseteq S
<1> DEFINE T == Nat \ S
<1>1. SUFFICES ASSUME T # {} PROVE FALSE
  OBVIOUS
<1>2. PICK n \in T : \A m \in T : n <= m
  BY <1>1, LeastNumber
<1>3. n # 0 /\ n \in Nat
  OBVIOUS
<1>4. n - 1 \in Nat /\ ~(n <= n - 1) /\ (n - 1) + 1 = n
  BY <1>3
<1>5. n - 1 \in S
  BY <1>2, <1>4
<1> QED  BY <1>4, <1>5

LEMMA Division ==
    ASSUME NEW a \in Nat, NEW m \in Nat \ {0}
    PROVE  /\ a \div m \in Nat /\ a % m \in Nat /\ a % m < m
           /\ a = m * (a \div m) + (a % m)
  OBVIOUS

LEMMA LessTimes ==
    ASSUME NEW x \in Int, NEW y \in Int, NEW m \in Nat \ {0}, m * x < m * y
    PROVE  x < y
  OBVIOUS

\* The equation that FlattenSeq is defined by has a solution.
LEMMA FlattenExists ==
    ASSUME NEW s, NEW n \in Nat
    PROVE  \E f : f = [i \in 1 .. n |-> IF i = 1 THEN s[i] ELSE f[i - 1] \o s[i]]
<1> DEFINE Is(f, m) == f = [i \in 1 .. m |-> IF i = 1 THEN s[i] ELSE f[i - 1] \o s[i]]
           S == {m \in Nat : \E f : Is(f, m)}
<1>1. 0 \in S
  <2>1. Is([i \in 1 .. 0 |-> 0], 0)
    OBVIOUS
  <2> QED  BY <2>1
<1>2. ASSUME NEW m \in Nat, m \in S PROVE m + 1 \in S
  <2>1. PICK f : Is(f, m)
    BY <1>2
  <2> DEFINE g == [i \in 1 .. m + 1 |-> IF i <= m THEN f[i]
                                        ELSE IF i = 1 THEN s[i] ELSE f[m] \o s[i]]
  <2>2. ASSUME NEW i \in 1 .. m + 1
        PROVE  g[i] = IF i = 1 THEN s[i] ELSE g[i - 1] \o s[i]
    <3>1. CASE i \in 1 .. m
      <4>1. f[i] = IF i = 1 THEN s[i] ELSE f[i - 1] \o s[i]
        BY <2>1, <3>1
      <4>2. g[i] = f[i] /\ (i # 1 => g[i - 1] = f[i - 1])
        BY <3>1
      <4> QED  BY <4>1, <4>2
    <3>2. CASE i = m + 1
      <4>1. /\ g[i] = IF i = 1 THEN s[i] ELSE f[m] \o s[i]
            /\ i # 1 => g[i - 1] = f[m]
        BY <3>2
      <4> QED  BY <4>1
    <3> QED  BY <3>1, <3>2
  <2>3. DOMAIN g = 1 .. m + 1
    OBVIOUS
  <2> HIDE DEF g
  <2>4. g = [i \in DOMAIN g |-> g[i]]
    BY DEF g
  <2>5. Is(g, m + 1)
    BY <2>2, <2>3, <2>4
  <2> HIDE DEF Is
  <2> QED  BY <2>5
<1> HIDE DEF S
<1>3. n \in S
  BY <1>1, <1>2, EveryNumber
<1> QED  BY <1>3 DEF S

\* Of the first pieces, joined, only the last adds what has not been there.
Joins(f, s) == /\ f[1] = s[1]
               /\ \A i \in 2 .. Len(s) : f[i] = f[i - 1] \o s[i]

LEMMA FlattenJoins ==
    ASSUME NEW s, Len(s) \in Nat \ {0}
    PROVE  \E f : Joins(f, s) /\ FlattenSeq(s) = f[Len(s)]
<1> DEFINE Is(f) == f = [i \in 1 .. Len(s) |-> IF i = 1 THEN s[i] ELSE f[i - 1] \o s[i]]
           f == CHOOSE g : Is(g)
<1>1. Is(f)
  <2>1. \E g : Is(g)
    BY FlattenExists
  <2> HIDE DEF Is
  <2> QED  BY <2>1
<1>2. FlattenSeq(s) = f[Len(s)]
  BY DEF FlattenSeq
<1> HIDE DEF f
<1>3. Joins(f, s)
  <2>1. ASSUME NEW i \in 1 .. Len(s)
        PROVE  f[i] = IF i = 1 THEN s[i] ELSE f[i - 1] \o s[i]
    BY <1>1
  <2>2. 1 \in 1 .. Len(s) /\ \A i \in 2 .. Len(s) : i \in 1 .. Len(s) /\ i # 1
    OBVIOUS
  <2> QED  BY <2>1, <2>2 DEF Joins
<1> QED  BY <1>2, <1>3

\* How many pieces there are, and how many bytes the last one is read with.
LEMMA NumberOfPieces ==
    ASSUME NEW c, Len(c) \in Nat \ {0}
    PROVE  LET from == (NoOfPieces(c) - 1) * PieceSize
               rest == Len(c) % PieceSize
           IN  /\ NoOfPieces(c) \in Nat \ {0} /\ from \in Nat /\ from < Len(c)
               /\ Len(c) <= from + PieceSize /\ rest \in 0 .. PieceSize - 1
               /\ rest # 0 => Len(c) = from + rest
<1> DEFINE m == PieceSize
           N == NoOfPieces(c)
           r == Len(c) % m
           q == Len(c) \div m
<1>1. m \in Nat \ {0}
  BY SizesAssumption
<1>2. Len(c) + m - 1 \in Nat
  BY <1>1
<1>3. /\ N \in Nat /\ m * N <= Len(c) + m - 1 /\ Len(c) + m - 1 < m * N + m
  <2> DEFINE a == Len(c) + m - 1
  <2>1. /\ a \div m \in Nat /\ a % m \in Nat /\ a % m < m
        /\ a = m * (a \div m) + (a % m)
    BY <1>1, <1>2, Division
  <2>2. N = a \div m
    BY DEF NoOfPieces
  <2> HIDE DEF a, N, m
  <2>3. N \in Nat /\ m * N \in Int
    BY <1>1, <2>1, <2>2
  <2> QED  BY <1>1, <2>1, <2>2, <2>3 DEF a
<1>4. q \in Nat /\ r \in Nat /\ r < m /\ Len(c) = m * q + r
  BY <1>1, Division
<1> HIDE DEF m, N, r, q
<1>5. m * (N - 1) = m * N - m /\ (N - 1) * m = m * (N - 1) /\ m * q \in Int /\ m * N \in Int
  BY <1>1, <1>3, <1>4
<1>6. m * (N - 1) < Len(c) /\ Len(c) <= m * N
  BY <1>1, <1>3, <1>5
<1>7. N # 0
  <2>1. N = 0 => m * N = 0
    BY <1>1
  <2> QED  BY <1>6, <2>1
<1>8. ASSUME r # 0 PROVE Len(c) = m * (N - 1) + r
  <2>1. m * q < m * N /\ m * (N - 1) < m * (q + 1)
    <3>1. m * (q + 1) = m * q + m
      BY <1>1, <1>4
    <3> QED  BY <1>1, <1>4, <1>5, <1>6, <1>8, <3>1
  <2>2. q < N /\ N - 1 < q + 1
    BY <1>1, <1>3, <1>4, <2>1, LessTimes
  <2>3. q = N - 1
    BY <1>3, <1>4, <2>2
  <2> QED  BY <1>4, <2>3
<1>9. m * (N - 1) \in Nat
  BY <1>1, <1>3, <1>7
<1>10. /\ N \in Nat \ {0} /\ (N - 1) * m \in Nat /\ (N - 1) * m < Len(c)
       /\ Len(c) <= (N - 1) * m + m /\ r \in 0 .. m - 1
       /\ r # 0 => Len(c) = (N - 1) * m + r
  BY <1>1, <1>3, <1>4, <1>5, <1>6, <1>7, <1>8, <1>9
<1> QED  BY <1>10 DEF m, N, r

\* c_str() cuts off what follows the first NUL, and nothing else.
LEMMA CStringIsPrefix ==
    ASSUME NEW data \in Seq(Byte)
    PROVE  \E l \in 0 .. Len(data) :
               /\ CString(data) = SubSeq(data, 1, l)
               /\ (\A i \in 1 .. Len(data) : data[i] # Nul) => l = Len(data)
               /\ \A i \in 1 .. Len(data) : data[i] = Nul => l < i
<1> DEFINE z == data \o <<Nul>>
           I == {i \in 1 .. Len(z) : z[i] = Nul}
<1>1. Len(data) \in Nat
  BY LenProperties
<1>2. <<Nul>> \in Seq(Byte) /\ Len(<<Nul>>) = 1 /\ <<Nul>>[1] = Nul
  BY DEF Byte
<1>3. /\ Len(z) = Len(data) + 1
      /\ \A i \in 1 .. Len(data) + 1 :
             z[i] = IF i <= Len(data) THEN data[i] ELSE <<Nul>>[i - Len(data)]
  BY <1>1, <1>2, ConcatProperties
<1>4. CString(data) = SubSeq(data, 1, (IF I # {} THEN Min(I) ELSE 0) - 1)
  BY DEF CString, SelectInSeq
<1> HIDE DEF z
<1>5. Len(data) + 1 \in I /\ I \subseteq 1 .. Len(data) + 1
  BY <1>1, <1>2, <1>3
<1> HIDE DEF I
<1>6. Min(I) \in I /\ \A i \in I : Min(I) <= i
  <2>1. I \subseteq Nat /\ I # {}
    BY <1>1, <1>5
  <2>2. \E n \in I : \A m \in I : n <= m
    BY <2>1, LeastNumber
  <2> QED  BY <2>2 DEF Min
<1> DEFINE l == Min(I) - 1
<1>7. l \in 0 .. Len(data) /\ CString(data) = SubSeq(data, 1, l)
  <2>1. I # {} /\ Min(I) \in 1 .. Len(data) + 1
    BY <1>5, <1>6
  <2>2. l \in 0 .. Len(data)
    BY <1>1, <2>1
  <2> QED  BY <1>4, <2>1, <2>2
<1>8. ASSUME \A i \in 1 .. Len(data) : data[i] # Nul PROVE l = Len(data)
  <2>1. z[Min(I)] = Nul /\ Min(I) \in 1 .. Len(data) + 1
    BY <1>5, <1>6 DEF I
  <2>2. ~(Min(I) <= Len(data))
    BY <1>1, <1>3, <1>8, <2>1
  <2> QED  BY <1>1, <2>1, <2>2
<1>9. ASSUME NEW i \in 1 .. Len(data), data[i] = Nul PROVE l < i
  <2>1. i \in I
    BY <1>1, <1>3, <1>9 DEF I
  <2>2. Min(I) <= i /\ Min(I) \in 1 .. Len(data) + 1
    BY <1>5, <1>6, <2>1
  <2> QED  BY <1>1, <2>2
<1> QED  BY <1>7, <1>8, <1>9

LEMMA TimesMonotone ==
    ASSUME NEW x \in Nat, NEW y \in Nat, x <= y, NEW m \in Nat
    PROVE  x * m \in Nat /\ x * m <= y * m /\ (x + 1) * m = x * m + m
  OBVIOUS

\* All pieces but the last, joined, are the cipher text up to there.
LEMMA WholePieces ==
    ASSUME NEW c \in Seq(Byte), Len(c) # 0, NEW f, Joins(f, Split(c)),
           Len(Split(c)) = NoOfPieces(c), NEW k \in 1 .. NoOfPieces(c) - 1
    PROVE  f[k] = SubSeq(c, 1, k * PieceSize)
<1> DEFINE m == PieceSize
           N == NoOfPieces(c)
           S == {n \in Nat : 1 <= n /\ n <= N - 1 => f[n] = SubSeq(c, 1, n * m)}
<1>1. Len(c) \in Nat \ {0} /\ m \in Nat \ {0}
  BY LenProperties, SizesAssumption
<1>2. N \in Nat \ {0} /\ (N - 1) * m < Len(c)
  BY <1>1, NumberOfPieces
<1>3. \A i \in 1 .. N - 1 : Split(c)[i] = SubSeq(c, (i - 1) * m + 1, i * m)
  <2> SUFFICES ASSUME NEW i \in 1 .. N - 1 PROVE Split(c)[i] = FullPiece(c, i)
    BY DEF FullPiece
  <2>1. i \in 1 .. N /\ i < N
    BY <1>2
  <2> QED  BY <2>1 DEF Split
<1>4. f[1] = Split(c)[1] /\ \A i \in 2 .. N : f[i] = f[i - 1] \o Split(c)[i]
  BY DEF Joins
<1> HIDE DEF m, N
<1>5. 0 \in S
  OBVIOUS
<1>6. ASSUME NEW n \in Nat, n \in S, n + 1 <= N - 1
      PROVE  f[n + 1] = SubSeq(c, 1, (n + 1) * m)
  <2>1. n + 1 \in 1 .. N - 1 /\ (n + 1) - 1 = n
    BY <1>2, <1>6
  <2>2. n * m \in Nat /\ (n + 1) * m = n * m + m
    BY <1>1, TimesMonotone
  <2>3. (n + 1) * m <= (N - 1) * m /\ (N - 1) * m \in Nat
    BY <1>1, <1>2, <1>6, TimesMonotone
  <2>4. Split(c)[n + 1] = SubSeq(c, n * m + 1, (n + 1) * m)
    BY <1>3, <2>1
  <2>5. CASE n = 0
    <3>1. n * m = 0 /\ (n + 1) * m = m
      BY <1>1, <2>5
    <3> QED  BY <1>4, <2>4, <2>5, <3>1
  <2>6. CASE n # 0
    <3>1. f[n] = SubSeq(c, 1, n * m)
      BY <1>2, <1>6, <2>6
    <3>2. n + 1 \in 2 .. N
      BY <1>2, <1>6, <2>6
    <3>3. f[n + 1] = SubSeq(c, 1, n * m) \o SubSeq(c, n * m + 1, (n + 1) * m)
      BY <1>4, <2>1, <2>4, <3>1, <3>2
    <3>4. /\ 1 \in 1 .. Len(c) + 1 /\ n * m \in 1 - 1 .. Len(c)
          /\ (n + 1) * m \in n * m .. Len(c)
      BY <1>1, <1>2, <2>2, <2>3
    <3> QED  BY <3>3, <3>4, ConcatAdjacentSubSeq
  <2> QED  BY <2>5, <2>6
<1>7. \A n \in Nat : n \in S => n + 1 \in S
  BY <1>6
<1> HIDE DEF S
<1>8. k \in S
  BY <1>2, <1>5, <1>7, EveryNumber DEF N
<1> QED  BY <1>2, <1>8 DEF S, N, m

\* What the last piece is made of.
LEMMA LastData ==
    ASSUME NEW c \in Seq(Byte), Len(c) # 0
    PROVE  LET from == (NoOfPieces(c) - 1) * PieceSize
               rest == Len(c) % PieceSize
               data == SubSeq(c, from + 1, from + rest)
           IN  /\ data \in Seq(Byte) /\ Len(data) = rest
               /\ \A i \in 1 .. rest : data[i] \in {c[j] : j \in DOMAIN c}
               /\ DOMAIN Split(c) = 1 .. NoOfPieces(c)
               /\ Split(c)[NoOfPieces(c)] = CString(data)
               /\ Survives(c) => rest # 0 /\ \A i \in 1 .. rest : data[i] # Nul
<1> DEFINE m == PieceSize
           N == NoOfPieces(c)
           r == Len(c) % m
           from == (N - 1) * m
           data == SubSeq(c, from + 1, from + r)
<1>1. Len(c) \in Nat \ {0} /\ m \in Nat \ {0} /\ DOMAIN c = 1 .. Len(c)
  BY LenProperties, SizesAssumption
<1>2. /\ N \in Nat \ {0} /\ from \in Nat /\ from < Len(c) /\ Len(c) <= from + m
      /\ r \in 0 .. m - 1 /\ (r # 0 => Len(c) = from + r)
  BY <1>1, NumberOfPieces
<1>3. Split(c)[N] = CString(data) /\ DOMAIN Split(c) = 1 .. N
  BY <1>2 DEF Split, LastPiece
<1>4. Survives(c) => r # 0 /\ \A i \in DOMAIN SubSeq(c, Len(c) - r + 1, Len(c)) :
                                  SubSeq(c, Len(c) - r + 1, Len(c))[i] # Nul
  BY DEF Survives, LastBytes
<1> HIDE DEF m, N, r, from
<1>5. /\ data \in Seq(Byte) /\ Len(data) = r
      /\ \A i \in 1 .. r : data[i] = c[from + i]
  <2>1. CASE r = 0
    <3>1. data = <<>>
      BY <1>2, <2>1, SubSeqEmpty
    <3>2. <<>> \in Seq(Byte) /\ Len(<<>>) = 0 /\ 1 .. r = {}
      BY <2>1, EmptySeq
    <3> HIDE DEF data
    <3> QED  BY <2>1, <3>1, <3>2
  <2>2. CASE r # 0
    <3>1. \A i \in from + 1 .. from + r : c[i] \in Byte
      BY <1>1, <1>2, <2>2, ElementOfSeq
    <3>2. /\ from + 1 \in Int /\ from + r \in Int /\ from + 1 <= from + r
          /\ (from + r) - (from + 1) + 1 = r
          /\ \A i \in 1 .. r : (from + 1) + i - 1 = from + i
      BY <1>2, <2>2
    <3>3. /\ data \in Seq(Byte) /\ Len(data) = r
          /\ \A i \in 1 .. r : data[i] = c[(from + 1) + i - 1]
      BY <3>1, <3>2, SubSeqProperties
    <3> QED  BY <3>2, <3>3
  <2> QED  BY <2>1, <2>2
<1>6. \A i \in 1 .. r : data[i] \in {c[j] : j \in DOMAIN c}
  <2>1. ASSUME NEW i \in 1 .. r PROVE from + i \in DOMAIN c
    <3>1. r # 0 /\ r \in Nat /\ i \in Nat \ {0} /\ i <= r
      BY <1>2
    <3> QED  BY <1>1, <1>2, <3>1
  <2> HIDE DEF data
  <2> QED  BY <1>5, <2>1
<1>7. Survives(c) => r # 0 /\ \A i \in 1 .. r : data[i] # Nul
  <2> SUFFICES ASSUME Survives(c) PROVE r # 0 /\ \A i \in 1 .. r : data[i] # Nul
    OBVIOUS
  <2>1. r # 0
    BY <1>4
  <2>2. Len(c) - r + 1 = from + 1 /\ Len(c) = from + r
    BY <1>2, <2>1
  <2>3. SubSeq(c, Len(c) - r + 1, Len(c)) = data
    BY <2>2
  <2>4. DOMAIN data = 1 .. r
    BY <1>5, LenProperties
  <2> QED  BY <1>4, <2>1, <2>3, <2>4
<1> QED  BY <1>3, <1>5, <1>6, <1>7 DEF m, N, r, from

(***************************************************************************)
(* What retrieve_file joins is the beginning of the cipher text, less than *)
(* a piece is missing, and nothing if no NUL is behind its last whole      *)
(* piece and it is no multiple of PIECE_SIZE.                              *)
(***************************************************************************)
LEMMA RetrievedIsPrefix ==
    ASSUME NEW c \in Seq(Byte), Len(c) # 0, Retrieved(Split(c)) # <<>>
    PROVE  \E n \in 1 .. Len(c) : /\ Retrieved(Split(c)) = SubSeq(c, 1, n)
                                  /\ Len(c) - n < PieceSize
                                  /\ Survives(c) => n = Len(c)
<1> DEFINE m == PieceSize
           N == NoOfPieces(c)
           r == Len(c) % m
           from == (N - 1) * m
           data == SubSeq(c, from + 1, from + r)
<1>1. Len(c) \in Nat \ {0} /\ m \in Nat \ {0}
  BY LenProperties, SizesAssumption
<1>2. /\ N \in Nat \ {0} /\ from \in Nat /\ from < Len(c) /\ Len(c) <= from + m
      /\ r \in 0 .. m - 1 /\ (r # 0 => Len(c) = from + r)
  BY <1>1, NumberOfPieces
<1>3. Split(c)[N] = CString(data) /\ DOMAIN Split(c) = 1 .. N
  BY LastData
<1>4. /\ data \in Seq(Byte) /\ Len(data) = r
      /\ Survives(c) => \A i \in 1 .. r : data[i] # Nul
  BY LastData
<1>5. /\ \A i \in 1 .. N : Split(c)[i] # <<>>
      /\ Retrieved(Split(c)) = FlattenSeq(Split(c))
  BY <1>3 DEF Retrieved
<1> HIDE DEF m, N, r, from
<1> HIDE DEF data
<1>7. PICK l \in 0 .. r : /\ CString(data) = SubSeq(data, 1, l)
                          /\ (\A i \in 1 .. r : data[i] # Nul) => l = r
  BY <1>4, CStringIsPrefix
<1>8. l # 0
  <2> SUFFICES ASSUME l = 0 PROVE FALSE
    OBVIOUS
  <2>1. SubSeq(data, 1, l) = <<>>
    BY SubSeqEmpty
  <2>2. N \in 1 .. N
    BY <1>2
  <2> QED  BY <1>3, <1>5, <1>7, <2>1, <2>2
<1>9. r # 0 /\ Len(c) = from + r /\ l \in 1 .. r
  BY <1>2, <1>7, <1>8
<1>10. Split(c)[N] = SubSeq(c, from + 1, from + l)
  <2> DEFINE i == from + 1
             j == from + r
  <2>1. /\ i \in 1 .. Len(c) /\ j \in 1 .. Len(c) /\ 1 \in 1 .. j - i + 1
        /\ l \in 1 .. j - i + 1 /\ i + 1 - 1 = i /\ i + l - 1 = from + l
    BY <1>2, <1>9
  <2>2. data = SubSeq(c, i, j)
    BY DEF data
  <2> HIDE DEF i, j
  <2>3. SubSeq(SubSeq(c, i, j), 1, l) = SubSeq(c, i + 1 - 1, i + l - 1)
    BY <2>1, SubSeqOfSubSeq
  <2> QED  BY <1>3, <1>7, <2>1, <2>2, <2>3 DEF i
<1>11. Len(Split(c)) = N
  BY <1>2, <1>3
<1>12. PICK f : Joins(f, Split(c)) /\ FlattenSeq(Split(c)) = f[N]
  BY <1>2, <1>11, FlattenJoins
<1>13. f[N] = SubSeq(c, 1, from + l)
  <2>1. CASE N = 1
    <3>1. from = 0
      BY <1>1, <2>1 DEF from
    <3>2. f[N] = SubSeq(c, from + 1, from + l)
      BY <1>10, <1>12, <2>1 DEF Joins
    <3> QED  BY <1>9, <3>1, <3>2
  <2>2. CASE N # 1
    <3>1. N - 1 \in 1 .. N - 1 /\ N \in 2 .. N
      BY <1>2, <2>2
    <3>2. f[N - 1] = SubSeq(c, 1, from)
      BY <1>1, <1>11, <1>12, <3>1, WholePieces DEF N, m, from
    <3>3. f[N] = SubSeq(c, 1, from) \o SubSeq(c, from + 1, from + l)
      BY <1>10, <1>11, <1>12, <3>1, <3>2 DEF Joins
    <3>4. 1 \in 1 .. Len(c) + 1 /\ from \in 1 - 1 .. Len(c) /\ from + l \in from .. Len(c)
      BY <1>1, <1>2, <1>9
    <3> QED  BY <3>3, <3>4, ConcatAdjacentSubSeq
  <2> QED  BY <2>1, <2>2
<1>14. Survives(c) => l = r
  BY <1>4, <1>7
<1>15. from + l \in 1 .. Len(c) /\ Len(c) - (from + l) < m /\ (l = r => from + l = Len(c))
  BY <1>1, <1>2, <1>9
<1> QED  BY <1>5, <1>12, <1>13, <1>14, <1>15 DEF m

\* A buffer of NULs ends up as an empty piece, and retrieve_file finds nothing.
LEMMA NulsAreNothing ==
    ASSUME NEW c \in Seq(Byte), Len(c) # 0, \A i \in DOMAIN c : c[i] = Nul
    PROVE  Retrieved(Split(c)) = <<>>
<1> DEFINE N == NoOfPieces(c)
           r == Len(c) % PieceSize
           data == SubSeq(c, (N - 1) * PieceSize + 1, (N - 1) * PieceSize + r)
<1>1. Len(c) \in Nat \ {0}
  BY LenProperties
<1>2. N \in Nat \ {0} /\ r \in Nat
  BY <1>1, NumberOfPieces
<1>3. /\ data \in Seq(Byte) /\ Len(data) = r
      /\ \A i \in 1 .. r : data[i] \in {c[j] : j \in DOMAIN c}
      /\ DOMAIN Split(c) = 1 .. N /\ Split(c)[N] = CString(data)
  BY LastData
<1> HIDE DEF N, r, data
<1>4. \A i \in 1 .. r : data[i] = Nul
  BY <1>3
<1>5. PICK l \in 0 .. r : /\ CString(data) = SubSeq(data, 1, l)
                          /\ \A i \in 1 .. r : data[i] = Nul => l < i
  BY <1>3, CStringIsPrefix
<1>6. l = 0
  <2>1. r # 0 => 1 \in 1 .. r
    BY <1>2
  <2> QED  BY <1>2, <1>4, <1>5, <2>1
<1>7. Split(c)[N] = <<>>
  BY <1>3, <1>5, <1>6, SubSeqEmpty
<1>8. N \in DOMAIN Split(c)
  BY <1>2, <1>3
<1> QED  BY <1>7, <1>8 DEF Retrieved

\* Of a cipher text that survives, no piece is empty.
LEMMA SurvivorsReturn ==
    ASSUME NEW c \in Seq(Byte), Len(c) # 0, Survives(c)
    PROVE  Retrieved(Split(c)) # <<>>
<1> DEFINE m == PieceSize
           N == NoOfPieces(c)
           r == Len(c) % m
           data == SubSeq(c, (N - 1) * m + 1, (N - 1) * m + r)
<1>1. Len(c) \in Nat \ {0} /\ m \in Nat \ {0}
  BY LenProperties, SizesAssumption
<1>2. N \in Nat \ {0} /\ (N - 1) * m \in Nat /\ (N - 1) * m < Len(c) /\ r \in Nat
  BY <1>1, NumberOfPieces
<1>3. /\ data \in Seq(Byte) /\ Len(data) = r /\ r # 0
      /\ \A i \in 1 .. r : data[i] # Nul
      /\ DOMAIN Split(c) = 1 .. N /\ Split(c)[N] = CString(data)
  BY LastData
<1>4. ASSUME NEW i \in 1 .. N - 1
      PROVE  Split(c)[i] \in Seq(Byte) /\ Len(Split(c)[i]) = m
  <2>1. i \in 1 .. N /\ i < N /\ i - 1 \in Nat /\ (i - 1) + 1 = i
    BY <1>2
  <2>2. Split(c)[i] = SubSeq(c, (i - 1) * m + 1, i * m)
    BY <2>1 DEF Split, FullPiece
  <2>3. (i - 1) * m \in Nat /\ i * m = (i - 1) * m + m
    BY <1>1, <2>1, TimesMonotone
  <2>4. i * m <= (N - 1) * m
    <3>1. i \in Nat /\ N - 1 \in Nat /\ i <= N - 1
      BY <1>2
    <3> QED  BY <1>1, <3>1, TimesMonotone
  <2> HIDE DEF m, N
  <2>5. \A j \in (i - 1) * m + 1 .. i * m : c[j] \in Byte
    BY <1>1, <1>2, <2>3, <2>4, ElementOfSeq
  <2>6. /\ (i - 1) * m + 1 \in Int /\ i * m \in Int /\ (i - 1) * m + 1 <= i * m
        /\ i * m - ((i - 1) * m + 1) + 1 = m
    BY <1>1, <2>3
  <2> QED  BY <2>2, <2>5, <2>6, SubSeqProperties
<1>5. Split(c)[N] \in Seq(Byte) /\ Len(Split(c)[N]) = r
  <2> HIDE DEF m, N, r, data
  <2>1. CString(data) = SubSeq(data, 1, r)
    BY <1>3, CStringIsPrefix
  <2>2. \A i \in 1 .. r : data[i] \in Byte
    BY <1>3, ElementOfSeq
  <2>3. 1 <= r /\ r - 1 + 1 = r
    BY <1>2, <1>3
  <2> QED  BY <1>2, <1>3, <2>1, <2>2, <2>3, SubSeqProperties
<1>6. \A i \in 1 .. N : Split(c)[i] \in Seq(Byte) /\ Split(c)[i] # <<>>
  <2>1. \A i \in 1 .. N : i \in 1 .. N - 1 \/ i = N
    BY <1>2
  <2> QED  BY <1>1, <1>3, <1>4, <1>5, <2>1, EmptySeq
<1>7. Len(Split(c)) = N
  BY <1>2, <1>3
<1>8. PICK f : Joins(f, Split(c)) /\ FlattenSeq(Split(c)) = f[N]
  BY <1>2, <1>7, FlattenJoins
<1>9. f[N] # <<>>
  <2>1. CASE N = 1
    BY <1>6, <1>8, <2>1 DEF Joins
  <2>2. CASE N # 1
    <3>1. N - 1 \in 1 .. N - 1 /\ N \in 2 .. N
      BY <1>2, <2>2
    <3>2. f[N - 1] = SubSeq(c, 1, (N - 1) * m)
      BY <1>7, <1>8, <3>1, WholePieces
    <3>3. f[N - 1] \in Seq(Byte)
      <4>1. \A j \in 1 .. (N - 1) * m : c[j] \in Byte
        BY <1>1, <1>2, ElementOfSeq
      <4>2. CASE (N - 1) * m = 0
        BY <3>2, <4>2, SubSeqEmpty, EmptySeq
      <4>3. CASE (N - 1) * m # 0
        BY <1>2, <3>2, <4>1, <4>3, SubSeqProperties
      <4> QED  BY <4>2, <4>3
    <3>4. f[N] = f[N - 1] \o Split(c)[N]
      BY <1>7, <1>8, <3>1 DEF Joins
    <3> HIDE DEF m, N, r
    <3>5. Len(f[N]) = Len(f[N - 1]) + r /\ Len(f[N - 1]) \in Nat
      BY <1>5, <3>3, <3>4, ConcatProperties, LenProperties
    <3>6. r \in Nat /\ r # 0
      BY <1>2, <1>3
    <3>7. Len(f[N]) # 0
      BY <3>5, <3>6
    <3>8. f[N] = <<>> => Len(f[N]) = 0
      BY EmptySeq
    <3> QED  BY <3>7, <3>8
  <2> QED  BY <2>1, <2>2
<1> QED  BY <1>3, <1>6, <1>8, <1>9 DEF Retrieved

-----------------------------------------------------------------------------
(***************************************************************************)
(* What decrypt makes of the beginning of a cipher text.                   *)
(***************************************************************************)
\* The sizes in blocks: `whole` is what EVP_DecryptUpdate takes of k bytes.
LEMMA Blocks ==
    ASSUME NEW n \in Nat, NEW k \in 1 .. Padded(n)
    PROVE  LET whole == (k \div BlockSize) * BlockSize
           IN  /\ Padded(n) \in Nat /\ n < Padded(n) /\ Padded(n) % BlockSize = 0
               /\ n < BlockSize => Padded(n) = BlockSize
               /\ whole \in Nat /\ whole <= k /\ k < whole + BlockSize
               /\ k % BlockSize = 0 => whole = k /\ BlockSize <= k
               /\ k < Padded(n) => whole <= n
<1> DEFINE b == BlockSize
           q == n \div b
           L == Padded(n)
           d == k \div b
<1>1. b \in Nat \ {0}
  BY SizesAssumption
<1>2. q \in Nat /\ n % b \in Nat /\ n % b < b /\ n = b * q + (n % b)
  BY <1>1, Division
<1>3. L = (q + 1) * b
  BY DEF Padded
<1> HIDE DEF b, q, L
<1>4. L = b * q + b /\ b * q \in Nat /\ L \in Nat /\ n < L
  BY <1>1, <1>2, <1>3
<1>5. k \in Nat \ {0} /\ k <= L
  BY <1>4 DEF L
<1>6. d \in Nat /\ k % b \in Nat /\ k % b < b /\ k = b * d + (k % b)
  BY <1>1, <1>5, Division
<1>7. L % b = 0
  <2> DEFINE p == L \div b
             r == L % b
  <2>1. p \in Nat /\ r \in Nat /\ r < b /\ L = b * p + r
    BY <1>1, <1>4, Division
  <2> HIDE DEF p, r
  <2>2. b * p \in Nat /\ b * (q + 1) = b * q + b /\ b * (p + 1) = b * p + b
    BY <1>1, <1>2, <2>1
  <2>3. b * p < b * (q + 2) /\ b * (q + 1) < b * (p + 1)
    <3>1. b * (q + 2) = b * q + b + b
      BY <1>1, <1>2
    <3> QED  BY <1>1, <1>4, <2>1, <2>2, <3>1
  <2>4. q + 1 < p + 1 /\ p < q + 2
    BY <1>1, <1>2, <2>1, <2>3, LessTimes
  <2>5. p = q + 1
    BY <1>2, <2>1, <2>4
  <2> QED  BY <1>4, <2>1, <2>2, <2>5 DEF r
<1>8. ASSUME n < b PROVE L = b
  <2>1. ~(b <= b * q)
    BY <1>2, <1>4, <1>8, <1>1
  <2>2. b * q < b * 1
    BY <1>1, <1>4, <2>1
  <2>3. q = 0
    BY <1>1, <1>2, <2>2, LessTimes
  <2> QED  BY <1>1, <1>4, <2>3
<1> HIDE DEF d
<1>9. d * b = b * d /\ b * d \in Nat
  BY <1>1, <1>6
<1>10. d * b <= k /\ k < d * b + b /\ (k % b = 0 => d * b = k)
  BY <1>1, <1>5, <1>6, <1>9
<1>11. ASSUME k % b = 0 PROVE b <= k
  <2>1. d # 0
    <3>1. d = 0 => b * d = 0
      BY <1>1
    <3> QED  BY <1>5, <1>6, <1>11, <3>1
  <2>2. b * d = b * (d - 1) + b /\ b * (d - 1) \in Nat
    BY <1>1, <1>6, <2>1
  <2> QED  BY <1>1, <1>6, <1>11, <2>2
<1>12. ASSUME k < L PROVE d * b <= n
  <2>1. b * (q + 1) = b * q + b
    BY <1>1, <1>2
  <2>2. b * d < b * (q + 1)
    BY <1>4, <1>5, <1>6, <1>9, <1>12, <2>1
  <2>3. d <= q
    <3>1. d < q + 1
      BY <1>1, <1>2, <1>6, <2>2, LessTimes
    <3> QED  BY <1>2, <1>6, <3>1
  <2>4. d * b <= q * b /\ q * b = b * q
    BY <1>1, <1>2, <1>6, <2>3, TimesMonotone
  <2> QED  BY <1>2, <1>4, <1>9, <2>4
<1>13. /\ L \in Nat /\ n < L /\ L % b = 0 /\ (n < b => L = b)
       /\ d * b \in Nat /\ d * b <= k /\ k < d * b + b
       /\ (k % b = 0 => d * b = k /\ b <= k) /\ (k < L => d * b <= n)
  BY <1>4, <1>7, <1>8, <1>9, <1>10, <1>11, <1>12
<1> QED  BY <1>13 DEF d, b, L

LEMMA CipherTextOf ==
    ASSUME NEW n \in Nat, NEW c \in CipherTexts(n)
    PROVE  c \in Seq(Byte) /\ Len(c) = Padded(n) /\ Padded(n) \in Nat \ {0}
<1>1. BlockSize \in Nat \ {0}
  BY SizesAssumption
<1>2. Padded(n) \in Nat \ {0}
  <2> DEFINE q == n \div BlockSize
  <2>1. q \in Nat /\ Padded(n) = (q + 1) * BlockSize
    BY <1>1, Division DEF Padded
  <2> HIDE DEF q
  <2>2. (q + 1) * BlockSize = q * BlockSize + BlockSize /\ q * BlockSize \in Nat
    BY <1>1, <2>1, TimesMonotone
  <2> QED  BY <1>1, <2>1, <2>2
<1>3. c \in [1 .. Padded(n) -> Byte]
  BY DEF CipherTexts
<1>4. c \in Seq(Byte)
  BY <1>2, <1>3, SeqDef
<1>5. 1 .. Len(c) = 1 .. Padded(n) /\ Len(c) \in Nat
  BY <1>3, <1>4, LenProperties
<1> QED  BY <1>2, <1>4, <1>5

\* The file f, of which retrieve has the first k bytes of the cipher text.
LEMMA DecryptsWell ==
    ASSUME NEW f, f.size \in Nat, f.cipher \in CipherTexts(f.size), f.key = key,
           NEW k \in 1 .. Len(f.cipher), Len(f.cipher) - k < PieceSize,
           NEW n \in DecryptedSizes(f, SubSeq(f.cipher, 1, k)),
           NEW out, out = Decrypted(f, SubSeq(f.cipher, 1, k), n)
    PROVE  /\ out \in Seq(Int) /\ Len(out) = n
           /\ n \in Nat /\ f.size - n < PieceSize + BlockSize
           /\ \A i \in 1 .. n : out[i] # i => i <= BlockSize /\ f.iv # iv
           /\ k = Len(f.cipher) /\ f.iv = iv => out = Plain(f.size)
<1> DEFINE cipher == SubSeq(f.cipher, 1, k)
           L == Padded(f.size)
           whole == (k \div BlockSize) * BlockSize
           full == k % BlockSize = 0
<1>1. BlockSize \in Nat \ {0} /\ PieceSize \in Nat \ {0}
  BY SizesAssumption
<1>2. n \in DecryptedSizes(f, cipher) /\ out = Decrypted(f, cipher, n)
  OBVIOUS
<1>3. f.cipher \in Seq(Byte) /\ Len(f.cipher) = L /\ L \in Nat
  BY CipherTextOf
<1>4. /\ L \in Nat /\ f.size < L /\ (k = L => full)
      /\ f.size < BlockSize => L = BlockSize
      /\ whole \in Nat /\ whole <= k /\ k < whole + BlockSize
      /\ full => whole = k /\ BlockSize <= k
      /\ k < L => whole <= f.size
  BY <1>3, Blocks
<1>5. /\ cipher \in Seq(Byte) /\ Len(cipher) = k /\ DOMAIN cipher = 1 .. k
      /\ \A j \in 1 .. k : cipher[j] = f.cipher[j]
  <2>1. \A j \in 1 .. k : f.cipher[j] \in Byte /\ 1 + j - 1 = j
    <3>1. k <= Len(f.cipher) /\ Len(f.cipher) \in Nat
      BY <1>3
    <3> QED  BY <1>3, <3>1, ElementOfSeq
  <2>2. 1 <= k /\ k - 1 + 1 = k /\ k \in Int /\ 1 \in Int
    BY <1>3, <1>4
  <2>3. /\ cipher \in Seq(Byte) /\ Len(cipher) = k
        /\ \A j \in 1 .. k : cipher[j] = f.cipher[1 + j - 1]
    BY <2>1, <2>2, SubSeqProperties
  <2> QED  BY <2>1, <2>3, LenProperties
<1> HIDE DEF cipher
<1>6. ASSUME NEW i \in 1 .. k, Damaged(f, cipher, i)
      PROVE  i <= BlockSize /\ f.iv # iv
  <2>1. ~(\E j \in DOMAIN cipher \cap Block(i) : cipher[j] # f.cipher[j])
    BY <1>5
  <2>2. IF i <= BlockSize THEN f.iv[i] # iv[i]
        ELSE cipher[i - BlockSize] # f.cipher[i - BlockSize]
    BY <1>6, <2>1 DEF Damaged
  <2>3. ~(i <= BlockSize) => i - BlockSize \in 1 .. k
    BY <1>1, <1>3, <1>4
  <2> QED  BY <1>5, <2>2, <2>3
<1> DEFINE Padding == Len(cipher) = Len(f.cipher)
                      /\ \A i \in f.size + 1 .. Len(cipher) : ~Damaged(f, cipher, i)
<1>7. /\ ~full => n = whole
      /\ full /\ Padding => n = f.size
      /\ full /\ ~Padding => n \in whole - BlockSize .. whole - 1
  BY <1>5, <1>2 DEF DecryptedSizes, PaddingRead
<1>8. k \in Nat \ {0} /\ k <= L /\ f.size \in Nat /\ L - k < PieceSize
  BY <1>3, <1>4
<1> HIDE DEF L, whole, full, Padding
<1>9. n \in Nat /\ n <= k /\ f.size - n < PieceSize + BlockSize
  <2>1. CASE ~full
    BY <1>1, <1>4, <1>7, <1>8, <2>1
  <2>2. CASE full /\ Padding
    <3>1. Padding => k = L
      BY <1>3, <1>5 DEF Padding
    <3> QED  BY <1>1, <1>4, <1>7, <1>8, <2>2, <3>1
  <2>3. CASE full /\ ~Padding
    <3>1. n \in k - BlockSize .. k - 1 /\ BlockSize <= k
      BY <1>4, <1>7, <2>3
    <3>2. L \in Nat /\ f.size < L
      BY <1>4
    <3> QED  BY <1>1, <1>8, <3>1, <3>2
  <2> QED  BY <2>1, <2>2, <2>3
<1>10. /\ out \in [1 .. n -> Int]
       /\ \A i \in 1 .. n : out[i] = IF i > f.size \/ Damaged(f, cipher, i) THEN Wrong ELSE i
  BY <1>9, <1>2 DEF Decrypted, Wrong
<1>11. out \in Seq(Int) /\ Len(out) = n
  <2>1. out \in Seq(Int)
    BY <1>9, <1>10, SeqDef
  <2>2. 1 .. Len(out) = 1 .. n /\ Len(out) \in Nat
    BY <1>10, <2>1, LenProperties
  <2> QED  BY <1>9, <2>1, <2>2
<1>12. ASSUME NEW i \in 1 .. n, i > f.size
       PROVE  i <= BlockSize /\ f.iv # iv
  <2>1. full /\ ~Padding /\ n \in whole - BlockSize .. whole - 1
    <3>1. ~full => n <= f.size
      BY <1>4, <1>7, <1>8
    <3>2. n > f.size
      BY <1>8, <1>9, <1>12
    <3> QED  BY <1>7, <1>8, <1>9, <3>1, <3>2
  <2>2. k = L
    BY <1>1, <1>4, <1>8, <1>9, <1>12, <2>1
  <2>3. PICK j \in f.size + 1 .. k : Damaged(f, cipher, j)
    BY <1>3, <1>5, <2>1, <2>2 DEF Padding
  <2>4. j <= BlockSize /\ f.iv # iv
    BY <1>6, <1>8, <2>3
  <2>5. L = BlockSize
    BY <1>1, <1>4, <1>8, <2>3, <2>4
  <2> QED  BY <1>1, <1>8, <1>9, <2>2, <2>4, <2>5
<1>13. \A i \in 1 .. n : out[i] # i => i <= BlockSize /\ f.iv # iv
  <2> SUFFICES ASSUME NEW i \in 1 .. n, out[i] # i PROVE i <= BlockSize /\ f.iv # iv
    OBVIOUS
  <2>1. i \in 1 .. k
    BY <1>8, <1>9
  <2> QED  BY <1>6, <1>10, <1>12, <2>1
<1>14. ASSUME k = Len(f.cipher), f.iv = iv PROVE out = Plain(f.size)
  <2>1. k = L /\ full
    BY <1>3, <1>4, <1>14
  <2>2. Padding
    <3>1. \A i \in f.size + 1 .. Len(cipher) : i \in 1 .. k
      BY <1>5, <1>8
    <3> QED  BY <1>5, <1>6, <1>14, <3>1 DEF Padding
  <2>3. n = f.size
    BY <1>7, <2>1, <2>2
  <2>4. \A i \in 1 .. n : out[i] = i
    BY <1>13, <1>14
  <2>5. out = [i \in 1 .. n |-> out[i]]
    BY <1>10
  <2>6. [i \in 1 .. n |-> out[i]] = [i \in 1 .. n |-> i]
    BY <2>4
  <2> QED  BY <2>3, <2>5, <2>6 DEF Plain
<1> QED  BY <1>9, <1>11, <1>13, <1>14

-----------------------------------------------------------------------------
(***************************************************************************)
(* The second key of a run is that of the file unless the run has made it, *)
(* and a file is stored under the keys of its run.                         *)
(***************************************************************************)
KeysInv ==
    /\ made \in Nat /\ runs \in Nat /\ made <= runs
    /\ pc = "crypto_init" => made < runs
    /\ pc = "write_keys" => made = runs
    /\ pc \in {"create_new_id", "write_id", "running"} /\ made # runs =>
           iv = IvOf(keyFile)
    /\ pc = "running" => Readable(keyFile) /\ key = KeyOf(keyFile)

\* A file as store has left it, whatever happened since.
Kept(f) ==
    /\ f.size \in 0 .. MaxSize /\ f.cipher \in CipherTexts(f.size)
    /\ f.pieces = Split(Streamed(f.size, f.cipher))
    /\ Readable(keyFile) /\ f.key = KeyOf(keyFile)
    /\ f.run \in Nat /\ made <= f.run /\ f.run <= runs
    /\ f.read <=> made # f.run
    /\ f.read => f.iv = IvOf(keyFile)
    /\ f.run = runs => \/ pc = "off"
                       \/ pc = "running" /\ f.iv = iv

BytesInv ==
    /\ FilesInv /\ KeysInv
    /\ \A f \in stored : Kept(f)
    /\ ComesBack /\ DamageIsBounded

\* A file that is kept can be retrieved if it is not empty and survives.
LEMMA KeptReturns ==
    ASSUME NEW f, Kept(f)
    PROVE  /\ f.size = 0 => Retrieved(f.pieces) = <<>>
           /\ f.size # 0 /\ Survives(f.cipher) => Retrieved(f.pieces) # <<>>
<1>1. f.size \in Nat /\ f.cipher \in CipherTexts(f.size)
  BY CipherAssumption DEF Kept
<1>2. f.cipher \in Seq(Byte) /\ Len(f.cipher) \in Nat \ {0}
  BY <1>1, CipherTextOf
<1>3. ASSUME f.size = 0 PROVE Retrieved(f.pieces) = <<>>
  <2> DEFINE nuls == [i \in DOMAIN f.cipher |-> Nul]
  <2>1. f.pieces = Split(nuls)
    BY <1>3 DEF Kept, Streamed
  <2>2. DOMAIN f.cipher = 1 .. Len(f.cipher)
    BY <1>2, LenProperties
  <2>3. nuls \in Seq(Byte)
    BY <1>2, <2>2, SeqDef DEF Byte
  <2>4. Len(nuls) # 0 /\ \A i \in DOMAIN nuls : nuls[i] = Nul
    <3>1. 1 .. Len(nuls) = 1 .. Len(f.cipher) /\ Len(nuls) \in Nat
      BY <2>2, <2>3, LenProperties
    <3>2. Len(nuls) # 0
      BY <1>2, <3>1
    <3> QED  BY <3>2
  <2> HIDE DEF nuls
  <2> QED  BY <2>1, <2>3, <2>4, NulsAreNothing
<1>4. ASSUME f.size # 0, Survives(f.cipher) PROVE Retrieved(f.pieces) # <<>>
  <2>1. f.pieces = Split(f.cipher)
    BY <1>4 DEF Kept, Streamed
  <2> QED  BY <1>2, <1>4, <2>1, SurvivorsReturn
<1> QED  BY <1>3, <1>4

LEMMA KeysInvStep ==
    FilesInv /\ KeysInv /\ [FilesNext]_fileVars => KeysInv'
<1> SUFFICES ASSUME FilesInv, KeysInv, [FilesNext]_fileVars PROVE KeysInv'
  OBVIOUS
<1>1. CASE Next /\ made' = (IF keyFile' # keyFile THEN runs ELSE made)
  <2>1. CASE Start
    BY <1>1, <2>1 DEF Start, KeysInv
  <2>2. CASE ReadKeys
    BY <1>1, <2>2 DEF ReadKeys, KeysInv
  <2>3. CASE ReadKeysThrows
    BY <1>1, <2>3 DEF ReadKeysThrows, KeysInv
  <2>4. CASE GenerateKeys
    <3>1. keyFile' # keyFile
      BY <2>4, EmptyFile DEF GenerateKeys
    <3> QED  BY <1>1, <2>4, <3>1 DEF GenerateKeys, KeysInv
  <2>5. CASE WriteKeys
    BY <1>1, <2>5 DEF WriteKeys, KeysInv
  <2>6. CASE ReadId
    BY <1>1, <2>6 DEF ReadId, Runs, KeysInv, FilesInv
  <2>7. CASE GenerateId
    BY <1>1, <2>7 DEF GenerateId, KeysInv
  <2>8. CASE WriteId
    BY <1>1, <2>8 DEF WriteId, Runs, KeysInv, FilesInv
  <2>9. CASE End
    BY <1>1, <2>9 DEF End, KeysInv
  <2> QED
    BY <1>1, <2>1, <2>2, <2>3, <2>4, <2>5, <2>6, <2>7, <2>8, <2>9 DEF Next
<1>2. CASE UNCHANGED <<vars, made>>
  BY <1>2 DEF vars, KeysInv
<1> QED  BY <1>1, <1>2 DEF FilesNext, fileVars, Store, Retrieve

\* Nothing a process does between two commands touches the files it has stored.
LEMMA KeptStep ==
    ASSUME FilesInv, KeysInv, [Next]_vars,
           made' = (IF keyFile' # keyFile THEN runs ELSE made),
           NEW f, Kept(f)
    PROVE  Kept(f)'
<1>1. keyFile # Absent /\ keyFile # <<>>
  BY EmptyFile DEF Kept, Readable
<1>2. pc # "write_keys" /\ ~GenerateKeys /\ ~WriteKeys
  BY <1>1 DEF FilesInv, GenerateKeys, WriteKeys
<1>3. keyFile' = keyFile /\ made' = made
  BY <1>2 DEF Next, vars, Start, ReadKeys, ReadKeysThrows, ReadId, GenerateId,
              WriteId, End
<1>4. CASE Start
  BY <1>3, <1>4 DEF Start, Kept, KeysInv
<1>5. CASE ~Start
  <2>1. /\ runs' = runs
        /\ pc = "off" => pc' = "off"
        /\ pc = "running" => pc' = "off" \/ (pc' = "running" /\ iv' = iv)
    BY <1>2, <1>5 DEF Next, vars, ReadKeys, ReadKeysThrows, ReadId, GenerateId,
                      WriteId, End
  <2> QED  BY <1>3, <2>1 DEF Kept
<1> QED  BY <1>4, <1>5

(***************************************************************************)
(* What retrieve makes of a file that is in the network.                   *)
(***************************************************************************)
LEMMA RetrieveStep ==
    ASSUME BytesInv, NEW f \in stored, Retrieve(f)
    PROVE  ComesBack' /\ DamageIsBounded'
<1> DEFINE c == f.cipher
           cipher == Retrieved(f.pieces)
<1>1. /\ Kept(f) /\ FilesInv /\ KeysInv /\ pc = "running"
      /\ f.pieces = Split(c) /\ cipher # <<>>
  <2>1. Kept(f) /\ FilesInv /\ KeysInv /\ pc = "running" /\ cipher # <<>>
    BY DEF BytesInv, Retrieve
  <2>2. f.size # 0
    BY <2>1, KeptReturns
  <2> QED  BY <2>1, <2>2 DEF Kept, Streamed
<1>2. /\ f.size \in Nat /\ c \in CipherTexts(f.size) /\ f.key = key
      /\ f.run \in Nat /\ runs \in Nat
  BY <1>1, CipherAssumption DEF Kept, KeysInv
<1>3. c \in Seq(Byte) /\ Len(c) \in Nat \ {0}
  BY <1>2, CipherTextOf
<1>4. PICK k \in 1 .. Len(c) : /\ cipher = SubSeq(c, 1, k)
                               /\ Len(c) - k < PieceSize
                               /\ Survives(c) => k = Len(c)
  BY <1>1, <1>3, RetrievedIsPrefix
<1>5. PICK n \in DecryptedSizes(f, cipher) :
          written' = {[of |-> f, bytes |-> Decrypted(f, cipher, n), run |-> runs]}
  BY DEF Retrieve
<1> DEFINE out == Decrypted(f, cipher, n)
<1>6. /\ out \in Seq(Int) /\ Len(out) = n /\ n \in Nat
      /\ f.size - n < PieceSize + BlockSize
      /\ \A i \in 1 .. n : out[i] # i => i <= BlockSize /\ f.iv # iv
      /\ k = Len(c) /\ f.iv = iv => out = Plain(f.size)
  <2>1. f.size \in Nat /\ f.cipher \in CipherTexts(f.size) /\ f.key = key
    BY <1>2
  <2>2. k \in 1 .. Len(f.cipher) /\ Len(f.cipher) - k < PieceSize
    BY <1>4
  <2>3. cipher = SubSeq(f.cipher, 1, k)
    BY <1>4
  <2>4. n \in DecryptedSizes(f, cipher)
    BY <1>5
  <2> HIDE DEF c, cipher
  <2>5. /\ n \in DecryptedSizes(f, SubSeq(f.cipher, 1, k))
        /\ out = Decrypted(f, SubSeq(f.cipher, 1, k), n)
    BY <2>3, <2>4
  <2> HIDE DEF out
  <2>6. /\ out \in Seq(Int) /\ Len(out) = n /\ n \in Nat
        /\ f.size - n < PieceSize + BlockSize
        /\ \A i \in 1 .. n : out[i] # i => i <= BlockSize /\ f.iv # iv
        /\ k = Len(f.cipher) /\ f.iv = iv => out = Plain(f.size)
    BY ONLY <2>1, <2>2, <2>5, DecryptsWell
  <2> QED  BY <2>6 DEF c
<1>7. f.iv # iv => ~f.read /\ f.run < runs
  BY <1>1, <1>2 DEF Kept, KeysInv
<1>8. f.read \/ f.run = runs => f.iv = iv
  BY <1>2, <1>7
<1> HIDE DEF out, c, cipher
<1>9. \A w \in written' : w.of = f /\ w.bytes = out /\ w.run = runs
  BY <1>5 DEF out
<1>10. ComesBack'
  <2>1. stored' = stored
    BY DEF Retrieve
  <2> QED  BY <1>4, <1>6, <1>8, <1>9, <2>1 DEF BytesInv, ComesBack, c
<1>11. DamageIsBounded'
  BY <1>6, <1>7, <1>9 DEF DamageIsBounded
<1> QED  BY <1>10, <1>11

LEMMA BytesInvStep == BytesInv /\ [FilesNext]_fileVars => BytesInv'
<1> SUFFICES ASSUME BytesInv, [FilesNext]_fileVars PROVE BytesInv'
  OBVIOUS
<1>1. FilesInv' /\ KeysInv'
  BY FilesInvStep, KeysInvStep DEF BytesInv, FilesNext, fileVars, Store, Retrieve
<1>2. CASE /\ Next /\ UNCHANGED <<stored, written>>
           /\ made' = IF keyFile' # keyFile THEN runs ELSE made
  <2>1. \A f \in stored : Kept(f)'
    BY <1>2, KeptStep DEF BytesInv
  <2>2. ComesBack' /\ DamageIsBounded'
    BY <1>2 DEF BytesInv, ComesBack, DamageIsBounded
  <2> QED  BY <1>1, <1>2, <2>1, <2>2 DEF BytesInv
<1>3. ASSUME NEW n \in 0 .. MaxSize, Store(n) PROVE BytesInv'
  <2>1. \A f \in stored' : Kept(f)
    <3>1. PICK c \in CipherTexts(n) :
             stored' = {[size |-> n, cipher |-> c, pieces |-> Split(Streamed(n, c)),
                         key |-> key, iv |-> iv, run |-> runs, read |-> made # runs]}
      BY <1>3 DEF Store
    <3>2. /\ pc = "running" /\ UNCHANGED <<vars, made>>
          /\ KeysInv
      BY <1>3 DEF Store, BytesInv
    <3> SUFFICES ASSUME NEW f \in stored' PROVE Kept(f)
      OBVIOUS
    <3>3. /\ f.size = n /\ f.cipher = c /\ f.pieces = Split(Streamed(n, c))
          /\ f.key = key /\ f.iv = iv /\ f.run = runs
      BY <3>1
    <3>4. /\ Readable(keyFile) /\ key = KeyOf(keyFile)
          /\ runs \in Nat /\ made \in Nat /\ made <= runs
          /\ made # runs => iv = IvOf(keyFile)
      BY <3>2 DEF KeysInv
    <3>5. f.read <=> made # runs
      <4>1. f.read = (made # runs)
        BY <3>1
      <4> QED  BY <4>1, Zenon
    <3> QED  BY <3>2, <3>3, <3>4, <3>5 DEF Kept
  <2>2. \A f \in stored' : Kept(f)'
    BY <1>3, <2>1 DEF Store, vars, Kept
  <2>3. ComesBack'
    BY <1>3, <2>1, KeptReturns DEF Store, BytesInv, ComesBack
  <2>4. DamageIsBounded'
    BY <1>3 DEF Store, BytesInv, DamageIsBounded
  <2> QED  BY <1>1, <2>2, <2>3, <2>4 DEF BytesInv
<1>4. ASSUME NEW f \in stored, Retrieve(f) PROVE BytesInv'
  <2>1. \A g \in stored' : Kept(g)'
    BY <1>4 DEF Retrieve, vars, Kept, BytesInv
  <2>2. ComesBack' /\ DamageIsBounded'
    BY <1>4, RetrieveStep
  <2> QED  BY <1>1, <2>1, <2>2 DEF BytesInv
<1>5. CASE UNCHANGED fileVars
  BY <1>1, <1>5 DEF fileVars, vars, BytesInv, Kept, ComesBack, DamageIsBounded
<1> QED  BY <1>2, <1>3, <1>4, <1>5 DEF FilesNext

(***************************************************************************)
(* ComesBack and DamageIsBounded, for pieces, blocks, keys and files of    *)
(* any size, any cipher text, and any runs in between, whatever of them    *)
(* ends in the middle of crypto_init or create_new_id.                     *)
(***************************************************************************)
THEOREM FilesComeBack == FilesSpec => []ComesBack
<1>1. FilesInit => BytesInv
  BY DEF FilesInit, Init, BytesInv, FilesInv, KeysInv, PCs, ComesBack, DamageIsBounded
<1>2. BytesInv => ComesBack
  BY DEF BytesInv
<1> QED  BY <1>1, <1>2, BytesInvStep, PTL DEF FilesSpec

\* store, retrieve, encrypt and decrypt: what is lost is at the end, what is wrong
\* is in the first block.
THEOREM DamageStaysBounded == FilesSpec => []DamageIsBounded
<1>1. FilesInit => BytesInv
  BY DEF FilesInit, Init, BytesInv, FilesInv, KeysInv, PCs, ComesBack, DamageIsBounded
<1>2. BytesInv => DamageIsBounded
  BY DEF BytesInv
<1> QED  BY <1>1, <1>2, BytesInvStep, PTL DEF FilesSpec

=============================================================================
