--------------------------- MODULE ByteFileProofs ---------------------------
(***************************************************************************)
(* Safety of ByteFile, for any size of chunks and of integers and requests *)
(* of any length: what copy does with a request, and that nothing written  *)
(* is lost but by the mishaps ByteFile names.                              *)
(***************************************************************************)
EXTENDS ByteFile, FiniteSetTheorems, WellFoundedInduction, TLAPS

-----------------------------------------------------------------------------
(***************************************************************************)
(* Division, and the least element of a set of numbers, which stands for   *)
(* induction.                                                              *)
(***************************************************************************)
LEMMA Division ==
  ASSUME NEW a \in Nat
  PROVE  /\ a \div ChunkSize \in Nat /\ a % ChunkSize \in 0..(ChunkSize - 1)
         /\ a = (a \div ChunkSize) * ChunkSize + (a % ChunkSize)
BY ByteFileAssumption

LEMMA Quotient ==
  ASSUME NEW q \in Nat, NEW a \in Nat, q * ChunkSize <= a, a < (q + 1) * ChunkSize
  PROVE  a \div ChunkSize = q /\ a % ChunkSize = a - q * ChunkSize
BY ByteFileAssumption

LEMMA QuotientGrows ==
  ASSUME NEW a \in Nat, NEW b \in Nat, a <= b
  PROVE  a \div ChunkSize <= b \div ChunkSize
BY ByteFileAssumption

LEMMA LessThan == \A x, y \in Nat : <<y, x>> \in OpToRel(<, Nat) <=> y < x
BY DEF OpToRel

LEMMA LessIsWellFounded ==
  \E R : IsWellFoundedOn(R, Nat) /\ \A x, y \in Nat : <<y, x>> \in R <=> y < x
BY NatLessThanWellFounded, LessThan, Zenon

LEMMA LeastElement ==
  ASSUME NEW T, T \subseteq Nat, T # {}
  PROVE  \E x \in T : \A y \in T : x <= y
<1>1. PICK R : IsWellFoundedOn(R, Nat) /\ \A x, y \in Nat : <<y, x>> \in R <=> y < x
  BY LessIsWellFounded
<1>2. \E x \in T : \A y \in T : <<y, x>> \notin R
  BY <1>1, WFMin, Zenon
<1>3. \A x, y \in T : <<y, x>> \notin R => x <= y
  BY <1>1
<1>. QED BY <1>2, <1>3

-----------------------------------------------------------------------------
(***************************************************************************)
(* copy.  A request of more than CHUNK_SIZE bytes is cut at the chunks'    *)
(* ends; of one of at most CHUNK_SIZE bytes everything goes to the first   *)
(* chunk.                                                                  *)
(***************************************************************************)
From(off, n, k) ==
  IF k = FirstChunk(off) THEN 0 ELSE IF n <= ChunkSize THEN n ELSE k * ChunkSize - off

LEMMA ChunksTouched ==
  ASSUME NEW off \in Nat, NEW n \in Nat
  PROVE  /\ FirstChunk(off) \in Nat /\ LastChunk(off, n) \in Nat
         /\ FirstChunk(off) <= LastChunk(off, n)
         /\ FirstChunk(off) * ChunkSize <= off /\ off < (FirstChunk(off) + 1) * ChunkSize
         /\ LastChunk(off, n) * ChunkSize <= off + n
         /\ off + n < (LastChunk(off, n) + 1) * ChunkSize
         /\ off % ChunkSize = off - FirstChunk(off) * ChunkSize
         /\ Touched(off, n) = FirstChunk(off)..LastChunk(off, n)
         /\ Touched(off, n) \subseteq Nat
<1>1. off + n \in Nat /\ off <= off + n
  OBVIOUS
<1>2. FirstChunk(off) <= LastChunk(off, n)
  BY <1>1, QuotientGrows DEF FirstChunk, LastChunk
<1>3. ASSUME NEW a \in Nat
      PROVE  /\ a \div ChunkSize \in Nat /\ (a \div ChunkSize) * ChunkSize <= a
             /\ a < (a \div ChunkSize + 1) * ChunkSize
             /\ a % ChunkSize = a - (a \div ChunkSize) * ChunkSize
  <2>. DEFINE q == a \div ChunkSize
              r == a % ChunkSize
  <2>1. q \in Nat /\ r \in 0..(ChunkSize - 1) /\ a = q * ChunkSize + r
    BY Division
  <2>. HIDE DEF q, r
  <2>2. q * ChunkSize \in Nat /\ (q + 1) * ChunkSize = q * ChunkSize + ChunkSize
    BY <2>1, ByteFileAssumption
  <2>3. q \in Nat /\ q * ChunkSize <= a /\ a < (q + 1) * ChunkSize /\ r = a - q * ChunkSize
    BY <2>1, <2>2, ByteFileAssumption
  <2>. QED BY <2>3 DEF q, r
<1>. QED BY <1>1, <1>2, <1>3 DEF FirstChunk, LastChunk, Touched

LEMMA Multiples ==
  ASSUME NEW k \in Nat
  PROVE  k * ChunkSize \in Nat /\ ChunkSize \in Nat /\ (k + 1) * ChunkSize = k * ChunkSize + ChunkSize
BY ByteFileAssumption

LEMMA DeltaIs ==
  ASSUME NEW off \in Nat, NEW n \in Nat, NEW k \in Touched(off, n)
  PROVE  Delta(off, n, k, From(off, n, k)) =
           IF n <= ChunkSize THEN IF k = FirstChunk(off) THEN n ELSE 0
           ELSE ChunkSize - ChunkStart(off, k)
<1>. DEFINE fc == FirstChunk(off)
            x  == k * ChunkSize
<1>1. fc \in Nat /\ k \in Nat /\ x \in Nat /\ ChunkSize \in Nat /\ off % ChunkSize \in Nat
  <2>1. fc \in Nat /\ k \in Nat
    BY ChunksTouched
  <2>2. off % ChunkSize \in 0..(ChunkSize - 1)
    BY Division
  <2>. QED BY <2>1, <2>2, Multiples
<1>. HIDE DEF fc, x
<1>2. From(off, n, k) = IF k = fc THEN 0 ELSE IF n <= ChunkSize THEN n ELSE x - off
  BY DEF From, fc, x
<1>. DEFINE fr == From(off, n, k)
            st == ChunkStart(off, k)
<1>3. fr \in Int /\ st \in Nat
  BY <1>1, <1>2 DEF ChunkStart
<1>4. Delta(off, n, k, fr) = (IF fr + (n - fr) > ChunkSize THEN ChunkSize ELSE st + (n - fr)) - st
  BY DEF Delta
<1>. HIDE DEF fr, st
<1>5. fr + (n - fr) = n
  BY <1>3
<1>6. fr = IF k = fc THEN 0 ELSE IF n <= ChunkSize THEN n ELSE x - off
  BY <1>2 DEF fr
<1>7. Delta(off, n, k, fr) = IF n <= ChunkSize THEN IF k = fc THEN n ELSE 0 ELSE ChunkSize - st
  BY <1>1, <1>3, <1>4, <1>5, <1>6
<1>. QED BY <1>7 DEF fr, st, fc

LEMMA Neighbours ==
  ASSUME NEW off \in Nat, NEW n \in Nat, NEW k \in Touched(off, n), k # FirstChunk(off)
  PROVE  /\ FirstChunk(off) \in Nat /\ k \in Nat
         /\ k - 1 \in Touched(off, n) /\ k - 1 \in Nat /\ k - 1 < k
<1>. DEFINE fc == FirstChunk(off)
            lc == LastChunk(off, n)
<1>1. fc \in Nat /\ lc \in Nat /\ Touched(off, n) = fc..lc
  BY ChunksTouched
<1>. HIDE DEF fc, lc
<1>2. k \in fc..lc /\ k # fc
  BY <1>1 DEF fc
<1>. QED BY <1>1, <1>2 DEF fc

LEMMA FromUnfolds ==
  ASSUME NEW off \in Nat, NEW n \in Nat, NEW k \in Touched(off, n), k # FirstChunk(off)
  PROVE  /\ k - 1 \in Touched(off, n)
         /\ From(off, n, k) = From(off, n, k - 1) + Delta(off, n, k - 1, From(off, n, k - 1))
<1>. DEFINE fc == FirstChunk(off)
            y  == (k - 1) * ChunkSize
<1>1. /\ fc \in Nat /\ k \in Nat /\ k - 1 \in Touched(off, n) /\ k - 1 \in Nat
      /\ y \in Nat /\ k * ChunkSize = y + ChunkSize
      /\ off % ChunkSize = off - fc * ChunkSize /\ ChunkSize \in Nat
      /\ fc * ChunkSize \in Nat
  <2>1. off % ChunkSize = off - fc * ChunkSize
    BY ChunksTouched
  <2>2. fc \in Nat /\ k \in Nat /\ k - 1 \in Touched(off, n) /\ k - 1 \in Nat /\ (k - 1) + 1 = k
    BY Neighbours
  <2>. QED BY <2>1, <2>2, Multiples
<1>2. Delta(off, n, k - 1, From(off, n, k - 1)) =
        IF n <= ChunkSize THEN IF k - 1 = fc THEN n ELSE 0
        ELSE ChunkSize - ChunkStart(off, k - 1)
  BY <1>1, DeltaIs
<1>3. ChunkStart(off, k - 1) = IF k - 1 = fc THEN off - y ELSE 0
  BY <1>1 DEF ChunkStart
<1>4. /\ From(off, n, k - 1) = IF k - 1 = fc THEN 0 ELSE IF n <= ChunkSize THEN n ELSE y - off
      /\ From(off, n, k) = IF n <= ChunkSize THEN n ELSE y + ChunkSize - off
  BY <1>1 DEF From
<1>. HIDE DEF fc, y
<1>5. From(off, n, k) = From(off, n, k - 1) + Delta(off, n, k - 1, From(off, n, k - 1))
  BY <1>1, <1>2, <1>3, <1>4
<1>. QED BY <1>1, <1>5

(***************************************************************************)
(* The loop of copy has run through k - 1 chunks when it comes to chunk k. *)
(***************************************************************************)
LEMMA BufferStartUnfolds ==
  ASSUME NEW off \in Nat, NEW n \in Nat
  PROVE  BufferStart(off, n) =
           [k \in Touched(off, n) |->
              IF k = FirstChunk(off) THEN 0
              ELSE BufferStart(off, n)[k - 1] + Delta(off, n, k - 1, BufferStart(off, n)[k - 1])]
<1>. DEFINE S == Touched(off, n)
            f == [k \in S |-> From(off, n, k)]
            Unfold(g) == [k \in S |-> IF k = FirstChunk(off) THEN 0
                                      ELSE g[k - 1] + Delta(off, n, k - 1, g[k - 1])]
<1>1. ASSUME NEW k \in S, k # FirstChunk(off)
      PROVE  /\ k - 1 \in S
             /\ From(off, n, k) = From(off, n, k - 1) + Delta(off, n, k - 1, From(off, n, k - 1))
  BY <1>1, FromUnfolds
<1>2. f = Unfold(f)
  <2>1. ASSUME NEW k \in S
        PROVE  From(off, n, k) = IF k = FirstChunk(off) THEN 0
                                 ELSE f[k - 1] + Delta(off, n, k - 1, f[k - 1])
    <3>1. CASE k = FirstChunk(off)
      BY <3>1 DEF From
    <3>2. CASE k # FirstChunk(off)
      <4>1. k - 1 \in S /\ f[k - 1] = From(off, n, k - 1)
        BY <3>2, <1>1
      <4>. QED BY <3>2, <4>1, <1>1
    <3>. QED BY <3>1, <3>2
  <2>. QED BY <2>1, Zenon
<1>3. BufferStart(off, n) = CHOOSE g : g = Unfold(g)
  BY DEF BufferStart
<1>. HIDE DEF f, Unfold
<1>4. BufferStart(off, n) = Unfold(BufferStart(off, n))
  BY <1>2, <1>3, Zenon
<1>. QED BY <1>4 DEF Unfold

LEMMA BufferStartIs ==
  ASSUME NEW off \in Nat, NEW n \in Nat, NEW k \in Touched(off, n)
  PROVE  BufferStart(off, n)[k] = From(off, n, k)
<1>. DEFINE b == BufferStart(off, n)
            Wrong == {i \in Touched(off, n) : b[i] # From(off, n, i)}
<1>1. \A i \in Touched(off, n) :
        b[i] = IF i = FirstChunk(off) THEN 0 ELSE b[i - 1] + Delta(off, n, i - 1, b[i - 1])
  BY BufferStartUnfolds
<1>. HIDE DEF b
<1>2. ASSUME NEW i \in Wrong, \A j \in Wrong : i <= j
      PROVE  FALSE
  <2>1. /\ i \in Touched(off, n) /\ b[i] # From(off, n, i) /\ i \in Nat
        /\ FirstChunk(off) \in Nat
    <3>1. i \in Touched(off, n)
      BY <1>2
    <3>. QED BY <1>2, <3>1, ChunksTouched
  <2>2. i # FirstChunk(off)
    <3>1. i = FirstChunk(off) => b[i] = 0 /\ From(off, n, i) = 0
      BY <1>1, <2>1 DEF From
    <3>. QED BY <2>1, <3>1
  <2>3. i - 1 \in Touched(off, n) /\ i - 1 < i /\ i - 1 \in Nat
    BY <2>1, <2>2, Neighbours
  <2>4. b[i - 1] = From(off, n, i - 1)
    BY <1>2, <2>1, <2>3
  <2>5. b[i] = From(off, n, i - 1) + Delta(off, n, i - 1, From(off, n, i - 1))
    BY <1>1, <2>1, <2>2, <2>4
  <2>. QED BY <2>1, <2>2, <2>5, FromUnfolds
<1>3. Wrong \subseteq Nat
  <2>1. Touched(off, n) \subseteq Nat
    BY ChunksTouched
  <2>. QED BY <2>1
<1>4. Wrong = {}
  BY <1>2, <1>3, LeastElement, Zenon
<1>. QED BY <1>4 DEF b

-----------------------------------------------------------------------------
(***************************************************************************)
(* Positions of the file and the chunks they lie in.                       *)
(***************************************************************************)
LEMMA Ordered ==
  ASSUME NEW a \in Nat, NEW b \in Nat, a < b
  PROVE  (a + 1) * ChunkSize <= b * ChunkSize
<1>1. b - (a + 1) \in Nat /\ a + 1 \in Nat
  OBVIOUS
<1>2. (b - (a + 1)) * ChunkSize \in Nat
  BY <1>1, Multiples
<1>3. b * ChunkSize = (b - (a + 1)) * ChunkSize + (a + 1) * ChunkSize
  BY ByteFileAssumption
<1>. QED BY <1>1, <1>2, <1>3, Multiples

LEMMA PositionsAre ==
  ASSUME NEW k \in Nat, NEW p \in Nat
  PROVE  /\ p \in Positions(k) <=> p \div ChunkSize = k
         /\ p \in Positions(k) => p % ChunkSize = p - k * ChunkSize
<1>. DEFINE x == k * ChunkSize
            z == (k + 1) * ChunkSize
            q == p \div ChunkSize
<1>1. x \in Nat /\ z = x + ChunkSize /\ ChunkSize \in Nat
  BY Multiples
<1>2. p \in Positions(k) <=> x <= p /\ p < z
  <2>1. Positions(k) = x..(z - 1)
    BY DEF Positions
  <2>. HIDE DEF x, z
  <2>. QED BY <1>1, <2>1
<1>3. x <= p /\ p < z => q = k /\ p % ChunkSize = p - x
  BY Quotient
<1>4. q = k => x <= p /\ p < z
  <2>1. q \in Nat /\ p % ChunkSize \in 0..(ChunkSize - 1) /\ p = q * ChunkSize + (p % ChunkSize)
    BY Division
  <2>2. q = k => p = x + (p % ChunkSize)
    BY <2>1
  <2>. HIDE DEF x, z, q
  <2>. QED BY <1>1, <2>1, <2>2
<1>. QED BY <1>2, <1>3, <1>4 DEF x, q

-----------------------------------------------------------------------------
(***************************************************************************)
(* Data of chunks.                                                         *)
(***************************************************************************)
LEMMA DataOfLength ==
  ASSUME NEW d, NEW n \in Nat, DOMAIN d = 0..(n - 1)
  PROVE  IsData(d) /\ Length(d) = n
<1>1. Cardinality(0..(n - 1)) = IF 0 > n - 1 THEN 0 ELSE n - 1 - 0 + 1
  BY FS_Interval
<1>. QED BY <1>1 DEF IsData, Length

LEMMA EmptyData == DOMAIN Empty = {} /\ IsData(Empty) /\ Length(Empty) = 0
<1>1. DOMAIN Empty = {} /\ DOMAIN Empty = 0..(0 - 1)
  BY DEF Empty
<1>. QED BY <1>1, DataOfLength

LEMMA Resized ==
  ASSUME NEW d, NEW n \in Nat
  PROVE  /\ IsData(ResizeTo(d, n)) /\ DOMAIN ResizeTo(d, n) = 0..(n - 1)
         /\ \A j \in 0..(n - 1) : j \in DOMAIN d => ResizeTo(d, n)[j] = d[j]
<1>1. DOMAIN ResizeTo(d, n) = 0..(n - 1)
  BY DEF ResizeTo
<1>. QED BY <1>1, DataOfLength DEF ResizeTo, Byte

LEMMA Overlaid ==
  ASSUME NEW d, IsData(d), NEW p, p.start \in Nat, p.delta \in Nat, NEW w, NEW n
  PROVE  /\ IsData(Overlay(d, p, w, n))
         /\ Length(Overlay(d, p, w, n)) >= p.start + p.delta
         /\ Length(Overlay(d, p, w, n)) >= Length(d)
         /\ \A j \in p.start..(p.start + p.delta - 1) :
              /\ j \in DOMAIN Overlay(d, p, w, n)
              /\ p.from + j - p.start < n => Overlay(d, p, w, n)[j] = <<w, p.from + j - p.start>>
         /\ \A j \in DOMAIN d \ (p.start..(p.start + p.delta - 1)) :
              /\ j \in DOMAIN Overlay(d, p, w, n)
              /\ Overlay(d, p, w, n)[j] = d[j]
<1>. DEFINE end == p.start + p.delta
            len == IF Length(d) < end THEN end ELSE Length(d)
            new == Overlay(d, p, w, n)
            From1(j) == p.from + j - p.start
<1>1. new = [j \in 0..(len - 1) |->
               IF j \in p.start..(end - 1)
               THEN IF From1(j) < n THEN <<w, From1(j)>> ELSE Junk
               ELSE Byte(d, j)]
  BY DEF Overlay
<1>2. /\ Length(d) \in Nat /\ DOMAIN d = 0..(Length(d) - 1) /\ end \in Nat /\ len \in Nat
      /\ len >= end /\ len >= Length(d)
  BY DEF IsData
<1>. HIDE DEF len, new
<1>3. DOMAIN new = 0..(len - 1)
  BY <1>1
<1>4. IsData(new) /\ Length(new) = len
  BY <1>2, <1>3, DataOfLength
<1>5. ASSUME NEW j \in p.start..(end - 1)
      PROVE  j \in DOMAIN new /\ (From1(j) < n => new[j] = <<w, From1(j)>>)
  <2>1. j \in 0..(len - 1)
    BY <1>2
  <2>. QED BY <1>1, <1>3, <2>1
<1>6. ASSUME NEW j \in DOMAIN d \ (p.start..(end - 1))
      PROVE  j \in DOMAIN new /\ new[j] = d[j]
  <2>1. j \in 0..(len - 1)
    BY <1>2
  <2>. QED BY <1>1, <1>3, <2>1 DEF Byte
<1>7. IsData(new) /\ Length(new) >= end /\ Length(new) >= Length(d)
  BY <1>2, <1>4
<1>8. /\ \A j \in p.start..(end - 1) :
           j \in DOMAIN new /\ (From1(j) < n => new[j] = <<w, From1(j)>>)
      /\ \A j \in DOMAIN d \ (p.start..(end - 1)) : j \in DOMAIN new /\ new[j] = d[j]
  BY <1>5, <1>6, Zenon
<1>. QED BY <1>7, <1>8 DEF new

-----------------------------------------------------------------------------
(***************************************************************************)
(* What one request does to one chunk.                                     *)
(***************************************************************************)
LEMMA PieceIs ==
  ASSUME NEW off \in Nat, NEW n \in Nat, NEW k \in Touched(off, n)
  PROVE  /\ Piece(off, n, k).start = IF k = FirstChunk(off) THEN off - k * ChunkSize ELSE 0
         /\ Piece(off, n, k).from = From(off, n, k)
         /\ Piece(off, n, k).delta = IF n <= ChunkSize THEN IF k = FirstChunk(off) THEN n ELSE 0
                                     ELSE ChunkSize - Piece(off, n, k).start
         /\ Piece(off, n, k).start \in 0..(ChunkSize - 1) /\ Piece(off, n, k).delta \in Nat
<1>1. Piece(off, n, k) = [start |-> ChunkStart(off, k), from |-> From(off, n, k),
                          delta |-> Delta(off, n, k, From(off, n, k))]
  BY BufferStartIs DEF Piece
<1>2. /\ Piece(off, n, k).start = ChunkStart(off, k) /\ Piece(off, n, k).from = From(off, n, k)
      /\ Piece(off, n, k).delta = Delta(off, n, k, From(off, n, k))
  BY <1>1
<1>3. ChunkStart(off, k) = IF k = FirstChunk(off) THEN off - k * ChunkSize ELSE 0
  <2>1. off % ChunkSize = off - FirstChunk(off) * ChunkSize
    BY ChunksTouched
  <2>. QED BY <2>1 DEF ChunkStart
<1>4. ChunkStart(off, k) \in 0..(ChunkSize - 1) /\ ChunkSize \in Nat
  <2>1. off % ChunkSize \in 0..(ChunkSize - 1)
    BY Division
  <2>. QED BY <2>1, ByteFileAssumption DEF ChunkStart
<1>5. Delta(off, n, k, From(off, n, k)) =
        IF n <= ChunkSize THEN IF k = FirstChunk(off) THEN n ELSE 0
        ELSE ChunkSize - ChunkStart(off, k)
  BY DeltaIs
<1>. QED BY <1>2, <1>3, <1>4, <1>5

LEMMA ChunkOrder ==
  ASSUME NEW off \in Nat, NEW n \in Nat, NEW k \in Touched(off, n)
  PROVE  /\ k \in Nat /\ k * ChunkSize \in Nat /\ ChunkSize \in Nat \ {0}
         /\ k = FirstChunk(off) => k * ChunkSize <= off /\ off < k * ChunkSize + ChunkSize
         /\ k # FirstChunk(off) => off < k * ChunkSize
         /\ k = LastChunk(off, n) => off + n < k * ChunkSize + ChunkSize
         /\ k # LastChunk(off, n) => k * ChunkSize + ChunkSize <= off + n
         /\ k * ChunkSize <= off + n
<1>. DEFINE fc == FirstChunk(off)
            lc == LastChunk(off, n)
<1>1. /\ fc \in Nat /\ lc \in Nat /\ Touched(off, n) = fc..lc
      /\ fc * ChunkSize <= off /\ off < (fc + 1) * ChunkSize
      /\ lc * ChunkSize <= off + n /\ off + n < (lc + 1) * ChunkSize
  BY ChunksTouched
<1>. HIDE DEF fc, lc
<1>2. k \in fc..lc /\ k \in Nat
  <2>1. k \in fc..lc
    BY <1>1
  <2>. QED BY <1>1, <2>1
<1>3. /\ \A i \in Nat : i * ChunkSize \in Nat /\ (i + 1) * ChunkSize = i * ChunkSize + ChunkSize
      /\ ChunkSize \in Nat \ {0}
  BY Multiples, ByteFileAssumption
<1>4. k = fc \/ (fc + 1) * ChunkSize <= k * ChunkSize
  BY <1>1, <1>2, Ordered
<1>5. k = lc \/ (k + 1) * ChunkSize <= lc * ChunkSize
  BY <1>1, <1>2, Ordered
<1>. DEFINE x == k * ChunkSize
            y == fc * ChunkSize
            z == lc * ChunkSize
<1>6. /\ x \in Nat /\ y \in Nat /\ z \in Nat /\ y <= off /\ off < y + ChunkSize
      /\ z <= off + n /\ off + n < z + ChunkSize
      /\ k = fc \/ y + ChunkSize <= x
      /\ k = lc \/ x + ChunkSize <= z
      /\ k = fc => x = y
      /\ k = lc => x = z
  BY <1>1, <1>2, <1>3, <1>4, <1>5
<1>. HIDE DEF x, y, z
<1>7. /\ k = fc => x <= off /\ off < x + ChunkSize
      /\ k # fc => off < x
      /\ k = lc => off + n < x + ChunkSize
      /\ k # lc => x + ChunkSize <= off + n
      /\ x <= off + n
  BY <1>3, <1>6
<1>. QED BY <1>2, <1>3, <1>6, <1>7 DEF x, fc, lc

(***************************************************************************)
(* copy and write_to_chunk: in every chunk a request touches, the bytes of *)
(* the request are put where they belong and the others stay, but for what *)
(* Crossing and Overrun name.                                              *)
(***************************************************************************)
THEOREM CopyIsExact ==
  ASSUME NEW off \in Nat, NEW n \in Nat, NEW k \in Touched(off, n), NEW d, IsData(d), NEW w,
         NEW p \in Positions(k)
  PROVE  LET new == Overlay(d, Piece(off, n, k), w, n)
         IN  /\ IsData(new)
             /\ p \in Request(off, n) \ Crossing(off, n) =>
                  p % ChunkSize \in DOMAIN new /\ new[p % ChunkSize] = <<w, p - off>>
             /\ p \notin Request(off, n) \cup Overrun(off, n) /\ p % ChunkSize \in DOMAIN d =>
                  p % ChunkSize \in DOMAIN new /\ new[p % ChunkSize] = d[p % ChunkSize]
<1>. DEFINE pc  == Piece(off, n, k)
            new == Overlay(d, pc, w, n)
            x   == k * ChunkSize
            fc  == FirstChunk(off)
            lc  == LastChunk(off, n)
            j   == p % ChunkSize
<1>1. /\ k \in Nat /\ x \in Nat /\ ChunkSize \in Nat \ {0}
      /\ k = fc => x <= off /\ off < x + ChunkSize
      /\ k # fc => off < x
      /\ k # lc => x + ChunkSize <= off + n
      /\ x <= off + n
  BY ChunkOrder
<1>2. p \in Nat /\ x <= p /\ p < x + ChunkSize /\ j = p - x
  <2>. DEFINE z == (k + 1) * ChunkSize
  <2>1. z = x + ChunkSize
    BY <1>1, Multiples
  <2>2. p \in x..(z - 1)
    BY DEF Positions
  <2>. HIDE DEF z
  <2>. HIDE DEF x
  <2>3. p \in Nat /\ x <= p /\ p < x + ChunkSize
    BY <1>1, <2>1, <2>2
  <2>. QED BY <1>1, <2>3, PositionsAre DEF x
<1>3. /\ pc.start = IF k = fc THEN off - x ELSE 0
      /\ pc.from = From(off, n, k)
      /\ pc.delta = IF n <= ChunkSize THEN IF k = fc THEN n ELSE 0 ELSE ChunkSize - pc.start
      /\ pc.start \in 0..(ChunkSize - 1) /\ pc.delta \in Nat
  BY PieceIs
<1>4. pc.from = IF k = fc THEN 0 ELSE IF n <= ChunkSize THEN n ELSE x - off
  BY <1>3 DEF From
<1>5. p \in Request(off, n) <=> off <= p /\ p < off + n
  BY <1>2 DEF Request
<1>6. n <= ChunkSize /\ k # fc /\ p \in Request(off, n) => p \in Crossing(off, n)
  <2>1. fc \in Nat
    BY ChunksTouched
  <2>2. k # fc => p \notin Positions(fc)
    BY <1>1, <1>2, <2>1, PositionsAre
  <2>. QED BY <2>2 DEF Crossing
<1>7. n > ChunkSize /\ k = lc /\ p \notin Request(off, n) => p \in Overrun(off, n)
  BY DEF Overrun
<1>. HIDE DEF pc, new, x, fc, lc, j
<1>8. pc.start \in Nat /\ pc.delta \in Nat
  BY <1>1, <1>3
<1>9. /\ IsData(new)
      /\ \A i \in pc.start..(pc.start + pc.delta - 1) :
           i \in DOMAIN new /\ (pc.from + i - pc.start < n => new[i] = <<w, pc.from + i - pc.start>>)
      /\ \A i \in DOMAIN d \ (pc.start..(pc.start + pc.delta - 1)) :
           i \in DOMAIN new /\ new[i] = d[i]
  BY <1>8, Overlaid DEF new
<1>10. ASSUME p \in Request(off, n) \ Crossing(off, n)
       PROVE  j \in DOMAIN new /\ new[j] = <<w, p - off>>
  <2>1. k = fc \/ n > ChunkSize
    BY <1>1, <1>6, <1>10
  <2>2. j \in pc.start..(pc.start + pc.delta - 1) /\ pc.from + j - pc.start = p - off
    BY <1>1, <1>2, <1>3, <1>4, <1>5, <1>10, <2>1
  <2>3. pc.from + j - pc.start < n
    BY <1>2, <1>5, <1>10, <2>2
  <2>. QED BY <1>9, <2>2, <2>3
<1>11. ASSUME p \notin Request(off, n) \cup Overrun(off, n), j \in DOMAIN d
       PROVE  j \in DOMAIN new /\ new[j] = d[j]
  <2>1. n > ChunkSize => k # lc
    BY <1>7, <1>11
  <2>2. j \notin pc.start..(pc.start + pc.delta - 1)
    BY <1>1, <1>2, <1>3, <1>5, <1>11, <2>1
  <2>. QED BY <1>9, <1>11, <2>2
<1>. QED BY <1>9, <1>10, <1>11 DEF new, pc, j

\* The conclusion of CopyIsExact under a name, so that a proof can cite one
\* instance of it.
Copied(off, n, k, d, w, p) ==
  LET new == Overlay(d, Piece(off, n, k), w, n)
      j   == p % ChunkSize
  IN  /\ IsData(new)
      /\ p \in Request(off, n) \ Crossing(off, n) => j \in DOMAIN new /\ new[j] = <<w, p - off>>
      /\ p \notin Request(off, n) \cup Overrun(off, n) /\ j \in DOMAIN d =>
           j \in DOMAIN new /\ new[j] = d[j]

LEMMA CopyAt ==
  ASSUME NEW off \in Nat, NEW n \in Nat
  PROVE  \A k \in Touched(off, n) : \A d, w : \A p \in Positions(k) :
           IsData(d) => Copied(off, n, k, d, w, p)
BY CopyIsExact DEF Copied

-----------------------------------------------------------------------------
(***************************************************************************)
(* Types.                                                                  *)
(***************************************************************************)
LEMMA EndPointerIs ==
  ASSUME NEW off \in Nat, NEW n \in Nat
  PROVE  /\ EndPointer(off, n) \in Int /\ EndPointer(off, n) < IntSize
         /\ EndPointer(off, n) <= off + n
         /\ off + n < IntSize => EndPointer(off, n) = off + n
<1>. DEFINE a == off + n + IntSize
            b == 2 * IntSize
            r == a % b
<1>1. a \in Nat /\ b \in Nat /\ b > 0 /\ IntSize \in Nat /\ b = IntSize + IntSize
      /\ a = off + n + IntSize
  BY ByteFileAssumption
<1>2. EndPointer(off, n) = r - IntSize
  BY DEF EndPointer
<1>. HIDE DEF a, b
<1>3. r \in 0..(b - 1) /\ r <= a /\ (a < b => r = a)
  BY <1>1
<1>. HIDE DEF r
<1>. QED BY <1>1, <1>2, <1>3

LEMMA SizeGrows ==
  ASSUME NEW off \in Nat, NEW n \in Nat, size \in Nat, size < IntSize + MaxEnd
  PROVE  /\ NewSize(off, n) \in Nat /\ NewSize(off, n) < IntSize + MaxEnd
         /\ NewSize(off, n) >= size
         /\ NewSize(off, n) = size \/ NewSize(off, n) <= off + n
         /\ off + n < IntSize => NewSize(off, n) >= off + n
<1>. DEFINE e == EndPointer(off, n)
<1>1. e \in Int /\ e < IntSize /\ e <= off + n /\ (off + n < IntSize => e = off + n)
  BY EndPointerIs
<1>2. NewSize(off, n) = IF size < e THEN e ELSE size
  BY DEF NewSize
<1>. HIDE DEF e
<1>. QED BY <1>1, <1>2, ByteFileAssumption

LEMMA CallType ==
  ASSUME TypeOK, Call
  PROVE  calls' \in 0..MaxCalls
BY ByteFileAssumption DEF TypeOK, Call

LEMMA TypeStep == TypeOK /\ [Next]_vars => TypeOK'
<1>. SUFFICES ASSUME TypeOK, [Next]_vars
              PROVE  TypeOK'
  OBVIOUS
<1>. USE ByteFileAssumption
<1>1. ASSUME NEW off \in 0..(MaxEnd - 1), NEW n \in 1..(MaxEnd - off), Write(off, n)
      PROVE  TypeOK'
  <2>1. off \in Nat /\ n \in Nat /\ Touched(off, n) \subseteq Nat
    BY ChunksTouched
  <2>2. /\ DOMAIN cached' = DOMAIN cached \cup Touched(off, n)
        /\ dirty' = dirty \cup Touched(off, n) /\ index' = index \cup Touched(off, n)
        /\ DOMAIN file' = DOMAIN file \cup Request(off, n)
        /\ size' = NewSize(off, n)
        /\ plain' = (plain /\ Plain(off, n) /\ off <= size)
        /\ UNCHANGED <<remote, filling, loaded, down>>
    BY <1>1 DEF Write
  <2>3. size' \in Nat /\ size' < IntSize + MaxEnd
    BY <2>1, <2>2, SizeGrows DEF TypeOK
  <2>4. \A p \in DOMAIN file' : p \in 0..MaxEnd
    BY <2>1, <2>2 DEF TypeOK, Request
  <2>5. calls' \in 0..MaxCalls
    BY <1>1, CallType DEF Write
  <2>6. down' \in BOOLEAN /\ plain' \in BOOLEAN
    BY <2>2, Zenon DEF TypeOK
  <2>. QED BY <2>1, <2>2, <2>3, <2>4, <2>5, <2>6 DEF TypeOK
<1>2. ASSUME NEW off \in 0..(MaxEnd - 1), NEW m \in 1..(MaxEnd - off), Read(off, m)
      PROVE  TypeOK'
  <2>. DEFINE n  == IF off + m > size THEN size - off ELSE m
              ks == Touched(off, n)
  <2>1. n \in Nat /\ off \in Nat
    BY <1>2 DEF Read, TypeOK
  <2>2. PICK came : Load(ks, came)
    BY <1>2 DEF Read
  <2>3. /\ down' = (\/ Missing(ks) # {}
                    \/ \E k \in ks : Length(cached'[k]) < Piece(off, n, k).delta)
        /\ plain' = (plain /\ Plain(off, n) /\ filling' = {})
        /\ UNCHANGED <<dirty, index, remote, size, file, spoilt>>
    BY <1>2 DEF Read
  <2>4. ks \subseteq Nat
    BY <2>1, ChunksTouched
  <2>5. calls' \in 0..MaxCalls
    BY <1>2, CallType DEF Read
  <2>. HIDE DEF n, ks
  <2>6. /\ DOMAIN cached' = DOMAIN cached \cup ToLoad(ks)
        /\ filling' = filling \cup (ToLoad(ks) \ came) /\ loaded' = loaded \cup ToLoad(ks)
    BY <2>2 DEF Load
  <2>7. down' \in BOOLEAN /\ plain' \in BOOLEAN
    BY <2>3, Zenon DEF TypeOK
  <2>8. ToLoad(ks) \subseteq Nat
    BY <2>4 DEF ToLoad
  <2>. QED BY <2>3, <2>5, <2>6, <2>7, <2>8 DEF TypeOK
<1>3. ASSUME NEW length \in 0..MaxEnd, Truncate(length)
      PROVE  TypeOK'
  <2>. DEFINE k == length \div ChunkSize
  <2>1. k \in Nat /\ length \in Nat /\ length < IntSize + MaxEnd
    BY Division
  <2>2. calls' \in 0..MaxCalls
    BY <1>3, CallType DEF Truncate
  <2>3. plain' \in BOOLEAN /\ UNCHANGED <<dirty, index, remote>>
    BY <1>3 DEF Truncate
  <2>4. CASE Missing({k}) # {}
    <3>1. down' = TRUE /\ UNCHANGED <<cached, filling, loaded, size, file, spoilt>>
      BY <1>3, <2>4 DEF Truncate
    <3>. HIDE DEF k
    <3>. QED BY <2>2, <2>3, <3>1 DEF TypeOK
  <2>5. CASE Missing({k}) = {}
    <3>1. PICK came \in SUBSET ToLoad({k}) :
            /\ DOMAIN cached' = DOMAIN cached \cup {k}
            /\ filling' = filling \cup (ToLoad({k}) \ came)
      BY <1>3, <2>5 DEF Truncate
    <3>2. /\ loaded' = loaded \cup ToLoad({k}) /\ size' = length
          /\ file' = Restrict(file, {p \in DOMAIN file : p < length}) /\ down' = down
      BY <1>3, <2>5 DEF Truncate
    <3>3. DOMAIN file' \subseteq DOMAIN file
      BY <3>2 DEF Restrict
    <3>4. ToLoad({k}) \subseteq {k}
      BY DEF ToLoad
    <3>. HIDE DEF k
    <3>. QED BY <2>1, <2>2, <2>3, <3>1, <3>2, <3>3, <3>4 DEF TypeOK
  <2>. QED BY <2>4, <2>5
<1>4. CASE Recreate
  <2>1. calls' \in 0..MaxCalls
    BY <1>4, CallType DEF Recreate
  <2>2. DOMAIN file' = {}
    BY <1>4, EmptyData DEF Recreate
  <2>3. /\ DOMAIN cached' = DOMAIN cached \cup {0}
        /\ dirty' = dirty \cup {0} /\ index' = index \cup {0}
        /\ size' = 0 /\ plain' \in BOOLEAN /\ UNCHANGED <<remote, filling, loaded, down>>
    BY <1>4 DEF Recreate
  <2>4. 0 < IntSize + MaxEnd
    OBVIOUS
  <2>. QED BY <2>1, <2>2, <2>3, <2>4 DEF TypeOK
<1>5. CASE Flush
  <2>1. /\ DOMAIN remote' = DOMAIN remote \cup (index \cap dirty)
        /\ DOMAIN cached' = DOMAIN cached \ index
        /\ dirty' = dirty \ index /\ filling' = filling \ index
        /\ UNCHANGED <<index, loaded, size, down, file, plain, calls>>
    BY <1>5 DEF Flush, Restrict, history
  <2>. QED BY <2>1 DEF TypeOK
<1>6. ASSUME NEW k \in filling, Receive(k)
      PROVE  TypeOK'
  <2>1. /\ DOMAIN cached' = DOMAIN cached /\ filling' = filling \ {k}
        /\ UNCHANGED <<dirty, index, remote, loaded, size, down, file, plain, calls>>
    BY <1>6 DEF Receive, history
  <2>. QED BY <2>1 DEF TypeOK
<1>7. CASE UNCHANGED vars
  BY <1>7 DEF vars, chunkVars, history, TypeOK
<1>. QED BY <1>1, <1>2, <1>3, <1>4, <1>5, <1>6, <1>7 DEF Next

LEMMA TypeInit == Init => TypeOK
<1>. SUFFICES ASSUME Init  PROVE TypeOK
  OBVIOUS
<1>1. DOMAIN cached = {0} /\ DOMAIN remote = {} /\ DOMAIN file = {}
  BY EmptyData DEF Init
<1>2. /\ dirty = {0} /\ index = {0} /\ filling = {} /\ loaded = {} /\ size = 0
      /\ down = FALSE /\ plain = TRUE /\ calls = 0
  BY DEF Init
<1>3. 0 < IntSize + MaxEnd /\ 0 \in 0..MaxCalls
  BY ByteFileAssumption
<1>. QED BY <1>1, <1>2, <1>3 DEF TypeOK

(***************************************************************************)
(* The state keeps its shape whatever calls, tasks and answers follow each *)
(* other: what has a dirty mark or is being filled is in the cache, and    *)
(* the size stays one, though it comes from an end kept in an int.         *)
(***************************************************************************)
THEOREM TypeCorrect == Spec => []TypeOK
BY TypeInit, TypeStep, PTL DEF Spec

-----------------------------------------------------------------------------
(***************************************************************************)
(* Written bytes are kept.                                                 *)
(***************************************************************************)
LEMMA RequestIsTouched ==
  ASSUME NEW off \in Nat, NEW n \in Nat, NEW p \in Request(off, n)
  PROVE  /\ p \in Nat /\ off <= p /\ p < off + n
         /\ p \div ChunkSize \in Touched(off, n)
<1>1. p \in Nat /\ off <= p /\ p <= off + n /\ p < off + n /\ off + n \in Nat
  BY DEF Request
<1>2. /\ off \div ChunkSize <= p \div ChunkSize
      /\ p \div ChunkSize <= (off + n) \div ChunkSize
      /\ p \div ChunkSize \in Nat
  <2>1. p \div ChunkSize \in Nat
    BY <1>1, Division
  <2>. QED BY <1>1, <2>1, QuotientGrows
<1>3. FirstChunk(off) \in Nat /\ LastChunk(off, n) \in Nat
  BY ChunksTouched
<1>. DEFINE k == p \div ChunkSize
            fc == FirstChunk(off)
            lc == LastChunk(off, n)
<1>4. k \in Nat /\ fc \in Nat /\ lc \in Nat /\ fc <= k /\ k <= lc
  BY <1>2, <1>3 DEF FirstChunk, LastChunk
<1>5. Touched(off, n) = fc..lc
  BY DEF Touched
<1>. HIDE DEF k, fc, lc
<1>6. k \in Touched(off, n)
  BY <1>4, <1>5
<1>. QED BY <1>1, <1>6 DEF k

LEMMA Loaded ==
  ASSUME TypeOK, NEW ks, NEW came, Load(ks, came)
  PROVE  /\ DOMAIN cached' = DOMAIN cached \cup ToLoad(ks)
         /\ \A k \in DOMAIN cached : cached'[k] = cached[k] /\ (k \in filling' <=> k \in filling)
         /\ \A k \in ToLoad(ks) :
              /\ k \notin DOMAIN cached /\ k \in DOMAIN remote
              /\ k \in filling' => cached'[k] = Empty
              /\ k \notin filling' => cached'[k] = remote[k]
<1>1. /\ cached' = [k \in DOMAIN cached \cup ToLoad(ks) |-> IF k \in came THEN Stored(k) ELSE Data(k)]
      /\ filling' = filling \cup (ToLoad(ks) \ came) /\ came \subseteq ToLoad(ks)
  BY DEF Load
<1>2. \A k \in ToLoad(ks) : k \notin DOMAIN cached /\ k \in DOMAIN remote
  BY DEF ToLoad
<1>3. filling \subseteq DOMAIN cached
  BY DEF TypeOK
<1>. QED BY <1>1, <1>2, <1>3 DEF Data, Stored

LEMMA KeptWrite ==
  ASSUME TypeOK, KeptInv, NEW off \in Nat, NEW n \in Nat, Write(off, n)
  PROVE  KeptInv'
<1>. DEFINE ks == Touched(off, n)
            New(k) == Overlay(Data(k), Piece(off, n, k), calls, n)
<1>1. /\ cached' = [k \in DOMAIN cached \cup ks |-> IF k \in ks THEN New(k) ELSE cached[k]]
      /\ dirty' = dirty \cup ks
      /\ size' = NewSize(off, n)
      /\ file' = [p \in DOMAIN file \cup Request(off, n) |->
                    IF p \in Request(off, n) THEN <<calls, p - off>> ELSE file[p]]
      /\ spoilt' = (spoilt \ Request(off, n)) \cup Crossing(off, n) \cup Overrun(off, n)
                     \cup Forgotten(off, n) \cup Overtaken(off, n) \cup Wrapped(off, n)
      /\ UNCHANGED <<remote, filling>>
  BY DEF Write
<1>2. ks \subseteq Nat
  BY ChunksTouched
<1>3. \A k : IsData(Data(k))
  BY EmptyData DEF KeptInv, Data
<1>4. /\ size \in Nat /\ size' \in Nat /\ size <= size'
      /\ off + n < IntSize => off + n <= size'
  BY <1>1, SizeGrows DEF TypeOK
<1>5. ASSUME NEW p \in Nat, p \div ChunkSize \in ks
      PROVE  LET new == cached'[p \div ChunkSize]
                 d   == Data(p \div ChunkSize)
             IN  /\ IsData(new)
                 /\ p \in Request(off, n) \ Crossing(off, n) =>
                      p % ChunkSize \in DOMAIN new /\ new[p % ChunkSize] = <<calls, p - off>>
                 /\ p \notin Request(off, n) \cup Overrun(off, n) /\ p % ChunkSize \in DOMAIN d =>
                      p % ChunkSize \in DOMAIN new /\ new[p % ChunkSize] = d[p % ChunkSize]
  <2>. DEFINE k == p \div ChunkSize
  <2>1. k \in Nat /\ p \in Positions(k)
    BY <1>2, <1>5, PositionsAre
  <2>2. cached'[k] = New(k)
    BY <1>1, <1>5
  <2>. HIDE DEF k
  <2>3. k \in ks /\ IsData(Data(k))
    BY <1>3, <1>5 DEF k
  <2>. DEFINE d == Data(k)
  <2>. HIDE DEF ks, d
  <2>4. k \in Touched(off, n) /\ IsData(d)
    BY <2>3 DEF ks, d
  <2>. HIDE DEF New
  <2>5. Copied(off, n, k, d, calls, p)
    BY <2>1, <2>4, CopyAt
  <2>. QED BY <2>2, <2>5 DEF Copied, New, k, d
<1>. HIDE DEF New
<1>6. ASSUME NEW k \in DOMAIN cached'
      PROVE  IsData(cached'[k])
  <2>1. CASE k \in ks
    <3>. DEFINE p == k * ChunkSize
    <3>1. k \in Nat
      BY <1>2, <2>1
    <3>2. p \in Nat /\ p < (k + 1) * ChunkSize
      <4>1. p \in Nat /\ (k + 1) * ChunkSize = p + ChunkSize
        BY <3>1, Multiples
      <4>. HIDE DEF p
      <4>. QED BY <4>1, ByteFileAssumption
    <3>3. p \div ChunkSize = k
      <4>1. k * ChunkSize <= p
        BY <3>2
      <4>. QED BY <3>1, <3>2, <4>1, Quotient
    <3>. HIDE DEF p
    <3>. QED BY <1>5, <2>1, <3>2, <3>3
  <2>2. CASE k \notin ks
    BY <1>1, <2>2 DEF KeptInv
  <2>. QED BY <2>1, <2>2
<1>7. ASSUME NEW p \in DOMAIN file' \ spoilt', p \in Request(off, n)
      PROVE  Kept(p)'
  <2>. DEFINE k == p \div ChunkSize
  <2>1. /\ p \notin Crossing(off, n) /\ p \notin Overtaken(off, n) /\ p \notin Wrapped(off, n)
        /\ file'[p] = <<calls, p - off>>
    BY <1>1, <1>7
  <2>2. p \in Nat /\ p < off + n /\ k \in ks
    BY <1>7, RequestIsTouched
  <2>3. k \in Nat /\ p \in Positions(k)
    BY <1>2, <2>2, PositionsAre
  <2>. HIDE DEF k
  <2>4. k \notin filling
    BY <2>1, <2>2, <2>3 DEF Overtaken
  <2>5. off + n < IntSize
    BY <1>7, <2>1, ByteFileAssumption DEF Wrapped
  <2>6. p < size'
    BY <1>4, <2>2, <2>5
  <2>7. Holds(cached[k], p)'
    BY <1>5, <1>7, <2>1, <2>2 DEF Holds, k
  <2>8. k \in dirty' /\ k \notin filling' /\ k \in DOMAIN cached'
    BY <1>1, <2>2, <2>4
  <2>. QED BY <2>6, <2>7, <2>8 DEF Kept, k
<1>8. ASSUME NEW p \in DOMAIN file' \ spoilt', p \notin Request(off, n)
      PROVE  Kept(p)'
  <2>. DEFINE k == p \div ChunkSize
  <2>1. /\ p \in DOMAIN file \ spoilt /\ file'[p] = file[p]
        /\ p \notin Overrun(off, n) /\ p \notin Overtaken(off, n) /\ p \notin Forgotten(off, n)
    BY <1>1, <1>8
  <2>2. p \in Nat /\ Kept(p)
    BY <2>1 DEF TypeOK, KeptInv
  <2>3. k \in Nat /\ p \in Positions(k)
    BY <2>2, Division, PositionsAre
  <2>4. /\ p < size
        /\ k \in DOMAIN cached \ filling => Holds(cached[k], p)
        /\ k \notin dirty => Holds(Stored(k), p)
        /\ k \in dirty => k \notin filling
    BY <2>2 DEF Kept
  <2>5. p < size'
    BY <1>4, <2>2, <2>4
  <2>6. \A d : Holds(d, p) <=> p % ChunkSize \in DOMAIN d /\ d[p % ChunkSize] = file[p]
    BY DEF Holds
  <2>7. Holds(cached[k], p)' <=> p % ChunkSize \in DOMAIN cached'[k] /\ cached'[k][p % ChunkSize] = file'[p]
    BY DEF Holds
  <2>8. Holds(Stored(k), p) => Holds(Stored(k), p)'
    <3>1. Stored(k)' = Stored(k)
      BY <1>1 DEF Stored
    <3>. HIDE DEF k
    <3>. QED BY <2>1, <3>1 DEF Holds
  <2>9. CASE k \in ks
    <3>1. k \notin filling
      <4>. HIDE DEF k
      <4>. QED BY <2>1, <2>3, <2>9 DEF Overtaken
    <3>2. k \in DOMAIN cached \/ k \notin DOMAIN remote
      <4>. HIDE DEF k
      <4>. QED BY <1>8, <2>1, <2>3, <2>9 DEF Forgotten
    <3>3. ~Holds(Empty, p)
      BY EmptyData DEF Holds
    <3>4. k \in DOMAIN cached
      BY <2>4, <3>2, <3>3 DEF Stored, TypeOK
    <3>5. Data(k) = cached[k] /\ Holds(Data(k), p)
      BY <2>4, <3>1, <3>4 DEF Data
    <3>6. Holds(cached[k], p)'
      BY <1>5, <1>8, <2>1, <2>2, <2>6, <2>7, <2>9, <3>5
    <3>7. k \in dirty' /\ k \notin filling'
      BY <1>1, <2>9, <3>1
    <3>. QED BY <2>5, <3>6, <3>7 DEF Kept
  <2>10. CASE k \notin ks
    <3>1. /\ k \in DOMAIN cached' <=> k \in DOMAIN cached
          /\ k \in DOMAIN cached => cached'[k] = cached[k]
          /\ k \in dirty' <=> k \in dirty
          /\ filling' = filling
      BY <1>1, <2>10
    <3>2. k \in DOMAIN cached' \ filling' => Holds(cached[k], p)'
      <4>. HIDE DEF k
      <4>. QED BY <2>1, <2>4, <2>6, <2>7, <3>1
    <3>. QED BY <2>4, <2>5, <2>8, <3>1, <3>2 DEF Kept
  <2>. QED BY <2>9, <2>10
<1>9. \A k \in DOMAIN remote' : IsData(remote'[k])
  BY <1>1 DEF KeptInv
<1>. QED BY <1>6, <1>7, <1>8, <1>9 DEF KeptInv

LEMMA KeptRead ==
  ASSUME TypeOK, KeptInv, NEW off, NEW m, Read(off, m)
  PROVE  KeptInv'
<1>1. PICK ks, came : Load(ks, came)
  BY DEF Read
<1>2. UNCHANGED <<dirty, remote, size, file, spoilt>>
  BY DEF Read
<1>3. \A k : Stored(k)' = Stored(k)
  BY <1>2 DEF Stored
<1>4. /\ DOMAIN cached' = DOMAIN cached \cup ToLoad(ks)
      /\ \A k \in DOMAIN cached : cached'[k] = cached[k] /\ (k \in filling' <=> k \in filling)
      /\ \A k \in ToLoad(ks) :
           /\ k \notin DOMAIN cached /\ k \in DOMAIN remote
           /\ k \in filling' => cached'[k] = Empty
           /\ k \notin filling' => cached'[k] = remote[k]
  BY <1>1, Loaded
<1>5. \A k \in DOMAIN cached' : IsData(cached'[k])
  BY <1>4, EmptyData DEF KeptInv
<1>6. ASSUME NEW p \in DOMAIN file \ spoilt
      PROVE  Kept(p)'
  <2>. DEFINE k == p \div ChunkSize
  <2>1. /\ p < size
        /\ k \in DOMAIN cached \ filling => Holds(cached[k], p)
        /\ k \notin dirty => Holds(Stored(k), p)
        /\ k \in dirty => k \notin filling /\ k \in DOMAIN cached
    BY DEF KeptInv, Kept, TypeOK
  <2>. HIDE DEF k
  <2>2. k \notin dirty => Holds(Stored(k), p)'
    BY <1>2, <1>3, <2>1 DEF Holds
  <2>3. CASE k \in DOMAIN cached
    <3>1. k \in DOMAIN cached' \ filling' => Holds(cached[k], p)'
      BY <1>2, <1>4, <2>1, <2>3 DEF Holds
    <3>. QED BY <1>2, <1>4, <2>1, <2>2, <2>3, <3>1 DEF Kept, k
  <2>4. CASE k \notin DOMAIN cached
    <3>1. k \in DOMAIN cached' \ filling' => cached'[k] = remote[k] /\ Stored(k) = remote[k]
      BY <1>4, <2>4 DEF Stored
    <3>2. k \in DOMAIN cached' \ filling' => Holds(cached[k], p)'
      BY <1>2, <2>1, <2>4, <3>1 DEF Holds
    <3>. QED BY <1>2, <2>1, <2>2, <2>4, <3>2 DEF Kept, k
  <2>. QED BY <2>3, <2>4
<1>. QED BY <1>2, <1>5, <1>6 DEF KeptInv

LEMMA KeptTruncate ==
  ASSUME TypeOK, KeptInv, NEW length \in Nat, Truncate(length)
  PROVE  KeptInv'
<1>. DEFINE t == length \div ChunkSize
<1>1. UNCHANGED <<dirty, remote>>
  BY DEF Truncate
<1>2. \A k : Stored(k)' = Stored(k)
  BY <1>1 DEF Stored
<1>3. CASE Missing({t}) # {}
  <2>1. UNCHANGED <<cached, filling, size, file, spoilt>>
    BY <1>3 DEF Truncate
  <2>. QED BY <1>1, <2>1 DEF KeptInv, Kept, Holds, Stored
<1>4. CASE Missing({t}) = {}
  <2>1. PICK came \in SUBSET ToLoad({t}) :
          /\ cached' = [i \in DOMAIN cached \cup {t} |->
                          IF i = t THEN ResizeTo(IF t \in came THEN Stored(t) ELSE Data(t),
                                                 length % ChunkSize)
                          ELSE cached[i]]
          /\ filling' = filling \cup (ToLoad({t}) \ came)
    BY <1>4 DEF Truncate
  <2>2. /\ size' = length /\ spoilt' = {p \in spoilt : p < length}
        /\ file' = Restrict(file, {p \in DOMAIN file : p < length})
    BY <1>4 DEF Truncate
  <2>3. /\ DOMAIN file' = {p \in DOMAIN file : p < length}
        /\ \A p \in DOMAIN file' : file'[p] = file[p]
    BY <2>2 DEF Restrict
  <2>. DEFINE r == length % ChunkSize
              old == IF t \in came THEN Stored(t) ELSE Data(t)
  <2>4. t \in Nat /\ r \in Nat /\ length < (t + 1) * ChunkSize /\ length = t * ChunkSize + r
    <3>1. t \in Nat /\ r \in 0..(ChunkSize - 1) /\ length = t * ChunkSize + r
      BY Division
    <3>. DEFINE x == t * ChunkSize
                z == (t + 1) * ChunkSize
    <3>2. x \in Nat /\ z = x + ChunkSize /\ ChunkSize \in Nat
      BY <3>1, Multiples
    <3>3. length = x + r
      BY <3>1
    <3>. HIDE DEF x, z, r, t
    <3>4. length < z /\ r \in Nat
      BY <3>1, <3>2, <3>3
    <3>. QED BY <3>1, <3>3, <3>4 DEF x, z
  <2>5. t \in DOMAIN cached \/ t \in DOMAIN remote
    BY <1>4 DEF Missing
  <2>6. ToLoad({t}) = IF t \in DOMAIN cached THEN {} ELSE {t}
    BY <2>5 DEF ToLoad
  <2>. HIDE DEF t, r, old
  <2>7. /\ DOMAIN cached' = DOMAIN cached \cup {t}
        /\ \A k \in DOMAIN cached' : cached'[k] = IF k = t THEN ResizeTo(old, r) ELSE cached[k]
    BY <2>1 DEF old, r
  <2>8. \A k \in DOMAIN cached' : IsData(cached'[k])
    BY <2>4, <2>7, Resized DEF KeptInv
  <2>9. \A k : k \in DOMAIN cached => (k \in filling' <=> k \in filling)
    BY <2>1, <2>6
  <2>10. t \in DOMAIN cached => old = cached[t]
    BY <2>1, <2>6 DEF old, Data
  <2>11. t \notin DOMAIN cached /\ t \notin filling' => old = Stored(t)
    BY <2>1, <2>6 DEF old
  <2>12. ASSUME NEW p \in DOMAIN file' \ spoilt'
         PROVE  Kept(p)'
    <3>. DEFINE k == p \div ChunkSize
                j == p % ChunkSize
    <3>1. p \in Nat /\ p \in DOMAIN file \ spoilt /\ p < length /\ file'[p] = file[p]
      BY <2>2, <2>3, <2>12 DEF TypeOK
    <3>2. /\ k \in DOMAIN cached \ filling => Holds(cached[k], p)
          /\ k \notin dirty => Holds(Stored(k), p)
          /\ k \in dirty => k \notin filling /\ k \in DOMAIN cached
      BY <3>1 DEF KeptInv, Kept, TypeOK
    <3>3. \A d : Holds(d, p) <=> j \in DOMAIN d /\ d[j] = file[p]
      BY DEF Holds
    <3>4. Holds(cached[k], p)' <=> j \in DOMAIN cached'[k] /\ cached'[k][j] = file[p]
      BY <3>1 DEF Holds
    <3>5. j \in Nat /\ (k = t => j < r)
      <4>1. k \in Nat /\ j \in 0..(ChunkSize - 1) /\ p = k * ChunkSize + j
        BY <3>1, Division
      <4>. DEFINE x == t * ChunkSize
      <4>2. k = t => p = x + j
        BY <4>1
      <4>3. x \in Nat /\ length = x + r
        BY <2>4, Multiples
      <4>. HIDE DEF k, j, x
      <4>. QED BY <2>4, <3>1, <4>1, <4>2, <4>3
    <3>. HIDE DEF k, j
    <3>6. k \notin dirty => Holds(Stored(k), p)'
      BY <1>2, <3>1, <3>2 DEF Holds
    <3>7. k \in dirty' => k \notin filling'
      BY <1>1, <2>9, <3>2
    <3>8. ASSUME k \in DOMAIN cached' \ filling'
          PROVE  Holds(cached[k], p)'
      <4>1. CASE k # t
        BY <2>7, <2>9, <3>2, <3>3, <3>4, <3>8, <4>1
      <4>2. CASE k = t
        <5>1. Holds(old, p)
          BY <2>9, <2>10, <2>11, <3>2, <3>8, <4>2
        <5>2. j \in 0..(r - 1) /\ j \in DOMAIN old /\ old[j] = file[p]
          BY <2>4, <3>3, <3>5, <4>2, <5>1
        <5>. QED BY <2>4, <2>7, <3>4, <3>8, <4>2, <5>2, Resized
      <4>. QED BY <4>1, <4>2
    <3>. QED BY <1>1, <2>2, <3>1, <3>6, <3>7, <3>8 DEF Kept, k
  <2>. QED BY <1>1, <2>8, <2>12 DEF KeptInv
<1>. QED BY <1>3, <1>4

LEMMA KeptFlush ==
  ASSUME TypeOK, KeptInv, Flush
  PROVE  KeptInv'
<1>. DEFINE ks == index \cap dirty
<1>1. /\ DOMAIN remote' = DOMAIN remote \cup ks
      /\ \A k \in DOMAIN remote' : remote'[k] = IF k \in ks THEN cached[k] ELSE remote[k]
      /\ DOMAIN cached' = DOMAIN cached \ index
      /\ \A k \in DOMAIN cached' : cached'[k] = cached[k]
      /\ dirty' = dirty \ index /\ filling' = filling \ index
      /\ UNCHANGED <<size, file, spoilt>>
  BY DEF Flush, Restrict, history
<1>2. dirty \subseteq DOMAIN cached
  BY DEF TypeOK
<1>3. /\ \A k \in DOMAIN cached' : IsData(cached'[k])
      /\ \A k \in DOMAIN remote' : IsData(remote'[k])
  BY <1>1, <1>2 DEF KeptInv
<1>4. \A k : Stored(k)' = IF k \in ks THEN cached[k] ELSE Stored(k)
  BY <1>1 DEF Stored
<1>5. ASSUME NEW p \in DOMAIN file \ spoilt
      PROVE  Kept(p)'
  <2>. DEFINE k == p \div ChunkSize
  <2>1. /\ p < size
        /\ k \in DOMAIN cached \ filling => Holds(cached[k], p)
        /\ k \notin dirty => Holds(Stored(k), p)
        /\ k \in dirty => k \notin filling
    BY DEF KeptInv, Kept
  <2>. HIDE DEF k
  <2>2. k \in DOMAIN cached' \ filling' => Holds(cached[k], p)'
    BY <1>1, <2>1 DEF Holds
  <2>3. k \notin dirty' => Holds(Stored(k), p)'
    <3>1. CASE k \in ks
      BY <1>1, <1>2, <1>4, <2>1, <3>1 DEF Holds
    <3>2. CASE k \notin ks
      BY <1>1, <1>4, <2>1, <3>2 DEF Holds
    <3>. QED BY <3>1, <3>2
  <2>. QED BY <1>1, <2>1, <2>2, <2>3 DEF Kept, k
<1>. QED BY <1>1, <1>3, <1>5 DEF KeptInv

LEMMA KeptReceive ==
  ASSUME TypeOK, KeptInv, NEW c \in filling, Receive(c)
  PROVE  KeptInv'
<1>1. /\ filling' = filling \ {c} /\ DOMAIN cached' = DOMAIN cached
      /\ \A k \in DOMAIN cached : cached'[k] = IF k = c THEN Stored(k) ELSE cached[k]
      /\ UNCHANGED <<dirty, remote, size, file, spoilt>>
  BY DEF Receive, history
<1>2. \A k : Stored(k)' = Stored(k) /\ IsData(Stored(k))
  BY <1>1, EmptyData DEF Stored, KeptInv
<1>3. ASSUME NEW p \in DOMAIN file \ spoilt
      PROVE  Kept(p)'
  <2>. DEFINE k == p \div ChunkSize
  <2>1. /\ p < size
        /\ k \in DOMAIN cached \ filling => Holds(cached[k], p)
        /\ k \notin dirty => Holds(Stored(k), p)
        /\ k \in dirty => k \notin filling
    BY DEF KeptInv, Kept
  <2>. HIDE DEF k
  <2>2. k \in DOMAIN cached' \ filling' => Holds(cached[k], p)'
    BY <1>1, <2>1 DEF Holds
  <2>3. k \notin dirty' => Holds(Stored(k), p)'
    BY <1>1, <1>2, <2>1 DEF Holds
  <2>. QED BY <1>1, <2>1, <2>2, <2>3 DEF Kept, k
<1>. QED BY <1>1, <1>2, <1>3 DEF KeptInv

LEMMA KeptStep == TypeOK /\ KeptInv /\ [Next]_vars => KeptInv'
<1>. SUFFICES ASSUME TypeOK, KeptInv, [Next]_vars
              PROVE  KeptInv'
  OBVIOUS
<1>1. ASSUME NEW off \in 0..(MaxEnd - 1), NEW n \in 1..(MaxEnd - off), Write(off, n)
      PROVE  KeptInv'
  BY <1>1, KeptWrite
<1>2. ASSUME NEW off \in 0..(MaxEnd - 1), NEW n \in 1..(MaxEnd - off), Read(off, n)
      PROVE  KeptInv'
  BY <1>2, KeptRead
<1>3. ASSUME NEW length \in 0..MaxEnd, Truncate(length)
      PROVE  KeptInv'
  BY <1>3, KeptTruncate
<1>4. CASE Recreate
  <2>1. DOMAIN file' = {} /\ UNCHANGED remote
    BY <1>4, EmptyData DEF Recreate
  <2>2. /\ DOMAIN cached' = DOMAIN cached \cup {0}
        /\ \A k \in DOMAIN cached' : cached'[k] = Data(k)
    BY <1>4 DEF Recreate
  <2>3. \A k : IsData(Data(k))
    BY EmptyData DEF Data, KeptInv
  <2>. QED BY <2>1, <2>2, <2>3 DEF KeptInv
<1>5. ASSUME NEW k \in filling, Receive(k)
      PROVE  KeptInv'
  BY <1>5, KeptReceive
<1>6. CASE UNCHANGED vars
  BY <1>6 DEF vars, chunkVars, history, KeptInv, Kept, Holds, Stored
<1>. QED BY <1>1, <1>2, <1>3, <1>4, <1>5, <1>6, KeptFlush DEF Next

LEMMA KeptInit == Init => KeptInv
<1>. SUFFICES ASSUME Init  PROVE KeptInv
  OBVIOUS
<1>1. DOMAIN cached = {0} /\ DOMAIN remote = {} /\ DOMAIN file = {}
  BY EmptyData DEF Init
<1>2. IsData(cached[0])
  BY EmptyData DEF Init
<1>. QED BY <1>1, <1>2 DEF KeptInv

\* A position is visible as long as its chunk is kept.
LEMMA KeptIsVisible == TypeOK /\ KeptInv => WrittenAreKept
<1>. SUFFICES ASSUME TypeOK, KeptInv, NEW p \in DOMAIN file \ spoilt
              PROVE  Visible(p) = file[p] /\ p < size
  BY DEF WrittenAreKept
<1>. DEFINE k == p \div ChunkSize
<1>1. /\ p < size
      /\ k \in DOMAIN cached \ filling => Holds(cached[k], p)
      /\ k \notin dirty => Holds(Stored(k), p)
      /\ k \in dirty => k \in DOMAIN cached \ filling
  BY DEF KeptInv, Kept, TypeOK
<1>. DEFINE d == IF k \in DOMAIN cached \ filling THEN cached[k] ELSE Stored(k)
<1>2. Visible(p) = IF p % ChunkSize \in DOMAIN d THEN d[p % ChunkSize] ELSE Junk
  BY DEF Visible
<1>. HIDE DEF k
<1>3. Holds(d, p)
  BY <1>1
<1>. HIDE DEF d
<1>. QED BY <1>1, <1>2, <1>3 DEF Holds

(***************************************************************************)
(* No byte that a call has written is lost or moved but by the mishaps     *)
(* that ByteFile names, whatever the sizes of chunks and requests.         *)
(***************************************************************************)
THEOREM WrittenBytesAreKept == Spec => []WrittenAreKept
BY TypeInit, TypeStep, KeptInit, KeptStep, KeptIsVisible, PTL DEF Spec

-----------------------------------------------------------------------------
(***************************************************************************)
(* Plain files are read.                                                   *)
(***************************************************************************)
ReadInv == PlainInv /\ PlainFilesAreRead

LEMMA ChunkZero == 0 \div ChunkSize = 0
<1>1. 0 * ChunkSize <= 0 /\ 0 < (0 + 1) * ChunkSize
  BY ByteFileAssumption
<1>. QED BY <1>1, Quotient

LEMMA PlainWrite ==
  ASSUME TypeOK, ReadInv, NEW off \in Nat, NEW n \in Nat, Write(off, n)
  PROVE  ReadInv'
<1>. DEFINE ks == Touched(off, n)
<1>1. /\ DOMAIN cached' = DOMAIN cached \cup ks
      /\ dirty' = dirty \cup ks
      /\ size' = NewSize(off, n)
      /\ DOMAIN file' = DOMAIN file \cup Request(off, n)
      /\ plain' = (plain /\ Plain(off, n) /\ off <= size)
      /\ UNCHANGED <<remote, filling, down>> /\ ~down
  BY DEF Write, Call
<1>2. PlainFilesAreRead'
  BY <1>1 DEF PlainFilesAreRead
<1>3. DOMAIN cached' \subseteq dirty' \cup DOMAIN remote'
  BY <1>1 DEF ReadInv, PlainInv
<1>4. ASSUME plain'  PROVE PlainInv'
  <2>. DEFINE q == size \div ChunkSize
              r == size' \div ChunkSize
  <2>1. plain /\ off <= size
    BY <1>1, <1>4
  <2>2. /\ filling = {} /\ 0..(size - 1) \subseteq DOMAIN file
        /\ 0..q \subseteq DOMAIN cached \cup DOMAIN remote
    BY <2>1 DEF ReadInv, PlainInv
  <2>3. /\ size \in Nat /\ size' \in Nat
        /\ size' = size \/ size' <= off + n
    BY <1>1, SizeGrows DEF TypeOK
  <2>4. 0..(size' - 1) \subseteq DOMAIN file'
    <3>1. \A a, b \in Nat : off <= a /\ (b = a \/ b <= off + n) =>
            0..(b - 1) \subseteq 0..(a - 1) \cup Request(off, n)
      BY DEF Request
    <3>2. 0..(size' - 1) \subseteq 0..(size - 1) \cup Request(off, n)
      BY <2>1, <2>3, <3>1, Zenon
    <3>. QED BY <1>1, <2>2, <3>2
  <2>5. ASSUME NEW i \in 0..r
        PROVE  i \in DOMAIN cached' \cup DOMAIN remote'
    <3>1. q \in Nat /\ r \in Nat /\ (size' = size => r = q)
      BY <2>3, Division
    <3>2. FirstChunk(off) <= q
      BY <2>1, <2>3, QuotientGrows DEF FirstChunk
    <3>3. size' <= off + n => r <= LastChunk(off, n)
      BY <2>3, QuotientGrows DEF LastChunk
    <3>4. FirstChunk(off) \in Nat /\ LastChunk(off, n) \in Nat
      BY ChunksTouched
    <3>. HIDE DEF q, r
    <3>5. i \in FirstChunk(off)..LastChunk(off, n) \/ i \in 0..q
      BY <2>3, <2>5, <3>1, <3>2, <3>3, <3>4
    <3>. QED BY <1>1, <2>2, <3>5 DEF Touched
  <2>. QED BY <1>1, <1>3, <2>2, <2>4, <2>5 DEF PlainInv
<1>. QED BY <1>2, <1>3, <1>4 DEF ReadInv, PlainInv

LEMMA PlainRead ==
  ASSUME TypeOK, KeptInv', ReadInv, NEW off \in Nat, NEW m \in Nat \ {0}, Read(off, m)
  PROVE  ReadInv'
<1>. DEFINE n  == IF off + m > size THEN size - off ELSE m
            ks == Touched(off, n)
<1>1. n \in Nat \ {0} /\ off + n <= size /\ size \in Nat
  BY DEF Read, TypeOK
<1>2. PICK came : Load(ks, came)
  BY DEF Read
<1>3. /\ down' = (\/ Missing(ks) # {}
                  \/ \E k \in ks : Length(cached'[k]) < Piece(off, n, k).delta)
      /\ plain' = (plain /\ Plain(off, n) /\ filling' = {})
      /\ UNCHANGED <<dirty, index, remote, size, file, spoilt>>
  BY DEF Read
<1>. HIDE DEF n
<1>4. /\ DOMAIN cached' = DOMAIN cached \cup ToLoad(ks)
      /\ ToLoad(ks) \subseteq DOMAIN remote
  BY <1>2, Loaded
<1>5. DOMAIN cached' \subseteq dirty' \cup DOMAIN remote'
  BY <1>3, <1>4 DEF ReadInv, PlainInv
<1>6. \A p \in DOMAIN file' \ spoilt' :
        p \div ChunkSize \in DOMAIN cached' \ filling' =>
          p % ChunkSize \in DOMAIN cached'[p \div ChunkSize]
  BY DEF KeptInv, Kept, Holds
<1>7. ASSUME plain'
      PROVE  PlainInv' /\ (spoilt' \cap DOMAIN file' = {} => ~down')
  <2>1. plain /\ Plain(off, n) /\ filling' = {}
    BY <1>3, <1>7
  <2>2. /\ 0..(size - 1) \subseteq DOMAIN file
        /\ 0..(size \div ChunkSize) \subseteq DOMAIN cached \cup DOMAIN remote
    BY <2>1 DEF ReadInv, PlainInv
  <2>3. PlainInv'
    BY <1>3, <1>4, <1>5, <2>1, <2>2 DEF PlainInv
  <2>4. ks \subseteq 0..(size \div ChunkSize)
    <3>. DEFINE fc == FirstChunk(off)
                lc == LastChunk(off, n)
                q  == size \div ChunkSize
    <3>1. fc \in Nat /\ lc \in Nat /\ ks = fc..lc
      BY <1>1, ChunksTouched
    <3>2. q \in Nat /\ lc <= q
      BY <1>1, Division, QuotientGrows DEF LastChunk
    <3>. HIDE DEF fc, lc, q, ks
    <3>3. ks \subseteq 0..q
      BY <3>1, <3>2
    <3>. QED BY <3>3 DEF q
  <2>5. Missing(ks) = {} /\ ks \subseteq DOMAIN cached'
    BY <1>4, <2>2, <2>4 DEF Missing, ToLoad
  <2>6. ASSUME spoilt \cap DOMAIN file = {}, NEW k \in ks
        PROVE  ~(Length(cached'[k]) < Piece(off, n, k).delta)
    <3>. DEFINE L == Length(cached'[k])
                e == Piece(off, n, k).delta
    <3>1. k \in Nat /\ k \in DOMAIN cached' /\ L \in Nat /\ DOMAIN cached'[k] = 0..(L - 1)
      BY <1>1, <2>5, ChunksTouched DEF KeptInv, IsData
    <3>2. off % ChunkSize \in Nat /\ n <= ChunkSize
      <4>. DEFINE o == off % ChunkSize
      <4>1. o \in 0..(ChunkSize - 1) /\ ChunkSize \in Nat /\ o + n <= ChunkSize
        BY <2>1, Division, ByteFileAssumption DEF Plain
      <4>. HIDE DEF o
      <4>2. o \in Nat /\ n <= ChunkSize
        BY <1>1, <4>1
      <4>. QED BY <4>2 DEF o
    <3>3. e = IF k = FirstChunk(off) THEN n ELSE 0
      BY <1>1, <3>2, PieceIs
    <3>4. CASE k = FirstChunk(off)
      <4>. DEFINE p == off + n - 1
                  j == p % ChunkSize
                  x == k * ChunkSize
      <4>1. p \in Nat /\ off <= p /\ p = off + n - 1
        BY <1>1
      <4>2. /\ x \in Nat /\ x <= off /\ (k + 1) * ChunkSize = x + ChunkSize
            /\ off % ChunkSize = off - x
        BY <1>1, <3>1, <3>4, ChunksTouched, Multiples
      <4>3. (off % ChunkSize) + n <= ChunkSize
        BY <2>1 DEF Plain
      <4>. HIDE DEF p
      <4>4. p \div ChunkSize = k /\ j = p - x
        <5>. HIDE DEF x, j
        <5>1. x <= p /\ p < x + ChunkSize
          BY <1>1, <4>1, <4>2, <4>3, ByteFileAssumption
        <5>. QED BY <3>1, <4>1, <4>2, <5>1, Quotient DEF x, j
      <4>5. p \in DOMAIN file \ spoilt
        BY <1>1, <2>2, <2>6, <4>1
      <4>6. j \in DOMAIN cached'[k]
        <5>. HIDE DEF L, e, x, j
        <5>1. p \div ChunkSize \in DOMAIN cached' \ filling'
          BY <2>1, <3>1, <4>4
        <5>. QED BY <1>3, <1>6, <4>4, <4>5, <5>1 DEF j
      <4>. HIDE DEF L, e, x, j
      <4>7. j < L /\ n <= j + 1
        <5>1. j = p - x /\ p = off + n - 1 /\ x <= off /\ off \in Nat /\ n \in Nat /\ x \in Nat /\ p \in Nat
          BY <1>1, <4>1, <4>2, <4>4
        <5>2. n <= j + 1
          BY <5>1
        <5>3. j \in 0..(L - 1)
          BY <3>1, <4>6
        <5>. QED BY <3>1, <5>2, <5>3
      <4>8. ~(L < e)
        BY <1>1, <3>1, <3>3, <3>4, <4>2, <4>4, <4>7
      <4>. QED BY <3>1, <4>8 DEF L, e
    <3>5. CASE k # FirstChunk(off)
      <4>1. e = 0
        BY <3>3, <3>5
      <4>. HIDE DEF L, e
      <4>2. ~(L < e)
        BY <3>1, <4>1
      <4>. QED BY <3>1, <4>2 DEF L, e
    <3>. QED BY <3>4, <3>5
  <2>. QED BY <1>3, <2>3, <2>5, <2>6
<1>. QED BY <1>5, <1>7 DEF ReadInv, PlainInv, PlainFilesAreRead

LEMMA PlainTruncate ==
  ASSUME TypeOK, ReadInv, NEW length \in Nat, Truncate(length)
  PROVE  ReadInv'
<1>. DEFINE t == length \div ChunkSize
<1>1. UNCHANGED <<dirty, remote>> /\ ~down /\ plain' = (plain /\ length <= size /\ filling' = {})
  BY DEF Truncate, Call
<1>2. ASSUME length <= size
      PROVE  t \in Nat /\ 0..t \subseteq 0..(size \div ChunkSize)
  <2>. DEFINE q == size \div ChunkSize
  <2>1. t \in Nat /\ q \in Nat /\ t <= q
    BY <1>2, Division, QuotientGrows DEF TypeOK
  <2>. HIDE DEF t, q
  <2>2. t \in Nat /\ 0..t \subseteq 0..q
    BY <2>1
  <2>. QED BY <2>2 DEF q
<1>3. CASE Missing({t}) # {}
  <2>1. UNCHANGED <<cached, filling, size, file>>
    BY <1>3 DEF Truncate
  <2>2. ~plain'
    <3>1. t \notin DOMAIN cached \cup DOMAIN remote
      BY <1>3 DEF Missing
    <3>2. plain /\ length <= size => t \in DOMAIN cached \cup DOMAIN remote
      <4>1. ASSUME length <= size
            PROVE  t \in 0..t
        BY <1>2, <4>1
      <4>. HIDE DEF t
      <4>. QED BY <1>2, <4>1 DEF ReadInv, PlainInv
    <3>. QED BY <1>1, <3>1, <3>2
  <2>. QED BY <1>1, <2>1, <2>2 DEF ReadInv, PlainInv, PlainFilesAreRead
<1>4. CASE Missing({t}) = {}
  <2>1. DOMAIN cached' = DOMAIN cached \cup {t}
    BY <1>4 DEF Truncate
  <2>2. /\ size' = length /\ down' = down
        /\ DOMAIN file' = {p \in DOMAIN file : p < length}
    BY <1>4 DEF Truncate, Restrict
  <2>3. t \in DOMAIN cached \cup DOMAIN remote
    BY <1>4 DEF Missing
  <2>. HIDE DEF t
  <2>4. DOMAIN cached' \subseteq dirty' \cup DOMAIN remote'
    BY <1>1, <2>1, <2>3 DEF ReadInv, PlainInv
  <2>5. ASSUME plain'
        PROVE  PlainInv'
    <3>1. plain /\ length <= size /\ filling' = {}
      BY <1>1, <2>5
    <3>2. 0..(length - 1) \subseteq DOMAIN file'
      <4>1. 0..(length - 1) \subseteq 0..(size - 1) /\ \A p \in 0..(length - 1) : p < length
        BY <3>1 DEF TypeOK
      <4>. QED BY <2>2, <3>1, <4>1 DEF ReadInv, PlainInv
    <3>3. 0..t \subseteq DOMAIN cached' \cup DOMAIN remote'
      BY <1>1, <1>2, <2>1, <3>1 DEF ReadInv, PlainInv
    <3>. QED BY <2>2, <2>4, <3>1, <3>2, <3>3 DEF PlainInv, t
  <2>. QED BY <1>1, <2>2, <2>4, <2>5 DEF ReadInv, PlainInv, PlainFilesAreRead
<1>. QED BY <1>3, <1>4

LEMMA PlainStep == TypeOK /\ KeptInv /\ ReadInv /\ [Next]_vars => ReadInv'
<1>. SUFFICES ASSUME TypeOK, KeptInv, ReadInv, [Next]_vars
              PROVE  ReadInv'
  OBVIOUS
<1>1. ASSUME NEW off \in 0..(MaxEnd - 1), NEW n \in 1..(MaxEnd - off), Write(off, n)
      PROVE  ReadInv'
  BY <1>1, PlainWrite
<1>2. ASSUME NEW off \in 0..(MaxEnd - 1), NEW n \in 1..(MaxEnd - off), Read(off, n)
      PROVE  ReadInv'
  BY <1>2, PlainRead, KeptStep
<1>3. ASSUME NEW length \in 0..MaxEnd, Truncate(length)
      PROVE  ReadInv'
  BY <1>3, PlainTruncate
<1>4. CASE Recreate
  <2>1. /\ DOMAIN cached' = DOMAIN cached \cup {0} /\ dirty' = dirty \cup {0}
        /\ size' = 0 /\ plain' = (filling = {})
        /\ UNCHANGED <<remote, filling, down>> /\ ~down
    BY <1>4 DEF Recreate, Call
  <2>2. DOMAIN cached' \subseteq dirty' \cup DOMAIN remote'
    BY <2>1 DEF ReadInv, PlainInv
  <2>3. 0..(size' - 1) = {} /\ 0..(size' \div ChunkSize) = {0}
    <3>1. 0 \div ChunkSize = 0
      BY ChunkZero
    <3>2. 0..(0 - 1) = {} /\ 0..0 = {0}
      OBVIOUS
    <3>. QED BY <2>1, <3>1, <3>2
  <2>. QED BY <2>1, <2>2, <2>3 DEF ReadInv, PlainInv, PlainFilesAreRead
<1>5. CASE Flush
  <2>1. /\ DOMAIN remote' = DOMAIN remote \cup (index \cap dirty)
        /\ DOMAIN cached' = DOMAIN cached \ index
        /\ dirty' = dirty \ index /\ filling' = filling \ index
        /\ UNCHANGED <<size, down, file, spoilt, plain>>
    BY <1>5 DEF Flush, Restrict, history
  <2>2. DOMAIN cached \cup DOMAIN remote \subseteq DOMAIN cached' \cup DOMAIN remote'
    BY <2>1 DEF ReadInv, PlainInv
  <2>3. DOMAIN cached' \subseteq dirty' \cup DOMAIN remote'
    BY <2>1 DEF ReadInv, PlainInv
  <2>. QED BY <2>1, <2>2, <2>3 DEF ReadInv, PlainInv, PlainFilesAreRead
<1>6. ASSUME NEW k \in filling, Receive(k)
      PROVE  ReadInv'
  <2>1. /\ ~plain /\ plain' = plain /\ DOMAIN cached' = DOMAIN cached
        /\ UNCHANGED <<dirty, remote>>
    BY <1>6 DEF ReadInv, PlainInv, Receive, history
  <2>. QED BY <2>1 DEF ReadInv, PlainInv, PlainFilesAreRead
<1>7. CASE UNCHANGED vars
  BY <1>7 DEF vars, chunkVars, history, ReadInv, PlainInv, PlainFilesAreRead
<1>. QED BY <1>1, <1>2, <1>3, <1>4, <1>5, <1>6, <1>7 DEF Next

LEMMA PlainInit == Init => ReadInv
<1>. SUFFICES ASSUME Init  PROVE ReadInv
  OBVIOUS
<1>1. DOMAIN cached = {0} /\ DOMAIN remote = {}
  BY EmptyData DEF Init
<1>2. size = 0 /\ filling = {} /\ dirty = {0} /\ ~down
  BY DEF Init
<1>3. 0..(size - 1) = {} /\ 0..(size \div ChunkSize) = {0}
  <2>1. 0 \div ChunkSize = 0
    BY ChunkZero
  <2>2. 0..(0 - 1) = {} /\ 0..0 = {0}
    OBVIOUS
  <2>. QED BY <1>2, <2>1, <2>2
<1>. QED BY <1>1, <1>2, <1>3 DEF ReadInv, PlainInv, PlainFilesAreRead

(***************************************************************************)
(* A file that was written from its beginning on, in requests that stay in *)
(* a chunk, can be read without the program ending, also after it was      *)
(* flushed, loaded again, truncated or removed and created again, whatever *)
(* the sizes of chunks and requests.  What is excepted is what plain and   *)
(* spoilt say: a call that went on before its retrieval was answered, a    *)
(* request across the end of a chunk or behind the end of the file, a      *)
(* truncation that extends the file, and bytes that a mishap has spoilt.   *)
(***************************************************************************)
THEOREM PlainFilesAreReadable == Spec => []PlainFilesAreRead
<1>1. ReadInv => PlainFilesAreRead
  BY DEF ReadInv
<1>. QED
  BY <1>1, TypeInit, TypeStep, KeptInit, KeptStep, PlainInit, PlainStep, PTL DEF Spec

=============================================================================
