------------------------- MODULE EntitySearchProofs -------------------------
(***************************************************************************)
(* What searches return and what updates leave alone, for every chunk      *)
(* size, grid, set of bounds and of searches.  Unlike the proofs of the    *)
(* index these look inside the chunk geometry: a chunk is in a range by a  *)
(* remainder, and the deduplication compares pixels with multiples of the  *)
(* chunk width.                                                            *)
(***************************************************************************)
EXTENDS EntitySearch, EntityIndexProofs, FiniteSetTheorems

USE ChunkWidthAssumption, ChunksPerAxisAssumption, MaxEntityIdAssumption,
    NoSpriteAssumption, BoundsAssumption

-----------------------------------------------------------------------------
(***************************************************************************)
(* Quotients and remainders.                                               *)
(***************************************************************************)
\* The quotient and the remainder of an integer.
LEMMA DivMod ==
    ASSUME NEW a \in Int, NEW n \in Nat \ {0}
    PROVE  /\ a \div n \in Int /\ a % n \in 0 .. n - 1
           /\ a = n * (a \div n) + (a % n)
OBVIOUS

\* There is one way only to write an integer as a multiple and a remainder.
LEMMA DivModUnique ==
    ASSUME NEW n \in Nat \ {0}, NEW q \in Int, NEW r \in 0 .. n - 1
    PROVE  (n * q + r) \div n = q /\ (n * q + r) % n = r
OBVIOUS

\* A multiple is larger by the width at least.
LEMMA Multiples ==
    ASSUME NEW n \in Nat \ {0}, NEW p \in Int, NEW q \in Int
    PROVE  /\ n * p \in Int
           /\ p < q => n * p + n <= n * q
           /\ p <= q => n * p <= n * q
           /\ n * p < n * q => p < q
<1>1. n * p \in Int /\ n * q \in Int /\ n * (q - p) = n * q - n * p
  OBVIOUS
<1>2. q - p >= 1 => n * (q - p) >= n
  OBVIOUS
<1>3. p < q => n * p + n <= n * q
  BY <1>1, <1>2
<1>4. q < p => n * q + n <= n * p
  <2>1. n * (p - q) = n * p - n * q
    OBVIOUS
  <2>2. p - q >= 1 => n * (p - q) >= n
    OBVIOUS
  <2>3. QED
    BY <1>1, <2>1, <2>2
<1>5. QED
  BY <1>1, <1>3, <1>4

\* Remainders may be taken of a difference before or after.
LEMMA ModOfDifference ==
    ASSUME NEW n \in Nat \ {0}, NEW a \in Int, NEW b \in Int
    PROVE  ((a % n) - (b % n)) % n = (a - b) % n
<1> DEFINE q == (a - b) \div n
           r == (a - b) % n
<1>1. /\ a \div n \in Int /\ a = n * (a \div n) + (a % n) /\ a % n \in Int
      /\ b \div n \in Int /\ b = n * (b \div n) + (b % n) /\ b % n \in Int
      /\ q \in Int /\ r \in 0 .. n - 1 /\ a - b = n * q + r
  BY DivMod
<1> HIDE DEF q, r
<1>2. PICK p \in Int : p = q - (a \div n) + (b \div n)
  BY <1>1
<1>3. n * p = n * q - n * (a \div n) + n * (b \div n)
  BY <1>1, <1>2
<1>4. (a % n) - (b % n) = n * p + r
  BY <1>1, <1>3
<1>5. (n * p + r) % n = r
  BY <1>1, DivModUnique
<1>6. QED
  BY <1>4, <1>5 DEF r

\* A number below the modulus is its own remainder, and stays it one modulus lower.
LEMMA ModOfSmall ==
    ASSUME NEW n \in Nat \ {0}, NEW a \in 0 .. n - 1
    PROVE  a % n = a /\ (a - n) % n = a
<1>1. n * 0 + a = a /\ n * (-1) + a = a - n
  OBVIOUS
<1>2. QED
  BY <1>1, DivModUnique

-----------------------------------------------------------------------------
(***************************************************************************)
(* One axis of a range: from the chunk of its first pixel to that of its   *)
(* last, less than the whole way round.                                    *)
(***************************************************************************)
\* odChunkCoord_init yields a chunk of the grid for every pixel.
LEMMA ChunkCoordType ==
    ASSUME NEW v \in Int
    PROVE  ChunkCoordOf(v) \in ChunkCoord
<1>1. v \div ChunkWidth \in Int
  BY DivMod
<1>2. QED
  BY <1>1, DivMod DEF ChunkCoordOf, ChunkCoord

\* The chunks between two pixels, as Span counts them.
LEMMA SpanOfPixels ==
    ASSUME NEW lo \in Int, NEW hi \in Int, lo < hi
    PROVE  /\ Span(lo, hi) \in Nat \ {0}
           /\ Span(lo, hi) < ChunksPerAxis => hi - lo < WorldWidth
           /\ \A p \in Int : lo <= p /\ p < hi =>
                 /\ p \div ChunkWidth \in Int
                 /\ lo \div ChunkWidth <= p \div ChunkWidth
                 /\ p \div ChunkWidth < (hi + ChunkWidth - 1) \div ChunkWidth
<1> DEFINE W == ChunkWidth
           a == lo \div W
           e == (hi + W - 1) \div W
<1>1. /\ W \in Nat \ {0} /\ hi + W - 1 \in Int
      /\ a \in Int /\ lo % W \in 0 .. W - 1 /\ lo = W * a + (lo % W)
      /\ e \in Int /\ (hi + W - 1) % W \in 0 .. W - 1
      /\ hi + W - 1 = W * e + ((hi + W - 1) % W)
  <2>1. W \in Nat \ {0} /\ hi + W - 1 \in Int
    OBVIOUS
  <2>2. a \in Int /\ lo % W \in 0 .. W - 1 /\ lo = W * a + (lo % W)
    BY <2>1, DivMod
  <2>3. PICK top \in Int : top = hi + W - 1
    BY <2>1
  <2>4. top \div W \in Int /\ top % W \in 0 .. W - 1 /\ top = W * (top \div W) + (top % W)
    BY <2>1, <2>3, DivMod
  <2>5. QED
    BY <2>1, <2>2, <2>3, <2>4
<1>2. W * a \in Int /\ W * e \in Int
  BY <1>1, Multiples
<1>3. W * a <= lo /\ hi <= W * e
  BY <1>1, <1>2
<1>4. ASSUME NEW p \in Int, lo <= p, p < hi
      PROVE  p \div W \in Int /\ a <= p \div W /\ p \div W < e
  <2> DEFINE q == p \div W
  <2>1. q \in Int /\ p % W \in 0 .. W - 1 /\ p = W * q + (p % W)
    BY <1>1, DivMod
  <2> HIDE DEF q
  <2>2. W * q \in Int
    BY <1>1, <2>1, Multiples
  <2>3. ~(q < a)
    <3>1. q < a => W * q + W <= W * a
      BY <1>1, <2>1, Multiples
    <3>2. QED
      BY <1>1, <1>2, <1>3, <1>4, <2>1, <2>2, <3>1
  <2>4. q < e
    <3>1. W * q < W * e => q < e
      BY <1>1, <2>1, Multiples
    <3>2. QED
      BY <1>1, <1>2, <1>3, <1>4, <2>1, <2>2, <3>1
  <2>5. QED
    BY <1>1, <2>1, <2>3, <2>4 DEF q
<1> HIDE DEF a, e
<1>5. Span(lo, hi) = e - a /\ a < e
  <2>1. a <= lo \div W /\ lo \div W < e
    BY <1>4
  <2>2. QED
    BY <1>1, <2>1 DEF Span, a, e
<1>6. ASSUME e - a < ChunksPerAxis
      PROVE  hi - lo < WorldWidth
  <2> DEFINE N == ChunksPerAxis
  <2>1. N \in Nat \ {0} /\ e - a \in Int
    BY <1>1
  <2>2. W * (e - a) + W <= W * N
    BY <1>1, <1>6, <2>1, Multiples
  <2>3. W * (e - a) = W * e - W * a /\ W * N \in Int
    BY <1>1, <2>1
  <2>4. QED
    BY <1>1, <1>2, <1>3, <2>2, <2>3 DEF WorldWidth
<1>7. QED
  BY <1>1, <1>4, <1>5, <1>6 DEF a, e

\* The range an axis of the iteration has, and the chunks in it.
LEMMA AxisRange ==
    ASSUME NEW lo \in Int, NEW hi \in Int, lo < hi, Span(lo, hi) < ChunksPerAxis
    PROVE  /\ AxisLength(ChunkCoordOf(lo), ChunkCoordOf(hi + ChunkWidth - 1)) = Span(lo, hi)
           /\ ChunkCoordOf(lo) # ChunkCoordOf(hi + ChunkWidth - 1)
           /\ \A p \in Int : lo <= p /\ p < hi =>
                 (ChunkCoordOf(p) - ChunkCoordOf(lo)) % ChunksPerAxis < Span(lo, hi)
<1> DEFINE W == ChunkWidth
           N == ChunksPerAxis
<1>1. PICK a \in Int, e \in Int : a = lo \div W /\ e = (hi + W - 1) \div W
  <2>1. hi + W - 1 \in Int /\ W \in Nat \ {0}
    OBVIOUS
  <2>2. QED
    BY <2>1, DivMod
<1>2. /\ Span(lo, hi) = e - a /\ e - a \in 1 .. N - 1 /\ N \in Nat \ {0}
      /\ \A p \in Int : lo <= p /\ p < hi =>
            p \div W \in Int /\ a <= p \div W /\ p \div W < e
  <2>1. Span(lo, hi) = e - a
    BY <1>1 DEF Span
  <2>2. Span(lo, hi) \in Nat \ {0}
    BY SpanOfPixels
  <2>3. \A p \in Int : lo <= p /\ p < hi =>
            p \div W \in Int /\ a <= p \div W /\ p \div W < e
    BY <1>1, SpanOfPixels
  <2>4. QED
    BY <2>1, <2>2, <2>3
<1>3. ChunkCoordOf(lo) = a % N /\ ChunkCoordOf(hi + W - 1) = e % N
  BY <1>1 DEF ChunkCoordOf
<1>4. a % N \in 0 .. N - 1 /\ e % N \in 0 .. N - 1
  BY <1>2, DivMod
<1>5. (((e % N) - (a % N)) - 1) % N = (e - a) - 1
  <2>1. (e - 1) - a \in 0 .. N - 1 /\ ((e - 1) - a) % N = (e - 1) - a
    BY <1>2, ModOfSmall, SMTT(30)
  <2> DEFINE d == (e % N) - (a % N)
  <2>2. d % N = (e - a) % N
    BY <1>2, ModOfDifference
  <2>3. d \in Int /\ e - a \in Int /\ 1 \in Int
    BY <1>4
  <2>4. ((d % N) - (1 % N)) % N = (d - 1) % N
    BY <1>2, <2>3, ModOfDifference
  <2> HIDE DEF d
  <2>5. (((e - a) % N) - (1 % N)) % N = ((e - a) - 1) % N
    BY <1>2, <2>3, ModOfDifference
  <2>6. (d - 1) % N = ((e - a) - 1) % N
    BY <2>2, <2>4, <2>5
  <2>7. (e - 1) - a = (e - a) - 1
    OBVIOUS
  <2>8. QED
    BY <2>1, <2>6, <2>7 DEF d
<1>6. AxisLength(ChunkCoordOf(lo), ChunkCoordOf(hi + W - 1)) = Span(lo, hi)
  BY <1>2, <1>3, <1>5 DEF AxisLength
<1>7. a % N # e % N
  <2>1. ((e % N) - (a % N)) % N = e - a
    <3>1. ((e % N) - (a % N)) % N = (e - a) % N
      BY <1>2, ModOfDifference
    <3>2. e - a \in 0 .. N - 1
      BY <1>2
    <3>3. QED
      BY <1>2, <3>1, <3>2, ModOfSmall
  <2>2. SUFFICES ASSUME a % N = e % N PROVE FALSE
    OBVIOUS
  <2>3. (e % N) - (a % N) = 0 /\ 0 % N = 0
    BY <1>2, <1>4, <2>2, ModOfSmall
  <2>4. QED
    BY <1>2, <2>1, <2>3
<1>8. ASSUME NEW p \in Int, lo <= p, p < hi
      PROVE  (ChunkCoordOf(p) - ChunkCoordOf(lo)) % N < Span(lo, hi)
  <2>1. PICK q \in Int : q = p \div W /\ a <= q /\ q < e
    BY <1>2, <1>8
  <2>2. ChunkCoordOf(p) = q % N
    BY <2>1 DEF ChunkCoordOf
  <2>3. ((q % N) - (a % N)) % N = (q - a) % N
    BY <1>2, <2>1, ModOfDifference
  <2>4. q - a \in 0 .. N - 1 /\ q - a < e - a
    BY <1>2, <2>1
  <2>5. (q - a) % N = q - a
    BY <1>2, <2>4, ModOfSmall
  <2>6. QED
    BY <1>2, <1>3, <2>2, <2>3, <2>4, <2>5
<1>9. QED
  BY <1>3, <1>6, <1>7, <1>8

\* Within the world the chunks of an axis are those from the first to the last, and
\* none is reached by wrapping.
LEMMA AxisInWorld ==
    ASSUME NEW lo \in Int, NEW hi \in Int, 0 <= lo, lo < hi, hi <= WorldWidth,
           Span(lo, hi) < ChunksPerAxis, NEW v \in ChunkCoord
    PROVE  /\ ChunkCoordOf(lo) = lo \div ChunkWidth
           /\ (v - ChunkCoordOf(lo)) % ChunksPerAxis < Span(lo, hi) <=>
                 lo \div ChunkWidth <= v /\ v * ChunkWidth < hi
<1> DEFINE W == ChunkWidth
           N == ChunksPerAxis
<1>1. W \in Nat \ {0} /\ N \in Nat \ {0} /\ hi + W - 1 \in Int /\ v \in 0 .. N - 1
  BY DEF ChunkCoord
<1>2. PICK a \in Int, r \in 0 .. W - 1 : a = lo \div W /\ lo = W * a + r
  BY <1>1, DivMod
<1>3. PICK e \in Int, t \in 0 .. W - 1 : e = (hi + W - 1) \div W /\ hi + W - 1 = W * e + t
  <2>1. PICK top \in Int : top = hi + W - 1
    BY <1>1
  <2>2. top \div W \in Int /\ top % W \in 0 .. W - 1 /\ top = W * (top \div W) + (top % W)
    BY <1>1, <2>1, DivMod
  <2>3. QED
    BY <2>1, <2>2
<1>4. /\ W * a \in Int /\ W * e \in Int /\ W * v \in Int /\ W * N \in Int /\ W * 0 = 0
      /\ v * W = W * v /\ WorldWidth = W * N
  BY <1>1, <1>2, <1>3, Multiples DEF WorldWidth
<1>5. 0 <= a /\ a < N
  <2>1. a < 0 => W * a + W <= W * 0
    BY <1>1, <1>2, Multiples
  <2>2. W * a < W * N => a < N
    BY <1>1, <1>2, Multiples
  <2>3. QED
    BY <1>1, <1>2, <1>4, <2>1, <2>2
<1>6. e <= N
  <2>1. N < e => W * N + W <= W * e
    BY <1>1, <1>3, Multiples
  <2>2. QED
    BY <1>1, <1>3, <1>4, <2>1
<1>7. v < e <=> W * v < hi
  <2>1. v < e => W * v + W <= W * e
    BY <1>1, <1>3, Multiples
  <2>2. W * v < W * e => v < e
    BY <1>1, <1>3, Multiples
  <2>3. hi <= W * e /\ W * e <= hi + W - 1
    BY <1>1, <1>3, <1>4
  <2>4. QED
    BY <1>1, <1>3, <1>4, <2>1, <2>2, <2>3
<1>8. a \in 0 .. N - 1 /\ a % N = a /\ ChunkCoordOf(lo) = a
  <2>1. a \in 0 .. N - 1
    BY <1>1, <1>2, <1>5
  <2>2. a % N = a
    BY <1>1, <2>1, ModOfSmall
  <2>3. QED
    BY <1>2, <2>1, <2>2 DEF ChunkCoordOf
<1>9. Span(lo, hi) = e - a
  BY <1>2, <1>3 DEF Span
<1>10. CASE a <= v
  <2>1. v - a \in 0 .. N - 1
    BY <1>1, <1>8, <1>10
  <2>2. (v - a) % N = v - a
    BY <1>1, <2>1, ModOfSmall
  <2>3. v - a < e - a <=> v < e
    BY <1>1, <1>2, <1>3
  <2>4. QED
    BY <1>2, <1>4, <1>7, <1>8, <1>9, <1>10, <2>2, <2>3
<1>11. CASE v < a
  <2>1. (v - a) + N \in 0 .. N - 1 /\ ((v - a) + N) - N = v - a
    BY <1>1, <1>8, <1>11
  <2>2. (((v - a) + N) - N) % N = (v - a) + N
    BY <1>1, <2>1, ModOfSmall
  <2>3. (v - a) % N = (v - a) + N
    BY <2>1, <2>2
  <2>4. ~((v - a) + N < e - a) /\ ~(a <= v)
    BY <1>1, <1>2, <1>3, <1>6, <1>11
  <2>5. QED
    BY <1>2, <1>8, <1>9, <2>3, <2>4
<1>12. QED
  BY <1>1, <1>2, <1>8, <1>10, <1>11

-----------------------------------------------------------------------------
(***************************************************************************)
(* The chunks of bounds, and the order in which a search visits them.      *)
(***************************************************************************)

\* The chunk is in the columns and rows of the bounds.
InRange(b, c) ==
    /\ (c[1] - ChunkCoordOf(b.x1)) % ChunksPerAxis < Span(b.x1, b.x2)
    /\ (c[2] - ChunkCoordOf(b.y1)) % ChunksPerAxis < Span(b.y1, b.y2)

\* The iterator visits the chunks in the columns and rows of the bounds, no others.
LEMMA RegularRange ==
    ASSUME NEW b \in ValidBounds, Regular(b)
    PROVE  /\ ChunkRange(b).x1 = ChunkCoordOf(b.x1) /\ ChunkRange(b).y1 = ChunkCoordOf(b.y1)
           /\ AxisLength(ChunkRange(b).x1, ChunkRange(b).x2) = Span(b.x1, b.x2)
           /\ AxisLength(ChunkRange(b).y1, ChunkRange(b).y2) = Span(b.y1, b.y2)
           /\ Visited(b) = {c \in ChunkId : InRange(b, c)}
<1>1. /\ b.x1 \in Int /\ b.x2 \in Int /\ b.y1 \in Int /\ b.y2 \in Int
      /\ b.x1 < b.x2 /\ b.y1 < b.y2
      /\ Span(b.x1, b.x2) < ChunksPerAxis /\ Span(b.y1, b.y2) < ChunksPerAxis
  BY DEF ValidBounds, Regular
<1>2. ~(b.x2 - b.x1 >= WorldWidth) /\ ~(b.y2 - b.y1 >= WorldWidth)
  <2>1. WorldWidth \in Int
    BY DEF WorldWidth
  <2>2. b.x2 - b.x1 < WorldWidth /\ b.y2 - b.y1 < WorldWidth
    BY <1>1, SpanOfPixels
  <2>3. QED
    BY <1>1, <2>1, <2>2
<1>3. ChunkRange(b) = [x1 |-> ChunkCoordOf(b.x1), y1 |-> ChunkCoordOf(b.y1),
                       x2 |-> ChunkCoordOf(b.x2 + ChunkWidth - 1),
                       y2 |-> ChunkCoordOf(b.y2 + ChunkWidth - 1)]
  <2>1. b.x1 # b.x2 /\ b.y1 # b.y2
    BY <1>1
  <2>2. QED
    BY <1>2, <2>1 DEF ChunkRange
<1>4. /\ AxisLength(ChunkCoordOf(b.x1), ChunkCoordOf(b.x2 + ChunkWidth - 1))
            = Span(b.x1, b.x2)
      /\ AxisLength(ChunkCoordOf(b.y1), ChunkCoordOf(b.y2 + ChunkWidth - 1))
            = Span(b.y1, b.y2)
      /\ ChunkCoordOf(b.x1) # ChunkCoordOf(b.x2 + ChunkWidth - 1)
  BY <1>1, AxisRange
<1>5. QED
  BY <1>3, <1>4 DEF Visited, InRange

\* A step of so many chunks from the first wraps to a chunk of the range, each chunk
\* of the range is reached by its own.
LEMMA AxisSteps ==
    ASSUME NEW first \in ChunkCoord
    PROVE  /\ \A i \in 0 .. ChunksPerAxis - 1 :
                 /\ (first + i) % ChunksPerAxis \in ChunkCoord
                 /\ (((first + i) % ChunksPerAxis) - first) % ChunksPerAxis = i
           /\ \A v \in ChunkCoord :
                 /\ (v - first) % ChunksPerAxis \in 0 .. ChunksPerAxis - 1
                 /\ (first + ((v - first) % ChunksPerAxis)) % ChunksPerAxis = v
<1> DEFINE N == ChunksPerAxis
<1>1. N \in Nat \ {0} /\ first \in 0 .. N - 1 /\ first % N = first
  <2>1. N \in Nat \ {0} /\ first \in 0 .. N - 1
    BY DEF ChunkCoord
  <2>2. QED
    BY <2>1, ModOfSmall
<1>2. ASSUME NEW i \in 0 .. N - 1
      PROVE  (first + i) % N \in ChunkCoord /\ (((first + i) % N) - first) % N = i
  <2>1. i % N = i
    BY <1>1, <1>2, ModOfSmall
  <2>2. PICK a \in Int : a = first + i /\ a - first = i
    BY <1>1, <1>2
  <2>3. first \in Int /\ N \in Nat \ {0}
    BY <1>1
  <2>4. ((a % N) - (first % N)) % N = (a - first) % N
    BY <2>3, ModOfDifference
  <2>5. a % N \in 0 .. N - 1
    BY <2>3, DivMod
  <2>6. QED
    BY <1>1, <2>1, <2>2, <2>4, <2>5 DEF ChunkCoord
<1>3. ASSUME NEW v \in ChunkCoord
      PROVE  (v - first) % N \in 0 .. N - 1 /\ (first + ((v - first) % N)) % N = v
  <2>1. v \in 0 .. N - 1 /\ v % N = v
    <3>1. v \in 0 .. N - 1
      BY DEF ChunkCoord
    <3>2. QED
      BY <1>1, <3>1, ModOfSmall
  <2>2. PICK d \in Int : d = (v - first) % N /\ d \in 0 .. N - 1
    <3>1. PICK t \in Int : t = v - first
      BY <1>1, <2>1
    <3>2. t % N \in 0 .. N - 1
      BY <1>1, DivMod
    <3>3. \A z \in 0 .. N - 1 : z \in Int
      BY <1>1
    <3>4. QED
      BY <3>1, <3>2, <3>3
  <2>3. CASE first <= v
    <3>1. v - first \in 0 .. N - 1
      BY <1>1, <2>1, <2>3
    <3>2. d = v - first
      BY <1>1, <2>2, <3>1, ModOfSmall
    <3>3. first + d = v
      BY <1>1, <2>1, <3>2
    <3>4. QED
      BY <2>1, <2>2, <3>3
  <2>4. CASE v < first
    <3>1. (v - first) + N \in 0 .. N - 1 /\ ((v - first) + N) - N = v - first
      BY <1>1, <2>1, <2>4
    <3>2. (((v - first) + N) - N) % N = (v - first) + N
      BY <1>1, <3>1, ModOfSmall
    <3>3. d = (v - first) + N
      BY <2>2, <3>1, <3>2
    <3>4. first + d = N * 1 + v
      BY <1>1, <2>1, <3>3
    <3>5. (N * 1 + v) % N = v
      BY <1>1, <2>1, DivModUnique
    <3>6. QED
      BY <2>2, <3>4, <3>5
  <2>5. QED
    BY <1>1, <2>1, <2>3, <2>4
<1>4. QED
  BY <1>2, <1>3

\* The number of a place in a table of so many columns, and its column and row.
LEMMA TablePlaces ==
    ASSUME NEW columns \in Nat \ {0}, NEW rows \in Nat \ {0}
    PROVE  /\ \A k \in 1 .. columns * rows :
                 /\ (k - 1) % columns \in 0 .. columns - 1
                 /\ (k - 1) \div columns \in 0 .. rows - 1
                 /\ k = columns * ((k - 1) \div columns) + ((k - 1) % columns) + 1
           /\ \A i \in 0 .. columns - 1, j \in 0 .. rows - 1 :
                 /\ columns * j + i + 1 \in 1 .. columns * rows
                 /\ (columns * j + i) % columns = i
                 /\ (columns * j + i) \div columns = j
<1>1. columns * rows \in Nat /\ columns * 0 = 0
  OBVIOUS
<1>2. ASSUME NEW k \in 1 .. columns * rows
      PROVE  /\ (k - 1) % columns \in 0 .. columns - 1
             /\ (k - 1) \div columns \in 0 .. rows - 1
             /\ k = columns * ((k - 1) \div columns) + ((k - 1) % columns) + 1
  <2>1. PICK q \in Int, r \in 0 .. columns - 1 :
           /\ q = (k - 1) \div columns /\ r = (k - 1) % columns /\ k - 1 = columns * q + r
    <3>1. PICK t \in Int : t = k - 1
      BY <1>1
    <3>2. /\ t \div columns \in Int /\ t % columns \in 0 .. columns - 1
          /\ t = columns * (t \div columns) + (t % columns)
      BY DivMod
    <3>3. QED
      BY <3>1, <3>2
  <2>2. columns * q \in Int
    BY <2>1, Multiples
  <2>3. ~(q < 0)
    <3>1. q < 0 => columns * q + columns <= columns * 0
      BY <2>1, Multiples
    <3>2. QED
      BY <1>1, <2>1, <2>2, <3>1
  <2>4. q < rows
    <3>1. columns * q < columns * rows => q < rows
      BY <2>1, Multiples
    <3>2. QED
      BY <1>1, <2>1, <2>2, <3>1
  <2>5. QED
    BY <1>1, <2>1, <2>2, <2>3, <2>4
<1>3. ASSUME NEW i \in 0 .. columns - 1, NEW j \in 0 .. rows - 1
      PROVE  /\ columns * j + i + 1 \in 1 .. columns * rows
             /\ (columns * j + i) % columns = i
             /\ (columns * j + i) \div columns = j
  <2>1. (columns * j + i) % columns = i /\ (columns * j + i) \div columns = j
    BY DivModUnique
  <2>2. columns * j + columns <= columns * rows /\ columns * 0 <= columns * j
    BY Multiples
  <2>3. columns * j \in Int
    BY Multiples
  <2>4. QED
    BY <1>1, <2>1, <2>2, <2>3
<1>4. QED
  BY <1>2, <1>3

\* A search visits each chunk of its bounds once.
LEMMA VisitOrderVisits ==
    ASSUME NEW b \in ValidBounds, Regular(b)
    PROVE  LET order == VisitOrder(b)
               n == Span(b.x1, b.x2) * Span(b.y1, b.y2)
           IN  /\ n \in Nat \ {0} /\ n <= ChunksPerAxis * ChunksPerAxis
               /\ order \in [1 .. n -> Visited(b)]
               /\ \A j, k \in 1 .. n : order[j] = order[k] => j = k
               /\ \A c \in Visited(b) : \E k \in 1 .. n : order[k] = c
<1> DEFINE order == VisitOrder(b)
           N == ChunksPerAxis
<1>1. /\ b.x1 \in Int /\ b.x2 \in Int /\ b.y1 \in Int /\ b.y2 \in Int
      /\ b.x1 < b.x2 /\ b.y1 < b.y2
      /\ Span(b.x1, b.x2) < N /\ Span(b.y1, b.y2) < N
  BY DEF ValidBounds, Regular
<1>2. PICK x \in ChunkCoord, y \in ChunkCoord :
         x = ChunkCoordOf(b.x1) /\ y = ChunkCoordOf(b.y1)
  BY <1>1, ChunkCoordType
<1>3. PICK columns \in Nat \ {0}, rows \in Nat \ {0} :
         /\ columns = Span(b.x1, b.x2) /\ rows = Span(b.y1, b.y2)
         /\ columns < N /\ rows < N
  BY <1>1, SpanOfPixels
<1>4. Visited(b) = {c \in ChunkId : /\ (c[1] - x) % N < columns
                                    /\ (c[2] - y) % N < rows}
  BY <1>2, <1>3, RegularRange DEF InRange
<1>5. Visited(b) # {}
  <2>1. <<x, y>> \in ChunkId /\ x - x = 0 /\ y - y = 0
    BY <1>2 DEF ChunkId, ChunkCoord
  <2>2. 0 % N = 0
    BY ModOfSmall
  <2>3. QED
    BY <1>3, <1>4, <2>1, <2>2
<1>6. order = [k \in 1 .. columns * rows |->
                 <<(x + ((k - 1) % columns)) % N, (y + ((k - 1) \div columns)) % N>>]
  <2>1. /\ ChunkRange(b).x1 = x /\ ChunkRange(b).y1 = y
        /\ AxisLength(ChunkRange(b).x1, ChunkRange(b).x2) = columns
        /\ AxisLength(ChunkRange(b).y1, ChunkRange(b).y2) = rows
    BY <1>2, <1>3, RegularRange
  <2>2. QED
    BY <1>5, <2>1 DEF VisitOrder
<1> HIDE DEF order
<1>7. /\ \A i \in 0 .. columns - 1 :
            (x + i) % N \in ChunkCoord /\ (((x + i) % N) - x) % N = i
      /\ \A i \in 0 .. rows - 1 :
            (y + i) % N \in ChunkCoord /\ (((y + i) % N) - y) % N = i
  <2>1. 0 .. columns - 1 \subseteq 0 .. N - 1 /\ 0 .. rows - 1 \subseteq 0 .. N - 1
    BY <1>3
  <2>2. QED
    BY <1>2, <2>1, AxisSteps
<1>8. ASSUME NEW k \in 1 .. columns * rows
      PROVE  /\ order[k] \in Visited(b)
             /\ (order[k][1] - x) % N = (k - 1) % columns
             /\ (order[k][2] - y) % N = (k - 1) \div columns
  <2>1. /\ (k - 1) % columns \in 0 .. columns - 1
        /\ (k - 1) \div columns \in 0 .. rows - 1
    BY <1>3, TablePlaces
  <2>2. order[k] = <<(x + ((k - 1) % columns)) % N, (y + ((k - 1) \div columns)) % N>>
    BY <1>6
  <2>3. /\ (order[k][1] - x) % N = (k - 1) % columns
        /\ (order[k][2] - y) % N = (k - 1) \div columns
        /\ order[k] \in ChunkId
    BY <1>7, <2>1, <2>2 DEF ChunkId
  <2>4. (order[k][1] - x) % N < columns /\ (order[k][2] - y) % N < rows
    BY <1>3, <2>1, <2>3
  <2>5. QED
    BY <1>4, <2>3, <2>4
<1>9. ASSUME NEW j \in 1 .. columns * rows, NEW k \in 1 .. columns * rows,
             order[j] = order[k]
      PROVE  j = k
  <2>1. (j - 1) % columns = (k - 1) % columns /\ (j - 1) \div columns = (k - 1) \div columns
    BY <1>8, <1>9
  <2>2. /\ j = columns * ((j - 1) \div columns) + ((j - 1) % columns) + 1
        /\ k = columns * ((k - 1) \div columns) + ((k - 1) % columns) + 1
    BY <1>3, TablePlaces
  <2>3. QED
    BY <2>1, <2>2
<1>10. ASSUME NEW c \in Visited(b)
       PROVE  \E k \in 1 .. columns * rows : order[k] = c
  <2>1. /\ c = <<c[1], c[2]>> /\ c[1] \in ChunkCoord /\ c[2] \in ChunkCoord
        /\ (c[1] - x) % N < columns /\ (c[2] - y) % N < rows
    BY <1>4 DEF ChunkId
  <2>2. PICK i \in 0 .. columns - 1, j \in 0 .. rows - 1 :
           /\ i = (c[1] - x) % N /\ j = (c[2] - y) % N
           /\ (x + i) % N = c[1] /\ (y + j) % N = c[2]
    <3>1. /\ (c[1] - x) % N \in 0 .. N - 1 /\ (c[2] - y) % N \in 0 .. N - 1
          /\ (x + ((c[1] - x) % N)) % N = c[1] /\ (y + ((c[2] - y) % N)) % N = c[2]
      BY <1>2, <2>1, AxisSteps
    <3>2. (c[1] - x) % N \in 0 .. columns - 1 /\ (c[2] - y) % N \in 0 .. rows - 1
      BY <1>3, <2>1, <3>1
    <3>3. QED
      BY <3>1, <3>2
  <2>3. /\ columns * j + i + 1 \in 1 .. columns * rows
        /\ (columns * j + i) % columns = i /\ (columns * j + i) \div columns = j
    <3>1. \A u \in 0 .. columns - 1, w \in 0 .. rows - 1 :
             /\ columns * w + u + 1 \in 1 .. columns * rows
             /\ (columns * w + u) % columns = u
             /\ (columns * w + u) \div columns = w
      BY TablePlaces
    <3>2. QED
      BY <3>1
  <2>4. PICK k \in 1 .. columns * rows : k - 1 = columns * j + i
    <3>1. columns * j + i \in Int /\ (columns * j + i + 1) - 1 = columns * j + i
      BY <1>3, <2>2
    <3>2. QED
      BY <2>3, <3>1
  <2>5. order[k] = <<(x + i) % N, (y + j) % N>>
    BY <1>6, <2>3, <2>4
  <2>6. QED
    BY <2>1, <2>2, <2>5
<1>11. columns * rows \in Nat \ {0} /\ columns * rows <= N * N
  <2>1. columns * rows \in Int /\ N * N \in Int
    OBVIOUS
  <2>2. columns * 1 <= columns * rows /\ columns * 1 = columns
    BY <1>3, Multiples
  <2>3. columns * rows <= columns * N
    BY <1>3, Multiples
  <2>4. N * columns <= N * N /\ N * columns = columns * N
    BY <1>3, Multiples
  <2>5. QED
    BY <1>3, <2>1, <2>2, <2>3, <2>4
<1>12. order \in [1 .. columns * rows -> Visited(b)]
  BY <1>6, <1>8
<1>13. QED
  BY <1>3, <1>9, <1>10, <1>11, <1>12 DEF order

-----------------------------------------------------------------------------
(***************************************************************************)
(* One answer after another: FlattenSeq, whose recursion has a solution at *)
(* every length.                                                           *)
(***************************************************************************)
FlattenedUpTo(flat, seqs, n) ==
    flat = [i \in 1 .. n |-> IF i = 1 THEN seqs[i] ELSE flat[i - 1] \o seqs[i]]

\* One more sequence extends the solution by one.
LEMMA FlattenedExtends ==
    ASSUME NEW seqs, NEW n \in Nat, NEW f, FlattenedUpTo(f, seqs, n)
    PROVE  \E g : FlattenedUpTo(g, seqs, n + 1)
<1> DEFINE last == IF n + 1 = 1 THEN seqs[n + 1] ELSE f[n] \o seqs[n + 1]
           g == [i \in 1 .. n + 1 |-> IF i = n + 1 THEN last ELSE f[i]]
<1>1. \A i \in 1 .. n : f[i] = IF i = 1 THEN seqs[i] ELSE f[i - 1] \o seqs[i]
  BY DEF FlattenedUpTo
<1>2. ASSUME NEW i \in 1 .. n + 1
      PROVE  g[i] = IF i = 1 THEN seqs[i] ELSE g[i - 1] \o seqs[i]
  <2>1. CASE i = n + 1 /\ i = 1
    BY <2>1
  <2>2. CASE i = n + 1 /\ i # 1
    <3>1. i - 1 = n /\ n \in 1 .. n + 1 /\ n # n + 1
      BY <2>2
    <3>2. g[i] = last /\ g[i - 1] = f[n]
      BY <2>2, <3>1
    <3>3. QED
      BY <2>2, <3>1, <3>2
  <2>3. CASE i = 1 /\ i # n + 1
    <3>1. i \in 1 .. n
      BY <2>3
    <3>2. QED
      BY <1>1, <2>3, <3>1
  <2>4. CASE i # n + 1 /\ i # 1
    <3>1. /\ i \in 1 .. n /\ i - 1 \in 1 .. n /\ i - 1 \in 1 .. n + 1
          /\ i - 1 # n + 1
      BY <2>4
    <3>2. g[i] = f[i] /\ g[i - 1] = f[i - 1]
      BY <2>4, <3>1
    <3>3. QED
      BY <1>1, <2>4, <3>1, <3>2
  <2>5. QED
    BY <2>1, <2>2, <2>3, <2>4
<1>3. g = [i \in 1 .. n + 1 |-> IF i = 1 THEN seqs[i] ELSE g[i - 1] \o seqs[i]]
  BY <1>2
<1>4. QED
  BY <1>3 DEF FlattenedUpTo

\* So there is one for all of them.
LEMMA FlattenedExists ==
    ASSUME NEW seqs, NEW n \in Nat
    PROVE  \E f : FlattenedUpTo(f, seqs, n)
<1> DEFINE T == {k \in Nat : ~\E f : FlattenedUpTo(f, seqs, k)}
<1> SUFFICES ASSUME T # {} PROVE FALSE
  OBVIOUS
<1>1. PICK k \in T : \A j \in T : k <= j
  BY FirstExists
<1>2. k # 0
  <2> DEFINE f == [i \in 1 .. 0 |-> << >>]
  <2>1. f = [i \in 1 .. 0 |-> IF i = 1 THEN seqs[i] ELSE f[i - 1] \o seqs[i]]
    OBVIOUS
  <2>2. FlattenedUpTo(f, seqs, 0)
    BY <2>1 DEF FlattenedUpTo
  <2>3. QED
    BY <2>2
<1>3. k - 1 \in Nat /\ k - 1 \notin T
  BY <1>1, <1>2
<1>4. PICK f : FlattenedUpTo(f, seqs, k - 1)
  BY <1>3
<1>5. \E g : FlattenedUpTo(g, seqs, (k - 1) + 1)
  BY <1>3, <1>4, FlattenedExtends
<1>6. (k - 1) + 1 = k
  BY <1>1
<1>7. QED
  BY <1>1, <1>5, <1>6

\* FlattenSeq is the last value of that solution.
LEMMA FlattenedIs ==
    ASSUME NEW seqs, Len(seqs) \in Nat \ {0}
    PROVE  \E f : FlattenedUpTo(f, seqs, Len(seqs)) /\ FlattenSeq(seqs) = f[Len(seqs)]
<1> DEFINE f == CHOOSE f : FlattenedUpTo(f, seqs, Len(seqs))
<1>1. FlattenedUpTo(f, seqs, Len(seqs))
  BY FlattenedExists
<1>2. FlattenSeq(seqs) = f[Len(seqs)]
  BY DEF FlattenSeq, FlattenedUpTo
<1>3. QED
  BY <1>1, <1>2

\* An element is in no place of a sequence.
Absent(s, x) == \A i \in 1 .. Len(s) : s[i] # x

\* An element is in one place of a sequence.
Once(s, x) ==
    \E i \in 1 .. Len(s) : s[i] = x /\ \A j \in 1 .. Len(s) : s[j] = x => j = i

\* How often an element is in two sequences one after the other.
LEMMA ConcatOnce ==
    ASSUME NEW S, NEW s \in Seq(S), NEW t \in Seq(S), NEW x
    PROVE  /\ Absent(s, x) /\ Absent(t, x) => Absent(s \o t, x)
           /\ Once(s, x) /\ Absent(t, x) => Once(s \o t, x)
           /\ Absent(s, x) /\ Once(t, x) => Once(s \o t, x)
<1> DEFINE m == Len(s)
           n == Len(t)
           u == s \o t
<1>1. /\ m \in Nat /\ n \in Nat /\ Len(u) = m + n
      /\ \A i \in 1 .. m + n : u[i] = IF i <= m THEN s[i] ELSE t[i - m]
  BY ConcatProperties
<1> HIDE DEF u
<1>2. /\ \A i \in 1 .. m : i \in 1 .. m + n /\ u[i] = s[i]
      /\ \A i \in 1 .. n : m + i \in 1 .. m + n /\ u[m + i] = t[i]
  <2>1. \A i \in 1 .. m : i \in 1 .. m + n /\ i <= m
    BY <1>1
  <2>2. \A i \in 1 .. n : m + i \in 1 .. m + n /\ ~(m + i <= m) /\ (m + i) - m = i
    BY <1>1
  <2>3. QED
    BY <1>1, <2>1, <2>2
<1>3. ASSUME NEW i \in 1 .. m + n
      PROVE  i \in 1 .. m \/ \E j \in 1 .. n : i = m + j
  <2>1. i \in 1 .. m \/ (i - m \in 1 .. n /\ i = m + (i - m))
    BY <1>1
  <2>2. QED
    BY <2>1
<1>4. ASSUME Absent(s, x), Absent(t, x)
      PROVE  Absent(u, x)
  <2>1. ASSUME NEW i \in 1 .. m + n
        PROVE  u[i] # x
    <3>1. CASE i \in 1 .. m
      BY <1>2, <1>4, <3>1 DEF Absent
    <3>2. ASSUME NEW j \in 1 .. n, i = m + j
          PROVE  u[i] # x
      BY <1>2, <1>4, <3>2 DEF Absent
    <3>3. QED
      BY <1>3, <3>1, <3>2
  <2>2. QED
    BY <1>1, <2>1 DEF Absent
<1>5. ASSUME Once(s, x), Absent(t, x)
      PROVE  Once(u, x)
  <2>1. PICK i \in 1 .. m : s[i] = x /\ \A j \in 1 .. m : s[j] = x => j = i
    BY <1>5 DEF Once
  <2>2. \A j \in 1 .. m + n : u[j] = x => j = i
    BY <1>2, <1>3, <1>5, <2>1, ZenonT(60) DEF Absent
  <2>3. QED
    BY <1>1, <1>2, <2>1, <2>2 DEF Once
<1>6. ASSUME Absent(s, x), Once(t, x)
      PROVE  Once(u, x)
  <2>1. PICK i \in 1 .. n : t[i] = x /\ \A j \in 1 .. n : t[j] = x => j = i
    BY <1>6 DEF Once
  <2>2. ASSUME NEW j \in 1 .. m + n, u[j] = x
        PROVE  j = m + i
    <3>1. j \notin 1 .. m
      BY <1>2, <1>6, <2>2 DEF Absent
    <3>2. PICK l \in 1 .. n : j = m + l
      BY <1>3, <3>1
    <3>3. l = i
      BY <1>2, <2>1, <2>2, <3>2
    <3>4. QED
      BY <3>2, <3>3
  <2>3. QED
    BY <1>1, <1>2, <2>1, <2>2 DEF Once
<1>7. QED
  BY <1>4, <1>5, <1>6 DEF u

\* What all the answers together hold of an element that is in one of them once.
LEMMA FlattenKeeps ==
    ASSUME NEW S, NEW seqs \in Seq(Seq(S)), Len(seqs) # 0, NEW x,
           NEW most \in Nat, \A k \in 1 .. Len(seqs) : Len(seqs[k]) <= most
    PROVE  /\ FlattenSeq(seqs) \in Seq(S)
           /\ Len(FlattenSeq(seqs)) <= most * Len(seqs)
           /\ \A k \in 1 .. Len(seqs) : Len(seqs[k]) <= Len(FlattenSeq(seqs))
           /\ \A k \in 1 .. Len(seqs) :
                 /\ Once(seqs[k], x)
                 /\ \A j \in 1 .. Len(seqs) : j # k => Absent(seqs[j], x)
                 => Once(FlattenSeq(seqs), x)
<1> DEFINE n == Len(seqs)
<1>1. n \in Nat \ {0} /\ \A k \in 1 .. n : seqs[k] \in Seq(S)
  OBVIOUS
<1>2. PICK f : FlattenedUpTo(f, seqs, n) /\ FlattenSeq(seqs) = f[n]
  BY <1>1, FlattenedIs
<1> DEFINE Right(k) ==
             /\ f[k] \in Seq(S) /\ Len(f[k]) <= most * k
             /\ \A j \in 1 .. k : Len(seqs[j]) <= Len(f[k])
             /\ (\A j \in 1 .. k : Absent(seqs[j], x)) => Absent(f[k], x)
             /\ \A j \in 1 .. k :
                   /\ Once(seqs[j], x)
                   /\ \A i \in 1 .. k : i # j => Absent(seqs[i], x)
                   => Once(f[k], x)
           T == {k \in 1 .. n : ~Right(k)}
<1>3. \A k \in 1 .. n : f[k] = IF k = 1 THEN seqs[k] ELSE f[k - 1] \o seqs[k]
  BY <1>2 DEF FlattenedUpTo
<1>4. Right(1)
  <2>1. 1 \in 1 .. n /\ \A j \in 1 .. 1 : j = 1
    BY <1>1
  <2>2. f[1] = seqs[1] /\ Len(seqs[1]) \in Nat /\ most * 1 = most
    BY <1>1, <1>3, <2>1
  <2>3. QED
    BY <1>1, <2>1, <2>2
<1>5. ASSUME NEW k \in 2 .. n, Right(k - 1)
      PROVE  Right(k)
  <2>1. /\ k \in 1 .. n /\ k - 1 \in 1 .. n /\ k # 1
        /\ \A j \in 1 .. k : j = k \/ j \in 1 .. k - 1
        /\ \A j \in 1 .. k - 1 : j \in 1 .. k /\ j # k
    BY <1>1
  <2>2. f[k] = f[k - 1] \o seqs[k] /\ f[k - 1] \in Seq(S) /\ seqs[k] \in Seq(S)
    BY <1>1, <1>3, <1>5, <2>1
  <2>3. /\ f[k] \in Seq(S) /\ Len(f[k]) = Len(f[k - 1]) + Len(seqs[k])
        /\ Len(f[k - 1]) \in Nat /\ Len(seqs[k]) \in Nat
    BY <2>2, ConcatProperties
  <2>4. /\ Absent(seqs[k], x) /\ Absent(f[k - 1], x) => Absent(f[k], x)
        /\ Once(f[k - 1], x) /\ Absent(seqs[k], x) => Once(f[k], x)
        /\ Absent(f[k - 1], x) /\ Once(seqs[k], x) => Once(f[k], x)
    BY <2>2, ConcatOnce
  <2>5. PICK whole \in Nat, old \in Nat, new \in Nat :
            /\ Len(f[k]) = whole /\ Len(f[k - 1]) = old /\ Len(seqs[k]) = new
            /\ whole = old + new /\ old <= whole /\ new <= whole
    <3>1. \A a, b \in Nat : a + b \in Nat /\ a <= a + b /\ b <= a + b
      OBVIOUS
    <3>2. QED
      BY <2>3, <3>1
  <2>6. Len(f[k]) <= most * k
    <3>1. PICK bound \in Int : bound = most * (k - 1) /\ most * k = bound + most
      <4>1. most * (k - 1) \in Int /\ most * k = most * (k - 1) + most
        BY <2>1
      <4>2. QED
        BY <4>1
    <3>2. old <= bound /\ new <= most
      BY <1>5, <2>1, <2>5, <3>1
    <3>3. whole <= bound + most
      BY <2>5, <3>2
    <3>4. QED
      BY <2>5, <3>1, <3>3
  <2>7. ASSUME NEW j \in 1 .. k
        PROVE  Len(seqs[j]) <= Len(f[k])
    <3>1. PICK l \in Nat : l = Len(seqs[j])
      BY <1>1, <2>1
    <3>2. CASE j = k
      BY <2>5, <3>1, <3>2
    <3>3. CASE j \in 1 .. k - 1
      <4>1. l <= old
        BY <1>5, <2>5, <3>1, <3>3
      <4>2. l <= whole
        BY <2>5, <4>1
      <4>3. QED
        BY <2>5, <3>1, <4>2
    <3>4. QED
      BY <2>1, <3>2, <3>3
  <2>8. ASSUME \A j \in 1 .. k : Absent(seqs[j], x)
        PROVE  Absent(f[k], x)
    <3>1. Absent(f[k - 1], x) /\ Absent(seqs[k], x)
      BY <1>5, <2>1, <2>8
    <3>2. QED
      BY <2>4, <3>1
  <2>9. ASSUME NEW j \in 1 .. k, Once(seqs[j], x),
               \A i \in 1 .. k : i # j => Absent(seqs[i], x)
        PROVE  Once(f[k], x)
    <3>1. CASE j = k
      <4>1. Absent(f[k - 1], x)
        <5>1. \A i \in 1 .. k - 1 : Absent(seqs[i], x)
          BY <2>1, <2>9, <3>1
        <5>2. QED
          BY <1>5, <5>1
      <4>2. QED
        BY <2>9, <2>4, <3>1, <4>1
    <3>2. CASE j \in 1 .. k - 1
      <4>1. Once(f[k - 1], x) /\ Absent(seqs[k], x)
        <5>1. \A i \in 1 .. k - 1 : i # j => Absent(seqs[i], x)
          BY <2>1, <2>9
        <5>2. k \in 1 .. k /\ k # j
          BY <2>1, <3>2
        <5>3. QED
          BY <1>5, <2>9, <3>2, <5>1, <5>2
      <4>2. QED
        BY <2>4, <4>1
    <3>3. QED
      BY <2>1, <3>1, <3>2
  <2>10. QED
    BY <2>3, <2>6, <2>7, <2>8, <2>9
<1> HIDE DEF Right
<1>6. T = {}
  <2>1. SUFFICES ASSUME T # {} PROVE FALSE
    OBVIOUS
  <2>2. PICK k \in T : \A j \in T : k <= j
    <3>1. T \in SUBSET Nat
      OBVIOUS
    <3>2. QED
      BY <2>1, <3>1, FirstExists
  <2>3. k \in 2 .. n /\ k - 1 \in 1 .. n /\ ~(k <= k - 1)
    BY <1>1, <1>4, <2>2
  <2>4. Right(k - 1)
    BY <2>2, <2>3
  <2>5. QED
    BY <1>5, <2>2, <2>3, <2>4
<1>7. Right(n)
  BY <1>1, <1>6
<1>8. QED
  BY <1>2, <1>7 DEF Right

-----------------------------------------------------------------------------
(***************************************************************************)
(* What a chunk holds after an update, and the copies in it of one entity. *)
(***************************************************************************)

\* A chunk of parallel arrays holds a collider in one slot.
LEMMA HeldOnce ==
    ASSUME NEW chunk \in Chunk, ChunkParallel(chunk), NEW collider,
           HoldsCollider(chunk, collider)
    PROVE  \E p \in 1 .. Len(chunk.colliders) :
              /\ chunk.colliders[p] = collider
              /\ \A q \in 1 .. Len(chunk.colliders) :
                    chunk.colliders[q].id = collider.id => q = p
BY DEF HoldsCollider, ChunkParallel, Chunk

\* A chunk holds colliders, and as many as there are ids at most.
LEMMA HeldColliders ==
    ASSUME NEW chunk \in Chunk, ChunkParallel(chunk)
    PROVE  /\ chunk.colliders \in Seq(Collider)
           /\ Len(chunk.colliders) \in Nat /\ Len(chunk.colliders) <= MaxEntityId + 1
           /\ \A i \in 1 .. Len(chunk.colliders) :
                 /\ chunk.colliders[i] \in Collider
                 /\ HoldsCollider(chunk, chunk.colliders[i])
<1> DEFINE n == Len(chunk.entity_ids)
<1>1. /\ chunk.colliders \in Seq(Collider) /\ chunk.entity_ids \in Seq(EntityId)
      /\ n \in Nat /\ Len(chunk.colliders) = n
  BY DEF Chunk, ChunkParallel
<1>2. chunk.entity_ids \in Injection(1 .. n, EntityId)
  <2>1. chunk.entity_ids \in [1 .. n -> EntityId]
    BY <1>1
  <2>2. \A i, j \in 1 .. n : chunk.entity_ids[i] = chunk.entity_ids[j] => i = j
    BY DEF ChunkParallel
  <2>3. QED
    BY <2>1, <2>2 DEF Injection, IsInjective
<1>3. /\ IsFiniteSet(1 .. n) /\ Cardinality(1 .. n) = n
      /\ IsFiniteSet(EntityId) /\ Cardinality(EntityId) = MaxEntityId + 1
  <2>1. IsFiniteSet(1 .. n) /\ Cardinality(1 .. n) = IF 1 > n THEN 0 ELSE n - 1 + 1
    <3>1. \A l \in Int : /\ IsFiniteSet(1 .. l)
                          /\ Cardinality(1 .. l) = IF 1 > l THEN 0 ELSE l - 1 + 1
      BY FS_Interval
    <3>2. QED
      BY <1>1, <3>1
  <2>2. /\ IsFiniteSet(0 .. MaxEntityId)
        /\ Cardinality(0 .. MaxEntityId) = IF 0 > MaxEntityId THEN 0 ELSE MaxEntityId - 0 + 1
    BY FS_Interval
  <2>3. QED
    BY <1>1, <2>1, <2>2 DEF EntityId
<1>4. n <= MaxEntityId + 1
  BY <1>2, <1>3, FS_Injection
<1>5. QED
  BY <1>1, <1>4 DEF HoldsCollider

\* chunk_unset_collider brings nothing into the chunk.
LEMMA UnsetColliderHolds ==
    ASSUME NEW chunk \in Chunk, ChunkParallel(chunk), NEW id, HoldsId(chunk, id),
           NEW other, HoldsCollider(UnsetCollider(chunk, id), other)
    PROVE  HoldsCollider(chunk, other)
<1> DEFINE i == FindCollider(chunk, id)
           s == chunk.colliders
<1>1. i \in 1 .. Len(s) /\ Len(s) \in Nat /\ s \in Seq(Collider)
  BY FindColliderFinds DEF ChunkParallel, Chunk
<1>2. UnsetCollider(chunk, id).colliders = SwapPop(s, i)
  BY DEF UnsetCollider
<1> HIDE DEF i
<1>3. /\ Len(SwapPop(s, i)) = Len(s) - 1
      /\ \A k \in 1 .. Len(s) - 1 : SwapPop(s, i)[k] = IF k = i THEN s[Len(s)] ELSE s[k]
  BY <1>1, SwapPopType DEF SwapPop
<1>4. PICK k \in 1 .. Len(s) - 1 : SwapPop(s, i)[k] = other
  BY <1>2, <1>3 DEF HoldsCollider
<1>5. k \in 1 .. Len(s) /\ Len(s) \in 1 .. Len(s)
  BY <1>1
<1>6. QED
  BY <1>3, <1>4, <1>5 DEF HoldsCollider

\* chunk_set_collider brings into the chunk the collider put and nothing else.
LEMMA PutColliderHolds ==
    ASSUME NEW chunk \in Chunk, ChunkParallel(chunk), NEW collider \in Collider,
           NEW other, HoldsCollider(PutCollider(chunk, collider), other)
    PROVE  other = collider \/ HoldsCollider(chunk, other)
<1> DEFINE s == chunk.colliders
           put == PutCollider(chunk, collider).colliders
<1>1. Len(s) \in Nat /\ s \in Seq(Collider)
  BY DEF Chunk
<1>2. CASE HoldsId(chunk, collider.id)
  <2> DEFINE i == FindCollider(chunk, collider.id)
  <2>1. i \in 1 .. Len(s)
    BY <1>2, FindColliderFinds DEF ChunkParallel
  <2>2. put = [s EXCEPT ![i] = collider]
    BY <1>2 DEF PutCollider, Chunk
  <2> HIDE DEF i
  <2>3. /\ Len(put) = Len(s)
        /\ \A k \in 1 .. Len(s) : put[k] = IF k = i THEN collider ELSE s[k]
    BY <1>1, <2>1, <2>2, ExceptSeq
  <2>4. QED
    BY <2>3 DEF HoldsCollider
<1>3. CASE ~HoldsId(chunk, collider.id)
  <2>1. put = Append(s, collider)
    BY <1>3 DEF PutCollider
  <2>2. /\ Len(put) = Len(s) + 1
        /\ \A k \in 1 .. Len(s) + 1 : put[k] = IF k = Len(s) + 1 THEN collider ELSE s[k]
    BY <1>1, <2>1, AppendElements
  <2>3. \A k \in 1 .. Len(s) + 1 : k = Len(s) + 1 \/ k \in 1 .. Len(s)
    BY <1>1
  <2>4. QED
    BY <2>2, <2>3 DEF HoldsCollider
<1>4. QED
  BY <1>2, <1>3

\* The copies of an entity in one chunk.
CopiesHeld(chunk, id) ==
    LET copies == chunk.colliders
    IN  Selected(copies, {k \in 1 .. Len(copies) : copies[k].id = id})

\* There is the one the chunk holds, or none.
LEMMA CopiesHeldIs ==
    ASSUME NEW chunk \in Chunk, ChunkParallel(chunk), NEW id
    PROVE  /\ \A collider \in Collider :
                 HoldsCollider(chunk, collider) /\ collider.id = id
                    => CopiesHeld(chunk, id) = <<collider>>
           /\ \/ CopiesHeld(chunk, id) = << >>
              \/ \E collider \in Collider :
                    HoldsCollider(chunk, collider) /\ collider.id = id
           /\ (\A collider \in Collider :
                  HoldsCollider(chunk, collider) => collider.id # id)
                 => CopiesHeld(chunk, id) = << >>
<1> DEFINE s == chunk.colliders
           places == {k \in 1 .. Len(s) : s[k].id = id}
<1>1. /\ s \in Seq(Collider) /\ Len(s) \in Nat
      /\ \A i \in 1 .. Len(s) : s[i] \in Collider /\ HoldsCollider(chunk, s[i])
  BY HeldColliders
<1>2. CopiesHeld(chunk, id) = Selected(s, places)
  BY DEF CopiesHeld
<1>3. ASSUME NEW collider \in Collider, HoldsCollider(chunk, collider), collider.id = id
      PROVE  CopiesHeld(chunk, id) = <<collider>>
  <2>1. PICK p \in 1 .. Len(s) :
           s[p] = collider /\ \A q \in 1 .. Len(s) : s[q].id = collider.id => q = p
    BY <1>3, HeldOnce
  <2>2. places = {p}
    BY <1>3, <2>1
  <2>3. QED
    BY <1>1, <1>2, <2>1, <2>2, SelectedFew
<1>4. ASSUME places = {}
      PROVE  CopiesHeld(chunk, id) = << >>
  BY <1>1, <1>2, <1>4, SelectedFew
<1>5. ASSUME places # {}
      PROVE  \E collider \in Collider : HoldsCollider(chunk, collider) /\ collider.id = id
  BY <1>1, <1>5
<1>6. QED
  BY <1>3, <1>4, <1>5

\* Two chunks that hold the same colliders of an entity have the same copies of it.
LEMMA SameCopies ==
    ASSUME NEW one \in Chunk, NEW two \in Chunk, ChunkParallel(one), ChunkParallel(two),
           NEW id,
           \A collider \in Collider :
              collider.id = id =>
                 (HoldsCollider(one, collider) <=> HoldsCollider(two, collider))
    PROVE  CopiesHeld(one, id) = CopiesHeld(two, id)
<1>1. CASE \E collider \in Collider : HoldsCollider(one, collider) /\ collider.id = id
  BY <1>1, CopiesHeldIs
<1>2. CASE ~\E collider \in Collider : HoldsCollider(one, collider) /\ collider.id = id
  <2>1. CopiesHeld(one, id) = << >>
    BY <1>2, CopiesHeldIs
  <2>2. CopiesHeld(two, id) = << >>
    BY <1>2, CopiesHeldIs
  <2>3. QED
    BY <2>1, <2>2
<1>3. QED
  BY <1>1, <1>2

-----------------------------------------------------------------------------
(***************************************************************************)
(* Every copy is where its own bounds put it, whatever has become of the   *)
(* entity since.                                                           *)
(***************************************************************************)
CopiesInPlace ==
    \A c \in ChunkId, collider \in Collider :
        HoldsCollider(chunks[c], collider) =>
            collider.id \in DOMAIN entities /\ c \in Visited(collider.bounds)

SInv == IInv /\ CopiesInPlace

\* odEntityIndex_set_collider and odEntityIndex_set: the chunks after the update.
LEMMA StoreChunks ==
    ASSUME IInv, NEW collider \in Collider, NEW sprite \in Sprite,
           Store(collider, sprite), NEW c \in ChunkId
    PROVE  /\ chunks[c] \in Chunk /\ ChunkParallel(chunks[c])
           /\ chunks'[c] \in Chunk /\ ChunkParallel(chunks'[c])
           /\ \A other \in Collider :
                 HoldsCollider(chunks'[c], other) =>
                    \/ HoldsCollider(chunks[c], other)
                    \/ other = collider /\ c \in Visited(collider.bounds)
           /\ \A other \in Collider :
                 other.id # collider.id =>
                    (HoldsCollider(chunks[c], other) <=> HoldsCollider(chunks'[c], other))
<1> DEFINE id == collider.id
           old == EnsuredEntities(id)[id].collider.bounds
           leaving == Leaving(old, collider.bounds)
           grid == Cleared(leaving, id)
<1>1. /\ \A d \in ChunkId : chunks[d] \in Chunk /\ ChunkParallel(chunks[d])
      /\ ok = TRUE
  BY DEF IInv, TypeOK, ChunkArraysParallel, NoCheckFails
<1>2. IInv' /\ UNCHANGED ok
  BY StoreKeeps
<1>3. Missing(leaving, id) = {}
  BY <1>1, <1>2 DEF Store
<1>4. chunks' = Placed(grid, Visited(collider.bounds), collider)
  BY <1>3 DEF Store
<1>5. chunks'[c] \in Chunk /\ ChunkParallel(chunks'[c])
  BY <1>2 DEF IInv, TypeOK, ChunkArraysParallel
<1>6. /\ grid[c] \in Chunk /\ ChunkParallel(grid[c])
      /\ \A other \in Collider :
            HoldsCollider(grid[c], other) => HoldsCollider(chunks[c], other)
      /\ \A other \in Collider :
            other.id # id /\ HoldsCollider(chunks[c], other)
               => HoldsCollider(grid[c], other)
  <2>1. CASE c \in leaving
    <3>1. grid[c] = UnsetCollider(chunks[c], id)
      BY <2>1 DEF Cleared
    <3>2. HoldsId(chunks[c], id)
      BY <1>3, <2>1 DEF Missing
    <3>3. QED
      BY <1>1, <3>1, <3>2, UnsetColliderKeeps, UnsetColliderHolds
  <2>2. CASE c \notin leaving
    <3>1. grid[c] = chunks[c]
      BY <2>2 DEF Cleared
    <3>2. QED
      BY <1>1, <3>1
  <2>3. QED
    BY <2>1, <2>2
<1> HIDE DEF grid
<1>7. CASE c \in Visited(collider.bounds)
  <2>1. chunks'[c] = PutCollider(grid[c], collider)
    BY <1>4, <1>7 DEF Placed
  <2>2. \A other \in Collider :
           HoldsCollider(chunks'[c], other) =>
              other = collider \/ HoldsCollider(grid[c], other)
    BY <1>6, <2>1, PutColliderHolds
  <2>3. \A other \in Collider :
           other.id # id /\ HoldsCollider(grid[c], other)
              => HoldsCollider(chunks'[c], other)
    BY <1>6, <2>1, PutColliderKeeps
  <2>4. QED
    BY <1>1, <1>5, <1>6, <1>7, <2>2, <2>3
<1>8. CASE c \notin Visited(collider.bounds)
  <2>1. chunks'[c] = grid[c]
    BY <1>4, <1>8 DEF Placed
  <2>2. QED
    BY <1>1, <1>5, <1>6, <2>1
<1>9. QED
  BY <1>7, <1>8

\* Whatever changes the index, it stores one collider, leaves the chunks as they are
\* or empties the index.
LEMMA NextStores ==
    ASSUME IInv, Next
    PROVE  \/ \E collider \in Collider, sprite \in Sprite : Store(collider, sprite)
           \/ UNCHANGED chunks /\ DOMAIN entities \subseteq DOMAIN entities'
           \/ Reset
<1>1. TypeOK /\ VerticesFollowEntities
  BY DEF IInv
<1>2. ASSUME NEW collider \in Collider, SetCollider(collider)
      PROVE  \E sprite \in Sprite : Store(collider, sprite)
  <2>1. EnsuredEntities(collider.id)[collider.id].sprite \in Sprite
    BY <1>1, EnsuredEntityType DEF Collider
  <2>2. QED
    BY <1>2, <2>1 DEF SetCollider
<1>3. ASSUME NEW entity \in Entity, Set(entity)
      PROVE  \E collider \in Collider, sprite \in Sprite : Store(collider, sprite)
  <2>1. entity.collider \in Collider /\ entity.sprite \in Sprite
    BY DEF Entity
  <2>2. QED
    BY <1>3, <2>1 DEF Set
<1>4. ASSUME NEW id \in EntityId, NEW sprite \in Sprite, SetSprite(id, sprite)
      PROVE  UNCHANGED chunks /\ DOMAIN entities \subseteq DOMAIN entities'
  <2>1. DOMAIN entities' = DOMAIN EnsuredEntities(id)
    BY <1>4 DEF SetSprite
  <2>2. QED
    BY <1>4, <2>1 DEF SetSprite, EnsuredEntities, Grown
<1>5. ASSUME NEW id \in EntityId, GetOrAdd(id)
      PROVE  UNCHANGED chunks /\ DOMAIN entities \subseteq DOMAIN entities'
  BY <1>5 DEF GetOrAdd, EnsuredEntities, Grown
<1>6. ASSUME NEW id \in EntityId, NEW bounds \in Bounds, SetBounds(id, bounds)
      PROVE  \E collider \in Collider, sprite \in Sprite : Store(collider, sprite)
  <2> DEFINE collider == [EnsuredEntities(id)[id].collider EXCEPT !.bounds = bounds]
  <2>1. collider \in Collider
    BY <1>1, EnsuredEntityType DEF Collider
  <2>2. QED
    BY <1>2, <1>6, <2>1 DEF SetBounds
<1>7. ASSUME NEW id \in EntityId, NEW tagset \in SUBSET Tag, SetTags(id, tagset)
      PROVE  \E collider \in Collider, sprite \in Sprite : Store(collider, sprite)
  <2> DEFINE collider == [EnsuredEntities(id)[id].collider EXCEPT !.tagset = tagset]
  <2>1. collider \in Collider
    BY <1>1, EnsuredEntityType DEF Collider
  <2>2. QED
    BY <1>2, <1>7, <2>1 DEF SetTags
<1>8. QED
  BY <1>2, <1>3, <1>4, <1>5, <1>6, <1>7 DEF Next

\* Every update puts the copy it makes where its bounds are.
LEMMA NextKeepsPlaces ==
    ASSUME SInv, [Next]_vars
    PROVE  SInv'
<1>1. IInv /\ CopiesInPlace
  BY DEF SInv
<1>2. IInv'
  BY <1>1, NextKeeps
<1>3. ASSUME NEW collider \in Collider, NEW sprite \in Sprite, Store(collider, sprite)
      PROVE  CopiesInPlace'
  <2>1. entities' = [EnsuredEntities(collider.id) EXCEPT
                       ![collider.id] = [collider |-> collider, sprite |-> sprite]]
    BY <1>1, <1>3, StoreKeeps
  <2>2. DOMAIN entities' = DOMAIN entities \cup 0 .. collider.id
    BY <2>1 DEF EnsuredEntities, Grown
  <2>3. collider.id \in 0 .. collider.id
    BY DEF Collider, EntityId
  <2>4. ASSUME NEW c \in ChunkId, NEW other \in Collider, HoldsCollider(chunks'[c], other)
        PROVE  other.id \in DOMAIN entities' /\ c \in Visited(other.bounds)
    <3>1. \/ HoldsCollider(chunks[c], other)
          \/ other = collider /\ c \in Visited(collider.bounds)
      BY <1>1, <1>3, <2>4, StoreChunks
    <3>2. QED
      BY <1>1, <2>2, <2>3, <3>1 DEF CopiesInPlace
  <2>5. QED
    BY <2>4 DEF CopiesInPlace
<1>4. ASSUME UNCHANGED chunks, DOMAIN entities \subseteq DOMAIN entities'
      PROVE  CopiesInPlace'
  BY <1>1, <1>4 DEF CopiesInPlace
<1>5. ASSUME Reset
      PROVE  CopiesInPlace'
  <2>1. \A c \in ChunkId : chunks'[c].colliders = << >>
    BY <1>5 DEF Reset, EmptyChunk
  <2>2. \A c \in ChunkId, other \in Collider : ~HoldsCollider(chunks'[c], other)
    BY <2>1 DEF HoldsCollider
  <2>3. QED
    BY <2>2 DEF CopiesInPlace
<1>6. ASSUME UNCHANGED vars
      PROVE  CopiesInPlace'
  BY <1>1, <1>6 DEF CopiesInPlace, vars
<1>7. CopiesInPlace'
  BY <1>1, <1>3, <1>4, <1>5, <1>6, NextStores
<1>8. QED
  BY <1>2, <1>7 DEF SInv

\* The invariant of the searches holds in every reachable state of the index.
THEOREM CopiesStayInPlace == Spec => []SInv
<1>1. Init => SInv
  <2>1. SUFFICES ASSUME Init PROVE SInv
    OBVIOUS
  <2>2. IInv
    BY <2>1, FreshIsInv DEF Init
  <2>3. \A c \in ChunkId : chunks[c].colliders = << >>
    BY <2>1 DEF Init, EmptyChunk
  <2>4. CopiesInPlace
    BY <2>3 DEF CopiesInPlace, HoldsCollider
  <2>5. QED
    BY <2>2, <2>4 DEF SInv
<1>2. QED
  BY <1>1, NextKeepsPlaces, PTL DEF Spec

\* One step changes the copies of one entity.
LEMMA StepIsLocal ==
    ASSUME SInv, [Next]_vars, DOMAIN entities \subseteq DOMAIN entities'
    PROVE  \E id \in EntityId : \A other \in EntityId \ {id}, c \in ChunkId :
              CopiesOf(c, other)' = CopiesOf(c, other)
<1>1. IInv /\ IInv' /\ CopiesInPlace
  BY NextKeepsPlaces DEF SInv
<1>2. \A c \in ChunkId : /\ chunks[c] \in Chunk /\ ChunkParallel(chunks[c])
                         /\ chunks'[c] \in Chunk /\ ChunkParallel(chunks'[c])
  BY <1>1 DEF IInv, TypeOK, ChunkArraysParallel
<1>3. \A c, id : /\ CopiesOf(c, id) = CopiesHeld(chunks[c], id)
                 /\ CopiesOf(c, id)' = CopiesHeld(chunks'[c], id)
  BY DEF CopiesOf, CopiesHeld
<1>4. 0 \in EntityId
  BY DEF EntityId
<1>5. ASSUME NEW collider \in Collider, NEW sprite \in Sprite, Store(collider, sprite)
      PROVE  \A other \in EntityId \ {collider.id}, c \in ChunkId :
                CopiesOf(c, other)' = CopiesOf(c, other)
  <2>1. SUFFICES ASSUME NEW other \in EntityId \ {collider.id}, NEW c \in ChunkId
                 PROVE  CopiesHeld(chunks'[c], other) = CopiesHeld(chunks[c], other)
    BY <1>3
  <2>2. \A copy \in Collider :
           copy.id = other =>
              (HoldsCollider(chunks'[c], copy) <=> HoldsCollider(chunks[c], copy))
    BY <1>1, <1>5, StoreChunks
  <2>3. QED
    BY <1>2, <2>2, SameCopies
<1>6. CASE chunks' = chunks
  BY <1>3, <1>4, <1>6
<1>7. CASE Reset
  <2>1. DOMAIN entities = {}
    BY <1>7 DEF Reset, NoEntities
  <2>2. ASSUME NEW c \in ChunkId
        PROVE  /\ \A copy \in Collider : ~HoldsCollider(chunks[c], copy)
               /\ \A copy \in Collider : ~HoldsCollider(chunks'[c], copy)
    <3>1. chunks'[c].colliders = << >>
      BY <1>7 DEF Reset, EmptyChunk
    <3>2. QED
      BY <1>1, <2>1, <3>1 DEF CopiesInPlace, HoldsCollider
  <2>3. \A other \in EntityId, c \in ChunkId :
           CopiesHeld(chunks'[c], other) = CopiesHeld(chunks[c], other)
    BY <1>2, <2>2, SameCopies
  <2>4. QED
    BY <1>3, <1>4, <2>3
<1>8. CASE UNCHANGED vars
  BY <1>6, <1>8 DEF vars
<1>9. CASE Next
  <2>1. \A collider \in Collider : collider.id \in EntityId
    BY DEF Collider
  <2>2. QED
    BY <1>1, <1>5, <1>6, <1>7, <1>9, <2>1, NextStores
<1>10. QED
  BY <1>8, <1>9

\* An update changes the chunk copies of one entity only: swap_pop moves the copies
\* of the others and never loses or doubles one.
THEOREM UpdatesStayLocal == Spec => UpdatesAreLocal
<1>1. SInv /\ [Next]_vars =>
         [DOMAIN entities \subseteq DOMAIN entities' =>
            \E id \in EntityId : \A other \in EntityId \ {id}, c \in ChunkId :
               CopiesOf(c, other)' = CopiesOf(c, other)]_vars
  BY StepIsLocal
<1>2. QED
  BY <1>1, CopiesStayInPlace, PTL DEF Spec, UpdatesAreLocal

-----------------------------------------------------------------------------
(***************************************************************************)
(* What one chunk reports, and all those a search visits.                  *)
(***************************************************************************)

\* A chunk reports a matching collider it holds once, unless a neighbour has.
LEMMA ChunkReports ==
    ASSUME IInv, NEW search, NEW c \in ChunkId, NEW collider
    PROVE  /\ ChunkHits(search, c) \in Seq(Collider)
           /\ Len(ChunkHits(search, c)) <= MaxEntityId + 1
           /\ /\ HoldsCollider(chunks[c], collider)
              /\ Matches(search, collider) /\ ~SeenBefore(search, c, collider)
              => Once(ChunkHits(search, c), collider)
           /\ ~HoldsCollider(chunks[c], collider) \/ SeenBefore(search, c, collider)
              => Absent(ChunkHits(search, c), collider)
<1> DEFINE s == chunks[c].colliders
           places == {k \in 1 .. Len(s) : Matches(search, s[k]) /\ ~SeenBefore(search, c, s[k])}
           kept == ChunkHits(search, c)
<1>1. chunks[c] \in Chunk /\ ChunkParallel(chunks[c])
  BY DEF IInv, TypeOK, ChunkArraysParallel
<1>2. /\ s \in Seq(Collider) /\ Len(s) \in Nat /\ Len(s) <= MaxEntityId + 1
      /\ \A i \in 1 .. Len(s) : HoldsCollider(chunks[c], s[i])
  BY <1>1, HeldColliders
<1>3. kept = Selected(s, places)
  BY DEF ChunkHits
<1> HIDE DEF kept
<1>4. /\ kept \in Seq(Collider) /\ Len(kept) <= Len(s)
      /\ \E m : Keeps(kept, s, places, Len(s), m)
  BY <1>2, <1>3, SelectedKeeps
<1>5. PICK m : Keeps(kept, s, places, Len(s), m)
  BY <1>4
<1>6. /\ \A i \in 1 .. Len(kept) : m[i] \in places /\ kept[i] = s[m[i]]
      /\ \A i, j \in 1 .. Len(kept) : i < j => m[i] < m[j]
      /\ \A p \in places \cap 1 .. Len(s) : \E i \in 1 .. Len(kept) : m[i] = p
  BY <1>5 DEF Keeps
<1>7. Len(kept) \in Nat /\ Len(kept) <= MaxEntityId + 1
  <2>1. Len(kept) \in Nat
    BY <1>4
  <2>2. QED
    BY <1>2, <1>4, <2>1
<1>8. ASSUME HoldsCollider(chunks[c], collider),
             Matches(search, collider), ~SeenBefore(search, c, collider)
      PROVE  Once(kept, collider)
  <2>1. PICK p \in 1 .. Len(s) :
           /\ s[p] = collider
           /\ \A q \in 1 .. Len(s) : s[q].id = collider.id => q = p
    BY <1>1, <1>8, HeldOnce
  <2>2. p \in places
    BY <1>8, <2>1
  <2>3. PICK i \in 1 .. Len(kept) : m[i] = p
    BY <1>6, <2>2
  <2>4. kept[i] = collider
    BY <1>6, <2>1, <2>3
  <2>5. ASSUME NEW j \in 1 .. Len(kept), kept[j] = collider
        PROVE  j = i
    <3>1. m[j] = p
      BY <1>6, <2>1, <2>5
    <3>2. ~(i < j) /\ ~(j < i)
      <4>1. p \in Nat
        BY <2>1
      <4>2. ~(p < p)
        BY <4>1
      <4>3. QED
        BY <1>6, <2>3, <3>1, <4>2
    <3>3. QED
      BY <1>7, <3>2
  <2>6. QED
    BY <2>4, <2>5 DEF Once
<1>9. ASSUME ~HoldsCollider(chunks[c], collider) \/ SeenBefore(search, c, collider)
      PROVE  Absent(kept, collider)
  BY <1>2, <1>6, <1>9 DEF Absent
<1>10. QED
  BY <1>4, <1>7, <1>8, <1>9 DEF kept

\* All that the chunks report, in the order of the visit.
Reported(search) ==
    LET order == VisitOrder(search.bounds)
    IN  FlattenSeq([k \in 1 .. Len(order) |-> ChunkHits(search, order[k])])

\* A collider that one chunk reports, and no other, is reported once; a chunk that
\* reports something makes the search report something; and all that is reported
\* stays below the cap.
LEMMA SearchReported ==
    ASSUME IInv, NEW search, search.bounds \in ValidBounds, Regular(search.bounds),
           NEW collider
    PROVE  /\ Reported(search) \in Seq(Collider)
           /\ Len(Reported(search)) < Uncapped
           /\ \A c \in Visited(search.bounds) :
                 /\ Len(ChunkHits(search, c)) <= Len(Reported(search))
                 /\ /\ Once(ChunkHits(search, c), collider)
                    /\ \A d \in Visited(search.bounds) :
                          d # c => Absent(ChunkHits(search, d), collider)
                    => Once(Reported(search), collider)
<1> DEFINE b == search.bounds
           order == VisitOrder(b)
           N == ChunksPerAxis
           most == MaxEntityId + 1
<1>1. PICK n \in Nat \ {0} :
         /\ n <= N * N
         /\ order \in [1 .. n -> Visited(b)]
         /\ \A j, k \in 1 .. n : order[j] = order[k] => j = k
         /\ \A c \in Visited(b) : \E k \in 1 .. n : order[k] = c
  BY VisitOrderVisits
<1> HIDE DEF order
<1>2. Visited(b) \subseteq ChunkId
  BY DEF Visited
<1>3. Len(order) = n
  <2>1. order \in Seq(Visited(b))
    BY <1>1
  <2>2. Len(order) \in Nat /\ DOMAIN order = 1 .. Len(order) /\ DOMAIN order = 1 .. n
    BY <1>1, <2>1
  <2>3. QED
    BY <1>1, <2>2
<1> DEFINE seqs == [k \in 1 .. n |-> ChunkHits(search, order[k])]
<1>4. \A k \in 1 .. n : /\ order[k] \in Visited(b) /\ order[k] \in ChunkId
                        /\ seqs[k] = ChunkHits(search, order[k])
                        /\ seqs[k] \in Seq(Collider) /\ Len(seqs[k]) <= most
  <2>1. \A k \in 1 .. n : order[k] \in Visited(b) /\ order[k] \in ChunkId
    BY <1>1, <1>2
  <2>2. \A c \in ChunkId : /\ ChunkHits(search, c) \in Seq(Collider)
                           /\ Len(ChunkHits(search, c)) <= most
    BY ChunkReports
  <2>3. QED
    BY <2>1, <2>2
<1>5. seqs \in Seq(Seq(Collider)) /\ Len(seqs) = n /\ Reported(search) = FlattenSeq(seqs)
  <2>1. seqs \in [1 .. n -> Seq(Collider)]
    BY <1>4
  <2>2. Reported(search) = FlattenSeq(seqs)
    BY <1>3 DEF Reported, order
  <2> HIDE DEF seqs
  <2>3. seqs \in Seq(Seq(Collider))
    BY <1>1, <2>1
  <2>4. Len(seqs) \in Nat /\ DOMAIN seqs = 1 .. Len(seqs) /\ DOMAIN seqs = 1 .. n
    BY <2>1, <2>3
  <2>5. Len(seqs) = n
    <3>1. \A i, j \in Nat : 1 .. i = 1 .. j => i = j
      <4>1. SUFFICES ASSUME NEW i \in Nat, NEW j \in Nat, 1 .. i = 1 .. j PROVE i = j
        OBVIOUS
      <4>2. (i # 0 => i \in 1 .. j) /\ (j # 0 => j \in 1 .. i)
        BY <4>1
      <4>3. QED
        BY <4>2
    <3>2. 1 .. Len(seqs) = 1 .. n /\ n \in Nat
      BY <2>4
    <3>3. QED
      BY <2>4, <3>1, <3>2
  <2>6. QED
    BY <2>2, <2>3, <2>5
<1> HIDE DEF seqs
<1>6. most \in Nat /\ Len(seqs) # 0 /\ \A k \in 1 .. Len(seqs) : Len(seqs[k]) <= most
  BY <1>1, <1>4, <1>5
<1>7. /\ Reported(search) \in Seq(Collider)
      /\ Len(Reported(search)) <= most * n
      /\ \A k \in 1 .. n : Len(seqs[k]) <= Len(Reported(search))
      /\ \A k \in 1 .. n :
            /\ Once(seqs[k], collider)
            /\ \A j \in 1 .. n : j # k => Absent(seqs[j], collider)
            => Once(Reported(search), collider)
  BY <1>5, <1>6, FlattenKeeps
<1>8. Len(Reported(search)) < Uncapped
  <2>1. PICK a \in Nat \ {0}, q \in Int : a = most /\ q = N * N
    BY <1>6
  <2>2. a * n <= a * q /\ a * n \in Int /\ a * q \in Int
    BY <1>1, <2>1, Multiples
  <2>3. Uncapped = a * q + 2
    <3>1. most * N * N = most * (N * N)
      OBVIOUS
    <3>2. QED
      BY <2>1, <3>1 DEF Uncapped
  <2>4. PICK l \in Nat : l = Len(Reported(search))
    BY <1>7
  <2>5. l <= a * n
    BY <1>7, <2>1, <2>4
  <2>6. QED
    BY <2>2, <2>3, <2>4, <2>5
<1>9. ASSUME NEW c \in Visited(b)
      PROVE  /\ Len(ChunkHits(search, c)) <= Len(Reported(search))
             /\ /\ Once(ChunkHits(search, c), collider)
                /\ \A d \in Visited(b) : d # c => Absent(ChunkHits(search, d), collider)
                => Once(Reported(search), collider)
  <2>1. PICK k \in 1 .. n : order[k] = c
    BY <1>1
  <2>2. \A j \in 1 .. n : j # k => order[j] # c
    BY <1>1, <2>1
  <2>3. seqs[k] = ChunkHits(search, c)
    BY <1>4, <2>1
  <2>4. ASSUME \A d \in Visited(b) : d # c => Absent(ChunkHits(search, d), collider)
        PROVE  \A j \in 1 .. n : j # k => Absent(seqs[j], collider)
    BY <1>4, <2>2, <2>4
  <2>5. QED
    BY <1>7, <2>3, <2>4
<1>10. QED
  BY <1>7, <1>8, <1>9

-----------------------------------------------------------------------------
(***************************************************************************)
(* A search for the first match.                                           *)
(***************************************************************************)

\* Bounds that overlap are both over some chunk.
LEMMA OverlapIsVisited ==
    ASSUME NEW a \in ValidBounds, NEW b \in ValidBounds, Regular(a), Regular(b),
           Collides(a, b)
    PROVE  \E c \in ChunkId : c \in Visited(a) /\ c \in Visited(b)
<1>1. /\ a.x1 \in Int /\ a.x2 \in Int /\ a.y1 \in Int /\ a.y2 \in Int
      /\ b.x1 \in Int /\ b.x2 \in Int /\ b.y1 \in Int /\ b.y2 \in Int
      /\ a.x1 < a.x2 /\ a.y1 < a.y2 /\ b.x1 < b.x2 /\ b.y1 < b.y2
      /\ Span(a.x1, a.x2) < ChunksPerAxis /\ Span(a.y1, a.y2) < ChunksPerAxis
      /\ Span(b.x1, b.x2) < ChunksPerAxis /\ Span(b.y1, b.y2) < ChunksPerAxis
  BY DEF ValidBounds, Regular
<1>2. PICK px \in Int, py \in Int :
         /\ a.x1 <= px /\ px < a.x2 /\ b.x1 <= px /\ px < b.x2
         /\ a.y1 <= py /\ py < a.y2 /\ b.y1 <= py /\ py < b.y2
  <2> DEFINE px == IF a.x1 <= b.x1 THEN b.x1 ELSE a.x1
             py == IF a.y1 <= b.y1 THEN b.y1 ELSE a.y1
  <2>1. /\ px \in Int /\ a.x1 <= px /\ px < a.x2 /\ b.x1 <= px /\ px < b.x2
        /\ py \in Int /\ a.y1 <= py /\ py < a.y2 /\ b.y1 <= py /\ py < b.y2
    BY <1>1 DEF Collides
  <2>2. QED
    BY <2>1
<1> DEFINE c == <<ChunkCoordOf(px), ChunkCoordOf(py)>>
<1>3. c \in ChunkId /\ c[1] = ChunkCoordOf(px) /\ c[2] = ChunkCoordOf(py)
  BY ChunkCoordType DEF ChunkId
<1> HIDE DEF c
<1>4. InRange(a, c)
  <2>1. (ChunkCoordOf(px) - ChunkCoordOf(a.x1)) % ChunksPerAxis < Span(a.x1, a.x2)
    BY <1>1, <1>2, AxisRange
  <2>2. (ChunkCoordOf(py) - ChunkCoordOf(a.y1)) % ChunksPerAxis < Span(a.y1, a.y2)
    BY <1>1, <1>2, AxisRange
  <2>3. QED
    BY <1>3, <2>1, <2>2 DEF InRange
<1>5. InRange(b, c)
  <2>1. (ChunkCoordOf(px) - ChunkCoordOf(b.x1)) % ChunksPerAxis < Span(b.x1, b.x2)
    BY <1>1, <1>2, AxisRange
  <2>2. (ChunkCoordOf(py) - ChunkCoordOf(b.y1)) % ChunksPerAxis < Span(b.y1, b.y2)
    BY <1>1, <1>2, AxisRange
  <2>3. QED
    BY <1>3, <2>1, <2>2 DEF InRange
<1>6. c \in Visited(a) /\ c \in Visited(b)
  BY <1>3, <1>4, <1>5, RegularRange
<1>7. QED
  BY <1>3, <1>6

\* The collider an entity has now, and where its chunks hold it.
LEMMA CurrentCollider ==
    ASSUME SInv, NEW id \in DOMAIN entities
    PROVE  /\ entities[id].collider \in Collider
           /\ entities[id].collider.bounds \in ValidBounds
           /\ \A c \in ChunkId :
                 HoldsCollider(chunks[c], entities[id].collider)
                    <=> c \in Visited(entities[id].collider.bounds)
<1>1. entities[id].collider \in Collider
  <2>1. PICK n \in 0 .. MaxEntityId + 1 : entities \in [0 .. n - 1 -> Entity]
    BY DEF SInv, IInv, TypeOK
  <2>2. entities[id] \in Entity
    BY <2>1
  <2>3. QED
    BY <2>2 DEF Entity
<1>2. entities[id].collider.bounds \in ValidBounds
  BY <1>1 DEF Collider
<1>3. QED
  BY <1>1, <1>2 DEF SInv, IInv, ChunksCoverColliders, CopiesInPlace

\* A search for one result, made without the deduplication, meets a match.
LEMMA ReportsSomething ==
    ASSUME SInv, NEW search, search.bounds \in ValidBounds, Regular(search.bounds),
           search.max_results = 1, NEW id \in MatchingEntities(search),
           Regular(entities[id].collider.bounds)
    PROVE  /\ Reported(search) \in Seq(Collider)
           /\ \E l \in Nat : l = Len(Reported(search)) /\ l >= 1
<1> DEFINE collider == entities[id].collider
           b == search.bounds
           hits == Reported(search)
<1>1. id \in DOMAIN entities /\ Matches(search, collider)
  BY DEF MatchingEntities
<1>2. /\ collider \in Collider /\ collider.bounds \in ValidBounds /\ IInv
      /\ \A c \in ChunkId :
            HoldsCollider(chunks[c], collider) <=> c \in Visited(collider.bounds)
  BY <1>1, CurrentCollider DEF SInv
<1>3. PICK c \in ChunkId : c \in Visited(collider.bounds) /\ c \in Visited(b)
  BY <1>1, <1>2, OverlapIsVisited DEF Matches
<1>4. ~SeenBefore(search, c, collider)
  BY DEF SeenBefore
<1>5. Once(ChunkHits(search, c), collider)
  BY <1>1, <1>2, <1>3, <1>4, ChunkReports
<1>6. hits \in Seq(Collider) /\ Len(ChunkHits(search, c)) <= Len(hits)
  BY <1>2, <1>3, SearchReported
<1> HIDE DEF hits, collider
<1>7. Len(ChunkHits(search, c)) # 0
  BY <1>5 DEF Once
<1>8. ChunkHits(search, c) \in Seq(Collider)
  BY <1>2, ChunkReports
<1>9. PICK k \in Nat : k = Len(ChunkHits(search, c)) /\ k # 0
  BY <1>7, <1>8
<1>10. PICK l \in Nat : l = Len(hits)
  BY <1>6
<1>11. l >= 1
  BY <1>6, <1>9, <1>10
<1>12. QED
  BY <1>6, <1>10, <1>11 DEF hits

\* In every reachable state a search for the first match finds one.
LEMMA FirstFinds == SInv => FirstFindsSomething
<1> SUFFICES ASSUME SInv, NEW b \in SearchBounds, NEW tagset \in SUBSET Tag, Regular(b),
                    NEW id \in MatchingEntities(SearchRequest(b, tagset, {}, 1)),
                    Regular(entities[id].collider.bounds)
             PROVE  First(b, tagset, {}) # << >>
  BY DEF FirstFindsSomething
<1> DEFINE search == SearchRequest(b, tagset, {}, 1)
           hits == Reported(search)
<1>1. b \in ValidBounds /\ search.bounds = b /\ search.max_results = 1
  BY SearchBoundsAssumption DEF SearchRequest
<1>2. First(b, tagset, {}) =
         SubSeq(hits, 1, IF Len(hits) < search.max_results
                           THEN Len(hits) ELSE search.max_results)
  BY DEF First, Search, Reported
<1> HIDE DEF search
<1>3. hits \in Seq(Collider) /\ \E l \in Nat : l = Len(hits) /\ l >= 1
  <2>1. id \in MatchingEntities(search)
    BY DEF search
  <2>2. QED
    BY <1>1, <2>1, ReportsSomething
<1> HIDE DEF hits
<1>4. First(b, tagset, {}) = SubSeq(hits, 1, 1)
  <2>1. (IF Len(hits) < search.max_results THEN Len(hits) ELSE search.max_results) = 1
    BY <1>1, <1>3
  <2>2. QED
    BY <1>2, <2>1
<1>5. Len(SubSeq(hits, 1, 1)) = 1
  BY <1>3
<1>6. QED
  BY <1>4, <1>5

\* A search for the first match comes back empty only when nothing matches.
THEOREM FirstAlwaysFinds == Spec => []FirstFindsSomething
BY FirstFinds, CopiesStayInPlace, PTL

-----------------------------------------------------------------------------
(***************************************************************************)
(* A search for all matches: of the chunks that a search and a collider    *)
(* share, the deduplication leaves the first column and row only.          *)
(***************************************************************************)

\* The chunks between two pixels of the world, without wrapping.
AxisHas(lo, hi, v) == lo \div ChunkWidth <= v /\ v * ChunkWidth < hi

\* Of the chunks from lo to hi and from low to high, the pixel before each, unless it
\* is the first from lo, is past low; except for one chunk.
SeenButIn(lo, hi, low, high, m) ==
    /\ AxisHas(lo, hi, m) /\ AxisHas(low, high, m)
    /\ \A v \in ChunkCoord :
          AxisHas(lo, hi, v) /\ AxisHas(low, high, v) =>
             (/\ v # lo \div ChunkWidth
              /\ v * ChunkWidth - 1 >= low /\ v * ChunkWidth - 1 <= high
              <=> v # m)

\* On each axis there is such a chunk.
LEMMA AxisSeenButOnce ==
    ASSUME NEW lo \in Int, NEW hi \in Int, NEW low \in Int, NEW high \in Int,
           0 <= lo, lo < hi, hi <= WorldWidth, 0 <= low, low < high, high <= WorldWidth,
           lo < high, low < hi
    PROVE  \E m \in ChunkCoord : SeenButIn(lo, hi, low, high, m)
<1> DEFINE W == ChunkWidth
           N == ChunksPerAxis
<1>1. W \in Nat \ {0} /\ N \in Nat \ {0} /\ WorldWidth = W * N
  BY DEF WorldWidth
<1>2. PICK a \in Int, r \in 0 .. W - 1 : a = lo \div W /\ lo = W * a + r
  BY <1>1, DivMod
<1>3. PICK e \in Int, t \in 0 .. W - 1 : e = low \div W /\ low = W * e + t
  BY <1>1, DivMod
<1>4. PICK A \in Int, E \in Int, R \in Int :
         A = W * a /\ E = W * e /\ R = W * N /\ W * 0 = 0
  BY <1>1, <1>2, <1>3, Multiples
<1>5. a \in 0 .. N - 1 /\ e \in 0 .. N - 1
  <2>1. a < 0 => W * a + W <= W * 0
    BY <1>1, <1>2, Multiples
  <2>2. W * a < W * N => a < N
    BY <1>1, <1>2, Multiples
  <2>3. e < 0 => W * e + W <= W * 0
    BY <1>1, <1>3, Multiples
  <2>4. W * e < W * N => e < N
    BY <1>1, <1>3, Multiples
  <2>5. 0 <= a /\ a < N
    BY <1>1, <1>2, <1>4, <2>1, <2>2
  <2>6. 0 <= e /\ e < N
    BY <1>1, <1>3, <1>4, <2>3, <2>4
  <2>7. QED
    BY <1>1, <1>2, <1>3, <2>5, <2>6
<1>6. \A v \in ChunkCoord : v \in Int /\ v * W = W * v /\ W * v \in Int
  <2>1. \A v \in Int : v * W = W * v /\ W * v \in Int
    BY <1>1
  <2>2. QED
    BY <1>1, <2>1 DEF ChunkCoord
<1> DEFINE m == IF a <= e THEN e ELSE a
<1>7. m \in ChunkCoord /\ a <= m /\ e <= m /\ (m = a \/ m = e)
  BY <1>2, <1>3, <1>5 DEF ChunkCoord
<1>8. m * W < hi /\ m * W < high
  BY <1>2, <1>3, <1>4, <1>6, <1>7
<1>9. AxisHas(lo, hi, m) /\ AxisHas(low, high, m)
  BY <1>2, <1>3, <1>7, <1>8 DEF AxisHas
<1> HIDE DEF m
<1>10. ASSUME NEW v \in ChunkCoord, AxisHas(lo, hi, v), AxisHas(low, high, v)
       PROVE  (/\ v # lo \div ChunkWidth
               /\ v * ChunkWidth - 1 >= low /\ v * ChunkWidth - 1 <= high) <=> v # m
  <2>1. PICK V \in Int : V = v * W /\ V = W * v /\ V < hi /\ V < high
    BY <1>6, <1>10 DEF AxisHas
  <2>2. v \in Int /\ a <= v /\ e <= v
    BY <1>2, <1>3, <1>6, <1>10 DEF AxisHas
  <2>3. V - 1 <= high
    BY <2>1
  <2>4. V - 1 >= low <=> v # e
    <3>1. e < v => W * e + W <= W * v
      BY <1>1, <1>3, <2>2, Multiples
    <3>2. v # e => E + W <= V
      BY <1>3, <1>4, <2>1, <2>2, <3>1
    <3>3. v = e => V = E
      BY <1>4, <2>1
    <3>4. low = E + t
      BY <1>3, <1>4
    <3>5. QED
      BY <1>1, <1>3, <1>4, <2>1, <3>2, <3>3, <3>4
  <2>5. (v # a /\ v # e) <=> v # m
    <3>1. v = m => v = a \/ v = e
      BY <1>7
    <3>2. \A x, y, z \in Int : x <= y /\ z <= y /\ (y = x \/ y = z) /\ x <= z => y = z
      OBVIOUS
    <3>3. QED
      BY <1>2, <1>3, <1>7, <2>2 DEF m
  <2>6. QED
    BY <1>2, <2>1, <2>3, <2>4, <2>5
<1>11. QED
  BY <1>7, <1>9, <1>10 DEF SeenButIn

\* The chunks of bounds in the world, when none is reached by wrapping.
LEMMA VisitedInWorld ==
    ASSUME NEW b \in ValidBounds, Regular(b), InWorld(b), NEW c \in ChunkId
    PROVE  /\ c \in Visited(b) <=> AxisHas(b.x1, b.x2, c[1]) /\ AxisHas(b.y1, b.y2, c[2])
           /\ ChunkRange(b).x1 = b.x1 \div ChunkWidth
           /\ ChunkRange(b).y1 = b.y1 \div ChunkWidth
<1>1. /\ b.x1 \in Int /\ b.x2 \in Int /\ b.y1 \in Int /\ b.y2 \in Int
      /\ 0 <= b.x1 /\ b.x1 < b.x2 /\ b.x2 <= WorldWidth
      /\ 0 <= b.y1 /\ b.y1 < b.y2 /\ b.y2 <= WorldWidth
      /\ Span(b.x1, b.x2) < ChunksPerAxis /\ Span(b.y1, b.y2) < ChunksPerAxis
  <2>1. b.x1 \in Int /\ b.x2 \in Int /\ b.y1 \in Int /\ b.y2 \in Int
    BY DEF ValidBounds
  <2>2. QED
    BY <2>1 DEF Regular, InWorld
<1>2. c[1] \in ChunkCoord /\ c[2] \in ChunkCoord
  BY DEF ChunkId
<1>3. /\ ChunkCoordOf(b.x1) = b.x1 \div ChunkWidth
      /\ (c[1] - ChunkCoordOf(b.x1)) % ChunksPerAxis < Span(b.x1, b.x2)
            <=> AxisHas(b.x1, b.x2, c[1])
  BY <1>1, <1>2, AxisInWorld DEF AxisHas
<1>4. /\ ChunkCoordOf(b.y1) = b.y1 \div ChunkWidth
      /\ (c[2] - ChunkCoordOf(b.y1)) % ChunksPerAxis < Span(b.y1, b.y2)
            <=> AxisHas(b.y1, b.y2, c[2])
  BY <1>1, <1>2, AxisInWorld DEF AxisHas
<1>5. QED
  BY <1>3, <1>4, RegularRange DEF InRange

\* In the world, one of the chunks a search and a collider share has no neighbour
\* before it that has shown the collider.
LEMMA SeenButOnce ==
    ASSUME NEW search, NEW collider,
           search.bounds \in ValidBounds, Regular(search.bounds), InWorld(search.bounds),
           collider.bounds \in ValidBounds, Regular(collider.bounds),
           InWorld(collider.bounds),
           search.max_results > 1, Collides(collider.bounds, search.bounds)
    PROVE  \E c \in ChunkId :
              /\ c \in Visited(search.bounds) /\ c \in Visited(collider.bounds)
              /\ \A d \in ChunkId :
                    d \in Visited(search.bounds) /\ d \in Visited(collider.bounds) =>
                       (SeenBefore(search, d, collider) <=> d # c)
<1> DEFINE a == search.bounds
           b == collider.bounds
           W == ChunkWidth
<1>1. /\ a.x1 \in Int /\ a.x2 \in Int /\ a.y1 \in Int /\ a.y2 \in Int
      /\ b.x1 \in Int /\ b.x2 \in Int /\ b.y1 \in Int /\ b.y2 \in Int
      /\ 0 <= a.x1 /\ a.x1 < a.x2 /\ a.x2 <= WorldWidth
      /\ 0 <= a.y1 /\ a.y1 < a.y2 /\ a.y2 <= WorldWidth
      /\ 0 <= b.x1 /\ b.x1 < b.x2 /\ b.x2 <= WorldWidth
      /\ 0 <= b.y1 /\ b.y1 < b.y2 /\ b.y2 <= WorldWidth
      /\ a.x1 < b.x2 /\ b.x1 < a.x2 /\ a.y1 < b.y2 /\ b.y1 < a.y2
  <2>1. /\ a.x1 \in Int /\ a.x2 \in Int /\ a.y1 \in Int /\ a.y2 \in Int
        /\ b.x1 \in Int /\ b.x2 \in Int /\ b.y1 \in Int /\ b.y2 \in Int
    BY DEF ValidBounds
  <2>2. QED
    BY <2>1 DEF Regular, InWorld, Collides
<1>2. PICK x \in ChunkCoord : SeenButIn(a.x1, a.x2, b.x1, b.x2, x)
  BY <1>1, AxisSeenButOnce
<1>3. PICK y \in ChunkCoord : SeenButIn(a.y1, a.y2, b.y1, b.y2, y)
  BY <1>1, AxisSeenButOnce
<1> DEFINE c == <<x, y>>
<1>4. c \in ChunkId /\ c[1] = x /\ c[2] = y
  BY DEF ChunkId
<1> HIDE DEF c
<1>5. /\ \A d \in ChunkId :
            /\ d \in Visited(a) <=> AxisHas(a.x1, a.x2, d[1]) /\ AxisHas(a.y1, a.y2, d[2])
            /\ d \in Visited(b) <=> AxisHas(b.x1, b.x2, d[1]) /\ AxisHas(b.y1, b.y2, d[2])
      /\ ChunkRange(a).x1 = a.x1 \div W /\ ChunkRange(a).y1 = a.y1 \div W
  BY <1>4, VisitedInWorld
<1>6. c \in Visited(a) /\ c \in Visited(b)
  BY <1>2, <1>3, <1>4, <1>5 DEF SeenButIn
<1>7. ASSUME NEW d \in ChunkId, d \in Visited(a), d \in Visited(b)
      PROVE  SeenBefore(search, d, collider) <=> d # c
  <2>1. /\ AxisHas(a.x1, a.x2, d[1]) /\ AxisHas(b.x1, b.x2, d[1])
        /\ AxisHas(a.y1, a.y2, d[2]) /\ AxisHas(b.y1, b.y2, d[2])
        /\ d[1] \in ChunkCoord /\ d[2] \in ChunkCoord /\ d = <<d[1], d[2]>>
    BY <1>5, <1>7 DEF ChunkId
  <2>2. SeenBefore(search, d, collider) <=>
           \/ d[1] # a.x1 \div W /\ d[1] * W - 1 >= b.x1 /\ d[1] * W - 1 <= b.x2
           \/ d[2] # a.y1 \div W /\ d[2] * W - 1 >= b.y1 /\ d[2] * W - 1 <= b.y2
    BY <1>5 DEF SeenBefore
  <2>3. SeenBefore(search, d, collider) <=> d[1] # x \/ d[2] # y
    BY <1>2, <1>3, <2>1, <2>2 DEF SeenButIn
  <2>4. d # c <=> d[1] # x \/ d[2] # y
    BY <1>4, <2>1 DEF c
  <2>5. QED
    BY <2>3, <2>4
<1>8. QED
  BY <1>4, <1>6, <1>7

\* In the world, a search for more than one result meets each match once.
LEMMA ReportedOnce ==
    ASSUME SInv, NEW search, search.bounds \in ValidBounds, Exact(search.bounds),
           search.max_results > 1, NEW id \in ExactMatches(search)
    PROVE  Once(Reported(search), entities[id].collider)
<1> DEFINE collider == entities[id].collider
           b == search.bounds
<1>1. /\ id \in DOMAIN entities /\ Matches(search, collider)
      /\ InWorld(b) /\ Regular(b) /\ InWorld(collider.bounds) /\ Regular(collider.bounds)
  BY DEF ExactMatches, MatchingEntities, Exact
<1>2. /\ collider \in Collider /\ collider.bounds \in ValidBounds /\ IInv
      /\ \A c \in ChunkId :
            HoldsCollider(chunks[c], collider) <=> c \in Visited(collider.bounds)
  BY <1>1, CurrentCollider DEF SInv
<1> HIDE DEF collider
<1>3. PICK c \in ChunkId :
         /\ c \in Visited(b) /\ c \in Visited(collider.bounds)
         /\ \A d \in ChunkId :
               d \in Visited(b) /\ d \in Visited(collider.bounds) =>
                  (SeenBefore(search, d, collider) <=> d # c)
  <2>1. Collides(collider.bounds, search.bounds)
    BY <1>1 DEF Matches
  <2>2. QED
    BY <1>1, <1>2, <2>1, SeenButOnce
<1>4. Once(ChunkHits(search, c), collider)
  BY <1>1, <1>2, <1>3, ChunkReports
<1>5. ASSUME NEW d \in Visited(b), d # c
      PROVE  Absent(ChunkHits(search, d), collider)
  <2>1. d \in ChunkId
    BY DEF Visited
  <2>2. ~HoldsCollider(chunks[d], collider) \/ SeenBefore(search, d, collider)
    BY <1>2, <1>3, <1>5, <2>1
  <2>3. QED
    BY <1>2, <2>1, <2>2, ChunkReports
<1>6. Once(Reported(search), collider)
  BY <1>1, <1>2, <1>3, <1>4, <1>5, SearchReported
<1>7. QED
  BY <1>6 DEF collider

\* The results are the first of all that the chunks report, as many as the cap allows.
LEMMA SearchIsPrefix ==
    ASSUME IInv, NEW search, search.bounds \in ValidBounds, Regular(search.bounds),
           search.max_results \in Nat
    PROVE  \E n, m \in Nat :
              /\ Reported(search) \in Seq(Collider) /\ Len(Reported(search)) = m
              /\ n = IF m < search.max_results THEN m ELSE search.max_results
              /\ Len(Search(search)) = n /\ DOMAIN Search(search) = 1 .. n
              /\ \A i \in 1 .. n : Search(search)[i] = Reported(search)[i]
<1> DEFINE all == Reported(search)
           cap == search.max_results
           n == IF Len(all) < cap THEN Len(all) ELSE cap
<1>1. Search(search) = SubSeq(all, 1, n)
  BY DEF Search, Reported
<1>2. all \in Seq(Collider)
  BY SearchReported
<1> HIDE DEF all
<1>3. Len(all) \in Nat /\ n \in Nat /\ n <= Len(all)
  BY <1>2
<1>4. /\ Len(SubSeq(all, 1, n)) = n /\ DOMAIN SubSeq(all, 1, n) = 1 .. n
      /\ \A i \in 1 .. n : SubSeq(all, 1, n)[i] = all[i]
  BY <1>2, <1>3
<1>5. QED
  BY <1>1, <1>2, <1>3, <1>4 DEF all

\* The entities are as many as their ids.
LEMMA EntityCount ==
    ASSUME IInv
    PROVE  IsFiniteSet(DOMAIN entities) /\ Cardinality(DOMAIN entities) \in Nat
<1>1. PICK n \in 0 .. MaxEntityId + 1 : DOMAIN entities = 0 .. n - 1
  BY DEF IInv, TypeOK
<1>2. IsFiniteSet(0 .. n - 1)
  BY FS_Interval
<1>3. QED
  BY <1>1, <1>2, FS_CardinalityType

\* In every reachable state a search in the world reports no match twice, and misses
\* one only when the results are full and hold something else.
LEMMA SearchReportsOnce == SInv => SearchReportsEachEntityOnce
<1> DEFINE caps == {Cardinality(DOMAIN entities), Uncapped}
<1> SUFFICES ASSUME SInv, NEW b \in SearchBounds, NEW tagset \in SUBSET Tag,
                    NEW cap \in caps, Exact(b),
                    NEW id \in ExactMatches(SearchRequest(b, tagset, {}, cap))
             PROVE  LET search == SearchRequest(b, tagset, {}, cap)
                        hits == Search(search)
                    IN  \/ Cardinality(PlacesOf(hits, id)) = 1
                        \/ PlacesOf(hits, id) = {} /\ Crowded(search)
  BY DEF SearchReportsEachEntityOnce
<1> DEFINE search == SearchRequest(b, tagset, {}, cap)
           hits == Search(search)
           all == Reported(search)
<1>1. /\ search.bounds = b /\ search.max_results = cap
      /\ b \in ValidBounds /\ Regular(b) /\ IInv
  BY SearchBoundsAssumption DEF SearchRequest, Exact, SInv
<1>2. id \in ExactMatches(search)
  OBVIOUS
<1> HIDE DEF search
<1>3. IsFiniteSet(DOMAIN entities) /\ Cardinality(DOMAIN entities) \in Nat
  BY <1>1, EntityCount
<1>4. id \in MatchingEntities(search) /\ id \in DOMAIN entities
      /\ Regular(entities[id].collider.bounds)
  BY <1>2 DEF ExactMatches, MatchingEntities, Exact
<1>5. cap \in Nat /\ cap >= 1
  <2>1. Cardinality(DOMAIN entities) # 0
    BY <1>3, <1>4, FS_EmptySet
  <2>2. Uncapped \in Nat /\ Uncapped >= 1
    <3>1. PICK q \in Nat : q = (MaxEntityId + 1) * ChunksPerAxis * ChunksPerAxis
      <4>1. \A x, n \in Nat : x * n * n \in Nat
        OBVIOUS
      <4>2. QED
        BY <4>1
    <3>2. QED
      BY <3>1 DEF Uncapped
  <2>3. QED
    BY <1>3, <2>1, <2>2
<1>6. PICK n, m \in Nat :
         /\ all \in Seq(Collider) /\ Len(all) = m
         /\ n = IF m < cap THEN m ELSE cap
         /\ Len(hits) = n /\ DOMAIN hits = 1 .. n
         /\ \A i \in 1 .. n : hits[i] = all[i]
  BY <1>1, <1>5, SearchIsPrefix
<1>7. m < Uncapped
  BY <1>1, <1>6, SearchReported
<1>8. cap > 1 => \A other \in ExactMatches(search) : Once(all, entities[other].collider)
  BY <1>1, ReportedOnce
<1>9. cap = 1 => m >= 1
  BY <1>1, <1>4, <1>6, ReportsSomething
<1> HIDE DEF hits, all
<1>10. ASSUME NEW other \in ExactMatches(search),
              NEW i \in PlacesOf(hits, other), NEW j \in PlacesOf(hits, other)
       PROVE  i = j
  <2>1. /\ i \in 1 .. n /\ j \in 1 .. n
        /\ hits[i] = entities[other].collider /\ hits[j] = entities[other].collider
    BY <1>6 DEF PlacesOf
  <2>2. CASE cap = 1
    BY <1>6, <2>1, <2>2
  <2>3. CASE cap > 1
    <3>1. PICK k \in 1 .. m : \A l \in 1 .. m : all[l] = entities[other].collider => l = k
      BY <1>6, <1>8, <2>3 DEF Once
    <3>2. i \in 1 .. m /\ j \in 1 .. m /\ all[i] = hits[i] /\ all[j] = hits[j]
      BY <1>5, <1>6, <2>1
    <3>3. QED
      BY <2>1, <3>1, <3>2
  <2>4. QED
    BY <1>5, <2>2, <2>3
<1>11. ASSUME PlacesOf(hits, id) = {}
       PROVE  Crowded(search)
  <2>1. n = cap
    <3>1. SUFFICES ASSUME m < cap PROVE FALSE
      BY <1>6
    <3>2. cap > 1
      BY <1>5, <1>9, <3>1
    <3>3. PICK k \in 1 .. m : all[k] = entities[id].collider
      BY <1>2, <1>6, <1>8, <3>2 DEF Once
    <3>4. k \in 1 .. n /\ hits[k] = all[k]
      BY <1>6, <3>1
    <3>5. k \in PlacesOf(hits, id)
      BY <1>6, <3>3, <3>4 DEF PlacesOf
    <3>6. QED
      BY <1>11, <3>5
  <2>2. cap = Cardinality(DOMAIN entities)
    BY <1>5, <1>6, <1>7, <2>1
  <2>3. ASSUME \A i \in 1 .. n : \E other \in ExactMatches(search) : i \in PlacesOf(hits, other)
        PROVE  FALSE
    <3> DEFINE others == DOMAIN entities \ {id}
               f == [i \in 1 .. n |->
                        CHOOSE other \in ExactMatches(search) : i \in PlacesOf(hits, other)]
    <3>1. \A i \in 1 .. n : f[i] \in ExactMatches(search) /\ i \in PlacesOf(hits, f[i])
      BY <2>3
    <3>2. \A i \in 1 .. n : f[i] \in others
      BY <1>11, <3>1 DEF ExactMatches, MatchingEntities
    <3>3. f \in [1 .. n -> others]
      BY <3>2
    <3> HIDE DEF f
    <3>4. IsFiniteSet(others) /\ Cardinality(others) = cap - 1
      BY <1>3, <1>4, <2>2, FS_RemoveElement
    <3>5. IsFiniteSet(1 .. n) /\ Cardinality(1 .. n) = cap
      <4>1. IsFiniteSet(1 .. n) /\ Cardinality(1 .. n) = IF 1 > n THEN 0 ELSE n - 1 + 1
        BY FS_Interval
      <4>2. QED
        BY <1>5, <2>1, <4>1
    <3>6. Cardinality(others) < Cardinality(1 .. n)
      BY <1>5, <3>4, <3>5
    <3>7. PICK i, j \in 1 .. n : i # j /\ f[i] = f[j]
      <4>1. \E i, j \in 1 .. n : i # j /\ f[i] = f[j]
        BY <3>3, <3>4, <3>5, <3>6, FS_PigeonHole
      <4>2. QED
        BY <4>1
    <3>8. QED
      BY <1>10, <3>1, <3>7
  <2>4. QED
    BY <1>1, <1>6, <2>1, <2>3 DEF Crowded, hits
<1>12. ASSUME NEW i \in PlacesOf(hits, id)
       PROVE  Cardinality(PlacesOf(hits, id)) = 1
  <2>1. PlacesOf(hits, id) = {i}
    BY <1>2, <1>10, <1>12
  <2>2. QED
    BY <2>1, FS_Singleton
<1>13. QED
  BY <1>11, <1>12 DEF search, hits

\* Within the world, with the cap of the bindings or with room, a search reports no
\* entity twice as it is now, and misses a match only when stale copies have used up
\* the cap, whatever was stored and moved before.
THEOREM SearchesReportOnce == Spec => []SearchReportsEachEntityOnce
BY SearchReportsOnce, CopiesStayInPlace, PTL
=============================================================================
