---------------------------- MODULE StreamProofs ----------------------------
(***************************************************************************)
(* What is read is what was sent: streams that pass through a buffer.      *)
(* CRingBuffer is a queue of bytes bounded by its size, for every size,    *)
(* content and length of what is written and read, also where a piece ends *)
(* at the end of the buffer or goes round it (RingBuffer). The bytes of    *)
(* NextPVR pass through it (NextPVR), the packets of VNSI through a        *)
(* session and a table of streams (VNSIDemux), its recordings through      *)
(* files that grow (VNSIRecording), the time-shift buffer of MediaPortal   *)
(* through files that come and go (TsBuffer), and live TV of MythTV        *)
(* through a chain of files that an event lengthens (LiveTV).              *)
(***************************************************************************)
EXTENDS RingBuffer, NextPVR, VNSIDemux, VNSIRecording, TsBuffer, LiveTV,
  SequenceLemmas, SequenceTheorems, FiniteSetTheorems, TLAPS

Around(x, size) == IF x < size THEN x ELSE x - size

(* The place of the i-th byte from the oldest.                             *)
Place(r, i) == Around(r.readPtr + i - 1, r.size)

(* Between calls the write pointer is the place behind the newest byte.    *)
Consistent(r, size) ==
  /\ r \in RingBuffers(size)
  /\ r.writePtr = Place(r, r.fillCount + 1)

(* A new buffer is consistent and empty.                                   *)
THEOREM CreateEmpty ==
  ASSUME NEW size \in Nat \ {0}
  PROVE  Consistent(Create(size), size) /\ Contents(Create(size)) = <<>>
<1>1. Create(size) \in RingBuffers(size)
  BY JunkAssumption DEF Create, RingBuffers
<1>2. Create(size).writePtr = Place(Create(size), Create(size).fillCount + 1)
  BY DEF Create, Place, Around
<1>3. Contents(Create(size)) = <<>>
  BY DEF Create, Contents
<1>. QED  BY <1>1, <1>2, <1>3 DEF Consistent

(* What a member of a consistent buffer may be.                            *)
LEMMA Members ==
  ASSUME NEW size \in Nat \ {0}, NEW r, Consistent(r, size)
  PROVE  /\ r.size = size
         /\ r.readPtr \in 0..(size - 1) /\ r.writePtr \in 0..(size - 1)
         /\ r.fillCount \in 0..size
         /\ r.mem \in [0..(size - 1) -> Byte]
         /\ \A i \in 1..size : Place(r, i) \in 0..(size - 1)
         /\ r.writePtr = Around(r.readPtr + r.fillCount, size)
BY DEF Consistent, RingBuffers, Place, Around

LEMMA ContentsAre ==
  ASSUME NEW size \in Nat \ {0}, NEW r, Consistent(r, size)
  PROVE  /\ Contents(r) \in Seq(Byte)
         /\ Len(Contents(r)) = r.fillCount
         /\ \A i \in 1..r.fillCount : Contents(r)[i] = r.mem[Place(r, i)]
<1>1. r.fillCount \in Nat /\ r.fillCount <= size
  BY Members
<1>2. \A i \in 1..r.fillCount : r.mem[Place(r, i)] \in Byte
  BY Members, <1>1
<1>3. Contents(r) = [i \in 1..r.fillCount |-> r.mem[Place(r, i)]]
  <2>1. \A i \in 1..r.fillCount :
          Place(r, i) = IF r.readPtr + i - 1 < r.size THEN r.readPtr + i - 1
                        ELSE r.readPtr + i - 1 - r.size
    BY Members DEF Place, Around
  <2>. QED  BY <2>1 DEF Contents
<1>. QED  BY <1>1, <1>2, <1>3

(* The pointers move round the buffer.                                     *)
LEMMA WrappedIs ==
  ASSUME NEW size \in Nat \ {0}, NEW ptr \in 0..(size - 1), NEW n \in 0..size
  PROVE  Wrapped(ptr, n, size) = Around(ptr + n, size)
BY DEF Wrapped, Around

(* The arithmetic of the places: p is the read pointer, w the write        *)
(* pointer, f the number of bytes that wait, n of those that are written.  *)
LEMMA Behind ==
  ASSUME NEW size \in Nat \ {0}, NEW p \in 0..(size - 1), NEW f \in 0..size,
         NEW i \in 1..(size - f)
  PROVE  /\ Around(p + f, size) \in 0..(size - 1)
         /\ Around(p + (f + i) - 1, size) = Around(Around(p + f, size) + i - 1, size)
         /\ Around(p + (f + i) - 1, size) \in 0..(size - 1)
BY DEF Around

LEMMA AfterNew ==
  ASSUME NEW size \in Nat \ {0}, NEW p \in 0..(size - 1), NEW f \in 0..size,
         NEW w, w = Around(p + f, size), NEW n \in 0..(size - f)
  PROVE  /\ Around(w + n, size) = Around(p + (f + n + 1) - 1, size)
         /\ Around(w + n, size) \in 0..(size - 1)
BY DEF Around

LEMMA Twice ==
  ASSUME NEW size \in Nat \ {0}, NEW p \in 0..(size - 1), NEW n \in 0..size,
         NEW i \in 1..(size + 1), n + i <= size + 1
  PROVE  /\ Around(p + n, size) \in 0..(size - 1)
         /\ Around(Around(p + n, size) + i - 1, size) = Around(p + (n + i) - 1, size)
BY DEF Around

LEMMA Pieces ==
  ASSUME NEW size \in Nat \ {0}, NEW p \in 0..(size - 1), NEW f \in 0..size,
         NEW n \in 0..f, NEW i \in 1..n
  PROVE  Around(p + i - 1, size) =
           IF n + p > size /\ i > size - p THEN i - 1 - (size - p) ELSE p + i - 1
BY DEF Around

LEMMA OldPlaces ==
  ASSUME NEW size \in Nat \ {0}, NEW p \in 0..(size - 1), NEW f \in 0..size,
         NEW w, w = Around(p + f, size), NEW n \in 0..(size - f),
         NEW i \in 1..f, NEW k, k = Around(p + i - 1, size)
  PROVE  /\ k \in 0..(size - 1)
         /\ ~(k >= w /\ k < w + n)
         /\ ~(n + w > size /\ k < n - (size - w))
BY DEF Around

-----------------------------------------------------------------------------
(* memcpy puts each new byte at its place and leaves those that wait.      *)
LEMMA StoredIs ==
  ASSUME NEW size \in Nat \ {0}, NEW r, Consistent(r, size),
         NEW data \in Seq(Byte), Len(data) <= size - r.fillCount
  PROVE  /\ Stored(r, data) \in [0..(size - 1) -> Byte]
         /\ \A i \in 1..Len(data) : Stored(r, data)[Place(r, r.fillCount + i)] = data[i]
         /\ \A i \in 1..r.fillCount : Stored(r, data)[Place(r, i)] = r.mem[Place(r, i)]
<1>. DEFINE n == Len(data)
            new == Stored(r, data)
<1>1. /\ r.size = size
      /\ r.readPtr \in 0..(size - 1) /\ r.writePtr \in 0..(size - 1)
      /\ r.fillCount \in 0..size /\ r.mem \in [0..(size - 1) -> Byte]
      /\ r.writePtr = Around(r.readPtr + r.fillCount, size)
      /\ n \in Nat /\ n <= size - r.fillCount
      /\ \A i \in 1..n : data[i] \in Byte
  <2>1. n \in Nat /\ n <= size - r.fillCount /\ \A i \in 1..n : data[i] \in Byte
    OBVIOUS
  <2>. QED  BY <2>1, Members
<1>2. /\ DOMAIN new = 0..(size - 1)
      /\ \A k \in 0..(size - 1) :
           new[k] = IF k >= r.writePtr /\ k < r.writePtr + n THEN data[k - r.writePtr + 1]
                    ELSE IF n + r.writePtr > size /\ k < n - (size - r.writePtr)
                         THEN data[size - r.writePtr + k + 1]
                    ELSE r.mem[k]
  BY <1>1 DEF Stored
<1>3. ASSUME NEW k \in 0..(size - 1) PROVE new[k] \in Byte
  <2>1. CASE k >= r.writePtr /\ k < r.writePtr + n
    <3>1. k - r.writePtr + 1 \in 1..n
      BY <1>1, <2>1
    <3>. QED  BY <1>1, <1>2, <2>1, <3>1
  <2>2. CASE ~(k >= r.writePtr /\ k < r.writePtr + n)
             /\ n + r.writePtr > size /\ k < n - (size - r.writePtr)
    <3>1. size - r.writePtr + k + 1 \in 1..n
      BY <1>1, <2>2
    <3>. QED  BY <1>1, <1>2, <2>2, <3>1
  <2>3. CASE ~(k >= r.writePtr /\ k < r.writePtr + n)
             /\ ~(n + r.writePtr > size /\ k < n - (size - r.writePtr))
    BY <1>1, <1>2, <2>3
  <2>. QED  BY <2>1, <2>2, <2>3
<1>4. new \in [0..(size - 1) -> Byte]
  <2>1. new = [k \in 0..(size - 1) |-> new[k]]
    BY <1>1 DEF Stored
  <2>. QED  BY <1>3, <2>1
<1>5. ASSUME NEW i \in 1..n PROVE new[Place(r, r.fillCount + i)] = data[i]
  <2>1. PICK k : k = Place(r, r.fillCount + i)
    OBVIOUS
  <2>2. i \in 1..(size - r.fillCount) /\ n \in 0..size
    BY <1>1
  <2>3. k = Around(r.writePtr + i - 1, size) /\ k \in 0..(size - 1)
    BY <1>1, <2>1, <2>2, Behind DEF Place
  <2>4. \/ k >= r.writePtr /\ k < r.writePtr + n /\ k - r.writePtr + 1 = i
        \/ /\ ~(k >= r.writePtr /\ k < r.writePtr + n)
           /\ n + r.writePtr > size /\ k < n - (size - r.writePtr)
           /\ size - r.writePtr + k + 1 = i
    <3>1. r.writePtr \in 0..(size - 1) /\ k = Around(r.writePtr + i - 1, size)
      BY <1>1, <2>3
    <3>2. PICK w : w = r.writePtr
      OBVIOUS
    <3>3. PICK m : m = n
      OBVIOUS
    <3>4. /\ w \in 0..(size - 1) /\ m \in 0..size /\ i \in 1..m
          /\ k = Around(w + i - 1, size)
      BY <2>2, <3>1, <3>2, <3>3
    <3>5. \/ k >= w /\ k < w + m /\ k - w + 1 = i
          \/ /\ ~(k >= w /\ k < w + m)
             /\ m + w > size /\ k < m - (size - w) /\ size - w + k + 1 = i
      BY <3>4 DEF Around
    <3>. QED  BY <3>2, <3>3, <3>5
  <2>. HIDE DEF n, new
  <2>5. new[k] = data[i]
    BY <1>2, <2>3, <2>4
  <2>. QED  BY <2>1, <2>5
<1>6. ASSUME NEW i \in 1..r.fillCount PROVE new[Place(r, i)] = r.mem[Place(r, i)]
  <2>1. PICK k : k = Place(r, i)
    OBVIOUS
  <2>2. n \in 0..(size - r.fillCount) /\ k = Around(r.readPtr + i - 1, size)
    BY <1>1, <2>1 DEF Place
  <2>3. /\ k \in 0..(size - 1)
        /\ ~(k >= r.writePtr /\ k < r.writePtr + n)
        /\ ~(n + r.writePtr > size /\ k < n - (size - r.writePtr))
    BY <1>1, <2>2, OldPlaces, Zenon
  <2>. HIDE DEF n, new
  <2>4. new[k] = r.mem[k]
    BY <1>2, <2>3
  <2>. QED  BY <2>1, <2>4
<1>. QED  BY <1>4, <1>5, <1>6

(* WriteData appends what it is given to the contents, or, when there is   *)
(* no room for all of it, leaves the buffer as it is: no byte is lost,     *)
(* overwritten or put in another order.                                    *)
THEOREM WriteAppends ==
  ASSUME NEW size \in Nat \ {0}, NEW r, Consistent(r, size), NEW data \in Seq(Byte)
  PROVE  /\ Consistent(WriteData(r, data), size)
         /\ Contents(WriteData(r, data)) =
              IF Len(data) > GetMaxWriteSize(r) THEN Contents(r) ELSE Contents(r) \o data
<1>. DEFINE n == Len(data)
            w == WriteData(r, data)
<1>1. /\ r \in RingBuffers(size) /\ r.size = size
      /\ r.readPtr \in 0..(size - 1) /\ r.writePtr \in 0..(size - 1)
      /\ r.fillCount \in 0..size /\ n \in Nat
      /\ r.writePtr = Around(r.readPtr + r.fillCount, size)
  BY Members DEF Consistent
<1>2. CASE n > size - r.fillCount
  BY <1>1, <1>2 DEF WriteData, GetMaxWriteSize
<1>3. CASE n <= size - r.fillCount
  <2>1. /\ Stored(r, data) \in [0..(size - 1) -> Byte]
        /\ \A i \in 1..n : Stored(r, data)[Place(r, r.fillCount + i)] = data[i]
        /\ \A i \in 1..r.fillCount : Stored(r, data)[Place(r, i)] = r.mem[Place(r, i)]
    BY <1>3, StoredIs
  <2>2. Wrapped(r.writePtr, n, size) = Around(r.writePtr + n, size)
    <3>1. n \in 0..size
      BY <1>1, <1>3
    <3>. QED  BY <1>1, <3>1, WrappedIs, Zenon
  <2>3. /\ w.mem = Stored(r, data) /\ w.size = size /\ w.readPtr = r.readPtr
        /\ w.writePtr = Wrapped(r.writePtr, n, size) /\ w.fillCount = r.fillCount + n
        /\ w = [mem |-> w.mem, size |-> w.size, readPtr |-> w.readPtr,
                writePtr |-> w.writePtr, fillCount |-> w.fillCount]
    <3>1. w = [r EXCEPT !.mem = Stored(r, data), !.writePtr = Wrapped(r.writePtr, n, size),
                        !.fillCount = r.fillCount + n]
      BY <1>1, <1>3 DEF WriteData
    <3>2. r = [mem |-> r.mem, size |-> r.size, readPtr |-> r.readPtr,
               writePtr |-> r.writePtr, fillCount |-> r.fillCount]
      BY <1>1 DEF RingBuffers
    <3>. HIDE DEF w, n
    <3>. QED  BY <1>1, <3>1, <3>2
  <2>4. \A i \in 1..(size + 1) : Place(w, i) = Place(r, i)
    BY <1>1, <2>3 DEF Place
  <2>5. w.writePtr \in 0..(size - 1) /\ w.writePtr = Place(r, r.fillCount + n + 1)
    <3>1. r.readPtr + r.fillCount \in Nat /\ n \in 0..(size - r.fillCount)
      BY <1>1, <1>3
    <3>2. Around(r.writePtr + n, size) = Around(r.readPtr + (r.fillCount + n + 1) - 1, size)
          /\ Around(r.writePtr + n, size) \in 0..(size - 1)
      <4>1. /\ r.readPtr \in 0..(size - 1) /\ r.fillCount \in 0..size
            /\ r.writePtr = Around(r.readPtr + r.fillCount, size)
        BY <1>1
      <4>. QED  BY <3>1, <4>1, AfterNew, ZenonT(60)
    <3>. QED  BY <1>1, <2>2, <2>3, <3>2 DEF Place
  <2>6. w \in RingBuffers(size)
    BY <1>1, <1>3, <2>1, <2>3, <2>5 DEF RingBuffers
  <2>7. Consistent(w, size)
    BY <1>1, <1>3, <2>3, <2>4, <2>5, <2>6 DEF Consistent
  <2>8. /\ Contents(w) \in Seq(Byte) /\ Len(Contents(w)) = r.fillCount + n
        /\ \A i \in 1..(r.fillCount + n) : Contents(w)[i] = Stored(r, data)[Place(w, i)]
    BY <2>3, <2>7, ContentsAre
  <2>9. /\ Contents(r) \in Seq(Byte) /\ Len(Contents(r)) = r.fillCount
        /\ \A i \in 1..r.fillCount : Contents(r)[i] = r.mem[Place(r, i)]
    BY ContentsAre
  <2>10. /\ Contents(r) \o data \in Seq(Byte) /\ Len(Contents(r) \o data) = r.fillCount + n
    BY <1>1, <2>9, SMTT(30)
  <2>11. ASSUME NEW i \in 1..(r.fillCount + n)
         PROVE  Contents(w)[i] = (Contents(r) \o data)[i]
    <3>1. Contents(w)[i] = Stored(r, data)[Place(r, i)]
      BY <1>1, <1>3, <2>4, <2>8
    <3>2. CASE i <= r.fillCount
      BY <1>1, <2>1, <2>9, <3>1, <3>2
    <3>3. CASE i > r.fillCount
      <4>1. i - r.fillCount \in 1..n /\ r.fillCount + (i - r.fillCount) = i
        BY <1>1, <3>3
      <4>2. Stored(r, data)[Place(r, i)] = data[i - r.fillCount]
        BY <2>1, <4>1
      <4>3. (Contents(r) \o data)[i] = data[i - r.fillCount]
        BY <1>1, <2>9, <3>3, <4>1, SMTT(30)
      <4>. QED  BY <3>1, <4>2, <4>3
    <3>4. i <= r.fillCount \/ i > r.fillCount
      BY <1>1
    <3>. QED  BY <3>2, <3>3, <3>4
  <2>12. Contents(w) = Contents(r) \o data
    BY <2>8, <2>10, <2>11, SeqEqual
  <2>. QED  BY <1>1, <1>3, <2>7, <2>12 DEF GetMaxWriteSize
<1>. QED  BY <1>1, <1>2, <1>3

(* ReadData copies the oldest bytes out, and the buffer then holds the     *)
(* others; SkipBytes does the same without the copy.                       *)
THEOREM ReadTakesOldest ==
  ASSUME NEW size \in Nat \ {0}, NEW r, Consistent(r, size), NEW n \in 0..GetMaxReadSize(r)
  PROVE  /\ BytesAt(r, n) = SubSeq(Contents(r), 1, n)
         /\ Consistent(SkipBytes(r, n), size)
         /\ Contents(r) = BytesAt(r, n) \o Contents(SkipBytes(r, n))
<1>. DEFINE s == SkipBytes(r, n)
<1>1. /\ r \in RingBuffers(size) /\ r.size = size
      /\ r.readPtr \in 0..(size - 1) /\ r.writePtr \in 0..(size - 1)
      /\ r.fillCount \in 0..size /\ n \in 0..r.fillCount
      /\ r.mem \in [0..(size - 1) -> Byte]
      /\ r.writePtr = Around(r.readPtr + r.fillCount, size)
  BY Members DEF Consistent, GetMaxReadSize
<1>2. /\ Contents(r) \in Seq(Byte) /\ Len(Contents(r)) = r.fillCount
      /\ \A i \in 1..r.fillCount : Contents(r)[i] = r.mem[Place(r, i)]
  BY ContentsAre
<1>3. BytesAt(r, n) = [i \in 1..n |-> r.mem[Place(r, i)]]
  <2>1. ASSUME NEW i \in 1..n
        PROVE  (IF n + r.readPtr > r.size /\ i > r.size - r.readPtr
                THEN r.mem[i - 1 - (r.size - r.readPtr)] ELSE r.mem[r.readPtr + i - 1])
               = r.mem[Place(r, i)]
    <3>1. i \in 1..r.fillCount /\ Place(r, i) = Around(r.readPtr + i - 1, size)
      BY <1>1 DEF Place
    <3>2. Around(r.readPtr + i - 1, size) =
            IF n + r.readPtr > size /\ i > size - r.readPtr
            THEN i - 1 - (size - r.readPtr) ELSE r.readPtr + i - 1
      BY <1>1, <3>1, Pieces, Zenon
    <3>. QED  BY <1>1, <3>1, <3>2
  <2>. QED  BY <2>1 DEF BytesAt
<1>4. /\ BytesAt(r, n) \in Seq(Byte) /\ Len(BytesAt(r, n)) = n
      /\ \A i \in 1..n : BytesAt(r, n)[i] = Contents(r)[i]
  <2>1. \A i \in 1..n : r.mem[Place(r, i)] \in Byte
    BY <1>1, Members
  <2>2. n \in Nat /\ \A i \in 1..n : i \in 1..r.fillCount
    BY <1>1
  <2>3. BytesAt(r, n) \in [1..n -> Byte]
    BY <1>3, <2>1, Zenon
  <2>4. BytesAt(r, n) \in Seq(Byte) /\ Len(BytesAt(r, n)) = n
    BY <2>2, <2>3
  <2>5. \A i \in 1..n : BytesAt(r, n)[i] = r.mem[Place(r, i)]
    BY <1>3, Zenon
  <2>. QED  BY <1>2, <2>2, <2>4, <2>5
<1>5. BytesAt(r, n) = SubSeq(Contents(r), 1, n)
  BY <1>1, <1>2, <1>4
<1>6. Wrapped(r.readPtr, n, size) = Around(r.readPtr + n, size)
  <2>1. n \in 0..size
    BY <1>1
  <2>. QED  BY <1>1, <2>1, WrappedIs, Zenon
<1>7. /\ s.mem = r.mem /\ s.size = size /\ s.writePtr = r.writePtr
      /\ s.readPtr = Wrapped(r.readPtr, n, size) /\ s.fillCount = r.fillCount - n
      /\ s = [mem |-> s.mem, size |-> s.size, readPtr |-> s.readPtr,
              writePtr |-> s.writePtr, fillCount |-> s.fillCount]
  <2>1. s = [r EXCEPT !.readPtr = Wrapped(r.readPtr, n, size), !.fillCount = r.fillCount - n]
    BY <1>1 DEF SkipBytes
  <2>2. r = [mem |-> r.mem, size |-> r.size, readPtr |-> r.readPtr,
             writePtr |-> r.writePtr, fillCount |-> r.fillCount]
    BY <1>1 DEF RingBuffers
  <2>. HIDE DEF s
  <2>. QED  BY <1>1, <2>1, <2>2
<1>8. \A i \in 1..(r.fillCount - n + 1) : Place(s, i) = Place(r, n + i)
  <2>. SUFFICES ASSUME NEW i \in 1..(r.fillCount - n + 1)
                PROVE  Place(s, i) = Place(r, n + i)
    OBVIOUS
  <2>1. n \in 0..size /\ i \in 1..(size + 1) /\ n + i <= size + 1
    BY <1>1
  <2>2. Around(Around(r.readPtr + n, size) + i - 1, size) = Around(r.readPtr + (n + i) - 1, size)
    <3>1. r.readPtr \in 0..(size - 1)
      BY <1>1
    <3>. QED  BY <2>1, <3>1, Twice, ZenonT(60)
  <2>. QED  BY <1>1, <1>6, <1>7, <2>2 DEF Place
<1>9. Consistent(s, size)
  <2>1. s.readPtr \in 0..(size - 1) /\ s.fillCount \in 0..size
    BY <1>1, <1>6, <1>7 DEF Around
  <2>2. s \in RingBuffers(size)
    BY <1>1, <1>7, <2>1 DEF RingBuffers
  <2>3. s.writePtr = Place(s, s.fillCount + 1)
    <3>1. Place(s, s.fillCount + 1) = Place(r, n + (r.fillCount - n + 1))
      BY <1>1, <1>7, <1>8
    <3>. QED  BY <1>1, <1>7, <3>1 DEF Place
  <2>. QED  BY <2>2, <2>3 DEF Consistent
<1>10. /\ Contents(s) \in Seq(Byte) /\ Len(Contents(s)) = r.fillCount - n
       /\ \A i \in 1..(r.fillCount - n) : Contents(s)[i] = r.mem[Place(s, i)]
  BY <1>7, <1>9, ContentsAre
<1>11. /\ BytesAt(r, n) \o Contents(s) \in Seq(Byte)
       /\ Len(BytesAt(r, n) \o Contents(s)) = r.fillCount
  <2>1. ASSUME NEW a \in Seq(Byte), NEW b \in Seq(Byte)
        PROVE  a \o b \in Seq(Byte) /\ Len(a \o b) = Len(a) + Len(b)
    OBVIOUS
  <2>2. n + (r.fillCount - n) = r.fillCount
    BY <1>1
  <2>. QED  BY <1>4, <1>10, <2>1, <2>2
<1>12. ASSUME NEW i \in 1..r.fillCount
       PROVE  Contents(r)[i] = (BytesAt(r, n) \o Contents(s))[i]
  <2>1. CASE i <= n
    BY <1>1, <1>4, <1>10, <2>1
  <2>2. CASE i > n
    <3>1. i - n \in 1..(r.fillCount - n) /\ n + (i - n) = i
      BY <1>1, <2>2
    <3>2. Contents(s)[i - n] = r.mem[Place(r, i)]
      <4>1. Contents(s)[i - n] = r.mem[Place(s, i - n)]
        BY <1>10, <3>1
      <4>2. i - n \in 1..(r.fillCount - n + 1)
        BY <1>1, <3>1
      <4>3. Place(s, i - n) = Place(r, i)
        BY <1>8, <3>1, <4>2
      <4>. QED  BY <4>1, <4>3
    <3>3. (BytesAt(r, n) \o Contents(s))[i] = Contents(s)[i - n]
      BY <1>1, <1>4, <1>10, <2>2, <3>1
    <3>. QED  BY <1>2, <3>2, <3>3
  <2>3. i <= n \/ i > n
    BY <1>1
  <2>. QED  BY <2>1, <2>2, <2>3
<1>. QED  BY <1>2, <1>5, <1>9, <1>11, <1>12, SeqEqual

-----------------------------------------------------------------------------
(* NextPVR                                                                 *)

(* The bytes of s follow each other.                                       *)
Chained(s) == \A i \in 1..(Len(s) - 1) : Follows(s[i], s[i + 1])

(* What comes next from the socket follows the last byte of s.             *)
Reaches(s, end) ==
  s # <<>> => /\ s[Len(s)].stream <= end.stream
              /\ end.more /\ s[Len(s)].stream = end.stream => end.next = s[Len(s)].off + 1

(* The parts, and what a read and the mutex have to do with each other.    *)
StreamParts ==
  /\ Consistent(incoming, Size)
  /\ socket \in [stream : 0..MaxStreams, next : -1..(MaxBytes + 1), more : BOOLEAN]
  /\ opened \in {"nothing", "channel", "recording"}
  /\ reading \in BOOLEAN
  /\ handed \in Seq(Byte)
  /\ recording \in [length : {0, MaxBytes + 1}, position : Int]
  /\ ahead \in Int /\ astray \in BOOLEAN
  /\ reading => opened # "nothing" /\ handed = <<>>

(* What was handed out, what is buffered and what comes next are one       *)
(* sequence.                                                               *)
InOrder ==
  /\ Chained(handed \o Contents(incoming))
  /\ Reaches(handed \o Contents(incoming), socket)

(* The inductive invariant of the bytes.                                   *)
StreamInv == StreamParts /\ InOrder

(* What the assumption says of the bounds.                                 *)
LEMMA StreamBounds ==
  /\ Size \in Nat \ {0} /\ Chunk \in Nat \ {0} /\ Wanted \in Nat \ {0}
  /\ MaxBytes \in Nat \ {0} /\ MaxStreams \in Nat \ {0}
  /\ Chunk + Wanted <= Size
  /\ Target \subseteq Int
BY StreamAssumption

(* A byte is the stream it belongs to and its place there.                 *)
LEMMA ByteIs ==
  /\ \A b \in Byte : b.stream \in 0..MaxStreams /\ b.off \in -1..MaxBytes
  /\ \A s \in 0..MaxStreams, o \in -1..MaxBytes : [stream |-> s, off |-> o] \in Byte
BY StreamAssumption

(* Two sequences are in order together if each is and the second follows   *)
(* the first.                                                              *)
LEMMA ChainOfTwo ==
  ASSUME NEW T, NEW a \in Seq(T), NEW b \in Seq(T)
  PROVE  /\ Chained(a \o b) <=>
              Chained(a) /\ Chained(b) /\ (a # <<>> /\ b # <<>> => Follows(a[Len(a)], b[1]))
         /\ b # <<>> => a \o b # <<>> /\ (a \o b)[Len(a \o b)] = b[Len(b)]
         /\ a \o <<>> = a /\ <<>> \o a = a
<1>. DEFINE ab == a \o b
<1>1. /\ ab \in Seq(T) /\ Len(ab) = Len(a) + Len(b)
      /\ \A i \in 1..Len(a) + Len(b) : ab[i] = IF i <= Len(a) THEN a[i] ELSE b[i - Len(a)]
      /\ Len(a) \in Nat /\ Len(b) \in Nat
  BY ConcatProperties
<1>2. (a # <<>> <=> Len(a) > 0) /\ (b # <<>> <=> Len(b) > 0)
  BY EmptySeq
<1>. HIDE DEF ab
<1>3. ASSUME Chained(ab)
      PROVE  Chained(a) /\ Chained(b) /\ (a # <<>> /\ b # <<>> => Follows(a[Len(a)], b[1]))
  <2>1. ASSUME NEW i \in 1..(Len(a) - 1) PROVE Follows(a[i], a[i + 1])
    <3>1. i \in 1..(Len(ab) - 1) /\ ab[i] = a[i] /\ ab[i + 1] = a[i + 1]
      BY <1>1
    <3>. QED  BY <1>3, <3>1 DEF Chained
  <2>2. ASSUME NEW i \in 1..(Len(b) - 1) PROVE Follows(b[i], b[i + 1])
    <3>1. /\ Len(a) + i \in 1..(Len(ab) - 1)
          /\ ab[Len(a) + i] = b[i] /\ ab[(Len(a) + i) + 1] = b[i + 1]
      <4>1. /\ Len(a) + i \in 1..(Len(a) + Len(b)) /\ Len(a) + i + 1 \in 1..(Len(a) + Len(b))
            /\ ~(Len(a) + i <= Len(a)) /\ ~(Len(a) + i + 1 <= Len(a))
            /\ (Len(a) + i) - Len(a) = i /\ (Len(a) + i + 1) - Len(a) = i + 1
            /\ Len(a) + i \in 1..(Len(a) + Len(b) - 1)
        BY <1>1
      <4>. QED  BY <1>1, <4>1
    <3>. QED  BY <1>3, <3>1 DEF Chained
  <2>3. ASSUME a # <<>>, b # <<>> PROVE Follows(a[Len(a)], b[1])
    <3>1. /\ Len(a) \in 1..(Len(ab) - 1)
          /\ ab[Len(a)] = a[Len(a)] /\ ab[Len(a) + 1] = b[1]
      <4>1. /\ Len(a) \in 1..(Len(a) + Len(b) - 1) /\ Len(a) + 1 \in 1..(Len(a) + Len(b))
            /\ Len(a) \in 1..(Len(a) + Len(b)) /\ Len(a) + 1 - Len(a) = 1
            /\ ~(Len(a) + 1 <= Len(a)) /\ Len(a) <= Len(a)
        BY <1>1, <1>2, <2>3
      <4>. QED  BY <1>1, <4>1
    <3>. QED  BY <1>3, <3>1 DEF Chained
  <2>. QED  BY <2>1, <2>2, <2>3 DEF Chained
<1>4. ASSUME Chained(a), Chained(b), a # <<>> /\ b # <<>> => Follows(a[Len(a)], b[1])
      PROVE  Chained(ab)
  <2>1. ASSUME NEW i \in 1..(Len(ab) - 1) PROVE Follows(ab[i], ab[i + 1])
    <3>1. CASE i < Len(a)
      <4>1. i \in 1..(Len(a) - 1) /\ ab[i] = a[i] /\ ab[i + 1] = a[i + 1]
        BY <1>1, <3>1
      <4>. QED  BY <1>4, <4>1 DEF Chained
    <3>2. CASE i = Len(a)
      <4>1. a # <<>> /\ b # <<>> /\ ab[i] = a[Len(a)] /\ ab[i + 1] = b[1]
        BY <1>1, <1>2, <3>2, SMTT(30)
      <4>. QED  BY <1>4, <4>1
    <3>3. CASE i > Len(a)
      <4>1. /\ i - Len(a) \in 1..(Len(b) - 1)
            /\ ab[i] = b[i - Len(a)] /\ ab[i + 1] = b[(i - Len(a)) + 1]
        BY <1>1, <3>3
      <4>. QED  BY <1>4, <4>1 DEF Chained
    <3>. QED  BY <1>1, <3>1, <3>2, <3>3
  <2>. QED  BY <2>1 DEF Chained
<1>5. b # <<>> => ab # <<>> /\ ab[Len(ab)] = b[Len(b)]
  BY <1>1, <1>2
<1>6. a \o <<>> = a /\ <<>> \o a = a
  BY ConcatEmptySeq
<1>. QED  BY <1>3, <1>4, <1>5, <1>6 DEF ab

(* The buffer holds as many bytes as it counts.                            *)
LEMMA ContentsIn ==
  ASSUME StreamParts
  PROVE  /\ Contents(incoming) \in Seq(Byte)
         /\ Len(Contents(incoming)) = incoming.fillCount
         /\ incoming.fillCount \in 0..Size /\ incoming.size = Size
BY StreamBounds, ContentsAre, Members DEF StreamParts

(* What is written fits, or nothing of it is kept.                         *)
LEMMA WriteIs ==
  ASSUME StreamParts, NEW data \in Seq(Byte)
  PROVE  LET r == WriteData(incoming, data)
         IN  /\ Consistent(r, Size)
             /\ IF Len(data) > Size - incoming.fillCount
                THEN Contents(r) = Contents(incoming) /\ r.fillCount = incoming.fillCount
                ELSE /\ Contents(r) = Contents(incoming) \o data
                     /\ r.fillCount = incoming.fillCount + Len(data)
<1>. DEFINE r == WriteData(incoming, data)
<1>1. Size \in Nat \ {0} /\ Consistent(incoming, Size)
  BY StreamBounds DEF StreamParts
<1>2. /\ Consistent(r, Size)
      /\ Contents(r) = IF Len(data) > GetMaxWriteSize(incoming) THEN Contents(incoming)
                       ELSE Contents(incoming) \o data
  BY <1>1, WriteAppends
<1>3. Len(Contents(r)) = r.fillCount
  BY <1>1, <1>2, ContentsAre
<1>. HIDE DEF r
<1>4. Len(Contents(incoming) \o data) = incoming.fillCount + Len(data)
  BY ContentsIn, ConcatProperties
<1>. QED  BY <1>2, <1>3, <1>4, ContentsIn DEF GetMaxWriteSize, r

(* What the buffer holds is in order by itself.                            *)
LEMMA Inside ==
  ASSUME StreamInv
  PROVE  Chained(Contents(incoming)) /\ Reaches(Contents(incoming), socket)
<1>1. handed \in Seq(Byte) /\ Contents(incoming) \in Seq(Byte)
  BY ContentsIn DEF StreamInv, StreamParts
<1>. QED  BY <1>1, ChainOfTwo DEF StreamInv, InOrder, Reaches

(* A request leaves the buffer and the socket in order.                    *)
LEMMA Requested ==
  ASSUME StreamInv, NEW from \in 0..(MaxBytes + 1),
         Unreachable \/ HeaderSplit(from) \/ HeaderWhole(from)
  PROVE  /\ Consistent(incoming', Size)
         /\ socket' \in [stream : 0..MaxStreams, next : -1..(MaxBytes + 1), more : BOOLEAN]
         /\ Chained(Contents(incoming')) /\ Reaches(Contents(incoming'), socket')
<1>1. /\ Consistent(incoming, Size)
      /\ socket \in [stream : 0..MaxStreams, next : -1..(MaxBytes + 1), more : BOOLEAN]
      /\ Chained(Contents(incoming)) /\ Reaches(Contents(incoming), socket)
      /\ Contents(incoming) \in Seq(Byte) /\ incoming.fillCount \in 0..Size
      /\ StreamParts
  BY Inside, ContentsIn DEF StreamInv, StreamParts
<1>2. CASE Unreachable
  <2>1. /\ socket' = [stream |-> socket.stream, next |-> socket.next, more |-> FALSE]
        /\ incoming' = incoming
    <3>1. /\ socket' = [socket EXCEPT !.more = FALSE] /\ incoming' = incoming
          /\ socket = [stream |-> socket.stream, next |-> socket.next, more |-> socket.more]
      BY <1>1, <1>2 DEF Unreachable
    <3>. QED  BY <3>1
  <2>. QED  BY <1>1, <2>1 DEF Reaches
<1>a. ASSUME socket.stream < MaxStreams,
             socket' = [stream |-> socket.stream + 1, next |-> socket'.next, more |-> TRUE],
             Contents(incoming') = Contents(incoming)
      PROVE  Reaches(Contents(incoming'), socket')
  <2>1. Contents(incoming) # <<>> =>
          /\ Contents(incoming)[Len(Contents(incoming))].stream <= socket.stream
          /\ Contents(incoming)[Len(Contents(incoming))] \in Byte
    BY <1>1 DEF Reaches
  <2>. QED  BY <1>1, <1>a, <2>1, ByteIs, StreamBounds DEF Reaches
<1>3. CASE HeaderSplit(from)
  <2>1. socket' = [stream |-> socket.stream + 1, next |-> from - 1, more |-> TRUE]
        /\ socket.stream < MaxStreams /\ incoming' = incoming
    BY <1>3 DEF HeaderSplit
  <2>. QED  BY <1>1, <1>a, <2>1, StreamBounds
<1>4. CASE HeaderWhole(from)
  <2>1. PICK n \in 0..1 :
          /\ from + n <= MaxBytes + 1
          /\ socket' = [stream |-> socket.stream + 1, next |-> from + n, more |-> TRUE]
          /\ incoming' = WriteData(incoming,
               [i \in 1..n |-> [stream |-> socket.stream + 1, off |-> from]])
    BY <1>4 DEF HeaderWhole
  <2>2. socket.stream < MaxStreams
    BY <1>4 DEF HeaderWhole
  <2>. DEFINE b == [stream |-> socket.stream + 1, off |-> from]
              data == [i \in 1..n |-> b]
  <2>3. b.stream = socket.stream + 1 /\ b.off = from /\ (n = 1 => b \in Byte)
    <3>1. n = 1 => from \in -1..MaxBytes
      BY <2>1, StreamBounds
    <3>. QED  BY <1>1, <2>2, <3>1, ByteIs, StreamBounds
  <2>. HIDE DEF b
  <2>4. /\ data \in Seq(Byte) /\ Len(data) = n
        /\ n = 0 => data = <<>>
        /\ n = 1 => data[1] = b
    <3>1. CASE n = 0
      BY <3>1
    <3>2. CASE n = 1
      BY <2>3, <3>2
    <3>. QED  BY <3>1, <3>2
  <2>. HIDE DEF data
  <2>5. incoming' = WriteData(incoming, data)
    BY <2>1 DEF data, b
  <2>6. /\ Consistent(incoming', Size)
        /\ IF n > Size - incoming.fillCount
           THEN Contents(incoming') = Contents(incoming) /\ incoming'.fillCount = incoming.fillCount
           ELSE /\ Contents(incoming') = Contents(incoming) \o data
                /\ incoming'.fillCount = incoming.fillCount + n
    BY <1>1, <2>4, <2>5, WriteIs
  <2>7. socket' \in [stream : 0..MaxStreams, next : -1..(MaxBytes + 1), more : BOOLEAN]
    BY <1>1, <2>1, <2>2, <2>6, StreamBounds
  <2>8. CASE Contents(incoming') = Contents(incoming)
    BY <1>1, <1>a, <2>1, <2>2, <2>6, <2>7, <2>8
  <2>9. CASE n = 1 /\ Contents(incoming') = Contents(incoming) \o data
    <3>. DEFINE c == Contents(incoming)
    <3>1. c \in Seq(Byte)
      BY <1>1
    <3>2. c # <<>> => c[Len(c)] \in Byte /\ c[Len(c)].stream <= socket.stream
      BY <1>1 DEF Reaches
    <3>3. Chained(c)
      BY <1>1
    <3>. HIDE DEF c
    <3>4. data # <<>> /\ Chained(data)
      BY <2>4, <2>9 DEF Chained
    <3>5. c # <<>> => Follows(c[Len(c)], data[1])
      BY <1>1, <2>3, <2>4, <2>9, <3>2, ByteIs DEF Follows
    <3>6. Chained(c \o data) /\ (c \o data)[Len(c \o data)] = data[Len(data)]
      BY <2>4, <3>1, <3>3, <3>4, <3>5, ChainOfTwo
    <3>7. Reaches(c \o data, socket')
      BY <1>1, <2>1, <2>3, <2>4, <2>9, <3>6 DEF Reaches
    <3>. QED  BY <2>6, <2>7, <2>9, <3>6, <3>7 DEF c
  <2>10. n = 0 => Contents(incoming) \o data = Contents(incoming)
    BY <1>1, <2>4, ConcatEmptySeq
  <2>. QED  BY <2>6, <2>8, <2>9, <2>10
<1>. QED  BY <1>2, <1>3, <1>4

-----------------------------------------------------------------------------
(* Nothing is lost                                                         *)

(* When what was handed out is past, what is buffered is in order.         *)
LEMMA OnlyBuffered ==
  ASSUME handed' = <<>>, Consistent(incoming', Size),
         Chained(Contents(incoming')), Reaches(Contents(incoming'), socket')
  PROVE  InOrder'
<1>1. Contents(incoming') \in Seq(Byte)
  BY StreamBounds, ContentsAre
<1>2. handed' \o Contents(incoming') = Contents(incoming')
  BY <1>1, ConcatEmptySeq
<1>. QED  BY <1>2 DEF InOrder

(* The same stream further on.                                             *)
LEMMA Advanced ==
  ASSUME NEW S, NEW N, NEW r \in [stream : S, next : N, more : BOOLEAN], NEW to
  PROVE  [r EXCEPT !.next = to] = [stream |-> r.stream, next |-> to, more |-> r.more]
OBVIOUS

(* What receive() brings.                                                  *)
LEMMA Received ==
  ASSUME StreamInv, ReadReceives
  PROVE  \E n \in 1..Chunk :
           /\ socket' = [stream |-> socket.stream, next |-> socket.next + n, more |-> TRUE]
           /\ socket.next + n \in -1..(MaxBytes + 1)
           /\ Arriving(n) \in Seq(Byte) /\ Len(Arriving(n)) = n
           /\ \A i \in 1..n : Arriving(n)[i].stream = socket.stream
                             /\ Arriving(n)[i].off = socket.next + i - 1
           /\ Consistent(incoming', Size)
           /\ Contents(incoming') = Contents(incoming) \o Arriving(n)
           /\ incoming'.fillCount = incoming.fillCount + n
<1>1. PICK n \in 1..Chunk :
        /\ socket.next + n <= MaxBytes + 1
        /\ incoming' = WriteData(incoming, Arriving(n))
        /\ socket' = [socket EXCEPT !.next = @ + n]
  BY DEF ReadReceives
<1>2. /\ socket \in [stream : 0..MaxStreams, next : -1..(MaxBytes + 1), more : BOOLEAN]
      /\ socket.more = TRUE
      /\ incoming.fillCount \in 0..Size /\ incoming.size = Size
  BY ContentsIn DEF StreamInv, StreamParts, ReadReceives
<1>3. socket' = [stream |-> socket.stream, next |-> socket.next + n, more |-> TRUE]
  BY <1>1, <1>2, Advanced
<1>4. socket.next + n \in -1..(MaxBytes + 1)
  BY <1>1, <1>2, StreamBounds
<1>5. \A i \in 1..n : [stream |-> socket.stream, off |-> socket.next + i - 1] \in Byte
  <2>1. \A i \in 1..n : socket.next + i - 1 \in -1..MaxBytes
    BY <1>1, <1>2, StreamBounds
  <2>. QED  BY <1>2, <2>1, ByteIs
<1>6. /\ Arriving(n) \in Seq(Byte) /\ Len(Arriving(n)) = n
      /\ \A i \in 1..n : Arriving(n)[i].stream = socket.stream
                        /\ Arriving(n)[i].off = socket.next + i - 1
  BY <1>1, <1>5, StreamBounds DEF Arriving
<1>7. n <= Size - incoming.fillCount
  BY <1>1, <1>2, StreamBounds DEF ReadReceives, AnotherRound, GetMaxReadSize, GetMaxWriteSize
<1>8. /\ Consistent(incoming', Size)
      /\ IF n > Size - incoming.fillCount
         THEN Contents(incoming') = Contents(incoming) /\ incoming'.fillCount = incoming.fillCount
         ELSE /\ Contents(incoming') = Contents(incoming) \o Arriving(n)
              /\ incoming'.fillCount = incoming.fillCount + n
  BY <1>1, <1>6, WriteIs DEF StreamInv
<1>9. ~(n > Size - incoming.fillCount)
  BY <1>1, <1>2, <1>7, StreamBounds
<1>. QED  BY <1>3, <1>4, <1>6, <1>8, <1>9

(* What a read returns was in the buffer, oldest first.                    *)
LEMMA Returned ==
  ASSUME StreamInv, ReadReturns
  PROVE  /\ handed' \in Seq(Byte) /\ Len(handed') = Wanted
         /\ Consistent(incoming', Size)
         /\ handed' \o Contents(incoming') = Contents(incoming)
         /\ incoming'.fillCount = incoming.fillCount - Wanted
<1>1. /\ Consistent(incoming, Size) /\ incoming.fillCount \in 0..Size /\ incoming.size = Size
      /\ opened \in {"channel", "recording"}
      /\ Contents(incoming) \in Seq(Byte) /\ Len(Contents(incoming)) = incoming.fillCount
  BY ContentsIn DEF StreamInv, StreamParts, ReadReturns
<1>2. Wanted <= incoming.fillCount
  BY <1>1, StreamBounds DEF ReadReturns, MayStop, AnotherRound, GetMaxReadSize, GetMaxWriteSize
<1>3. /\ handed' = BytesAt(incoming, Wanted)
      /\ incoming' = SkipBytes(incoming, Wanted)
  BY DEF ReadReturns
<1>4. Wanted \in 0..GetMaxReadSize(incoming)
  BY <1>1, <1>2, StreamBounds DEF GetMaxReadSize
<1>5. /\ BytesAt(incoming, Wanted) = SubSeq(Contents(incoming), 1, Wanted)
      /\ Consistent(SkipBytes(incoming, Wanted), Size)
      /\ Contents(incoming) = BytesAt(incoming, Wanted) \o Contents(SkipBytes(incoming, Wanted))
  BY <1>1, <1>4, StreamBounds, ReadTakesOldest
<1>6. handed' \in Seq(Byte) /\ Len(handed') = Wanted
  BY <1>1, <1>2, <1>3, <1>5, StreamBounds
<1>7. Len(Contents(incoming')) = incoming'.fillCount /\ incoming'.fillCount \in Nat
      /\ Contents(incoming') \in Seq(Byte)
  BY <1>3, <1>5, StreamBounds, ContentsAre, Members
<1>8. Len(handed' \o Contents(incoming')) = Wanted + incoming'.fillCount
  BY <1>6, <1>7
<1>. QED  BY <1>1, <1>3, <1>5, <1>6, <1>7, <1>8, StreamBounds

(* Every call of the player, read of the socket and end of a stream keeps  *)
(* the bytes in order.                                                     *)
LEMMA StreamInvKept == StreamInv /\ [NextPVRNext]_nextPVRVars => StreamInv'
<1>. SUFFICES ASSUME StreamInv, [NextPVRNext]_nextPVRVars PROVE StreamInv'
  OBVIOUS
<1>. DEFINE Sockets == [stream : 0..MaxStreams, next : -1..(MaxBytes + 1), more : BOOLEAN]
<1>0. /\ StreamParts
      /\ 0 \in 0..(MaxBytes + 1) /\ <<>> \in Seq(Byte)
      /\ Chained(Contents(incoming)) /\ Reaches(Contents(incoming), socket)
  BY Inside, StreamBounds DEF StreamInv
<1>a. ASSUME UNCHANGED <<incoming, socket, handed>> PROVE InOrder'
  BY <1>a DEF InOrder, StreamInv
<1>b. ASSUME socket' = [socket EXCEPT !.more = FALSE]
      PROVE  /\ socket' = [stream |-> socket.stream, next |-> socket.next, more |-> FALSE]
             /\ socket' \in Sockets
  BY <1>0, <1>b DEF StreamParts
<1>1. CASE OpenLiveStream
  <2>1. Unreachable \/ HeaderSplit(0) \/ HeaderWhole(0)
    BY <1>1 DEF OpenLiveStream
  <2>2. /\ Consistent(incoming', Size) /\ socket' \in Sockets
        /\ Chained(Contents(incoming')) /\ Reaches(Contents(incoming'), socket')
    BY <1>0, <2>1, Requested
  <2>3. StreamParts'
    BY <1>0, <1>1, <2>2 DEF OpenLiveStream, StreamParts
  <2>. QED  BY <1>1, <2>2, <2>3, OnlyBuffered DEF OpenLiveStream, StreamInv
<1>2. CASE SwitchChannel
  <2>1. Unreachable \/ HeaderSplit(0) \/ HeaderWhole(0)
    BY <1>2 DEF SwitchChannel
  <2>2. /\ Consistent(incoming', Size) /\ socket' \in Sockets
        /\ Chained(Contents(incoming')) /\ Reaches(Contents(incoming'), socket')
    BY <1>0, <2>1, Requested
  <2>3. StreamParts'
    BY <1>0, <1>2, <2>2 DEF SwitchChannel, StreamParts
  <2>. QED  BY <1>2, <2>2, <2>3, OnlyBuffered DEF SwitchChannel, StreamInv
<1>3. CASE OpenRecordedStream
  <2>1. Unreachable \/ HeaderSplit(0) \/ HeaderWhole(0)
    BY <1>3 DEF OpenRecordedStream
  <2>2. /\ Consistent(incoming', Size) /\ socket' \in Sockets
        /\ Chained(Contents(incoming')) /\ Reaches(Contents(incoming'), socket')
    BY <1>0, <2>1, Requested
  <2>3. ahead' \in Int
    BY <1>0, <1>3, ContentsIn, StreamBounds DEF OpenRecordedStream, GetMaxReadSize
  <2>4. recording' \in [length : {0, MaxBytes + 1}, position : Int]
    BY <1>3 DEF OpenRecordedStream
  <2>6. astray' \in BOOLEAN
    BY <1>3 DEF OpenRecordedStream, FirstByteLost
  <2>5. StreamParts'
    BY <1>0, <1>3, <2>2, <2>3, <2>4, <2>6 DEF OpenRecordedStream, StreamParts
  <2>. QED  BY <1>3, <2>2, <2>5, OnlyBuffered DEF OpenRecordedStream, StreamInv
<1>4. CASE CloseStream
  <2>1. /\ socket' = [stream |-> socket.stream, next |-> socket.next, more |-> FALSE]
        /\ socket' \in Sockets
    BY <1>4, <1>b DEF CloseStream
  <2>2. StreamParts'
    BY <1>0, <1>4, <2>1 DEF CloseStream, StreamParts
  <2>3. InOrder'
    BY <1>4, <2>1 DEF CloseStream, InOrder, StreamInv, Reaches
  <2>. QED  BY <2>2, <2>3 DEF StreamInv
<1>5. CASE SeekRecordedStream
  <2>1. PICK to \in Target : \E from \in ServedFrom(to) :
          /\ recording' = [recording EXCEPT !.position = to]
          /\ \/ Unreachable /\ UNCHANGED ahead
             \/ HeaderSplit(from) /\ ahead' = GetMaxReadSize(incoming) + 1
             \/ HeaderWhole(from) /\ ahead' = GetMaxReadSize(incoming)
          /\ astray' \in BOOLEAN
    BY <1>5 DEF SeekRecordedStream
  <2>6. ServedFrom(to) \subseteq 0..(MaxBytes + 1)
    BY StreamBounds DEF ServedFrom
  <2>2. /\ Consistent(incoming', Size) /\ socket' \in Sockets
        /\ Chained(Contents(incoming')) /\ Reaches(Contents(incoming'), socket')
    BY <1>0, <2>1, <2>6, Requested
  <2>3. ahead' \in Int
    BY <1>0, <2>1, ContentsIn, StreamBounds DEF GetMaxReadSize, StreamParts
  <2>4. recording' \in [length : {0, MaxBytes + 1}, position : Int]
    BY <1>0, <2>1, StreamBounds DEF StreamParts
  <2>5. StreamParts'
    BY <1>0, <1>5, <2>2, <2>3, <2>4 DEF SeekRecordedStream, StreamParts
  <2>. QED  BY <1>5, <2>2, <2>5, OnlyBuffered DEF SeekRecordedStream, StreamInv
<1>6. CASE ReadStarts
  BY <1>0, <1>6, OnlyBuffered DEF ReadStarts, StreamInv, StreamParts
<1>7. CASE ReadReceives
  <2>1. PICK n \in 1..Chunk :
           /\ socket' = [stream |-> socket.stream, next |-> socket.next + n, more |-> TRUE]
           /\ socket.next + n \in -1..(MaxBytes + 1)
           /\ Arriving(n) \in Seq(Byte) /\ Len(Arriving(n)) = n
           /\ \A i \in 1..n : Arriving(n)[i].stream = socket.stream
                             /\ Arriving(n)[i].off = socket.next + i - 1
           /\ Consistent(incoming', Size)
           /\ Contents(incoming') = Contents(incoming) \o Arriving(n)
           /\ incoming'.fillCount = incoming.fillCount + n
    BY <1>7, Received
  <2>2. /\ socket.stream \in 0..MaxStreams /\ socket.next \in -1..(MaxBytes + 1) /\ socket.more
        /\ socket' \in Sockets /\ n \in Nat \ {0}
    <3>1. /\ socket \in Sockets /\ socket.more
      BY <1>0, <1>7 DEF StreamParts, ReadReceives
    <3>2. n \in Nat \ {0} /\ socket.next + n \in Int
      BY <2>1, StreamBounds
    <3>. QED  BY <2>1, <3>1, <3>2
  <2>3. StreamParts'
    BY <1>0, <1>7, <2>1, <2>2 DEF ReadReceives, StreamParts
  <2>4. handed' = <<>> /\ Contents(incoming) \in Seq(Byte)
    BY <1>0, <1>7, ContentsIn DEF ReadReceives, StreamParts
  <2>. DEFINE c == Contents(incoming)
              d == Arriving(n)
  <2>5. c \in Seq(Byte) /\ Chained(c) /\ Reaches(c, socket)
    BY <1>0, <2>4
  <2>6. /\ d \in Seq(Byte) /\ Len(d) = n
        /\ \A i \in 1..n : d[i].stream = socket.stream /\ d[i].off = socket.next + i - 1
    BY <2>1
  <2>7. Contents(incoming') = c \o d
    BY <2>1
  <2>. HIDE DEF c, d
  <2>8. Chained(d) /\ d # <<>>
    BY <2>2, <2>6 DEF Chained, Follows
  <2>9. c # <<>> => Follows(c[Len(c)], d[1])
    <3>1. c # <<>> => c[Len(c)] \in Byte
      BY <2>5
    <3>2. d[1].stream = socket.stream /\ d[1].off = socket.next
      BY <2>2, <2>6
    <3>. QED  BY <2>2, <2>5, <3>1, <3>2, ByteIs, StreamBounds DEF Follows, Reaches
  <2>10. Chained(c \o d) /\ (c \o d)[Len(c \o d)] = d[Len(d)]
    BY <2>5, <2>6, <2>8, <2>9, ChainOfTwo
  <2>11. Reaches(c \o d, socket')
    <3>1. d[Len(d)].stream = socket.stream /\ d[Len(d)].off = socket.next + n - 1
      BY <2>2, <2>6
    <3>. QED  BY <2>1, <2>2, <2>10, <3>1 DEF Reaches
  <2>. QED  BY <2>1, <2>3, <2>4, <2>7, <2>10, <2>11, OnlyBuffered DEF StreamInv
<1>8. CASE ReadReturns
  <2>1. /\ handed' \in Seq(Byte)
        /\ Consistent(incoming', Size)
        /\ handed' \o Contents(incoming') = Contents(incoming)
    BY <1>8, Returned
  <2>2. recording' \in [length : {0, MaxBytes + 1}, position : Int]
    BY <1>0, <1>8, StreamBounds DEF ReadReturns, StreamParts
  <2>3. StreamParts'
    BY <1>0, <1>8, <2>1, <2>2 DEF ReadReturns, StreamParts
  <2>4. InOrder'
    BY <1>0, <1>8, <2>1 DEF ReadReturns, InOrder
  <2>. QED  BY <2>3, <2>4 DEF StreamInv
<1>9. CASE StreamEnds
  <2>1. /\ socket' = [stream |-> socket.stream, next |-> socket.next, more |-> FALSE]
        /\ socket' \in Sockets
    BY <1>9, <1>b DEF StreamEnds
  <2>2. StreamParts'
    BY <1>0, <1>9, <2>1 DEF StreamEnds, StreamParts
  <2>3. InOrder'
    BY <1>9, <2>1 DEF StreamEnds, InOrder, StreamInv, Reaches
  <2>. QED  BY <2>2, <2>3 DEF StreamInv
<1>10. CASE Ask \/ Locked \/ Answered \/ UNCHANGED nextPVRVars
  BY <1>0, <1>10, <1>a DEF Ask, Locked, Answered, nextPVRVars, streamVars, StreamInv, StreamParts
<1>. QED  BY <1>1, <1>2, <1>3, <1>4, <1>5, <1>6, <1>7, <1>8, <1>9, <1>10 DEF NextPVRNext

(* Bytes in order, with the one that comes next.                           *)
LEMMA InOrderIsWhole == StreamInv => NoByteLost
<1>. SUFFICES ASSUME StreamInv PROVE NoByteLost
  OBVIOUS
<1>. DEFINE T == [stream : Nat, off : Int]
            q == handed \o Contents(incoming)
            x == [stream |-> socket.stream, off |-> socket.next]
            tail == IF socket.more THEN Arriving(1) ELSE <<>>
<1>1. handed \in Seq(Byte) /\ Contents(incoming) \in Seq(Byte)
  BY ContentsIn DEF StreamInv, StreamParts
<1>2. Byte \subseteq T
  BY StreamAssumption, StreamBounds
<1>3. q \in Seq(Byte) /\ q \in Seq(T) /\ Chained(q) /\ Reaches(q, socket)
  <2>1. q \in Seq(Byte)
    BY <1>1
  <2>2. q \in Seq(T)
    <3>. HIDE DEF q, T
    <3>. QED  BY <1>2, <2>1, SeqMonotonic
  <2>. QED  BY <2>1, <2>2 DEF StreamInv, InOrder
<1>4. socket.stream \in 0..MaxStreams /\ socket.next \in -1..(MaxBytes + 1) /\ x \in T
  BY StreamBounds DEF StreamInv, StreamParts
<1>5. tail = IF socket.more THEN <<x>> ELSE <<>>
  <2>1. Arriving(1) = [i \in 1..1 |-> x]
    BY <1>4 DEF Arriving
  <2>. QED  BY <2>1
<1>. HIDE DEF x, T, tail
<1>6. /\ tail \in Seq(T) /\ Chained(tail)
      /\ tail # <<>> => socket.more /\ tail[1].stream = socket.stream /\ tail[1].off = socket.next
  <2>1. x.stream = socket.stream /\ x.off = socket.next
    BY DEF x
  <2>2. CASE socket.more
    <3>1. tail = <<x>>
      BY <1>5, <2>2
    <3>2. tail \in Seq(T) /\ Len(tail) = 1 /\ tail[1] = x
      BY <1>4, <3>1
    <3>. QED  BY <2>1, <2>2, <3>2 DEF Chained
  <2>3. CASE ~socket.more
    <3>1. tail = <<>>
      BY <1>5, <2>3
    <3>. QED  BY <3>1 DEF Chained
  <2>. QED  BY <2>2, <2>3
<1>7. q # <<>> => q[Len(q)] \in Byte
  BY <1>3
<1>. HIDE DEF q
<1>8. q # <<>> /\ tail # <<>> => Follows(q[Len(q)], tail[1])
  BY <1>3, <1>4, <1>6, <1>7, ByteIs, StreamBounds DEF Reaches, Follows
<1>9. Chained(q \o tail)
  BY <1>3, <1>6, <1>8, ChainOfTwo
<1>. QED  BY <1>9 DEF NoByteLost, Chained, q, tail

-----------------------------------------------------------------------------
(* The position                                                            *)

(* Where a request leaves the position: told from the bytes buffered, if   *)
(* the first byte was not lost.                                            *)
LEMMA HeaderTells ==
  ASSUME StreamInv, NEW from \in 0..MaxBytes, ~FirstByteLost(from)
  PROVE  /\ Unreachable => ~socket'.more
         /\ HeaderSplit(from) =>
              socket'.next = from + incoming'.fillCount - (incoming.fillCount + 1)
         /\ HeaderWhole(from) =>
              socket'.next = from + incoming'.fillCount - incoming.fillCount
<1>1. /\ socket \in [stream : 0..MaxStreams, next : -1..(MaxBytes + 1), more : BOOLEAN]
      /\ StreamParts /\ incoming.fillCount \in 0..Size
  BY ContentsIn DEF StreamInv, StreamParts
<1>2. Unreachable => ~socket'.more
  BY <1>1 DEF Unreachable
<1>3. HeaderSplit(from) => socket'.next = from - 1 /\ incoming' = incoming
  BY DEF HeaderSplit
<1>4. ASSUME HeaderWhole(from)
      PROVE  socket'.next = from + incoming'.fillCount - incoming.fillCount
  <2>1. PICK n \in 0..1 :
          /\ socket' = [stream |-> socket.stream + 1, next |-> from + n, more |-> TRUE]
          /\ incoming' = WriteData(incoming,
               [i \in 1..n |-> [stream |-> socket.stream + 1, off |-> from]])
    BY <1>4 DEF HeaderWhole
  <2>2. socket.stream < MaxStreams
    BY <1>4 DEF HeaderWhole
  <2>. DEFINE b == [stream |-> socket.stream + 1, off |-> from]
              data == [i \in 1..n |-> b]
  <2>3. b \in Byte
    BY <1>1, <2>2, ByteIs, StreamBounds
  <2>. HIDE DEF b
  <2>4. data \in Seq(Byte) /\ Len(data) = n
    BY <2>3
  <2>5. incoming' = WriteData(incoming, data)
    BY <2>1 DEF b
  <2>. HIDE DEF data
  <2>6. ~(n > Size - incoming.fillCount)
    <3>1. n = 1 => socket'.next > from
      BY <2>1
    <3>2. n = 1 => GetMaxWriteSize(incoming) # 0
      BY <3>1 DEF FirstByteLost
    <3>. QED  BY <1>1, <2>1, <3>2, ContentsIn, StreamBounds DEF GetMaxWriteSize
  <2>7. incoming'.fillCount = incoming.fillCount + n
    BY <1>1, <2>4, <2>5, <2>6, WriteIs
  <2>. QED  BY <1>1, <2>1, <2>7
<1>. QED  BY <1>1, <1>2, <1>3, <1>4

(* Every step keeps the distance between the position and the bytes.       *)
LEMMA PositionKept ==
  ASSUME StreamInv, StreamInv', PositionAhead, [NextPVRNext]_nextPVRVars
  PROVE  PositionAhead'
<1>0. /\ incoming.fillCount \in 0..Size /\ incoming'.fillCount \in 0..Size
      /\ socket \in [stream : 0..MaxStreams, next : -1..(MaxBytes + 1), more : BOOLEAN]
      /\ socket' \in [stream : 0..MaxStreams, next : -1..(MaxBytes + 1), more : BOOLEAN]
      /\ recording \in [length : {0, MaxBytes + 1}, position : Int]
      /\ ahead \in Int /\ ahead' \in Int
      /\ opened \in {"nothing", "channel", "recording"}
      /\ reading => opened # "nothing"
      /\ astray \in BOOLEAN /\ astray' \in BOOLEAN
      /\ 0 \in 0..MaxBytes
  <2>1. StreamParts /\ StreamParts'
    BY DEF StreamInv
  <2>2. incoming'.fillCount \in 0..Size
    BY <2>1, StreamBounds, Members DEF StreamParts
  <2>. QED  BY <2>1, <2>2, ContentsIn, StreamBounds DEF StreamParts
<1>. USE DEF PositionAhead, GetMaxReadSize
<1>1. CASE OpenLiveStream
  BY <1>1 DEF OpenLiveStream
<1>2. CASE SwitchChannel
  BY <1>2 DEF SwitchChannel
<1>3. CASE OpenRecordedStream
  <2>1. opened' = "recording" /\ ~astray' => ~FirstByteLost(0)
    BY <1>3 DEF OpenRecordedStream
  <2>2. opened' = "recording" =>
          HeaderWhole(0) /\ recording'.position = 0 /\ ahead' = incoming.fillCount
    BY <1>3 DEF OpenRecordedStream
  <2>3. opened' = "recording" /\ ~astray' =>
          socket'.next = 0 + incoming'.fillCount - incoming.fillCount
    BY <1>0, <2>1, <2>2, HeaderTells
  <2>. QED  BY <1>0, <2>2, <2>3
<1>4. CASE CloseStream
  BY <1>4 DEF CloseStream
<1>5. CASE SeekRecordedStream
  <2>1. PICK to \in Target : \E from \in ServedFrom(to) :
          /\ recording' = [recording EXCEPT !.position = to]
          /\ \/ Unreachable /\ UNCHANGED ahead
             \/ HeaderSplit(from) /\ ahead' = incoming.fillCount + 1
             \/ HeaderWhole(from) /\ ahead' = incoming.fillCount
          /\ astray' = (to \notin 0..MaxBytes \/ Formatted(to) # to \/ FirstByteLost(from))
    BY <1>5 DEF SeekRecordedStream, GetMaxReadSize
  <2>a. PICK from \in ServedFrom(to) :
          /\ \/ Unreachable /\ UNCHANGED ahead
             \/ HeaderSplit(from) /\ ahead' = incoming.fillCount + 1
             \/ HeaderWhole(from) /\ ahead' = incoming.fillCount
          /\ astray' = (to \notin 0..MaxBytes \/ Formatted(to) # to \/ FirstByteLost(from))
    BY <2>1
  <2>2. recording'.position = to
    BY <1>0, <2>1
  <2>3. CASE astray'
    BY <2>3
  <2>4. CASE ~astray'
    <3>1. to \in 0..MaxBytes /\ Formatted(to) = to /\ ~FirstByteLost(from)
      BY <2>a, <2>4
    <3>2. from = to
      BY <2>a, <3>1 DEF ServedFrom
    <3>3. \/ ~socket'.more
          \/ socket'.next = to + incoming'.fillCount - (incoming.fillCount + 1)
             /\ ahead' = incoming.fillCount + 1
          \/ socket'.next = to + incoming'.fillCount - incoming.fillCount
             /\ ahead' = incoming.fillCount
      BY <2>a, <3>1, <3>2, HeaderTells
    <3>. QED  BY <1>0, <2>2, <3>1, <3>3
  <2>. QED  BY <2>3, <2>4
<1>6. CASE ReadStarts
  BY <1>6 DEF ReadStarts
<1>7. CASE ReadReceives
  <2>1. PICK n \in 1..Chunk :
           /\ socket' = [stream |-> socket.stream, next |-> socket.next + n, more |-> TRUE]
           /\ incoming'.fillCount = incoming.fillCount + n
    BY <1>7, Received
  <2>2. UNCHANGED <<opened, recording, ahead, astray>> /\ socket.more /\ n \in Nat
        /\ socket'.next = socket.next + n
    BY <1>7, <2>1, StreamBounds DEF ReadReceives
  <2>. QED  BY <1>0, <2>1, <2>2
<1>8. CASE ReadReturns
  <2>1. incoming'.fillCount = incoming.fillCount - Wanted
    BY <1>8, Returned
  <2>2. /\ UNCHANGED <<opened, socket, ahead, astray>>
        /\ opened = "recording" => recording' = [recording EXCEPT !.position = @ + Wanted]
    BY <1>8 DEF ReadReturns
  <2>3. opened = "recording" => recording'.position = recording.position + Wanted
    BY <1>0, <2>2
  <2>. QED  BY <1>0, <2>1, <2>2, <2>3, StreamBounds
<1>9. CASE StreamEnds
  BY <1>0, <1>9 DEF StreamEnds
<1>10. CASE Ask \/ Locked \/ Answered \/ UNCHANGED nextPVRVars
  BY <1>10 DEF Ask, Locked, Answered, nextPVRVars, streamVars
<1>. QED  BY <1>1, <1>2, <1>3, <1>4, <1>5, <1>6, <1>7, <1>8, <1>9, <1>10 DEF NextPVRNext

(* It begins with an empty buffer and no stream.                           *)
LEMMA StreamStarts == NextPVRInit => StreamInv /\ PositionAhead
<1>. SUFFICES ASSUME NextPVRInit PROVE StreamInv /\ PositionAhead
  OBVIOUS
<1>1. Consistent(incoming, Size) /\ Contents(incoming) = <<>> /\ incoming.fillCount = 0
  BY StreamBounds, CreateEmpty DEF NextPVRInit, Create
<1>2. handed \o Contents(incoming) = <<>>
  BY <1>1 DEF NextPVRInit
<1>3. InOrder
  BY <1>2 DEF InOrder, Chained, Reaches
<1>4. StreamParts
  <2>1. socket \in [stream : 0..MaxStreams, next : -1..(MaxBytes + 1), more : BOOLEAN]
    BY StreamBounds DEF NextPVRInit
  <2>2. recording \in [length : {0, MaxBytes + 1}, position : Int]
    BY DEF NextPVRInit
  <2>3. handed \in Seq(Byte)
    BY DEF NextPVRInit
  <2>4. opened = "nothing" /\ reading = FALSE /\ ahead \in Int /\ astray = FALSE
    BY DEF NextPVRInit
  <2>. QED  BY <1>1, <2>1, <2>2, <2>3, <2>4 DEF StreamParts
<1>5. PositionAhead
  BY DEF NextPVRInit, PositionAhead
<1>. QED  BY <1>3, <1>4, <1>5 DEF StreamInv

(* No byte is lost, doubled or moved between the socket and the player.    *)
THEOREM NothingLost == NextPVRSpec => []NoByteLost
BY StreamStarts, StreamInvKept, InOrderIsWhole, PTL DEF NextPVRSpec

(* Nothing is lost, and the position XBMC is told follows the bytes, but   *)
(* after a request for an offset that %d does not write or the recording   *)
(* does not have, or one whose first byte found the buffer full.           *)
THEOREM StreamsIntact == NextPVRSpec => []StreamIntact
<1>1. StreamInv /\ PositionAhead /\ [NextPVRNext]_nextPVRVars => (StreamInv /\ PositionAhead)'
  BY StreamInvKept, PositionKept
<1>2. StreamInv /\ PositionAhead => StreamIntact
  BY InOrderIsWhole DEF StreamIntact
<1>. QED  BY <1>1, <1>2, StreamStarts, PTL DEF NextPVRSpec

-----------------------------------------------------------------------------
(* VNSIDemux                                                               *)

(* What the server may send, and what the client keeps of a stream.        *)
Entries == Seq([id : Nat, codec : STRING])

(* The messages of the server: an answer, a list of streams, what is in    *)
(* them, a packet.                                                         *)
DemuxMessages ==
  [kind : {"reply"}, ok : BOOLEAN] \cup [kind : {"change"}, entries : Entries]
  \cup [kind : {"content"}, streams : Seq(STRING), info : 1..2]
  \cup [kind : {"packet"}, id : Nat \ {0}, codec : STRING, from : VnsiChannel \cup {Untuned}]

(* A codec, also of an entry that has none yet, and                        *)
Codecs == STRING \cup {"none"}

(* the table of the streams, which is of a fixed size.                     *)
Slots == [1..MaxEntries -> [id : Nat, codec : Codecs, info : Nat]]

(* The parts of the client and of the server.                              *)
DemuxTypes ==
  /\ demuxLink \in {"closed", "open", "lost"}
  /\ demuxAt \in {"idle", "switches", "fills", "writes", "counts", "looks", "failed"}
  /\ streamed \in VnsiChannel \cup {Untuned}
  /\ slots \in Slots /\ count \in 0..MaxEntries /\ rest \in Entries
  /\ pipe \in Seq(DemuxMessages) /\ carried \in Seq(STRING)
  /\ openAsked \in BOOLEAN /\ changeDue \in BOOLEAN /\ framed \in BOOLEAN
  /\ aborted \in BOOLEAN

(* Where the player's thread may be in a stream change.                    *)
Filling ==
  /\ demuxAt \in {"writes", "counts"} => rest # <<>> /\ count < MaxEntries
  /\ demuxAt \notin {"fills", "writes", "counts"} => rest = <<>>
  /\ demuxLink = "closed" => count = 0 /\ demuxAt = "idle"
  /\ demuxAt = "switches" => demuxLink = "open"

(* The streams of the change that is or was taken last, by their places.   *)
Placed ==
  ~aborted =>
    /\ \A i \in 1..count : slots[i].id = i
    /\ \A i \in 1..Len(rest) : rest[i].id = count + i
    /\ demuxAt \in {"writes", "counts"} => slots[count + 1].id = count + 1
    /\ demuxAt = "counts" => slots[count + 1].codec = rest[1].codec

(* A request is answered once, and an answer is waited for.                *)
Answers ==
  /\ openAsked => demuxAt = "switches" /\ wanted \in VnsiChannel /\ demuxLink = "open"
  /\ openAsked \/ demuxAt # "switches" => \A i \in 1..Len(pipe) : pipe[i].kind # "reply"

(* The channel that the answers after the last request are about.          *)
Current == IF demuxAt = "switches" THEN wanted ELSE channel

(* In a change the entries are numbered by their places.                   *)
Numbered(q) ==
  \A i \in 1..Len(q) : q[i].kind = "change" =>
    \A e \in 1..Len(q[i].entries) : q[i].entries[e].id = e

(* The server streams that channel or none, and numbers its streams.       *)
Served ==
  /\ demuxLink = "open" /\ ~openAsked => streamed \in {Untuned, Current}
  /\ Numbered(pipe)

(* The client has taken, or is taking, a stream of this place and codec.   *)
Expected(id, codec) ==
  \/ aborted
  \/ id > MaxEntries
  \/ id \in 1..count /\ slots[id].codec = codec
  \/ id \in (count + 1)..(count + Len(rest)) /\ rest[id - count].codec = codec

(* The last change among the messages r + 1 to i - 1 of q tells of it.     *)
ByChange(q, id, codec, r, i) ==
  \E j \in (r + 1)..(i - 1) :
    /\ q[j].kind = "change"
    /\ \A k \in (j + 1)..(i - 1) : q[k].kind # "change"
    /\ id \in 1..Len(q[j].entries) /\ q[j].entries[id].codec = codec

(* None of the messages r + 1 to i - 1 of q is a change.                   *)
NoChange(q, r, i) == \A j \in (r + 1)..(i - 1) : q[j].kind # "change"

(* The client will know the stream when it gets to place i of the pipe, of *)
(* which the first r messages will be discarded with the answer.           *)
KnownAt(q, id, codec, r, i) ==
  \/ ByChange(q, id, codec, r, i)
  \/ r = 0 /\ NoChange(q, r, i) /\ Expected(id, codec)

(* The answer is message r of the pipe; if r is 0, there is none to come.  *)
(* What comes behind it is of the current channel and will be known.       *)
Coherent(r) ==
  /\ \A i \in 1..Len(pipe) : pipe[i].kind = "reply" <=> i = r
  /\ r > 0 <=> demuxAt = "switches"
  /\ r > 0 => IF pipe[r].ok THEN streamed = wanted ELSE streamed = Untuned /\ r = Len(pipe)
  /\ \A i \in (r + 1)..Len(pipe) :
       pipe[i].kind = "packet" => /\ pipe[i].from = Current
                                  /\ KnownAt(pipe, pipe[i].id, pipe[i].codec, r, i)
  /\ ~changeDue /\ streamed # Untuned =>
       \A id \in 1..Len(carried) : KnownAt(pipe, id, carried[id], r, Len(pipe) + 1)

(* While the session is up and in frame, there is such a place of the      *)
(* answer, from the moment the server has seen the request.                *)
PipeCoherent ==
  demuxLink = "open" /\ framed /\ ~openAsked => \E r \in 0..Len(pipe) : Coherent(r)

(* The inductive invariant.                                                *)
DemuxInv ==
  /\ DemuxTypes /\ Filling /\ Placed /\ Answers /\ Served /\ PipeCoherent
  /\ ViewCurrent /\ PacketsPlaced /\ StreamsHeardOf

-----------------------------------------------------------------------------
(* Messages                                                                *)

(* The table is not empty.                                                 *)
LEMMA EntriesMax == MaxEntries \in Nat \ {0}
BY DemuxAssumption

(* The fields of a message by its kind.                                    *)
LEMMA MessageIs ==
  ASSUME NEW m \in DemuxMessages
  PROVE  /\ m.kind \in {"reply", "change", "content", "packet"}
         /\ m.kind = "reply" => m.ok \in BOOLEAN
         /\ m.kind = "change" => m.entries \in Entries
         /\ m.kind = "content" => m.streams \in Seq(STRING) /\ m.info \in 1..2
         /\ m.kind = "packet" => m.id \in Nat \ {0} /\ m.codec \in STRING
BY DEF DemuxMessages

(* What the server sends is a message, and tells of the streams it         *)
(* carries.                                                                *)
LEMMA SentIs ==
  ASSUME carried \in Seq(STRING), streamed \in VnsiChannel \cup {Untuned}
  PROVE  /\ \A ok \in BOOLEAN : /\ Reply(ok) \in DemuxMessages /\ Reply(ok).kind = "reply"
                                /\ Reply(ok).ok = ok
         /\ Change \in DemuxMessages /\ Change.kind = "change"
         /\ Len(Change.entries) = Len(carried)
         /\ \A i \in 1..Len(carried) : /\ Change.entries[i].id = i
                                       /\ Change.entries[i].codec = carried[i]
         /\ \A info \in 1..2 : /\ Content(info) \in DemuxMessages
                               /\ Content(info).kind = "content"
         /\ \A i \in 1..Len(carried) :
              /\ Packet(i) \in DemuxMessages /\ Packet(i).kind = "packet"
              /\ Packet(i).id = i /\ Packet(i).codec = carried[i] /\ Packet(i).from = streamed
<1>1. \A ok \in BOOLEAN : /\ Reply(ok) \in DemuxMessages /\ Reply(ok).kind = "reply"
                          /\ Reply(ok).ok = ok
  BY DEF Reply, DemuxMessages
<1>2. /\ DOMAIN carried = 1..Len(carried) /\ Len(carried) \in Nat
      /\ \A i \in 1..Len(carried) : carried[i] \in STRING
  OBVIOUS
<1>. DEFINE entries == [i \in DOMAIN carried |-> [id |-> i, codec |-> carried[i]]]
<1>3. /\ entries \in Entries /\ Len(entries) = Len(carried)
      /\ \A i \in 1..Len(carried) : entries[i].id = i /\ entries[i].codec = carried[i]
  <2>1. \A i \in 1..Len(carried) :
          [id |-> i, codec |-> carried[i]] \in [id : Nat, codec : STRING]
    BY <1>2
  <2>2. entries \in [1..Len(carried) -> [id : Nat, codec : STRING]]
    BY <1>2, <2>1
  <2>3. entries \in Entries /\ Len(entries) = Len(carried)
    BY <1>2, <2>2 DEF Entries
  <2>4. \A i \in 1..Len(carried) : entries[i] = [id |-> i, codec |-> carried[i]]
    BY <1>2
  <2>5. ASSUME NEW i \in 1..Len(carried) PROVE entries[i].id = i /\ entries[i].codec = carried[i]
    <3>1. entries[i] = [id |-> i, codec |-> carried[i]]
      BY <2>4
    <3>. HIDE DEF entries
    <3>. QED  BY <3>1
  <2>. HIDE DEF entries
  <2>. QED  BY <2>3, <2>5
<1>4. Change = [kind |-> "change", entries |-> entries]
  BY DEF Change
<1>. HIDE DEF entries
<1>5. Change \in DemuxMessages /\ Change.kind = "change" /\ Change.entries = entries
  BY <1>3, <1>4 DEF DemuxMessages
<1>6. \A info \in 1..2 : Content(info) \in DemuxMessages /\ Content(info).kind = "content"
  BY DEF Content, DemuxMessages
<1>7. \A i \in 1..Len(carried) :
        /\ Packet(i) \in DemuxMessages /\ Packet(i).kind = "packet"
        /\ Packet(i).id = i /\ Packet(i).codec = carried[i] /\ Packet(i).from = streamed
  BY <1>2 DEF Packet, DemuxMessages
<1>. QED  BY <1>1, <1>3, <1>5, <1>6, <1>7

(* What is known behind an answer, when a message before it is taken.      *)
LEMMA KnownBehind ==
  ASSUME NEW q \in Seq(DemuxMessages), q # <<>>, NEW r \in 1..Len(q), NEW id, NEW codec,
         NEW i \in (r + 1)..(Len(q) + 1), ByChange(q, id, codec, r, i)
  PROVE  ByChange(Tail(q), id, codec, r - 1, i - 1)
<1>1. PICK j \in (r + 1)..(i - 1) :
        /\ q[j].kind = "change"
        /\ \A k \in (j + 1)..(i - 1) : q[k].kind # "change"
        /\ id \in 1..Len(q[j].entries) /\ q[j].entries[id].codec = codec
  BY DEF ByChange
<1>2. /\ Len(q) \in Nat
      /\ \A k \in 1..(Len(q) - 1) : Tail(q)[k] = q[k + 1]
  OBVIOUS
<1>3. j - 1 \in ((r - 1) + 1)..((i - 1) - 1) /\ Tail(q)[j - 1] = q[j]
  BY <1>1, <1>2
<1>4. ASSUME NEW k \in ((j - 1) + 1)..((i - 1) - 1) PROVE Tail(q)[k].kind # "change"
  <2>1. k + 1 \in (j + 1)..(i - 1) /\ Tail(q)[k] = q[k + 1]
    BY <1>1, <1>2
  <2>. QED  BY <1>1, <2>1
<1>. QED  BY <1>1, <1>3, <1>4 DEF ByChange

(* The same when no answer is to come.                                     *)
LEMMA KnownNext ==
  ASSUME NEW q \in Seq(DemuxMessages), q # <<>>, NEW id, NEW codec,
         NEW i \in 2..(Len(q) + 1)
  PROVE  /\ q[1].kind # "change" =>
              /\ ByChange(q, id, codec, 0, i) => ByChange(Tail(q), id, codec, 0, i - 1)
              /\ NoChange(q, 0, i) => NoChange(Tail(q), 0, i - 1)
         /\ q[1].kind = "change" =>
              /\ ~NoChange(q, 0, i)
              /\ ByChange(q, id, codec, 0, i) =>
                   \/ ByChange(Tail(q), id, codec, 0, i - 1)
                   \/ /\ NoChange(Tail(q), 0, i - 1)
                      /\ id \in 1..Len(q[1].entries) /\ q[1].entries[id].codec = codec
<1>1. /\ Len(q) \in Nat
      /\ \A k \in 1..(Len(q) - 1) : Tail(q)[k] = q[k + 1]
  OBVIOUS
<1>2. ASSUME NEW j \in 1..(i - 1), j # 1,
             /\ q[j].kind = "change"
             /\ \A k \in (j + 1)..(i - 1) : q[k].kind # "change"
             /\ id \in 1..Len(q[j].entries) /\ q[j].entries[id].codec = codec
      PROVE  ByChange(Tail(q), id, codec, 0, i - 1)
  <2>1. j - 1 \in (0 + 1)..((i - 1) - 1) /\ Tail(q)[j - 1] = q[j]
    BY <1>1, <1>2
  <2>2. ASSUME NEW k \in ((j - 1) + 1)..((i - 1) - 1) PROVE Tail(q)[k].kind # "change"
    <3>1. k + 1 \in (j + 1)..(i - 1) /\ Tail(q)[k] = q[k + 1]
      BY <1>1
    <3>. QED  BY <1>2, <3>1
  <2>. QED  BY <1>2, <2>1, <2>2 DEF ByChange
<1>3. ASSUME \A k \in 2..(i - 1) : q[k].kind # "change"
      PROVE  NoChange(Tail(q), 0, i - 1)
  <2>1. ASSUME NEW k \in (0 + 1)..((i - 1) - 1) PROVE Tail(q)[k].kind # "change"
    <3>1. k + 1 \in 2..(i - 1) /\ Tail(q)[k] = q[k + 1]
      BY <1>1
    <3>. QED  BY <1>3, <3>1
  <2>. QED  BY <2>1 DEF NoChange
<1>4. ByChange(q, id, codec, 0, i) =>
        \E j \in 1..(i - 1) :
          /\ q[j].kind = "change"
          /\ \A k \in (j + 1)..(i - 1) : q[k].kind # "change"
          /\ id \in 1..Len(q[j].entries) /\ q[j].entries[id].codec = codec
  BY DEF ByChange
<1>5. NoChange(q, 0, i) => q[1].kind # "change" /\ \A k \in 2..(i - 1) : q[k].kind # "change"
  BY DEF NoChange
<1>6. ASSUME q[1].kind # "change", ByChange(q, id, codec, 0, i)
      PROVE  ByChange(Tail(q), id, codec, 0, i - 1)
  BY <1>2, <1>4, <1>6
<1>7. ASSUME ByChange(q, id, codec, 0, i), ~ByChange(Tail(q), id, codec, 0, i - 1)
      PROVE  /\ NoChange(Tail(q), 0, i - 1)
             /\ id \in 1..Len(q[1].entries) /\ q[1].entries[id].codec = codec
  <2>1. PICK j \in 1..(i - 1) :
          /\ q[j].kind = "change"
          /\ \A k \in (j + 1)..(i - 1) : q[k].kind # "change"
          /\ id \in 1..Len(q[j].entries) /\ q[j].entries[id].codec = codec
    BY <1>4, <1>7
  <2>2. j = 1
    BY <1>2, <1>7, <2>1
  <2>. QED  BY <1>3, <2>1, <2>2
<1>. QED  BY <1>3, <1>5, <1>6, <1>7

(* What is sent behind it changes nothing for a message.                   *)
LEMMA KnownBefore ==
  ASSUME NEW q \in Seq(DemuxMessages), NEW more \in Seq(DemuxMessages),
         NEW id, NEW codec, NEW r \in Nat, NEW i \in 1..(Len(q) + 1)
  PROVE  /\ ByChange(q, id, codec, r, i) => ByChange(q \o more, id, codec, r, i)
         /\ NoChange(q, r, i) => NoChange(q \o more, r, i)
<1>1. \A j \in 1..(i - 1) : (q \o more)[j] = q[j]
  OBVIOUS
<1>2. \A j \in (r + 1)..(i - 1) : j \in 1..(i - 1) /\ j \in Nat
  OBVIOUS
<1>3. \A j \in 1..(i - 1) : \A k \in (j + 1)..(i - 1) : k \in 1..(i - 1)
  OBVIOUS
<1>. QED  BY <1>1, <1>2, <1>3, Zenon DEF ByChange, NoChange

(* Nor does what is known end with a message that is no change.            *)
LEMMA KnownAfter ==
  ASSUME NEW q \in Seq(DemuxMessages), NEW m \in DemuxMessages, m.kind # "change",
         NEW id, NEW codec, NEW r \in Nat
  PROVE  /\ ByChange(q, id, codec, r, Len(q) + 1) =>
              ByChange(Append(q, m), id, codec, r, Len(q) + 2)
         /\ NoChange(q, r, Len(q) + 1) => NoChange(Append(q, m), r, Len(q) + 2)
<1>. DEFINE a == Append(q, m)
<1>1. /\ Len(q) \in Nat
      /\ \A j \in 1..Len(q) : a[j] = q[j]
      /\ a[Len(q) + 1] = m
  OBVIOUS
<1>. HIDE DEF a
<1>2. ASSUME ByChange(q, id, codec, r, Len(q) + 1)
      PROVE  ByChange(a, id, codec, r, Len(q) + 2)
  <2>1. PICK j \in (r + 1)..Len(q) :
          /\ q[j].kind = "change"
          /\ \A k \in (j + 1)..Len(q) : q[k].kind # "change"
          /\ id \in 1..Len(q[j].entries) /\ q[j].entries[id].codec = codec
    BY <1>1, <1>2 DEF ByChange
  <2>2. j \in (r + 1)..((Len(q) + 2) - 1) /\ a[j] = q[j]
    BY <1>1, <2>1
  <2>3. ASSUME NEW k \in (j + 1)..((Len(q) + 2) - 1) PROVE a[k].kind # "change"
    BY <1>1, <2>1
  <2>. QED  BY <2>1, <2>2, <2>3 DEF ByChange
<1>3. ASSUME NoChange(q, r, Len(q) + 1) PROVE NoChange(a, r, Len(q) + 2)
  BY <1>1, <1>3 DEF NoChange
<1>. QED  BY <1>2, <1>3 DEF a

(* A change tells of its streams.                                          *)
LEMMA KnownByChange ==
  ASSUME NEW q \in Seq(DemuxMessages), NEW m \in DemuxMessages, m.kind = "change",
         NEW r \in 0..Len(q), NEW id \in 1..Len(m.entries)
  PROVE  ByChange(Append(q, m), id, m.entries[id].codec, r, Len(q) + 2)
<1>. DEFINE a == Append(q, m)
<1>1. Len(q) \in Nat /\ a[Len(q) + 1] = m
  OBVIOUS
<1>. HIDE DEF a
<1>2. Len(q) + 1 \in (r + 1)..((Len(q) + 2) - 1)
  BY <1>1
<1>3. \A k \in ((Len(q) + 1) + 1)..((Len(q) + 2) - 1) : a[k].kind # "change"
  BY <1>1
<1>. QED  BY <1>1, <1>2, <1>3 DEF ByChange, a

-----------------------------------------------------------------------------
(* The types                                                               *)

(* A sequence that is not empty, and what is behind its first element.     *)
LEMMA FirstIs ==
  ASSUME NEW T, NEW s \in Seq(T), s # <<>>
  PROVE  /\ Head(s) = s[1] /\ s[1] \in T /\ Tail(s) \in Seq(T)
         /\ Len(s) \in Nat \ {0} /\ Len(Tail(s)) = Len(s) - 1
         /\ \A i \in 1..(Len(s) - 1) : Tail(s)[i] = s[i + 1]
OBVIOUS

(* The entry that is being filled, and those behind it.                    *)
LEMMA EntryIs ==
  ASSUME rest \in Entries, rest # <<>>
  PROVE  /\ Head(rest) = rest[1] /\ Tail(rest) \in Entries
         /\ rest[1] \in [id : Nat, codec : STRING]
         /\ rest[1].id \in Nat /\ rest[1].codec \in STRING
         /\ Len(rest) \in Nat \ {0} /\ Len(Tail(rest)) = Len(rest) - 1
         /\ \A i \in 1..(Len(rest) - 1) : Tail(rest)[i] = rest[i + 1]
<1>1. rest[1] \in [id : Nat, codec : STRING]
  BY FirstIs DEF Entries
<1>. QED  BY <1>1, FirstIs DEF Entries

(* The message that is read next, and those behind it.                     *)
LEMMA HeadIs ==
  ASSUME pipe \in Seq(DemuxMessages), pipe # <<>>
  PROVE  /\ Head(pipe) = pipe[1] /\ pipe[1] \in DemuxMessages
         /\ Tail(pipe) \in Seq(DemuxMessages)
         /\ Len(pipe) \in Nat \ {0} /\ Len(Tail(pipe)) = Len(pipe) - 1
         /\ \A i \in 1..(Len(pipe) - 1) : Tail(pipe)[i] = pipe[i + 1]
OBVIOUS

(* What filling in an entry does to the table.                             *)
LEMMA FillIs ==
  ASSUME DemuxTypes, FillEntry
  PROVE  /\ slots' \in Slots /\ count + 1 \in 1..MaxEntries
         /\ slots'[count + 1].id = rest[1].id
         /\ \A i \in 1..MaxEntries \ {count + 1} : slots'[i] = slots[i]
<1>1. /\ slots \in Slots /\ count + 1 \in 1..MaxEntries
      /\ Head(rest) = rest[1] /\ rest[1].id \in Nat
      /\ slots' = [slots EXCEPT ![count + 1] = [NoEntry EXCEPT !.id = Head(rest).id]]
  <2>1. /\ slots \in Slots /\ count \in 0..MaxEntries /\ count < MaxEntries
        /\ rest \in Entries /\ rest # <<>>
        /\ slots' = [slots EXCEPT ![count + 1] = [NoEntry EXCEPT !.id = Head(rest).id]]
    BY DEF DemuxTypes, FillEntry
  <2>2. count + 1 \in 1..MaxEntries
    BY <2>1, EntriesMax
  <2>. QED  BY <2>1, <2>2, EntryIs
<1>2. [NoEntry EXCEPT !.id = Head(rest).id] = [id |-> rest[1].id, codec |-> "none", info |-> 0]
  BY <1>1 DEF NoEntry
<1>3. slots' = [slots EXCEPT ![count + 1] = [id |-> rest[1].id, codec |-> "none", info |-> 0]]
  BY <1>1, <1>2, Zenon
<1>4. [id |-> rest[1].id, codec |-> "none", info |-> 0] \in [id : Nat, codec : Codecs, info : Nat]
  BY <1>1 DEF Codecs
<1>5. [id |-> rest[1].id, codec |-> "none", info |-> 0].id = rest[1].id
  OBVIOUS
<1>. QED  BY <1>1, <1>3, <1>4, <1>5, Zenon DEF Slots

(* What giving an entry its codec does to the table.                       *)
LEMMA CodecIs ==
  ASSUME DemuxTypes, Filling, WriteCodec
  PROVE  /\ slots' \in Slots /\ count + 1 \in 1..MaxEntries
         /\ slots'[count + 1].id = slots[count + 1].id
         /\ slots'[count + 1].codec = rest[1].codec
         /\ \A i \in 1..MaxEntries \ {count + 1} : slots'[i] = slots[i]
<1>1. /\ slots \in Slots /\ count + 1 \in 1..MaxEntries
      /\ Head(rest) = rest[1] /\ rest[1].codec \in STRING
      /\ slots' = [slots EXCEPT ![count + 1].codec = Head(rest).codec]
  <2>1. /\ slots \in Slots /\ count \in 0..MaxEntries /\ count < MaxEntries
        /\ rest \in Entries /\ rest # <<>>
        /\ slots' = [slots EXCEPT ![count + 1].codec = Head(rest).codec]
    BY DEF DemuxTypes, WriteCodec, Filling
  <2>2. count + 1 \in 1..MaxEntries
    BY <2>1, EntriesMax
  <2>. QED  BY <2>1, <2>2, EntryIs
<1>2. rest[1].codec \in Codecs /\ slots[count + 1] \in [id : Nat, codec : Codecs, info : Nat]
  BY <1>1 DEF Slots, Codecs
<1>. QED  BY <1>1, <1>2 DEF Slots

(* What a message about contents does to the table: numbers and codecs     *)
(* stay.                                                                   *)
LEMMA ContentIs ==
  ASSUME DemuxTypes, ReadContent
  PROVE  /\ slots' \in Slots
         /\ \A i \in 1..MaxEntries : slots'[i].id = slots[i].id /\ slots'[i].codec = slots[i].codec
<1>1. /\ slots \in Slots /\ pipe \in Seq(DemuxMessages) /\ pipe # <<>>
      /\ Head(pipe).kind = "content"
      /\ slots' = Informed(Head(pipe).streams, Head(pipe).info)
  BY DEF DemuxTypes, ReadContent, Reads
<1>2. Head(pipe).info \in Nat
  BY <1>1, HeadIs, MessageIs
<1>3. PICK reached : slots' = [k \in DOMAIN slots |->
                       IF k <= count /\ slots[k].id \in reached
                       THEN [slots[k] EXCEPT !.info = Head(pipe).info] ELSE slots[k]]
  BY <1>1 DEF Informed
<1>4. DOMAIN slots = 1..MaxEntries
  BY <1>1 DEF Slots
<1>5. ASSUME NEW k \in 1..MaxEntries
      PROVE  /\ [slots[k] EXCEPT !.info = Head(pipe).info] \in [id : Nat, codec : Codecs, info : Nat]
             /\ [slots[k] EXCEPT !.info = Head(pipe).info].id = slots[k].id
             /\ [slots[k] EXCEPT !.info = Head(pipe).info].codec = slots[k].codec
  <2>1. slots[k] \in [id : Nat, codec : Codecs, info : Nat]
    BY <1>1 DEF Slots
  <2>. QED  BY <1>2, <2>1
<1>6. ASSUME NEW k \in 1..MaxEntries
      PROVE  /\ slots'[k] \in [id : Nat, codec : Codecs, info : Nat]
             /\ slots'[k].id = slots[k].id /\ slots'[k].codec = slots[k].codec
  <2>1. slots'[k] = IF k <= count /\ slots[k].id \in reached
                    THEN [slots[k] EXCEPT !.info = Head(pipe).info] ELSE slots[k]
    BY <1>3, <1>4
  <2>2. slots[k] \in [id : Nat, codec : Codecs, info : Nat]
    BY <1>1 DEF Slots
  <2>. QED  BY <1>5, <2>1, <2>2, Zenon
<1>7. slots' \in Slots
  <2>1. DOMAIN slots' = 1..MaxEntries /\ slots' = [k \in 1..MaxEntries |-> slots'[k]]
    BY <1>3, <1>4
  <2>. QED  BY <1>6, <2>1 DEF Slots
<1>. QED  BY <1>6, <1>7

(* Every step of the player, of Abort() and of the server keeps the types. *)
LEMMA DemuxTypesKept == DemuxInv /\ [VNSIDemuxNext]_vnsiDemuxVars => DemuxTypes'
<1>. SUFFICES ASSUME DemuxInv, [VNSIDemuxNext]_vnsiDemuxVars PROVE DemuxTypes'
  OBVIOUS
<1>0. DemuxTypes /\ Filling /\ Answers
  BY DEF DemuxInv
<1>a. <<>> \in Seq(DemuxMessages) /\ <<>> \in Entries /\ <<>> \in Seq(STRING)
      /\ 0 \in 0..MaxEntries /\ [i \in 1..MaxEntries |-> NoEntry] \in Slots
  <2>1. NoEntry \in [id : Nat, codec : Codecs, info : Nat]
    BY DEF NoEntry, Codecs
  <2>2. [i \in 1..MaxEntries |-> NoEntry] \in Slots
    BY <2>1 DEF Slots
  <2>. QED  BY <2>2, EntriesMax DEF Entries
<1>b. \A c \in VnsiChannel : \A list \in StreamLists[c] : list \in Seq(STRING)
  BY DemuxAssumption
<1>c. pipe # <<>> => Tail(pipe) \in Seq(DemuxMessages)
  BY <1>0, HeadIs DEF DemuxTypes
<1>1. CASE ServeOpen
  <2>1. wanted \in VnsiChannel
    BY <1>0, <1>1 DEF ServeOpen, Answers
  <2>2. carried' \in Seq(STRING) /\ streamed' \in VnsiChannel \cup {Untuned} /\ changeDue' \in BOOLEAN
    BY <1>1, <1>a, <1>b, <2>1 DEF ServeOpen
  <2>3. pipe' \in Seq(DemuxMessages)
    <3>1. \E ok \in BOOLEAN : pipe' = Append(pipe, Reply(ok))
      BY <1>1 DEF ServeOpen
    <3>2. \A ok \in BOOLEAN : Reply(ok) \in DemuxMessages
      BY <1>0, SentIs DEF DemuxTypes
    <3>. QED  BY <1>0, <3>1, <3>2 DEF DemuxTypes
  <2>. QED  BY <1>0, <1>1, <2>2, <2>3 DEF ServeOpen, DemuxTypes, demuxClient, demuxTable, demuxHistory
<1>2. CASE NewProgrammeMap
  <2>1. carried' \in Seq(STRING) /\ changeDue' \in BOOLEAN
    BY <1>0, <1>2, <1>b DEF NewProgrammeMap, Streams, DemuxTypes
  <2>. QED  BY <1>0, <1>2, <2>1 DEF NewProgrammeMap, DemuxTypes, demuxClient, demuxTable, demuxHistory
<1>3. CASE SendPacket
  <2>1. pipe' \in Seq(DemuxMessages)
    <3>1. PICK i \in DOMAIN carried :
            pipe' = pipe \o IF changeDue THEN <<Change, Content(1), Packet(i)>> ELSE <<Packet(i)>>
      BY <1>3 DEF SendPacket
    <3>2. i \in 1..Len(carried)
      BY <1>0 DEF DemuxTypes
    <3>3. {Change, Content(1), Packet(i)} \subseteq DemuxMessages
      BY <1>0, <3>2, SentIs DEF DemuxTypes
    <3>4. <<Change, Content(1), Packet(i)>> \in Seq(DemuxMessages) /\ <<Packet(i)>> \in Seq(DemuxMessages)
      BY <3>3
    <3>5. pipe \in Seq(DemuxMessages)
      BY <1>0 DEF DemuxTypes
    <3>. QED  BY <3>1, <3>4, <3>5, ConcatProperties
  <2>. QED  BY <1>0, <1>3, <2>1 DEF SendPacket, DemuxTypes, demuxClient, demuxTable, demuxHistory
<1>4. CASE SendStreamInfo
  <2>1. pipe' \in Seq(DemuxMessages)
    BY <1>0, <1>4, SentIs DEF SendStreamInfo, DemuxTypes
  <2>. QED  BY <1>0, <1>4, <2>1 DEF SendStreamInfo, DemuxTypes, demuxClient, demuxTable, demuxHistory
<1>5. ASSUME NEW c \in VnsiChannel, OpenDemuxer(c) PROVE DemuxTypes'
  BY <1>0, <1>5 DEF OpenDemuxer, Asks, DemuxTypes, demuxTable
<1>6. ASSUME NEW c \in VnsiChannel, SwitchDemuxer(c) PROVE DemuxTypes'
  BY <1>0, <1>6 DEF SwitchDemuxer, Asks, DemuxTypes, demuxTable, demuxHistory
<1>7. CASE Discard
  BY <1>0, <1>7, <1>c DEF Discard, DemuxTypes, demuxClient, demuxTable, demuxServer, demuxHistory
<1>8. CASE SwitchReturns
  BY <1>0, <1>8, <1>a, <1>c DEF SwitchReturns, DemuxTypes, demuxServer
<1>9. CASE ConnectionGivenUp
  BY <1>0, <1>9, <1>a DEF ConnectionGivenUp, Gone, DemuxTypes, demuxTable, demuxHistory
<1>10. CASE CloseDemuxer
  BY <1>0, <1>10, <1>a DEF CloseDemuxer, Gone, DemuxTypes, demuxHistory
<1>11. CASE ReadPacket
  BY <1>0, <1>11, <1>c DEF ReadPacket, Reads, DemuxTypes, demuxClient, demuxTable, demuxServer
<1>12. CASE ReadChange
  <2>1. Head(pipe).entries \in Entries
    BY <1>0, <1>12, HeadIs, MessageIs DEF ReadChange, Reads, DemuxTypes
  <2>. QED  BY <1>0, <1>12, <1>a, <1>c, <2>1 DEF ReadChange, Reads, DemuxTypes, demuxServer
<1>13. CASE FillEntry
  BY <1>0, <1>13, FillIs DEF FillEntry, At, DemuxTypes, demuxServer, demuxHistory
<1>14. CASE WriteCodec
  BY <1>0, <1>14, CodecIs DEF WriteCodec, At, DemuxTypes, demuxServer, demuxHistory
<1>15. CASE CountEntry
  <2>1. rest # <<>> /\ count < MaxEntries /\ rest \in Entries /\ count \in 0..MaxEntries
    BY <1>0, <1>15 DEF CountEntry, Filling, DemuxTypes
  <2>2. Tail(rest) \in Entries /\ count + 1 \in 0..MaxEntries
    BY <2>1, EntriesMax DEF Entries
  <2>. QED  BY <1>0, <1>15, <2>2 DEF CountEntry, At, DemuxTypes, demuxServer, demuxHistory
<1>16. CASE StreamChanged
  BY <1>0, <1>16, <1>a DEF StreamChanged, At, DemuxTypes, demuxServer, demuxHistory
<1>17. CASE GetStreamProperties
  BY <1>0, <1>17 DEF GetStreamProperties, At, DemuxTypes, demuxServer, demuxHistory
<1>18. CASE ReadContent
  BY <1>0, <1>18, <1>c, ContentIs DEF ReadContent, Reads, DemuxTypes, demuxClient, demuxServer, demuxHistory
<1>19. CASE ReadFails
  BY <1>0, <1>19, <1>a DEF ReadFails, Gone, DemuxTypes, demuxTable, demuxHistory
<1>20. CASE ReadStalls
  BY <1>0, <1>20, <1>c DEF ReadStalls, DemuxTypes, demuxClient, demuxTable, demuxServer, demuxHistory
<1>21. CASE Abort
  BY <1>0, <1>21, <1>a DEF Abort, DemuxTypes, demuxClient, demuxServer
<1>22. CASE UNCHANGED vnsiDemuxVars
  BY <1>0, <1>22 DEF vnsiDemuxVars, DemuxTypes, demuxClient, demuxTable, demuxServer, demuxHistory
<1>. QED  BY <1>1, <1>2, <1>3, <1>4, <1>5, <1>6, <1>7, <1>8, <1>9, <1>10, <1>11, <1>12, <1>13,
             <1>14, <1>15, <1>16, <1>17, <1>18, <1>19, <1>20, <1>21, <1>22 DEF VNSIDemuxNext

(* An entry is filled only while there is room, and the rest of a change   *)
(* is forgotten with it.                                                   *)
LEMMA FillingKept == DemuxInv /\ [VNSIDemuxNext]_vnsiDemuxVars => Filling'
<1>. SUFFICES ASSUME DemuxInv, [VNSIDemuxNext]_vnsiDemuxVars PROVE Filling'
  OBVIOUS
<1>0. DemuxTypes /\ Filling
  BY DEF DemuxInv
<1>1. CASE ServeOpen
  BY <1>0, <1>1 DEF ServeOpen, demuxClient, demuxTable, demuxHistory, Filling, DemuxTypes
<1>2. CASE NewProgrammeMap
  BY <1>0, <1>2 DEF NewProgrammeMap, Streams, demuxClient, demuxTable, demuxHistory, Filling, DemuxTypes
<1>3. CASE SendPacket
  BY <1>0, <1>3 DEF SendPacket, Streams, demuxClient, demuxTable, demuxHistory, Filling, DemuxTypes
<1>4. CASE SendStreamInfo
  BY <1>0, <1>4 DEF SendStreamInfo, Streams, demuxClient, demuxTable, demuxHistory, Filling, DemuxTypes
<1>5. ASSUME NEW c \in VnsiChannel, OpenDemuxer(c) PROVE Filling'
  BY <1>0, <1>5 DEF OpenDemuxer, Asks, demuxTable, Filling, DemuxTypes
<1>6. ASSUME NEW c \in VnsiChannel, SwitchDemuxer(c) PROVE Filling'
  BY <1>0, <1>6 DEF SwitchDemuxer, Asks, demuxTable, demuxHistory, Filling, DemuxTypes
<1>7. CASE Discard
  BY <1>0, <1>7 DEF Discard, demuxClient, demuxTable, demuxServer, demuxHistory, Filling, DemuxTypes
<1>8. CASE SwitchReturns
  BY <1>0, <1>8 DEF SwitchReturns, demuxServer, Filling, DemuxTypes
<1>9. CASE ConnectionGivenUp
  BY <1>0, <1>9 DEF ConnectionGivenUp, Gone, demuxTable, demuxHistory, Filling, DemuxTypes
<1>10. CASE CloseDemuxer
  BY <1>0, <1>10 DEF CloseDemuxer, Gone, demuxHistory, Filling, DemuxTypes
<1>11. CASE ReadPacket
  BY <1>0, <1>11 DEF ReadPacket, Reads, demuxClient, demuxTable, demuxServer, Filling, DemuxTypes
<1>12. CASE ReadChange
  BY <1>0, <1>12 DEF ReadChange, Reads, demuxServer, Filling, DemuxTypes
<1>13. CASE FillEntry
  BY <1>0, <1>13 DEF FillEntry, At, demuxServer, demuxHistory, Filling, DemuxTypes
<1>14. CASE WriteCodec
  BY <1>0, <1>14 DEF WriteCodec, At, demuxServer, demuxHistory, Filling, DemuxTypes
<1>15. CASE CountEntry
  BY <1>0, <1>15 DEF CountEntry, At, demuxServer, demuxHistory, Filling, DemuxTypes
<1>16. CASE StreamChanged
  BY <1>0, <1>16 DEF StreamChanged, At, demuxServer, demuxHistory, Filling, DemuxTypes
<1>17. CASE GetStreamProperties
  BY <1>0, <1>17 DEF GetStreamProperties, At, demuxServer, demuxHistory, Filling, DemuxTypes
<1>18. CASE ReadContent
  BY <1>0, <1>18 DEF ReadContent, Reads, demuxClient, demuxServer, demuxHistory, Filling, DemuxTypes
<1>19. CASE ReadFails
  BY <1>0, <1>19 DEF ReadFails, Gone, demuxTable, demuxHistory, Filling, DemuxTypes
<1>20. CASE ReadStalls
  BY <1>0, <1>20 DEF ReadStalls, demuxClient, demuxTable, demuxServer, demuxHistory, Filling, DemuxTypes
<1>21. CASE Abort
  BY <1>0, <1>21, EntriesMax DEF Abort, demuxClient, demuxServer, Filling, DemuxTypes
<1>22. CASE UNCHANGED vnsiDemuxVars
  BY <1>0, <1>22 DEF vnsiDemuxVars, demuxClient, demuxTable, demuxServer, demuxHistory, Filling, DemuxTypes
<1>. QED  BY <1>1, <1>2, <1>3, <1>4, <1>5, <1>6, <1>7, <1>8, <1>9, <1>10, <1>11,
             <1>12, <1>13, <1>14, <1>15, <1>16, <1>17, <1>18, <1>19, <1>20, <1>21, <1>22 DEF VNSIDemuxNext

(* Unless it was aborted, the next entry of a change goes to the next      *)
(* place.                                                                  *)
LEMMA PlacedKept == DemuxInv /\ [VNSIDemuxNext]_vnsiDemuxVars => Placed'
<1>. SUFFICES ASSUME DemuxInv, [VNSIDemuxNext]_vnsiDemuxVars PROVE Placed'
  OBVIOUS
<1>0. /\ Placed /\ Filling /\ DemuxTypes /\ Served /\ Answers
      /\ count \in 0..MaxEntries /\ rest \in Entries /\ Len(rest) \in Nat
  BY DEF DemuxInv, DemuxTypes, Entries
<1>a. Len(<<>>) = 0 /\ 1..0 = {}
  OBVIOUS
<1>1. CASE ServeOpen
  BY <1>0, <1>1 DEF ServeOpen, demuxClient, demuxTable, demuxHistory, Placed
<1>2. CASE NewProgrammeMap
  BY <1>0, <1>2 DEF NewProgrammeMap, Streams, demuxClient, demuxTable, demuxHistory, Placed
<1>3. CASE SendPacket
  BY <1>0, <1>3 DEF SendPacket, Streams, demuxClient, demuxTable, demuxHistory, Placed
<1>4. CASE SendStreamInfo
  BY <1>0, <1>4 DEF SendStreamInfo, Streams, demuxClient, demuxTable, demuxHistory, Placed
<1>5. ASSUME NEW c \in VnsiChannel, OpenDemuxer(c) PROVE Placed'
  <2>1. count' = 0 /\ rest' = <<>> /\ demuxAt' \notin {"writes", "counts"}
    BY <1>0, <1>5 DEF OpenDemuxer, Asks, demuxTable, Filling
  <2>. QED  BY <2>1 DEF Placed
<1>6. ASSUME NEW c \in VnsiChannel, SwitchDemuxer(c) PROVE Placed'
  BY <1>0, <1>6 DEF SwitchDemuxer, Asks, demuxTable, demuxHistory, Placed
<1>7. CASE Discard
  BY <1>0, <1>7 DEF Discard, demuxClient, demuxTable, demuxServer, demuxHistory, Placed
<1>8. CASE SwitchReturns
  <2>1. \/ count' = 0 /\ rest' = <<>> /\ demuxAt' \notin {"writes", "counts"}
        \/ UNCHANGED <<slots, count, rest, aborted>> /\ demuxAt' \notin {"writes", "counts"}
    BY <1>0, <1>8 DEF SwitchReturns, demuxServer, Filling
  <2>2. CASE count' = 0 /\ rest' = <<>> /\ demuxAt' \notin {"writes", "counts"}
    BY <2>2 DEF Placed
  <2>3. CASE UNCHANGED <<slots, count, rest, aborted>> /\ demuxAt' \notin {"writes", "counts"}
    <3>1. slots' = slots /\ count' = count /\ rest' = rest /\ aborted' = aborted
      BY <2>3
    <3>. QED  BY <1>0, <2>3, <3>1 DEF Placed
  <2>. QED  BY <2>1, <2>2, <2>3
<1>9. CASE ConnectionGivenUp
  BY <1>0, <1>9 DEF ConnectionGivenUp, Gone, demuxTable, demuxHistory, Placed
<1>10. CASE CloseDemuxer
  <2>1. count' = 0 /\ rest' = <<>> /\ demuxAt' \notin {"writes", "counts"}
    BY <1>10 DEF CloseDemuxer, Gone, demuxHistory
  <2>. QED  BY <2>1 DEF Placed
<1>11. CASE ReadPacket
  BY <1>0, <1>11 DEF ReadPacket, Reads, demuxClient, demuxTable, demuxServer, Placed
<1>12. CASE ReadChange
  <2>1. /\ count' = 0 /\ rest' = pipe[1].entries /\ demuxAt' = "fills"
        /\ pipe[1].kind = "change" /\ 1 \in 1..Len(pipe)
    BY <1>0, <1>12, HeadIs DEF ReadChange, Reads, demuxServer, DemuxTypes
  <2>2. \A e \in 1..Len(rest') : rest'[e].id = e
    BY <1>0, <2>1 DEF Served, Numbered
  <2>3. rest' \in Entries
    BY <1>0, <2>1, HeadIs, MessageIs, <1>12 DEF DemuxTypes, ReadChange, Reads
  <2>4. \A e \in 1..Len(rest') : rest'[e].id = 0 + e
    BY <2>2, <2>3 DEF Entries
  <2>. QED  BY <2>1, <2>4 DEF Placed
<1>13. CASE FillEntry
  <2>1. /\ UNCHANGED <<count, rest, aborted>> /\ demuxAt' = "writes" /\ rest # <<>>
    BY <1>13 DEF FillEntry, At, demuxServer, demuxHistory
  <2>2. /\ slots'[count + 1].id = rest[1].id
        /\ \A i \in 1..count : slots'[i] = slots[i]
    BY <1>0, <1>13, FillIs, EntriesMax
  <2>3. 1 \in 1..Len(rest)
    BY <1>0, <2>1, EntryIs
  <2>. QED  BY <1>0, <2>1, <2>2, <2>3 DEF Placed
<1>14. CASE WriteCodec
  <2>1. /\ UNCHANGED <<count, rest, aborted>> /\ demuxAt = "writes" /\ demuxAt' = "counts"
    BY <1>14 DEF WriteCodec, At, demuxServer, demuxHistory
  <2>2. /\ slots'[count + 1].id = slots[count + 1].id
        /\ slots'[count + 1].codec = rest[1].codec
        /\ \A i \in 1..count : slots'[i] = slots[i]
    BY <1>0, <1>14, CodecIs, EntriesMax
  <2>. QED  BY <1>0, <2>1, <2>2 DEF Placed
<1>15. CASE CountEntry
  <2>1. /\ UNCHANGED <<slots, aborted>> /\ demuxAt = "counts" /\ demuxAt' = "fills"
        /\ count' = count + 1 /\ rest' = Tail(rest) /\ rest # <<>>
    BY <1>0, <1>15 DEF CountEntry, At, demuxServer, demuxHistory, Filling
  <2>2. /\ Len(rest') = Len(rest) - 1
        /\ \A i \in 1..(Len(rest) - 1) : rest'[i] = rest[i + 1]
    BY <1>0, <2>1, EntryIs
  <2>3. ~aborted => \A i \in 1..Len(rest') : rest'[i].id = count' + i
    BY <1>0, <2>1, <2>2 DEF Placed
  <2>4. ~aborted => \A i \in 1..count' : slots'[i].id = i
    BY <1>0, <2>1 DEF Placed
  <2>. QED  BY <2>1, <2>3, <2>4 DEF Placed
<1>16. CASE StreamChanged
  <2>1. UNCHANGED <<slots, count, aborted>> /\ demuxAt' = "looks" /\ rest' = <<>>
    BY <1>16 DEF StreamChanged, At, demuxServer, demuxHistory
  <2>. QED  BY <1>0, <2>1 DEF Placed
<1>17. CASE GetStreamProperties
  BY <1>0, <1>17 DEF GetStreamProperties, At, demuxServer, demuxHistory, Placed
<1>18. CASE ReadContent
  <2>1. UNCHANGED <<demuxAt, count, rest, aborted>> /\ demuxAt = "idle"
    BY <1>18 DEF ReadContent, Reads, demuxClient, demuxServer, demuxHistory
  <2>2. \A i \in 1..count : slots'[i].id = slots[i].id
    BY <1>0, <1>18, ContentIs, EntriesMax
  <2>. QED  BY <1>0, <2>1, <2>2 DEF Placed
<1>19. CASE ReadFails
  BY <1>0, <1>19 DEF ReadFails, Gone, demuxTable, demuxHistory, Placed
<1>20. CASE ReadStalls
  BY <1>0, <1>20 DEF ReadStalls, demuxClient, demuxTable, demuxServer, demuxHistory, Placed
<1>21. CASE Abort
  BY <1>0, <1>21 DEF Abort, demuxClient, demuxServer, Placed
<1>22. CASE UNCHANGED vnsiDemuxVars
  BY <1>0, <1>22 DEF vnsiDemuxVars, demuxClient, demuxTable, demuxServer, demuxHistory, Placed
<1>. QED  BY <1>1, <1>2, <1>3, <1>4, <1>5, <1>6, <1>7, <1>8, <1>9, <1>10, <1>11,
             <1>12, <1>13, <1>14, <1>15, <1>16, <1>17, <1>18, <1>19, <1>20, <1>21, <1>22 DEF VNSIDemuxNext

(* The server answers each request once; the client does nothing else      *)
(* before it has read the answer.                                          *)
LEMMA AnswersKept == DemuxInv /\ [VNSIDemuxNext]_vnsiDemuxVars => Answers'
<1>. SUFFICES ASSUME DemuxInv, [VNSIDemuxNext]_vnsiDemuxVars PROVE Answers'
  OBVIOUS
<1>0. DemuxTypes /\ Filling /\ Answers
  BY DEF DemuxInv
<1>b. ASSUME pipe # <<>>, pipe' = Tail(pipe), \A i \in 1..Len(pipe) : pipe[i].kind # "reply"
      PROVE  \A i \in 1..Len(pipe') : pipe'[i].kind # "reply"
  BY <1>0, <1>b, HeadIs DEF DemuxTypes
<1>c. ASSUME NEW more \in Seq(DemuxMessages), pipe' = pipe \o more,
             \A i \in 1..Len(more) : more[i].kind # "reply",
             \A i \in 1..Len(pipe) : pipe[i].kind # "reply"
      PROVE  \A i \in 1..Len(pipe') : pipe'[i].kind # "reply"
  <2>1. /\ Len(pipe') = Len(pipe) + Len(more) /\ Len(pipe) \in Nat /\ Len(more) \in Nat
        /\ \A i \in 1..(Len(pipe) + Len(more)) :
             pipe'[i] = IF i <= Len(pipe) THEN pipe[i] ELSE more[i - Len(pipe)]
    BY <1>0, <1>c, ConcatProperties DEF DemuxTypes
  <2>. QED  BY <1>c, <2>1
<1>1. CASE ServeOpen
  <2>1. ~openAsked' /\ demuxAt' = demuxAt /\ demuxAt = "switches"
    BY <1>0, <1>1 DEF ServeOpen, demuxClient, demuxTable, demuxHistory, Answers
  <2>. QED  BY <2>1 DEF Answers
<1>2. CASE NewProgrammeMap
  BY <1>0, <1>2 DEF NewProgrammeMap, Streams, demuxClient, demuxTable, demuxHistory, Answers
<1>3. CASE SendPacket
  <2>1. PICK i \in DOMAIN carried :
          pipe' = pipe \o IF changeDue THEN <<Change, Content(1), Packet(i)>> ELSE <<Packet(i)>>
    BY <1>3 DEF SendPacket
  <2>2. i \in 1..Len(carried)
    BY <1>0 DEF DemuxTypes
  <2>3. /\ {Change, Content(1), Packet(i)} \subseteq DemuxMessages
        /\ Change.kind = "change" /\ Content(1).kind = "content" /\ Packet(i).kind = "packet"
    BY <1>0, <2>2, SentIs DEF DemuxTypes
  <2>4. ASSUME \A k \in 1..Len(pipe) : pipe[k].kind # "reply"
        PROVE  \A k \in 1..Len(pipe') : pipe'[k].kind # "reply"
    <3>1. CASE changeDue
      <4>. DEFINE more == <<Change, Content(1), Packet(i)>>
      <4>1. more \in Seq(DemuxMessages) /\ Len(more) = 3
            /\ more[1] = Change /\ more[2] = Content(1) /\ more[3] = Packet(i)
        BY <2>3
      <4>2. pipe' = pipe \o more
        BY <2>1, <3>1
      <4>. HIDE DEF more
      <4>3. \A k \in 1..Len(more) : more[k].kind # "reply"
        BY <2>3, <4>1
      <4>. QED  BY <1>c, <2>4, <4>1, <4>2, <4>3
    <3>2. CASE ~changeDue
      <4>. DEFINE more == <<Packet(i)>>
      <4>1. more \in Seq(DemuxMessages) /\ Len(more) = 1 /\ more[1] = Packet(i)
        BY <2>3
      <4>2. pipe' = pipe \o more
        BY <2>1, <3>2
      <4>. HIDE DEF more
      <4>3. \A k \in 1..Len(more) : more[k].kind # "reply"
        BY <2>3, <4>1
      <4>. QED  BY <1>c, <2>4, <4>1, <4>2, <4>3
    <3>. QED  BY <3>1, <3>2
  <2>. QED  BY <1>0, <1>3, <2>4 DEF SendPacket, Streams, demuxClient, demuxTable, demuxHistory, Answers
<1>4. CASE SendStreamInfo
  <2>1. PICK info \in 1..2 : pipe' = Append(pipe, Content(info))
    BY <1>4 DEF SendStreamInfo
  <2>2. Content(info) \in DemuxMessages /\ Content(info).kind = "content"
    BY <1>0, SentIs DEF DemuxTypes
  <2>3. ASSUME \A k \in 1..Len(pipe) : pipe[k].kind # "reply"
        PROVE  \A k \in 1..Len(pipe') : pipe'[k].kind # "reply"
    BY <1>0, <2>1, <2>2, <2>3 DEF DemuxTypes
  <2>. QED  BY <1>0, <1>4, <2>3 DEF SendStreamInfo, Streams, demuxClient, demuxTable, demuxHistory, Answers
<1>5. ASSUME NEW c \in VnsiChannel, OpenDemuxer(c) PROVE Answers'
  <2>1. UNCHANGED pipe /\ ~openAsked
    BY <1>0, <1>5 DEF OpenDemuxer, Asks, demuxTable, Answers
  <2>. QED  BY <1>0, <1>5, <2>1 DEF OpenDemuxer, Asks, demuxTable, Answers, Filling
<1>6. ASSUME NEW c \in VnsiChannel, SwitchDemuxer(c) PROVE Answers'
  BY <1>0, <1>6 DEF SwitchDemuxer, Asks, demuxTable, demuxHistory, Answers
<1>7. CASE Discard
  <2>1. pipe # <<>> /\ pipe' = Tail(pipe)
    BY <1>7 DEF Discard, demuxClient, demuxTable, demuxServer, demuxHistory
  <2>. QED  BY <1>0, <1>b, <1>7, <2>1 DEF Discard, demuxClient, demuxTable, demuxServer, demuxHistory, Answers
<1>8. CASE SwitchReturns
  <2>1. pipe # <<>> /\ pipe' = Tail(pipe) /\ ~openAsked /\ ~openAsked'
    BY <1>0, <1>8, HeadIs DEF SwitchReturns, demuxServer, DemuxTypes, Answers
  <2>2. framed /\ demuxLink = "open"
    BY <1>0, <1>8 DEF SwitchReturns, Filling
  <2>3. PICK r \in 0..Len(pipe) : Coherent(r)
    BY <2>1, <2>2 DEF DemuxInv, PipeCoherent
  <2>4. r = 1
    <3>1. 1 \in 1..Len(pipe) /\ pipe[1].kind = "reply"
      BY <1>0, <1>8, HeadIs, <2>1 DEF SwitchReturns, DemuxTypes
    <3>. QED  BY <2>3, <3>1 DEF Coherent
  <2>5. \A i \in 1..Len(pipe') : pipe'[i].kind # "reply"
    BY <1>0, <2>1, <2>3, <2>4, HeadIs DEF DemuxTypes, Coherent
  <2>. QED  BY <2>1, <2>5 DEF Answers
<1>9. CASE ConnectionGivenUp
  <2>1. pipe' = <<>> /\ ~openAsked'
    BY <1>9 DEF ConnectionGivenUp, Gone, demuxTable, demuxHistory
  <2>. QED  BY <2>1 DEF Answers
<1>10. CASE CloseDemuxer
  <2>1. pipe' = <<>> /\ ~openAsked'
    BY <1>10 DEF CloseDemuxer, Gone, demuxHistory
  <2>. QED  BY <2>1 DEF Answers
<1>11. CASE ReadPacket
  <2>1. pipe # <<>> /\ pipe' = Tail(pipe)
    BY <1>11 DEF ReadPacket, Reads, demuxClient, demuxTable, demuxServer
  <2>. QED  BY <1>0, <1>b, <1>11, <2>1 DEF ReadPacket, Reads, demuxClient, demuxTable, demuxServer, Answers
<1>12. CASE ReadChange
  <2>1. pipe # <<>> /\ pipe' = Tail(pipe)
    BY <1>12 DEF ReadChange, Reads, demuxServer
  <2>. QED  BY <1>0, <1>b, <1>12, <2>1 DEF ReadChange, Reads, demuxServer, Answers
<1>13. CASE FillEntry
  BY <1>0, <1>13 DEF FillEntry, At, demuxServer, demuxHistory, Answers
<1>14. CASE WriteCodec
  BY <1>0, <1>14 DEF WriteCodec, At, demuxServer, demuxHistory, Answers
<1>15. CASE CountEntry
  BY <1>0, <1>15 DEF CountEntry, At, demuxServer, demuxHistory, Answers
<1>16. CASE StreamChanged
  BY <1>0, <1>16 DEF StreamChanged, At, demuxServer, demuxHistory, Answers
<1>17. CASE GetStreamProperties
  BY <1>0, <1>17 DEF GetStreamProperties, At, demuxServer, demuxHistory, Answers
<1>18. CASE ReadContent
  <2>1. pipe # <<>> /\ pipe' = Tail(pipe)
    BY <1>18 DEF ReadContent, Reads, demuxClient, demuxServer, demuxHistory
  <2>. QED  BY <1>0, <1>b, <1>18, <2>1 DEF ReadContent, Reads, demuxClient, demuxServer, demuxHistory, Answers
<1>19. CASE ReadFails
  <2>1. pipe' = <<>> /\ ~openAsked'
    BY <1>19 DEF ReadFails, Gone, demuxTable, demuxHistory
  <2>. QED  BY <2>1 DEF Answers
<1>20. CASE ReadStalls
  <2>1. pipe # <<>> /\ pipe' = Tail(pipe)
    BY <1>20 DEF ReadStalls, demuxClient, demuxTable, demuxServer, demuxHistory
  <2>. QED  BY <1>0, <1>b, <1>20, <2>1 DEF ReadStalls, demuxClient, demuxTable, demuxServer, demuxHistory, Answers
<1>21. CASE Abort
  BY <1>0, <1>21 DEF Abort, demuxClient, demuxServer, Answers
<1>22. CASE UNCHANGED vnsiDemuxVars
  BY <1>0, <1>22 DEF vnsiDemuxVars, demuxClient, demuxTable, demuxServer, demuxHistory, Answers
<1>. QED  BY <1>1, <1>2, <1>3, <1>4, <1>5, <1>6, <1>7, <1>8, <1>9, <1>10, <1>11,
             <1>12, <1>13, <1>14, <1>15, <1>16, <1>17, <1>18, <1>19, <1>20, <1>21, <1>22 DEF VNSIDemuxNext

(* What the server streams is the channel of its last answer, or nothing.  *)
LEMMA ServedKept == DemuxInv /\ [VNSIDemuxNext]_vnsiDemuxVars => Served'
<1>. SUFFICES ASSUME DemuxInv, [VNSIDemuxNext]_vnsiDemuxVars PROVE Served'
  OBVIOUS
<1>0. DemuxTypes /\ Filling /\ Answers /\ Served
  BY DEF DemuxInv
<1>b. ASSUME pipe # <<>>, pipe' = Tail(pipe) PROVE Numbered(pipe')
  BY <1>0, <1>b, HeadIs DEF DemuxTypes, Served, Numbered
<1>c. ASSUME NEW more \in Seq(DemuxMessages), pipe' = pipe \o more, Numbered(more)
      PROVE  Numbered(pipe')
  <2>1. /\ Len(pipe') = Len(pipe) + Len(more) /\ Len(pipe) \in Nat /\ Len(more) \in Nat
        /\ \A i \in 1..(Len(pipe) + Len(more)) :
             pipe'[i] = IF i <= Len(pipe) THEN pipe[i] ELSE more[i - Len(pipe)]
    BY <1>0, <1>c, ConcatProperties DEF DemuxTypes
  <2>2. ASSUME NEW i \in 1..Len(pipe'), pipe'[i].kind = "change"
        PROVE  \A e \in 1..Len(pipe'[i].entries) : pipe'[i].entries[e].id = e
    <3>1. CASE i <= Len(pipe)
      BY <1>0, <2>1, <2>2, <3>1 DEF Served, Numbered
    <3>2. CASE ~(i <= Len(pipe))
      <4>1. i - Len(pipe) \in 1..Len(more) /\ pipe'[i] = more[i - Len(pipe)]
        BY <2>1, <3>2
      <4>. QED  BY <1>c, <2>2, <4>1 DEF Numbered
    <3>. QED  BY <3>1, <3>2
  <2>. QED  BY <2>2 DEF Numbered
<1>d. UNCHANGED pipe => Numbered(pipe')
  BY <1>0 DEF Served
<1>e. ASSUME SwitchReturns PROVE streamed' \in {Untuned, Current'}
  <2>1. pipe # <<>> /\ ~openAsked /\ framed /\ demuxLink = "open" /\ demuxAt = "switches"
    BY <1>0, <1>e, HeadIs DEF SwitchReturns, DemuxTypes, Answers, Filling
  <2>3. PICK r \in 0..Len(pipe) : Coherent(r)
    BY <2>1 DEF DemuxInv, PipeCoherent
  <2>4. r = 1
    <3>1. 1 \in 1..Len(pipe) /\ pipe[1].kind = "reply"
      BY <1>0, <1>e, HeadIs, <2>1 DEF SwitchReturns, DemuxTypes
    <3>. QED  BY <2>3, <3>1 DEF Coherent
  <2>5. IF pipe[1].ok THEN streamed = wanted ELSE streamed = Untuned
    BY <2>3, <2>4 DEF Coherent
  <2>6. Head(pipe) = pipe[1]
    BY <1>0, <2>1, HeadIs DEF DemuxTypes
  <2>. QED  BY <1>e, <2>5, <2>6 DEF SwitchReturns, Current, demuxServer
<1>1. CASE ServeOpen
  <2>1. /\ demuxAt = "switches" /\ demuxAt' = demuxAt /\ wanted' = wanted
        /\ streamed' \in {wanted, Untuned}
        /\ \E ok \in BOOLEAN : pipe' = Append(pipe, Reply(ok))
    BY <1>0, <1>1 DEF ServeOpen, demuxClient, demuxTable, demuxHistory, Answers
  <2>2. \A ok \in BOOLEAN : Reply(ok) \in DemuxMessages /\ Reply(ok).kind = "reply"
    BY <1>0, SentIs DEF DemuxTypes
  <2>3. Numbered(pipe')
    BY <1>0, <2>1, <2>2 DEF DemuxTypes, Served, Numbered
  <2>. QED  BY <2>1, <2>3 DEF Served, Current
<1>2. CASE NewProgrammeMap
  BY <1>0, <1>d, <1>2 DEF NewProgrammeMap, Streams, demuxClient, demuxTable, demuxHistory, Served, Current
<1>3. CASE SendPacket
  <2>1. PICK i \in DOMAIN carried :
          pipe' = pipe \o IF changeDue THEN <<Change, Content(1), Packet(i)>> ELSE <<Packet(i)>>
    BY <1>3 DEF SendPacket
  <2>2. i \in 1..Len(carried)
    BY <1>0 DEF DemuxTypes
  <2>3. /\ {Change, Content(1), Packet(i)} \subseteq DemuxMessages
        /\ Content(1).kind = "content" /\ Packet(i).kind = "packet"
        /\ \A e \in 1..Len(Change.entries) : Change.entries[e].id = e
    BY <1>0, <2>2, SentIs DEF DemuxTypes
  <2>4. Numbered(pipe')
    <3>1. CASE changeDue
      <4>. DEFINE more == <<Change, Content(1), Packet(i)>>
      <4>1. more \in Seq(DemuxMessages) /\ Len(more) = 3
            /\ more[1] = Change /\ more[2] = Content(1) /\ more[3] = Packet(i)
        BY <2>3
      <4>2. pipe' = pipe \o more
        BY <2>1, <3>1
      <4>. HIDE DEF more
      <4>3. Numbered(more)
        BY <2>3, <4>1 DEF Numbered
      <4>. QED  BY <1>c, <4>1, <4>2, <4>3
    <3>2. CASE ~changeDue
      <4>. DEFINE more == <<Packet(i)>>
      <4>1. more \in Seq(DemuxMessages) /\ Len(more) = 1 /\ more[1] = Packet(i)
        BY <2>3
      <4>2. pipe' = pipe \o more
        BY <2>1, <3>2
      <4>. HIDE DEF more
      <4>3. Numbered(more)
        BY <2>3, <4>1 DEF Numbered
      <4>. QED  BY <1>c, <4>1, <4>2, <4>3
    <3>. QED  BY <3>1, <3>2
  <2>. QED  BY <1>0, <1>3, <2>4 DEF SendPacket, Streams, demuxClient, demuxTable, demuxHistory, Served, Current
<1>4. CASE SendStreamInfo
  <2>1. PICK info \in 1..2 : pipe' = Append(pipe, Content(info))
    BY <1>4 DEF SendStreamInfo
  <2>2. Content(info) \in DemuxMessages /\ Content(info).kind = "content"
    BY <1>0, SentIs DEF DemuxTypes
  <2>3. Numbered(pipe')
    BY <1>0, <2>1, <2>2 DEF DemuxTypes, Served, Numbered
  <2>. QED  BY <1>0, <1>4, <2>3 DEF SendStreamInfo, Streams, demuxClient, demuxTable, demuxHistory, Served, Current
<1>5. ASSUME NEW c \in VnsiChannel, OpenDemuxer(c) PROVE Served'
  <2>1. demuxLink' = "open" => openAsked'
    BY <1>5 DEF OpenDemuxer, Asks, demuxTable
  <2>2. UNCHANGED pipe
    BY <1>5 DEF OpenDemuxer, Asks, demuxTable
  <2>. QED  BY <1>d, <2>1, <2>2 DEF Served
<1>6. ASSUME NEW c \in VnsiChannel, SwitchDemuxer(c) PROVE Served'
  <2>1. demuxLink' = "open" => openAsked'
    BY <1>0, <1>6 DEF SwitchDemuxer, Asks, demuxTable, demuxHistory
  <2>2. UNCHANGED pipe
    BY <1>6 DEF SwitchDemuxer, Asks, demuxTable, demuxHistory
  <2>. QED  BY <1>d, <2>1, <2>2 DEF Served
<1>7. CASE Discard
  <2>1. pipe # <<>> /\ pipe' = Tail(pipe)
    BY <1>7 DEF Discard, demuxClient, demuxTable, demuxServer, demuxHistory
  <2>. QED  BY <1>0, <1>b, <1>7, <2>1 DEF Discard, demuxClient, demuxTable, demuxServer, demuxHistory, Served, Current, Answers, Filling
<1>8. CASE SwitchReturns
  <2>1. pipe # <<>> /\ pipe' = Tail(pipe)
    BY <1>8 DEF SwitchReturns, demuxServer
  <2>. QED  BY <1>b, <1>e, <1>8, <2>1 DEF Served
<1>9. CASE ConnectionGivenUp
  <2>1. pipe' = <<>> /\ streamed' = Untuned
    BY <1>9 DEF ConnectionGivenUp, Gone, demuxTable, demuxHistory
  <2>. QED  BY <2>1 DEF Served, Numbered
<1>10. CASE CloseDemuxer
  <2>1. pipe' = <<>> /\ streamed' = Untuned
    BY <1>10 DEF CloseDemuxer, Gone, demuxHistory
  <2>. QED  BY <2>1 DEF Served, Numbered
<1>11. CASE ReadPacket
  <2>1. pipe # <<>> /\ pipe' = Tail(pipe)
    BY <1>11 DEF ReadPacket, Reads, demuxClient, demuxTable, demuxServer
  <2>. QED  BY <1>0, <1>b, <1>11, <2>1 DEF ReadPacket, Reads, demuxClient, demuxTable, demuxServer, Served, Current, Answers, Filling
<1>12. CASE ReadChange
  <2>1. pipe # <<>> /\ pipe' = Tail(pipe)
    BY <1>12 DEF ReadChange, Reads, demuxServer
  <2>. QED  BY <1>0, <1>b, <1>12, <2>1 DEF ReadChange, Reads, demuxServer, Served, Current, Answers, Filling
<1>13. CASE FillEntry
  BY <1>0, <1>d, <1>13 DEF FillEntry, At, demuxServer, demuxHistory, Served, Current
<1>14. CASE WriteCodec
  BY <1>0, <1>d, <1>14 DEF WriteCodec, At, demuxServer, demuxHistory, Served, Current
<1>15. CASE CountEntry
  BY <1>0, <1>d, <1>15 DEF CountEntry, At, demuxServer, demuxHistory, Served, Current
<1>16. CASE StreamChanged
  BY <1>0, <1>d, <1>16 DEF StreamChanged, At, demuxServer, demuxHistory, Served, Current
<1>17. CASE GetStreamProperties
  BY <1>0, <1>d, <1>17 DEF GetStreamProperties, At, demuxServer, demuxHistory, Served, Current
<1>18. CASE ReadContent
  <2>1. pipe # <<>> /\ pipe' = Tail(pipe)
    BY <1>18 DEF ReadContent, Reads, demuxClient, demuxServer, demuxHistory
  <2>. QED  BY <1>0, <1>b, <1>18, <2>1 DEF ReadContent, Reads, demuxClient, demuxServer, demuxHistory, Served, Current, Answers, Filling
<1>19. CASE ReadFails
  <2>1. pipe' = <<>> /\ streamed' = Untuned
    BY <1>19 DEF ReadFails, Gone, demuxTable, demuxHistory
  <2>. QED  BY <2>1 DEF Served, Numbered
<1>20. CASE ReadStalls
  <2>1. pipe # <<>> /\ pipe' = Tail(pipe)
    BY <1>20 DEF ReadStalls, demuxClient, demuxTable, demuxServer, demuxHistory
  <2>. QED  BY <1>0, <1>b, <1>20, <2>1 DEF ReadStalls, demuxClient, demuxTable, demuxServer, demuxHistory, Served, Current, Answers, Filling
<1>21. CASE Abort
  BY <1>0, <1>d, <1>21 DEF Abort, demuxClient, demuxServer, Served, Current
<1>22. CASE UNCHANGED vnsiDemuxVars
  BY <1>0, <1>d, <1>22 DEF vnsiDemuxVars, demuxClient, demuxTable, demuxServer, demuxHistory, Served, Current
<1>. QED  BY <1>1, <1>2, <1>3, <1>4, <1>5, <1>6, <1>7, <1>8, <1>9, <1>10, <1>11,
             <1>12, <1>13, <1>14, <1>15, <1>16, <1>17, <1>18, <1>19, <1>20, <1>21, <1>22 DEF VNSIDemuxNext

-----------------------------------------------------------------------------
(* The pipe                                                                *)

(* A step of the client on its table, of which the pipe knows nothing.     *)
LEMMA CoherentQuiet ==
  ASSUME DemuxTypes, NEW r \in 0..Len(pipe), Coherent(r),
         UNCHANGED <<pipe, streamed, wanted, channel, changeDue, carried>>,
         demuxAt' = "switches" <=> demuxAt = "switches",
         \A id \in Nat \ {0} : \A codec : Expected(id, codec) => Expected(id, codec)'
  PROVE  Coherent(r)'
<1>1. /\ \A i \in 1..Len(pipe) : pipe[i].kind = "packet" => pipe[i].id \in Nat \ {0}
      /\ \A id \in 1..Len(carried) : id \in Nat \ {0}
  BY MessageIs DEF DemuxTypes
<1>2. ASSUME NEW id \in Nat \ {0}, NEW codec, NEW i, KnownAt(pipe, id, codec, r, i)
      PROVE  KnownAt(pipe, id, codec, r, i)'
  BY <1>2 DEF KnownAt, ByChange, NoChange
<1>3. Current' = Current
  BY DEF Current
<1>4. \A i \in (r + 1)..Len(pipe) : i \in 1..Len(pipe)
  OBVIOUS
<1>5. ASSUME NEW i \in (r + 1)..Len(pipe), pipe[i].kind = "packet"
      PROVE  KnownAt(pipe, pipe[i].id, pipe[i].codec, r, i)'
  BY <1>1, <1>2, <1>4, <1>5 DEF Coherent
<1>6. ASSUME ~changeDue, streamed # Untuned, NEW id \in 1..Len(carried)
      PROVE  KnownAt(pipe, id, carried[id], r, Len(pipe) + 1)'
  BY <1>1, <1>2, <1>6 DEF Coherent
<1>. QED  BY <1>3, <1>5, <1>6 DEF Coherent

(* A message that is no change is taken.                                   *)
LEMMA CoherentTaken ==
  ASSUME DemuxTypes, pipe # <<>>, pipe' = Tail(pipe), Coherent(0), pipe[1].kind # "change",
         UNCHANGED <<streamed, wanted, channel, changeDue, carried, demuxAt>>,
         \A id \in Nat \ {0} : \A codec : Expected(id, codec) => Expected(id, codec)'
  PROVE  Coherent(0)'
<1>1. /\ Len(pipe) \in Nat \ {0} /\ Len(pipe') = Len(pipe) - 1
      /\ \A i \in 1..(Len(pipe) - 1) : pipe'[i] = pipe[i + 1]
      /\ pipe \in Seq(DemuxMessages)
      /\ \A i \in 1..Len(pipe) : pipe[i].kind = "packet" => pipe[i].id \in Nat \ {0}
      /\ \A id \in 1..Len(carried) : id \in Nat \ {0}
  BY HeadIs, MessageIs DEF DemuxTypes
<1>2. ASSUME NEW id \in Nat \ {0}, NEW codec, NEW i \in 2..(Len(pipe) + 1),
             KnownAt(pipe, id, codec, 0, i)
      PROVE  KnownAt(pipe, id, codec, 0, i - 1)'
  <2>1. \/ ByChange(pipe', id, codec, 0, i - 1)
        \/ NoChange(pipe', 0, i - 1) /\ Expected(id, codec)
    BY <1>1, <1>2, KnownNext DEF KnownAt
  <2>. QED  BY <2>1 DEF KnownAt, ByChange, NoChange
<1>3. Current' = Current
  BY DEF Current
<1>4. ASSUME NEW i \in 1..Len(pipe') PROVE pipe'[i].kind # "reply"
  <2>1. i + 1 \in 1..Len(pipe) /\ pipe'[i] = pipe[i + 1] /\ i + 1 # 0
    BY <1>1
  <2>. QED  BY <2>1 DEF Coherent
<1>5. ASSUME NEW i \in 1..Len(pipe'), pipe'[i].kind = "packet"
      PROVE  pipe'[i].from = Current /\ KnownAt(pipe, pipe[i].id, pipe[i].codec, 0, i)'
  <2>1. /\ i + 1 \in (0 + 1)..Len(pipe) /\ pipe'[i] = pipe[i + 1]
        /\ i + 1 \in 2..(Len(pipe) + 1) /\ (i + 1) - 1 = i
        /\ i + 1 \in 1..Len(pipe)
    BY <1>1
  <2>2. /\ pipe[i + 1].from = Current
        /\ KnownAt(pipe, pipe[i + 1].id, pipe[i + 1].codec, 0, i + 1)
    BY <1>5, <2>1 DEF Coherent
  <2>3. pipe[i + 1].id \in Nat \ {0}
    BY <1>1, <1>5, <2>1
  <2>4. PICK m, c : m = pipe[i + 1].id /\ c = pipe[i + 1].codec
    OBVIOUS
  <2>5. KnownAt(pipe, m, c, 0, (i + 1) - 1)'
    BY <1>2, <2>1, <2>2, <2>3, <2>4
  <2>6. KnownAt(pipe, m, c, 0, i)'
    BY <2>1, <2>5
  <2>. QED  BY <2>1, <2>2, <2>4, <2>6
<1>6. ASSUME ~changeDue, streamed # Untuned, NEW id \in 1..Len(carried)
      PROVE  KnownAt(pipe, id, carried[id], 0, Len(pipe) + 1)'
  <2>1. KnownAt(pipe, id, carried[id], 0, Len(pipe) + 1)
    BY <1>6 DEF Coherent
  <2>2. PICK n, c : n = Len(pipe) + 1 /\ c = carried[id]
    OBVIOUS
  <2>3. n \in 2..(Len(pipe) + 1) /\ n - 1 = Len(pipe') + 1
    BY <1>1, <2>2
  <2>4. KnownAt(pipe, id, c, 0, n - 1)'
    BY <1>1, <1>2, <2>1, <2>2, <2>3
  <2>. QED  BY <2>2, <2>3, <2>4
<1>7. ~(demuxAt' = "switches")
  BY DEF Coherent
<1>. QED  BY <1>3, <1>4, <1>5, <1>6, <1>7 DEF Coherent

(* The server sends more.                                                  *)
LEMMA CoherentMore ==
  ASSUME DemuxTypes, NEW r \in 0..Len(pipe), Coherent(r), streamed # Untuned,
         NEW more \in Seq(DemuxMessages), pipe' = pipe \o more,
         \A i \in 1..Len(more) : more[i].kind # "reply",
         UNCHANGED <<streamed, demuxClient, demuxTable, aborted, carried>>,
         \A i \in (Len(pipe) + 1)..Len(pipe') :
           pipe'[i].kind = "packet" => /\ pipe'[i].from = Current
                                       /\ KnownAt(pipe', pipe'[i].id, pipe'[i].codec, r, i),
         ~changeDue' => \A id \in 1..Len(carried) :
                          KnownAt(pipe', id, carried[id], r, Len(pipe') + 1)
  PROVE  Coherent(r)'
<1>1. /\ Len(pipe') = Len(pipe) + Len(more) /\ Len(pipe) \in Nat /\ Len(more) \in Nat
      /\ \A i \in 1..(Len(pipe) + Len(more)) :
           pipe'[i] = IF i <= Len(pipe) THEN pipe[i] ELSE more[i - Len(pipe)]
      /\ pipe \in Seq(DemuxMessages)
  BY ConcatProperties DEF DemuxTypes
<1>2. Current' = Current /\ demuxAt' = demuxAt /\ wanted' = wanted
  BY DEF Current, demuxClient
<1>3. ASSUME NEW id, NEW codec, NEW i, KnownAt(pipe', id, codec, r, i)
      PROVE  KnownAt(pipe, id, codec, r, i)'
  BY <1>3 DEF KnownAt, ByChange, NoChange, Expected, demuxTable
<1>4. ASSUME NEW i \in 1..Len(pipe') PROVE pipe'[i].kind = "reply" <=> i = r
  <2>1. CASE i <= Len(pipe)
    BY <1>1, <2>1 DEF Coherent
  <2>2. CASE ~(i <= Len(pipe))
    <3>1. i - Len(pipe) \in 1..Len(more) /\ pipe'[i] = more[i - Len(pipe)] /\ i # r
      BY <1>1, <2>2
    <3>. QED  BY <3>1
  <2>. QED  BY <2>1, <2>2
<1>5. ASSUME NEW i \in (r + 1)..Len(pipe'), pipe'[i].kind = "packet"
      PROVE  pipe'[i].from = Current /\ KnownAt(pipe, pipe[i].id, pipe[i].codec, r, i)'
  <2>1. CASE i <= Len(pipe)
    <3>1. i \in (r + 1)..Len(pipe) /\ pipe'[i] = pipe[i] /\ i \in 1..(Len(pipe) + 1)
      BY <1>1, <2>1
    <3>2. pipe[i].from = Current /\ KnownAt(pipe, pipe[i].id, pipe[i].codec, r, i)
      BY <1>5, <3>1 DEF Coherent
    <3>3. KnownAt(pipe', pipe[i].id, pipe[i].codec, r, i)
      BY <1>1, <3>1, <3>2, KnownBefore DEF KnownAt
    <3>. QED  BY <1>3, <3>1, <3>2, <3>3
  <2>2. CASE ~(i <= Len(pipe))
    <3>1. i \in (Len(pipe) + 1)..Len(pipe')
      BY <1>1, <2>2
    <3>. QED  BY <1>3, <1>5, <3>1
  <2>. QED  BY <2>1, <2>2
<1>6. r > 0 => IF pipe'[r].ok THEN streamed = wanted ELSE streamed = Untuned /\ r = Len(pipe')
  <2>1. r > 0 => r \in 1..Len(pipe) /\ pipe'[r] = pipe[r]
    BY <1>1
  <2>. QED  BY <2>1 DEF Coherent
<1>7. r > 0 <=> demuxAt = "switches"
  BY DEF Coherent
<1>8. ASSUME ~changeDue', NEW id \in 1..Len(carried)
      PROVE  KnownAt(pipe, id, carried[id], r, Len(pipe) + 1)'
  <2>1. KnownAt(pipe', id, carried[id], r, Len(pipe') + 1)
    BY <1>8
  <2>. QED  BY <1>3, <2>1
<1>. QED  BY <1>2, <1>4, <1>5, <1>6, <1>7, <1>8 DEF Coherent

(* What comes behind the answer is of the current channel and its streams  *)
(* known, step by step: a request, the answer and the change of the new    *)
(* streamer, a new PMT, the reading of each kind of message.               *)
LEMMA PipeCoherentKept == DemuxInv /\ [VNSIDemuxNext]_vnsiDemuxVars => PipeCoherent'
<1>. SUFFICES ASSUME DemuxInv, [VNSIDemuxNext]_vnsiDemuxVars PROVE PipeCoherent'
  OBVIOUS
<1>0. DemuxTypes /\ Filling /\ Placed /\ Answers /\ Served /\ PipeCoherent
  BY DEF DemuxInv
<1>1. CASE ServeOpen
  <2>. SUFFICES ASSUME demuxLink' = "open", framed', ~openAsked'
                PROVE  \E r \in 0..Len(pipe') : Coherent(r)'
    BY DEF PipeCoherent
  <2>1. PICK ok \in BOOLEAN :
          /\ pipe' = Append(pipe, Reply(ok))
          /\ IF ok THEN streamed' = wanted /\ changeDue' ELSE streamed' = Untuned
    BY <1>1 DEF ServeOpen, demuxClient, demuxTable, demuxHistory
  <2>2. /\ UNCHANGED <<wanted, demuxAt>> /\ demuxAt = "switches"
        /\ \A i \in 1..Len(pipe) : pipe[i].kind # "reply"
    BY <1>0, <1>1 DEF ServeOpen, demuxClient, demuxTable, demuxHistory, Answers
  <2>3. Reply(ok) \in DemuxMessages /\ Reply(ok).kind = "reply" /\ Reply(ok).ok = ok
    BY <1>0, SentIs DEF DemuxTypes
  <2>4. /\ Len(pipe) \in Nat /\ Len(pipe') = Len(pipe) + 1
        /\ \A i \in 1..Len(pipe) : pipe'[i] = pipe[i]
        /\ pipe'[Len(pipe) + 1] = Reply(ok)
    BY <1>0, <2>1, <2>3 DEF DemuxTypes
  <2>5. \A i \in 1..Len(pipe') : pipe'[i].kind = "reply" <=> i = Len(pipe')
    BY <2>2, <2>3, <2>4
  <2>6. \A i \in (Len(pipe') + 1)..Len(pipe') : FALSE
    BY <2>4
  <2>7. Len(pipe') > 0 /\ Len(pipe') \in 0..Len(pipe') /\ pipe'[Len(pipe')].ok = ok
    BY <2>3, <2>4
  <2>8. \E n \in 0..Len(pipe') : Coherent(n)'
    <3>. DEFINE r == Len(pipe')
    <3>0. PICK n : n = r
      OBVIOUS
    <3>1. r > 0 <=> demuxAt' = "switches"
      BY <2>2, <2>7
    <3>2. IF pipe'[r].ok THEN streamed' = wanted' ELSE streamed' = Untuned /\ r = Len(pipe')
      BY <2>1, <2>2, <2>7
    <3>3. ~(~changeDue' /\ streamed' # Untuned)
      BY <2>1
    <3>4. Coherent(n)'
      BY <2>5, <2>6, <3>0, <3>1, <3>2, <3>3 DEF Coherent
    <3>. QED  BY <2>7, <3>0, <3>4
  <2>. QED  BY <2>8
<1>2. CASE NewProgrammeMap
  <2>. SUFFICES ASSUME demuxLink' = "open", framed', ~openAsked'
                PROVE  \E r \in 0..Len(pipe') : Coherent(r)'
    BY DEF PipeCoherent
  <2>1. PICK r \in 0..Len(pipe) : Coherent(r)
    BY <1>0, <1>2 DEF NewProgrammeMap, Streams, demuxClient, demuxTable, demuxHistory, PipeCoherent
  <2>2. /\ UNCHANGED <<pipe, streamed, wanted, channel, demuxAt, slots, count, rest, aborted>>
        /\ changeDue' = TRUE
    BY <1>2 DEF NewProgrammeMap, Streams, demuxClient, demuxTable, demuxHistory
  <2>3. Coherent(r)'
    BY <2>1, <2>2 DEF Coherent, KnownAt, ByChange, NoChange, Expected, Current
  <2>. QED  BY <2>2, <2>3
<1>3. CASE SendPacket
  <2>. SUFFICES ASSUME demuxLink' = "open", framed', ~openAsked'
                PROVE  \E r \in 0..Len(pipe') : Coherent(r)'
    BY DEF PipeCoherent
  <2>1. PICK r \in 0..Len(pipe) : Coherent(r)
    BY <1>0, <1>3 DEF SendPacket, Streams, demuxClient, demuxTable, demuxHistory, PipeCoherent
  <2>2. /\ streamed # Untuned /\ streamed = Current
        /\ UNCHANGED <<streamed, demuxClient, demuxTable, aborted, carried>>
        /\ pipe \in Seq(DemuxMessages) /\ Len(pipe) \in Nat /\ r \in Nat
    BY <1>0, <1>3 DEF SendPacket, Streams, demuxClient, demuxTable, demuxHistory, Served, DemuxTypes
  <2>3. PICK n \in DOMAIN carried :
          pipe' = pipe \o IF changeDue THEN <<Change, Content(1), Packet(n)>> ELSE <<Packet(n)>>
    BY <1>3 DEF SendPacket
  <2>. DEFINE c == Change
              k == Content(1)
              p == Packet(n)
  <2>4. /\ n \in 1..Len(carried)
        /\ c \in DemuxMessages /\ c.kind = "change" /\ Len(c.entries) = Len(carried)
        /\ \A id \in 1..Len(carried) : c.entries[id].codec = carried[id]
        /\ k \in DemuxMessages /\ k.kind = "content"
        /\ p \in DemuxMessages /\ p.kind = "packet" /\ p.from = streamed
        /\ p.id = n /\ p.codec = carried[n]
    <3>1. n \in 1..Len(carried)
      BY <1>0 DEF DemuxTypes
    <3>. QED  BY <1>0, <3>1, SentIs DEF DemuxTypes
  <2>5. pipe' = pipe \o IF changeDue THEN <<c, k, p>> ELSE <<p>>
    BY <2>3
  <2>. HIDE DEF c, k, p
  <2>6. CASE ~changeDue
    <3>1. /\ pipe' = pipe \o <<p>> /\ <<p>> \in Seq(DemuxMessages) /\ Len(<<p>>) = 1 /\ <<p>>[1] = p
          /\ Len(pipe') = Len(pipe) + 1 /\ pipe'[Len(pipe) + 1] = p /\ pipe' = Append(pipe, p)
      BY <2>2, <2>4, <2>5, <2>6
    <3>2. \A id \in 1..Len(carried) : KnownAt(pipe, id, carried[id], r, Len(pipe) + 1)
      BY <2>1, <2>2, <2>6 DEF Coherent
    <3>3. Len(pipe) + 1 \in 1..(Len(pipe) + 1) /\ Len(pipe') + 1 = Len(pipe) + 2
      BY <2>2, <3>1
    <3>4. KnownAt(pipe', n, carried[n], r, Len(pipe) + 1)
      BY <2>2, <2>4, <3>1, <3>2, <3>3, KnownBefore DEF KnownAt
    <3>5. ASSUME NEW i \in (Len(pipe) + 1)..Len(pipe'), pipe'[i].kind = "packet"
          PROVE  pipe'[i].from = Current /\ KnownAt(pipe', pipe'[i].id, pipe'[i].codec, r, i)
      <4>1. i = Len(pipe) + 1
        BY <2>2, <3>1
      <4>. QED  BY <2>2, <2>4, <3>1, <3>4, <4>1
    <3>6. ASSUME NEW id \in 1..Len(carried)
          PROVE  KnownAt(pipe', id, carried[id], r, Len(pipe') + 1)
      BY <2>2, <2>4, <3>1, <3>2, <3>3, KnownAfter DEF KnownAt
    <3>7. \A i \in 1..Len(<<p>>) : <<p>>[i].kind # "reply"
      BY <2>4, <3>1
    <3>8. Coherent(r)'
      BY <1>0, <2>1, <2>2, <3>1, <3>5, <3>6, <3>7, CoherentMore
    <3>9. r \in 0..Len(pipe')
      BY <2>2, <3>1
    <3>. QED  BY <3>8, <3>9
  <2>7. CASE changeDue
    <3>. DEFINE q1 == Append(pipe, c)
                q2 == Append(q1, k)
                more == <<c, k, p>>
    <3>1. /\ q1 \in Seq(DemuxMessages) /\ Len(q1) = Len(pipe) + 1
          /\ q2 \in Seq(DemuxMessages) /\ Len(q2) = Len(pipe) + 2
      BY <2>2, <2>4
    <3>2. /\ more \in Seq(DemuxMessages) /\ Len(more) = 3
          /\ more[1] = c /\ more[2] = k /\ more[3] = p
      BY <2>4
    <3>3. pipe' = pipe \o more
      BY <2>5, <2>7
    <3>4. /\ Len(pipe') = Len(pipe) + 3
          /\ pipe'[Len(pipe) + 1] = c /\ pipe'[Len(pipe) + 2] = k /\ pipe'[Len(pipe) + 3] = p
      BY <2>2, <3>2, <3>3
    <3>5. pipe' = Append(q2, p) /\ pipe' = q2 \o <<p>> /\ <<p>> \in Seq(DemuxMessages)
      BY <2>2, <2>4, <2>5, <2>7
    <3>. HIDE DEF more, q1, q2
    <3>6. ASSUME NEW id \in 1..Len(carried)
          PROVE  /\ ByChange(pipe', id, carried[id], r, Len(pipe) + 3)
                 /\ ByChange(pipe', id, carried[id], r, Len(pipe) + 4)
      <4>1. ByChange(q1, id, carried[id], r, Len(pipe) + 2)
        BY <2>2, <2>4, KnownByChange DEF q1
      <4>2. Len(q1) + 1 = Len(pipe) + 2 /\ Len(q1) + 2 = Len(pipe) + 3
            /\ Len(q2) + 1 = Len(pipe) + 3 /\ Len(q2) + 2 = Len(pipe) + 4
            /\ Len(pipe) + 3 \in 1..(Len(q2) + 1) /\ k.kind # "change" /\ p.kind # "change"
        BY <2>2, <2>4, <3>1
      <4>3. ByChange(q2, id, carried[id], r, Len(pipe) + 3)
        BY <2>2, <2>4, <3>1, <4>1, <4>2, KnownAfter DEF q2
      <4>4. ByChange(pipe', id, carried[id], r, Len(pipe) + 3)
        BY <2>2, <3>1, <3>5, <4>2, <4>3, KnownBefore
      <4>5. ByChange(pipe', id, carried[id], r, Len(pipe) + 4)
        BY <2>2, <2>4, <3>1, <3>5, <4>2, <4>3, KnownAfter
      <4>. QED  BY <4>4, <4>5
    <3>7. ASSUME NEW i \in (Len(pipe) + 1)..Len(pipe'), pipe'[i].kind = "packet"
          PROVE  pipe'[i].from = Current /\ KnownAt(pipe', pipe'[i].id, pipe'[i].codec, r, i)
      <4> DEFINE l == Len(pipe)
                 m == Len(pipe')
      <4>1. i = Len(pipe) + 3
        <5>1. l \in Nat /\ m = l + 3 /\ i \in (l + 1)..m
          BY <2>2, <3>4
        <5>2. i # l + 1 /\ i # l + 2
          BY <2>4, <3>4, <3>7
        <5>. HIDE DEF l, m
        <5>3. i = l + 3
          BY <5>1, <5>2
        <5>. QED  BY <5>3 DEF l
      <4>2. ByChange(pipe', n, carried[n], r, Len(pipe) + 3)
        BY <2>4, <3>6
      <4>. QED  BY <2>2, <2>4, <3>4, <4>1, <4>2 DEF KnownAt
    <3>8. ASSUME NEW id \in 1..Len(carried)
          PROVE  KnownAt(pipe', id, carried[id], r, Len(pipe') + 1)
      <4>1. Len(pipe') + 1 = Len(pipe) + 4
        BY <2>2, <3>4
      <4>. QED  BY <3>6, <4>1 DEF KnownAt
    <3>9. \A i \in 1..Len(more) : more[i].kind # "reply"
      BY <2>4, <3>2
    <3>10. Coherent(r)'
      BY <1>0, <2>1, <2>2, <3>2, <3>3, <3>7, <3>8, <3>9, CoherentMore
    <3>11. r \in 0..Len(pipe')
      BY <2>2, <3>4
    <3>. QED  BY <3>10, <3>11
  <2>. QED  BY <1>0, <2>6, <2>7 DEF DemuxTypes
<1>4. CASE SendStreamInfo
  <2>. SUFFICES ASSUME demuxLink' = "open", framed', ~openAsked'
                PROVE  \E r \in 0..Len(pipe') : Coherent(r)'
    BY DEF PipeCoherent
  <2>1. PICK r \in 0..Len(pipe) : Coherent(r)
    BY <1>0, <1>4 DEF SendStreamInfo, Streams, demuxClient, demuxTable, demuxHistory, PipeCoherent
  <2>2. /\ streamed # Untuned /\ streamed = Current
        /\ UNCHANGED <<streamed, demuxClient, demuxTable, aborted, carried>>
        /\ pipe \in Seq(DemuxMessages) /\ Len(pipe) \in Nat /\ r \in Nat
    BY <1>0, <1>4 DEF SendStreamInfo, Streams, demuxClient, demuxTable, demuxHistory, Served, DemuxTypes
  <2>3. PICK info \in 1..2 : pipe' = Append(pipe, Content(info))
    BY <1>4 DEF SendStreamInfo
  <2>. DEFINE m == Content(info)
  <2>4. m \in DemuxMessages /\ m.kind = "content"
    BY <1>0, SentIs DEF DemuxTypes
  <2>. HIDE DEF m
  <2>5. /\ pipe' = pipe \o <<m>> /\ <<m>> \in Seq(DemuxMessages) /\ Len(<<m>>) = 1 /\ <<m>>[1] = m
        /\ Len(pipe') = Len(pipe) + 1 /\ pipe'[Len(pipe) + 1] = m /\ pipe' = Append(pipe, m)
    BY <2>2, <2>3, <2>4 DEF m
  <2>6. \A i \in (Len(pipe) + 1)..Len(pipe') : pipe'[i].kind # "packet"
    BY <2>2, <2>4, <2>5
  <2>7. ASSUME ~changeDue', NEW id \in 1..Len(carried)
        PROVE  KnownAt(pipe', id, carried[id], r, Len(pipe') + 1)
    <3>1. KnownAt(pipe, id, carried[id], r, Len(pipe) + 1)
      BY <1>4, <2>1, <2>2, <2>7 DEF Coherent, SendStreamInfo
    <3>2. Len(pipe') + 1 = Len(pipe) + 2
      BY <2>2, <2>5
    <3>. QED  BY <2>2, <2>4, <2>5, <3>1, <3>2, KnownAfter DEF KnownAt
  <2>8. \A i \in 1..Len(<<m>>) : <<m>>[i].kind # "reply"
    BY <2>4, <2>5
  <2>9. Coherent(r)'
    BY <1>0, <2>1, <2>2, <2>5, <2>6, <2>7, <2>8, CoherentMore
  <2>10. r \in 0..Len(pipe')
    BY <2>2, <2>5
  <2>. QED  BY <2>9, <2>10
<1>5. ASSUME NEW c \in VnsiChannel, OpenDemuxer(c) PROVE PipeCoherent'
  <2>1. ~(demuxLink' = "open" /\ framed' /\ ~openAsked')
    BY <1>0, <1>5 DEF OpenDemuxer, Asks, demuxTable, Answers
  <2>. QED  BY <2>1 DEF PipeCoherent
<1>6. ASSUME NEW c \in VnsiChannel, SwitchDemuxer(c) PROVE PipeCoherent'
  <2>1. ~(demuxLink' = "open" /\ framed' /\ ~openAsked')
    BY <1>0, <1>6 DEF SwitchDemuxer, Asks, demuxTable, demuxHistory, Answers
  <2>. QED  BY <2>1 DEF PipeCoherent
<1>7. CASE Discard
  <2>. SUFFICES ASSUME demuxLink' = "open", framed', ~openAsked'
                PROVE  \E r \in 0..Len(pipe') : Coherent(r)'
    BY DEF PipeCoherent
  <2>1. /\ pipe # <<>> /\ pipe' = Tail(pipe) /\ ~openAsked /\ demuxAt = "switches"
        /\ demuxLink = "open" /\ framed
    BY <1>0, <1>7, HeadIs DEF Discard, demuxClient, demuxTable, demuxServer, demuxHistory, Answers, DemuxTypes, Filling
  <2>2. PICK r \in 0..Len(pipe) : Coherent(r)
    BY <1>0, <2>1 DEF PipeCoherent
  <2>3. /\ Len(pipe) \in Nat \ {0} /\ Len(pipe') = Len(pipe) - 1
        /\ \A i \in 1..(Len(pipe) - 1) : pipe'[i] = pipe[i + 1]
        /\ pipe \in Seq(DemuxMessages) /\ Head(pipe) = pipe[1]
    BY <1>0, <2>1, HeadIs DEF DemuxTypes
  <2>4. r \in 1..Len(pipe)
    <3>1. r > 0
      BY <2>1, <2>2 DEF Coherent
    <3>. QED  BY <2>2, <2>3, <3>1
  <2>5. ASSUME NEW id, NEW codec, NEW i \in (r + 1)..(Len(pipe) + 1),
               KnownAt(pipe, id, codec, r, i)
        PROVE  KnownAt(pipe, id, codec, r - 1, i - 1)'
    <3>1. ByChange(pipe', id, codec, r - 1, i - 1)
      BY <2>1, <2>3, <2>4, <2>5, KnownBehind DEF KnownAt
    <3>. QED  BY <3>1 DEF KnownAt, ByChange
  <2>6. \A i \in 1..Len(pipe') : pipe'[i].kind = "reply" <=> i = r - 1
    <3>. TAKE i \in 1..Len(pipe')
    <3>1. i + 1 \in 1..Len(pipe) /\ pipe'[i] = pipe[i + 1] /\ (i + 1 = r <=> i = r - 1)
      BY <2>3, <2>4
    <3>. QED  BY <2>2, <3>1 DEF Coherent
  <2>7. /\ demuxAt' = demuxAt /\ Current' = Current
        /\ UNCHANGED <<streamed, wanted, carried, changeDue>>
        /\ Head(pipe).kind # "reply"
    BY <1>7 DEF Discard, demuxClient, demuxTable, demuxServer, demuxHistory, Current
  <2>8. r > 1
    BY <2>2, <2>3, <2>4, <2>7 DEF Coherent
  <2>9. ASSUME NEW i \in ((r - 1) + 1)..Len(pipe'), pipe'[i].kind = "packet"
        PROVE  pipe'[i].from = Current /\ KnownAt(pipe, pipe[i].id, pipe[i].codec, r - 1, i)'
    <3>1. /\ i + 1 \in (r + 1)..Len(pipe) /\ pipe'[i] = pipe[i + 1] /\ (i + 1) - 1 = i
          /\ i + 1 \in (r + 1)..(Len(pipe) + 1)
      BY <2>3, <2>4
    <3>2. /\ pipe[i + 1].from = Current
          /\ KnownAt(pipe, pipe[i + 1].id, pipe[i + 1].codec, r, i + 1)
      BY <2>2, <2>9, <3>1 DEF Coherent
    <3>3. PICK m, c : m = pipe[i + 1].id /\ c = pipe[i + 1].codec
      OBVIOUS
    <3>4. KnownAt(pipe, m, c, r - 1, (i + 1) - 1)'
      BY <2>5, <3>1, <3>2, <3>3
    <3>5. KnownAt(pipe, m, c, r - 1, i)'
      BY <3>1, <3>4
    <3>. QED  BY <3>1, <3>2, <3>3, <3>5
  <2>10. ASSUME ~changeDue, streamed # Untuned, NEW id \in 1..Len(carried)
         PROVE  KnownAt(pipe, id, carried[id], r - 1, Len(pipe) + 1)'
    <3>1. KnownAt(pipe, id, carried[id], r, Len(pipe) + 1)
      BY <2>2, <2>10 DEF Coherent
    <3>2. PICK n, c : n = Len(pipe) + 1 /\ c = carried[id]
      OBVIOUS
    <3>3. n \in (r + 1)..(Len(pipe) + 1) /\ n - 1 = Len(pipe') + 1
      BY <2>3, <2>4, <3>2
    <3>4. KnownAt(pipe, id, c, r - 1, n - 1)'
      BY <2>5, <3>1, <3>2, <3>3
    <3>. QED  BY <2>7, <3>2, <3>3, <3>4
  <2>11. r - 1 > 0 => IF pipe'[r - 1].ok THEN streamed = wanted
                      ELSE streamed = Untuned /\ r - 1 = Len(pipe')
    <3>1. r - 1 \in 1..(Len(pipe) - 1) /\ pipe'[r - 1] = pipe[(r - 1) + 1] /\ (r - 1) + 1 = r
      BY <2>3, <2>4, <2>8
    <3>. QED  BY <2>2, <2>3, <2>4, <3>1 DEF Coherent
  <2>12. r - 1 \in 0..Len(pipe') /\ r - 1 > 0
    BY <2>3, <2>4, <2>8
  <2>13. Coherent(r - 1)'
    BY <2>1, <2>6, <2>7, <2>9, <2>10, <2>11, <2>12 DEF Coherent
  <2>. QED  BY <2>12, <2>13
<1>8. CASE SwitchReturns
  <2>. SUFFICES ASSUME demuxLink' = "open", framed', ~openAsked'
                PROVE  \E r \in 0..Len(pipe') : Coherent(r)'
    BY DEF PipeCoherent
  <2>1. /\ pipe # <<>> /\ pipe' = Tail(pipe) /\ ~openAsked /\ demuxAt = "switches"
        /\ demuxLink = "open" /\ framed
    BY <1>0, <1>8, HeadIs DEF SwitchReturns, demuxServer, Answers, DemuxTypes, Filling
  <2>2. PICK r \in 0..Len(pipe) : Coherent(r)
    BY <1>0, <2>1 DEF PipeCoherent
  <2>3. /\ Len(pipe) \in Nat \ {0} /\ Len(pipe') = Len(pipe) - 1
        /\ \A i \in 1..(Len(pipe) - 1) : pipe'[i] = pipe[i + 1]
        /\ pipe \in Seq(DemuxMessages) /\ Head(pipe) = pipe[1]
    BY <1>0, <2>1, HeadIs DEF DemuxTypes
  <2>4. r \in 1..Len(pipe)
    <3>1. r > 0
      BY <2>1, <2>2 DEF Coherent
    <3>. QED  BY <2>2, <2>3, <3>1
  <2>5. ASSUME NEW id, NEW codec, NEW i \in (r + 1)..(Len(pipe) + 1),
               KnownAt(pipe, id, codec, r, i)
        PROVE  KnownAt(pipe, id, codec, r - 1, i - 1)'
    <3>1. ByChange(pipe', id, codec, r - 1, i - 1)
      BY <2>1, <2>3, <2>4, <2>5, KnownBehind DEF KnownAt
    <3>. QED  BY <3>1 DEF KnownAt, ByChange
  <2>6. \A i \in 1..Len(pipe') : pipe'[i].kind = "reply" <=> i = r - 1
    <3>. TAKE i \in 1..Len(pipe')
    <3>1. i + 1 \in 1..Len(pipe) /\ pipe'[i] = pipe[i + 1] /\ (i + 1 = r <=> i = r - 1)
      BY <2>3, <2>4
    <3>. QED  BY <2>2, <3>1 DEF Coherent
  <2>7. Head(pipe).kind = "reply" /\ UNCHANGED <<streamed, wanted, carried, changeDue>>
    BY <1>8 DEF SwitchReturns, demuxServer
  <2>8. r = 1 /\ Len(pipe') \in Nat
    BY <2>2, <2>3, <2>7 DEF Coherent
  <2>9. IF pipe[1].ok THEN streamed = wanted ELSE streamed = Untuned /\ 1 = Len(pipe)
    BY <2>2, <2>8 DEF Coherent
  <2>10. ASSUME NEW i \in (0 + 1)..Len(pipe'), pipe'[i].kind = "packet"
         PROVE  pipe'[i].from = Current' /\ KnownAt(pipe, pipe[i].id, pipe[i].codec, 0, i)'
    <3>1. /\ i + 1 \in (r + 1)..Len(pipe) /\ pipe'[i] = pipe[i + 1] /\ (i + 1) - 1 = i
          /\ i + 1 \in (r + 1)..(Len(pipe) + 1) /\ r - 1 = 0 /\ 1 # Len(pipe)
      BY <2>3, <2>8
    <3>2. /\ pipe[i + 1].from = Current
          /\ KnownAt(pipe, pipe[i + 1].id, pipe[i + 1].codec, r, i + 1)
      BY <2>2, <2>10, <3>1 DEF Coherent
    <3>3. PICK m, c : m = pipe[i + 1].id /\ c = pipe[i + 1].codec
      OBVIOUS
    <3>5. KnownAt(pipe, m, c, r - 1, (i + 1) - 1)'
      BY <2>5, <3>1, <3>2, <3>3
    <3>6. KnownAt(pipe, m, c, 0, i)'
      BY <3>1, <3>5
    <3>4. Current' = wanted /\ Current = wanted
      BY <1>8, <2>1, <2>3, <2>9, <3>1 DEF SwitchReturns, Current
    <3>. QED  BY <3>1, <3>2, <3>3, <3>4, <3>6
  <2>11. ASSUME ~changeDue, streamed # Untuned, NEW id \in 1..Len(carried)
         PROVE  KnownAt(pipe, id, carried[id], 0, Len(pipe) + 1)'
    <3>1. KnownAt(pipe, id, carried[id], r, Len(pipe) + 1)
      BY <2>2, <2>11 DEF Coherent
    <3>2. PICK n, c : n = Len(pipe) + 1 /\ c = carried[id]
      OBVIOUS
    <3>3. n \in (r + 1)..(Len(pipe) + 1) /\ n - 1 = Len(pipe') + 1 /\ r - 1 = 0
      BY <2>3, <2>8, <3>2
    <3>4. KnownAt(pipe, id, c, r - 1, n - 1)'
      BY <2>5, <3>1, <3>2, <3>3
    <3>5. KnownAt(pipe, id, c, 0, n - 1)'
      BY <3>3, <3>4
    <3>. QED  BY <2>7, <3>2, <3>3, <3>5
  <2>12. demuxAt' # "switches"
    BY <1>8 DEF SwitchReturns
  <2>13. Coherent(0)'
    BY <2>6, <2>7, <2>8, <2>10, <2>11, <2>12 DEF Coherent
  <2>. QED  BY <2>8, <2>13
<1>9. CASE ConnectionGivenUp
  <2>1. ~(demuxLink' = "open" /\ framed' /\ ~openAsked')
    BY <1>0, <1>9 DEF ConnectionGivenUp, Gone, demuxTable, demuxHistory, Answers
  <2>. QED  BY <2>1 DEF PipeCoherent
<1>10. CASE CloseDemuxer
  <2>1. ~(demuxLink' = "open" /\ framed' /\ ~openAsked')
    BY <1>0, <1>10 DEF CloseDemuxer, Gone, demuxHistory, Answers
  <2>. QED  BY <2>1 DEF PipeCoherent
<1>11. CASE ReadPacket
  <2>. SUFFICES ASSUME demuxLink' = "open", framed', ~openAsked'
                PROVE  \E r \in 0..Len(pipe') : Coherent(r)'
    BY DEF PipeCoherent
  <2>1. PICK r \in 0..Len(pipe) : Coherent(r)
    BY <1>0, <1>11 DEF ReadPacket, Reads, demuxClient, demuxTable, demuxServer, PipeCoherent
  <2>2. /\ pipe # <<>> /\ pipe' = Tail(pipe) /\ Head(pipe).kind # "change"
        /\ UNCHANGED <<streamed, wanted, channel, changeDue, carried, demuxAt>>
        /\ demuxAt = "idle"
    BY <1>11 DEF ReadPacket, Reads, demuxClient, demuxTable, demuxServer
  <2>3. \A id \in Nat \ {0} : \A codec : Expected(id, codec) => Expected(id, codec)'
    BY <1>11 DEF ReadPacket, Reads, demuxClient, demuxTable, demuxServer, Expected
  <2>4. r = 0
    BY <2>1, <2>2 DEF Coherent
  <2>5. pipe[1].kind # "change" /\ Len(pipe') \in Nat
    BY <1>0, <2>2, HeadIs DEF DemuxTypes
  <2>6. Coherent(0)'
    BY <1>0, <2>1, <2>2, <2>3, <2>4, <2>5, CoherentTaken
  <2>. QED  BY <2>5, <2>6
<1>12. CASE ReadChange
  <2>. SUFFICES ASSUME demuxLink' = "open", framed', ~openAsked'
                PROVE  \E r \in 0..Len(pipe') : Coherent(r)'
    BY DEF PipeCoherent
  <2>1. /\ pipe # <<>> /\ pipe' = Tail(pipe) /\ Head(pipe).kind = "change"
        /\ UNCHANGED <<streamed, wanted, channel, changeDue, carried, demuxLink, openAsked, framed>>
        /\ demuxAt = "idle" /\ demuxAt' = "fills"
        /\ count' = 0 /\ rest' = Head(pipe).entries
    BY <1>12 DEF ReadChange, Reads, demuxServer
  <2>2. PICK r \in 0..Len(pipe) : Coherent(r)
    BY <1>0, <2>1 DEF PipeCoherent
  <2>3. /\ Len(pipe) \in Nat \ {0} /\ Len(pipe') = Len(pipe) - 1 /\ Len(pipe') \in Nat
        /\ \A i \in 1..(Len(pipe) - 1) : pipe'[i] = pipe[i + 1]
        /\ pipe \in Seq(DemuxMessages) /\ Head(pipe) = pipe[1] /\ pipe[1] \in DemuxMessages
    BY <1>0, <2>1, HeadIs DEF DemuxTypes
  <2>4. r = 0
    BY <2>1, <2>2 DEF Coherent
  <2>5. ASSUME NEW id, NEW codec, NEW i \in 2..(Len(pipe) + 1), KnownAt(pipe, id, codec, 0, i)
        PROVE  KnownAt(pipe, id, codec, 0, i - 1)'
    <3>1. \/ ByChange(pipe', id, codec, 0, i - 1)
          \/ /\ NoChange(pipe', 0, i - 1)
             /\ id \in 1..Len(pipe[1].entries) /\ pipe[1].entries[id].codec = codec
      BY <2>1, <2>3, <2>5, KnownNext DEF KnownAt
    <3>2. ASSUME id \in 1..Len(pipe[1].entries), pipe[1].entries[id].codec = codec
          PROVE  Expected(id, codec)'
      <4>1. rest' = pipe[1].entries /\ Len(rest') \in Nat
        BY <2>1, <2>3, MessageIs DEF Entries
      <4>2. id \in (count' + 1)..(count' + Len(rest')) /\ id - count' = id
        BY <2>1, <3>2, <4>1
      <4>. QED  BY <3>2, <4>1, <4>2 DEF Expected
    <3>. QED  BY <3>1, <3>2 DEF KnownAt, ByChange, NoChange
  <2>6. \A i \in 1..Len(pipe') : pipe'[i].kind # "reply" /\ i # 0
    <3>. TAKE i \in 1..Len(pipe')
    <3>1. i + 1 \in 1..Len(pipe) /\ pipe'[i] = pipe[i + 1] /\ i + 1 # 0
      BY <2>3
    <3>. QED  BY <2>2, <2>4, <3>1 DEF Coherent
  <2>7. Current' = Current
    BY <2>1 DEF Current
  <2>8. ASSUME NEW i \in (0 + 1)..Len(pipe'), pipe'[i].kind = "packet"
        PROVE  pipe'[i].from = Current /\ KnownAt(pipe, pipe[i].id, pipe[i].codec, 0, i)'
    <3>1. /\ i + 1 \in (0 + 1)..Len(pipe) /\ pipe'[i] = pipe[i + 1] /\ (i + 1) - 1 = i
          /\ i + 1 \in 2..(Len(pipe) + 1)
      BY <2>3
    <3>2. /\ pipe[i + 1].from = Current
          /\ KnownAt(pipe, pipe[i + 1].id, pipe[i + 1].codec, 0, i + 1)
      BY <2>2, <2>4, <2>8, <3>1 DEF Coherent
    <3>3. PICK m, c : m = pipe[i + 1].id /\ c = pipe[i + 1].codec
      OBVIOUS
    <3>4. KnownAt(pipe, m, c, 0, (i + 1) - 1)'
      BY <2>5, <3>1, <3>2, <3>3
    <3>5. KnownAt(pipe, m, c, 0, i)'
      BY <3>1, <3>4
    <3>. QED  BY <3>1, <3>2, <3>3, <3>5
  <2>9. ASSUME ~changeDue, streamed # Untuned, NEW id \in 1..Len(carried)
        PROVE  KnownAt(pipe, id, carried[id], 0, Len(pipe) + 1)'
    <3>1. KnownAt(pipe, id, carried[id], 0, Len(pipe) + 1)
      BY <2>2, <2>4, <2>9 DEF Coherent
    <3>2. PICK n, c : n = Len(pipe) + 1 /\ c = carried[id]
      OBVIOUS
    <3>3. n \in 2..(Len(pipe) + 1) /\ n - 1 = Len(pipe') + 1
      BY <2>3, <3>2
    <3>4. KnownAt(pipe, id, c, 0, n - 1)'
      BY <2>5, <3>1, <3>2, <3>3
    <3>. QED  BY <2>1, <3>2, <3>3, <3>4
  <2>10. Coherent(0)'
    BY <2>1, <2>6, <2>7, <2>8, <2>9 DEF Coherent
  <2>. QED  BY <2>3, <2>10
<1>13. CASE FillEntry
  <2>. SUFFICES ASSUME demuxLink' = "open", framed', ~openAsked'
                PROVE  \E r \in 0..Len(pipe') : Coherent(r)'
    BY DEF PipeCoherent
  <2>1. PICK r \in 0..Len(pipe) : Coherent(r)
    BY <1>0, <1>13 DEF FillEntry, At, demuxServer, demuxHistory, PipeCoherent
  <2>2. /\ UNCHANGED <<pipe, streamed, wanted, channel, changeDue, carried>>
        /\ demuxAt' = "switches" <=> demuxAt = "switches"
    BY <1>13 DEF FillEntry, At, demuxServer, demuxHistory
  <2>3. ASSUME NEW id \in Nat \ {0}, NEW codec, Expected(id, codec)
        PROVE  Expected(id, codec)'
    <3>1. UNCHANGED <<count, rest, aborted>>
      BY <1>13 DEF FillEntry, At, demuxServer, demuxHistory
    <3>2. \A i \in 1..count : slots'[i] = slots[i]
      BY <1>0, <1>13, FillIs, EntriesMax DEF DemuxTypes
    <3>. QED  BY <2>3, <3>1, <3>2 DEF Expected
  <2>4. Coherent(r)'
    BY <1>0, <2>1, <2>2, <2>3, CoherentQuiet
  <2>. QED  BY <2>2, <2>4
<1>14. CASE WriteCodec
  <2>. SUFFICES ASSUME demuxLink' = "open", framed', ~openAsked'
                PROVE  \E r \in 0..Len(pipe') : Coherent(r)'
    BY DEF PipeCoherent
  <2>1. PICK r \in 0..Len(pipe) : Coherent(r)
    BY <1>0, <1>14 DEF WriteCodec, At, demuxServer, demuxHistory, PipeCoherent
  <2>2. /\ UNCHANGED <<pipe, streamed, wanted, channel, changeDue, carried>>
        /\ demuxAt' = "switches" <=> demuxAt = "switches"
    BY <1>14 DEF WriteCodec, At, demuxServer, demuxHistory
  <2>3. ASSUME NEW id \in Nat \ {0}, NEW codec, Expected(id, codec)
        PROVE  Expected(id, codec)'
    <3>1. UNCHANGED <<count, rest, aborted>>
      BY <1>14 DEF WriteCodec, At, demuxServer, demuxHistory
    <3>2. \A i \in 1..count : slots'[i] = slots[i]
      BY <1>0, <1>14, CodecIs, EntriesMax DEF DemuxTypes
    <3>. QED  BY <2>3, <3>1, <3>2 DEF Expected
  <2>4. Coherent(r)'
    BY <1>0, <2>1, <2>2, <2>3, CoherentQuiet
  <2>. QED  BY <2>2, <2>4
<1>15. CASE CountEntry
  <2>. SUFFICES ASSUME demuxLink' = "open", framed', ~openAsked'
                PROVE  \E r \in 0..Len(pipe') : Coherent(r)'
    BY DEF PipeCoherent
  <2>1. PICK r \in 0..Len(pipe) : Coherent(r)
    BY <1>0, <1>15 DEF CountEntry, At, demuxServer, demuxHistory, PipeCoherent
  <2>2. /\ UNCHANGED <<pipe, streamed, wanted, channel, changeDue, carried>>
        /\ demuxAt' = "switches" <=> demuxAt = "switches"
    BY <1>15 DEF CountEntry, At, demuxServer, demuxHistory
  <2>3. ASSUME NEW id \in Nat \ {0}, NEW codec, Expected(id, codec)
        PROVE  Expected(id, codec)'
    <3>1. /\ UNCHANGED <<slots, aborted>> /\ count' = count + 1 /\ rest' = Tail(rest)
          /\ demuxAt = "counts" /\ rest # <<>> /\ rest \in Entries /\ count \in Nat
      BY <1>0, <1>15, EntriesMax DEF CountEntry, At, demuxServer, demuxHistory, Filling, DemuxTypes
    <3>2. /\ Len(rest) \in Nat \ {0} /\ Len(rest') = Len(rest) - 1
          /\ \A i \in 1..(Len(rest) - 1) : rest'[i] = rest[i + 1]
      BY <3>1, EntryIs
    <3>3. CASE ~aborted /\ id \in (count + 1)..(count + Len(rest)) /\ rest[id - count].codec = codec
      <4>1. CASE id = count + 1
        <5>1. id - count = 1 /\ id \in 1..count'
          BY <3>1, <4>1
        <5>2. slots[count + 1].codec = rest[1].codec
          BY <1>0, <3>1, <3>3 DEF Placed
        <5>. QED  BY <3>1, <3>3, <4>1, <5>1, <5>2 DEF Expected
      <4>2. CASE id # count + 1
        <5>1. /\ id \in (count' + 1)..(count' + Len(rest'))
              /\ id - count' \in 1..(Len(rest) - 1) /\ (id - count') + 1 = id - count
          BY <3>1, <3>2, <3>3, <4>2
        <5>2. rest'[id - count'] = rest[id - count]
          BY <3>2, <5>1
        <5>. QED  BY <3>3, <5>1, <5>2 DEF Expected
      <4>. QED  BY <4>1, <4>2
    <3>4. CASE id \in 1..count /\ slots[id].codec = codec
      BY <3>1, <3>4 DEF Expected
    <3>5. CASE aborted \/ id > MaxEntries
      BY <3>1, <3>5 DEF Expected
    <3>. QED  BY <2>3, <3>3, <3>4, <3>5 DEF Expected
  <2>4. Coherent(r)'
    BY <1>0, <2>1, <2>2, <2>3, CoherentQuiet
  <2>. QED  BY <2>2, <2>4
<1>16. CASE StreamChanged
  <2>. SUFFICES ASSUME demuxLink' = "open", framed', ~openAsked'
                PROVE  \E r \in 0..Len(pipe') : Coherent(r)'
    BY DEF PipeCoherent
  <2>1. PICK r \in 0..Len(pipe) : Coherent(r)
    BY <1>0, <1>16 DEF StreamChanged, At, demuxServer, demuxHistory, PipeCoherent
  <2>2. /\ UNCHANGED <<pipe, streamed, wanted, channel, changeDue, carried>>
        /\ demuxAt' = "switches" <=> demuxAt = "switches"
    BY <1>16 DEF StreamChanged, At, demuxServer, demuxHistory
  <2>3. ASSUME NEW id \in Nat \ {0}, NEW codec, Expected(id, codec)
        PROVE  Expected(id, codec)'
    <3>1. /\ UNCHANGED <<slots, count, aborted>>
          /\ rest = <<>> \/ count = MaxEntries
          /\ rest \in Entries /\ count \in Nat
      BY <1>0, <1>16, EntriesMax DEF StreamChanged, At, demuxServer, demuxHistory, DemuxTypes
    <3>2. id \in (count + 1)..(count + Len(rest)) => id > MaxEntries
      BY <3>1, EntriesMax DEF Entries
    <3>. QED  BY <2>3, <3>1, <3>2 DEF Expected
  <2>4. Coherent(r)'
    BY <1>0, <2>1, <2>2, <2>3, CoherentQuiet
  <2>. QED  BY <2>2, <2>4
<1>17. CASE GetStreamProperties
  <2>. SUFFICES ASSUME demuxLink' = "open", framed', ~openAsked'
                PROVE  \E r \in 0..Len(pipe') : Coherent(r)'
    BY DEF PipeCoherent
  <2>1. PICK r \in 0..Len(pipe) : Coherent(r)
    BY <1>0, <1>17 DEF GetStreamProperties, At, demuxServer, demuxHistory, PipeCoherent
  <2>2. /\ UNCHANGED <<pipe, streamed, wanted, channel, changeDue, carried>>
        /\ demuxAt' = "switches" <=> demuxAt = "switches"
    BY <1>17 DEF GetStreamProperties, At, demuxServer, demuxHistory
  <2>3. \A id \in Nat \ {0} : \A codec : Expected(id, codec) => Expected(id, codec)'
    BY <1>17 DEF GetStreamProperties, At, demuxServer, demuxHistory, Expected
  <2>4. Coherent(r)'
    BY <1>0, <2>1, <2>2, <2>3, CoherentQuiet
  <2>. QED  BY <2>2, <2>4
<1>18. CASE ReadContent
  <2>. SUFFICES ASSUME demuxLink' = "open", framed', ~openAsked'
                PROVE  \E r \in 0..Len(pipe') : Coherent(r)'
    BY DEF PipeCoherent
  <2>1. PICK r \in 0..Len(pipe) : Coherent(r)
    BY <1>0, <1>18 DEF ReadContent, Reads, demuxClient, demuxServer, demuxHistory, PipeCoherent
  <2>2. /\ pipe # <<>> /\ pipe' = Tail(pipe) /\ Head(pipe).kind # "change"
        /\ UNCHANGED <<streamed, wanted, channel, changeDue, carried, demuxAt>>
        /\ demuxAt = "idle"
    BY <1>18 DEF ReadContent, Reads, demuxClient, demuxServer, demuxHistory
  <2>3. ASSUME NEW id \in Nat \ {0}, NEW codec, Expected(id, codec)
        PROVE  Expected(id, codec)'
    <3>1. UNCHANGED <<count, rest, aborted>>
      BY <1>18 DEF ReadContent, Reads, demuxClient, demuxServer, demuxHistory
    <3>2. \A i \in 1..count : slots'[i].codec = slots[i].codec
      BY <1>0, <1>18, ContentIs, EntriesMax DEF DemuxTypes
    <3>. QED  BY <2>3, <3>1, <3>2 DEF Expected
  <2>4. r = 0
    BY <2>1, <2>2 DEF Coherent
  <2>5. pipe[1].kind # "change" /\ Len(pipe') \in Nat
    BY <1>0, <2>2, HeadIs DEF DemuxTypes
  <2>6. Coherent(0)'
    BY <1>0, <2>1, <2>2, <2>3, <2>4, <2>5, CoherentTaken
  <2>. QED  BY <2>5, <2>6
<1>19. CASE ReadFails
  <2>1. ~(demuxLink' = "open" /\ framed' /\ ~openAsked')
    BY <1>0, <1>19 DEF ReadFails, Gone, demuxTable, demuxHistory, Answers
  <2>. QED  BY <2>1 DEF PipeCoherent
<1>20. CASE ReadStalls
  <2>1. ~(demuxLink' = "open" /\ framed' /\ ~openAsked')
    BY <1>0, <1>20 DEF ReadStalls, demuxClient, demuxTable, demuxServer, demuxHistory, Answers
  <2>. QED  BY <2>1 DEF PipeCoherent
<1>21. CASE Abort
  <2>. SUFFICES ASSUME demuxLink' = "open", framed', ~openAsked'
                PROVE  \E r \in 0..Len(pipe') : Coherent(r)'
    BY DEF PipeCoherent
  <2>1. PICK r \in 0..Len(pipe) : Coherent(r)
    BY <1>0, <1>21 DEF Abort, demuxClient, demuxServer, PipeCoherent
  <2>2. /\ UNCHANGED <<pipe, streamed, wanted, channel, changeDue, carried>>
        /\ demuxAt' = "switches" <=> demuxAt = "switches"
    BY <1>21 DEF Abort, demuxClient, demuxServer
  <2>3. \A id \in Nat \ {0} : \A codec : Expected(id, codec) => Expected(id, codec)'
    BY <1>21 DEF Abort, demuxClient, demuxServer, Expected
  <2>4. Coherent(r)'
    BY <1>0, <2>1, <2>2, <2>3, CoherentQuiet
  <2>. QED  BY <2>2, <2>4
<1>22. CASE UNCHANGED vnsiDemuxVars
  <2>. SUFFICES ASSUME demuxLink' = "open", framed', ~openAsked'
                PROVE  \E r \in 0..Len(pipe') : Coherent(r)'
    BY DEF PipeCoherent
  <2>1. PICK r \in 0..Len(pipe) : Coherent(r)
    BY <1>0, <1>22 DEF vnsiDemuxVars, demuxClient, demuxTable, demuxServer, demuxHistory, PipeCoherent
  <2>2. /\ UNCHANGED <<pipe, streamed, wanted, channel, changeDue, carried>>
        /\ demuxAt' = "switches" <=> demuxAt = "switches"
    BY <1>22 DEF vnsiDemuxVars, demuxClient, demuxTable, demuxServer, demuxHistory
  <2>3. \A id \in Nat \ {0} : \A codec : Expected(id, codec) => Expected(id, codec)'
    BY <1>22 DEF vnsiDemuxVars, demuxClient, demuxTable, demuxServer, demuxHistory, Expected
  <2>4. Coherent(r)'
    BY <1>0, <2>1, <2>2, <2>3, CoherentQuiet
  <2>. QED  BY <2>2, <2>4
<1>. QED  BY <1>1, <1>2, <1>3, <1>4, <1>5, <1>6, <1>7, <1>8, <1>9, <1>10, <1>11,
             <1>12, <1>13, <1>14, <1>15, <1>16, <1>17, <1>18, <1>19, <1>20, <1>21, <1>22 DEF VNSIDemuxNext

(* What the player has been told is what is in the table, or it has not    *)
(* looked yet.                                                             *)
LEMMA ViewKept == DemuxInv /\ [VNSIDemuxNext]_vnsiDemuxVars => ViewCurrent'
<1>. SUFFICES ASSUME DemuxInv, [VNSIDemuxNext]_vnsiDemuxVars PROVE ViewCurrent'
  OBVIOUS
<1>0. DemuxTypes /\ Filling /\ ViewCurrent
  BY DEF DemuxInv
<1>1. CASE ServeOpen
  BY <1>0, <1>1 DEF ServeOpen, demuxClient, demuxTable, demuxHistory, ViewCurrent, Table
<1>2. CASE NewProgrammeMap
  BY <1>0, <1>2 DEF NewProgrammeMap, Streams, demuxClient, demuxTable, demuxHistory, ViewCurrent, Table
<1>3. CASE SendPacket
  BY <1>0, <1>3 DEF SendPacket, Streams, demuxClient, demuxTable, demuxHistory, ViewCurrent, Table
<1>4. CASE SendStreamInfo
  BY <1>0, <1>4 DEF SendStreamInfo, Streams, demuxClient, demuxTable, demuxHistory, ViewCurrent, Table
<1>5. ASSUME NEW c \in VnsiChannel, OpenDemuxer(c) PROVE ViewCurrent'
  BY <1>0, <1>5 DEF OpenDemuxer, Asks, demuxTable, ViewCurrent, Table
<1>6. ASSUME NEW c \in VnsiChannel, SwitchDemuxer(c) PROVE ViewCurrent'
  BY <1>0, <1>6 DEF SwitchDemuxer, Asks, demuxTable, demuxHistory, ViewCurrent, Table
<1>7. CASE Discard
  BY <1>0, <1>7 DEF Discard, demuxClient, demuxTable, demuxServer, demuxHistory, ViewCurrent, Table
<1>8. CASE SwitchReturns
  BY <1>0, <1>8 DEF SwitchReturns, demuxServer, ViewCurrent, Table
<1>9. CASE ConnectionGivenUp
  BY <1>0, <1>9 DEF ConnectionGivenUp, Gone, demuxTable, demuxHistory, ViewCurrent, Table
<1>10. CASE CloseDemuxer
  BY <1>0, <1>10 DEF CloseDemuxer, Gone, demuxHistory, ViewCurrent, Table
<1>11. CASE ReadPacket
  BY <1>0, <1>11 DEF ReadPacket, Reads, demuxClient, demuxTable, demuxServer, ViewCurrent, Table
<1>12. CASE ReadChange
  BY <1>0, <1>12 DEF ReadChange, Reads, demuxServer, ViewCurrent, Table
<1>13. CASE FillEntry
  BY <1>0, <1>13 DEF FillEntry, At, demuxServer, demuxHistory, ViewCurrent, Table
<1>14. CASE WriteCodec
  BY <1>0, <1>14 DEF WriteCodec, At, demuxServer, demuxHistory, ViewCurrent, Table
<1>15. CASE CountEntry
  BY <1>0, <1>15 DEF CountEntry, At, demuxServer, demuxHistory, ViewCurrent, Table
<1>16. CASE StreamChanged
  BY <1>0, <1>16 DEF StreamChanged, At, demuxServer, demuxHistory, ViewCurrent, Table
<1>17. CASE GetStreamProperties
  BY <1>0, <1>17 DEF GetStreamProperties, At, demuxServer, demuxHistory, ViewCurrent, Table
<1>18. CASE ReadContent
  <2>1. /\ demuxAt = "idle" /\ demuxLink = "open" /\ UNCHANGED <<demuxAt, demuxLink, count, aborted>>
        /\ view' = IF slots' # slots THEN [i \in 1..count |-> slots'[i]] ELSE view
    BY <1>18 DEF ReadContent, Reads, demuxClient, demuxServer, demuxHistory
  <2>. QED  BY <1>0, <2>1 DEF ViewCurrent, Table
<1>19. CASE ReadFails
  BY <1>0, <1>19 DEF ReadFails, Gone, demuxTable, demuxHistory, ViewCurrent, Table
<1>20. CASE ReadStalls
  BY <1>0, <1>20 DEF ReadStalls, demuxClient, demuxTable, demuxServer, demuxHistory, ViewCurrent, Table
<1>21. CASE Abort
  BY <1>0, <1>21 DEF Abort, demuxClient, demuxServer, ViewCurrent
<1>22. CASE UNCHANGED vnsiDemuxVars
  BY <1>0, <1>22 DEF vnsiDemuxVars, demuxClient, demuxTable, demuxServer, demuxHistory, ViewCurrent, Table
<1>. QED  BY <1>1, <1>2, <1>3, <1>4, <1>5, <1>6, <1>7, <1>8, <1>9, <1>10, <1>11,
             <1>12, <1>13, <1>14, <1>15, <1>16, <1>17, <1>18, <1>19, <1>20, <1>21, <1>22 DEF VNSIDemuxNext

(* The packet handed out is of the current channel, in the table, and the  *)
(* player has heard of it.                                                 *)
LEMMA PacketsKept == DemuxInv /\ [VNSIDemuxNext]_vnsiDemuxVars => (PacketsPlaced /\ StreamsHeardOf)'
<1>. SUFFICES ASSUME DemuxInv, [VNSIDemuxNext]_vnsiDemuxVars PROVE (PacketsPlaced /\ StreamsHeardOf)'
  OBVIOUS
<1>0. DemuxTypes /\ Filling /\ Placed /\ Answers /\ PipeCoherent /\ ViewCurrent
      /\ PacketsPlaced /\ StreamsHeardOf
  BY DEF DemuxInv
<1>1. CASE ServeOpen
  BY <1>0, <1>1 DEF ServeOpen, demuxClient, demuxTable, demuxHistory, PacketsPlaced, StreamsHeardOf
<1>2. CASE NewProgrammeMap
  BY <1>0, <1>2 DEF NewProgrammeMap, Streams, demuxClient, demuxTable, demuxHistory, PacketsPlaced, StreamsHeardOf
<1>3. CASE SendPacket
  BY <1>0, <1>3 DEF SendPacket, Streams, demuxClient, demuxTable, demuxHistory, PacketsPlaced, StreamsHeardOf
<1>4. CASE SendStreamInfo
  BY <1>0, <1>4 DEF SendStreamInfo, Streams, demuxClient, demuxTable, demuxHistory, PacketsPlaced, StreamsHeardOf
<1>5. ASSUME NEW c \in VnsiChannel, OpenDemuxer(c) PROVE (PacketsPlaced /\ StreamsHeardOf)'
  BY <1>0, <1>5 DEF OpenDemuxer, Asks, demuxTable, PacketsPlaced, StreamsHeardOf
<1>6. ASSUME NEW c \in VnsiChannel, SwitchDemuxer(c) PROVE (PacketsPlaced /\ StreamsHeardOf)'
  BY <1>0, <1>6 DEF SwitchDemuxer, Asks, demuxTable, demuxHistory, PacketsPlaced, StreamsHeardOf
<1>7. CASE Discard
  BY <1>0, <1>7 DEF Discard, demuxClient, demuxTable, demuxServer, demuxHistory, PacketsPlaced, StreamsHeardOf
<1>8. CASE SwitchReturns
  BY <1>0, <1>8 DEF SwitchReturns, demuxServer, PacketsPlaced, StreamsHeardOf
<1>9. CASE ConnectionGivenUp
  BY <1>0, <1>9 DEF ConnectionGivenUp, Gone, demuxTable, demuxHistory, PacketsPlaced, StreamsHeardOf
<1>10. CASE CloseDemuxer
  BY <1>0, <1>10 DEF CloseDemuxer, Gone, demuxHistory, PacketsPlaced, StreamsHeardOf
<1>11. CASE ReadPacket
  <2>. DEFINE p == Head(pipe)
  <2>1. /\ demuxAt = "idle" /\ demuxLink = "open" /\ framed /\ ~openAsked
        /\ pipe # <<>> /\ p.kind = "packet" /\ rest = <<>> /\ p = pipe[1]
        /\ 1 \in 1..Len(pipe) /\ p.id \in Nat \ {0}
    BY <1>0, <1>11, HeadIs, MessageIs DEF ReadPacket, Reads, demuxClient, demuxTable, demuxServer, Answers, Filling, DemuxTypes
  <2>2. PICK r \in 0..Len(pipe) : Coherent(r)
    BY <1>0, <2>1 DEF PipeCoherent
  <2>3. r = 0 /\ 1 \in (r + 1)..Len(pipe)
    BY <2>1, <2>2 DEF Coherent
  <2>4. p.from = channel /\ KnownAt(pipe, p.id, p.codec, r, 1)
    BY <2>1, <2>2, <2>3 DEF Coherent, Current
  <2>5. ~ByChange(pipe, p.id, p.codec, r, 1)
    BY <2>3 DEF ByChange
  <2>6. Expected(p.id, p.codec)
    BY <2>4, <2>5 DEF KnownAt
  <2>7. CASE aborted
    BY <1>0, <1>11, <2>7 DEF ReadPacket, PacketsPlaced, StreamsHeardOf
  <2>8. CASE ~aborted
    <3>1. /\ count \in 0..MaxEntries /\ \A i \in 1..count : slots[i].id = i
          /\ Len(rest) = 0
      BY <1>0, <2>1, <2>8 DEF DemuxTypes, Placed
    <3>2. CASE p.id > MaxEntries
      <4>1. StreamFound(p.id) = {}
        BY <2>1, <3>1, <3>2, EntriesMax DEF StreamFound
      <4>2. UNCHANGED misnumbered /\ unknown' = (unknown \/ (~aborted /\ p.id <= MaxEntries))
        BY <1>11, <4>1 DEF ReadPacket
      <4>3. ~(p.id <= MaxEntries)
        BY <2>1, <3>2, EntriesMax
      <4>. QED  BY <1>0, <4>2, <4>3 DEF PacketsPlaced, StreamsHeardOf
    <3>3. CASE ~(p.id > MaxEntries)
      <4>1. p.id \in 1..count /\ slots[p.id].codec = p.codec
        BY <2>1, <2>6, <2>8, <3>1, <3>3 DEF Expected
      <4>2. StreamFound(p.id) = {p.id} /\ slots[p.id].id = p.id
        BY <3>1, <4>1 DEF StreamFound
      <4>3. Min({p.id}) = p.id
        BY <2>1 DEF Min
      <4>4. view = [i \in 1..count |-> slots[i]]
        BY <1>0, <2>1, <2>8, <3>1, <4>1 DEF ViewCurrent, Table
      <4>5. Len(view) = count /\ view[p.id] = slots[p.id] /\ p.id <= count
        BY <3>1, <4>1, <4>4, EntriesMax
      <4>6. UNCHANGED unknown
            /\ misnumbered' = (misnumbered \/
                 (~aborted /\ ~(/\ p.id <= Len(view) /\ view[p.id].id = p.id
                                /\ view[p.id].codec = p.codec /\ p.from = channel)))
        <5>1. StreamFound(p.id) # {} /\ Min(StreamFound(p.id)) = p.id
          BY <4>2, <4>3
        <5>. HIDE DEF p
        <5>. QED  BY <1>11, <5>1 DEF ReadPacket, p
      <4>7. ~misnumbered'
        BY <1>0, <2>4, <4>1, <4>2, <4>5, <4>6 DEF PacketsPlaced
      <4>. QED  BY <1>0, <4>6, <4>7 DEF PacketsPlaced, StreamsHeardOf
    <3>. QED  BY <3>2, <3>3
  <2>. QED  BY <1>0, <2>7, <2>8 DEF DemuxTypes
<1>12. CASE ReadChange
  BY <1>0, <1>12 DEF ReadChange, Reads, demuxServer, PacketsPlaced, StreamsHeardOf
<1>13. CASE FillEntry
  BY <1>0, <1>13 DEF FillEntry, At, demuxServer, demuxHistory, PacketsPlaced, StreamsHeardOf
<1>14. CASE WriteCodec
  BY <1>0, <1>14 DEF WriteCodec, At, demuxServer, demuxHistory, PacketsPlaced, StreamsHeardOf
<1>15. CASE CountEntry
  BY <1>0, <1>15 DEF CountEntry, At, demuxServer, demuxHistory, PacketsPlaced, StreamsHeardOf
<1>16. CASE StreamChanged
  BY <1>0, <1>16 DEF StreamChanged, At, demuxServer, demuxHistory, PacketsPlaced, StreamsHeardOf
<1>17. CASE GetStreamProperties
  BY <1>0, <1>17 DEF GetStreamProperties, At, demuxServer, demuxHistory, PacketsPlaced, StreamsHeardOf
<1>18. CASE ReadContent
  BY <1>0, <1>18 DEF ReadContent, Reads, demuxClient, demuxServer, demuxHistory, PacketsPlaced, StreamsHeardOf
<1>19. CASE ReadFails
  BY <1>0, <1>19 DEF ReadFails, Gone, demuxTable, demuxHistory, PacketsPlaced, StreamsHeardOf
<1>20. CASE ReadStalls
  BY <1>0, <1>20 DEF ReadStalls, demuxClient, demuxTable, demuxServer, demuxHistory, PacketsPlaced, StreamsHeardOf
<1>21. CASE Abort
  BY <1>0, <1>21 DEF Abort, demuxClient, demuxServer, PacketsPlaced, StreamsHeardOf
<1>22. CASE UNCHANGED vnsiDemuxVars
  BY <1>0, <1>22 DEF vnsiDemuxVars, demuxClient, demuxTable, demuxServer, demuxHistory, PacketsPlaced, StreamsHeardOf
<1>. QED  BY <1>1, <1>2, <1>3, <1>4, <1>5, <1>6, <1>7, <1>8, <1>9, <1>10, <1>11,
             <1>12, <1>13, <1>14, <1>15, <1>16, <1>17, <1>18, <1>19, <1>20, <1>21, <1>22 DEF VNSIDemuxNext

(* Every packet is the player's under the right number, of the channel     *)
(* asked for last, whatever is switched, aborted or broken off.            *)
THEOREM StreamsFollow == VNSIDemuxSpec => []DemuxFollows
<1>1. VNSIDemuxInit => DemuxInv
  <2>. SUFFICES ASSUME VNSIDemuxInit PROVE DemuxInv
    OBVIOUS
  <2>1. [i \in 1..MaxEntries |-> NoEntry] \in Slots
    <3>1. NoEntry \in [id : Nat, codec : Codecs, info : Nat]
      BY DEF NoEntry, Codecs
    <3>. QED  BY <3>1 DEF Slots
  <2>2. DemuxTypes
    <3>1. /\ slots \in Slots /\ count \in 0..MaxEntries
          /\ rest = <<>> /\ pipe = <<>> /\ carried = <<>> /\ streamed = Untuned
          /\ demuxLink = "closed" /\ demuxAt = "idle"
          /\ openAsked = FALSE /\ changeDue = FALSE /\ framed = TRUE /\ aborted = FALSE
      BY <2>1, EntriesMax DEF VNSIDemuxInit
    <3>2. <<>> \in Entries /\ <<>> \in Seq(DemuxMessages) /\ <<>> \in Seq(STRING)
      BY DEF Entries
    <3>. QED  BY <3>1, <3>2 DEF DemuxTypes
  <2>3. Len(<<>>) = 0 /\ 1..0 = {}
    OBVIOUS
  <2>4. Filling /\ Answers /\ ViewCurrent /\ PacketsPlaced /\ StreamsHeardOf
    BY <2>3 DEF VNSIDemuxInit, Filling, Answers, ViewCurrent, PacketsPlaced, StreamsHeardOf
  <2>5. Placed /\ Served /\ PipeCoherent
    BY <2>3 DEF VNSIDemuxInit, Placed, Served, Numbered, PipeCoherent
  <2>. QED  BY <2>2, <2>4, <2>5 DEF DemuxInv
<1>2. DemuxInv /\ [VNSIDemuxNext]_vnsiDemuxVars => DemuxInv'
  BY DemuxTypesKept, FillingKept, PlacedKept, AnswersKept, ServedKept, PipeCoherentKept, ViewKept,
     PacketsKept DEF DemuxInv
<1>3. DemuxInv => DemuxFollows
  <2>. SUFFICES ASSUME DemuxInv PROVE DemuxFollows
    OBVIOUS
  <2>1. NoLateAnswer
    <3>1. DOMAIN pipe = 1..Len(pipe)
      BY DEF DemuxInv, DemuxTypes
    <3>. QED  BY <3>1 DEF DemuxInv, Answers, NoLateAnswer
  <2>2. ChannelFollowed
    BY DEF DemuxInv, Answers, Served, Current, ChannelFollowed
  <2>. QED  BY <2>1, <2>2 DEF DemuxInv, DemuxFollows
<1>. QED  BY <1>1, <1>2, <1>3, PTL DEF VNSIDemuxSpec

-----------------------------------------------------------------------------
(* VNSIRecording                                                           *)

(* The size of a file, and a byte of a recording.                          *)
Sizes == Nat \ {0}
Bytes == Nat \X Nat

(* The inductive invariant: the types,                                     *)
RecordingTypes ==
  /\ recFiles \in Seq(Sizes) /\ recFiles # <<>>
  /\ segments \in Seq(Sizes)
  /\ deleted \in BOOLEAN /\ recPos \in Nat /\ recLength \in Nat

(* a scan saw files that have only grown since,                            *)
Scanned ==
  /\ Len(segments) <= Len(recFiles)
  /\ \A i \in 1..Len(segments) : segments[i] <= recFiles[i]

(* and the last of them alone, unless a new one came up during the scan;   *)
SizesKnown == ~torn => \A i \in 1..(Len(segments) - 1) : segments[i] = recFiles[i]

(* and the client was told the length that was scanned.                    *)
LengthKnown == playClientAt = "open" => playerAt = "ready" /\ recLength = Total(segments)

(* (All but the client's part.)                                            *)
FilesKnown == RecordingTypes /\ Scanned /\ SizesKnown

RecordingInv == FilesKnown /\ LengthKnown /\ RecordingRead

(* A place in the recording is in one of the segments.                     *)
LEMMA SegmentIs ==
  ASSUME FilesKnown, NEW p \in Nat, p < Total(segments)
  PROVE  \E i \in 1..Len(segments) :
           /\ i \in SegmentsWith(p) /\ \A m \in SegmentsWith(p) : i <= m
<1>1. Len(segments) \in Nat /\ NumbersTo(segments, Len(segments)) /\ DOMAIN segments = 1..Len(segments)
  BY DEF FilesKnown, RecordingTypes, NumbersTo, Sizes
<1>2. PICK i \in 1..Len(segments) : SumTo(segments, i - 1) <= p /\ p < SumTo(segments, i)
                                 /\ SumTo(segments, i) = SumTo(segments, i - 1) + segments[i]
  BY <1>1, SumFinds DEF Total
<1>3. i \in SegmentsWith(p)
  BY <1>1, <1>2 DEF SegmentsWith, StartOf
<1>4. SegmentsWith(p) \in SUBSET Nat /\ SegmentsWith(p) # {}
  BY <1>1, <1>3 DEF SegmentsWith
<1>5. PICK j \in SegmentsWith(p) : \A m \in SegmentsWith(p) : j <= m
  BY <1>4, LeastNumber
<1>6. j \in 1..Len(segments)
  BY <1>1 DEF SegmentsWith
<1>. QED  BY <1>5, <1>6

(* The byte there is that of the segment.                                  *)
LEMMA ByteAtIs ==
  ASSUME FilesKnown, NEW i \in 1..Len(recFiles), NEW b \in 1..recFiles[i]
  PROVE  ByteAt(SumTo(recFiles, i - 1) + b) = <<i, b>>
<1> DEFINE n == Len(recFiles)
           p == SumTo(recFiles, i - 1) + b
           In(m) == SumTo(recFiles, m - 1) < p /\ p <= SumTo(recFiles, m)
<1>1. n \in Nat /\ NumbersTo(recFiles, n) /\ DOMAIN recFiles = 1..n /\ recFiles[i] \in Nat
  BY DEF FilesKnown, RecordingTypes, NumbersTo, Sizes
<1>2. \A m \in 0..n : SumTo(recFiles, m) \in Nat /\ (m # 0 => SumTo(recFiles, m) = SumTo(recFiles, m - 1) + recFiles[m])
  <2>. TAKE m \in 0..n
  <2>1. m \in Nat /\ NumbersTo(recFiles, m)
    BY <1>1 DEF NumbersTo
  <2>. QED  BY <2>1, SumIs
<1>3. \A k, l \in 0..n : k <= l => SumTo(recFiles, k) <= SumTo(recFiles, l)
  <2>. SUFFICES ASSUME NEW k \in 0..n, NEW l \in 0..n, k <= l PROVE SumTo(recFiles, k) <= SumTo(recFiles, l)
    OBVIOUS
  <2>1. l \in k..n
    OBVIOUS
  <2>. QED  BY <1>1, <2>1, SumGrows
<1>4. In(i)
  <2>1. i \in 0..n /\ i # 0 /\ i - 1 \in 0..n
    BY <1>1
  <2>. QED  BY <1>1, <1>2, <2>1
<1>5. ASSUME NEW m \in 1..n, In(m) PROVE m = i
  <2>1. m - 1 \in 0..n /\ i - 1 \in 0..n /\ m \in 0..n /\ i \in 0..n /\ p \in Int
    BY <1>1, <1>2
  <2>2. CASE m < i
    <3>1. SumTo(recFiles, m) <= SumTo(recFiles, i - 1)
      BY <1>3, <2>1, <2>2
    <3>. QED  BY <1>2, <1>4, <1>5, <2>1, <3>1
  <2>3. CASE i < m
    <3>1. SumTo(recFiles, i) <= SumTo(recFiles, m - 1)
      BY <1>3, <2>1, <2>3
    <3>. QED  BY <1>2, <1>4, <1>5, <2>1, <3>1, SMTT(30)
  <2>. QED  BY <2>1, <2>2, <2>3
<1>6. (CHOOSE m \in DOMAIN recFiles : In(m)) = i
  <2>. HIDE DEF In, p
  <2>. QED  BY <1>1, <1>4, <1>5
<1>7. ByteAt(p) = <<i, p - SumTo(recFiles, i - 1)>>
  BY <1>6 DEF ByteAt
<1>8. p - SumTo(recFiles, i - 1) = b
  BY <1>1, <1>2
<1>. QED  BY <1>7, <1>8

(* One round of getBlock() returns bytes of one file, as they are on disk. *)
LEMMA PartIs ==
  ASSUME FilesKnown, NEW p \in Nat, NEW n \in Nat
  PROVE  /\ GetPart(p, n) \in Seq(Bytes) /\ Len(GetPart(p, n)) <= n
         /\ ~deleted /\ p < Total(segments) /\ n # 0 => GetPart(p, n) # <<>>
         /\ ~torn => \A k \in 1..Len(GetPart(p, n)) : GetPart(p, n)[k] = ByteAt(p + k)
<1>1. Len(segments) \in Nat /\ NumbersTo(segments, Len(segments)) /\ DOMAIN segments = 1..Len(segments)
      /\ Len(recFiles) \in Nat /\ NumbersTo(recFiles, Len(recFiles)) /\ Len(segments) <= Len(recFiles)
  BY DEF FilesKnown, RecordingTypes, NumbersTo, Sizes, Scanned
<1>2. Total(segments) \in Nat
  BY <1>1, SumIs DEF Total
<1>3. CASE p >= Total(segments) \/ SegmentsWith(p) = {}
  <2>1. GetPart(p, n) = <<>>
    BY <1>3 DEF GetPart
  <2>2. p < Total(segments) => SegmentsWith(p) # {}
    BY SegmentIs
  <2>. QED  BY <1>2, <1>3, <2>1, <2>2
<1>4. CASE p < Total(segments) /\ SegmentsWith(p) # {}
  <2> DEFINE least(m) == \A l \in SegmentsWith(p) : m <= l
             i == CHOOSE m \in SegmentsWith(p) : least(m)
             amount == IF p + n > Total(segments) THEN Total(segments) - p ELSE n
             from == p - StartOf(i)
             much == IF from + amount > recFiles[i] THEN recFiles[i] - from ELSE amount
  <2>1. GetPart(p, n) = FileGives(i, from, amount)
    BY <1>2, <1>4 DEF GetPart
  <2>2. i \in SegmentsWith(p)
    <3>1. \E m \in SegmentsWith(p) : least(m)
      BY <1>4, SegmentIs
    <3>. HIDE DEF least
    <3>. QED  BY <3>1
  <2>3. FileGives(i, from, amount) = IF deleted /\ i # fileOpen THEN <<>> ELSE [k \in 1..much |-> <<i, from + k>>]
    BY DEF FileGives
  <2>. HIDE DEF i
  <2>4. i \in 1..Len(segments) /\ StartOf(i) <= p /\ p < StartOf(i) + segments[i]
    BY <1>1, <2>2 DEF SegmentsWith
  <2>5. StartOf(i) \in Nat /\ segments[i] \in Nat /\ recFiles[i] \in Nat /\ segments[i] <= recFiles[i] /\ i \in 1..Len(recFiles)
    <3>1. i - 1 \in Nat /\ NumbersTo(segments, i - 1)
      BY <1>1, <2>4 DEF NumbersTo
    <3>2. StartOf(i) \in Nat
      BY <3>1, SumIs DEF StartOf
    <3>. QED  BY <1>1, <2>4, <3>2 DEF NumbersTo, FilesKnown, Scanned
  <2>6. from \in Nat /\ from < recFiles[i] /\ amount \in Nat /\ amount <= n /\ (n # 0 => amount # 0)
    BY <1>2, <1>4, <2>4, <2>5
  <2>7. much \in Nat /\ much <= n /\ (n # 0 => much # 0) /\ from + much <= recFiles[i]
    BY <2>5, <2>6
  <2>. HIDE DEF from, amount, much
  <2>8. [k \in 1..much |-> <<i, from + k>>] \in Seq(Bytes) /\ Len([k \in 1..much |-> <<i, from + k>>]) = much
    <3>1. \A k \in 1..much : <<i, from + k>> \in Bytes
      BY <2>4, <2>6 DEF Bytes
    <3>. QED  BY <2>7, <3>1
  <2>9. CASE deleted /\ i # fileOpen
    BY <2>1, <2>3, <2>9
  <2>10. CASE ~(deleted /\ i # fileOpen)
    <3>1. GetPart(p, n) = [k \in 1..much |-> <<i, from + k>>]
      BY <2>1, <2>3, <2>10
    <3>2. GetPart(p, n) \in Seq(Bytes) /\ Len(GetPart(p, n)) = much
      BY <2>8, <3>1
    <3>3. n # 0 => GetPart(p, n) # <<>>
      BY <2>7, <3>2
    <3>4. ASSUME ~torn, NEW k \in 1..much PROVE GetPart(p, n)[k] = ByteAt(p + k)
      <4>1. StartOf(i) = SumTo(recFiles, i - 1)
        <5>1. i - 1 \in Nat /\ NumbersTo(segments, i - 1) /\ \A j \in 1..(i - 1) : segments[j] = recFiles[j]
          BY <1>1, <2>4, <3>4 DEF NumbersTo, FilesKnown, SizesKnown
        <5>. QED  BY <5>1, SumSame DEF StartOf
      <4>2. from + k \in 1..recFiles[i] /\ p + k = StartOf(i) + (from + k)
        <5>1. from + k \in 1..recFiles[i]
          BY <2>5, <2>6, <2>7
        <5>2. from = p - StartOf(i)
          BY DEF from
        <5>. QED  BY <2>5, <5>1, <5>2
      <4>3. ByteAt(p + k) = <<i, from + k>>
        BY <2>5, <4>1, <4>2, ByteAtIs
      <4>. QED  BY <3>1, <4>3
    <3>. QED  BY <2>7, <3>2, <3>3, <3>4
  <2>. QED  BY <2>9, <2>10
<1>. QED  BY <1>2, <1>3, <1>4

(* What GetBlock defines by recursion.                                     *)
BlockEq(g, p, n) ==
  g = [k \in 0..n |-> IF k = 0 THEN <<>>
                      ELSE g[k - 1] \o GetPart(From(p, Len(g[k - 1])), n - Len(g[k - 1]))]

(* (There is such a function.)                                             *)
LEMMA BlockGiven ==
  ASSUME FilesKnown, NEW p \in Nat, NEW n \in Nat
  PROVE  \E g : BlockEq(g, p, n)
<1> DEFINE T == {s \in Seq(Bytes) : Len(s) <= n}
           more(s) == s \o GetPart(From(p, Len(s)), n - Len(s))
           step == [q \in (1..n) \X T |-> more(q[2])]
<1>1. ASSUME NEW s \in T PROVE more(s) \in T
  <2>1. Len(s) \in Nat /\ From(p, Len(s)) \in Nat /\ n - Len(s) \in Nat
    BY DEF From
  <2>2. GetPart(From(p, Len(s)), n - Len(s)) \in Seq(Bytes) /\ Len(GetPart(From(p, Len(s)), n - Len(s))) <= n - Len(s)
    BY <2>1, PartIs
  <2>. QED  BY <2>1, <2>2
<1>2. step \in [(1..n) \X T -> T]
  <2>. HIDE DEF T, more
  <2>. QED  BY <1>1
<1>3. <<>> \in T
  OBVIOUS
<1>4. \E g : Steps(g, n, T, <<>>, step)
  <2>. HIDE DEF step, T
  <2>. QED  BY <1>2, <1>3, StepByStep
<1>5. PICK g \in [0..n -> T] : g[0] = <<>> /\ \A i \in 1..n : g[i] = step[<<i, g[i - 1]>>]
  BY <1>4 DEF Steps
<1>6. ASSUME NEW i \in 0..n PROVE g[i] = IF i = 0 THEN <<>> ELSE more(g[i - 1])
  <2>. HIDE DEF T, more
  <2>1. CASE i = 0
    BY <1>5, <2>1
  <2>2. CASE i # 0
    <3>1. i \in 1..n /\ i - 1 \in 0..n
      BY <2>2
    <3>2. step[<<i, g[i - 1]>>] = more(g[i - 1])
      BY <1>5, <3>1
    <3>. QED  BY <1>5, <2>2, <3>1, <3>2
  <2>. QED  BY <2>1, <2>2
<1>7. g = [i \in 0..n |-> IF i = 0 THEN <<>> ELSE more(g[i - 1])]
  <2>. HIDE DEF T, more, step
  <2>. QED  BY <1>5, <1>6
<1>. HIDE DEF T, step
<1>. QED  BY <1>7 DEF BlockEq

(* All rounds together do so as well: no more than was asked for, and      *)
(* something unless the recording is over.                                 *)
LEMMA BlockIs ==
  ASSUME FilesKnown, NEW p \in Nat, NEW n \in Nat
  PROVE  /\ GetBlock(p, n) \in Seq(Bytes) /\ Len(GetBlock(p, n)) <= n
         /\ ~deleted /\ p < Total(segments) /\ n # 0 => GetBlock(p, n) # <<>>
         /\ ~torn => \A k \in 1..Len(GetBlock(p, n)) : GetBlock(p, n)[k] = ByteAt(p + k)
<1> DEFINE g == CHOOSE h : BlockEq(h, p, n)
           due == ~deleted /\ p < Total(segments)
           Good(s, k) == /\ s \in Seq(Bytes) /\ Len(s) <= n
                         /\ due /\ k # 0 => s # <<>>
                         /\ ~torn => \A j \in 1..Len(s) : s[j] = ByteAt(p + j)
           more(s) == s \o GetPart(From(p, Len(s)), n - Len(s))
           E(k) == IF k = 0 THEN <<>> ELSE more(g[k - 1])
<1>1. BlockEq(g, p, n)
  BY BlockGiven
<1>2. GetBlock(p, n) = g[n]
  BY DEF GetBlock, BlockEq
<1>. HIDE DEF g
<1>3. g = [k \in 0..n |-> E(k)]
  BY <1>1 DEF BlockEq
<1>4. \A k \in 0..n : g[k] = E(k)
  <2>. HIDE DEF E
  <2>. QED  BY <1>3, Zenon
<1>5. Good(<<>>, 0)
  OBVIOUS
<1>6. ASSUME NEW k \in Nat, k < n, NEW s, Good(s, k) PROVE Good(more(s), k + 1)
  <2> DEFINE part == GetPart(From(p, Len(s)), n - Len(s))
  <2>1. Len(s) \in Nat /\ From(p, Len(s)) = p + Len(s) /\ From(p, Len(s)) \in Nat /\ n - Len(s) \in Nat
    BY <1>6 DEF From
  <2>2. /\ part \in Seq(Bytes) /\ Len(part) <= n - Len(s)
        /\ ~deleted /\ From(p, Len(s)) < Total(segments) /\ n - Len(s) # 0 => part # <<>>
        /\ ~torn => \A j \in 1..Len(part) : part[j] = ByteAt(From(p, Len(s)) + j)
    BY <2>1, PartIs
  <2>. HIDE DEF part
  <2>3. /\ s \o part \in Seq(Bytes) /\ Len(s \o part) = Len(s) + Len(part) /\ Len(part) \in Nat
        /\ \A j \in 1..Len(s) : (s \o part)[j] = s[j]
        /\ \A j \in 1..Len(part) : (s \o part)[Len(s) + j] = part[j]
    BY <1>6, <2>2
  <2>4. due => s \o part # <<>>
    <3>. SUFFICES ASSUME due PROVE s \o part # <<>>
      OBVIOUS
    <3>1. CASE s = <<>>
      BY <1>6, <2>1, <2>2, <2>3, <3>1
    <3>2. CASE s # <<>>
      BY <1>6, <2>3, <3>2
    <3>. QED  BY <3>1, <3>2
  <2>5. ASSUME ~torn, NEW j \in 1..Len(s \o part) PROVE (s \o part)[j] = ByteAt(p + j)
    <3>1. CASE j <= Len(s)
      BY <1>6, <2>1, <2>3, <2>5, <3>1
    <3>2. CASE j > Len(s)
      <4>1. j - Len(s) \in 1..Len(part) /\ Len(s) + (j - Len(s)) = j /\ p + j = (p + Len(s)) + (j - Len(s))
        BY <2>1, <2>3, <3>2
      <4>2. (s \o part)[j] = part[j - Len(s)]
        BY <2>3, <4>1
      <4>3. part[j - Len(s)] = ByteAt(From(p, Len(s)) + (j - Len(s)))
        BY <2>2, <2>5, <4>1
      <4>. QED  BY <2>1, <4>1, <4>2, <4>3
    <3>. QED  BY <2>1, <2>3, <3>1, <3>2
  <2>6. more(s) = s \o part
    BY DEF part
  <2>. HIDE DEF more
  <2>. QED  BY <2>2, <2>3, <2>4, <2>5, <2>6
<1> DEFINE N == {k \in Nat : k <= n => Good(g[k], k)}
<1>7. 0 \in N
  <2>1. g[0] = <<>>
    BY <1>4
  <2>. HIDE DEF Good
  <2>. QED  BY <1>5, <2>1
<1>8. ASSUME NEW k \in N PROVE k + 1 \in N
  <2>. SUFFICES ASSUME k + 1 <= n PROVE Good(g[k + 1], k + 1)
    OBVIOUS
  <2>1. k < n /\ k + 1 \in 0..n /\ k + 1 # 0 /\ (k + 1) - 1 = k /\ Good(g[k], k) /\ k \in Nat
    <3>. HIDE DEF Good
    <3>. QED  BY <1>8
  <2>2. g[k + 1] = more(g[k])
    <3>. HIDE DEF more, Good
    <3>. QED  BY <1>4, <2>1
  <2>. HIDE DEF more, Good
  <2>. QED  BY <1>6, <2>1, <2>2
<1>9. n \in N
  <2>1. N \in SUBSET Nat
    OBVIOUS
  <2>. HIDE DEF N
  <2>. QED  BY <1>7, <1>8, <2>1, EveryNumber
<1>10. Good(g[n], n)
  <2>. HIDE DEF Good
  <2>. QED  BY <1>9
<1>. QED  BY <1>2, <1>10

(* The invariant at the start,                                             *)
LEMMA RecordingStarts == RecordingInit => RecordingInv
<1>. SUFFICES ASSUME RecordingInit PROVE RecordingInv
  OBVIOUS
<1>1. RecordingTypes
  <2>1. 1 \in Sizes
    BY DEF Sizes
  <2>2. <<1>> \in Seq(Sizes) /\ <<>> \in Seq(Sizes) /\ <<1>> # <<>>
    BY <2>1
  <2>. QED  BY <2>2 DEF RecordingInit, RecordingTypes
<1>2. Len(segments) = 0
  BY DEF RecordingInit
<1>. QED  BY <1>1, <1>2 DEF RecordingInit, RecordingInv, FilesKnown, Scanned, SizesKnown, LengthKnown,
             RecordingRead, ReadAgrees, ZerosOnlyWhenDeleted

(* and after every step of player, client and recorder.                    *)
LEMMA RecordingKept == RecordingInv /\ [RecordingNext]_recordingVars => RecordingInv'
<1>. SUFFICES ASSUME RecordingInv, [RecordingNext]_recordingVars PROVE RecordingInv'
  OBVIOUS
<1>. USE DEF RecordingInv
<1>types. /\ recFiles \in Seq(Sizes) /\ recFiles # <<>> /\ segments \in Seq(Sizes)
          /\ Len(recFiles) \in Nat \ {0} /\ Len(segments) \in Nat
          /\ deleted \in BOOLEAN /\ recPos \in Nat /\ recLength \in Nat
  BY DEF FilesKnown, RecordingTypes
<1>1. CASE Records
  <2>1. PICK i \in 1..Len(recFiles) + 1 :
          /\ i >= Len(recFiles)
          /\ recFiles' \in Seq(Sizes) /\ Len(recFiles') >= Len(recFiles)
          /\ \A k \in 1..Len(recFiles) : recFiles'[k] >= recFiles[k] /\ (k < Len(recFiles) => recFiles'[k] = recFiles[k])
    <3>1. CASE Last(recFiles) < RecFileSize /\ recFiles' = [recFiles EXCEPT ![Len(recFiles)] = @ + 1]
      <4>1. recFiles' \in Seq(Sizes) /\ Len(recFiles') = Len(recFiles)
        BY <1>types, <3>1 DEF Sizes
      <4>2. \A k \in 1..Len(recFiles) : recFiles'[k] = IF k = Len(recFiles) THEN recFiles[k] + 1 ELSE recFiles[k]
        BY <1>types, <3>1
      <4>3. \A k \in 1..Len(recFiles) : recFiles[k] \in Nat
        BY <1>types DEF Sizes
      <4>. QED  BY <1>types, <4>1, <4>2, <4>3
    <3>2. CASE recFiles' = Append(recFiles, 1)
      <4>1. \A k \in 1..Len(recFiles) : recFiles[k] \in Nat
        BY <1>types DEF Sizes
      <4>2. recFiles' \in Seq(Sizes) /\ Len(recFiles') = Len(recFiles) + 1 /\ \A k \in 1..Len(recFiles) : recFiles'[k] = recFiles[k]
        BY <1>types, <3>2 DEF Sizes
      <4>. QED  BY <1>types, <4>1, <4>2
    <3>. QED  BY <1>1, <3>1, <3>2 DEF Records
  <2>2. UNCHANGED <<deleted, segments, playerAt, recPos, recLength, playClientAt, torn, misread, zeros>>
    BY <1>1 DEF Records
  <2>3. FilesKnown'
    <3>1. RecordingTypes'
      <4>1. recFiles' # <<>>
        BY <1>types, <2>1
      <4>. QED  BY <1>types, <2>1, <2>2, <4>1 DEF RecordingTypes
    <3>2. Scanned'
      <4>1. \A k \in 1..Len(segments) : /\ k \in 1..Len(recFiles) /\ segments[k] \in Nat /\ recFiles[k] \in Nat
                                        /\ recFiles'[k] \in Nat /\ segments[k] <= recFiles[k] /\ recFiles'[k] >= recFiles[k]
        BY <1>types, <2>1, SMTT(30) DEF FilesKnown, Scanned, Sizes
      <4>. QED  BY <1>types, <2>1, <2>2, <4>1 DEF FilesKnown, Scanned
    <3>3. SizesKnown'
      <4>1. \A k \in 1..(Len(segments) - 1) : k \in 1..Len(recFiles) /\ k < Len(recFiles)
        BY <1>types DEF FilesKnown, Scanned
      <4>. QED  BY <2>1, <2>2, <4>1 DEF FilesKnown, SizesKnown
    <3>. QED  BY <3>1, <3>2, <3>3 DEF FilesKnown
  <2>. QED  BY <2>2, <2>3 DEF LengthKnown, RecordingRead, ReadAgrees, ZerosOnlyWhenDeleted
<1>2. CASE DeletedByUser
  <2>1. UNCHANGED <<recFiles, segments, playerAt, recPos, recLength, playClientAt, torn, misread, zeros>> /\ deleted' = TRUE
    BY <1>2 DEF DeletedByUser
  <2>. QED  BY <2>1 DEF FilesKnown, RecordingTypes, Scanned, SizesKnown, LengthKnown, RecordingRead, ReadAgrees, ZerosOnlyWhenDeleted
<1>3. CASE OpenRecording \/ PlayConnectionLost \/ CloseRecording
  <2>1. /\ UNCHANGED <<recFiles, deleted, recPos, recLength, torn, misread, zeros>>
        /\ segments' = <<>> /\ playClientAt' # "open"
    BY <1>3 DEF OpenRecording, PlayConnectionLost, CloseRecording
  <2>2. segments' \in Seq(Sizes) /\ Len(segments') = 0
    BY <2>1
  <2>3. FilesKnown'
    BY <1>types, <2>1, <2>2 DEF FilesKnown, RecordingTypes, Scanned, SizesKnown
  <2>. QED  BY <2>1, <2>3 DEF LengthKnown, RecordingRead, ReadAgrees, ZerosOnlyWhenDeleted
<1>4. CASE Scan
  <2>0. UNCHANGED <<recFiles, deleted, recPos, recLength, playClientAt, misread, zeros>> /\ playerAt = "scan"
    BY <1>4 DEF Scan
  <2>1. playClientAt # "open"
    BY <2>0 DEF LengthKnown
  <2>2. FilesKnown' /\ (torn => torn')
    <3> DEFINE i == Len(segments) + 1
    <3>1. CASE i <= Len(recFiles) /\ ~deleted
      <4>1. segments' = Append(segments, recFiles[i]) /\ torn' = (torn \/ (i > 1 /\ segments[i - 1] # recFiles[i - 1]))
        BY <1>4, <3>1 DEF Scan
      <4>2. recFiles[i] \in Sizes
        BY <1>types, <3>1
      <4>3. segments' \in Seq(Sizes) /\ Len(segments') = i /\ segments'[i] = recFiles[i] /\ \A k \in 1..(i - 1) : segments'[k] = segments[k]
        BY <1>types, <4>1, <4>2
      <4>4. Scanned'
        <5>1. ASSUME NEW k \in 1..i PROVE segments'[k] <= recFiles[k]
          <6>1. CASE k = i
            BY <4>2, <4>3, <6>1 DEF Sizes
          <6>2. CASE k # i
            <7>1. k \in 1..Len(segments) /\ k \in 1..(i - 1)
              BY <1>types, <6>2
            <7>. QED  BY <4>3, <7>1 DEF FilesKnown, Scanned
          <6>. QED  BY <6>1, <6>2
        <5>. QED  BY <2>0, <3>1, <4>3, <5>1 DEF Scanned
      <4>5. SizesKnown'
        <5>1. ASSUME ~torn', NEW k \in 1..(i - 1) PROVE segments'[k] = recFiles[k]
          <6>. HIDE DEF i
          <6>0. ~torn /\ ~(i > 1 /\ segments[i - 1] # recFiles[i - 1]) /\ i - 1 = Len(segments) /\ i \in Nat
            <7>1. ~torn /\ ~(i > 1 /\ segments[i - 1] # recFiles[i - 1])
              BY <4>1, <5>1
            <7>2. i - 1 = Len(segments) /\ i \in Nat
              BY <1>types DEF i
            <7>. QED  BY <7>1, <7>2
          <6>1. CASE k = i - 1
            BY <4>3, <6>0, <6>1
          <6>2. CASE k # i - 1
            <7>1. k \in 1..(Len(segments) - 1)
              BY <6>0, <6>2
            <7>. QED  BY <4>3, <6>0, <7>1 DEF FilesKnown, SizesKnown
          <6>. QED  BY <6>1, <6>2
        <5>. QED  BY <2>0, <4>3, <5>1 DEF SizesKnown
      <4>. QED  BY <1>types, <2>0, <4>1, <4>3, <4>4, <4>5 DEF FilesKnown, RecordingTypes
    <3>2. CASE ~(i <= Len(recFiles) /\ ~deleted)
      <4>1. UNCHANGED <<segments, torn>>
        BY <1>4, <3>2 DEF Scan
      <4>. QED  BY <2>0, <4>1 DEF FilesKnown, RecordingTypes, Scanned, SizesKnown
    <3>. QED  BY <3>1, <3>2
  <2>. QED  BY <2>0, <2>1, <2>2 DEF LengthKnown, RecordingRead, ReadAgrees, ZerosOnlyWhenDeleted
<1>5. CASE RecordingOpened
  <2>1. /\ UNCHANGED <<recFiles, deleted, segments, playerAt, torn, misread, zeros>>
        /\ recLength' = Total(segments) /\ recPos' = 0 /\ playerAt = "ready"
    BY <1>5 DEF RecordingOpened
  <2>2. Total(segments) \in Nat
    <3>1. NumbersTo(segments, Len(segments))
      BY <1>types DEF NumbersTo, Sizes
    <3>. QED  BY <1>types, <3>1, SumIs DEF Total
  <2>. QED  BY <2>1, <2>2 DEF FilesKnown, RecordingTypes, Scanned, SizesKnown, LengthKnown, RecordingRead, ReadAgrees, ZerosOnlyWhenDeleted
<1>6. ASSUME NEW n \in BlockSizes, ReadBlock(n) PROVE RecordingInv'
  <2> DEFINE bytes == GetBlock(recPos, n)
  <2>1. n \in Nat \ {0} /\ ZeroAnswer \in Nat
    BY RecordingAssumption
  <2>2. /\ bytes \in Seq(Bytes)
        /\ ~deleted /\ recPos < Total(segments) => bytes # <<>>
        /\ ~torn => \A k \in 1..Len(bytes) : bytes[k] = ByteAt(recPos + k)
    BY <1>types, <2>1, BlockIs
  <2>3. /\ UNCHANGED <<recFiles, deleted, segments, playerAt, recLength, playClientAt, torn>>
        /\ playClientAt = "open" /\ recPos < recLength
        /\ IF bytes = <<>>
           THEN /\ recPos' = IF ZeroAnswer <= n THEN recPos + ZeroAnswer ELSE recPos
                /\ zeros' = (zeros \/ ZeroAnswer <= n)
                /\ UNCHANGED misread
           ELSE /\ recPos' = recPos + Len(bytes)
                /\ misread' = (misread \/ \E k \in DOMAIN bytes : bytes[k] # ByteAt(recPos + k))
                /\ UNCHANGED zeros
    BY <1>6 DEF ReadBlock
  <2>. HIDE DEF bytes
  <2>4. Len(bytes) \in Nat /\ DOMAIN bytes = 1..Len(bytes)
    BY <2>2
  <2>5. recPos' \in Nat
    BY <1>types, <2>1, <2>3, <2>4
  <2>6. bytes = <<>> => deleted
    BY <2>2, <2>3 DEF LengthKnown
  <2>7. RecordingRead'
    BY <2>2, <2>3, <2>4, <2>6 DEF RecordingRead, ReadAgrees, ZerosOnlyWhenDeleted
  <2>. QED  BY <2>3, <2>5, <2>7 DEF FilesKnown, RecordingTypes, Scanned, SizesKnown, LengthKnown
<1>7. ASSUME NEW p \in 0..(RecFileSize * MaxRecFiles), SeekRecording(p) PROVE RecordingInv'
  <2>1. /\ UNCHANGED <<recFiles, deleted, segments, playerAt, recLength, playClientAt, torn, misread, zeros>>
        /\ recPos' = p /\ p \in Nat
    BY <1>7 DEF SeekRecording
  <2>. QED  BY <2>1 DEF FilesKnown, RecordingTypes, Scanned, SizesKnown, LengthKnown, RecordingRead, ReadAgrees, ZerosOnlyWhenDeleted
<1>8. CASE UNCHANGED recordingVars
  BY <1>8 DEF recordingVars, FilesKnown, RecordingTypes, Scanned, SizesKnown, LengthKnown, RecordingRead, ReadAgrees, ZerosOnlyWhenDeleted
<1>. QED  BY <1>1, <1>2, <1>3, <1>4, <1>5, <1>6, <1>7, <1>8 DEF RecordingNext

(* The client of a VNSI server reads a recording as it is on disk,         *)
(* whatever the number and sizes of its files, the sizes of the blocks and *)
(* the places it jumps to, also while it grows.                            *)
THEOREM RecordingAsOnDisk == RecordingSpec => []RecordingRead
<1>1. RecordingInv => RecordingRead
  BY DEF RecordingInv
<1>. QED  BY RecordingStarts, RecordingKept, <1>1, PTL DEF RecordingSpec

-----------------------------------------------------------------------------
(* TsBuffer                                                                *)

(* A file in the list, and the header of the index.                        *)
File == [id : Nat, start : Nat, length : Nat]
Header == [position : Nat, added : Nat, removed : Nat]

(* The server's part: it has the last file, and all but the last hold      *)
(* something.                                                              *)
Disk ==
  /\ sizes \in Seq(Nat) /\ gone \in Nat /\ gone < Len(sizes)
  /\ index \in Header /\ index.removed < index.added
  /\ index.added <= Len(sizes) /\ index.removed <= gone
  /\ index.position = sizes[index.added]
  /\ \A f \in 1..(Len(sizes) - 1) : sizes[f] > 0

(* A file that is not the last has its whole length, or was gone before    *)
(* that was asked for.                                                     *)
Whole(file) == file.length = sizes[file.id] \/ (file.length = 0 /\ file.id <= gone)

(* The files are those behind the first removed ones, one behind the       *)
(* other.                                                                  *)
Row(files, removed) ==
  /\ files \in Seq(File)
  /\ \A i \in 1..Len(files) :
       /\ files[i].id = removed + i /\ files[i].id <= Len(sizes)
       /\ files[i].length <= sizes[files[i].id]
       /\ i < Len(files) => /\ Whole(files[i])
                            /\ files[i + 1].start = files[i].start + files[i].length
  /\ \A i, j \in 1..Len(files) : i < j => files[i].start + files[i].length <= files[j].start

(* (Of a row to which more is added.)                                      *)
AllWhole(files) == \A i \in 1..Len(files) : Whole(files[i])

(* A position is in a file, and which byte is there; the last byte of a    *)
(* row.                                                                    *)
In(file, p) == file.start <= p /\ p < file.start + file.length
ByteOf(file, p) == Before(file.id) + (p - file.start) + 1
Known(files) == IF files = <<>> THEN 0 ELSE Before(Last(files).id) + Last(files).length

(* What is before a file on disk.                                          *)
LEMMA BeforeIs ==
  ASSUME Disk, NEW f \in 1..Len(sizes)
  PROVE  /\ Before(f) \in Nat /\ sizes[f] \in Nat
         /\ Before(f + 1) = Before(f) + sizes[f]
         /\ \A g \in (f + 1)..Len(sizes) : Before(f) + sizes[f] <= Before(g) /\ Before(g) \in Nat
<1> DEFINE n == Len(sizes)
<1>1. n \in Nat /\ NumbersTo(sizes, n)
  BY DEF Disk, NumbersTo
<1>2. f - 1 \in Nat /\ f \in Nat /\ NumbersTo(sizes, f - 1) /\ NumbersTo(sizes, f) /\ sizes[f] \in Nat
  BY <1>1 DEF NumbersTo
<1>3. Before(f) \in Nat
  BY <1>2, SumIs DEF Before
<1>4. Before(f + 1) = Before(f) + sizes[f]
  <2>1. SumTo(sizes, f) = SumTo(sizes, f - 1) + sizes[f]
    BY <1>2, SumIs
  <2>2. (f + 1) - 1 = f
    BY <1>2
  <2>. QED  BY <2>1, <2>2 DEF Before
<1>5. ASSUME NEW g \in (f + 1)..n PROVE Before(f) + sizes[f] <= Before(g) /\ Before(g) \in Nat
  <2>1. f - 1 \in 0..n /\ g - 1 \in (f - 1)..n /\ f - 1 < g - 1 /\ (f - 1) + 1 = f
    BY <1>1, <1>2
  <2>2. SumTo(sizes, f - 1) + sizes[(f - 1) + 1] <= SumTo(sizes, g - 1) /\ SumTo(sizes, g - 1) \in Nat
    BY <1>1, <2>1, SumGrows
  <2>. QED  BY <2>1, <2>2 DEF Before
<1>. QED  BY <1>2, <1>3, <1>4, <1>5

(* The fields of a file of a row.                                          *)
LEMMA FileIs ==
  ASSUME Disk, NEW files, NEW removed \in Nat, Row(files, removed), NEW i \in 1..Len(files)
  PROVE  /\ Len(files) \in Nat /\ files[i] \in File
         /\ files[i].id \in 1..Len(sizes) /\ files[i].start \in Nat /\ files[i].length \in Nat
         /\ Before(files[i].id) \in Nat /\ sizes[files[i].id] \in Nat /\ files[i].length <= sizes[files[i].id]
<1>1. Len(files) \in Nat /\ files[i] \in File /\ files[i].id = removed + i /\ files[i].id <= Len(sizes)
      /\ files[i].length <= sizes[files[i].id]
  BY DEF Row
<1>2. files[i].id \in Nat /\ files[i].start \in Nat /\ files[i].length \in Nat
  BY <1>1 DEF File
<1>3. files[i].id \in 1..Len(sizes)
  BY <1>1, <1>2 DEF Disk
<1>. QED  BY <1>1, <1>2, <1>3, BeforeIs

(* Positions and bytes go up together.                                     *)
LEMMA Rising ==
  ASSUME Disk, NEW files, NEW removed \in Nat, Row(files, removed),
         NEW i \in 1..Len(files), NEW j \in 1..Len(files), NEW p \in Nat, NEW q \in Nat,
         In(files[i], p), In(files[j], q), p < q
  PROVE  ByteOf(files[i], p) < ByteOf(files[j], q)
<1>1. /\ files[i].id \in 1..Len(sizes) /\ files[i].start \in Nat /\ files[i].length \in Nat /\ Before(files[i].id) \in Nat
      /\ sizes[files[i].id] \in Nat /\ files[i].length <= sizes[files[i].id]
  BY FileIs
<1>2. /\ files[j].id \in 1..Len(sizes) /\ files[j].start \in Nat /\ files[j].length \in Nat /\ Before(files[j].id) \in Nat
  BY FileIs
<1>3. i \in Nat /\ j \in Nat /\ files[i].id = removed + i /\ files[j].id = removed + j
  BY DEF Row
<1>4. CASE i = j
  BY <1>1, <1>4 DEF ByteOf
<1>5. CASE j < i
  <2>1. files[j].start + files[j].length <= files[i].start
    BY <1>5 DEF Row
  <2>. QED  BY <1>1, <1>2, <2>1, SMTT(30) DEF In
<1>6. CASE i < j
  <2>1. files[j].id \in (files[i].id + 1)..Len(sizes)
    BY <1>1, <1>2, <1>3, <1>6
  <2>2. Before(files[i].id) + sizes[files[i].id] <= Before(files[j].id)
    BY <1>1, <2>1, BeforeIs
  <2>3. ByteOf(files[i], p) <= Before(files[i].id) + files[i].length /\ ByteOf(files[i], p) \in Int
    BY <1>1, SMTT(30) DEF ByteOf, In
  <2>4. ByteOf(files[j], q) > Before(files[j].id) /\ ByteOf(files[j], q) \in Int
    BY <1>2 DEF ByteOf, In
  <2>. QED  BY <1>1, <1>2, <2>2, <2>3, <2>4, SMTT(30)
<1>. QED  BY <1>3, <1>4, <1>5, <1>6

(* Where a row ends.                                                       *)
LEMMA LastIs ==
  ASSUME Disk, NEW files, NEW removed \in Nat, Row(files, removed), files # <<>>
  PROVE  /\ Len(files) \in 1..Len(files) /\ Last(files) = files[Len(files)]
         /\ EndOf(files) = files[Len(files)].start + files[Len(files)].length /\ EndOf(files) \in Nat
         /\ Known(files) = Before(files[Len(files)].id) + files[Len(files)].length /\ Known(files) \in Nat
         /\ \A i \in 1..Len(files) : /\ files[i].start <= EndOf(files)
                                     /\ files[i].start + files[i].length <= EndOf(files)
                                     /\ Before(files[i].id) + files[i].length <= Known(files)
<1>1. Len(files) \in 1..Len(files)
  BY DEF Row
<1>2. Last(files) = files[Len(files)]
  BY DEF Last
<1> DEFINE n == Len(files)
<1>3. files[n].id \in 1..Len(sizes) /\ files[n].start \in Nat /\ files[n].length \in Nat /\ Before(files[n].id) \in Nat
  BY <1>1, FileIs
<1>4. EndOf(files) = files[n].start + files[n].length /\ Known(files) = Before(files[n].id) + files[n].length
  BY <1>2 DEF EndOf, Known
<1>5. ASSUME NEW i \in 1..n
      PROVE /\ files[i].start + files[i].length <= EndOf(files) /\ files[i].start <= EndOf(files)
            /\ Before(files[i].id) + files[i].length <= Known(files)
  <2>1. /\ files[i].id \in 1..Len(sizes) /\ files[i].start \in Nat /\ files[i].length \in Nat /\ Before(files[i].id) \in Nat
        /\ sizes[files[i].id] \in Nat /\ files[i].length <= sizes[files[i].id]
    BY FileIs
  <2>2. CASE i = n
    BY <1>3, <1>4, <2>2
  <2>3. CASE i < n
    <3>1. files[i].start + files[i].length <= files[n].start /\ files[i].id = removed + i /\ files[n].id = removed + n
      BY <1>1, <2>3 DEF Row
    <3>2. files[n].id \in (files[i].id + 1)..Len(sizes)
      BY <1>1, <1>3, <2>1, <2>3, <3>1
    <3>3. Before(files[i].id) + sizes[files[i].id] <= Before(files[n].id)
      BY <2>1, <3>2, BeforeIs
    <3>4. Before(files[i].id) + files[i].length <= Known(files)
      BY <1>3, <1>4, <2>1, <3>3, SMTT(30)
    <3>5. files[i].start + files[i].length <= EndOf(files) /\ files[i].start <= EndOf(files)
      BY <1>3, <1>4, <2>1, <3>1, SMTT(30)
    <3>. QED  BY <3>4, <3>5
  <2>. QED  BY <1>1, <2>2, <2>3
<1>. QED  BY <1>1, <1>2, <1>3, <1>4, <1>5

(* A byte of a row is one of its files'.                                   *)
LEMMA InIs ==
  ASSUME Disk, NEW files, NEW removed \in Nat, Row(files, removed),
         NEW i \in 1..Len(files), NEW p \in Nat, In(files[i], p)
  PROVE  /\ ByteOf(files[i], p) \in Nat /\ ByteOf(files[i], p) > Before(files[i].id)
         /\ ByteOf(files[i], p) <= Before(files[i].id) + files[i].length
         /\ ByteOf(files[i], p) <= Known(files) /\ p < EndOf(files)
<1>1. files[i].start \in Nat /\ files[i].length \in Nat /\ Before(files[i].id) \in Nat
  BY FileIs
<1>2. files # <<>>
  OBVIOUS
<1>3. /\ EndOf(files) \in Nat /\ Known(files) \in Nat
      /\ files[i].start + files[i].length <= EndOf(files)
      /\ Before(files[i].id) + files[i].length <= Known(files)
  BY <1>2, LastIs
<1>. QED  BY <1>1, <1>3, SMTT(30) DEF In, ByteOf

(* A file with another length.                                             *)
WithLength(file, x) == [file EXCEPT !.length = x]

(* It stays where it is.                                                   *)
LEMMA Shortened ==
  ASSUME NEW file \in File, NEW x \in Nat
  PROVE  /\ WithLength(file, x) \in File /\ WithLength(file, x).length = x
         /\ WithLength(file, x).id = file.id /\ WithLength(file, x).start = file.start
BY DEF File, WithLength

(* A row with another length of its last file.                             *)
Lengthened(files, x) == [files EXCEPT ![Len(files)].length = x]

(* The row with another length of its last file. *)
LEMMA SettledRow ==
  ASSUME Disk, NEW files, NEW removed \in Nat, Row(files, removed), files # <<>>,
         NEW x \in Nat, x <= sizes[Last(files).id],
         NEW all, all = Lengthened(files, x)
  PROVE  /\ Row(all, removed) /\ Len(all) = Len(files)
         /\ \A i \in 1..Len(files) : /\ all[i].id = files[i].id /\ all[i].start = files[i].start
                                     /\ i < Len(files) => all[i] = files[i]
         /\ all[Len(files)].length = x
<1> DEFINE n == Len(files)
<1>1. n \in 1..n /\ n \in Nat /\ Last(files) = files[n] /\ files \in Seq(File)
  <2>1. n \in 1..n /\ Last(files) = files[n]
    BY LastIs
  <2>2. files \in Seq(File)
    BY DEF Row
  <2>. QED  BY <2>1, <2>2
<1>2. all \in Seq(File) /\ Len(all) = n
      /\ \A i \in 1..n : all[i] = IF i = n THEN WithLength(files[i], x) ELSE files[i]
  <2>1. WithLength(files[n], x) \in File
    BY <1>1, Shortened, SMTT(30)
  <2>2. all = [files EXCEPT ![n] = WithLength(files[n], x)]
    BY Zenon DEF Lengthened, WithLength
  <2>. QED  BY <1>1, <2>1, <2>2
<1>w. files[n] \in File /\ all[n] = WithLength(files[n], x)
  BY <1>1, <1>2
<1>v. /\ WithLength(files[n], x).length = x
      /\ WithLength(files[n], x).id = files[n].id /\ WithLength(files[n], x).start = files[n].start
  BY <1>w, Shortened
<1>4. all[n].length = x
  BY <1>w, <1>v
<1>3. \A i \in 1..n : /\ all[i].id = files[i].id /\ all[i].start = files[i].start
                      /\ i < n => all[i] = files[i]
  <2>. TAKE i \in 1..n
  <2>1. CASE i = n
    BY <1>1, <1>w, <1>v, <2>1
  <2>2. CASE i # n
    <3>1. all[i] = files[i]
      BY <1>2, <2>2
    <3>. QED  BY <3>1, <2>2
  <2>. QED  BY <2>1, <2>2
<1>. HIDE DEF n
<1>5. Row(all, removed)
  <2>1. ASSUME NEW i \in 1..n
        PROVE /\ all[i].id = removed + i /\ all[i].id <= Len(sizes) /\ all[i].length <= sizes[all[i].id]
              /\ i < n => /\ Whole(all[i]) /\ all[i + 1].start = all[i].start + all[i].length
    <3>1. /\ files[i].id = removed + i /\ files[i].id <= Len(sizes) /\ files[i].length <= sizes[files[i].id]
          /\ i < n => /\ Whole(files[i]) /\ files[i + 1].start = files[i].start + files[i].length
      BY DEF Row, n
    <3>2. CASE i = n
      BY <1>1, <1>3, <1>4, <3>1, <3>2
    <3>3. CASE i < n
      <4>1. i + 1 \in 1..n
        BY <1>1, <3>3
      <4>. QED  BY <1>3, <3>1, <3>3, <4>1
    <3>. QED  BY <1>1, <3>2, <3>3
  <2>2. ASSUME NEW i \in 1..n, NEW j \in 1..n, i < j PROVE all[i].start + all[i].length <= all[j].start
    <3>1. i < n /\ files[i].start + files[i].length <= files[j].start
      BY <1>1, <2>2 DEF Row, n
    <3>. QED  BY <1>3, <3>1
  <2>. QED  BY <1>2, <2>1, <2>2 DEF Row
<1>. QED  BY <1>2, <1>3, <1>4, <1>5 DEF n

(* The last file has grown to its size, or is gone.                        *)
LEMMA GrownRow ==
  ASSUME Disk, NEW files, NEW removed \in Nat, Row(files, removed), files # <<>>
  PROVE  /\ Row(Grown(files), removed) /\ Len(Grown(files)) = Len(files) /\ AllWhole(Grown(files))
         /\ \A i \in 1..Len(files) : /\ Grown(files)[i].id = files[i].id /\ Grown(files)[i].start = files[i].start
                                     /\ i < Len(files) => Grown(files)[i] = files[i]
         /\ Grown(files)[Len(files)].length = FileLength(Last(files).id)
<1> DEFINE n == Len(files)
           x == FileLength(files[n].id)
           all == Grown(files)
<1>1. n \in 1..n /\ n \in Nat /\ Last(files) = files[n]
  <2>1. n \in 1..n /\ Last(files) = files[n]
    BY LastIs
  <2>. QED  BY <2>1
<1>2. files[n].id \in Nat /\ sizes[files[n].id] \in Nat
  BY <1>1, FileIs
<1>3. x \in Nat /\ x <= sizes[files[n].id] /\ (x = sizes[files[n].id] \/ (x = 0 /\ files[n].id <= gone))
  BY <1>2 DEF FileLength, Disk
<1>4. all = Lengthened(files, x)
  <2>1. FileLength(files[Len(files)].id) = x
    OBVIOUS
  <2>. QED  BY <2>1 DEF Grown, Lengthened
<1>. HIDE DEF x, all
<1>5. /\ Row(all, removed) /\ Len(all) = Len(files)
      /\ \A i \in 1..Len(files) : /\ all[i].id = files[i].id /\ all[i].start = files[i].start
                                  /\ i < Len(files) => all[i] = files[i]
      /\ all[Len(files)].length = x
  <2>1. x <= sizes[Last(files).id]
    BY <1>1, <1>3
  <2>. QED  BY <1>3, <1>4, <2>1, SettledRow
<1>6. AllWhole(all)
  <2>1. ASSUME NEW i \in 1..n PROVE Whole(all[i])
    <3>1. CASE i = n
      BY <1>3, <1>5, <3>1 DEF Whole
    <3>2. CASE i < n
      BY <1>1, <1>5, <3>2 DEF Row
    <3>. QED  BY <1>1, <3>1, <3>2
  <2>. QED  BY <1>5, <2>1 DEF AllWhole
<1>. QED  BY <1>1, <1>5, <1>6 DEF all, x

(* The row with the file that comes next. *)
LEMMA AddedRow ==
  ASSUME Disk, NEW files, NEW removed \in Nat, Row(files, removed), AllWhole(files),
         NEW file, file = [id |-> removed + Len(files) + 1, start |-> EndOf(files),
                           length |-> FileLength(removed + Len(files) + 1)],
         removed + Len(files) + 1 <= Len(sizes)
  PROVE  Row(Append(files, file), removed) /\ AllWhole(Append(files, file))
<1> DEFINE n == Len(files)
           f == removed + n + 1
           more == Append(files, file)
<1>1. n \in Nat /\ files \in Seq(File) /\ f \in 1..Len(sizes) /\ Len(sizes) \in Nat
  BY DEF Row, Disk
<1>2. EndOf(files) \in Nat
  <2>1. CASE files = <<>>
    BY <2>1 DEF EndOf
  <2>2. CASE files # <<>>
    BY <2>2, LastIs
  <2>. QED  BY <2>1, <2>2
<1>3. sizes[f] \in Nat /\ FileLength(f) \in Nat /\ FileLength(f) <= sizes[f]
  BY <1>1 DEF Disk, FileLength
<1>4. file.id = f /\ file.start = EndOf(files) /\ file.length = FileLength(f) /\ file \in File
  BY <1>1, <1>2, <1>3 DEF File
<1>5. Whole(file)
  BY <1>1, <1>3, <1>4 DEF Whole, FileLength, Disk
<1>. HIDE DEF f
<1>6. more \in Seq(File) /\ Len(more) = n + 1 /\ (\A i \in 1..n : more[i] = files[i]) /\ more[n + 1] = file
  BY <1>1, <1>4
<1>. HIDE DEF more
<1>7. ASSUME NEW i \in 1..(n + 1)
      PROVE /\ more[i].id = removed + i /\ more[i].id <= Len(sizes) /\ more[i].length <= sizes[more[i].id]
            /\ Whole(more[i])
            /\ i < n + 1 => more[i + 1].start = more[i].start + more[i].length
  <2>1. CASE i = n + 1
    <3>1. more[i] = file /\ file.id = removed + i /\ file.id <= Len(sizes) /\ file.length <= sizes[file.id]
      BY <1>1, <1>3, <1>4, <1>6, <2>1 DEF f
    <3>. QED  BY <1>1, <1>5, <2>1, <3>1
  <2>2. CASE i # n + 1
    <3>1. i \in 1..n /\ more[i] = files[i]
      BY <1>1, <1>6, <2>2
    <3>2. files[i].id = removed + i /\ files[i].id <= Len(sizes) /\ files[i].length <= sizes[files[i].id] /\ Whole(files[i])
      BY <3>1 DEF Row, AllWhole
    <3>3. more[i + 1].start = more[i].start + more[i].length
      <4>1. CASE i = n
        <5>1. files # <<>>
          BY <3>1
        <5>2. EndOf(files) = files[n].start + files[n].length
          BY <5>1, LastIs
        <5>. QED  BY <1>4, <1>6, <3>1, <4>1, <5>2
      <4>2. CASE i < n
        <5>1. i + 1 \in 1..n
          BY <1>1, <3>1, <4>2
        <5>2. files[i + 1].start = files[i].start + files[i].length
          BY <3>1, <4>2 DEF Row
        <5>. QED  BY <1>6, <3>1, <5>1, <5>2
      <4>. QED  BY <1>1, <3>1, <4>1, <4>2
    <3>. QED  BY <3>1, <3>2, <3>3
  <2>. QED  BY <2>1, <2>2
<1>8. ASSUME NEW i \in 1..(n + 1), NEW j \in 1..(n + 1), i < j PROVE more[i].start + more[i].length <= more[j].start
  <2>1. i \in 1..n /\ more[i] = files[i] /\ files # <<>>
    BY <1>1, <1>6, <1>8
  <2>2. CASE j = n + 1
    <3>1. files[i].start + files[i].length <= EndOf(files)
      BY <2>1, LastIs
    <3>. QED  BY <1>4, <1>6, <2>1, <2>2, <3>1
  <2>3. CASE j # n + 1
    <3>1. j \in 1..n /\ more[j] = files[j]
      BY <1>1, <1>6, <2>3
    <3>. QED  BY <1>8, <2>1, <3>1 DEF Row
  <2>. QED  BY <2>2, <2>3
<1>9. Row(more, removed) /\ AllWhole(more)
  BY <1>6, <1>7, <1>8 DEF Row, AllWhole
<1>. QED  BY <1>9 DEF more

(* A row without its oldest files.                                         *)
Rest(files, d) == SubSeq(files, d + 1, Len(files))

(* The row without its oldest files. *)
LEMMA DroppedRow ==
  ASSUME Disk, NEW files, NEW removed \in Nat, Row(files, removed), NEW d \in Nat, d < Len(files),
         NEW kept, kept = Rest(files, d)
  PROVE  /\ Row(kept, removed + d) /\ Len(kept) = Len(files) - d /\ kept # <<>>
         /\ \A i \in 1..Len(kept) : i + d \in 1..Len(files) /\ kept[i] = files[i + d]
         /\ Last(kept) = Last(files)
<1> DEFINE n == Len(files)
<1>1. n \in Nat /\ files \in Seq(File) /\ \A i \in 1..n : files[i] \in File
  BY DEF Row
<1>2. kept \in Seq(File) /\ Len(kept) = n - d
      /\ \A i \in 1..(n - d) : i + d \in 1..n /\ kept[i] = files[i + d]
  <2>1. kept = [i \in 1..(n - d) |-> files[i + d]]
    <3>1. kept = SubSeq(files, d + 1, n)
      BY DEF Rest
    <3>. QED  BY <1>1, <3>1
  <2>2. \A i \in 1..(n - d) : i + d \in 1..n
    BY <1>1
  <2>. QED  BY <1>1, <2>1, <2>2
<1>3. kept # <<>> /\ Last(kept) = Last(files)
  <2>1. n - d \in 1..(n - d) /\ (n - d) + d = n
    BY <1>1
  <2>2. kept # <<>>
    <3>1. kept \in Seq(File) /\ Len(kept) # 0
      <4>1. n - d \in Nat /\ n - d # 0
        BY <1>1
      <4>. HIDE DEF n
      <4>. QED  BY <1>2, <4>1
    <3>. QED  BY <3>1
  <2>3. Last(kept) = kept[Len(kept)] /\ Last(files) = files[n]
    BY Zenon DEF Last
  <2>. QED  BY <1>2, <2>1, <2>2, <2>3
<1>4. ASSUME NEW i \in 1..(n - d)
      PROVE /\ kept[i].id = (removed + d) + i /\ kept[i].id <= Len(sizes) /\ kept[i].length <= sizes[kept[i].id]
            /\ i < n - d => /\ Whole(kept[i]) /\ kept[i + 1].start = kept[i].start + kept[i].length
  <2>1. i + d \in 1..n /\ kept[i] = files[i + d] /\ (i < n - d => i + d < n /\ i + 1 \in 1..(n - d) /\ (i + 1) + d = (i + d) + 1)
    BY <1>1, <1>2
  <2>2. /\ files[i + d].id = removed + (i + d) /\ files[i + d].id <= Len(sizes) /\ files[i + d].length <= sizes[files[i + d].id]
        /\ i + d < n => /\ Whole(files[i + d]) /\ files[(i + d) + 1].start = files[i + d].start + files[i + d].length
    BY <2>1 DEF Row
  <2>3. i < n - d => kept[i + 1] = files[(i + d) + 1]
    BY <1>2, <2>1
  <2>. QED  BY <2>1, <2>2, <2>3
<1>5. ASSUME NEW i \in 1..(n - d), NEW j \in 1..(n - d), i < j PROVE kept[i].start + kept[i].length <= kept[j].start
  <2>1. i + d \in 1..n /\ j + d \in 1..n /\ i + d < j + d /\ kept[i] = files[i + d] /\ kept[j] = files[j + d]
    BY <1>1, <1>2, <1>5
  <2>. QED  BY <2>1 DEF Row
<1>. HIDE DEF n
<1>6. Row(kept, removed + d)
  BY <1>2, <1>4, <1>5 DEF Row
<1>. QED  BY <1>2, <1>3, <1>6 DEF n

(* The end of a row is a number, and so is                                 *)
LEMMA EndIs ==
  ASSUME NEW s \in Seq(File)
  PROVE  EndOf(s) \in Nat
<1>1. CASE s = <<>>
  BY <1>1 DEF EndOf
<1>2. CASE s # <<>>
  <2>1. Last(s) \in File
    <3>1. Len(s) \in 1..Len(s)
      BY <1>2
    <3>. QED  BY <3>1 DEF Last
  <2>2. Last(s).start \in Nat /\ Last(s).length \in Nat
    BY <2>1 DEF File
  <2>. QED  BY <1>2, <2>2 DEF EndOf
<1>. QED  BY <1>1, <1>2

(* the length of a file.                                                   *)
LEMMA LengthIs ==
  ASSUME Disk, NEW f \in 1..Len(sizes)
  PROVE  FileLength(f) \in Nat
BY DEF Disk, FileLength

(* A row with a file more, and what Merged defines by recursion.           *)
OneMore(files, f) == Append(files, [id |-> f, start |-> EndOf(files), length |-> FileLength(f)])
MergedEq(g, old, from, n) == g = [k \in 0..n |-> IF k = 0 THEN old ELSE OneMore(g[k - 1], from + k)]

(* There is such a function, and                                           *)
LEMMA MergedGiven ==
  ASSUME Disk, NEW old \in Seq(File), NEW from \in Nat, NEW n \in Nat, from + n <= Len(sizes)
  PROVE  \E g : MergedEq(g, old, from, n)
<1> DEFINE T == Seq(File)
           step == [q \in (1..n) \X T |-> OneMore(q[2], from + q[1])]
<1>1. ASSUME NEW s \in T, NEW k \in 1..n PROVE OneMore(s, from + k) \in T
  <2>1. from + k \in 1..Len(sizes) /\ from + k \in Nat
    BY DEF Disk
  <2>2. [id |-> from + k, start |-> EndOf(s), length |-> FileLength(from + k)] \in File
    BY <2>1, EndIs, LengthIs DEF File
  <2>. QED  BY <2>2 DEF OneMore
<1>2. step \in [(1..n) \X T -> T]
  <2>. HIDE DEF T
  <2>. QED  BY <1>1
<1>3. \E g : Steps(g, n, T, old, step)
  <2>. HIDE DEF step, T
  <2>1. old \in T
    BY DEF T
  <2>. QED  BY <1>2, <2>1, StepByStep
<1>4. PICK g \in [0..n -> T] : g[0] = old /\ \A i \in 1..n : g[i] = step[<<i, g[i - 1]>>]
  BY <1>3 DEF Steps
<1>5. ASSUME NEW i \in 0..n PROVE g[i] = IF i = 0 THEN old ELSE OneMore(g[i - 1], from + i)
  <2>. HIDE DEF T
  <2>1. CASE i = 0
    BY <1>4, <2>1
  <2>2. CASE i # 0
    <3>1. i \in 1..n /\ i - 1 \in 0..n
      BY <2>2
    <3>2. step[<<i, g[i - 1]>>] = OneMore(g[i - 1], from + i)
      BY <1>4, <3>1
    <3>. QED  BY <1>4, <2>2, <3>1, <3>2
  <2>. QED  BY <2>1, <2>2
<1>6. g = [i \in 0..n |-> IF i = 0 THEN old ELSE OneMore(g[i - 1], from + i)]
  <2>. HIDE DEF T, step
  <2>. QED  BY <1>4, <1>5
<1>. QED  BY <1>6 DEF MergedEq

(* each of its rows goes on with the one before.                           *)
LEMMA MergedIs ==
  ASSUME Disk, NEW kept, NEW removed \in Nat, Row(kept, removed), NEW to \in Nat, to <= Len(sizes),
         NEW from, from = removed + Len(kept), from <= to
  PROVE  /\ Row(Merged(kept, from, to), removed)
         /\ Len(Merged(kept, from, to)) = to - removed
         /\ kept # <<>> => \A i \in 1..Len(kept) : Merged(kept, from, to)[i] = Grown(kept)[i]
<1> DEFINE old == IF kept = <<>> THEN <<>> ELSE Grown(kept)
           n == to - from
           m == Len(kept)
           g == CHOOSE h : MergedEq(h, old, from, n)
<1>1. m \in Nat /\ from \in Nat /\ n \in Nat /\ from + n = to
  <2>1. m \in Nat /\ from = removed + m
    BY DEF Row
  <2>. HIDE DEF m
  <2>2. from \in Nat
    BY <2>1
  <2>. QED  BY <2>1, <2>2
<1>2. Row(old, removed) /\ AllWhole(old) /\ Len(old) = m /\ old \in Seq(File)
  <2>1. CASE kept = <<>>
    BY <2>1 DEF Row, AllWhole
  <2>2. CASE kept # <<>>
    <3>1. Row(Grown(kept), removed) /\ Len(Grown(kept)) = m /\ AllWhole(Grown(kept))
      BY <2>2, GrownRow
    <3>. QED  BY <2>2, <3>1 DEF Row
  <2>. QED  BY <2>1, <2>2
<1>. HIDE DEF old
<1>3. Merged(kept, from, to) = IF from < to THEN g[n] ELSE old
  BY DEF Merged, MergedEq, OneMore, old
<1>4. MergedEq(g, old, from, n)
  <2>. HIDE DEF n, m
  <2>1. from + n <= Len(sizes)
    BY <1>1
  <2>. QED  BY <1>1, <1>2, <2>1, MergedGiven
<1>. HIDE DEF g
<1>5. \A k \in 0..n : g[k] = IF k = 0 THEN old ELSE OneMore(g[k - 1], from + k)
  <2>. DEFINE E(k) == IF k = 0 THEN old ELSE OneMore(g[k - 1], from + k)
  <2>1. g = [k \in 0..n |-> E(k)]
    BY <1>4 DEF MergedEq
  <2>. HIDE DEF E, n
  <2>2. \A k \in 0..n : g[k] = E(k)
    BY <2>1, Zenon
  <2>. QED  BY <2>2 DEF E
<1>6. Merged(kept, from, to) = g[n]
  <2>1. CASE from < to
    BY <1>3, <2>1
  <2>2. CASE ~(from < to)
    <3>1. n = 0
      BY <1>1, <2>2
    <3>2. g[n] = old
      <4>1. 0 \in 0..n
        BY <3>1
      <4>. QED  BY <1>5, <3>1, <4>1
    <3>. QED  BY <1>3, <2>2, <3>2
  <2>. QED  BY <2>1, <2>2
<1> DEFINE Good(s, k) == /\ Row(s, removed) /\ AllWhole(s) /\ Len(s) = m + k
                         /\ \A i \in 1..m : s[i] = old[i]
           N == {k \in Nat : k <= n => Good(g[k], k)}
<1>7. 0 \in N
  <2>1. g[0] = old
    BY <1>1, <1>5
  <2>2. Good(old, 0)
    BY <1>1, <1>2
  <2>. HIDE DEF Good
  <2>. QED  BY <2>1, <2>2
<1>8. ASSUME NEW k \in N PROVE k + 1 \in N
  <2>. SUFFICES ASSUME k + 1 <= n PROVE Good(g[k + 1], k + 1)
    OBVIOUS
  <2> DEFINE f == removed + Len(g[k]) + 1
             file == [id |-> f, start |-> EndOf(g[k]), length |-> FileLength(f)]
  <2>1. Good(g[k], k) /\ k + 1 \in 0..n /\ k + 1 # 0 /\ (k + 1) - 1 = k /\ k \in Nat
    <3>. HIDE DEF Good
    <3>. QED  BY <1>1, <1>8
  <2>2. from + (k + 1) = f /\ f <= Len(sizes)
    BY <1>1, <2>1 DEF Disk
  <2>3. g[k + 1] = OneMore(g[k], from + (k + 1))
    <3>. HIDE DEF Good, n
    <3>. QED  BY <1>5, <2>1
  <2>. HIDE DEF f
  <2>4. g[k + 1] = Append(g[k], file)
    BY <2>2, <2>3 DEF OneMore
  <2>5. Row(g[k], removed) /\ AllWhole(g[k]) /\ Len(g[k]) = m + k /\ \A i \in 1..m : g[k][i] = old[i]
    BY <2>1
  <2>6. Row(Append(g[k], file), removed) /\ AllWhole(Append(g[k], file))
    <3>. HIDE DEF file
    <3>1. file = [id |-> removed + Len(g[k]) + 1, start |-> EndOf(g[k]), length |-> FileLength(removed + Len(g[k]) + 1)]
      BY DEF file, f
    <3>2. removed + Len(g[k]) + 1 <= Len(sizes)
      BY <2>2 DEF f
    <3>. QED  BY <2>5, <3>1, <3>2, AddedRow
  <2>7. Len(Append(g[k], file)) = m + (k + 1) /\ \A i \in 1..m : Append(g[k], file)[i] = old[i]
    <3>. HIDE DEF file, m
    <3>1. g[k] \in Seq(File)
      BY <2>5 DEF Row
    <3>2. file \in File
      <4>1. f \in Nat /\ f \in 1..Len(sizes)
        BY <1>1, <2>1, <2>2, <2>5 DEF Disk
      <4>. QED  BY <3>1, <4>1, EndIs, LengthIs DEF file, File
    <3>3. m + k \in Nat /\ (m + k) + 1 = m + (k + 1) /\ \A i \in 1..m : i \in 1..(m + k)
      <4>1. m \in Nat
        BY <1>1 DEF m
      <4>. QED  BY <2>1, <4>1
    <3>4. Len(Append(g[k], file)) = Len(g[k]) + 1 /\ \A i \in 1..Len(g[k]) : Append(g[k], file)[i] = g[k][i]
      BY <3>1, <3>2
    <3>. QED  BY <2>5, <3>3, <3>4
  <2>. QED  BY <2>4, <2>6, <2>7
<1>9. Good(g[n], n)
  <2>1. N = Nat
    <3>1. N \in SUBSET Nat
      OBVIOUS
    <3>. HIDE DEF N
    <3>. QED  BY <1>7, <1>8, <3>1, EveryNumber
  <2>2. n \in N
    <3>. HIDE DEF N, n
    <3>. QED  BY <1>1, <2>1
  <2>. HIDE DEF Good, n
  <2>. QED  BY <1>1, <2>2
<1>. QED  BY <1>1, <1>6, <1>9 DEF old

(* What a new row keeps of the one before. *)
Continues(files, more) ==
  /\ EndOf(files) <= EndOf(more) /\ Known(files) <= Known(more)
  /\ \A j \in 1..Len(more) : \A p \in Nat :
       In(more[j], p) =>
         \/ \E i \in 1..Len(files) : In(files[i], p) /\ ByteOf(files[i], p) = ByteOf(more[j], p)
         \/ EndOf(files) <= p /\ Known(files) < ByteOf(more[j], p)

(* files without the first d, the last of them grown, and then others. *)
LEMMA RowContinues ==
  ASSUME Disk, NEW files, NEW removed \in Nat, Row(files, removed), files # <<>>,
         NEW d \in Nat, d < Len(files), NEW more, Row(more, removed + d),
         Len(more) >= Len(files) - d,
         \A j \in 1..(Len(files) - d) :
           /\ more[j].id = files[j + d].id /\ more[j].start = files[j + d].start
           /\ more[j].length >= files[j + d].length
           /\ j < Len(files) - d => more[j].length = files[j + d].length
  PROVE  Continues(files, more)
<1> DEFINE n == Len(files)
           k == n - d
<1>1. n \in Nat /\ k \in Nat \ {0} /\ k <= Len(more) /\ k + d = n /\ Len(more) \in Nat /\ k \in 1..Len(more) /\ more # <<>> /\ removed + d \in Nat
  BY DEF Row
<1>2. /\ n \in 1..n /\ EndOf(files) = files[n].start + files[n].length /\ EndOf(files) \in Nat
      /\ Known(files) = Before(files[n].id) + files[n].length /\ Known(files) \in Nat
  BY LastIs
<1>3. /\ files[n].id \in 1..Len(sizes) /\ files[n].start \in Nat /\ files[n].length \in Nat
      /\ Before(files[n].id) \in Nat /\ sizes[files[n].id] \in Nat /\ files[n].length <= sizes[files[n].id]
  BY <1>2, FileIs
<1>4. /\ more[k].id = files[n].id /\ more[k].start = files[n].start /\ more[k].length >= files[n].length
  <2>1. k \in 1..k /\ k + d = n
    <3>. HIDE DEF n, k
    <3>. QED  BY <1>1
  <2>2. \A j \in 1..k : more[j].id = files[j + d].id /\ more[j].start = files[j + d].start
                       /\ more[j].length >= files[j + d].length
    OBVIOUS
  <2>. HIDE DEF n, k
  <2>. QED  BY <2>1, <2>2
<1>n. k = n - d /\ n = Len(files)
  OBVIOUS
<1>. HIDE DEF n, k
<1>5. /\ EndOf(more) \in Nat /\ Known(more) \in Nat
      /\ more[k].start + more[k].length <= EndOf(more) /\ Before(more[k].id) + more[k].length <= Known(more)
  BY <1>1, LastIs
<1>6. more[k].length \in Nat
  BY <1>1, FileIs
<1> DEFINE st == files[n].start
           le == files[n].length
           be == Before(files[n].id)
           ml == more[k].length
<1>a. /\ st \in Nat /\ le \in Nat /\ be \in Nat /\ ml \in Nat /\ le <= ml
      /\ EndOf(files) = st + le /\ Known(files) = be + le
  BY <1>2, <1>3, <1>4, <1>6
<1>b. st + ml <= EndOf(more) /\ be + ml <= Known(more) /\ EndOf(more) \in Nat /\ Known(more) \in Nat
  <2>1. more[k].start = st /\ Before(more[k].id) = be
    BY <1>4
  <2>. QED  BY <1>5, <2>1
<1>. HIDE DEF st, le, be, ml
<1>7. EndOf(files) <= EndOf(more) /\ Known(files) <= Known(more)
  BY <1>a, <1>b
<1>8. ASSUME NEW j \in 1..Len(more), NEW p \in Nat, In(more[j], p)
      PROVE \/ \E i \in 1..n : In(files[i], p) /\ ByteOf(files[i], p) = ByteOf(more[j], p)
            \/ EndOf(files) <= p /\ Known(files) < ByteOf(more[j], p)
  <2>1. CASE j < k
    <3>1. j \in 1..(n - d) /\ j + d \in 1..n /\ j < n - d
      <4>1. n - d \in Nat /\ n \in Nat /\ j < n - d
        <5>1. k = n - d /\ k \in Nat /\ n \in Nat /\ j < k
          BY <1>1, <1>n, <2>1, Zenon
        <5>. QED  BY <5>1
      <4>2. j \in Nat /\ j >= 1
        OBVIOUS
      <4>. QED  BY <4>1, <4>2
    <3>2. more[j].id = files[j + d].id /\ more[j].start = files[j + d].start /\ more[j].length = files[j + d].length
      BY <1>n, <3>1
    <3>3. In(files[j + d], p) /\ ByteOf(files[j + d], p) = ByteOf(more[j], p)
      BY <1>8, <3>2 DEF In, ByteOf
    <3>. QED  BY <3>1, <3>3
  <2>2. CASE j = k
    <3>1. CASE p < files[n].start + files[n].length
      <4>1. In(files[n], p) /\ ByteOf(files[n], p) = ByteOf(more[j], p)
        BY <1>4, <1>8, <2>2, <3>1 DEF In, ByteOf
      <4>. QED  BY <1>2, <4>1
    <3>2. CASE ~(p < files[n].start + files[n].length)
      <4>1. EndOf(files) <= p
        BY <1>2, <1>3, <3>2
      <4>2. ByteOf(more[j], p) = Before(files[n].id) + (p - files[n].start) + 1
        BY <1>4, <2>2 DEF ByteOf
      <4>3. Known(files) < ByteOf(more[j], p)
        <5>1. ByteOf(more[j], p) = be + (p - st) + 1
          BY <4>2 DEF be, st
        <5>. QED  BY <1>a, <4>1, <5>1
      <4>. QED  BY <4>1, <4>3
    <3>. QED  BY <3>1, <3>2
  <2>3. CASE k < j
    <3>1. more[k].start + more[k].length <= more[j].start
      BY <1>1, <2>3 DEF Row
    <3>2. /\ more[j].start \in Nat /\ more[j].id \in 1..Len(sizes) /\ Before(more[j].id) \in Nat
          /\ ByteOf(more[j], p) \in Nat /\ ByteOf(more[j], p) > Before(more[j].id)
      BY <1>1, <1>8, FileIs, InIs
    <3>3. more[j].id \in (more[k].id + 1)..Len(sizes)
      <4>1. more[j].id = (removed + d) + j /\ more[k].id = (removed + d) + k
        BY <1>1 DEF Row
      <4>. QED  BY <1>1, <2>3, <3>2, <4>1
    <3>4. Before(more[k].id) + sizes[more[k].id] <= Before(more[j].id)
      BY <1>3, <1>4, <3>3, BeforeIs
    <3>5. EndOf(files) <= p
      <4>1. st + ml <= more[j].start /\ more[j].start <= p
        BY <1>4, <1>8, <3>1 DEF st, ml, In
      <4>. QED  BY <1>a, <3>2, <4>1
    <3>6. Known(files) < ByteOf(more[j], p)
      <4>1. be + sizes[more[k].id] <= Before(more[j].id) /\ sizes[more[k].id] \in Nat /\ le <= sizes[more[k].id]
        BY <1>3, <1>4, <3>4 DEF be, le
      <4>. QED  BY <1>a, <3>2, <4>1, SMTT(30)
    <3>. QED  BY <3>5, <3>6
  <2>. QED  BY <1>1, <2>1, <2>2, <2>3
<1>. QED  BY <1>7, <1>8 DEF Continues, n

(* The numbers of files added and removed.                                 *)
CountsSet == [added : Nat, removed : Nat]

(* The inductive invariant. What the reader is doing: a closed handle is   *)
(* of a file that is gone.                                                 *)
Calls ==
  /\ position \in Nat /\ zapped \in Nat /\ fileId \in Nat /\ missing \in Nat
  /\ next \in Nat /\ zapByte \in Nat /\ handle \in BOOLEAN
  /\ recounted \in BOOLEAN /\ failed \in BOOLEAN /\ misplaced \in BOOLEAN
  /\ refreshFor \in {"open", "rewind"} => next = 0
  /\ refreshFor = "read" => missing > 0
  /\ refreshFor = "none" => refreshAt = "no"
  /\ fileId # 0 /\ ~handle => fileId <= gone

(* Its list is a row that the index had.                                   *)
Lists ==
  /\ counts \in CountsSet /\ bounds \in [start : Nat, end : Nat]
  /\ Row(tsFiles, counts.removed) /\ counts.added = counts.removed + Len(tsFiles)
  /\ counts.added <= index.added /\ counts.removed <= index.removed
  /\ bounds.end = EndOf(tsFiles)
  /\ IF tsFiles = <<>>
     THEN bounds.start = 0 /\ position = 0 /\ zapped = 0 /\ zapByte = 0 /\ next = 0
     ELSE bounds.start >= tsFiles[1].start

(* What it has seen of the index was there, and the index has only gone on *)
(* since.                                                                  *)
Look ==
  /\ refreshAt \in {"list", "footer", "apply"} =>
       /\ header \in Header /\ header.removed < header.added
       /\ counts.added <= header.added /\ header.added <= index.added
       /\ counts.removed <= header.removed /\ header.removed <= index.removed
       /\ header.position <= sizes[header.added]
       /\ tsFiles # <<>> /\ header.added = counts.added => Last(tsFiles).length <= header.position
  /\ refreshAt \in {"footer", "apply"} =>
       /\ names \in CountsSet
       /\ header.added <= names.added /\ names.added <= index.added
       /\ header.removed <= names.removed /\ names.removed <= index.removed
  /\ refreshAt = "apply" => names = Counts(header)

(* A byte from before the last zap, or of a file that was removed.         *)
Hidden(byte, zb) == byte <= zb \/ byte <= LastRemoved

(* The bytes behind the zap position are those that came since, and those  *)
(* at and behind the position are those not yet read; what is before them  *)
(* was read, or is hidden.                                                 *)
InPlace(files, range, pos, zap, nxt, zb) ==
  /\ pos <= range.end /\ zap <= range.end /\ range.start <= range.end /\ zb <= Known(files)
  /\ files # <<>> => range.start <= zap \/ range.start <= files[1].start
  /\ \A i \in 1..Len(files) : \A p \in Nat : In(files[i], p) =>
       IF p < zap THEN Hidden(ByteOf(files[i], p), zb) ELSE ByteOf(files[i], p) > zb
  /\ nxt # 0 =>
       /\ nxt <= Known(files) + 1
       /\ \A i \in 1..Len(files) : \A p \in Nat : In(files[i], p) =>
            IF p < pos THEN ByteOf(files[i], p) < nxt \/ Hidden(ByteOf(files[i], p), zb)
            ELSE ByteOf(files[i], p) >= nxt

(* So it is until positions are counted anew.                              *)
PlaceKnown ==
  ~recounted =>
    /\ InPlace(tsFiles, bounds, position, zapped, next, zapByte)
    /\ refreshAt = "done" /\ ~failed => bounds.start >= zapped
    /\ next # 0 /\ ~failed => next > zapByte

(* All parts, and nothing was skipped yet.                                 *)
TsInv == Disk /\ Lists /\ Look /\ Calls /\ PlaceKnown /\ ~misplaced

(* They show the property,                                                 *)
LEMMA TsInvFollows == TsInv => BufferInOrder
<1>. SUFFICES ASSUME TsInv PROVE BufferInOrder
  OBVIOUS
<1>1. FilesInPlace
  <2>1. ASSUME NEW i \in 1..(Len(tsFiles) - 1)
        PROVE /\ tsFiles[i + 1].id = tsFiles[i].id + 1
              /\ tsFiles[i + 1].start = tsFiles[i].start + tsFiles[i].length
              /\ tsFiles[i].length = sizes[tsFiles[i].id] \/ tsFiles[i].id <= gone
    <3>0. Len(tsFiles) \in Nat /\ counts.removed \in Nat
      BY DEF TsInv, Lists, Row, CountsSet
    <3>1. i \in 1..Len(tsFiles) /\ i + 1 \in 1..Len(tsFiles) /\ i < Len(tsFiles)
      BY <3>0
    <3>2. tsFiles[i].id = counts.removed + i /\ tsFiles[i + 1].id = counts.removed + (i + 1)
          /\ Whole(tsFiles[i]) /\ tsFiles[i + 1].start = tsFiles[i].start + tsFiles[i].length
      BY <3>1 DEF TsInv, Lists, Row
    <3>3. tsFiles[i + 1].id = tsFiles[i].id + 1
      BY <3>0, <3>2
    <3>4. tsFiles[i].length = sizes[tsFiles[i].id] \/ tsFiles[i].id <= gone
      BY <3>2 DEF Whole
    <3>. QED  BY <3>2, <3>3, <3>4
  <2>. QED  BY <2>1 DEF FilesInPlace
<1>2. ZapHolds
  BY DEF TsInv, PlaceKnown, ZapHolds
<1>. QED  BY <1>1, <1>2 DEF TsInv, BufferInOrder, NothingSkipped

(* and hold at the start.                                                  *)
LEMMA TsStarts == TsBufferInit => TsInv
<1>. SUFFICES ASSUME TsBufferInit PROVE TsInv
  OBVIOUS
<1>. USE DEF TsBufferInit
<1>1. Disk
  <2>1. sizes \in Seq(Nat) /\ Len(sizes) = 1 /\ sizes[1] = 0
    OBVIOUS
  <2>. QED  BY <2>1 DEF Disk, Header
<1>2. Lists
  <2>1. Row(tsFiles, 0) /\ Len(tsFiles) = 0
    BY DEF Row
  <2>. QED  BY <1>1, <2>1 DEF Lists, CountsSet, NoCounts, EndOf, Disk, Header
<1>3. Look
  BY DEF Look
<1>4. Calls
  BY DEF Calls
<1>5. PlaceKnown
  BY DEF PlaceKnown, InPlace, EndOf, Known
<1>. QED  BY <1>1, <1>2, <1>3, <1>4, <1>5 DEF TsInv

(* What the server did may have made the disk grow. *)
Grew ==
  /\ Len(sizes) <= Len(sizes') /\ gone <= gone'
  /\ index.added <= index'.added /\ index.removed <= index'.removed
  /\ \A f \in 1..Len(sizes) : sizes[f] <= sizes'[f] /\ (f < Len(sizes) => sizes'[f] = sizes[f])

(* So does each of its steps.                                              *)
LEMMA ServerGrows ==
  ASSUME Disk, ServerWrites \/ ServerBeginsFile \/ ServerRemovesFile \/ ServerWritesIndex
  PROVE  Disk' /\ Grew
<1> DEFINE n == Len(sizes)
<1>0. /\ sizes \in Seq(Nat) /\ n \in Nat /\ n \in 1..n /\ gone \in Nat /\ gone < n
      /\ index \in Header /\ index.removed < index.added /\ index.added <= n /\ index.removed <= gone
      /\ index.position = sizes[index.added] /\ \A f \in 1..(n - 1) : sizes[f] > 0
      /\ index.added \in Nat /\ index.removed \in Nat /\ index.position \in Nat /\ \A f \in 1..n : sizes[f] \in Nat
  BY DEF Disk, Header
<1>1. CASE ServerWrites
  <2>1. sizes' = [sizes EXCEPT ![n] = @ + 1] /\ gone' = gone
        /\ index' = IF index.added = n THEN [index EXCEPT !.position = @ + 1] ELSE index
    BY <1>1 DEF ServerWrites
  <2>2. sizes' \in Seq(Nat) /\ Len(sizes') = n /\ \A f \in 1..n : sizes'[f] = IF f = n THEN sizes[f] + 1 ELSE sizes[f]
    <3>1. sizes[n] + 1 \in Nat
      BY <1>0
    <3>. QED  BY <1>0, <2>1, <3>1
  <2>3. index' \in Header /\ index'.added = index.added /\ index'.removed = index.removed
        /\ index'.position = sizes'[index.added]
    <3>1. CASE index.added = n
      BY <1>0, <2>1, <2>2, <3>1 DEF Header
    <3>2. CASE index.added # n
      <4>1. index.added \in 1..n /\ sizes'[index.added] = sizes[index.added]
        BY <1>0, <2>2, <3>2
      <4>. QED  BY <1>0, <2>1, <3>2, <4>1
    <3>. QED  BY <3>1, <3>2
  <2>4. \A f \in 1..(n - 1) : sizes'[f] > 0
    BY <1>0, <2>2
  <2>5. Disk'
    BY <1>0, <2>1, <2>2, <2>3, <2>4 DEF Disk
  <2>6. Grew
    BY <1>0, <2>1, <2>2, <2>3 DEF Grew
  <2>. QED  BY <2>5, <2>6
<1>2. CASE ServerBeginsFile
  <2>1. sizes' = Append(sizes, 0) /\ gone' = gone /\ index' = index /\ Last(sizes) > 0
    BY <1>2 DEF ServerBeginsFile
  <2>2. sizes' \in Seq(Nat) /\ Len(sizes') = n + 1 /\ \A f \in 1..n : sizes'[f] = sizes[f]
    BY <1>0, <2>1
  <2>3. \A f \in 1..n : sizes'[f] > 0
    BY <1>0, <2>1, <2>2 DEF Last
  <2>4. index.added \in 1..n
    BY <1>0
  <2>5. Disk'
    BY <1>0, <2>1, <2>2, <2>3, <2>4 DEF Disk
  <2>6. Grew
    BY <1>0, <2>1, <2>2 DEF Grew
  <2>. QED  BY <2>5, <2>6
<1>3. CASE ServerRemovesFile
  <2>1. sizes' = sizes /\ gone' = gone + 1 /\ index' = index /\ n - gone > KeptFiles
    BY <1>3 DEF ServerRemovesFile
  <2>2. gone + 1 < n
    BY <1>0, <2>1, TsBufferAssumption
  <2>3. Disk'
    BY <1>0, <2>1, <2>2 DEF Disk
  <2>4. Grew
    BY <1>0, <2>1 DEF Grew
  <2>. QED  BY <2>3, <2>4
<1>4. CASE ServerWritesIndex
  <2>1. sizes' = sizes /\ gone' = gone /\ index' = [position |-> Last(sizes), added |-> n, removed |-> gone]
    BY <1>4 DEF ServerWritesIndex, UpToDate
  <2>2. Last(sizes) = sizes[n]
    BY DEF Last
  <2>3. index' \in Header /\ index'.added = n /\ index'.removed = gone /\ index'.position = sizes[n]
    BY <1>0, <2>1, <2>2 DEF Header
  <2>4. Disk'
    BY <1>0, <2>1, <2>3 DEF Disk
  <2>5. Grew
    BY <1>0, <2>1, <2>3 DEF Grew
  <2>. QED  BY <2>4, <2>5
<1>. QED  BY <1>1, <1>2, <1>3, <1>4

(* Files keep their place on disk.                                         *)
LEMMA BeforeStays ==
  ASSUME Disk, Grew, NEW f \in 1..Len(sizes)
  PROVE  SumTo(sizes', f - 1) = Before(f)
<1>1. Len(sizes) \in Nat /\ f - 1 \in Nat /\ NumbersTo(sizes, f - 1)
  BY DEF Disk, NumbersTo
<1>2. \A i \in 1..(f - 1) : sizes[i] = sizes'[i]
  BY <1>1 DEF Grew
<1>. QED  BY <1>1, <1>2, SumSame DEF Before

(* LastRemoved only grows. *)
LEMMA RemovedGrows ==
  ASSUME Disk, Disk', Grew
  PROVE  LastRemoved \in Nat /\ LastRemoved' \in Nat /\ LastRemoved <= LastRemoved'
<1>1. /\ Len(sizes') \in Nat /\ NumbersTo(sizes', Len(sizes')) /\ NumbersTo(sizes, Len(sizes)) /\ gone \in Nat /\ gone' \in Nat
      /\ gone < Len(sizes) /\ gone' < Len(sizes') /\ gone <= gone' /\ Len(sizes) \in Nat
  BY SMTT(30) DEF Disk, NumbersTo, Grew
<1>2. LastRemoved = SumTo(sizes', gone)
  <2>1. gone + 1 \in 1..Len(sizes) /\ (gone + 1) - 1 = gone
    BY <1>1
  <2>. QED  BY <2>1, BeforeStays DEF LastRemoved
<1>3. LastRemoved' = SumTo(sizes', gone')
  <2>1. (gone' + 1) - 1 = gone'
    <3>1. gone' \in Nat
      BY <1>1
    <3>2. \A m \in Nat : (m + 1) - 1 = m
      OBVIOUS
    <3>. QED  BY <3>1, <3>2, Zenon
  <2>. QED  BY <2>1 DEF LastRemoved, Before
<1>4. gone \in 0..Len(sizes') /\ gone' \in gone..Len(sizes')
  <2>. DEFINE n == Len(sizes')
              m == gone'
  <2>1. n \in Nat /\ m \in Nat /\ m < n /\ gone \in Nat /\ gone <= m
    <3>. HIDE DEF n, m
    <3>1. Len(sizes') = n /\ gone' = m
      BY DEF n, m
    <3>. QED  BY <1>1, <3>1
  <2>. HIDE DEF n, m
  <2>2. gone \in 0..n /\ m \in gone..n
    BY <2>1
  <2>. QED  BY <2>2 DEF n, m
<1>. QED  BY <1>1, <1>2, <1>3, <1>4, SumGrows

(* Whatever the server does, the reader's list and place mean the same.    *)
LEMMA ServerKeeps ==
  ASSUME TsInv, Disk', Grew, UNCHANGED <<listVars, readVars, lookVars, refreshAt, refreshFor, missing, ghostVars>>
  PROVE  TsInv'
<1>. USE DEF listVars, readVars, lookVars, ghostVars
<1> DEFINE n == Len(tsFiles)
<1>0. /\ Disk /\ Row(tsFiles, counts.removed) /\ counts.removed \in Nat /\ counts.added \in Nat /\ n \in Nat
      /\ Len(sizes) \in Nat /\ index.added <= Len(sizes) /\ index.removed <= gone /\ counts.added <= index.added
      /\ index.added \in Nat /\ index.removed \in Nat /\ index'.added \in Nat /\ index'.removed \in Nat
      /\ gone \in Nat /\ gone' \in Nat /\ counts.added = counts.removed + n
  BY SMTT(30) DEF TsInv, Lists, Disk, CountsSet, Row, Header
<1>1. \A i \in 1..n : /\ tsFiles[i].id \in 1..Len(sizes) /\ tsFiles[i].start \in Nat /\ tsFiles[i].length \in Nat
                      /\ Before(tsFiles[i].id)' = Before(tsFiles[i].id)
  <2>. TAKE i \in 1..n
  <2>1. /\ tsFiles[i].id \in 1..Len(sizes) /\ tsFiles[i].start \in Nat /\ tsFiles[i].length \in Nat
    BY <1>0, FileIs
  <2>2. Before(tsFiles[i].id)' = SumTo(sizes', tsFiles[i].id - 1)
    BY DEF Before
  <2>3. SumTo(sizes', tsFiles[i].id - 1) = Before(tsFiles[i].id)
    BY <1>0, <2>1, BeforeStays
  <2>. QED  BY <2>1, <2>2, <2>3
<1>2. Row(tsFiles, counts.removed)'
  <2>1. ASSUME NEW i \in 1..n
        PROVE /\ tsFiles[i].id <= Len(sizes') /\ tsFiles[i].length <= sizes'[tsFiles[i].id]
              /\ i < n => Whole(tsFiles[i])'
    <3> DEFINE f == tsFiles[i].id
               l == tsFiles[i].length
    <3>1. /\ f \in 1..Len(sizes) /\ l <= sizes[f] /\ f = counts.removed + i /\ l \in Nat
          /\ i < n => l = sizes[f] \/ (l = 0 /\ f <= gone)
      BY <1>0, <1>1 DEF Row, Whole
    <3>2. sizes[f] <= sizes'[f] /\ (f < Len(sizes) => sizes'[f] = sizes[f]) /\ Len(sizes) <= Len(sizes')
          /\ gone <= gone'
      BY <3>1 DEF Grew
    <3>3. sizes[f] \in Nat /\ sizes'[f] \in Nat /\ f \in Nat /\ Len(sizes') \in Nat
      <4>1. f \in 1..Len(sizes') /\ Len(sizes') \in Nat
        BY <1>0, <3>1, <3>2 DEF Disk
      <4>2. sizes \in Seq(Nat) /\ sizes' \in Seq(Nat)
        BY DEF TsInv, Disk
      <4>. HIDE DEF f
      <4>. QED  BY <3>1, <4>1, <4>2, SMTT(30)
    <3>4. i < n => f < Len(sizes)
      BY <1>0, <3>1
    <3>. HIDE DEF f, l
    <3>5. f <= Len(sizes') /\ l <= sizes'[f]
      BY <1>0, <3>1, <3>2, <3>3, SMTT(30)
    <3>6. i < n => l = sizes'[f] \/ (l = 0 /\ f <= gone')
      BY <1>0, <3>1, <3>2, <3>3, <3>4
    <3>. QED  BY <3>5, <3>6 DEF f, l, Whole
  <2>. QED  BY <1>0, <2>1 DEF Row
<1>3. Lists'
  <2>1. counts'.added <= index'.added /\ counts'.removed <= index'.removed
    <3>1. counts.removed <= index.removed /\ index.added <= index'.added /\ index.removed <= index'.removed
      BY DEF TsInv, Lists, Grew
    <3>. QED  BY <1>0, <3>1
  <2>2. EndOf(tsFiles)' = EndOf(tsFiles)
    BY DEF EndOf
  <2>3. tsFiles' = tsFiles /\ counts' = counts /\ bounds' = bounds /\ position' = position /\ zapped' = zapped
        /\ zapByte' = zapByte /\ next' = next
    OBVIOUS
  <2>. QED  BY <1>2, <2>1, <2>2, <2>3 DEF TsInv, Lists
<1>4. Look'
  <2>1. CASE refreshAt \in {"list", "footer", "apply"}
    <3>1. /\ header \in Header /\ header.removed < header.added
          /\ counts.added <= header.added /\ header.added <= index.added
          /\ counts.removed <= header.removed /\ header.removed <= index.removed
          /\ header.position <= sizes[header.added]
          /\ tsFiles # <<>> /\ header.added = counts.added => Last(tsFiles).length <= header.position
      BY <2>1 DEF TsInv, Look
    <3>2. header.added \in 1..Len(sizes) /\ header.position \in Nat /\ header.added \in Nat /\ header.removed \in Nat
      BY <1>0, <3>1 DEF Header
    <3>3. sizes[header.added] <= sizes'[header.added] /\ sizes[header.added] \in Nat /\ sizes'[header.added] \in Nat
      <4>1. header.added \in 1..Len(sizes')
        BY <1>0, <3>2 DEF Grew, Disk
      <4>2. sizes \in Seq(Nat) /\ sizes' \in Seq(Nat)
        BY DEF TsInv, Disk
      <4>3. sizes[header.added] <= sizes'[header.added]
        BY <3>2 DEF Grew
      <4>. QED  BY <3>2, <4>1, <4>2, <4>3
    <3>4. header.added <= index'.added /\ header.removed <= index'.removed /\ header.position <= sizes'[header.added]
      <4>1. index.added <= index'.added /\ index.removed <= index'.removed
        BY DEF Grew
      <4>. QED  BY <1>0, <3>1, <3>2, <3>3, <4>1, SMTT(30)
    <3>5. refreshAt \in {"footer", "apply"} =>
            /\ names \in CountsSet
            /\ header.added <= names.added /\ names.added <= index'.added
            /\ header.removed <= names.removed /\ names.removed <= index'.removed
      <4>1. index.added <= index'.added /\ index.removed <= index'.removed
        BY DEF Grew
      <4>2. SUFFICES ASSUME refreshAt \in {"footer", "apply"}
                     PROVE  names.added <= index'.added /\ names.removed <= index'.removed
        BY DEF TsInv, Look
      <4>3. names \in CountsSet /\ names.added <= index.added /\ names.removed <= index.removed
        BY <4>2 DEF TsInv, Look
      <4>4. names.added \in Nat /\ names.removed \in Nat
        BY <4>3 DEF CountsSet
      <4>. QED  BY <1>0, <4>1, <4>3, <4>4
    <3>6. refreshAt = "apply" => names = Counts(header)
      BY DEF TsInv, Look
    <3>. QED  BY <3>1, <3>4, <3>5, <3>6 DEF Look, Counts
  <2>2. CASE refreshAt \notin {"list", "footer", "apply"}
    BY <2>2 DEF Look
  <2>. QED  BY <2>1, <2>2
<1>5. Calls'
  <2>1. Calls /\ gone <= gone'
    BY DEF TsInv, Grew
  <2>2. fileId # 0 /\ ~handle => fileId <= gone'
    BY <1>0, <2>1 DEF Calls
  <2>. QED  BY <2>1, <2>2 DEF Calls
<1>6. PlaceKnown'
  <2>. SUFFICES ASSUME ~recounted' PROVE PlaceKnown'
    BY DEF PlaceKnown
  <2>0. ~recounted /\ InPlace(tsFiles, bounds, position, zapped, next, zapByte)
        /\ (refreshAt = "done" /\ ~failed => bounds.start >= zapped)
        /\ (next # 0 /\ ~failed => next > zapByte)
    BY DEF TsInv, PlaceKnown
  <2>1. Known(tsFiles)' = Known(tsFiles)
    <3>1. CASE tsFiles = <<>>
      BY <3>1 DEF Known
    <3>2. CASE tsFiles # <<>>
      <4>1. n \in 1..n /\ Last(tsFiles) = tsFiles[n]
        BY <1>0, <3>2, LastIs
      <4>2. Known(tsFiles) = Before(tsFiles[n].id) + tsFiles[n].length
        BY <3>2, <4>1 DEF Known
      <4>3. Known(tsFiles)' = Before(tsFiles[n].id)' + tsFiles[n].length
        <5>1. tsFiles' = tsFiles /\ Last(tsFiles)' = tsFiles[n]
          BY <4>1 DEF Last
        <5>. QED  BY <3>2, <5>1 DEF Known, Before
      <4>. QED  BY <1>1, <4>1, <4>2, <4>3
    <3>. QED  BY <3>1, <3>2
  <2>2. LastRemoved \in Nat /\ LastRemoved' \in Nat /\ LastRemoved <= LastRemoved'
    BY <1>0, RemovedGrows
  <2>3. ASSUME NEW i \in 1..n, NEW p \in Nat, In(tsFiles[i], p)
        PROVE  /\ ByteOf(tsFiles[i], p)' = ByteOf(tsFiles[i], p)
               /\ Hidden(ByteOf(tsFiles[i], p), zapByte) => Hidden(ByteOf(tsFiles[i], p), zapByte)'
    <3>1. ByteOf(tsFiles[i], p)' = Before(tsFiles[i].id)' + (p - tsFiles[i].start) + 1
      BY DEF ByteOf, Before
    <3>2. ByteOf(tsFiles[i], p)' = ByteOf(tsFiles[i], p)
      BY <1>1, <3>1 DEF ByteOf
    <3>3. ByteOf(tsFiles[i], p) \in Nat
      BY <1>0, <2>3, InIs
    <3>. QED  BY <2>2, <3>2, <3>3 DEF Hidden
  <2>4. InPlace(tsFiles, bounds, position, zapped, next, zapByte)'
    <3>1. \A i \in 1..n : \A p \in Nat : In(tsFiles[i], p) =>
            IF p < zapped THEN Hidden(ByteOf(tsFiles[i], p), zapByte)' ELSE ByteOf(tsFiles[i], p)' > zapByte
      BY <2>0, <2>3 DEF InPlace
    <3>2. next # 0 => \A i \in 1..n : \A p \in Nat : In(tsFiles[i], p) =>
            IF p < position THEN ByteOf(tsFiles[i], p)' < next \/ Hidden(ByteOf(tsFiles[i], p), zapByte)'
            ELSE ByteOf(tsFiles[i], p)' >= next
      BY <2>0, <2>3 DEF InPlace
    <3>. QED  BY <2>0, <2>1, <3>1, <3>2 DEF InPlace, In
  <2>. QED  BY <2>0, <2>4 DEF PlaceKnown
<1>7. ~misplaced'
  BY DEF TsInv
<1>. QED  BY <1>3, <1>4, <1>5, <1>6, <1>7 DEF TsInv

(* A row that goes on keeps everything in its place. *)
LEMMA InPlaceContinues ==
  ASSUME Disk, NEW files, NEW removed \in Nat, Row(files, removed), files # <<>>,
         NEW more, NEW left \in Nat, Row(more, left), more # <<>>, Continues(files, more),
         NEW pos \in Nat, NEW zap \in Nat, NEW nxt \in Nat, NEW zb \in Nat,
         NEW range, range.end = EndOf(files), InPlace(files, range, pos, zap, nxt, zb),
         NEW after, after.end = EndOf(more),
         after.start = IF zap > more[1].start THEN zap ELSE more[1].start
  PROVE  InPlace(more, after, pos, zap, nxt, zb) /\ after.start >= zap
<1>1. EndOf(files) \in Nat /\ EndOf(more) \in Nat /\ Known(files) \in Nat /\ Known(more) \in Nat
      /\ EndOf(files) <= EndOf(more) /\ Known(files) <= Known(more)
  BY LastIs DEF Continues
<1>2. more[1].start \in Nat /\ more[1].start <= EndOf(more)
  <2>1. 1 \in 1..Len(more)
    BY LastIs
  <2>. QED  BY <2>1, LastIs, FileIs
<1>3. /\ pos <= EndOf(files) /\ zap <= EndOf(files) /\ zb <= Known(files)
      /\ nxt # 0 => nxt <= Known(files) + 1
  BY DEF InPlace
<1>4. /\ pos <= after.end /\ zap <= after.end /\ after.start <= after.end /\ zb <= Known(more)
      /\ after.start <= zap \/ after.start <= more[1].start
      /\ nxt # 0 => nxt <= Known(more) + 1
      /\ after.start >= zap
  BY <1>1, <1>2, <1>3
<1>5. ASSUME NEW j \in 1..Len(more), NEW p \in Nat, In(more[j], p)
      PROVE /\ IF p < zap THEN Hidden(ByteOf(more[j], p), zb) ELSE ByteOf(more[j], p) > zb
            /\ nxt # 0 => IF p < pos THEN ByteOf(more[j], p) < nxt \/ Hidden(ByteOf(more[j], p), zb)
                          ELSE ByteOf(more[j], p) >= nxt
  <2>1. ByteOf(more[j], p) \in Nat
    BY <1>5, InIs
  <2>2. \/ \E i \in 1..Len(files) : In(files[i], p) /\ ByteOf(files[i], p) = ByteOf(more[j], p)
        \/ EndOf(files) <= p /\ Known(files) < ByteOf(more[j], p)
    BY <1>5 DEF Continues
  <2>3. CASE \E i \in 1..Len(files) : In(files[i], p) /\ ByteOf(files[i], p) = ByteOf(more[j], p)
    <3>1. PICK i \in 1..Len(files) : In(files[i], p) /\ ByteOf(files[i], p) = ByteOf(more[j], p)
      BY <2>3
    <3>2. /\ IF p < zap THEN Hidden(ByteOf(files[i], p), zb) ELSE ByteOf(files[i], p) > zb
          /\ nxt # 0 => IF p < pos THEN ByteOf(files[i], p) < nxt \/ Hidden(ByteOf(files[i], p), zb)
                        ELSE ByteOf(files[i], p) >= nxt
      BY <3>1 DEF InPlace
    <3>. QED  BY <3>1, <3>2
  <2>4. CASE EndOf(files) <= p /\ Known(files) < ByteOf(more[j], p)
    <3>1. ~(p < zap) /\ ~(p < pos) /\ ByteOf(more[j], p) > zb
      BY <1>1, <1>3, <2>1, <2>4
    <3>2. nxt # 0 => ByteOf(more[j], p) >= nxt
      BY <1>1, <1>3, <2>1, <2>4
    <3>. QED  BY <3>1, <3>2
  <2>. QED  BY <2>2, <2>3, <2>4
<1>. QED  BY <1>4, <1>5 DEF InPlace

(* Of the first row everything is new. *)
LEMMA InPlaceFirst ==
  ASSUME Disk, NEW more, NEW left \in Nat, Row(more, left), more # <<>>,
         NEW after, after.end = EndOf(more), after.start = IF 0 > more[1].start THEN 0 ELSE more[1].start
  PROVE  InPlace(more, after, 0, 0, 0, 0) /\ after.start >= 0
<1>1. EndOf(more) \in Nat /\ Known(more) \in Nat /\ 1 \in 1..Len(more)
  BY LastIs
<1>2. more[1].start \in Nat /\ more[1].start <= EndOf(more)
  BY <1>1, LastIs, FileIs
<1>3. after.start = more[1].start
  BY <1>2
<1>4. ASSUME NEW j \in 1..Len(more), NEW p \in Nat, In(more[j], p)
      PROVE IF p < 0 THEN Hidden(ByteOf(more[j], p), 0) ELSE ByteOf(more[j], p) > 0
  <2>1. ByteOf(more[j], p) \in Nat /\ ByteOf(more[j], p) > Before(more[j].id) /\ Before(more[j].id) \in Nat
    BY <1>4, InIs, FileIs
  <2>. QED  BY <2>1
<1>. QED  BY <1>1, <1>2, <1>3, <1>4 DEF InPlace

(* What Settled makes of a row. *)
LEMMA SettledIs ==
  ASSUME Disk, NEW files, NEW removed \in Nat, Row(files, removed), files # <<>>,
         NEW x, x.position \in Nat, x.position <= sizes[Last(files).id], Settled(files, x), zapped \in Nat
  PROVE  /\ Row(tsFiles', removed) /\ Len(tsFiles') = Len(files) /\ tsFiles' # <<>>
         /\ \A i \in 1..Len(files) : /\ tsFiles'[i].id = files[i].id /\ tsFiles'[i].start = files[i].start
                                     /\ i < Len(files) => tsFiles'[i] = files[i]
         /\ tsFiles'[Len(files)].length = x.position
         /\ bounds' \in [start : Nat, end : Nat]
         /\ bounds'.end = EndOf(tsFiles')
         /\ bounds'.start = IF zapped > tsFiles'[1].start THEN zapped ELSE tsFiles'[1].start
         /\ tsFiles'[1].start \in Nat
<1> DEFINE l == x.position
           all == tsFiles'
<1>1. all = Lengthened(files, l)
  BY DEF Settled, Lengthened
<1>2. bounds' = [start |-> IF zapped > files[1].start THEN zapped ELSE files[1].start, end |-> Last(files).start + l]
  BY DEF Settled
<1>3. l <= sizes[Last(files).id] /\ l \in Nat
  OBVIOUS
<1>. HIDE DEF l, all
<1>4. /\ Row(all, removed) /\ Len(all) = Len(files)
      /\ \A i \in 1..Len(files) : /\ all[i].id = files[i].id /\ all[i].start = files[i].start
                                  /\ i < Len(files) => all[i] = files[i]
      /\ all[Len(files)].length = l
  BY <1>1, <1>3, SettledRow
<1>5. Len(files) \in 1..Len(files) /\ 1 \in 1..Len(files) /\ Last(files) = files[Len(files)] /\ files[1].start \in Nat
  <2>1. Len(files) \in 1..Len(files) /\ Last(files) = files[Len(files)]
    BY LastIs
  <2>2. 1 \in 1..Len(files)
    BY <2>1
  <2>. QED  BY <2>1, <2>2, FileIs
<1>6. all # <<>>
  BY <1>4, <1>5
<1>7. EndOf(all) = all[Len(files)].start + all[Len(files)].length /\ EndOf(all) \in Nat
  BY <1>4, <1>6, LastIs
<1>8. all[1].start = files[1].start /\ all[Len(files)].start = Last(files).start
  BY <1>4, <1>5
<1>9. bounds'.end = EndOf(all)
  BY <1>2, <1>4, <1>7, <1>8
<1>10. bounds'.start = IF zapped > all[1].start THEN zapped ELSE all[1].start
  BY <1>2, <1>8
<1>11. bounds' \in [start : Nat, end : Nat]
  BY <1>2, <1>4, <1>5, <1>7, <1>8
<1>. QED  BY <1>4, <1>5, <1>6, <1>8, <1>9, <1>10, <1>11 DEF l, all

(* A reader's step that leaves the disk alone. *)
LEMMA DiskRests ==
  ASSUME Disk, UNCHANGED diskVars
  PROVE  /\ Disk' /\ LastRemoved' = LastRemoved
         /\ \A file : Whole(file)' <=> Whole(file)
         /\ \A f : Before(f)' = Before(f)
BY DEF Disk, diskVars, LastRemoved, Before, Whole

(* (As DiskRests.)                                                         *)
LEMMA RowRests ==
  ASSUME UNCHANGED diskVars, NEW removed, Row(tsFiles', counts'.removed)
  PROVE  Row(tsFiles, counts.removed)'
BY DEF Row, Whole, diskVars

(* (As DiskRests.)                                                         *)
LEMMA InPlaceRests ==
  ASSUME UNCHANGED diskVars, InPlace(tsFiles', bounds', position', zapped', next', zapByte')
  PROVE  InPlace(tsFiles, bounds, position, zapped, next, zapByte)'
BY DEF InPlace, In, ByteOf, Before, LastRemoved, Hidden, Known, diskVars

(* The row and the place of the reader after a refresh, from the row before. *)
LEMMA RefreshKeeps ==
  ASSUME TsInv, UNCHANGED <<diskVars, readVars, refreshFor, missing, next, misplaced, zapByte, failed>>,
         refreshAt' = "done", refreshFor # "none", recounted' \in BOOLEAN, recounted => recounted',
         counts' \in CountsSet, counts'.added = counts'.removed + Len(tsFiles'),
         counts'.added <= index.added, counts'.removed <= index.removed,
         Row(tsFiles', counts'.removed), tsFiles' # <<>>,
         bounds' \in [start : Nat, end : Nat], bounds'.end = EndOf(tsFiles'),
         bounds'.start = IF zapped > tsFiles'[1].start THEN zapped ELSE tsFiles'[1].start,
         tsFiles'[1].start \in Nat,
         tsFiles # <<>> /\ ~recounted' => Continues(tsFiles, tsFiles')
  PROVE  TsInv'
<1>0. /\ Disk /\ Row(tsFiles, counts.removed) /\ counts.removed \in Nat /\ counts'.removed \in Nat
      /\ zapped \in Nat /\ position \in Nat /\ next \in Nat /\ zapByte \in Nat /\ bounds'.start \in Nat
  BY DEF TsInv, Lists, Calls, CountsSet
<1>1. Disk'
  BY <1>0, DiskRests
<1>2. Row(tsFiles, counts.removed)'
  BY RowRests
<1>3. Lists'
  <2>1. index' = index
    BY DEF diskVars
  <2>2. EndOf(tsFiles)' = EndOf(tsFiles')
    BY DEF EndOf
  <2>3. bounds'.start >= tsFiles'[1].start
    BY <1>0
  <2>. QED  BY <1>2, <2>1, <2>2, <2>3 DEF Lists
<1>4. Look'
  BY DEF Look
<1>5. Calls'
  BY DEF TsInv, Calls, readVars, diskVars
<1>6. PlaceKnown'
  <2>. SUFFICES ASSUME ~recounted' PROVE PlaceKnown'
    BY DEF PlaceKnown
  <2>1. InPlace(tsFiles', bounds', position, zapped, next, zapByte) /\ bounds'.start >= zapped
    <3>1. CASE tsFiles = <<>>
      <4>1. position = 0 /\ zapped = 0 /\ next = 0 /\ zapByte = 0
        BY <3>1 DEF TsInv, Lists
      <4>2. bounds'.start = IF 0 > tsFiles'[1].start THEN 0 ELSE tsFiles'[1].start
        BY <4>1
      <4>. QED  BY <1>0, <4>1, <4>2, InPlaceFirst
    <3>2. CASE tsFiles # <<>>
      <4>1. Continues(tsFiles, tsFiles') /\ bounds.end = EndOf(tsFiles) /\ ~recounted
        BY <3>2 DEF TsInv, Lists, Calls
      <4>2. InPlace(tsFiles, bounds, position, zapped, next, zapByte)
        BY <4>1 DEF TsInv, PlaceKnown
      <4>. QED  BY <1>0, <3>2, <4>1, <4>2, InPlaceContinues
    <3>. QED  BY <3>1, <3>2
  <2>2. InPlace(tsFiles, bounds, position, zapped, next, zapByte)'
    <3>1. InPlace(tsFiles', bounds', position', zapped', next', zapByte')
      BY <2>1 DEF readVars
    <3>. QED  BY <3>1, InPlaceRests
  <2>3. next # 0 /\ ~failed => next > zapByte
    BY DEF TsInv, PlaceKnown, Calls
  <2>. QED  BY <2>1, <2>2, <2>3 DEF PlaceKnown, readVars
<1>7. ~misplaced'
  BY DEF TsInv
<1>. QED  BY <1>1, <1>3, <1>4, <1>5, <1>6, <1>7 DEF TsInv

(* A refresh that finds no file added or removed,                          *)
LEMMA RefreshEndsKeeps == TsInv /\ RefreshEnds /\ refreshFor # "none" => TsInv'
<1>. SUFFICES ASSUME TsInv, RefreshEnds, refreshFor # "none" PROVE TsInv'
  OBVIOUS
<1> DEFINE n == Len(tsFiles)
<1>0. /\ Disk /\ Row(tsFiles, counts.removed) /\ counts \in CountsSet /\ counts.added = counts.removed + n
      /\ counts.removed \in Nat /\ counts.added \in Nat /\ n \in Nat /\ zapped \in Nat
      /\ index \in Header /\ index.removed < index.added /\ index.position = sizes[index.added]
      /\ index.added \in Nat /\ index.removed \in Nat /\ index.position \in Nat
  <2>1. counts \in CountsSet /\ counts.added = counts.removed + n /\ Row(tsFiles, counts.removed)
        /\ zapped \in Nat /\ counts.removed \in Nat /\ counts.added \in Nat
    BY DEF TsInv, Lists, Calls, CountsSet
  <2>2. n \in Nat
    BY <2>1 DEF Row
  <2>3. /\ Disk /\ index \in Header /\ index.removed < index.added /\ index.position = sizes[index.added]
        /\ index.added \in Nat /\ index.removed \in Nat /\ index.position \in Nat
    BY DEF TsInv, Disk, Header
  <2>. QED  BY <2>1, <2>2, <2>3
<1>1. /\ refreshAt' = "done"
      /\ UNCHANGED <<diskVars, counts, readVars, refreshFor, missing, next, misplaced, recounted, zapByte, failed>>
      /\ index.added = counts.added /\ index.removed = counts.removed
  <2>1. Counts(index) = counts
    BY DEF RefreshEnds
  <2>2. index.added = counts.added /\ index.removed = counts.removed
    BY <1>0, <2>1 DEF Counts
  <2>. QED  BY <2>2 DEF RefreshEnds, ghostVars
<1>2. tsFiles # <<>>
  <2>1. n # 0
    BY <1>0, <1>1
  <2>. QED  BY <2>1
<1>3. Settled(tsFiles, index)
  BY <1>2 DEF RefreshEnds
<1>4. n \in 1..n /\ Last(tsFiles) = tsFiles[n] /\ tsFiles[n].id = index.added
  <2>1. n \in 1..n /\ Last(tsFiles) = tsFiles[n]
    BY <1>0, <1>2, LastIs
  <2>2. tsFiles[n].id = counts.removed + n
    BY <1>0, <2>1 DEF Row
  <2>. QED  BY <1>0, <1>1, <2>1, <2>2
<1>5. index.position <= sizes[Last(tsFiles).id]
  BY <1>0, <1>4
<1>6. /\ Row(tsFiles', counts.removed) /\ Len(tsFiles') = n /\ tsFiles' # <<>>
      /\ \A i \in 1..n : /\ tsFiles'[i].id = tsFiles[i].id /\ tsFiles'[i].start = tsFiles[i].start
                         /\ i < n => tsFiles'[i] = tsFiles[i]
      /\ tsFiles'[n].length = index.position
      /\ bounds' \in [start : Nat, end : Nat]
      /\ bounds'.end = EndOf(tsFiles')
      /\ bounds'.start = IF zapped > tsFiles'[1].start THEN zapped ELSE tsFiles'[1].start
      /\ tsFiles'[1].start \in Nat
  BY <1>0, <1>2, <1>3, <1>5, SettledIs
<1>7. Continues(tsFiles, tsFiles')
  <2>1. ASSUME NEW j \in 1..n PROVE /\ tsFiles'[j].id = tsFiles[j + 0].id /\ tsFiles'[j].start = tsFiles[j + 0].start
                                    /\ tsFiles'[j].length >= tsFiles[j + 0].length
                                    /\ j < n => tsFiles'[j].length = tsFiles[j + 0].length
    <3>1. tsFiles[j].length <= sizes[tsFiles[j].id] /\ tsFiles[j].length \in Nat
      BY <1>0, FileIs
    <3>2. CASE j = n
      BY <1>0, <1>4, <1>6, <3>1, <3>2
    <3>3. CASE j # n
      BY <1>0, <1>6, <3>1, <3>3
    <3>. QED  BY <3>2, <3>3
  <2>2. 0 < n /\ n - 0 = n /\ counts.removed + 0 = counts.removed /\ Len(tsFiles') >= n - 0
    BY <1>0, <1>4, <1>6
  <2> DEFINE more == tsFiles'
  <2>3. Row(more, counts.removed + 0) /\ Len(more) >= Len(tsFiles) - 0
    BY <1>6, <2>2
  <2>4. \A j \in 1..(Len(tsFiles) - 0) :
           /\ more[j].id = tsFiles[j + 0].id /\ more[j].start = tsFiles[j + 0].start
           /\ more[j].length >= tsFiles[j + 0].length
           /\ j < Len(tsFiles) - 0 => more[j].length = tsFiles[j + 0].length
    BY <2>1, <2>2
  <2>. HIDE DEF more, n
  <2>5. Continues(tsFiles, more)
    <3>1. 0 \in Nat /\ 0 < Len(tsFiles)
      BY <2>2 DEF n
    <3>. QED  BY <1>0, <1>2, <2>3, <2>4, <3>1, RowContinues
  <2>. QED  BY <2>5 DEF more
<1>8. counts' \in CountsSet /\ counts'.added = counts'.removed + Len(tsFiles') /\ counts'.added <= index.added
      /\ counts'.removed <= index.removed /\ Row(tsFiles', counts'.removed) /\ recounted' \in BOOLEAN
  BY <1>0, <1>1, <1>6 DEF TsInv, Calls
<1>. HIDE DEF n
<1>. QED  BY <1>1, <1>6, <1>7, <1>8, RefreshKeeps

(* and one that merges the new files into the list.                        *)
LEMMA ApplyIndexKeeps == TsInv /\ ApplyIndex /\ refreshFor # "none" => TsInv'
<1>. SUFFICES ASSUME TsInv, ApplyIndex, refreshFor # "none" PROVE TsInv'
  OBVIOUS
<1> DEFINE n == Len(tsFiles)
           drop == header.removed - counts.removed
           kept == IF drop >= n THEN <<>> ELSE SubSeq(tsFiles, drop + 1, n)
           from == names.removed + Len(kept)
           files == Merged(kept, from, names.added)
<1>0. /\ Disk /\ Row(tsFiles, counts.removed) /\ counts.added = counts.removed + n
      /\ counts.removed \in Nat /\ counts.added \in Nat /\ n \in Nat /\ zapped \in Nat
      /\ index.added <= Len(sizes) /\ Len(sizes) \in Nat /\ index.added \in Nat /\ index.removed \in Nat
  <2>1. /\ sizes \in Seq(Nat) /\ index \in Header /\ index.added <= Len(sizes)
    BY DEF TsInv, Disk
  <2>2. index.added \in Nat /\ index.removed \in Nat /\ Len(sizes) \in Nat
    BY <2>1 DEF Header
  <2>3. /\ Row(tsFiles, counts.removed) /\ counts.added = counts.removed + n /\ counts \in CountsSet
    BY DEF TsInv, Lists
  <2>4. counts.removed \in Nat /\ counts.added \in Nat
    BY <2>3 DEF CountsSet
  <2>5. n \in Nat
    BY <2>3 DEF Row
  <2>6. zapped \in Nat /\ Disk
    BY DEF TsInv, Calls
  <2>. QED  BY <2>1, <2>2, <2>3, <2>4, <2>5, <2>6
<1>1. /\ header \in Header /\ header.removed < header.added
      /\ counts.added <= header.added /\ header.added <= index.added
      /\ counts.removed <= header.removed /\ header.removed <= index.removed
      /\ header.position <= sizes[header.added]
      /\ tsFiles # <<>> /\ header.added = counts.added => Last(tsFiles).length <= header.position
      /\ names.added = header.added /\ names.removed = header.removed
      /\ header.added \in Nat /\ header.removed \in Nat /\ header.position \in Nat
  BY DEF TsInv, Look, ApplyIndex, Header, Counts
<1>2. /\ IF files = <<>> THEN tsFiles' = <<>> /\ bounds' = [start |-> 0, end |-> 0]
         ELSE Settled(files, header)
      /\ counts' = Counts(header) /\ refreshAt' = "done"
      /\ recounted' = (recounted \/ (tsFiles # <<>> /\ (kept = <<>> \/ Last(kept).id <= gone)))
      /\ UNCHANGED <<diskVars, readVars, refreshFor, missing, next, misplaced, zapByte, failed>>
  BY DEF ApplyIndex
<1>3. drop \in Nat
  BY <1>0, <1>1
<1>4. /\ Row(kept, header.removed) /\ from = header.removed + Len(kept) /\ from <= header.added
      /\ kept # <<>> => /\ drop < n /\ Len(kept) = n - drop /\ Last(kept) = Last(tsFiles)
                        /\ \A i \in 1..(n - drop) : i + drop \in 1..n /\ kept[i] = tsFiles[i + drop]
  <2>1. CASE drop >= n
    <3>1. kept = <<>> /\ Len(kept) = 0 /\ Row(<<>>, header.removed)
      BY <2>1 DEF Row
    <3>2. from = header.removed /\ from <= header.added /\ header.removed + 0 = header.removed
      <4>1. from = names.removed + 0
        BY <3>1
      <4>. HIDE DEF from
      <4>. QED  BY <1>1, <4>1
    <3>. HIDE DEF kept, from
    <3>. QED  BY <3>1, <3>2
  <2>2. CASE drop < n
    <3>1. kept = SubSeq(tsFiles, drop + 1, Len(tsFiles))
      BY <1>0, <1>3, <2>2, SMTT(30)
    <3>2. counts.removed + drop = header.removed
      BY <1>0, <1>1
    <3>3. from = header.removed + Len(kept)
      BY <1>1
    <3>. HIDE DEF kept, drop, from
    <3>4. /\ Row(kept, counts.removed + drop) /\ Len(kept) = Len(tsFiles) - drop /\ kept # <<>>
          /\ \A i \in 1..Len(kept) : i + drop \in 1..Len(tsFiles) /\ kept[i] = tsFiles[i + drop]
          /\ Last(kept) = Last(tsFiles)
      <4>1. Disk /\ counts.removed \in Nat /\ Row(tsFiles, counts.removed) /\ drop \in Nat /\ drop < Len(tsFiles)
        BY <1>0, <1>3, <2>2
      <4> DEFINE sub == Rest(tsFiles, drop)
      <4>2. kept = sub
        BY <3>1 DEF Rest
      <4>. HIDE DEF n, sub
      <4>4. /\ Row(sub, counts.removed + drop) /\ Len(sub) = Len(tsFiles) - drop /\ sub # <<>>
            /\ \A i \in 1..Len(sub) : i + drop \in 1..Len(tsFiles) /\ sub[i] = tsFiles[i + drop]
            /\ Last(sub) = Last(tsFiles)
        BY <4>1, DroppedRow DEF sub
      <4>. QED  BY <4>2, <4>4
    <3>5. from <= header.added
      BY <1>0, <1>1, <1>3, <2>2, <3>2, <3>3, <3>4
    <3>. QED  BY <2>2, <3>2, <3>3, <3>4, <3>5
  <2>. QED  BY <1>0, <1>3, <2>1, <2>2
<1>5. files = Merged(kept, from, header.added)
  BY <1>1
<1>. HIDE DEF kept, from, files
<1>6. /\ Row(files, header.removed) /\ Len(files) = header.added - header.removed
      /\ kept # <<>> => \A i \in 1..Len(kept) : files[i] = Grown(kept)[i]
  <2>1. header.added <= Len(sizes)
    BY <1>0, <1>1
  <2>2. Disk /\ header.removed \in Nat /\ header.added \in Nat /\ Row(kept, header.removed)
        /\ from = header.removed + Len(kept) /\ from <= header.added
    BY <1>0, <1>1, <1>4
  <2>3. /\ Row(Merged(kept, from, header.added), header.removed)
        /\ Len(Merged(kept, from, header.added)) = header.added - header.removed
        /\ kept # <<>> => \A i \in 1..Len(kept) : Merged(kept, from, header.added)[i] = Grown(kept)[i]
    BY <2>1, <2>2, MergedIs, SMTT(30)
  <2>. QED  BY <1>5, <2>3
<1> DEFINE m == Len(files)
<1>7. m \in Nat \ {0} /\ files # <<>> /\ m \in 1..m
  <2>1. header.added - header.removed \in Nat \ {0}
    BY <1>1
  <2>2. m \in Nat \ {0}
    BY <1>6, <2>1
  <2>. QED  BY <2>2
<1>8. Last(files) = files[m] /\ files[m].id = header.added
  <2>1. files[m].id = header.removed + m
    BY <1>6, <1>7 DEF Row
  <2>2. Last(files) = files[m]
    BY DEF Last
  <2>. QED  BY <1>1, <1>6, <2>1, <2>2
<1>9. /\ Row(tsFiles', header.removed) /\ Len(tsFiles') = m /\ tsFiles' # <<>>
      /\ \A i \in 1..m : /\ tsFiles'[i].id = files[i].id /\ tsFiles'[i].start = files[i].start
                         /\ i < m => tsFiles'[i] = files[i]
      /\ tsFiles'[m].length = header.position
      /\ bounds' \in [start : Nat, end : Nat]
      /\ bounds'.end = EndOf(tsFiles')
      /\ bounds'.start = IF zapped > tsFiles'[1].start THEN zapped ELSE tsFiles'[1].start
      /\ tsFiles'[1].start \in Nat
  <2>1. header.position <= sizes[Last(files).id] /\ Settled(files, header)
    BY <1>1, <1>2, <1>7, <1>8
  <2>. QED  BY <1>0, <1>1, <1>6, <1>7, <2>1, SettledIs
<1>10. ASSUME tsFiles # <<>>, ~recounted' PROVE Continues(tsFiles, tsFiles')
  <2>1. kept # <<>> /\ ~(Last(kept).id <= gone)
    BY <1>2, <1>10
  <2>2. /\ drop < n /\ Len(kept) = n - drop /\ Last(kept) = Last(tsFiles)
        /\ \A i \in 1..(n - drop) : i + drop \in 1..n /\ kept[i] = tsFiles[i + drop]
    BY <1>4, <2>1
  <2> DEFINE k == n - drop
  <2>3. k \in Nat \ {0} /\ k + drop = n /\ k <= m /\ (k = m => header.added = counts.added)
    <3>1. header.removed = counts.removed + drop
      BY <1>0, <1>1
    <3>2. m = header.added - header.removed
      BY <1>6
    <3>3. k = n - drop
      OBVIOUS
    <3>4. drop \in Nat /\ drop < n /\ n \in Nat /\ counts.added = counts.removed + n /\ counts.added <= header.added
          /\ counts.added \in Nat /\ counts.removed \in Nat /\ header.added \in Nat /\ header.removed \in Nat
      BY <1>0, <1>1, <1>3, <2>2
    <3>. HIDE DEF drop, m, n, k
    <3>5. k \in Nat \ {0} /\ k + drop = n
      BY <3>3, <3>4
    <3>6. m = header.added - (counts.removed + drop) /\ k = counts.added - (counts.removed + drop)
      BY <3>1, <3>2, <3>3, <3>4
    <3>. QED  BY <3>4, <3>5, <3>6
  <2>4. /\ \A i \in 1..k : /\ Grown(kept)[i].id = kept[i].id /\ Grown(kept)[i].start = kept[i].start
                           /\ i < k => Grown(kept)[i] = kept[i]
        /\ Grown(kept)[k].length = FileLength(Last(kept).id)
    <3>1. /\ \A i \in 1..Len(kept) : /\ Grown(kept)[i].id = kept[i].id /\ Grown(kept)[i].start = kept[i].start
                                     /\ i < Len(kept) => Grown(kept)[i] = kept[i]
          /\ Grown(kept)[Len(kept)].length = FileLength(Last(kept).id)
      BY <1>0, <1>1, <1>4, <2>1, GrownRow
    <3>. QED  BY <2>2, <3>1
  <2>5. \A i \in 1..k : files[i] = Grown(kept)[i]
    BY <1>6, <2>1, <2>2
  <2>6. FileLength(Last(kept).id) = sizes[Last(tsFiles).id]
    BY <2>1, <2>2 DEF FileLength
  <2>7. n \in 1..n /\ Last(tsFiles) = tsFiles[n] /\ tsFiles[n].length \in Nat /\ tsFiles[n].length <= sizes[tsFiles[n].id]
        /\ sizes[tsFiles[n].id] \in Nat
    <3>1. n \in 1..n /\ Last(tsFiles) = tsFiles[n]
      BY <1>0, <1>10, LastIs
    <3>. QED  BY <1>0, <3>1, FileIs
  <2>. HIDE DEF n, m, drop
  <2>k. k = n - drop
    OBVIOUS
  <2>. HIDE DEF k
  <2>8. ASSUME NEW j \in 1..k
        PROVE /\ tsFiles'[j].id = tsFiles[j + drop].id /\ tsFiles'[j].start = tsFiles[j + drop].start
              /\ tsFiles'[j].length >= tsFiles[j + drop].length
              /\ j < k => tsFiles'[j].length = tsFiles[j + drop].length
    <3>1. j \in 1..m /\ j \in Nat /\ (j < k => j < m) /\ j + drop \in 1..n /\ kept[j] = tsFiles[j + drop]
      <4>1. j \in 1..m /\ j \in Nat /\ (j < k => j < m)
        BY <1>7, <2>3
      <4>. QED  BY <2>2, <2>k, <4>1
    <3>2. tsFiles'[j].id = tsFiles[j + drop].id /\ tsFiles'[j].start = tsFiles[j + drop].start
      BY <1>9, <2>4, <2>5, <3>1
    <3>3. CASE j < k
      <4>1. tsFiles'[j] = tsFiles[j + drop]
        BY <1>9, <2>4, <2>5, <3>1, <3>3
      <4>2. tsFiles[j + drop].length \in Nat
        BY <1>0, <3>1, FileIs DEF n
      <4>. QED  BY <3>2, <4>1, <4>2
    <3>4. CASE j = k
      <4>1. j + drop = n
        BY <2>3, <3>4
      <4>2. tsFiles'[j].length >= tsFiles[n].length
        <5>1. CASE j < m
          <6>1. tsFiles'[j].length = sizes[tsFiles[n].id]
            BY <1>9, <2>4, <2>5, <2>6, <2>7, <3>1, <3>4, <5>1
          <6>. QED  BY <2>7, <6>1
        <5>2. CASE j = m
          <6>1. tsFiles'[j].length = header.position /\ header.added = counts.added
            BY <1>9, <2>3, <3>4, <5>2
          <6>2. Last(tsFiles).length <= header.position
            BY <1>1, <1>10, <6>1
          <6>. QED  BY <1>1, <2>7, <6>1, <6>2
        <5>. QED  BY <1>7, <3>1, <5>1, <5>2
      <4>. QED  BY <2>3, <3>2, <3>4, <4>1, <4>2
    <3>. QED  BY <2>3, <3>3, <3>4
  <2> DEFINE more == tsFiles'
  <2>9. Row(more, counts.removed + drop)
    <3>1. counts.removed + drop = header.removed
      BY <1>0, <1>1 DEF drop
    <3>. QED  BY <1>9, <3>1
  <2>10. Len(more) >= n - drop /\ \A j \in 1..(n - drop) :
           /\ more[j].id = tsFiles[j + drop].id /\ more[j].start = tsFiles[j + drop].start
           /\ more[j].length >= tsFiles[j + drop].length
           /\ j < n - drop => more[j].length = tsFiles[j + drop].length
    <3>1. Len(more) >= k
      BY <1>7, <1>9, <2>3
    <3>. QED  BY <2>8, <2>k, <3>1
  <2>. HIDE DEF more
  <2>11. Continues(tsFiles, more)
    <3>1. n = Len(tsFiles)
      BY DEF n
    <3>. QED  BY <1>0, <1>3, <1>10, <2>2, <2>9, <2>10, <3>1, RowContinues
  <2>. QED  BY <2>11 DEF more
<1>11. /\ counts' \in CountsSet /\ counts'.removed = header.removed /\ counts'.added = header.added
  BY <1>1, <1>2 DEF Counts, CountsSet
<1>12. counts'.added = counts'.removed + Len(tsFiles') /\ counts'.added <= index.added
      /\ counts'.removed <= index.removed /\ Row(tsFiles', counts'.removed)
  BY <1>1, <1>6, <1>9, <1>11
<1>13. recounted' \in BOOLEAN /\ (recounted => recounted')
  BY <1>2 DEF TsInv, Calls
<1>. HIDE DEF n, m, drop
<1>. QED  BY <1>2, <1>9, <1>10, <1>11, <1>12, <1>13, RefreshKeeps

(* The disk and the list stay,                                             *)
LEMMA ListsRest ==
  ASSUME TsInv, UNCHANGED <<diskVars, listVars>>,
         tsFiles = <<>> => position' = 0 /\ zapped' = 0 /\ zapByte' = 0 /\ next' = 0
  PROVE  Disk' /\ Lists'
<1>1. Disk'
  BY DiskRests DEF TsInv
<1>2. tsFiles' = tsFiles /\ counts' = counts /\ bounds' = bounds /\ index' = index
  BY DEF listVars, diskVars
<1>3. Row(tsFiles, counts.removed)'
  BY <1>2, RowRests DEF TsInv, Lists
<1>4. EndOf(tsFiles)' = EndOf(tsFiles)
  BY <1>2 DEF EndOf
<1>5. Lists'
  BY <1>2, <1>3, <1>4 DEF TsInv, Lists
<1>. QED  BY <1>1, <1>5

(* and are of numbers.                                                     *)
LEMMA ListsAre ==
  ASSUME TsInv
  PROVE  /\ Disk /\ Row(tsFiles, counts.removed) /\ counts.added = counts.removed + Len(tsFiles)
         /\ counts.removed \in Nat /\ counts.added \in Nat /\ Len(tsFiles) \in Nat
         /\ index.added \in Nat /\ index.removed \in Nat /\ index.position \in Nat
         /\ index.removed < index.added /\ index.added <= Len(sizes) /\ index.removed <= gone
         /\ index.position = sizes[index.added]
         /\ counts.added <= index.added /\ counts.removed <= index.removed
         /\ bounds.start \in Nat /\ bounds.end \in Nat /\ bounds.end = EndOf(tsFiles)
         /\ gone \in Nat /\ Len(sizes) \in Nat /\ gone < Len(sizes)
BY DEF TsInv, Lists, Disk, CountsSet, Header, Row

(* Looks at the index leave list and place alone.                          *)
LEMMA LooksKeep ==
  TsInv /\ (ReadHeader \/ ReadList \/ ReadFooter) /\ refreshFor # "none" => TsInv'
<1>. SUFFICES ASSUME TsInv, ReadHeader \/ ReadList \/ ReadFooter, refreshFor # "none" PROVE TsInv'
  OBVIOUS
<1>1. UNCHANGED <<diskVars, listVars, readVars, refreshFor, missing, next, misplaced, recounted, zapByte>>
      /\ (failed' = failed \/ failed' = TRUE) /\ (refreshAt' = "done" => failed' = TRUE)
  BY DEF ReadHeader, ReadList, ReadFooter, ghostVars
<1>2. Disk' /\ Lists'
  <2>1. tsFiles = <<>> => position' = 0 /\ zapped' = 0 /\ zapByte' = 0 /\ next' = 0
    BY <1>1 DEF readVars, TsInv, Lists
  <2>. QED  BY <1>1, <2>1, ListsRest
<1>3. Calls'
  BY <1>1 DEF TsInv, Calls, readVars, diskVars
<1>4. PlaceKnown'
  <2>. SUFFICES ASSUME ~recounted' PROVE PlaceKnown'
    BY DEF PlaceKnown
  <2>1. InPlace(tsFiles, bounds, position, zapped, next, zapByte) /\ (next # 0 /\ ~failed => next > zapByte)
    BY <1>1 DEF TsInv, PlaceKnown
  <2>2. InPlace(tsFiles, bounds, position, zapped, next, zapByte)'
    BY <1>1, <2>1, InPlaceRests DEF listVars, readVars
  <2>. QED  BY <1>1, <2>1, <2>2 DEF PlaceKnown, readVars
<1>5. Look'
  <2>u. tsFiles' = tsFiles /\ counts' = counts /\ index' = index /\ sizes' = sizes
    BY <1>1 DEF listVars, diskVars
  <2>1. CASE ReadHeader
    <3>1. header' = index /\ refreshAt' = "list"
      BY <2>1 DEF ReadHeader
    <3>2. index \in Header /\ index.position <= sizes[index.added]
      BY ListsAre DEF TsInv, Disk
    <3>3. tsFiles # <<>> /\ index.added = counts.added => Last(tsFiles).length <= index.position
      <4>. SUFFICES ASSUME tsFiles # <<>>, index.added = counts.added PROVE Last(tsFiles).length <= index.position
        OBVIOUS
      <4> DEFINE n == Len(tsFiles)
      <4>1. n \in 1..n /\ Last(tsFiles) = tsFiles[n]
        BY ListsAre, LastIs
      <4>2. tsFiles[n].id = counts.removed + n /\ tsFiles[n].length <= sizes[tsFiles[n].id]
        BY <4>1, ListsAre DEF Row
      <4>3. tsFiles[n].id = index.added
        BY <4>2, ListsAre
      <4>. QED  BY <4>1, <4>2, <4>3, ListsAre
    <3>. QED  BY <2>u, <3>1, <3>2, <3>3, ListsAre DEF Look
  <2>2. CASE ReadList
    <3>1. names' = Counts(index) /\ refreshAt' = "footer" /\ header' = header /\ refreshAt = "list"
      BY <2>2 DEF ReadList
    <3>2. names' \in CountsSet /\ names'.added = index.added /\ names'.removed = index.removed
      BY <3>1, ListsAre DEF Counts, CountsSet
    <3>. QED  BY <2>u, <3>1, <3>2, ListsAre DEF TsInv, Look
  <2>3. CASE ReadFooter
    <3>1. refreshAt = "footer" /\ header' = header /\ names' = names
          /\ (refreshAt' = "apply" => Counts(index) = Counts(header)) /\ refreshAt' \in {"apply", "header", "done"}
      BY <2>3 DEF ReadFooter
    <3>2. CASE refreshAt' = "apply"
      <4>1. index.added = header.added /\ index.removed = header.removed
        BY <3>1, <3>2 DEF Counts
      <4>2. /\ names \in CountsSet
            /\ header.added <= names.added /\ names.added <= index.added
            /\ header.removed <= names.removed /\ names.removed <= index.removed
        BY <3>1 DEF TsInv, Look
      <4>3. names.added = header.added /\ names.removed = header.removed
        BY <4>1, <4>2, ListsAre DEF CountsSet
      <4>4. names = Counts(header)
        BY <4>2, <4>3 DEF CountsSet, Counts
      <4>. QED  BY <2>u, <3>1, <4>4 DEF TsInv, Look, Counts
    <3>3. CASE refreshAt' # "apply"
      BY <3>1, <3>3 DEF Look
    <3>. QED  BY <3>2, <3>3
  <2>. QED  BY <2>1, <2>2, <2>3
<1>6. ~misplaced'
  BY <1>1 DEF TsInv
<1>. QED  BY <1>2, <1>3, <1>4, <1>5, <1>6 DEF TsInv

(* So does the beginning of a call.                                        *)
LEMMA BeginKeeps ==
  ASSUME TsInv, NEW what, NEW m \in Nat, Begin(what, m), what \in {"read", "size", "seek", "zap"}, what = "read" => m > 0
  PROVE  TsInv'
<1>1. /\ UNCHANGED <<diskVars, listVars, readVars, lookVars, ghostVars>>
      /\ refreshFor' = what /\ missing' = m /\ refreshAt' = "header"
  BY DEF Begin
<1>2. Disk' /\ Lists'
  <2>1. tsFiles = <<>> => position' = 0 /\ zapped' = 0 /\ zapByte' = 0 /\ next' = 0
    BY <1>1 DEF readVars, ghostVars, TsInv, Lists
  <2>. QED  BY <1>1, <2>1, ListsRest
<1>3. Calls' /\ ~misplaced'
  BY <1>1 DEF TsInv, Calls, readVars, diskVars, ghostVars
<1>4. PlaceKnown'
  <2>. SUFFICES ASSUME ~recounted' PROVE PlaceKnown'
    BY DEF PlaceKnown
  <2>1. InPlace(tsFiles, bounds, position, zapped, next, zapByte) /\ (next # 0 /\ ~failed => next > zapByte)
    BY <1>1 DEF TsInv, PlaceKnown, ghostVars
  <2>2. InPlace(tsFiles, bounds, position, zapped, next, zapByte)'
    BY <1>1, <2>1, InPlaceRests DEF listVars, readVars, ghostVars
  <2>. QED  BY <1>1, <2>1, <2>2 DEF PlaceKnown, readVars, ghostVars
<1>5. Look'
  BY <1>1 DEF Look
<1>. QED  BY <1>2, <1>3, <1>4, <1>5 DEF TsInv

(* Where a read begins, and what is before it. *)
LEMMA MovedUpIs ==
  ASSUME TsInv
  PROVE  /\ MovedUp \in Nat /\ bounds.start <= MovedUp /\ position <= MovedUp
         /\ tsFiles = <<>> => MovedUp = 0
         /\ ~recounted => InPlace(tsFiles, bounds, MovedUp, zapped, next, zapByte)
<1>1. position \in Nat /\ bounds.start \in Nat
  BY ListsAre DEF TsInv, Calls
<1>2. MovedUp \in Nat /\ bounds.start <= MovedUp /\ position <= MovedUp /\ (MovedUp = position \/ MovedUp = bounds.start)
  BY <1>1 DEF MovedUp
<1>3. tsFiles = <<>> => MovedUp = 0
  BY DEF TsInv, Lists, MovedUp
<1>4. ASSUME ~recounted PROVE InPlace(tsFiles, bounds, MovedUp, zapped, next, zapByte)
  <2>1. InPlace(tsFiles, bounds, position, zapped, next, zapByte)
    BY <1>4 DEF TsInv, PlaceKnown
  <2>2. CASE MovedUp = position
    BY <2>1, <2>2
  <2>3. CASE MovedUp = bounds.start
    <3>1. ASSUME next # 0, NEW i \in 1..Len(tsFiles), NEW p \in Nat, In(tsFiles[i], p)
          PROVE  IF p < MovedUp THEN ByteOf(tsFiles[i], p) < next \/ Hidden(ByteOf(tsFiles[i], p), zapByte)
                 ELSE ByteOf(tsFiles[i], p) >= next
      <4>1. CASE p < position
        BY <1>1, <1>2, <2>1, <3>1, <4>1 DEF InPlace
      <4>2. CASE ~(p < position) /\ ~(p < MovedUp)
        BY <2>1, <3>1, <4>2 DEF InPlace
      <4>3. CASE p < MovedUp
        <5>1. 1 \in 1..Len(tsFiles) /\ tsFiles[1].start \in Nat /\ tsFiles[1].length \in Nat /\ tsFiles[i].start \in Nat
          <6>1. 1 \in 1..Len(tsFiles)
            BY ListsAre
          <6>. QED  BY <6>1, ListsAre, FileIs
        <5>2. tsFiles[1].start <= tsFiles[i].start
          <6>1. CASE i = 1
            BY <5>1, <6>1
          <6>2. CASE i # 1
            <7>1. tsFiles[1].start + tsFiles[1].length <= tsFiles[i].start
              BY <5>1, <6>2, ListsAre DEF Row
            <7>. QED  BY <5>1, <7>1
          <6>. QED  BY <6>1, <6>2
        <5>3. bounds.start <= zapped
          <6>1. ~(bounds.start <= tsFiles[1].start)
            BY <1>1, <2>3, <3>1, <4>3, <5>1, <5>2 DEF In
          <6>2. tsFiles # <<>>
            BY <5>1
          <6>. QED  BY <2>1, <6>1, <6>2 DEF InPlace
        <5>4. p < zapped
          BY <1>1, <2>3, <4>3, <5>3 DEF TsInv, Calls
        <5>. QED  BY <2>1, <3>1, <4>3, <5>4 DEF InPlace
      <4>. QED  BY <4>1, <4>2, <4>3
    <3>2. MovedUp <= bounds.end
      BY <2>1, <2>3 DEF InPlace
    <3>. QED  BY <2>1, <3>1, <3>2 DEF InPlace
  <2>. QED  BY <1>2, <2>2, <2>3
<1>. QED  BY <1>2, <1>3, <1>4

(* A call that ends, or the opening that goes on with a seek, with the     *)
(* position in another place.                                              *)
LEMMA MoveKeeps ==
  ASSUME TsInv, UNCHANGED <<diskVars, listVars, fileId, handle, recounted, misplaced>>,
         position' \in Nat, zapped' \in Nat, zapByte' \in Nat, next' \in Nat, missing' \in Nat, failed' \in BOOLEAN,
         \/ refreshFor' = "none" /\ refreshAt' = "no"
         \/ refreshFor' = "rewind" /\ refreshAt' = "header" /\ next' = 0,
         tsFiles = <<>> => position' = 0 /\ zapped' = 0 /\ zapByte' = 0 /\ next' = 0,
         ~recounted => /\ InPlace(tsFiles, bounds, position', zapped', next', zapByte')
                       /\ next' # 0 /\ ~failed' => next' > zapByte'
  PROVE  TsInv'
<1>1. Disk' /\ Lists'
  BY ListsRest
<1>2. Look'
  BY DEF Look
<1>3. Calls' /\ ~misplaced'
  BY DEF TsInv, Calls, diskVars
<1>4. PlaceKnown'
  <2>. SUFFICES ASSUME ~recounted' PROVE PlaceKnown'
    BY DEF PlaceKnown
  <2>1. InPlace(tsFiles', bounds', position', zapped', next', zapByte')
    BY DEF listVars
  <2>2. InPlace(tsFiles, bounds, position, zapped, next, zapByte)'
    BY <2>1, InPlaceRests
  <2>. QED  BY <2>2 DEF PlaceKnown
<1>. QED  BY <1>1, <1>2, <1>3, <1>4 DEF TsInv

(* A position stays within the bounds.                                     *)
LEMMA ClampedIs ==
  ASSUME TsInv, NEW p \in Nat
  PROVE  /\ Clamped(p) \in Nat /\ Clamped(p) <= bounds.end
         /\ tsFiles = <<>> => Clamped(p) = 0
         /\ bounds.start <= bounds.end => Clamped(bounds.end) = bounds.end
<1>1. bounds.start \in Nat /\ bounds.end \in Nat
  BY ListsAre
<1>2. tsFiles = <<>> => bounds.end = 0
  BY ListsAre DEF EndOf
<1>. QED  BY <1>1, <1>2 DEF Clamped

(* The file is open,                                                       *)
LEMMA FileOpenedKeeps == TsInv /\ FileOpened => TsInv'
<1>. SUFFICES ASSUME TsInv, FileOpened PROVE TsInv'
  OBVIOUS
<1>1. /\ UNCHANGED <<diskVars, listVars, zapped, fileId, handle, lookVars, missing, ghostVars>>
      /\ refreshFor = "open" /\ refreshFor' = "rewind" /\ refreshAt' = "header" /\ position' = 0
  BY DEF FileOpened
<1>2. zapped \in Nat /\ zapByte \in Nat /\ next = 0 /\ missing \in Nat /\ failed \in BOOLEAN
  BY <1>1 DEF TsInv, Calls
<1>3. tsFiles = <<>> => zapped = 0 /\ zapByte = 0
  BY DEF TsInv, Lists
<1>4. bounds.end \in Nat
  BY ListsAre DEF TsInv, Calls
<1>5. ~recounted => InPlace(tsFiles, bounds, position', zapped, next, zapByte)
  BY <1>1, <1>2, <1>4 DEF TsInv, PlaceKnown, InPlace
<1>. QED  BY <1>1, <1>2, <1>3, <1>5, MoveKeeps DEF ghostVars

(* and read from the start.                                                *)
LEMMA RewoundKeeps == TsInv /\ Rewound => TsInv'
<1>. SUFFICES ASSUME TsInv, Rewound PROVE TsInv'
  OBVIOUS
<1>1. /\ UNCHANGED <<diskVars, listVars, zapped, fileId, handle, lookVars, ghostVars>>
      /\ refreshFor = "rewind" /\ refreshFor' = "none" /\ refreshAt' = "no" /\ missing' = 0
      /\ position' = Clamped(bounds.start)
  BY DEF Rewound, CallEnds
<1>2. zapped \in Nat /\ zapByte \in Nat /\ next = 0 /\ failed \in BOOLEAN /\ bounds.start \in Nat
  BY <1>1, ListsAre DEF TsInv, Calls
<1>3. position' \in Nat /\ position' <= bounds.end /\ (tsFiles = <<>> => position' = 0)
  BY <1>1, <1>2, ClampedIs
<1>4. tsFiles = <<>> => zapped = 0 /\ zapByte = 0
  BY DEF TsInv, Lists
<1>5. ~recounted => InPlace(tsFiles, bounds, position', zapped, next, zapByte)
  BY <1>2, <1>3 DEF TsInv, PlaceKnown, InPlace
<1>. QED  BY <1>1, <1>2, <1>3, <1>4, <1>5, MoveKeeps DEF ghostVars

(* A call that is over,                                                    *)
LEMMA SizeTakenKeeps == TsInv /\ SizeTaken => TsInv'
<1>. SUFFICES ASSUME TsInv, SizeTaken PROVE TsInv'
  OBVIOUS
<1>1. /\ UNCHANGED <<diskVars, listVars, readVars, lookVars, ghostVars>>
      /\ refreshFor' = "none" /\ refreshAt' = "no" /\ missing' = 0
  BY DEF SizeTaken, CallEnds
<1>2. position \in Nat /\ zapped \in Nat /\ zapByte \in Nat /\ next \in Nat /\ failed \in BOOLEAN
  BY DEF TsInv, Calls
<1>3. tsFiles = <<>> => position = 0 /\ zapped = 0 /\ zapByte = 0 /\ next = 0
  BY DEF TsInv, Lists
<1>4. ~recounted => InPlace(tsFiles, bounds, position, zapped, next, zapByte) /\ (next # 0 /\ ~failed => next > zapByte)
  BY DEF TsInv, PlaceKnown
<1>. QED  BY <1>1, <1>2, <1>3, <1>4, MoveKeeps DEF ghostVars, readVars

(* also one that found no byte.                                            *)
LEMMA ReadNothingKeeps == TsInv /\ ReadNothing => TsInv'
<1>. SUFFICES ASSUME TsInv, ReadNothing PROVE TsInv'
  OBVIOUS
<1>1. /\ UNCHANGED <<diskVars, listVars, zapped, fileId, handle, lookVars, ghostVars>>
      /\ refreshFor' = "none" /\ refreshAt' = "no" /\ missing' = 0 /\ position' = MovedUp
  BY DEF ReadNothing, CallEnds
<1>2. zapped \in Nat /\ zapByte \in Nat /\ next \in Nat /\ failed \in BOOLEAN
  BY DEF TsInv, Calls
<1>3. position' \in Nat /\ (tsFiles = <<>> => position' = 0)
  BY <1>1, MovedUpIs
<1>4. tsFiles = <<>> => zapped = 0 /\ zapByte = 0 /\ next = 0
  BY DEF TsInv, Lists
<1>5. ~recounted => InPlace(tsFiles, bounds, position', zapped, next, zapByte) /\ (next # 0 /\ ~failed => next > zapByte)
  BY <1>1, MovedUpIs DEF TsInv, PlaceKnown
<1>. QED  BY <1>1, <1>2, <1>3, <1>4, <1>5, MoveKeeps DEF ghostVars

(* A seek,                                                                 *)
LEMMA SetFilePointerKeeps == ASSUME TsInv, NEW p \in Nat, SetFilePointer(p) PROVE TsInv'
<1>1. /\ UNCHANGED <<diskVars, listVars, zapped, fileId, handle, misplaced, recounted, zapByte, failed>>
      /\ refreshFor' = "none" /\ refreshAt' = "no" /\ missing' = 0 /\ position' = Clamped(p) /\ next' = 0
  BY DEF SetFilePointer, CallEnds
<1>2. zapped \in Nat /\ zapByte \in Nat /\ failed \in BOOLEAN
  BY <1>1 DEF TsInv, Calls
<1>3. position' \in Nat /\ position' <= bounds.end /\ (tsFiles = <<>> => position' = 0)
  BY <1>1, ClampedIs
<1>4. tsFiles = <<>> => zapped = 0 /\ zapByte = 0
  BY DEF TsInv, Lists
<1>5. ~recounted => InPlace(tsFiles, bounds, position', zapped, next', zapByte)
  <2>. SUFFICES ASSUME ~recounted PROVE InPlace(tsFiles, bounds, position', zapped, next', zapByte)
    OBVIOUS
  <2>1. InPlace(tsFiles, bounds, position, zapped, next, zapByte)
    BY DEF TsInv, PlaceKnown
  <2>. QED  BY <1>1, <1>3, <2>1 DEF InPlace
<1>. QED  BY <1>1, <1>2, <1>3, <1>4, <1>5, MoveKeeps

(* and a zap, behind which is nothing the reader knows.                    *)
LEMMA OnChannelChangeKeeps == TsInv /\ OnChannelChange => TsInv'
<1>. SUFFICES ASSUME TsInv, OnChannelChange PROVE TsInv'
  OBVIOUS
<1> DEFINE e == Clamped(bounds.end)
<1>1. /\ UNCHANGED <<diskVars, listVars, fileId, handle, misplaced, recounted>>
      /\ refreshFor' = "none" /\ refreshAt' = "no" /\ missing' = 0 /\ position' = e /\ zapped' = e /\ next' = 0 /\ failed' = FALSE
      /\ zapByte' = LastKnownByte
  BY DEF OnChannelChange, CallEnds
<1>2. bounds.end \in Nat
  BY <1>1, ListsAre DEF TsInv, Calls
<1>3. e \in Nat /\ e <= bounds.end /\ (tsFiles = <<>> => e = 0) /\ (bounds.start <= bounds.end => e = bounds.end)
  BY <1>2, ClampedIs
<1>4. zapByte' = Known(tsFiles) /\ zapByte' \in Nat /\ (tsFiles = <<>> => zapByte' = 0)
  <2>1. zapByte' = Known(tsFiles)
    BY <1>1 DEF LastKnownByte, Known
  <2>2. CASE tsFiles = <<>>
    BY <2>1, <2>2 DEF Known
  <2>3. CASE tsFiles # <<>>
    BY <2>1, <2>3, ListsAre, LastIs
  <2>. QED  BY <2>1, <2>2, <2>3
<1>. HIDE DEF e
<1>5. ASSUME ~recounted PROVE InPlace(tsFiles, bounds, position', zapped', next', zapByte')
  <2>1. InPlace(tsFiles, bounds, position, zapped, next, zapByte)
    BY <1>5 DEF TsInv, PlaceKnown
  <2>2. bounds.start <= bounds.end /\ e = bounds.end
    BY <1>3, <2>1 DEF InPlace
  <2>3. ASSUME NEW i \in 1..Len(tsFiles), NEW p \in Nat, In(tsFiles[i], p)
        PROVE p < e /\ Hidden(ByteOf(tsFiles[i], p), zapByte')
    <3>1. ByteOf(tsFiles[i], p) <= Known(tsFiles) /\ p < EndOf(tsFiles)
      BY <2>3, ListsAre, InIs
    <3>2. EndOf(tsFiles) = e
      BY <2>2, ListsAre
    <3>. QED  BY <1>4, <3>1, <3>2 DEF Hidden
  <2>4. zapByte' <= Known(tsFiles) /\ e <= bounds.end /\ bounds.start <= e
    BY <1>2, <1>4, <2>2
  <2>. QED  BY <1>1, <2>2, <2>3, <2>4 DEF InPlace
<1>6. tsFiles = <<>> => position' = 0 /\ zapped' = 0 /\ zapByte' = 0 /\ next' = 0
  BY <1>1, <1>3, <1>4
<1>. QED  BY <1>1, <1>2, <1>3, <1>4, <1>5, <1>6, MoveKeeps

(* What is before a removed file is removed as well.                       *)
LEMMA BeforeRemoved ==
  ASSUME Disk, NEW f \in 1..Len(sizes)
  PROVE  /\ LastRemoved \in Nat
         /\ f <= gone => Before(f) + sizes[f] <= LastRemoved
         /\ f <= gone + 1 => Before(f) <= LastRemoved
<1>1. gone \in Nat /\ Len(sizes) \in Nat /\ gone < Len(sizes) /\ gone + 1 \in 1..Len(sizes)
  BY DEF Disk
<1>2. LastRemoved \in Nat
  BY <1>1, BeforeIs DEF LastRemoved
<1>3. ASSUME f <= gone PROVE Before(f) + sizes[f] <= LastRemoved
  <2>1. gone + 1 \in (f + 1)..Len(sizes)
    BY <1>1, <1>3
  <2>. QED  BY <2>1, BeforeIs DEF LastRemoved
<1>4. ASSUME f <= gone + 1 PROVE Before(f) <= LastRemoved
  <2>1. CASE f = gone + 1
    BY <1>2, <2>1 DEF LastRemoved
  <2>2. CASE f # gone + 1
    <3>1. f <= gone /\ Before(f) \in Nat /\ sizes[f] \in Nat
      BY <1>1, <1>4, <2>2, BeforeIs
    <3>. QED  BY <1>2, <1>3, <3>1
  <2>. QED  BY <2>1, <2>2
<1>. QED  BY <1>2, <1>3, <1>4

(* A position is in one file.                                              *)
LEMMA SameFile ==
  ASSUME Disk, NEW files, NEW removed \in Nat, Row(files, removed),
         NEW i \in 1..Len(files), NEW j \in 1..Len(files), NEW p \in Nat, In(files[i], p), In(files[j], p)
  PROVE  i = j
<1>1. files[i].start \in Nat /\ files[i].length \in Nat /\ files[j].start \in Nat /\ files[j].length \in Nat
  BY FileIs
<1>2. ~(i < j)
  <2>. SUFFICES ASSUME i < j PROVE FALSE
    OBVIOUS
  <2>1. files[i].start + files[i].length <= files[j].start
    BY DEF Row
  <2>. QED  BY <1>1, <2>1 DEF In
<1>3. ~(j < i)
  <2>. SUFFICES ASSUME j < i PROVE FALSE
    OBVIOUS
  <2>1. files[j].start + files[j].length <= files[i].start
    BY DEF Row
  <2>. QED  BY <1>1, <2>1 DEF In
<1>. QED  BY <1>2, <1>3

(* Byte by byte through a file.                                            *)
LEMMA BytesOn ==
  ASSUME NEW file, NEW p \in Int, NEW k \in Int, file.start \in Nat, Before(file.id) \in Nat
  PROVE  /\ ByteOf(file, p) = Before(file.id) + (p - file.start) + 1
         /\ ByteOf(file, p + k) = ByteOf(file, p) + k
<1> DEFINE b == Before(file.id)
           s == file.start
<1>1. b \in Nat /\ s \in Nat
  OBVIOUS
<1>2. ByteOf(file, p) = b + (p - s) + 1 /\ ByteOf(file, p + k) = b + ((p + k) - s) + 1
  BY DEF ByteOf
<1>3. Before(file.id) = b /\ file.start = s
  OBVIOUS
<1>. HIDE DEF b, s
<1>4. b + ((p + k) - s) + 1 = b + (p - s) + 1 + k
  BY <1>1
<1>. QED  BY <1>2, <1>3, <1>4

(* The file read from is the first that ends behind the position, and the  *)
(* position is in it.                                                      *)
LEMMA FirstWith ==
  ASSUME TsInv, NEW i \in FilesWith(MovedUp), \A l \in FilesWith(MovedUp) : i <= l
  PROVE  i \in 1..Len(tsFiles) /\ In(tsFiles[i], MovedUp)
<1> DEFINE F == FilesWith(MovedUp)
           M == MovedUp
<1>1. M \in Nat /\ bounds.start <= M /\ bounds.start \in Nat
  BY MovedUpIs, ListsAre
<1>2. F \subseteq Nat /\ DOMAIN tsFiles = 1..Len(tsFiles)
  <2>1. DOMAIN tsFiles = 1..Len(tsFiles)
    BY ListsAre DEF Row
  <2>. QED  BY <2>1 DEF FilesWith
<1>3. i \in F /\ \A l \in F : i <= l
  OBVIOUS
<1>. HIDE DEF F
<1>4. i \in 1..Len(tsFiles) /\ M < tsFiles[i].start + tsFiles[i].length
  BY <1>2, <1>3 DEF FilesWith, F
<1>. HIDE DEF M
<1>5. tsFiles[i].start \in Nat /\ tsFiles[i].length \in Nat /\ i \in Nat
  BY <1>4, ListsAre, FileIs
<1>6. tsFiles[i].start <= M
  <2>1. CASE i = 1
    <3>1. tsFiles # <<>>
      BY <1>4
    <3>2. bounds.start >= tsFiles[1].start
      BY <3>1 DEF TsInv, Lists
    <3>. QED  BY <1>1, <1>5, <2>1, <3>2
  <2>2. CASE i # 1
    <3>1. i - 1 \in 1..Len(tsFiles) /\ i - 1 < Len(tsFiles) /\ (i - 1) + 1 = i /\ i - 1 < i
      BY <1>4, <1>5, <2>2, ListsAre
    <3>2. tsFiles[i].start = tsFiles[i - 1].start + tsFiles[i - 1].length
      BY <3>1, ListsAre DEF Row
    <3>3. i - 1 \notin F
      BY <1>3, <1>5, <3>1
    <3>4. ~(M < tsFiles[i - 1].start + tsFiles[i - 1].length)
      BY <1>2, <3>1, <3>3 DEF FilesWith, F, M
    <3>. QED  BY <1>1, <1>5, <3>2, <3>4
  <2>. QED  BY <2>1, <2>2
<1>. QED  BY <1>4, <1>6 DEF In, M

(* The byte before the one at the position was passed. *)
LEMMA JustBefore ==
  ASSUME TsInv, NEW M \in Nat, InPlace(tsFiles, bounds, M, zapped, next, zapByte), next # 0,
         NEW i \in 1..Len(tsFiles), In(tsFiles[i], M)
  PROVE  Passed(ByteOf(tsFiles[i], M) - 1)
<1> DEFINE file == tsFiles[i]
           old == tsFiles[i - 1]
<1>1. /\ file.id \in 1..Len(sizes) /\ file.start \in Nat /\ file.length \in Nat /\ Before(file.id) \in Nat
      /\ i \in Nat /\ file.id = counts.removed + i
  <2>1. file.id = counts.removed + i
    BY ListsAre DEF Row
  <2>. QED  BY <2>1, ListsAre, FileIs
<1>2. \A j \in 1..Len(tsFiles), q \in Nat :
        In(tsFiles[j], q) /\ q < M => ByteOf(tsFiles[j], q) < next \/ Hidden(ByteOf(tsFiles[j], q), zapByte)
  BY DEF InPlace
<1>3. CASE M > file.start
  <2>1. M - 1 \in Nat /\ M - 1 < M /\ In(file, M - 1)
    BY <1>1, <1>3 DEF In
  <2>2. ByteOf(file, M - 1) = ByteOf(file, M) - 1
    <3>1. ByteOf(file, M + (-1)) = ByteOf(file, M) + (-1) /\ ByteOf(file, M) \in Nat
      <4>1. M \in Int /\ -1 \in Int
        OBVIOUS
      <4>2. ByteOf(file, M) \in Nat
        BY ListsAre, InIs
      <4>. HIDE DEF file
      <4>. QED  BY <1>1, <4>1, <4>2, BytesOn
    <3>2. \A x \in Nat : x + (-1) = x - 1
      OBVIOUS
    <3>. QED  BY <3>1, <3>2
  <2>3. ByteOf(file, M - 1) < next \/ Hidden(ByteOf(file, M - 1), zapByte)
    BY <1>2, <2>1
  <2>. QED  BY <2>2, <2>3 DEF Passed, Hidden
<1>4. CASE M = file.start
  <2>1. ByteOf(file, M) - 1 = Before(file.id)
    BY <1>1, <1>4 DEF ByteOf
  <2>2. CASE i = 1
    <3>1. file.id <= gone + 1
      BY <1>1, <2>2, ListsAre
    <3>. QED  BY <1>1, <2>1, <3>1, ListsAre, BeforeRemoved DEF Passed
  <2>3. CASE i # 1
    <3>1. i - 1 \in 1..Len(tsFiles) /\ i - 1 < Len(tsFiles) /\ (i - 1) + 1 = i
      BY <1>1, <2>3, ListsAre, SMTT(30)
    <3>2. Whole(old) /\ file.start = old.start + old.length /\ old.id = counts.removed + (i - 1)
      BY <3>1, ListsAre DEF Row
    <3>3. /\ old.id \in 1..Len(sizes) /\ old.start \in Nat /\ old.length \in Nat /\ Before(old.id) \in Nat
          /\ sizes[old.id] \in Nat
      BY <3>1, ListsAre, FileIs
    <3>4. old.id + 1 = file.id /\ old.id \in 1..(Len(sizes) - 1)
      <4> DEFINE f == file.id
                 g == old.id
                 r == counts.removed
                 l == Len(sizes)
      <4>1. f \in 1..l /\ g \in 1..l /\ r \in Nat /\ l \in Nat /\ f = r + i /\ g = r + (i - 1) /\ i \in Nat
        BY <1>1, <3>2, <3>3, ListsAre
      <4>. HIDE DEF f, g, r, l
      <4>2. g + 1 = f /\ g \in 1..(l - 1)
        BY <4>1
      <4>. QED  BY <4>2 DEF f, g, l
    <3>5. Before(file.id) = Before(old.id) + sizes[old.id] /\ sizes[old.id] > 0
      <4>1. Before(old.id + 1) = Before(old.id) + sizes[old.id]
        BY <3>3, ListsAre, BeforeIs
      <4>2. sizes[old.id] > 0
        BY <3>4, ListsAre DEF Disk
      <4>. QED  BY <3>4, <4>1, <4>2
    <3>6. CASE old.length = sizes[old.id]
      <4>1. M - 1 \in Nat /\ M - 1 < M /\ In(old, M - 1)
        BY <1>1, <1>4, <3>2, <3>3, <3>5, <3>6, SMTT(30) DEF In
      <4>2. ByteOf(old, M - 1) = Before(file.id)
        BY <1>1, <1>4, <3>2, <3>3, <3>5, <3>6, SMTT(30) DEF ByteOf
      <4>3. ByteOf(old, M - 1) < next \/ Hidden(ByteOf(old, M - 1), zapByte)
        BY <1>2, <3>1, <4>1
      <4>. QED  BY <2>1, <4>2, <4>3 DEF Passed, Hidden
    <3>7. CASE old.id <= gone
      BY <2>1, <3>3, <3>5, <3>7, ListsAre, BeforeRemoved DEF Passed
    <3>. QED  BY <3>2, <3>6, <3>7 DEF Whole
  <2>. QED  BY <2>2, <2>3
<1>. QED  BY <1>1, <1>3, <1>4 DEF In

(* Up to a byte read, or past a file that could not be opened. *)
LEMMA ReadOn ==
  ASSUME TsInv, NEW M \in Nat, InPlace(tsFiles, bounds, M, zapped, next, zapByte),
         NEW i \in 1..Len(tsFiles), In(tsFiles[i], M), NEW n \in Nat, n > 0,
         M + n <= tsFiles[i].start + tsFiles[i].length, NEW x \in Nat,
         x = ByteOf(tsFiles[i], M) + n \/ (x = next /\ tsFiles[i].id <= gone)
  PROVE  InPlace(tsFiles, bounds, M + n, zapped, x, zapByte)
<1> DEFINE file == tsFiles[i]
           byte == ByteOf(file, M)
           q == (M + n) - 1
<1>1. /\ file.id \in 1..Len(sizes) /\ file.start \in Nat /\ file.length \in Nat /\ Before(file.id) \in Nat
      /\ sizes[file.id] \in Nat /\ file.length <= sizes[file.id]
  BY ListsAre, FileIs
<1>2. byte \in Nat /\ byte > 0
  BY <1>1, ListsAre, InIs, SMTT(30)
<1>3. q \in Nat /\ In(file, q) /\ ByteOf(file, q) = byte + n - 1 /\ M <= q
  <2>1. q \in Nat /\ M <= q /\ q = M + (n - 1)
    OBVIOUS
  <2>2. ByteOf(file, M + (n - 1)) = ByteOf(file, M) + (n - 1)
    <3>1. M \in Int /\ n - 1 \in Int
      OBVIOUS
    <3>2. file.start \in Nat /\ Before(file.id) \in Nat
      BY <1>1
    <3>. HIDE DEF file
    <3>. QED  BY <3>1, <3>2, BytesOn
  <2>3. In(file, q)
    <3>1. file.start <= M /\ M + n <= file.start + file.length
      BY DEF In
    <3>. HIDE DEF file
    <3>2. file.start <= q /\ q < file.start + file.length
      BY <1>1, <3>1
    <3>. QED  BY <3>2 DEF In
  <2>4. byte + (n - 1) = byte + n - 1
    BY <1>2
  <2>. QED  BY <2>1, <2>2, <2>3, <2>4
<1>4. tsFiles # <<>>
  OBVIOUS
<1>5. M + n <= bounds.end
  <2>1. file.start + file.length <= EndOf(tsFiles) /\ EndOf(tsFiles) \in Nat
    BY <1>4, ListsAre, LastIs
  <2>2. M + n <= file.start + file.length /\ bounds.end = EndOf(tsFiles)
    BY ListsAre
  <2>3. \A a, b, c \in Nat : a <= b /\ b <= c => a <= c
    OBVIOUS
  <2>4. M + n \in Nat /\ file.start + file.length \in Nat
    BY <1>1, SMTT(30)
  <2>. QED  BY <2>1, <2>2, <2>3, <2>4
<1>6. CASE x = byte + n
  <2>1. x <= Known(tsFiles) + 1
    <3>1. ByteOf(file, q) <= Known(tsFiles)
      BY <1>3, ListsAre, InIs
    <3>2. Known(tsFiles) \in Nat
      BY <1>4, ListsAre, LastIs
    <3>. QED  BY <1>2, <1>3, <1>6, <3>1, <3>2
  <2>2. ASSUME NEW j \in 1..Len(tsFiles), NEW p \in Nat, In(tsFiles[j], p)
        PROVE  IF p < M + n THEN ByteOf(tsFiles[j], p) < x ELSE ByteOf(tsFiles[j], p) >= x
    <3>1. ByteOf(tsFiles[j], p) \in Nat
      BY <2>2, ListsAre, InIs
    <3>2. ASSUME p < q PROVE ByteOf(tsFiles[j], p) < byte + n - 1
      <4>1. ByteOf(tsFiles[j], p) < ByteOf(file, q)
        BY <1>3, <2>2, <3>2, ListsAre, Rising
      <4>. QED  BY <1>3, <4>1
    <3>3. ASSUME p = q PROVE ByteOf(tsFiles[j], p) = byte + n - 1
      <4>1. In(tsFiles[j], q)
        BY <2>2, <3>3
      <4>2. i = j
        BY <1>3, <4>1, ListsAre, SameFile
      <4>. QED  BY <1>3, <3>3, <4>2
    <3>4. ASSUME p > q PROVE ByteOf(tsFiles[j], p) > byte + n - 1
      <4>1. q < p
        BY <1>3, <3>4
      <4>2. ByteOf(file, q) < ByteOf(tsFiles[j], p)
        BY <1>3, <2>2, <4>1, ListsAre, Rising
      <4>. QED  BY <1>2, <1>3, <3>1, <4>2
    <3>5. (p < M + n <=> (p < q \/ p = q)) /\ (~(p < M + n) <=> p > q)
      OBVIOUS
    <3>. HIDE DEF q, byte
    <3>. QED  BY <1>2, <1>6, <3>1, <3>2, <3>3, <3>4, <3>5
  <2>. QED  BY <1>5, <2>1, <2>2 DEF InPlace
<1>7. CASE x = next /\ file.id <= gone
  <2>1. ASSUME next # 0, NEW j \in 1..Len(tsFiles), NEW p \in Nat, In(tsFiles[j], p)
        PROVE  IF p < M + n THEN ByteOf(tsFiles[j], p) < next \/ Hidden(ByteOf(tsFiles[j], p), zapByte)
               ELSE ByteOf(tsFiles[j], p) >= next
    <3>1. CASE p < M
      BY <2>1, <3>1 DEF InPlace
    <3>2. CASE p >= M /\ p < M + n
      <4>1. In(file, p)
        BY <1>1, <3>2 DEF In
      <4>2. i = j
        BY <2>1, <4>1, ListsAre, SameFile
      <4>3. ByteOf(file, p) <= Before(file.id) + file.length /\ ByteOf(file, p) \in Nat
        BY <4>1, ListsAre, InIs
      <4>4. Before(file.id) + sizes[file.id] <= LastRemoved /\ LastRemoved \in Nat
        BY <1>1, <1>7, ListsAre, BeforeRemoved
      <4>. QED  BY <1>1, <3>2, <4>2, <4>3, <4>4 DEF Hidden
    <3>3. CASE ~(p < M + n)
      <4>1. ~(p < M)
        BY <3>3
      <4>. QED  BY <2>1, <3>3, <4>1 DEF InPlace
    <3>. QED  BY <3>1, <3>2, <3>3
  <2>. QED  BY <1>5, <1>7, <2>1 DEF InPlace
<1>. QED  BY <1>6, <1>7

(* A read.                                                                 *)
LEMMA ReadFileKeeps == TsInv /\ ReadFile => TsInv'
<1>. SUFFICES ASSUME TsInv, ReadFile PROVE TsInv'
  OBVIOUS
<1> DEFINE F == FilesWith(MovedUp)
           i == CHOOSE k \in F : \A l \in F : k <= l
           file == tsFiles[i]
           M == MovedUp
           offset == M - file.start
           left == file.length - offset
           n == IF missing > left THEN left ELSE missing
           open == IF fileId = file.id THEN handle ELSE file.id > gone
           first == Before(file.id) + offset + 1
<1>1. i \in F /\ \A l \in F : i <= l
  <2>1. F \in SUBSET Nat /\ F # {}
    <3>1. DOMAIN tsFiles = 1..Len(tsFiles)
      BY ListsAre DEF Row
    <3>2. F \subseteq 1..Len(tsFiles)
      BY <3>1 DEF FilesWith
    <3>3. F # {}
      BY DEF ReadFile
    <3>. QED  BY <3>2, <3>3, ListsAre
  <2>2. \E k \in F : \A l \in F : k <= l
    BY <2>1, LeastNumber
  <2>. QED  BY <2>2
<1>2. /\ UNCHANGED <<diskVars, listVars, zapped, lookVars, recounted, zapByte, failed>>
      /\ refreshFor = "read" /\ refreshAt = "done"
      /\ fileId' = file.id /\ handle' = open /\ position' = M + n
      /\ misplaced' = (misplaced \/ (/\ open /\ next # 0 /\ ~recounted
                                     /\ first < next \/ ~Passed(first - 1)))
      /\ next' = IF open THEN first + n ELSE next
      /\ IF missing > left
         THEN refreshAt' = "header" /\ missing' = missing - n /\ UNCHANGED refreshFor
         ELSE refreshFor' = "none" /\ refreshAt' = "no" /\ missing' = 0
  BY DEF ReadFile, CallEnds
<1>. HIDE DEF i, F
<1>3. i \in 1..Len(tsFiles) /\ In(file, M)
  BY <1>1, FirstWith DEF F
<1>4. M \in Nat /\ (~recounted => InPlace(tsFiles, bounds, M, zapped, next, zapByte)) /\ bounds.start <= M
  BY MovedUpIs
<1>. HIDE DEF M
<1>5. /\ file.id \in 1..Len(sizes) /\ file.start \in Nat /\ file.length \in Nat /\ Before(file.id) \in Nat
  BY <1>3, ListsAre, FileIs
<1>6. first = ByteOf(file, M) /\ first \in Nat /\ first > 0
  <2>1. first = ByteOf(file, M)
    BY DEF ByteOf
  <2>2. ByteOf(file, M) \in Nat /\ ByteOf(file, M) > Before(file.id)
    BY <1>3, <1>4, ListsAre, InIs
  <2>3. ByteOf(file, M) > 0
    <3>1. \A a, b \in Nat : a > b => a > 0
      OBVIOUS
    <3>. QED  BY <1>5, <2>2, <3>1
  <2>. QED  BY <2>1, <2>2, <2>3
<1>7. missing \in Nat /\ missing > 0 /\ gone \in Nat
  BY <1>2, ListsAre DEF TsInv, Calls
<1>8. left \in Nat /\ left > 0 /\ M + left = file.start + file.length
  <2> DEFINE s == file.start
             l == file.length
  <2>1. s \in Nat /\ l \in Nat /\ s <= M /\ M < s + l
    BY <1>3, <1>5 DEF In
  <2>2. left = l - (M - s)
    OBVIOUS
  <2>. HIDE DEF s, l
  <2>3. l - (M - s) \in Nat /\ l - (M - s) > 0 /\ M + (l - (M - s)) = s + l
    BY <1>4, <2>1
  <2>. HIDE DEF left
  <2>. QED  BY <2>2, <2>3 DEF s, l
<1>. HIDE DEF left
<1>9. /\ n \in Nat /\ n > 0 /\ n <= left /\ M + n \in Nat /\ M + n <= M + left
      /\ (missing > left => missing - n \in Nat /\ missing - n > 0)
  BY <1>4, <1>7, <1>8
<1>. HIDE DEF n
<1>a. M + n <= file.start + file.length
  BY <1>8, <1>9
<1>b. open \in BOOLEAN /\ (~open => file.id <= gone)
  <2>1. file.id \in Nat /\ file.id # 0
    BY <1>5
  <2>2. handle \in BOOLEAN /\ (fileId # 0 /\ ~handle => fileId <= gone)
    BY DEF TsInv, Calls
  <2>3. CASE fileId = file.id
    BY <2>1, <2>2, <2>3
  <2>4. CASE fileId # file.id
    BY <1>7, <2>1, <2>4
  <2>. QED  BY <2>3, <2>4
<1>. HIDE DEF open, first
<1>c. ~misplaced'
  <2>. SUFFICES ASSUME next # 0, ~recounted PROVE ~(first < next) /\ Passed(first - 1)
    BY <1>2 DEF TsInv
  <2>1. InPlace(tsFiles, bounds, M, zapped, next, zapByte)
    BY <1>4
  <2>2. ByteOf(file, M) >= next
    <3>1. ~(M < M)
      BY <1>4
    <3>. QED  BY <1>3, <1>4, <2>1, <3>1 DEF InPlace
  <2>3. Passed(ByteOf(file, M) - 1)
    BY <1>3, <1>4, <2>1, JustBefore
  <2>4. next \in Nat
    BY DEF TsInv, Calls
  <2>. QED  BY <1>6, <2>2, <2>3, <2>4
<1>d. next' \in Nat /\ (next' = first + n \/ (next' = next /\ file.id <= gone))
  <2>1. next \in Nat
    BY DEF TsInv, Calls
  <2>. QED  BY <1>2, <1>6, <1>9, <1>b, <2>1
<1>e. Disk' /\ Lists'
  <2>1. tsFiles # <<>>
    BY <1>3
  <2>. QED  BY <1>2, <2>1, ListsRest
<1>f. Look'
  BY <1>2 DEF Look
<1>g. Calls'
  <2>1. fileId' \in Nat /\ handle' \in BOOLEAN /\ position' \in Nat /\ gone' = gone
        /\ (~handle' => fileId' <= gone')
    BY <1>2, <1>5, <1>9, <1>b DEF diskVars
  <2>2. /\ missing' \in Nat /\ (refreshFor' = "read" => missing' > 0) /\ refreshFor' \notin {"open", "rewind"}
        /\ (refreshFor' = "none" => refreshAt' = "no")
    BY <1>2, <1>9
  <2>3. misplaced' \in BOOLEAN
    <3>1. misplaced \in BOOLEAN
      BY DEF TsInv, Calls
    <3>. QED  BY <1>2, <3>1
  <2>4. zapped' = zapped /\ zapByte' = zapByte /\ recounted' = recounted /\ failed' = failed
    BY <1>2
  <2>. QED  BY <1>d, <2>1, <2>2, <2>3, <2>4 DEF TsInv, Calls
<1>h. PlaceKnown'
  <2>. SUFFICES ASSUME ~recounted' PROVE PlaceKnown'
    BY DEF PlaceKnown
  <2>1. InPlace(tsFiles, bounds, M, zapped, next, zapByte) /\ ~recounted
    BY <1>2, <1>4
  <2>2. InPlace(tsFiles, bounds, M + n, zapped, next', zapByte)
    <3> DEFINE x == next'
    <3>1. x \in Nat /\ (x = ByteOf(file, M) + n \/ (x = next /\ file.id <= gone))
      BY <1>6, <1>d
    <3>. HIDE DEF x
    <3>2. InPlace(tsFiles, bounds, M + n, zapped, x, zapByte)
      BY <1>3, <1>4, <1>9, <1>a, <2>1, <3>1, ReadOn
    <3>. QED  BY <3>2 DEF x
  <2>3. InPlace(tsFiles, bounds, position, zapped, next, zapByte)'
    BY <1>2, <2>2, InPlaceRests DEF listVars
  <2>4. ASSUME next' # 0, ~failed PROVE next' > zapByte
    <3>1. zapByte \in Nat /\ zapped \in Nat /\ next \in Nat
      BY DEF TsInv, Calls
    <3>2. CASE next' = first + n
      <4>1. bounds.start >= zapped
        BY <1>2, <2>1, <2>4 DEF TsInv, PlaceKnown
      <4>2. ~(M < zapped)
        <5>1. \A a, b, c \in Nat : a >= b /\ a <= c => ~(c < b)
          OBVIOUS
        <5>. QED  BY <1>4, <3>1, <4>1, <5>1, ListsAre
      <4>3. ByteOf(file, M) > zapByte
        BY <1>3, <1>4, <2>1, <4>2 DEF InPlace
      <4>. QED  BY <1>6, <1>9, <3>1, <3>2, <4>3
    <3>3. CASE next' = next
      BY <2>1, <2>4, <3>3 DEF TsInv, PlaceKnown
    <3>. QED  BY <1>d, <3>2, <3>3
  <2>. QED  BY <1>2, <2>3, <2>4 DEF PlaceKnown
<1>. QED  BY <1>c, <1>e, <1>f, <1>g, <1>h DEF TsInv

(* Every step of server and reader keeps the invariant.                    *)
LEMMA TsKept == TsInv /\ [TsBufferNext]_tsBufferVars => TsInv'
<1>. SUFFICES ASSUME TsInv, [TsBufferNext]_tsBufferVars PROVE TsInv'
  OBVIOUS
<1>1. CASE ServerWrites \/ ServerBeginsFile \/ ServerRemovesFile \/ ServerWritesIndex
  <2>1. Disk' /\ Grew
    BY <1>1, ServerGrows DEF TsInv
  <2>2. UNCHANGED <<listVars, readVars, lookVars, refreshAt, refreshFor, missing, ghostVars>>
    BY <1>1 DEF ServerWrites, ServerBeginsFile, ServerRemovesFile, ServerWritesIndex
  <2>. QED  BY <2>1, <2>2, ServerKeeps
<1>2. CASE \E n \in ReadSize : BeginRead(n)
  <2>1. PICK n \in ReadSize : Begin("read", n)
    BY <1>2 DEF BeginRead
  <2>2. n \in Nat /\ n > 0
    BY TsBufferAssumption
  <2>. QED  BY <2>1, <2>2, BeginKeeps
<1>3. CASE BeginGetFileSize \/ BeginSeek \/ BeginZap
  <2>1. PICK what \in {"size", "seek", "zap"} : Begin(what, 0)
    BY <1>3 DEF BeginGetFileSize, BeginSeek, BeginZap
  <2>. QED  BY <2>1, BeginKeeps
<1>4. CASE FileOpened \/ Rewound \/ SizeTaken
  BY <1>4, FileOpenedKeeps, RewoundKeeps, SizeTakenKeeps
<1>5. ASSUME RefreshEnds \/ ReadHeader \/ ReadList \/ ReadFooter \/ ApplyIndex PROVE refreshFor # "none"
  BY <1>5 DEF RefreshEnds, ReadHeader, ReadList, ReadFooter, ApplyIndex, TsInv, Calls
<1>6. CASE RefreshEnds
  BY <1>5, <1>6, RefreshEndsKeeps
<1>7. CASE ReadHeader \/ ReadList \/ ReadFooter
  BY <1>5, <1>7, LooksKeep
<1>8. CASE ApplyIndex
  BY <1>5, <1>8, ApplyIndexKeeps
<1>9. CASE ReadNothing
  BY <1>9, ReadNothingKeeps
<1>a. CASE ReadFile
  BY <1>a, ReadFileKeeps
<1>b. CASE OnChannelChange
  BY <1>b, OnChannelChangeKeeps
<1>c. CASE \E p \in 0..(FileSize * MaxFiles) : SetFilePointer(p)
  <2>1. PICK p \in 0..(FileSize * MaxFiles) : SetFilePointer(p)
    BY <1>c
  <2>2. p \in Nat
    OBVIOUS
  <2>. QED  BY <2>1, <2>2, SetFilePointerKeeps
<1>d. CASE UNCHANGED tsBufferVars
  <2>1. /\ UNCHANGED <<listVars, readVars, lookVars, refreshAt, refreshFor, missing, ghostVars>>
        /\ sizes' = sizes /\ gone' = gone /\ index' = index
    BY <1>d DEF tsBufferVars, diskVars
  <2>2. Disk'
    BY <2>1 DEF TsInv, Disk
  <2>3. Grew
    BY <2>1, ListsAre DEF Grew, TsInv, Disk
  <2>. QED  BY <2>1, <2>2, <2>3, ServerKeeps
<1>. QED  BY <1>1, <1>2, <1>3, <1>4, <1>6, <1>7, <1>8, <1>9, <1>a, <1>b, <1>c, <1>d DEF TsBufferNext

(* The time-shift buffer is read as one stream, in order and from the last *)
(* zap on, for any sizes and numbers of files, however the server writes,  *)
(* removes and rewrites its index between the reader's looks at it.        *)
THEOREM BufferKept == TsBufferSpec => []BufferInOrder
<1>1. TsBufferInit => TsInv
  BY TsStarts
<1>2. TsInv /\ [TsBufferNext]_tsBufferVars => TsInv'
  BY TsKept
<1>3. TsInv => BufferInOrder
  BY TsInvFollows
<1>. QED  BY <1>1, <1>2, <1>3, PTL DEF TsBufferSpec

-----------------------------------------------------------------------------
(* LiveTV                                                                  *)

(* A programme as the backend keeps it, a member of LiveTVTypeOK.          *)
Recorded == [length : 0..MaxLength, finished : BOOLEAN]

(* A stream is open, also while a read waits at its end.                   *)
Streaming == stage \in {"open", "waiting"}

(* The current programme of the recorder.                                  *)
Newest == Len(programs)

(* What the stages of XBMC's thread have to do with the recorder, the      *)
(* chain and a crash.                                                      *)
Opened ==
  /\ session = 0 => stage = "closed" /\ programs = <<>>
  /\ live <=> Streaming
  /\ stage # "closed" => (chained <=> Streaming)
  /\ Streaming => current # 0
  /\ live => Newest \in Unfinished
  /\ EventsFindChain

(* A file of the chain is of a programme there is, in order, and what has  *)
(* come of it was requested and is counted in its length.                  *)
FilesInOrder ==
  /\ Newest <= MaxPrograms
  /\ \A i \in DOMAIN chain : chain[i].program <= Newest /\ chain[i].pos <= chain[i].req
                             /\ chain[i].pos <= chain[i].known
  /\ ChainInOrder

(* A break that was announced and whose file is not in the chain yet:      *)
(* LIVETV_WATCH is still to come, or the signal is down.                   *)
UnderWay ==
  \/ Len(events) = 2 /\ events[1].kind = "watch" /\ events[2].kind = "chain"
  \/ ~watch /\ (events = <<>> \/ (Len(events) = 1 /\ events[1].kind = "chain"))

(* At most one break is under way, and it was announced; each file of the  *)
(* chain but the last is finished.                                         *)
Announced ==
  live /\ ~mishap =>
    /\ Unfinished \subseteq {Newest - 1, Newest}
    /\ Newest - 1 \in Unfinished => UnderWay
    /\ \A i \in 1..Len(chain) - 1 : programs[chain[i].program].finished

(* The inductive invariant of live TV.                                     *)
LiveInv == LiveTVTypeOK /\ Opened /\ FilesInOrder /\ Announced /\ NoTailLost

(* What the assumption says of the bounds.                                 *)
LEMMA LiveBounds ==
  /\ MaxPrograms \in Nat /\ MaxLength \in Nat /\ MaxSessions \in Nat /\ MaxMisses \in Nat /\ MaxSeeks \in Nat
BY LiveTVAssumption

(* The members of a programme.                                             *)
LEMMA RecordedFields ==
  /\ \A r \in Recorded : r.length \in 0..MaxLength /\ r.length \in Nat /\ r.finished \in BOOLEAN
  /\ [length |-> 0, finished |-> FALSE] \in Recorded
BY LiveBounds DEF Recorded

(* A programme that has grown, and one that is finished.                   *)
LEMMA RecordedWith ==
  /\ \A r \in Recorded, n \in 0..MaxLength :
       [r EXCEPT !.length = n] \in Recorded /\ [r EXCEPT !.length = n].finished = r.finished
  /\ \A r \in Recorded : [r EXCEPT !.finished = TRUE] \in Recorded /\ [r EXCEPT !.finished = TRUE].finished = TRUE
BY DEF Recorded

(* The members of a file of the chain.                                     *)
LEMMA FileFields ==
  \A f \in ChainFile : /\ f.program \in 1..MaxPrograms /\ f.program \in Nat
                       /\ f.known \in Nat /\ f.req \in Nat /\ f.pos \in Nat
BY LiveTVAssumption DEF ChainFile

(* A file with new positions.                                              *)
With(f, r, p, k) == [f EXCEPT !.req = r, !.pos = p, !.known = k]

(* It is a file, of the same programme.                                    *)
LEMMA FileWith ==
  ASSUME NEW f \in ChainFile, NEW r \in Nat, NEW p \in Nat, NEW k \in Nat
  PROVE  /\ With(f, r, p, k) \in ChainFile /\ With(f, r, p, k).program = f.program
         /\ With(f, r, p, k).req = r /\ With(f, r, p, k).pos = p /\ With(f, r, p, k).known = k
BY DEF ChainFile, With

(* The chain as a function.                                                *)
LEMMA ChainIs ==
  ASSUME chain \in Seq(ChainFile)
  PROVE  /\ Len(chain) \in Nat /\ DOMAIN chain = 1..Len(chain)
         /\ \A i \in 1..Len(chain) : chain[i] \in ChainFile
OBVIOUS

(* The type invariant in the terms of the proofs.                          *)
LEMMA LiveTypes ==
  ASSUME LiveTVTypeOK
  PROVE  /\ programs \in Seq(Recorded) /\ Newest \in Nat
         /\ DOMAIN programs = 1..Newest /\ \A p \in 1..Newest : programs[p] \in Recorded
         /\ events \in Seq([kind : Kind, session : 1..MaxSessions])
         /\ chain \in Seq(ChainFile) /\ Len(chain) \in Nat /\ DOMAIN chain = 1..Len(chain)
         /\ current \in 0..Len(chain)
         /\ Unfinished = {p \in 1..Newest : ~programs[p].finished}
<1>1. /\ programs \in Seq(Recorded)
      /\ events \in Seq([kind : Kind, session : 1..MaxSessions])
      /\ chain \in Seq(ChainFile) /\ current \in 0..Len(chain)
  BY DEF LiveTVTypeOK, Recorded
<1>2. Newest \in Nat /\ DOMAIN programs = 1..Newest /\ \A p \in 1..Newest : programs[p] \in Recorded
  BY <1>1 DEF Newest
<1>. QED  BY <1>1, <1>2, ChainIs DEF Unfinished

(* The least of a set of numbers.                                          *)
LEMMA MinOf ==
  ASSUME NEW T, T \subseteq Nat, T # {}
  PROVE  Min(T) \in T /\ \A y \in T : Min(T) <= y
<1>1. \E x \in T : \A y \in T : x <= y
  BY LeastNumber
<1>. QED  BY <1>1 DEF Min

(* The greatest of a bounded set of numbers.                               *)
LEMMA MaxOf ==
  ASSUME NEW n \in Nat, NEW T, T \subseteq 1..n, T # {}
  PROVE  Max(T) \in T /\ \A y \in T : y <= Max(T)
<1> DEFINE below == {d \in 0..n : n - d \in T}
<1>1. below \subseteq Nat /\ below # {}
  <2>1. PICK y \in T : TRUE
    OBVIOUS
  <2>2. y \in 1..n /\ n - y \in 0..n /\ n - (n - y) = y
    BY <2>1
  <2>3. n - y \in below
    BY <2>1, <2>2
  <2>4. below \subseteq Nat
    OBVIOUS
  <2>. HIDE DEF below
  <2>. QED  BY <2>3, <2>4
<1>2. PICK d \in below : \A e \in below : d <= e
  <2>. HIDE DEF below
  <2>. QED  BY <1>1, LeastNumber
<1>3. n - d \in T /\ \A y \in T : y <= n - d
  <2>1. ASSUME NEW y \in T PROVE y <= n - d
    <3>1. y \in 1..n /\ n - y \in 0..n /\ n - (n - y) = y
      OBVIOUS
    <3>2. d <= n - y /\ d \in 0..n
      BY <1>2, <3>1
    <3>. QED  BY <3>1, <3>2
  <2>. QED  BY <2>1
<1>4. \E x \in T : \A y \in T : x >= y
  BY <1>3
<1>. QED  BY <1>4 DEF Max

(* The greater of two numbers.                                             *)
LEMMA MaxOfTwo ==
  ASSUME NEW a \in Nat, NEW b \in Nat
  PROVE  Max({a, b}) \in Nat /\ a <= Max({a, b}) /\ b <= Max({a, b})
<1>1. \E x \in {a, b} : \A y \in {a, b} : x >= y
  OBVIOUS
<1>2. Max({a, b}) \in {a, b} /\ \A y \in {a, b} : Max({a, b}) >= y
  BY <1>1 DEF Max
<1>. QED  BY <1>2

(* The files lie one behind the other: each begins where the one before it *)
(* ends.                                                                   *)
LEMMA ChainOffsets ==
  ASSUME chain \in Seq(ChainFile)
  PROVE  /\ \A i \in 1..Len(chain) + 1 : ChainBefore(i) \in Nat
         /\ ChainBefore(1) = 0
         /\ ChainLength \in Nat /\ ChainLength = ChainBefore(Len(chain) + 1)
         /\ \A i \in 1..Len(chain) : chain[i].known \in Nat /\ ChainBefore(i + 1) = ChainBefore(i) + chain[i].known
         /\ \A i \in 1..Len(chain), j \in 1..Len(chain) + 1 :
              i < j => ChainBefore(i) + chain[i].known <= ChainBefore(j)
<1> DEFINE f == [j \in DOMAIN chain |-> chain[j].known]
           n == Len(chain)
<1>1. n \in Nat /\ NumbersTo(f, n) /\ \A i \in 1..n : f[i] = chain[i].known /\ chain[i].known \in Nat
  <2>1. \A i \in 1..n : chain[i].known \in Nat
    BY ChainIs, FileFields
  <2>. QED  BY <2>1, ChainIs DEF NumbersTo
<1>2. \A i \in 1..n + 1 : ChainBefore(i) = SumTo(f, i - 1)
  BY DEF ChainBefore
<1>3. ChainLength = ChainBefore(n + 1)
  BY DEF ChainLength
<1>. HIDE DEF f, n
<1>4. \A i \in 1..n + 1 : ChainBefore(i) \in Nat
  <2>. TAKE i \in 1..n + 1
  <2>1. i - 1 \in 0..n /\ n \in (i - 1)..n
    BY <1>1
  <2>2. SumTo(f, i - 1) \in Nat
    BY <1>1, <2>1, SumGrows
  <2>. QED  BY <1>2, <2>2
<1>5. ChainBefore(1) = 0
  <2>1. 1 \in 1..n + 1 /\ SumTo(f, 0) = 0
    BY <1>1, SumIs
  <2>. QED  BY <1>2, <2>1
<1>6. ASSUME NEW i \in 1..n PROVE ChainBefore(i + 1) = ChainBefore(i) + chain[i].known
  <2>1. i \in Nat /\ i # 0 /\ NumbersTo(f, i) /\ i \in 1..n + 1 /\ i + 1 \in 1..n + 1 /\ (i + 1) - 1 = i
    BY <1>1 DEF NumbersTo
  <2>2. SumTo(f, i) = SumTo(f, i - 1) + f[i]
    BY <2>1, SumIs
  <2>. QED  BY <1>1, <1>2, <2>1, <2>2
<1>7. ASSUME NEW i \in 1..n, NEW j \in 1..n + 1, i < j PROVE ChainBefore(i) + chain[i].known <= ChainBefore(j)
  <2>1. i - 1 \in 0..n /\ j - 1 \in (i - 1)..n /\ i - 1 < j - 1 /\ (i - 1) + 1 = i /\ i \in 1..n + 1
    BY <1>1, <1>7
  <2>2. SumTo(f, i - 1) + f[i] <= SumTo(f, j - 1)
    BY <1>1, <2>1, SumGrows
  <2>. QED  BY <1>1, <1>2, <2>1, <2>2
<1>8. 1..n + 1 = 1..Len(chain) + 1 /\ 1..n = 1..Len(chain) /\ n + 1 \in 1..n + 1
  BY <1>1 DEF n
<1>. QED  BY <1>1, <1>3, <1>4, <1>5, <1>6, <1>7, <1>8 DEF n

(* A position relative to the current file is found in the file it belongs *)
(* to, if the chain has it.                                                *)
LEMMA RelativeLands ==
  ASSUME chain \in Seq(ChainFile), current \in 1..Len(chain), NEW o \in Int
  PROVE  /\ \A t \in Relative(o) :
              /\ t.file \in 1..Len(chain) /\ t.offset \in Nat /\ t.move
              /\ ChainBefore(t.file) + t.offset = o + ChainBefore(current)
         /\ o + ChainBefore(current) \in 0..ChainLength => Relative(o) # {}
<1> DEFINE n == Len(chain)
           b(i) == ChainBefore(i)
           k(i) == chain[i].known
           from(i) == o + b(current) - b(i)
           onward == {i \in current..n : from(i) <= k(i)}
           back == {i \in 1..(current - 1) : from(i) >= 0}
<1>1. /\ n \in Nat /\ current \in 1..n /\ b(current) \in Nat
      /\ \A i \in 1..n + 1 : b(i) \in Nat
      /\ b(1) = 0 /\ ChainLength = b(n + 1)
      /\ \A i \in 1..n : k(i) \in Nat /\ b(i + 1) = b(i) + k(i)
  BY ChainOffsets
<1>2. Relative(o) = LET file == IF o >= 0 THEN Min(onward) ELSE Max(back)
                    IN  IF (IF o >= 0 THEN onward ELSE back) = {} THEN {}
                        ELSE {[file |-> file, offset |-> from(file), move |-> TRUE]}
  BY DEF Relative
<1>. HIDE DEF n, b, k
<1>3. CASE o >= 0
  <2>1. ASSUME onward # {} PROVE Min(onward) \in current..n /\ from(Min(onward)) >= 0
    <3>1. Min(onward) \in onward /\ \A y \in onward : Min(onward) <= y
      <4>1. onward \subseteq Nat
        BY <1>1
      <4>. HIDE DEF onward
      <4>. QED  BY <2>1, <4>1, MinOf
    <3>. DEFINE m == Min(onward)
    <3>2. m \in current..n /\ from(m) <= k(m) /\ \A y \in current..n : from(y) <= k(y) => m <= y
      BY <3>1
    <3>. HIDE DEF m, onward
    <3>3. CASE m = current
      BY <1>1, <1>3, <3>3 DEF m
    <3>4. CASE m # current
      <4>1. m - 1 \in current..n /\ m - 1 \in 1..n /\ (m - 1) + 1 = m /\ ~(m <= m - 1)
        BY <1>1, <3>2, <3>4
      <4>2. b(m) = b(m - 1) + k(m - 1) /\ b(m - 1) \in Nat /\ k(m - 1) \in Nat
        <5>1. m - 1 \in 1..n + 1
          BY <1>1, <4>1
        <5>. QED  BY <1>1, <4>1, <5>1
      <4>4. ~(from(m - 1) <= k(m - 1))
        <5>. HIDE DEF from
        <5>. QED  BY <3>2, <4>1
      <4>3. from(m) >= 0
        BY <1>1, <4>2, <4>4
      <4>. QED  BY <3>2, <4>3 DEF m
    <3>. QED  BY <3>3, <3>4, <3>2 DEF m
  <2>2. ASSUME o + b(current) \in 0..ChainLength PROVE onward # {}
    <3>1. n \in 1..n /\ b(n) \in Nat /\ k(n) \in Nat /\ b(n + 1) = b(n) + k(n) /\ b(current) \in Nat /\ n \in current..n
      BY <1>1
    <3>2. from(n) <= k(n)
      BY <1>1, <2>2, <3>1
    <3>. QED  BY <3>1, <3>2
  <2>3. ASSUME onward # {}
        PROVE  LET t == [file |-> Min(onward), offset |-> from(Min(onward)), move |-> TRUE]
               IN  /\ t.file \in 1..n /\ t.offset \in Nat /\ t.move
                   /\ b(t.file) + t.offset = o + b(current)
    <3>1. Min(onward) \in current..n /\ from(Min(onward)) >= 0
      BY <2>1, <2>3
    <3>. DEFINE m == Min(onward)
    <3>2. m \in 1..n /\ from(m) >= 0
      BY <1>1, <3>1
    <3>. HIDE DEF m, onward
    <3>3. b(m) \in Nat
      BY <1>1, <3>2
    <3>4. from(m) \in Nat /\ b(m) + from(m) = o + b(current)
      BY <1>1, <3>2, <3>3, SMTT(30)
    <3>. QED  BY <3>2, <3>4 DEF m
  <2>. HIDE DEF onward, back, from
  <2>. QED  BY <1>2, <1>3, <2>2, <2>3 DEF n, b
<1>4. CASE ~(o >= 0)
  <2>1. ASSUME back # {} PROVE Max(back) \in 1..(current - 1) /\ from(Max(back)) >= 0
    <3>1. back \subseteq 1..n /\ n \in Nat
      BY <1>1
    <3>2. Max(back) \in back
      <4>. HIDE DEF back
      <4>. QED  BY <2>1, <3>1, MaxOf
    <3>. QED  BY <3>2
  <2>2. ASSUME o + b(current) \in 0..ChainLength PROVE back # {}
    <3>1. b(current) \in Nat /\ b(current) # 0
      BY <1>1, <1>4, <2>2
    <3>2. current # 1
      BY <1>1, <3>1
    <3>3. 1 \in 1..(current - 1) /\ from(1) >= 0
      BY <1>1, <2>2, <3>1, <3>2
    <3>. QED  BY <3>3
  <2>3. ASSUME back # {}
        PROVE  LET t == [file |-> Max(back), offset |-> from(Max(back)), move |-> TRUE]
               IN  /\ t.file \in 1..n /\ t.offset \in Nat /\ t.move
                   /\ b(t.file) + t.offset = o + b(current)
    <3>1. Max(back) \in 1..(current - 1) /\ from(Max(back)) >= 0
      BY <2>1, <2>3
    <3>. DEFINE m == Max(back)
    <3>2. m \in 1..n /\ from(m) >= 0
      BY <1>1, <3>1
    <3>. HIDE DEF m, back
    <3>3. b(m) \in Nat
      BY <1>1, <3>2
    <3>4. from(m) \in Nat /\ b(m) + from(m) = o + b(current)
      BY <1>1, <3>2, <3>3, SMTT(30)
    <3>. QED  BY <3>2, <3>4 DEF m
  <2>. HIDE DEF onward, back, from
  <2>. QED  BY <1>2, <1>4, <2>2, <2>3 DEF n, b
<1>. QED  BY <1>3, <1>4

(* A position of the chain is found in the file it belongs to, if it is    *)
(* before the end.                                                         *)
LEMMA AbsoluteLands ==
  ASSUME chain \in Seq(ChainFile), chain # <<>>, NEW o \in 0..ChainLength
  PROVE  \A t \in Absolute(o) :
            /\ t.file \in 1..Len(chain) /\ t.offset \in Nat
            /\ o < ChainLength => t.move /\ ChainBefore(t.file) + t.offset = o
<1> DEFINE n == Len(chain)
           b(i) == ChainBefore(i)
           k(i) == chain[i].known
           files == {i \in 1..n : o < b(i) + k(i)}
<1>1. /\ n \in Nat \ {0} /\ o \in Int
      /\ \A i \in 1..n + 1 : b(i) \in Nat
      /\ b(1) = 0 /\ ChainLength = b(n + 1)
      /\ \A i \in 1..n : k(i) \in Nat /\ b(i + 1) = b(i) + k(i)
  BY ChainOffsets
<1>2. Absolute(o) = IF files = {} THEN {[file |-> n, offset |-> o - ChainLength, move |-> FALSE]}
                    ELSE {[file |-> Min(files), offset |-> o - b(Min(files)), move |-> TRUE]}
  BY ChainIs DEF Absolute
<1>. HIDE DEF n, b, k
<1>3. ChainLength \in Nat /\ n + 1 \in 1..n + 1 /\ n \in 1..n /\ b(n) \in Nat /\ k(n) \in Nat /\ b(n + 1) = b(n) + k(n)
  BY <1>1
<1>4. CASE files = {}
  <2>1. ~(o < b(n) + k(n))
    BY <1>3, <1>4
  <2>2. o = ChainLength
    BY <1>1, <1>3, <2>1
  <2>. HIDE DEF files
  <2>. QED  BY <1>2, <1>3, <1>4, <2>2 DEF n, b
<1>5. CASE files # {}
  <2>1. Min(files) \in files /\ \A y \in files : Min(files) <= y
    <3>1. files \subseteq Nat
      BY <1>1
    <3>. HIDE DEF files
    <3>. QED  BY <1>5, <3>1, MinOf
  <2>. DEFINE m == Min(files)
  <2>2. m \in 1..n /\ \A y \in 1..n : o < b(y) + k(y) => m <= y
    BY <2>1
  <2>. HIDE DEF m, files
  <2>3. o >= b(m)
    <3>1. CASE m = 1
      BY <1>1, <3>1
    <3>2. CASE m # 1
      <4>1. m - 1 \in 1..n /\ (m - 1) + 1 = m /\ ~(m <= m - 1)
        BY <1>1, <2>2, <3>2
      <4>2. ~(o < b(m - 1) + k(m - 1)) /\ b(m) = b(m - 1) + k(m - 1) /\ b(m) \in Nat
        BY <1>1, <2>2, <4>1
      <4>. QED  BY <1>1, <4>2
    <3>. QED  BY <3>1, <3>2
  <2>4. b(m) \in Nat
    BY <1>1, <2>2
  <2>5. Absolute(o) = {[file |-> m, offset |-> o - b(m), move |-> TRUE]}
    BY <1>2, <1>5 DEF m
  <2>6. o - b(m) \in Nat /\ b(m) + (o - b(m)) = o
    BY <1>1, <2>3, <2>4
  <2>. QED  BY <2>2, <2>5, <2>6 DEF n, b
<1>. QED  BY <1>4, <1>5

(* A file sought in is where it was asked to go, when SEEK_SET asks or no  *)
(* requested block is outstanding.                                         *)
LEMMA SoughtIs ==
  ASSUME NEW f \in ChainFile, NEW o \in Nat, NEW whence, f.pos <= f.req, f.pos <= f.known
  PROVE  LET g == Sought(f, o, whence)
         IN  /\ g \in ChainFile /\ g.program = f.program
             /\ g.pos <= g.req /\ g.pos <= g.known
             /\ whence = "set" \/ f.req = f.pos => g.pos = o
<1>1. CASE o = IF whence = "set" THEN f.pos ELSE f.req
  BY <1>1 DEF Sought, ChainFile
<1>2. CASE ~(o = IF whence = "set" THEN f.pos ELSE f.req)
  <2>1. f.known \in Nat
    BY DEF ChainFile
  <2>. DEFINE m == Max({f.known, o})
  <2>2. m \in Nat /\ o <= m
    BY <2>1, MaxOfTwo
  <2>3. Sought(f, o, whence) = With(f, o, o, m)
    BY <1>2, Zenon DEF Sought, With
  <2>. HIDE DEF m
  <2>. DEFINE g == With(f, o, o, m)
  <2>4. g \in ChainFile /\ g.program = f.program /\ g.req = o /\ g.pos = o /\ g.known = m
    BY <2>2, FileWith
  <2>. HIDE DEF g
  <2>. QED  BY <2>2, <2>3, <2>4 DEF g
<1>. QED  BY <1>1, <1>2

(* A seek goes to a file of the chain.                                     *)
LEMMA SeekTyped ==
  ASSUME LiveTVTypeOK, current \in 1..Len(chain), NEW whence \in Whence,
         NEW o \in (IF whence = "set" THEN 0 ELSE -ChainLength)..ChainLength
  PROVE  \A t \in SeekTarget(o, whence) : t.file \in 1..Len(chain) /\ t.offset \in Nat
<1>1. chain \in Seq(ChainFile) /\ Len(chain) \in Nat /\ chain # <<>> /\ current \in 1..Len(chain) + 1
  BY DEF LiveTVTypeOK
<1>2. ChainLength \in Nat /\ ChainBefore(current) \in Nat /\ chain[current].req \in Nat /\ o \in Int
  BY <1>1, ChainOffsets, ChainIs, FileFields
<1>3. CASE whence = "set"
  <2>1. o \in 0..ChainLength
    BY <1>3
  <2>. QED  BY <1>1, <1>3, <2>1, AbsoluteLands DEF SeekTarget
<1>4. CASE whence # "set"
  <2>. DEFINE toEnd == ChainLength - ChainBefore(current) - chain[current].req
              rel == IF whence = "end" THEN o + toEnd ELSE o
              at == rel + chain[current].req
  <2>1. at \in Int
    BY <1>2
  <2>2. SeekTarget(o, whence) \subseteq Relative(at)
    BY <1>4 DEF SeekTarget
  <2>. HIDE DEF at
  <2>. QED  BY <1>1, <2>1, <2>2, RelativeLands
<1>. QED  BY <1>3, <1>4

(* A seek lands where it is asked to.                                      *)
LEMMA SeeksLand == LiveInv => SeekLands
<1>. SUFFICES ASSUME LiveInv, stage = "open", NEW whence \in Whence, NEW o \in -ChainLength..ChainLength
              PROVE  LET now == ChainBefore(current) + chain[current].pos
                         want == IF whence = "set" THEN o ELSE IF whence = "cur" THEN now + o ELSE ChainLength + o
                         legal == want \in 0..ChainLength /\ (IF whence = "set" THEN want < ChainLength ELSE Drained)
                     IN  (legal /\ want # now) =>
                           \E t \in SeekTarget(o, whence) :
                             t.move /\ ChainBefore(t.file) + Sought(chain[t.file], t.offset, whence).pos = want
  BY DEF SeekLands
<1>1. chain \in Seq(ChainFile) /\ Len(chain) \in Nat /\ chain # <<>> /\ current \in 1..Len(chain) /\ current \in 1..Len(chain) + 1
  BY DEF LiveInv, LiveTVTypeOK, Opened, Streaming
<1>. DEFINE now == ChainBefore(current) + chain[current].pos
            want == IF whence = "set" THEN o ELSE IF whence = "cur" THEN now + o ELSE ChainLength + o
<1>2. ChainLength \in Nat /\ ChainBefore(current) \in Nat /\ chain[current].req \in Nat /\ chain[current].pos \in Nat /\ o \in Int
  BY <1>1, ChainOffsets, ChainIs, FileFields
<1>3. \A i \in 1..Len(chain) : chain[i] \in ChainFile /\ chain[i].pos <= chain[i].req /\ chain[i].pos <= chain[i].known
  BY <1>1 DEF LiveInv, FilesInOrder
<1>. SUFFICES ASSUME want \in 0..ChainLength, IF whence = "set" THEN want < ChainLength ELSE Drained, want # now
              PROVE  \E t \in SeekTarget(o, whence) :
                        t.move /\ ChainBefore(t.file) + Sought(chain[t.file], t.offset, whence).pos = want
  OBVIOUS
<1>4. CASE whence = "set"
  <2>1. o \in 0..ChainLength /\ o < ChainLength /\ want = o
    BY <1>4
  <2>2. PICK t \in Absolute(o) : TRUE
    BY DEF Absolute
  <2>3. t.file \in 1..Len(chain) /\ t.offset \in Nat /\ t.move /\ ChainBefore(t.file) + t.offset = o
    BY <1>1, <2>1, AbsoluteLands
  <2>4. Sought(chain[t.file], t.offset, whence).pos = t.offset
    BY <1>3, <1>4, <2>3, SoughtIs
  <2>5. t \in SeekTarget(o, whence)
    BY <1>4 DEF SeekTarget
  <2>. HIDE DEF want
  <2>. QED  BY <2>1, <2>3, <2>4, <2>5
<1>5. CASE whence # "set"
  <2>. DEFINE toEnd == ChainLength - ChainBefore(current) - chain[current].req
              rel == IF whence = "end" THEN o + toEnd ELSE o
              at == rel + chain[current].req
  <2>1. Drained
    BY <1>5
  <2>2. chain[current].req = chain[current].pos
    BY <1>1, <2>1 DEF Drained
  <2>3. at \in Int /\ at + ChainBefore(current) = want /\ rel # 0
    <3>1. CASE whence = "end"
      BY <1>2, <2>2, <3>1
    <3>2. CASE whence # "end"
      <4>1. whence = "cur"
        BY <1>5, <3>2 DEF Whence
      <4>. QED  BY <1>2, <2>2, <4>1
    <3>. QED  BY <3>1, <3>2
  <2>4. SeekTarget(o, whence) = Relative(at)
    BY <1>5, <2>3 DEF SeekTarget
  <2>. HIDE DEF at, want, now
  <2>5. PICK t \in Relative(at) : TRUE
    BY <1>1, <2>3, RelativeLands
  <2>6. t.file \in 1..Len(chain) /\ t.offset \in Nat /\ t.move /\ ChainBefore(t.file) + t.offset = want
    BY <1>1, <2>3, RelativeLands
  <2>7. chain[t.file].req = chain[t.file].pos
    BY <1>1, <2>1, <2>6 DEF Drained
  <2>8. Sought(chain[t.file], t.offset, whence).pos = t.offset
    BY <1>3, <2>6, <2>7, SoughtIs
  <2>. QED  BY <2>4, <2>6, <2>8
<1>. QED  BY <1>4, <1>5

(* The events are of three kinds.                                          *)
LEMMA EventIs ==
  ASSUME LiveTVTypeOK, session # 0, NEW kind \in Kind
  PROVE  Event(kind) \in [kind : Kind, session : 1..MaxSessions]
BY DEF LiveTVTypeOK, Event

(* A file read on, or sought in, stays the same file.                      *)
Reread(i, f) ==
  /\ i \in 1..Len(chain) /\ f \in ChainFile /\ f.program = chain[i].program
  /\ f.pos <= f.req /\ f.pos <= f.known
  /\ chain' = [chain EXCEPT ![i] = f]

(* A read takes bytes of one file, from the current one on.                *)
LEMMA ReadRereads ==
  ASSUME LiveInv, ReadData
  PROVE  \E i \in current..Len(chain) : Leaves(i) /\ \E f : Reread(i, f)
<1>1. chain \in Seq(ChainFile) /\ Len(chain) \in Nat /\ current \in 1..Len(chain) /\ programs \in Seq(Recorded)
  BY DEF ReadData, LiveInv, LiveTVTypeOK, Opened, Streaming, Recorded
<1>2. PICK i, req, pos :
        /\ i \in current..Len(chain) /\ Leaves(i)
        /\ req \in chain[i].req..programs[chain[i].program].length /\ pos \in (chain[i].pos + 1)..req
        /\ chain' = [chain EXCEPT ![i] =
             [chain[i] EXCEPT !.req = req, !.pos = pos, !.known = Max({chain[i].known, pos})]]
  BY DEF ReadData
<1>3. i \in 1..Len(chain) /\ chain[i] \in ChainFile /\ chain[i].known \in Nat /\ chain[i].req \in Nat /\ chain[i].pos \in Nat
      /\ chain[i].program \in 1..Len(programs)
  BY <1>1, <1>2, ChainIs, FileFields DEF LiveInv, FilesInOrder, Newest
<1>4. req \in Nat /\ pos \in Nat /\ pos <= req
  <2>1. programs[chain[i].program].length \in Int
    BY <1>1, <1>3, RecordedFields
  <2>. QED  BY <1>2, <1>3, <2>1
<1>5. PICK m \in Nat : m = Max({chain[i].known, pos}) /\ pos <= m
  BY <1>3, <1>4, MaxOfTwo
<1> DEFINE f == With(chain[i], req, pos, m)
<1>6. chain' = [chain EXCEPT ![i] = f]
  BY <1>2, <1>5, Zenon DEF With
<1>7. f \in ChainFile /\ f.program = chain[i].program /\ f.pos <= f.req /\ f.pos <= f.known
  <2>1. f \in ChainFile /\ f.program = chain[i].program /\ f.req = req /\ f.pos = pos /\ f.known = m
    <3>. DEFINE c == chain[i]
    <3>1. c \in ChainFile /\ req \in Nat /\ pos \in Nat /\ m \in Nat
      BY <1>3, <1>4, <1>5
    <3>. HIDE DEF c
    <3>. DEFINE g == With(c, req, pos, m)
    <3>2. g \in ChainFile /\ g.program = c.program /\ g.req = req /\ g.pos = pos /\ g.known = m
      BY <3>1, FileWith
    <3>. QED  BY <3>2 DEF c
  <2>. HIDE DEF f
  <2>. QED  BY <1>4, <1>5, <2>1
<1>. HIDE DEF f
<1>8. Reread(i, f)
  BY <1>3, <1>6, <1>7 DEF Reread
<1>. QED  BY <1>2, <1>8

(* A seek moves the position of one file.                                  *)
LEMMA SeekRereads ==
  ASSUME LiveInv, SeekLiveStream
  PROVE  \E i \in 1..Len(chain) : current' \in {current, i} /\ \E f : Reread(i, f)
<1>1. chain \in Seq(ChainFile) /\ Len(chain) \in Nat /\ current \in 1..Len(chain) /\ LiveTVTypeOK
  BY DEF SeekLiveStream, LiveInv, LiveTVTypeOK, Opened, Streaming
<1>2. PICK whence, o, t :
        /\ whence \in Whence /\ o \in (IF whence = "set" THEN 0 ELSE -ChainLength)..ChainLength
        /\ t \in SeekTarget(o, whence)
        /\ chain' = [chain EXCEPT ![t.file] = Sought(chain[t.file], t.offset, whence)]
        /\ current' = IF t.move THEN t.file ELSE current
  BY DEF SeekLiveStream
<1>3. t.file \in 1..Len(chain) /\ t.offset \in Nat
  BY <1>1, <1>2, SeekTyped
<1>4. chain[t.file] \in ChainFile /\ chain[t.file].pos <= chain[t.file].req /\ chain[t.file].pos <= chain[t.file].known
  BY <1>1, <1>3 DEF LiveInv, FilesInOrder
<1> DEFINE f == Sought(chain[t.file], t.offset, whence)
<1>5. f \in ChainFile /\ f.program = chain[t.file].program /\ f.pos <= f.req /\ f.pos <= f.known
  BY <1>3, <1>4, SoughtIs
<1>6. chain' = [chain EXCEPT ![t.file] = f]
  BY <1>2
<1>. HIDE DEF f
<1>7. Reread(t.file, f)
  BY <1>3, <1>5, <1>6 DEF Reread
<1>. QED  BY <1>2, <1>3, <1>7

(* The chain keeps its files and their order.                              *)
LEMMA RereadIs ==
  ASSUME LiveTVTypeOK, FilesInOrder, NEW i, NEW f, Reread(i, f)
  PROVE  /\ chain' \in Seq(ChainFile) /\ Len(chain') = Len(chain)
         /\ \A j \in 1..Len(chain) : chain'[j].program = chain[j].program
         /\ programs' = programs => FilesInOrder'
<1>1. chain \in Seq(ChainFile) /\ i \in 1..Len(chain) /\ f \in ChainFile
  BY DEF LiveTVTypeOK, Reread
<1>2. /\ chain' \in Seq(ChainFile) /\ Len(chain') = Len(chain)
      /\ \A j \in 1..Len(chain) : chain'[j] = IF j = i THEN f ELSE chain[j]
  BY <1>1 DEF Reread
<1>3. \A j \in 1..Len(chain) : chain'[j].program = chain[j].program /\ chain'[j].pos <= chain'[j].req /\ chain'[j].pos <= chain'[j].known
  BY <1>1, <1>2 DEF Reread, FilesInOrder
<1>4. DOMAIN chain = 1..Len(chain) /\ DOMAIN chain' = 1..Len(chain)
  BY <1>1, <1>2
<1>5. ASSUME programs' = programs PROVE FilesInOrder'
  BY <1>3, <1>4, <1>5 DEF FilesInOrder, ChainInOrder, Newest
<1>. QED  BY <1>2, <1>3, <1>5

(* An update that finds a new programme adds it at the end, in order.      *)
LEMMA NewFileAppended ==
  ASSUME LiveTVTypeOK, FilesInOrder, Newest # 0, ~HasUrl(Newest), chain' = Append(chain, NewFile(Newest)), programs' = programs
  PROVE  /\ chain' \in Seq(ChainFile) /\ Len(chain') = Len(chain) + 1
         /\ \A j \in 1..Len(chain) : chain'[j] = chain[j] /\ chain[j].program < Newest
         /\ FilesInOrder'
<1>1. chain \in Seq(ChainFile) /\ Len(chain) \in Nat /\ DOMAIN chain = 1..Len(chain)
      /\ programs \in Seq(Recorded) /\ Newest \in 1..Len(programs)
      /\ Len(programs) \in 0..MaxPrograms /\ MaxPrograms \in Nat /\ MaxLength \in Nat
  <2>1. Len(programs) <= MaxPrograms
    BY DEF FilesInOrder, Newest
  <2>. QED  BY <2>1, LiveBounds, LiveTypes DEF Newest
<1> DEFINE f == NewFile(Newest)
<1>2. f \in ChainFile /\ f.program = Newest /\ f.pos <= f.req /\ f.pos <= f.known
  <2>1. programs[Newest].length \in Nat /\ Newest \in 1..MaxPrograms
    BY <1>1, LiveTypes, RecordedFields
  <2>. QED  BY <2>1 DEF NewFile, ChainFile
<1>3. chain' = Append(chain, f)
  OBVIOUS
<1>. HIDE DEF f
<1>4. /\ chain' \in Seq(ChainFile) /\ Len(chain') = Len(chain) + 1 /\ DOMAIN chain' = 1..Len(chain) + 1
      /\ \A j \in 1..Len(chain) : chain'[j] = chain[j]
      /\ chain'[Len(chain) + 1] = f
  BY <1>1, <1>2, <1>3
<1>5. \A j \in 1..Len(chain) : chain[j].program < Newest /\ chain[j].program \in Nat
  <2>. TAKE j \in 1..Len(chain)
  <2>1. chain[j].program \in Nat /\ chain[j].program <= Newest /\ chain[j].program # Newest
    BY <1>1, ChainIs, FileFields DEF FilesInOrder, HasUrl
  <2>. QED  BY <1>1, <2>1
<1>6. ASSUME NEW j \in 1..Len(chain) + 1
      PROVE  chain'[j].program <= Newest /\ chain'[j].pos <= chain'[j].req /\ chain'[j].pos <= chain'[j].known
  <2>1. CASE j = Len(chain) + 1
    BY <1>1, <1>2, <1>4, <2>1
  <2>2. CASE j # Len(chain) + 1
    <3>1. j \in 1..Len(chain)
      BY <1>1, <2>2
    <3>. QED  BY <1>1, <1>4, <3>1 DEF FilesInOrder
  <2>. QED  BY <2>1, <2>2
<1>7. ASSUME NEW i \in 1..Len(chain) + 1, NEW j \in 1..Len(chain) + 1, i < j PROVE chain'[i].program < chain'[j].program
  <2>1. i \in 1..Len(chain)
    BY <1>1, <1>7
  <2>2. CASE j = Len(chain) + 1
    BY <1>2, <1>4, <1>5, <2>1, <2>2
  <2>3. CASE j # Len(chain) + 1
    <3>1. j \in 1..Len(chain)
      BY <1>1, <2>3
    <3>. QED  BY <1>1, <1>4, <1>7, <2>1, <3>1 DEF FilesInOrder, ChainInOrder
  <2>. QED  BY <2>2, <2>3
<1>8. FilesInOrder'
  BY <1>4, <1>6, <1>7 DEF FilesInOrder, ChainInOrder, Newest
<1>. QED  BY <1>4, <1>5, <1>8

(* The current programme's file is added.                                  *)
ChainGrows == Newest # 0 /\ ~HasUrl(Newest) /\ chain' = Append(chain, NewFile(Newest))

(* The chain a step leaves is the one it found, or one with a file reread, *)
(* one more, one alone or none.                                            *)
ChainSteps ==
  \/ UNCHANGED chain
  \/ \E i, f : Reread(i, f) /\ programs' = programs
  \/ ChainGrows /\ programs' = programs
  \/ chain' = <<>>
  \/ /\ chain' = <<[program |-> Len(programs'), known |-> 0, req |-> 0, pos |-> 0]>>
     /\ Len(programs') \in 1..MaxPrograms

(* A programme grows.                                                      *)
LEMMA ProgramGrown ==
  ASSUME LiveTVTypeOK, ProgramGrows
  PROVE  /\ programs' \in Seq(Recorded) /\ Len(programs') = Newest
         /\ \A p \in 1..Newest : programs'[p].finished = programs[p].finished
<1>1. PICK p \in 1..Newest : /\ programs[p].length < MaxLength
                             /\ programs' = [programs EXCEPT ![p].length = programs[p].length + 1]
  BY LiveTypes DEF ProgramGrows
<1>2. programs[p].length + 1 \in 0..MaxLength
  <2>1. programs[p].length \in 0..MaxLength /\ MaxLength \in Nat
    BY <1>1, LiveTypes, LiveBounds, RecordedFields
  <2>. QED  BY <1>1, <2>1
<1>3. \A q \in 1..Newest : programs[q] \in Recorded
  BY LiveTypes
<1> DEFINE g == [programs[p] EXCEPT !.length = programs[p].length + 1]
<1>4. g \in Recorded /\ g.finished = programs[p].finished
  BY <1>1, <1>2, <1>3, RecordedWith
<1>5. programs' = [programs EXCEPT ![p] = g]
  BY <1>1
<1>. HIDE DEF g
<1>6. /\ programs' \in Seq(Recorded) /\ Len(programs') = Newest
      /\ \A q \in 1..Newest : programs'[q] = IF q = p THEN g ELSE programs[q]
  <2>1. programs \in Seq(Recorded) /\ Len(programs) = Newest
    BY LiveTypes DEF Newest
  <2>. QED  BY <1>1, <1>4, <1>5, <2>1
<1>. QED  BY <1>4, <1>6

(* A programme is finished; the current one only when the recorder has     *)
(* stopped.                                                                *)
LEMMA ProgramOver ==
  ASSUME LiveTVTypeOK, ProgramFinished
  PROVE  /\ programs' \in Seq(Recorded) /\ Len(programs') = Newest
         /\ \E p \in Unfinished : /\ p # Newest \/ ~live
                                  /\ \A q \in 1..Newest : programs'[q].finished = (q = p \/ programs[q].finished)
<1>1. PICK p \in Unfinished : /\ p # Newest \/ ~live
                              /\ programs' = [programs EXCEPT ![p].finished = TRUE]
  BY DEF ProgramFinished, Newest
<1>2. p \in 1..Newest /\ \A q \in 1..Newest : programs[q] \in Recorded
  BY LiveTypes
<1> DEFINE g == [programs[p] EXCEPT !.finished = TRUE]
<1>3. g \in Recorded /\ g.finished = TRUE
  BY <1>2, RecordedWith
<1>4. programs' = [programs EXCEPT ![p] = g]
  BY <1>1
<1>. HIDE DEF g
<1>5. /\ programs' \in Seq(Recorded) /\ Len(programs') = Newest
      /\ \A q \in 1..Newest : programs'[q] = IF q = p THEN g ELSE programs[q]
  BY <1>2, <1>3, <1>4, LiveTypes DEF Newest
<1>6. \A q \in 1..Newest : programs'[q].finished = (q = p \/ programs[q].finished)
  <2>. TAKE q \in 1..Newest
  <2>1. programs'[q] = IF q = p THEN g ELSE programs[q]
    BY <1>5
  <2>2. g.finished = TRUE /\ programs[q].finished \in BOOLEAN
    BY <1>2, <1>3, RecordedFields
  <2>. QED  BY <2>1, <2>2
<1>. QED  BY <1>1, <1>5, <1>6

(* A programme begins.                                                     *)
LEMMA ProgramBegun ==
  ASSUME LiveTVTypeOK, Len(programs) < MaxPrograms, programs' = Append(programs, [length |-> 0, finished |-> FALSE])
  PROVE  /\ programs' \in Seq(Recorded) /\ Len(programs') = Newest + 1
         /\ \A q \in 1..Newest : programs'[q] = programs[q]
         /\ programs'[Newest + 1].finished = FALSE
<1>1. [length |-> 0, finished |-> FALSE] \in Recorded
  BY RecordedFields
<1>. QED  BY <1>1, LiveTypes DEF Newest

(* What the event thread does with an event, whichever it is.              *)
LEMMA HandleSteps ==
  ASSUME LiveInv, Handle
  PROVE  /\ UNCHANGED chain \/ ChainGrows
         /\ current' = current
         /\ watch' \in BOOLEAN /\ crashed' \in BOOLEAN /\ misses' \in 0..MaxMisses /\ chained' = chained
         /\ events # <<>> /\ events' = Tail(events)
         /\ crashed' => crashed \/ stage = "assigned"
<1>1. LiveTVTypeOK /\ events # <<>> /\ events' = Tail(events) /\ stage # "waiting" /\ programs' = programs
  BY DEF Handle, LiveInv, backendVars
<1>. USE LiveBounds
<1>2. CASE stage = "closed" /\ UNCHANGED <<chainVars, crashed, misses>>
  BY <1>1, <1>2 DEF chainVars, LiveTVTypeOK, LiveInv, Opened, EventsFindChain
<1>3. CASE stage # "closed"
  <2>1. stage \in {"assigned", "open"} /\ (chained => Newest # 0) /\ (~chained => stage = "assigned")
    <3>1. chained => Newest \in 1..Newest
      BY <1>1, <1>3, LiveTypes DEF LiveInv, Opened, Streaming
    <3>. QED  BY <1>1, <1>3, <3>1 DEF LiveInv, LiveTVTypeOK, Opened, Streaming
  <2>. DEFINE e == Head(events)
  <2>2. LiveTVChainUpdate(e) \/ LiveTVWatch(e) \/ LiveTVDoneRecording(e)
    BY <1>3 DEF Handle
  <2>. HIDE DEF e
  <2>3. /\ current' = current /\ chained' = chained
        /\ crashed' = crashed \/ crashed' = ~chained
        /\ watch' \in {watch, TRUE, FALSE}
        /\ \/ UNCHANGED <<chain, misses>>
           \/ chained /\ ChainUpdate
           \/ chain' = chain /\ misses < MaxMisses /\ misses' = misses + 1
    <3>1. CASE LiveTVChainUpdate(e)
      BY <3>1 DEF LiveTVChainUpdate
    <3>2. CASE LiveTVWatch(e)
      BY <3>2 DEF LiveTVWatch
    <3>3. CASE LiveTVDoneRecording(e)
      BY <3>3 DEF LiveTVDoneRecording
    <3>. QED  BY <2>2, <3>1, <3>2, <3>3
  <2>4. (UNCHANGED chain \/ ChainGrows) /\ misses' \in 0..MaxMisses
    <3>1. misses \in 0..MaxMisses
      BY <1>1 DEF LiveTVTypeOK
    <3>2. CASE UNCHANGED <<chain, misses>>
      BY <3>1, <3>2
    <3>3. CASE chain' = chain /\ misses < MaxMisses /\ misses' = misses + 1
      BY <3>1, <3>3
    <3>4. CASE chained /\ ChainUpdate
      BY <1>1, <2>1, <3>1, <3>4 DEF ChainGrows, ChainUpdate, Newest
    <3>. QED  BY <2>3, <3>2, <3>3, <3>4
  <2>5. watch \in BOOLEAN /\ chained \in BOOLEAN /\ crashed \in BOOLEAN
    BY <1>1 DEF LiveTVTypeOK
  <2>6. watch' \in BOOLEAN /\ crashed' \in BOOLEAN
    BY <2>3, <2>5
  <2>7. crashed' => crashed \/ stage = "assigned"
    BY <2>1, <2>3, <2>5
  <2>. QED  BY <1>1, <2>3, <2>4, <2>6, <2>7
<1>. QED  BY <1>2, <1>3 DEF Handle

(* Each of these chains is one of files in order.                          *)
LEMMA ChainStepTyped ==
  ASSUME LiveTVTypeOK, FilesInOrder, ChainSteps, Newest <= Len(programs'), Len(programs') \in Nat, Len(programs') <= MaxPrograms
  PROVE  chain' \in Seq(ChainFile) /\ FilesInOrder'
<1>1. CASE UNCHANGED chain
  <2>1. \A i \in 1..Len(chain) : chain[i].program <= Len(programs')
    <3>. TAKE i \in 1..Len(chain)
    <3>1. chain[i].program \in Nat /\ chain[i].program <= Newest /\ Newest \in Nat
      BY LiveTypes, ChainIs, FileFields DEF FilesInOrder
    <3>. QED  BY <3>1
  <2>. QED  BY <1>1, <2>1, LiveTypes DEF FilesInOrder, ChainInOrder, Newest
<1>2. ASSUME NEW i, NEW f, Reread(i, f), programs' = programs PROVE chain' \in Seq(ChainFile) /\ FilesInOrder'
  BY <1>2, RereadIs
<1>3. CASE ChainGrows /\ programs' = programs
  BY <1>3, NewFileAppended DEF ChainGrows
<1>4. CASE chain' = <<>>
  BY <1>4 DEF FilesInOrder, ChainInOrder, Newest
<1>5. CASE chain' = <<[program |-> Len(programs'), known |-> 0, req |-> 0, pos |-> 0]>> /\ Len(programs') \in 1..MaxPrograms
  <2>. DEFINE f == [program |-> Len(programs'), known |-> 0, req |-> 0, pos |-> 0]
  <2>1. f \in ChainFile /\ f.program = Len(programs') /\ f.pos <= f.req /\ f.pos <= f.known
    BY <1>5 DEF ChainFile
  <2>2. chain' = <<f>>
    BY <1>5
  <2>. HIDE DEF f
  <2>3. chain' \in Seq(ChainFile) /\ DOMAIN chain' = {1} /\ chain'[1] = f
    BY <2>1, <2>2
  <2>. QED  BY <2>1, <2>3 DEF FilesInOrder, ChainInOrder, Newest
<1>. QED  BY <1>1, <1>2, <1>3, <1>4, <1>5 DEF ChainSteps

(* The events the backend sends are typed.                                 *)
LEMMA EventsOn ==
  ASSUME LiveTVTypeOK, session # 0, NEW a \in Kind, NEW b \in Kind
  PROVE  /\ Append(events, Event(a)) \in Seq([kind : Kind, session : 1..MaxSessions])
         /\ events \o <<Event(a), Event(b)>> \in Seq([kind : Kind, session : 1..MaxSessions])
<1>1. Event(a) \in [kind : Kind, session : 1..MaxSessions] /\ Event(b) \in [kind : Kind, session : 1..MaxSessions]
  BY EventIs
<1>2. events \in Seq([kind : Kind, session : 1..MaxSessions])
  BY LiveTypes
<1>. DEFINE E == [kind : Kind, session : 1..MaxSessions]
<1>. HIDE DEF E
<1>3. Event(a) \in E /\ Event(b) \in E /\ events \in Seq(E)
  BY <1>1, <1>2 DEF E
<1>4. <<Event(a), Event(b)>> \in Seq(E)
  BY <1>3
<1>5. Append(events, Event(a)) \in Seq(E) /\ events \o <<Event(a), Event(b)>> \in Seq(E)
  BY <1>3, <1>4
<1>. QED  BY <1>5 DEF E

(* What a step does to the programmes, the chain and the events.           *)
LEMMA LiveSteps ==
  ASSUME LiveInv, LiveTVNext
  PROVE  /\ programs' \in Seq(Recorded) /\ Len(programs') \in Newest..MaxPrograms
         /\ ChainSteps
         /\ events' \in Seq([kind : Kind, session : 1..MaxSessions])
<1>1. LiveTVTypeOK /\ FilesInOrder
  BY DEF LiveInv
<1>2. Newest \in Nat /\ Newest <= MaxPrograms /\ programs \in Seq(Recorded) /\ (session = 0 => Newest = 0)
      /\ events \in Seq([kind : Kind, session : 1..MaxSessions])
  <2>1. Newest <= MaxPrograms
    BY <1>1 DEF FilesInOrder
  <2>2. session = 0 => Newest = 0
    BY DEF LiveInv, Opened, Newest
  <2>. QED  BY <1>1, <2>1, <2>2, LiveTypes
<1>3. {"chain", "watch", "done"} \subseteq Kind
  BY DEF Kind
<1> DEFINE E == [kind : Kind, session : 1..MaxSessions]
           Goal == /\ programs' \in Seq(Recorded) /\ Len(programs') \in Newest..MaxPrograms
                   /\ ChainSteps
                   /\ events' \in Seq(E)
<1>. HIDE DEF E
<1>4. events \in Seq(E)
  BY <1>2 DEF E
<1>5. ASSUME programs' = programs, ChainSteps, events' = events PROVE Goal
  BY <1>2, <1>4, <1>5, LiveBounds DEF Newest
<1>6. ASSUME ProgramGrows PROVE Goal
  <2>1. programs' \in Seq(Recorded) /\ Len(programs') = Newest
    BY <1>1, <1>6, ProgramGrown
  <2>2. chain' = chain /\ events' = events
    BY <1>6 DEF ProgramGrows, chainVars
  <2>. QED  BY <1>2, <1>4, <2>1, <2>2, LiveBounds DEF ChainSteps
<1>7. ASSUME ProgramBreak PROVE Goal
  <2>1. programs' \in Seq(Recorded) /\ Len(programs') = Newest + 1 /\ Newest < MaxPrograms
    BY <1>1, <1>7, ProgramBegun DEF ProgramBreak, Newest
  <2>2. chain' = chain /\ live
    BY <1>7 DEF ProgramBreak, chainVars
  <2>3. session # 0
    BY <1>1, <2>2 DEF LiveInv, Opened, Streaming
  <2>4. events' \in Seq(E)
    <3>1. Append(events, Event("chain")) \in Seq(E) /\ events \o <<Event("watch"), Event("chain")>> \in Seq(E)
      BY <1>1, <1>3, <2>3, EventsOn DEF E
    <3>. QED  BY <1>7, <3>1 DEF ProgramBreak
  <2>. QED  BY <1>2, <2>1, <2>2, <2>4, LiveBounds DEF ChainSteps
<1>8. ASSUME ProgramFinished PROVE Goal
  <2>1. programs' \in Seq(Recorded) /\ Len(programs') = Newest /\ Unfinished # {}
    BY <1>1, <1>8, ProgramOver
  <2>2. chain' = chain /\ events' = Append(events, Event("done"))
    BY <1>8 DEF ProgramFinished, chainVars
  <2>3. session # 0
    BY <1>1, <1>2, <2>1, LiveTypes
  <2>4. events' \in Seq(E)
    BY <1>1, <1>3, <2>2, <2>3, EventsOn DEF E
  <2>. QED  BY <1>2, <2>1, <2>2, <2>4, LiveBounds DEF ChainSteps
<1>9. ASSUME Handle PROVE Goal
  <2>1. programs' = programs /\ ChainSteps /\ events # <<>> /\ events' = Tail(events)
    BY <1>9, HandleSteps DEF Handle, backendVars, ChainSteps
  <2>2. events' \in Seq(E)
    BY <1>4, <2>1
  <2>. QED  BY <1>2, <2>1, <2>2, LiveBounds DEF Newest
<1>10. ASSUME SetRecorder PROVE Goal
  BY <1>5, <1>10 DEF SetRecorder, backendVars, ChainSteps
<1>11. ASSUME SpawnLiveTV PROVE Goal
  <2>1. programs' \in Seq(Recorded) /\ Len(programs') = Newest + 1 /\ Newest < MaxPrograms
    BY <1>1, <1>11, ProgramBegun DEF SpawnLiveTV, Newest
  <2>2. Len(programs') \in 1..MaxPrograms
    BY <1>2, <2>1, LiveBounds
  <2>3. chain' = <<[program |-> Len(programs'), known |-> 0, req |-> 0, pos |-> 0]>>
        /\ events' = Append(events, Event("chain"))
    BY <1>11 DEF SpawnLiveTV
  <2>4. session # 0
    BY <1>11 DEF SpawnLiveTV, LiveInv, Opened
  <2>5. events' \in Seq(E)
    BY <1>1, <1>3, <2>3, <2>4, EventsOn DEF E
  <2>. QED  BY <1>2, <2>1, <2>2, <2>3, <2>5, LiveBounds DEF ChainSteps
<1>12. ASSUME SpawnFails PROVE Goal
  BY <1>5, <1>12 DEF SpawnFails, backendVars, chainVars, ChainSteps
<1>13. ASSUME CloseLiveStream PROVE Goal
  BY <1>5, <1>13 DEF CloseLiveStream, chainVars, ChainSteps
<1>14. ASSUME ReadData PROVE Goal
  <2>1. \E i, f : Reread(i, f)
    BY <1>14, ReadRereads
  <2>2. programs' = programs /\ events' = events
    BY <1>14 DEF ReadData, playerVars, backendVars
  <2>. QED  BY <1>5, <2>1, <2>2 DEF ChainSteps
<1>15. ASSUME ReadAtEnd PROVE Goal
  BY <1>5, <1>15 DEF ReadAtEnd, playerVars, backendVars, ChainSteps
<1>16. ASSUME WaitEnds PROVE Goal
  BY <1>5, <1>16 DEF WaitEnds, playerVars, backendVars, ChainSteps
<1>17. ASSUME SeekLiveStream PROVE Goal
  <2>1. \E i, f : Reread(i, f)
    BY <1>17, SeekRereads
  <2>2. programs' = programs /\ events' = events
    BY <1>17 DEF SeekLiveStream, playerVars, backendVars
  <2>. QED  BY <1>5, <2>1, <2>2 DEF ChainSteps
<1>18. Goal
  BY <1>6, <1>7, <1>8, <1>9, <1>10, <1>11, <1>12, <1>13, <1>14, <1>15, <1>16, <1>17 DEF LiveTVNext
<1>. QED  BY <1>18 DEF E

(* Every step leaves the types and the order of the files.                 *)
LEMMA LiveTypesKept == LiveInv /\ [LiveTVNext]_liveTVVars => LiveTVTypeOK' /\ FilesInOrder'
<1>. SUFFICES ASSUME LiveInv, [LiveTVNext]_liveTVVars PROVE LiveTVTypeOK' /\ FilesInOrder'
  OBVIOUS
<1>1. LiveTVTypeOK /\ FilesInOrder
  BY DEF LiveInv
<1>2. CASE UNCHANGED liveTVVars
  BY <1>1, <1>2 DEF liveTVVars, LiveTVTypeOK, FilesInOrder, ChainInOrder, Newest
<1>3. CASE LiveTVNext
  <2>1. /\ programs' \in Seq(Recorded) /\ Len(programs') \in Newest..MaxPrograms
        /\ ChainSteps /\ events' \in Seq([kind : Kind, session : 1..MaxSessions])
    BY <1>3, LiveSteps
  <2>2. chain' \in Seq(ChainFile) /\ FilesInOrder'
    <3>1. Newest <= Len(programs') /\ Len(programs') \in Nat /\ Len(programs') <= MaxPrograms
      BY <1>1, <2>1, LiveTypes, LiveBounds
    <3>. QED  BY <1>1, <2>1, <3>1, ChainStepTyped
  <2>. DEFINE Carried == /\ live' \in BOOLEAN /\ chained' \in BOOLEAN
                      /\ watch' \in BOOLEAN /\ crashed' \in BOOLEAN /\ mishap' \in BOOLEAN
                      /\ session' \in 0..MaxSessions
                      /\ stage' \in {"closed", "assigned", "open", "waiting"}
                      /\ current' \in 0..Len(chain')
                      /\ seeks' \in 0..MaxSeeks /\ misses' \in 0..MaxMisses
                      /\ early' \in BOOLEAN
  <2>. USE <1>1, LiveTypes, LiveBounds DEF LiveTVTypeOK
  <2>3. ASSUME ProgramGrows PROVE Carried
    BY <2>3 DEF ProgramGrows, chainVars
  <2>4. ASSUME ProgramBreak PROVE Carried
    BY <2>4 DEF ProgramBreak, chainVars
  <2>5. ASSUME ProgramFinished PROVE Carried
    BY <2>5 DEF ProgramFinished, chainVars
  <2>6. ASSUME Handle PROVE Carried
    <3>1. /\ watch' \in BOOLEAN /\ crashed' \in BOOLEAN /\ misses' \in 0..MaxMisses /\ chained' = chained
          /\ current' = current
      BY <2>6, HandleSteps
    <3>2. Len(chain') >= Len(chain) /\ Len(chain') \in Nat /\ programs' = programs
      <4>1. UNCHANGED chain \/ ChainGrows
        BY <2>6, HandleSteps
      <4>2. programs' = programs
        BY <2>6 DEF Handle, backendVars
      <4>3. ASSUME ChainGrows PROVE Len(chain') = Len(chain) + 1
        BY <4>2, <4>3, NewFileAppended DEF ChainGrows
      <4>. QED  BY <4>1, <4>2, <4>3
    <3>3. UNCHANGED <<live, session, stage, seeks, mishap, early>>
      BY <2>6 DEF Handle, backendVars
    <3>. QED  BY <3>1, <3>2, <3>3
  <2>7. ASSUME SetRecorder PROVE Carried
    <3>1. current' = 0 /\ 0 \in 0..Len(chain') /\ session + 1 \in 0..MaxSessions
      <4>1. chain' = <<>> /\ session < MaxSessions /\ session \in 0..MaxSessions /\ current' = 0
        BY <2>7 DEF SetRecorder
      <4>2. Len(chain') = 0
        BY <4>1
      <4>. QED  BY <4>1, <4>2
    <3>. QED  BY <2>7, <3>1 DEF SetRecorder, backendVars
  <2>8. ASSUME SpawnLiveTV PROVE Carried
    BY <2>8 DEF SpawnLiveTV
  <2>9. ASSUME SpawnFails PROVE Carried
    BY <2>9 DEF SpawnFails, backendVars, chainVars
  <2>10. ASSUME CloseLiveStream PROVE Carried
    BY <2>10 DEF CloseLiveStream, chainVars
  <2>11. ASSUME ReadData PROVE Carried
    <3>1. PICK i \in current..Len(chain) : Leaves(i) /\ \E f : Reread(i, f)
      BY <2>11, ReadRereads
    <3>2. Len(chain') = Len(chain)
      BY <3>1, RereadIs
    <3>3. current' \in 0..Len(chain') /\ early' \in BOOLEAN
      BY <3>1, <3>2 DEF Leaves
    <3>. QED  BY <2>11, <3>3 DEF ReadData, playerVars, backendVars
  <2>12. ASSUME ReadAtEnd PROVE Carried
    <3>1. chain' = chain /\ Leaves(Len(chain))
      BY <2>12 DEF ReadAtEnd
    <3>2. current' \in 0..Len(chain') /\ early' \in BOOLEAN
      BY <3>1 DEF Leaves
    <3>. QED  BY <2>12, <3>2 DEF ReadAtEnd, playerVars, backendVars
  <2>13. ASSUME WaitEnds PROVE Carried
    BY <2>13 DEF WaitEnds, playerVars, backendVars
  <2>14. ASSUME SeekLiveStream PROVE Carried
    <3>1. PICK i \in 1..Len(chain) : current' \in {current, i} /\ \E f : Reread(i, f)
      BY <2>14, SeekRereads
    <3>2. Len(chain') = Len(chain)
      BY <3>1, RereadIs
    <3>3. current' \in 0..Len(chain')
      BY <3>1, <3>2
    <3>. QED  BY <2>14, <3>3 DEF SeekLiveStream, playerVars, backendVars
  <2>15. Carried
    BY <1>3, <2>3, <2>4, <2>5, <2>6, <2>7, <2>8, <2>9, <2>10, <2>11, <2>12, <2>13,
       <2>14 DEF LiveTVNext
  <2>. QED  BY <2>1, <2>2, <2>15 DEF Recorded
<1>. QED  BY <1>2, <1>3

(* Every step leaves the stages as Opened has them.                        *)
LEMMA OpenedKept == LiveInv /\ [LiveTVNext]_liveTVVars => Opened'
<1>. SUFFICES ASSUME LiveInv, [LiveTVNext]_liveTVVars PROVE Opened'
  OBVIOUS
<1>1. LiveTVTypeOK /\ FilesInOrder /\ Opened
  BY DEF LiveInv
<1>. USE DEF Opened, Streaming, EventsFindChain
<1>2. CASE UNCHANGED liveTVVars
  BY <1>1, <1>2 DEF liveTVVars, Newest, Unfinished
<1>3. CASE LiveTVNext
  <2>. USE <1>1
  <2>1. ~crashed /\ crashed \in BOOLEAN
    BY <1>3 DEF LiveTVNext, LiveTVTypeOK
  <2>2. programs = <<>> <=> Newest = 0
    BY LiveTypes DEF Newest
  <2>3. ASSUME Newest' = Newest, live' => programs'[Newest].finished = programs[Newest].finished,
               UNCHANGED <<live, session, stage, chained, current, crashed>>
        PROVE  Opened'
    <3>1. programs' = <<>> <=> Newest' = 0
      BY <1>3, LiveSteps DEF Newest
    <3>2. live' => Newest' \in Unfinished'
      <4>1. programs' \in Seq(Recorded)
        BY <1>3, LiveSteps
      <4>2. ASSUME live' PROVE Newest' \in Unfinished'
        BY <2>3, <4>1, <4>2, LiveTypes DEF Newest, Unfinished
      <4>. QED  BY <4>2
    <3>. QED  BY <2>2, <2>3, <3>1, <3>2
  <2>4. ASSUME ProgramGrows PROVE Opened'
    <3>1. Newest' = Newest /\ (live => programs'[Newest].finished = programs[Newest].finished)
      BY <2>4, ProgramGrown, LiveTypes DEF Newest
    <3>. QED  BY <2>3, <2>4, <3>1 DEF ProgramGrows, chainVars
  <2>5. ASSUME ProgramBreak \/ SpawnLiveTV PROVE Opened'
    <3>1. programs' \in Seq(Recorded) /\ Len(programs') = Newest + 1 /\ programs'[Newest + 1].finished = FALSE
      BY <2>5, ProgramBegun DEF ProgramBreak, SpawnLiveTV, Newest
    <3>2. Newest' \in Unfinished'
      BY <3>1, LiveTypes DEF Newest, Unfinished
    <3>3. session # 0 /\ session' = session /\ crashed' = crashed
      BY <2>5 DEF ProgramBreak, SpawnLiveTV
    <3>4. ASSUME ProgramBreak PROVE UNCHANGED <<stage, chained, current, live>> /\ live
      BY <3>4 DEF ProgramBreak, chainVars
    <3>5. ASSUME SpawnLiveTV PROVE stage' = "open" /\ live' /\ chained' /\ current' = 1
      BY <3>5 DEF SpawnLiveTV
    <3>. QED  BY <2>1, <2>5, <3>2, <3>3, <3>4, <3>5
  <2>6. ASSUME ProgramFinished PROVE Opened'
    <3>1. PICK p \in Unfinished : /\ p # Newest \/ ~live
                                  /\ \A q \in 1..Newest : programs'[q].finished = (q = p \/ programs[q].finished)
      BY <2>6, ProgramOver
    <3>2. Newest' = Newest
      BY <2>6, ProgramOver DEF Newest
    <3>3. UNCHANGED <<live, session, stage, chained, current, crashed>>
      BY <2>6 DEF ProgramFinished, chainVars
    <3>4. live => programs'[Newest].finished = programs[Newest].finished
      <4>. SUFFICES ASSUME live PROVE programs'[Newest].finished = programs[Newest].finished
        OBVIOUS
      <4>1. Newest \in 1..Newest /\ programs[Newest].finished = FALSE
        <5>1. Newest \in 1..Newest /\ ~programs[Newest].finished /\ programs[Newest] \in Recorded
          BY LiveTypes
        <5>2. programs[Newest].finished \in BOOLEAN
          BY <5>1, RecordedFields, Zenon
        <5>. QED  BY <5>1, <5>2
      <4>2. p # Newest
        BY <3>1
      <4>3. programs'[Newest].finished = (Newest = p \/ programs[Newest].finished)
        BY <3>1, <4>1
      <4>. QED  BY <4>1, <4>2, <4>3
    <3>. QED  BY <2>3, <3>2, <3>3, <3>4
  <2>7. ASSUME Handle PROVE Opened'
    <3>1. programs' = programs /\ UNCHANGED <<live, session, stage>>
      BY <2>7 DEF Handle, backendVars
    <3>2. chained' = chained /\ current' = current /\ (crashed' => stage = "assigned")
      BY <2>1, <2>7, HandleSteps
    <3>. QED  BY <3>1, <3>2 DEF Newest, Unfinished
  <2>8. ASSUME SetRecorder PROVE Opened'
    BY <2>1, <2>8 DEF SetRecorder, backendVars, LiveTVTypeOK
  <2>9. ASSUME SpawnFails \/ CloseLiveStream PROVE Opened'
    BY <2>1, <2>9 DEF SpawnFails, CloseLiveStream, chainVars, backendVars, Newest, Unfinished
  <2>10. ASSUME ReadData PROVE Opened'
    <3>1. PICK i \in current..Len(chain) : Leaves(i)
      BY <2>10, ReadRereads
    <3>2. current' # 0
      BY <2>10, <3>1, LiveTypes DEF Leaves, ReadData
    <3>. QED  BY <2>1, <2>10, <3>2 DEF ReadData, playerVars, backendVars, Newest, Unfinished
  <2>11. ASSUME ReadAtEnd PROVE Opened'
    <3>1. current' # 0
      BY <2>11, LiveTypes DEF Leaves, ReadAtEnd
    <3>. QED  BY <2>1, <2>11, <3>1 DEF ReadAtEnd, playerVars, backendVars, Newest, Unfinished
  <2>12. ASSUME WaitEnds PROVE Opened'
    BY <2>1, <2>12 DEF WaitEnds, playerVars, backendVars, Newest, Unfinished
  <2>13. ASSUME SeekLiveStream PROVE Opened'
    <3>1. PICK i \in 1..Len(chain) : current' \in {current, i}
      BY <2>13, SeekRereads
    <3>2. i # 0 /\ current # 0
      <4>1. Len(chain) \in Nat /\ stage = "open"
        BY <2>13, LiveTypes DEF SeekLiveStream
      <4>. QED  BY <2>1, <3>1, <4>1 DEF Opened, Streaming
    <3>3. current' # 0
      BY <3>1, <3>2
    <3>. QED  BY <2>1, <2>13, <3>3 DEF SeekLiveStream, playerVars, backendVars, Newest, Unfinished
  <2>. QED  BY <1>3, <2>4, <2>5, <2>6, <2>7, <2>8, <2>9, <2>10, <2>11, <2>12, <2>13 DEF LiveTVNext
<1>. QED  BY <1>2, <1>3

(* What is announced stays so while programmes, events and chain do.       *)
LEMMA AnnouncedStays ==
  ASSUME LiveTVTypeOK, Announced, live' => live, mishap' = FALSE => mishap = FALSE, live' \in BOOLEAN,
         events' = events, watch' = watch,
         Newest' = Newest, DOMAIN programs' = 1..Newest,
         \A p \in 1..Newest : programs'[p].finished = programs[p].finished,
         Len(chain') = Len(chain),
         \A i \in 1..Len(chain) : chain[i].program \in 1..Newest /\ chain'[i].program = chain[i].program
  PROVE  Announced'
<1>. SUFFICES ASSUME live', ~mishap' PROVE Announced'
  BY DEF Announced
<1>1. live /\ ~mishap
  BY DEF LiveTVTypeOK
<1>2. Unfinished' = Unfinished
  BY LiveTypes DEF Unfinished
<1>3. \A i \in 1..Len(chain') - 1 : programs'[chain'[i].program].finished
  <2>. TAKE i \in 1..Len(chain') - 1
  <2>1. i \in 1..Len(chain) /\ i \in 1..Len(chain) - 1
    BY LiveTypes
  <2>. QED  BY <1>1, <2>1 DEF Announced
<1>4. UnderWay' <=> UnderWay
  BY DEF UnderWay
<1>. QED  BY <1>1, <1>2, <1>3, <1>4 DEF Announced

(* Every step leaves at most one break under way, unless a mishap is       *)
(* recorded.                                                               *)
LEMMA AnnouncedKept == LiveInv /\ [LiveTVNext]_liveTVVars => Announced'
<1>. SUFFICES ASSUME LiveInv, [LiveTVNext]_liveTVVars PROVE Announced'
  OBVIOUS
<1>1. LiveTVTypeOK /\ FilesInOrder /\ Opened /\ Announced /\ mishap \in BOOLEAN /\ live \in BOOLEAN
  BY DEF LiveInv, LiveTVTypeOK
<1>2. \A i \in 1..Len(chain) : chain[i].program \in 1..Newest
  <2>. TAKE i \in 1..Len(chain)
  <2>1. chain[i] \in ChainFile /\ i \in DOMAIN chain
    BY <1>1, LiveTypes, ChainIs
  <2>2. chain[i].program \in 1..MaxPrograms /\ chain[i].program <= Newest /\ Newest \in Nat
    BY <1>1, <2>1, LiveTypes, FileFields DEF FilesInOrder
  <2>. DEFINE p == chain[i].program
  <2>3. p \in 1..MaxPrograms /\ p <= Newest /\ Newest \in Nat
    BY <2>2
  <2>. HIDE DEF p
  <2>4. p \in 1..Newest
    BY <2>3, LiveBounds
  <2>. QED  BY <2>4 DEF p
<1>3. /\ Newest \in Nat /\ DOMAIN programs = 1..Newest /\ Len(chain) \in Nat
      /\ Unfinished = {p \in 1..Newest : ~programs[p].finished}
  BY <1>1, LiveTypes
<1>4. ASSUME UNCHANGED <<programs, events, watch>>, live' = live, mishap' = mishap, Len(chain') = Len(chain),
             \A i \in 1..Len(chain) : chain'[i].program = chain[i].program
      PROVE  Announced'
  BY <1>1, <1>2, <1>3, <1>4, AnnouncedStays DEF Newest
<1>5. CASE UNCHANGED liveTVVars
  BY <1>4, <1>5 DEF liveTVVars
<1>6. ASSUME ~live' PROVE Announced'
  BY <1>6 DEF Announced
<1>7. ASSUME ProgramGrows PROVE Announced'
  <2>1. programs' \in Seq(Recorded) /\ Len(programs') = Newest /\ \A p \in 1..Newest : programs'[p].finished = programs[p].finished
    BY <1>1, <1>7, ProgramGrown
  <2>2. UNCHANGED <<events, watch, chain, live, mishap>>
    BY <1>7 DEF ProgramGrows, chainVars
  <2>3. Newest' = Newest /\ DOMAIN programs' = 1..Newest
    BY <2>1 DEF Newest
  <2>. QED  BY <1>1, <1>2, <2>1, <2>2, <2>3, AnnouncedStays
<1>8. ASSUME ProgramBreak PROVE Announced'
  <2>. SUFFICES ASSUME ~mishap' PROVE Announced'
    BY DEF Announced
  <2>1. /\ ~mishap /\ live /\ events = <<>> /\ ~(Cardinality(Unfinished) > 1)
        /\ events' = events \o <<Event("watch"), Event("chain")>>
    BY <1>8 DEF ProgramBreak
  <2>2. chain' = chain /\ Newest < MaxPrograms /\ programs' = Append(programs, [length |-> 0, finished |-> FALSE])
    BY <1>8 DEF ProgramBreak, chainVars, Newest
  <2>3. /\ programs' \in Seq(Recorded) /\ Len(programs') = Newest + 1
        /\ \A q \in 1..Newest : programs'[q] = programs[q]
        /\ programs'[Newest + 1].finished = FALSE
    BY <1>1, <2>2, ProgramBegun DEF Newest
  <2>4. Newest' = Newest + 1 /\ Unfinished' = Unfinished \cup {Newest + 1}
    <3>1. Newest' = Newest + 1 /\ DOMAIN programs' = 1..Newest + 1
      BY <2>3 DEF Newest
    <3>2. 1..Newest + 1 = 1..Newest \cup {Newest + 1}
      BY <1>3
    <3>. QED  BY <1>3, <2>3, <3>1, <3>2 DEF Unfinished
  <2>5. Unfinished \subseteq {Newest}
    <3>1. Newest \in Unfinished /\ Unfinished \subseteq {Newest - 1, Newest}
      BY <1>1, <2>1 DEF Opened, Announced
    <3>2. IsFiniteSet(Unfinished) /\ Cardinality(Unfinished) \in Nat
      <4>1. IsFiniteSet(1..Newest)
        BY <1>3, FS_Interval
      <4>. QED  BY <1>3, <4>1, FS_Subset, FS_CardinalityType
    <3>3. ASSUME Newest - 1 \in Unfinished PROVE FALSE
      <4>1. {Newest} \subseteq Unfinished /\ {Newest} # Unfinished /\ IsFiniteSet({Newest}) /\ Cardinality({Newest}) = 1
        <5>1. IsFiniteSet({Newest}) /\ Cardinality({Newest}) = 1
          BY FS_Singleton, Zenon
        <5>2. Newest - 1 # Newest
          BY <1>3
        <5>3. Newest - 1 \notin {Newest}
          BY <5>2
        <5>. QED  BY <3>1, <3>3, <5>1, <5>3
      <4>2. Cardinality({Newest}) < Cardinality(Unfinished)
        BY <3>2, <4>1, FS_Subset
      <4>. QED  BY <2>1, <3>2, <4>1, <4>2
    <3>. QED  BY <3>1, <3>3
  <2>6. UnderWay'
    <3>1. <<>> \o <<Event("watch"), Event("chain")>> = <<Event("watch"), Event("chain")>>
      OBVIOUS
    <3>2. Event("watch").kind = "watch" /\ Event("chain").kind = "chain"
      BY DEF Event
    <3>. QED  BY <2>1, <3>1, <3>2 DEF UnderWay
  <2>7. \A i \in 1..Len(chain') - 1 : programs'[chain'[i].program].finished
    <3>. TAKE i \in 1..Len(chain') - 1
    <3>1. i \in 1..Len(chain) /\ i \in 1..Len(chain) - 1
      BY <1>3, <2>2
    <3>. QED  BY <1>1, <1>2, <2>1, <2>2, <2>3, <3>1 DEF Announced
  <2>. QED  BY <1>3, <2>4, <2>5, <2>6, <2>7 DEF Announced
<1>9. ASSUME ProgramFinished PROVE Announced'
  <2>1. UNCHANGED <<watch, chain, live, mishap>>
    BY <1>9 DEF ProgramFinished, chainVars
  <2>. SUFFICES ASSUME ~mishap, live PROVE Announced'
    BY <2>1 DEF Announced
  <2>2. Newest' = Newest /\ DOMAIN programs' = 1..Newest
    BY <1>1, <1>9, ProgramOver DEF Newest
  <2>3. PICK p \in Unfinished : /\ p # Newest \/ ~live
                                /\ \A q \in 1..Newest : programs'[q].finished = (q = p \/ programs[q].finished)
    BY <1>1, <1>9, ProgramOver
  <2>4. p = Newest - 1
    BY <1>1, <2>3 DEF Announced
  <2>5. Unfinished' = Unfinished \ {p}
    BY <1>3, <2>2, <2>3 DEF Unfinished
  <2>6. \A i \in 1..Len(chain') - 1 : programs'[chain'[i].program].finished
    <3>. TAKE i \in 1..Len(chain') - 1
    <3>1. i \in 1..Len(chain) /\ i \in 1..Len(chain) - 1
      BY <1>3, <2>1
    <3>2. programs[chain[i].program].finished /\ chain[i].program \in 1..Newest
      BY <1>1, <1>2, <3>1 DEF Announced
    <3>. QED  BY <2>1, <2>3, <3>2
  <2>. QED  BY <1>1, <2>1, <2>2, <2>4, <2>5, <2>6 DEF Announced
<1>10. ASSUME Handle PROVE Announced'
  <2>1. UNCHANGED <<programs, live, stage, mishap>> /\ events # <<>> /\ events' = Tail(events) /\ stage # "waiting"
    BY <1>10 DEF Handle, backendVars
  <2>. SUFFICES ASSUME ~mishap, live PROVE Announced'
    BY <2>1 DEF Announced
  <2>2. Newest' = Newest /\ Unfinished' = Unfinished
    BY <2>1 DEF Newest, Unfinished
  <2>3. UNCHANGED chain \/ ChainGrows
    BY <1>10, HandleSteps
  <2>4. CASE Newest - 1 \in Unfinished
    <3>1. UnderWay
      BY <1>1, <2>4 DEF Announced
    <3>2. stage # "closed"
      BY <1>1 DEF Opened, Streaming
    <3>. DEFINE e == Head(events)
    <3>3. LiveTVChainUpdate(e) \/ LiveTVWatch(e) \/ LiveTVDoneRecording(e)
      BY <1>10, <3>2 DEF Handle
    <3>4. e = events[1] /\ Len(events) \in Nat
      BY <1>1, <2>1, LiveTypes
    <3>. HIDE DEF e
    <3>5. CASE Len(events) = 2 /\ events[1].kind = "watch" /\ events[2].kind = "chain"
      <4>1. LiveTVWatch(e)
        BY <3>3, <3>4, <3>5 DEF LiveTVChainUpdate, LiveTVDoneRecording
      <4>2. ~watch' /\ chain' = chain
        BY <4>1 DEF LiveTVWatch
      <4>3. Len(events') = 1 /\ events'[1] = events[2]
        <5>. DEFINE E == [kind : Kind, session : 1..MaxSessions]
        <5>1. events \in Seq(E) /\ events' = Tail(events) /\ Len(events) = 2
          BY <1>1, <2>1, <3>5, LiveTypes
        <5>. HIDE DEF E
        <5>2. events # <<>>
          BY <5>1
        <5>. QED  BY <5>1, <5>2, HeadTailProperties
      <4>. QED  BY <1>1, <2>1, <2>2, <3>5, <4>2, <4>3 DEF Announced, UnderWay
    <3>6. CASE ~watch /\ Len(events) = 1 /\ events[1].kind = "chain"
      <4>1. LiveTVChainUpdate(e)
        BY <3>3, <3>4, <3>6 DEF LiveTVWatch, LiveTVDoneRecording
      <4>2. watch' = watch /\ chain' = chain
        BY <3>6, <4>1 DEF LiveTVChainUpdate
      <4>3. events' = <<>>
        BY <1>1, <2>1, <3>6, LiveTypes
      <4>. QED  BY <1>1, <2>1, <2>2, <3>6, <4>2, <4>3 DEF Announced, UnderWay
    <3>. QED  BY <2>1, <3>1, <3>5, <3>6 DEF UnderWay
  <2>5. CASE Newest - 1 \notin Unfinished
    <3>1. Unfinished \subseteq {Newest}
      BY <1>1, <2>5 DEF Announced
    <3>2. \A i \in 1..Len(chain') - 1 : programs[chain'[i].program].finished
      <4>1. CASE UNCHANGED chain
        BY <1>1, <4>1 DEF Announced
      <4>2. CASE ChainGrows
        <5>1. Len(chain') = Len(chain) + 1 /\ \A j \in 1..Len(chain) : chain'[j] = chain[j] /\ chain[j].program < Newest
          BY <1>1, <2>1, <4>2, NewFileAppended DEF ChainGrows
        <5>. TAKE i \in 1..Len(chain') - 1
        <5>2. i \in 1..Len(chain)
          BY <1>3, <5>1
        <5>3. chain'[i].program \in 1..Newest /\ chain'[i].program # Newest
          BY <1>2, <1>3, <5>1, <5>2
        <5>. QED  BY <1>3, <3>1, <5>3
      <4>. QED  BY <2>3, <4>1, <4>2
    <3>. QED  BY <1>1, <2>1, <2>2, <2>5, <3>1, <3>2 DEF Announced
  <2>. QED  BY <2>4, <2>5
<1>11. ASSUME SetRecorder \/ SpawnFails PROVE Announced'
  <2>1. ~live'
    BY <1>1, <1>11 DEF SetRecorder, SpawnFails, backendVars, Opened, Streaming
  <2>. QED  BY <1>6, <2>1
<1>12. ASSUME SpawnLiveTV PROVE Announced'
  <2>. SUFFICES ASSUME ~mishap' PROVE Announced'
    BY DEF Announced
  <2>1. Unfinished = {} /\ programs' = Append(programs, [length |-> 0, finished |-> FALSE]) /\ Newest < MaxPrograms
        /\ chain' = <<[program |-> Len(programs'), known |-> 0, req |-> 0, pos |-> 0]>>
    BY <1>12 DEF SpawnLiveTV, Newest
  <2>2. /\ programs' \in Seq(Recorded) /\ Len(programs') = Newest + 1
        /\ \A q \in 1..Newest : programs'[q] = programs[q]
        /\ programs'[Newest + 1].finished = FALSE
    BY <1>1, <2>1, ProgramBegun DEF Newest
  <2>3. Newest' = Newest + 1 /\ Unfinished' = {Newest + 1}
    <3>1. Newest' = Newest + 1 /\ DOMAIN programs' = 1..Newest + 1
      BY <2>2 DEF Newest
    <3>2. 1..Newest + 1 = 1..Newest \cup {Newest + 1}
      BY <1>3
    <3>. QED  BY <1>3, <2>1, <2>2, <3>1, <3>2 DEF Unfinished
  <2>4. Len(chain') = 1
    BY <2>1
  <2>5. 1..Len(chain') - 1 = {}
    BY <2>4
  <2>6. Unfinished' \subseteq {Newest' - 1, Newest'}
    BY <2>3
  <2>7. Newest' - 1 \notin Unfinished'
    <3>1. Newest' - 1 = Newest /\ Newest # Newest + 1
      BY <1>3, <2>3
    <3>. QED  BY <2>3, <3>1
  <2>. QED  BY <2>5, <2>6, <2>7 DEF Announced
<1>13. ASSUME CloseLiveStream PROVE Announced'
  BY <1>6, <1>13 DEF CloseLiveStream
<1>14. ASSUME ReadData \/ SeekLiveStream PROVE Announced'
  <2>1. UNCHANGED <<programs, events, watch>> /\ live' = live /\ mishap' = mishap
    BY <1>14 DEF ReadData, SeekLiveStream, playerVars, backendVars
  <2>2. \E i, f : Reread(i, f)
    BY <1>14, ReadRereads, SeekRereads
  <2>. QED  BY <1>1, <1>4, <2>1, <2>2, RereadIs
<1>15. ASSUME ReadAtEnd \/ WaitEnds PROVE Announced'
  <2>1. UNCHANGED <<programs, events, watch, chain>> /\ live' = live /\ mishap' = mishap
    BY <1>15 DEF ReadAtEnd, WaitEnds, playerVars, backendVars
  <2>. QED  BY <1>4, <2>1
<1>. QED  BY <1>5, <1>7, <1>8, <1>9, <1>10, <1>11, <1>12, <1>13, <1>14, <1>15 DEF LiveTVNext

(* A file is left by a read when the backend has finished it.              *)
LEMMA TailKept == LiveInv /\ [LiveTVNext]_liveTVVars => NoTailLost'
<1>. SUFFICES ASSUME LiveInv, [LiveTVNext]_liveTVVars PROVE NoTailLost'
  OBVIOUS
<1>1. LiveTVTypeOK /\ Opened /\ Announced /\ ~early
  BY DEF LiveInv, NoTailLost
<1>2. ASSUME NEW i \in current..Len(chain), Leaves(i), stage = "open" PROVE ~early'
  <2>. SUFFICES ASSUME ~mishap, NEW j \in current..(i - 1), ~programs[chain[j].program].finished PROVE FALSE
    BY <1>1, <1>2 DEF Leaves
  <2>1. live /\ current # 0
    BY <1>1, <1>2 DEF Opened, Streaming
  <2>2. j \in 1..Len(chain) - 1
    BY <1>1, <2>1, LiveTypes
  <2>. QED  BY <1>1, <2>1, <2>2 DEF Announced
<1>3. ASSUME early' = early PROVE NoTailLost'
  BY <1>1, <1>3 DEF NoTailLost
<1>4. ASSUME ReadData PROVE NoTailLost'
  BY <1>2, <1>4 DEF ReadData, NoTailLost
<1>5. ASSUME ReadAtEnd PROVE NoTailLost'
  <2>1. Len(chain) \in current..Len(chain) /\ Leaves(Len(chain)) /\ stage = "open"
    BY <1>1, <1>5, LiveTypes DEF ReadAtEnd
  <2>. QED  BY <1>2, <2>1 DEF NoTailLost
<1>6. ASSUME ProgramGrows \/ ProgramBreak \/ ProgramFinished \/ Handle PROVE early' = early
  BY <1>6 DEF ProgramGrows, ProgramBreak, ProgramFinished, Handle
<1>7. ASSUME SetRecorder \/ SpawnLiveTV \/ SpawnFails \/ CloseLiveStream \/ WaitEnds \/ SeekLiveStream \/ UNCHANGED liveTVVars
      PROVE  early' = early
  BY <1>7 DEF SetRecorder, SpawnLiveTV, SpawnFails, CloseLiveStream, WaitEnds, SeekLiveStream,
     liveTVVars
<1>. QED  BY <1>3, <1>4, <1>5, <1>6, <1>7 DEF LiveTVNext

(* The chain of live TV is played file by file, each to its end and none   *)
(* twice, whatever the events and the backend do in whatever order, and a  *)
(* seek lands where it is asked to (ChainPlayed).                          *)
THEOREM ProgrammesPlayed == LiveTVSpec => []ChainPlayed
<1>1. LiveTVInit => LiveInv
  <2>. SUFFICES ASSUME LiveTVInit PROVE LiveInv
    OBVIOUS
  <2>1. LiveTVTypeOK
    <3>1. programs = <<>> /\ events = <<>> /\ chain = <<>> /\ current = 0
      BY DEF LiveTVInit
    <3>2. /\ programs \in Seq([length : 0..MaxLength, finished : BOOLEAN])
          /\ events \in Seq([kind : Kind, session : 1..MaxSessions])
          /\ chain \in Seq(ChainFile)
      BY <3>1
    <3>3. current \in 0..Len(chain)
      BY <3>1
    <3>4. session \in 0..MaxSessions /\ seeks \in 0..MaxSeeks /\ misses \in 0..MaxMisses
      BY LiveBounds DEF LiveTVInit
    <3>. QED  BY <3>2, <3>3, <3>4 DEF LiveTVInit, LiveTVTypeOK
  <2>2. Opened /\ FilesInOrder /\ Announced /\ NoTailLost
    BY LiveBounds DEF LiveTVInit, Opened, Streaming, EventsFindChain, FilesInOrder, ChainInOrder,
       Newest,
       Announced, NoTailLost
  <2>. QED  BY <2>1, <2>2 DEF LiveInv
<1>2. LiveInv /\ [LiveTVNext]_liveTVVars => LiveInv'
  BY LiveTypesKept, OpenedKept, AnnouncedKept, TailKept DEF LiveInv
<1>3. LiveInv => ChainPlayed
  BY SeeksLand DEF LiveInv, Opened, FilesInOrder, ChainPlayed
<1>. QED  BY <1>1, <1>2, <1>3, PTL DEF LiveTVSpec
=============================================================================
