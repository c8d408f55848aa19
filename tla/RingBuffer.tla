---------------------------- MODULE RingBuffer ----------------------------
(***************************************************************************)
(* CRingBuffer of addons/pvr.nextpvr/src/RingBuffer.cpp, as operators on a *)
(* record of its members.  A variable of another module holds the buffer;  *)
(* the class has no lock of its own and is used by one thread.  The        *)
(* operations between two buffers are called by nobody and left out.       *)
(***************************************************************************)
EXTENDS Integers, Sequences

CONSTANTS
  Byte,  \* what a place of the buffer may hold
  Junk   \* what malloc() leaves in it

ASSUME JunkAssumption == Junk \in Byte

\* m_size, m_readPtr, m_writePtr, m_fillCount and what m_buffer points to.
RingBuffers(size) ==
  [mem : [0..(size - 1) -> Byte], size : {size}, readPtr : 0..(size - 1),
   writePtr : 0..(size - 1), fillCount : 0..size]

Create(size) ==
  [mem |-> [k \in 0..(size - 1) |-> Junk], size |-> size,
   readPtr |-> 0, writePtr |-> 0, fillCount |-> 0]

GetMaxReadSize(r) == r.fillCount
GetMaxWriteSize(r) == r.size - r.fillCount

\* The place n bytes after ptr, which is inside the buffer.
Wrapped(ptr, n, size) ==
  LET p == IF n + ptr > size THEN n - (size - ptr) ELSE ptr + n
  IN  IF p = size THEN 0 ELSE p

\* Both pieces read from where the first one is.
BytesFromOnePlace(r, n) ==
  LET chunk == r.size - r.readPtr
  IN  [i \in 1..n |-> IF n + r.readPtr > r.size /\ i > chunk
                      THEN r.mem[r.readPtr] ELSE r.mem[r.readPtr + i - 1]]

\* memcpy from the buffer, in one piece or in two.
BytesAt(r, n) ==
  LET chunk == r.size - r.readPtr
  IN  [i \in 1..n |-> IF n + r.readPtr > r.size /\ i > chunk
                      THEN r.mem[i - 1 - chunk] ELSE r.mem[r.readPtr + i - 1]]

\* memcpy into the buffer, in one piece or in two.
Stored(r, data) ==
  LET n == Len(data)
      chunk == r.size - r.writePtr
  IN  [k \in 0..(r.size - 1) |->
         IF k >= r.writePtr /\ k < r.writePtr + n THEN data[k - r.writePtr + 1]
         ELSE IF n + r.writePtr > r.size /\ k < n - chunk THEN data[chunk + k + 1]
         ELSE r.mem[k]]

\* WriteData: all of data or nothing.
WriteData(r, data) ==
  IF Len(data) > r.size - r.fillCount THEN r
  ELSE [r EXCEPT !.mem = Stored(r, data),
                 !.writePtr = Wrapped(@, Len(data), r.size),
                 !.fillCount = @ + Len(data)]

\* The buffer after ReadData or SkipBytes: n bytes gone, or nothing.
SkipBytes(r, n) ==
  IF n > r.fillCount THEN r
  ELSE [r EXCEPT !.readPtr = Wrapped(@, n, r.size), !.fillCount = @ - n]

\* What the buffer holds, oldest first.
Contents(r) ==
  [i \in 1..r.fillCount |-> r.mem[IF r.readPtr + i - 1 < r.size THEN r.readPtr + i - 1
                                  ELSE r.readPtr + i - 1 - r.size]]
===========================================================================
