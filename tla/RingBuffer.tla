------------------------------ MODULE RingBuffer ------------------------------
(***************************************************************************)
(* jack_ringbuffer of src/ringbuffer.c, which carries bytes from one       *)
(* writing thread to one reading thread without a lock.                    *)
(*                                                                         *)
(* A call first loads both pointers, then copies up to the end of the      *)
(* buffer, stores its own pointer, and does the same again from the start  *)
(* if the bytes wrap around.  Each memcpy and each store of a pointer is a *)
(* step.  The pointers are volatile and not atomic; they are taken to be   *)
(* stored after the bytes they publish, as x86 does.                       *)
(***************************************************************************)
EXTENDS Integers, Sequences

CONSTANTS Bytes,      \* the values of a byte
          NoByte,     \* a byte of the buffer as malloc returns it
          Size,       \* rb->size, a power of two
          MaxCount    \* bound: the longest read or write

\* What the theorems take the constants to be.
RingAssumption ==
  /\ Size \in Nat \ {0, 1}
  /\ NoByte \notin Bytes
  /\ MaxCount \in Nat

VARIABLES buf, write_ptr, read_ptr,
          writer,  \* where the writing thread is
          src,     \* the bytes the running write has accepted, to_write of them
          w1,      \* n1: how many of them fit before the end of the buffer
          wrote,   \* what the last write returned
          reader,  \* where the reading thread is
          r1, r2,  \* n1 and n2 of the running read or peek
          dest     \* the caller's memory the last read or peek filled

ringVars == <<buf, write_ptr, read_ptr>>
writerVars == <<writer, src, w1, wrote>>
readerVars == <<reader, r1, r2, dest>>
vars == <<ringVars, writerVars, readerVars>>

Slots == 0..Size - 1

\* n & rb->size_mask, for a size that is a power of two
mask(n) == n % Size

read_space == mask(write_ptr - read_ptr)

write_space == Size - 1 - read_space

atMost(n, limit) == IF n > limit THEN limit ELSE n
first(s, n) == SubSeq(s, 1, n)
rest(s, n) == SubSeq(s, n + 1, Len(s))

\* n1: how many of cnt bytes from ptr on lie before the end of the buffer
beforeEnd(ptr, cnt) == IF ptr + cnt > Size THEN Size - ptr ELSE cnt

TypeOK ==
  /\ buf \in [Slots -> Bytes \cup {NoByte}]
  /\ write_ptr \in Slots
  /\ read_ptr \in Slots
  /\ writer \in {"idle", "copy1", "store1", "copy2", "store2", "vector", "advance"}
  /\ src \in Seq(Bytes)
  /\ w1 \in 0..Size
  /\ wrote \in Nat
  /\ reader \in {"idle", "copy1", "store1", "copy2", "store2", "peek1", "peek2", "vector", "advance"}
  /\ r1 \in 0..Size
  /\ r2 \in 0..Size
  /\ dest \in Seq(Bytes)

Init ==
  /\ buf = [s \in Slots |-> NoByte]
  /\ write_ptr = 0
  /\ read_ptr = 0
  /\ writer = "idle"
  /\ src = <<>>
  /\ w1 = 0
  /\ wrote = 0
  /\ reader = "idle"
  /\ r1 = 0
  /\ r2 = 0
  /\ dest = <<>>

\* memcpy (&buf[ptr], bytes, Len(bytes))
copied(ptr, bytes) ==
  [s \in Slots |-> IF s \in ptr..ptr + Len(bytes) - 1 THEN bytes[s - ptr + 1] ELSE buf[s]]

\* the n bytes memcpy takes from ptr on
bytesAt(ptr, n) == [i \in 1..n |-> buf[ptr + i - 1]]

-----------------------------------------------------------------------------
(* jack_ringbuffer_write *)

WriteFull ==
  /\ writer = "idle"
  /\ write_space = 0
  /\ wrote' = 0
  /\ UNCHANGED <<ringVars, writer, src, w1, readerVars>>

WriteBegin(bytes) ==
  LET n == atMost(Len(bytes), write_space) IN
  /\ writer = "idle"
  /\ write_space > 0
  /\ src' = first(bytes, n)
  /\ w1' = beforeEnd(write_ptr, n)
  /\ writer' = "copy1"
  /\ UNCHANGED <<ringVars, wrote, readerVars>>

WriteCopy1 ==
  /\ writer = "copy1"
  /\ buf' = copied(write_ptr, first(src, w1))
  /\ writer' = "store1"
  /\ UNCHANGED <<write_ptr, read_ptr, src, w1, wrote, readerVars>>

writeReturns ==
  /\ writer' = "idle"
  /\ wrote' = Len(src)
  /\ src' = <<>>
  /\ w1' = 0

WriteStore1 ==
  /\ writer = "store1"
  /\ write_ptr' = mask(write_ptr + w1)
  /\ \/ w1 < Len(src) /\ writer' = "copy2" /\ UNCHANGED <<src, w1, wrote>>
     \/ w1 = Len(src) /\ writeReturns
  /\ UNCHANGED <<buf, read_ptr, readerVars>>

WriteCopy2 ==
  /\ writer = "copy2"
  /\ buf' = copied(write_ptr, rest(src, w1))
  /\ writer' = "store2"
  /\ UNCHANGED <<write_ptr, read_ptr, src, w1, wrote, readerVars>>

WriteStore2 ==
  /\ writer = "store2"
  /\ write_ptr' = mask(write_ptr + (Len(src) - w1))
  /\ writeReturns
  /\ UNCHANGED <<buf, read_ptr, readerVars>>

-----------------------------------------------------------------------------
(* jack_ringbuffer_get_write_vector, and jack_ringbuffer_write_advance by as *)
(* many bytes as the caller has filled in.                                   *)

\* The caller keeps the two lengths, which together are write_space: w1 stands
\* for their sum.
GetWriteVector ==
  /\ writer = "idle"
  /\ w1' = write_space
  /\ writer' = "vector"
  /\ UNCHANGED <<ringVars, src, wrote, readerVars>>

FillWriteVector(bytes) ==
  LET n == beforeEnd(write_ptr, Len(bytes)) IN
  /\ writer = "vector"
  /\ Len(bytes) <= w1
  /\ src' = bytes
  /\ buf' = [s \in Slots |->
               IF s >= write_ptr THEN copied(write_ptr, first(bytes, n))[s]
                                 ELSE copied(0, rest(bytes, n))[s]]
  /\ writer' = "advance"
  /\ UNCHANGED <<write_ptr, read_ptr, w1, wrote, readerVars>>

WriteAdvance ==
  /\ writer = "advance"
  /\ write_ptr' = mask(write_ptr + Len(src))
  /\ writeReturns
  /\ UNCHANGED <<buf, read_ptr, readerVars>>

-----------------------------------------------------------------------------
(* jack_ringbuffer_read and jack_ringbuffer_peek *)

TakeNone ==
  /\ reader = "idle"
  /\ read_space = 0
  /\ dest' = <<>>
  /\ UNCHANGED <<ringVars, writerVars, reader, r1, r2>>

TakeBegin(cnt, first_step) ==
  LET n == atMost(cnt, read_space) IN
  /\ reader = "idle"
  /\ read_space > 0
  /\ r1' = beforeEnd(read_ptr, n)
  /\ r2' = n - r1'
  /\ dest' = <<>>
  /\ reader' = first_step
  /\ UNCHANGED <<ringVars, writerVars>>

ReadBegin(cnt) == TakeBegin(cnt, "copy1")

ReadCopy1 ==
  /\ reader = "copy1"
  /\ dest' = bytesAt(read_ptr, r1)
  /\ reader' = "store1"
  /\ UNCHANGED <<ringVars, writerVars, r1, r2>>

takeReturns ==
  /\ reader' = "idle"
  /\ r1' = 0
  /\ r2' = 0

ReadStore1 ==
  /\ reader = "store1"
  /\ read_ptr' = mask(read_ptr + r1)
  /\ \/ r2 > 0 /\ reader' = "copy2" /\ UNCHANGED <<r1, r2>>
     \/ r2 = 0 /\ takeReturns
  /\ UNCHANGED <<buf, write_ptr, writerVars, dest>>

ReadCopy2 ==
  /\ reader = "copy2"
  /\ dest' = dest \o bytesAt(read_ptr, r2)
  /\ reader' = "store2"
  /\ UNCHANGED <<ringVars, writerVars, r1, r2>>

ReadStore2 ==
  /\ reader = "store2"
  /\ read_ptr' = mask(read_ptr + r2)
  /\ takeReturns
  /\ UNCHANGED <<buf, write_ptr, writerVars, dest>>

PeekBegin(cnt) == TakeBegin(cnt, "peek1")

PeekCopy1 ==
  /\ reader = "peek1"
  /\ dest' = bytesAt(read_ptr, r1)
  /\ \/ r2 > 0 /\ reader' = "peek2" /\ UNCHANGED <<r1, r2>>
     \/ r2 = 0 /\ takeReturns
  /\ UNCHANGED <<ringVars, writerVars>>

PeekCopy2 ==
  /\ reader = "peek2"
  /\ dest' = dest \o bytesAt(mask(read_ptr + r1), r2)
  /\ takeReturns
  /\ UNCHANGED <<ringVars, writerVars>>

-----------------------------------------------------------------------------
(* jack_ringbuffer_get_read_vector, and jack_ringbuffer_read_advance by as  *)
(* many bytes as the caller has used.                                       *)

GetReadVector ==
  /\ reader = "idle"
  /\ r1' = beforeEnd(read_ptr, read_space)
  /\ r2' = read_space - r1'
  /\ dest' = <<>>
  /\ reader' = "vector"
  /\ UNCHANGED <<ringVars, writerVars>>

UseReadVector(cnt) ==
  LET n == atMost(cnt, r1) IN
  /\ reader = "vector"
  /\ cnt <= r1 + r2
  /\ dest' = bytesAt(read_ptr, n) \o bytesAt(0, cnt - n)
  /\ reader' = "advance"
  /\ UNCHANGED <<ringVars, writerVars, r1, r2>>

ReadAdvance ==
  /\ reader = "advance"
  /\ read_ptr' = mask(read_ptr + Len(dest))
  /\ takeReturns
  /\ UNCHANGED <<buf, write_ptr, writerVars, dest>>

-----------------------------------------------------------------------------
\* jack_ringbuffer_reset, "not thread safe": only while nobody is in a call.
Reset ==
  /\ writer = "idle"
  /\ reader = "idle"
  /\ read_ptr' = 0
  /\ write_ptr' = 0
  /\ UNCHANGED <<buf, writerVars, readerVars>>

Strings == UNION {[1..cnt -> Bytes] : cnt \in 1..MaxCount}

Write ==
  \/ WriteFull
  \/ \E bytes \in Strings : WriteBegin(bytes)
  \/ WriteCopy1
  \/ WriteStore1
  \/ WriteCopy2
  \/ WriteStore2
  \/ GetWriteVector
  \/ \E bytes \in Strings \cup {<<>>} : FillWriteVector(bytes)
  \/ WriteAdvance

Read ==
  \/ TakeNone
  \/ \E cnt \in 1..MaxCount : ReadBegin(cnt)
  \/ ReadCopy1
  \/ ReadStore1
  \/ ReadCopy2
  \/ ReadStore2
  \/ \E cnt \in 1..MaxCount : PeekBegin(cnt)
  \/ PeekCopy1
  \/ PeekCopy2
  \/ GetReadVector
  \/ \E cnt \in 0..MaxCount : UseReadVector(cnt)
  \/ ReadAdvance

Next == Write \/ Read \/ Reset

Spec == Init /\ [][Next]_vars

-----------------------------------------------------------------------------
(* Properties *)

\* The bytes published and not yet taken.
content == [i \in 1..read_space |-> buf[mask(read_ptr + i - 1)]]

\* The bytes a write has accepted and not yet published, and those a read has
\* not yet released.
unpublished ==
  CASE writer \in {"copy1", "store1", "advance"} -> src
    [] writer \in {"copy2", "store2"} -> rest(src, w1)
    [] OTHER -> <<>>

unreleased ==
  CASE reader \in {"copy1", "store1", "peek1", "peek2"} -> r1 + r2
    [] reader \in {"copy2", "store2"} -> r2
    [] reader = "advance" -> Len(dest)
    [] OTHER -> 0

published ==
  CASE writer \in {"copy1", "store1", "advance"} -> 0
    [] writer \in {"copy2", "store2"} -> w1
    [] OTHER -> wrote

released ==
  CASE reader \in {"store1", "advance", "peek2"} -> <<>>
    [] reader = "store2" -> first(dest, r1)
    [] OTHER -> dest

\* Wherever a call wraps around the end of the buffer and however the other
\* thread's call runs in between, the bytes come out in the order they went in,
\* none twice and none lost, and each call moves exactly as many as it returns:
\* write (ringbuffer.c:233-268) and read (149-184), which publish in two parts,
\* and peek, the vectors and the advances implement the stream.
Stream == INSTANCE ByteStream WITH
  Capacity <- Size - 1, stream <- content, toWrite <- unpublished,
  wrote <- published, toRead <- unreleased, dest <- released
ImplementsStream == Stream!Spec

\* The slots the writing thread is still to fill and those the reading thread
\* is still to copy never meet, although each works from a pointer of the other
\* that it loaded before (ringbuffer.c:157 and 241): the space between them is
\* never more than the ring less the one slot kept free.
SidesNeverMeet ==
  /\ read_space + Len(unpublished) < Size
  /\ unreleased <= read_space
  /\ writer = "vector" => read_space + w1 < Size
  /\ reader = "vector" => r1 + r2 <= read_space
===============================================================================
