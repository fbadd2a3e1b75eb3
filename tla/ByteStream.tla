------------------------------ MODULE ByteStream ------------------------------
(***************************************************************************)
(* What src/ringbuffer.c promises the one thread that writes and the one   *)
(* that reads: a stream of at most Capacity bytes.  A write accepts what   *)
(* there is room for when it is called and appends it, in order but not    *)
(* all at once; a read takes from the front what was there when it was     *)
(* called; a peek copies the same bytes and leaves them.                   *)
(***************************************************************************)
EXTENDS Naturals, Sequences

CONSTANTS Bytes,     \* the values of a byte
          Capacity,  \* the most bytes the stream holds
          MaxCount   \* bound: the longest read or write

VARIABLES stream,   \* the bytes between the writer and the reader, oldest first
          toWrite,  \* the bytes the running write has accepted and not appended
          wrote,    \* how many the running or last write has appended
          toRead,   \* how many bytes the running read still takes
          dest      \* what the running or last read or peek has filled in

vars == <<stream, toWrite, wrote, toRead, dest>>

First(s, n) == SubSeq(s, 1, n)
Rest(s, n) == SubSeq(s, n + 1, Len(s))
AtMost(n, limit) == IF n > limit THEN limit ELSE n

Init ==
  /\ stream = <<>>
  /\ toWrite = <<>>
  /\ wrote = 0
  /\ toRead = 0
  /\ dest = <<>>

BeginWrite(bytes) ==
  /\ toWrite = <<>>
  /\ toWrite' = First(bytes, AtMost(Len(bytes), Capacity - Len(stream)))
  /\ wrote' = 0
  /\ UNCHANGED <<stream, toRead, dest>>

Append1(k) ==
  /\ stream' = stream \o First(toWrite, k)
  /\ toWrite' = Rest(toWrite, k)
  /\ wrote' = wrote + k
  /\ UNCHANGED <<toRead, dest>>

BeginRead(cnt) ==
  /\ toRead = 0
  /\ toRead' = AtMost(cnt, Len(stream))
  /\ dest' = <<>>
  /\ UNCHANGED <<stream, toWrite, wrote>>

Take(k) ==
  /\ dest' = dest \o First(stream, k)
  /\ stream' = Rest(stream, k)
  /\ toRead' = toRead - k
  /\ UNCHANGED <<toWrite, wrote>>

\* Peeking ends: the bytes asked for are in dest and still in the stream.
Copy ==
  /\ dest' = First(stream, toRead)
  /\ toRead' = 0
  /\ UNCHANGED <<stream, toWrite, wrote>>

\* Both callers are outside their calls.
Reset ==
  /\ toWrite = <<>>
  /\ toRead = 0
  /\ stream' = <<>>
  /\ UNCHANGED <<toWrite, wrote, toRead, dest>>

Next ==
  \/ \E cnt \in 0..MaxCount : \E bytes \in [1..cnt -> Bytes] : BeginWrite(bytes)
  \/ \E k \in 1..Len(toWrite) : Append1(k)
  \/ \E cnt \in 0..MaxCount : BeginRead(cnt)
  \/ \E k \in 1..toRead : Take(k)
  \/ Copy
  \/ Reset

Spec == Init /\ [][Next]_vars
===============================================================================
