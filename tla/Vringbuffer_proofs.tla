-------------------------- MODULE Vringbuffer_proofs -------------------------
(***************************************************************************)
(* The parts vringbuffer is made of.  For every size of the ring and       *)
(* whatever the two threads write and read: the two sides never meet, and  *)
(* the ring implements ByteStream.  However often upwaker_wake_up is       *)
(* called and whenever the sleeper comes: a wake ends one sleep, and       *)
(* another only if the sleeper overtakes it.                               *)
(***************************************************************************)
EXTENDS RingBuffer, Upwaker, CommonLemmas, SequenceTheorems

-----------------------------------------------------------------------------
(* Arithmetic of the pointers *)

\* Masking takes a pointer that has run off either end once back into the ring.
LEMMA MaskOnce ==
  ASSUME RingAssumption, NEW n \in Int, n + Size > 0, n < Size + Size
  PROVE  mask(n) = IF n < 0 THEN n + Size ELSE IF n < Size THEN n ELSE n - Size
<1>1. Size \in Nat \ {0}
  BY DEF RingAssumption
<1>2. CASE n < 0
  <2>1. n = Size * (-1) + (n + Size) /\ n + Size \in 0..Size - 1
    BY <1>1, <1>2
  <2> QED BY <1>1, <1>2, <2>1, RemainderIsUnique DEF mask
<1>3. CASE n >= 0 /\ n < Size
  BY <1>1, <1>3, SmallRemainder DEF mask
<1>4. CASE n >= Size
  <2>1. n = Size * 1 + (n - Size) /\ n - Size \in 0..Size - 1
    BY <1>1, <1>4
  <2> QED BY <1>1, <1>4, <2>1, RemainderIsUnique DEF mask
<1> QED BY <1>1, <1>2, <1>3, <1>4

\* How far w is ahead of r: read_space, and the slot of the i-th byte from r on.
ahead(w, r) == mask(w - r)
slot(r, i) == mask(r + i - 1)

\* The distance is less than the size.
LEMMA AheadIs ==
  ASSUME RingAssumption, NEW w \in Slots, NEW r \in Slots
  PROVE  /\ ahead(w, r) = IF w < r THEN w - r + Size ELSE w - r
         /\ ahead(w, r) \in Slots
<1>1. mask(w - r) = IF w - r < 0 THEN w - r + Size ELSE IF w - r < Size THEN w - r ELSE w - r - Size
  BY MaskOnce DEF RingAssumption, Slots
<1> QED BY <1>1 DEF ahead, Slots, RingAssumption

\* A byte less than the size ahead is in a slot of the ring.
LEMMA SlotIs ==
  ASSUME RingAssumption, NEW r \in Slots, NEW i \in 1..Size
  PROVE  /\ slot(r, i) = IF r + i - 1 < Size THEN r + i - 1 ELSE r + i - 1 - Size
         /\ slot(r, i) \in Slots
<1>0. r + i - 1 \in Int /\ Size \in Nat \ {0, 1} /\ r \in 0..Size - 1
  BY DEF RingAssumption, Slots
<1>1. PICK n \in Int : n = r + i - 1
  BY <1>0
<1>2. n >= 0 /\ n < Size + Size /\ n + Size > 0
  BY <1>0, <1>1
<1>3. mask(n) = IF n < 0 THEN n + Size ELSE IF n < Size THEN n ELSE n - Size
  BY <1>2, MaskOnce
<1>4. slot(r, i) = mask(n)
  BY <1>1 DEF slot
<1> QED BY <1>0, <1>1, <1>2, <1>3, <1>4 DEF Slots

\* Moving a pointer on by less than the size.
LEMMA MovedIs ==
  ASSUME RingAssumption, NEW w \in Slots, NEW k \in 0..Size
  PROVE  /\ mask(w + k) = IF w + k < Size THEN w + k ELSE w + k - Size
         /\ mask(w + k) \in Slots
<1>0. w + k \in Int /\ Size \in Nat \ {0, 1} /\ w \in 0..Size - 1
  BY DEF RingAssumption, Slots
<1>1. PICK n \in Int : n = w + k
  BY <1>0
<1>2. n >= 0 /\ n < Size + Size /\ n + Size > 0
  BY <1>0, <1>1
<1>3. mask(n) = IF n < 0 THEN n + Size ELSE IF n < Size THEN n ELSE n - Size
  BY <1>2, MaskOnce
<1>4. mask(w + k) = mask(n)
  BY <1>1
<1> QED BY <1>0, <1>1, <1>2, <1>3, <1>4 DEF Slots

\* The slots from w on that are not given to the reader are none of its own.
LEMMA FreeSlots ==
  ASSUME RingAssumption, NEW w \in Slots, NEW r \in Slots,
         NEW i \in 1..ahead(w, r), NEW j \in 1..Size - ahead(w, r)
  PROVE  slot(r, i) # slot(w, j)
<1> DEFINE a == ahead(w, r)
<1>1. /\ Size \in Nat \ {0, 1} /\ w \in 0..Size - 1 /\ r \in 0..Size - 1
      /\ a \in 0..Size - 1
      /\ a = IF w < r THEN w - r + Size ELSE w - r
      /\ i \in 1..a /\ j \in 1..Size - a
  BY AheadIs DEF Slots, RingAssumption
<1> HIDE DEF a
<1>2. i \in 1..Size /\ j \in 1..Size
  BY <1>1
<1>3. /\ slot(r, i) = IF r + i - 1 < Size THEN r + i - 1 ELSE r + i - 1 - Size
      /\ slot(w, j) = IF w + j - 1 < Size THEN w + j - 1 ELSE w + j - 1 - Size
  BY <1>2, SlotIs
<1> QED BY <1>1, <1>3

\* Publishing k bytes: the reader's slots are those it had and then the k from w on.
LEMMA Published ==
  ASSUME RingAssumption, NEW w \in Slots, NEW r \in Slots,
         NEW k \in Nat, ahead(w, r) + k < Size
  PROVE  /\ ahead(mask(w + k), r) = ahead(w, r) + k
         /\ \A j \in 1..k : slot(r, ahead(w, r) + j) = slot(w, j)
<1> DEFINE a == ahead(w, r)
           v == mask(w + k)
<1>1. /\ Size \in Nat \ {0, 1} /\ w \in 0..Size - 1 /\ r \in 0..Size - 1
      /\ a \in 0..Size - 1
      /\ a = IF w < r THEN w - r + Size ELSE w - r
      /\ a + k < Size
  BY AheadIs DEF Slots, RingAssumption
<1> HIDE DEF a
<1>2. k \in 0..Size
  BY <1>1
<1>3. v = (IF w + k < Size THEN w + k ELSE w + k - Size) /\ v \in Slots
  BY <1>2, MovedIs
<1> HIDE DEF v
<1>4. ahead(v, r) = IF v < r THEN v - r + Size ELSE v - r
  BY <1>3, AheadIs
<1>5. ahead(v, r) = a + k
  BY <1>1, <1>3, <1>4
<1>6. ASSUME NEW j \in 1..k PROVE slot(r, a + j) = slot(w, j)
  <2>1. j \in 1..Size /\ a + j \in 1..Size
    BY <1>1
  <2> DEFINE i == a + j
  <2>2. i = a + j /\ i \in 1..Size
    BY <2>1
  <2> HIDE DEF i
  <2>3. /\ slot(r, i) = IF r + i - 1 < Size THEN r + i - 1 ELSE r + i - 1 - Size
        /\ slot(w, j) = IF w + j - 1 < Size THEN w + j - 1 ELSE w + j - 1 - Size
    BY <2>1, <2>2, SlotIs
  <2>4. slot(r, i) = slot(w, j)
    BY <1>1, <2>1, <2>2, <2>3
  <2> QED BY <2>4 DEF i
<1> QED BY <1>5, <1>6 DEF a, v

\* Releasing k bytes: the others stay where they are.
LEMMA Released ==
  ASSUME RingAssumption, NEW w \in Slots, NEW r \in Slots,
         NEW k \in 0..ahead(w, r)
  PROVE  /\ ahead(w, mask(r + k)) = ahead(w, r) - k
         /\ \A i \in 1..ahead(w, r) - k : slot(mask(r + k), i) = slot(r, k + i)
<1> DEFINE a == ahead(w, r)
           q == mask(r + k)
<1>1. /\ Size \in Nat \ {0, 1} /\ w \in 0..Size - 1 /\ r \in 0..Size - 1
      /\ a \in 0..Size - 1
      /\ a = IF w < r THEN w - r + Size ELSE w - r
      /\ k \in 0..a
  BY AheadIs DEF Slots, RingAssumption
<1> HIDE DEF a
<1>2. k \in 0..Size
  BY <1>1
<1>3. q = (IF r + k < Size THEN r + k ELSE r + k - Size) /\ q \in Slots
  BY <1>2, MovedIs
<1> HIDE DEF q
<1>4. ahead(w, q) = IF w < q THEN w - q + Size ELSE w - q
  BY <1>3, AheadIs
<1>5. ahead(w, q) = a - k
  BY <1>1, <1>3, <1>4
<1>6. ASSUME NEW i \in 1..a - k PROVE slot(q, i) = slot(r, k + i)
  <2>1. i \in 1..Size /\ k + i \in 1..Size
    BY <1>1
  <2> DEFINE j == k + i
  <2>2. j = k + i /\ j \in 1..Size
    BY <2>1
  <2> HIDE DEF j
  <2>3. /\ slot(q, i) = IF q + i - 1 < Size THEN q + i - 1 ELSE q + i - 1 - Size
        /\ slot(r, j) = IF r + j - 1 < Size THEN r + j - 1 ELSE r + j - 1 - Size
    BY <1>3, <2>1, <2>2, SlotIs
  <2>4. slot(q, i) = slot(r, j)
    BY <1>1, <1>3, <2>1, <2>2, <2>3
  <2> QED BY <2>4 DEF j
<1> QED BY <1>5, <1>6 DEF a, q

-----------------------------------------------------------------------------
(* First and rest of a sequence *)

\* What first and rest are, element by element.
LEMMA FirstIs ==
  ASSUME NEW S, NEW s \in Seq(S), NEW k \in 0..Len(s)
  PROVE  /\ first(s, k) \in Seq(S)
         /\ Len(first(s, k)) = k
         /\ \A i \in 1..k : first(s, k)[i] = s[i]
<1>1. Len(s) \in Nat /\ \A i \in 1..k : s[i] \in S
  BY LenProperties, ElementOfSeq
<1>2. /\ SubSeq(s, 1, k) \in Seq(S)
      /\ Len(SubSeq(s, 1, k)) = IF 1 <= k THEN k - 1 + 1 ELSE 0
      /\ \A i \in 1..k - 1 + 1 : SubSeq(s, 1, k)[i] = s[1 + i - 1]
  BY <1>1, SubSeqProperties
<1>3. k - 1 + 1 = k /\ \A i \in 1..k : 1 + i - 1 = i
  BY <1>1
<1> QED BY <1>1, <1>2, <1>3 DEF first

LEMMA RestIs ==
  ASSUME NEW S, NEW s \in Seq(S), NEW k \in 0..Len(s)
  PROVE  /\ rest(s, k) \in Seq(S)
         /\ Len(rest(s, k)) = Len(s) - k
         /\ \A i \in 1..Len(s) - k : rest(s, k)[i] = s[k + i]
<1>1. Len(s) \in Nat /\ \A i \in k + 1..Len(s) : s[i] \in S
  BY LenProperties, ElementOfSeq
<1>2. /\ SubSeq(s, k + 1, Len(s)) \in Seq(S)
      /\ Len(SubSeq(s, k + 1, Len(s))) = IF k + 1 <= Len(s) THEN Len(s) - (k + 1) + 1 ELSE 0
      /\ \A i \in 1..Len(s) - (k + 1) + 1 : SubSeq(s, k + 1, Len(s))[i] = s[k + 1 + i - 1]
  <2>1. k + 1 \in Int /\ Len(s) \in Int
    BY <1>1
  <2> QED BY <1>1, <2>1, SubSeqProperties
<1>3. Len(rest(s, k)) = Len(s) - k
  BY <1>1, <1>2 DEF rest
<1>4. ASSUME NEW i \in 1..Len(s) - k PROVE rest(s, k)[i] = s[k + i]
  <2>1. i \in 1..Len(s) - (k + 1) + 1 /\ k + 1 + i - 1 = k + i
    BY <1>1
  <2>2. SubSeq(s, k + 1, Len(s))[i] = s[k + 1 + i - 1]
    BY <1>2, <2>1
  <2> QED BY <2>1, <2>2 DEF rest
<1> QED BY <1>2, <1>3, <1>4 DEF rest

\* The first of a sequence stays when something is appended.
LEMMA FirstOfLonger ==
  ASSUME NEW S, NEW s \in Seq(S), NEW t \in Seq(S), NEW k \in 0..Len(s)
  PROVE  first(s \o t, k) = first(s, k)
<1>1. /\ s \o t \in Seq(S) /\ Len(s \o t) = Len(s) + Len(t)
      /\ Len(s) \in Nat /\ Len(t) \in Nat
      /\ \A i \in 1..Len(s) + Len(t) : (s \o t)[i] = IF i <= Len(s) THEN s[i] ELSE t[i - Len(s)]
  BY ConcatProperties, LenProperties
<1>2. k \in 0..Len(s \o t)
  BY <1>1
<1>3. ASSUME NEW i \in 1..k PROVE first(s \o t, k)[i] = first(s, k)[i]
  <2>1. first(s \o t, k)[i] = (s \o t)[i] /\ first(s, k)[i] = s[i]
    BY <1>1, <1>2, FirstIs
  <2>2. i \in 1..Len(s) + Len(t) /\ i <= Len(s)
    BY <1>1
  <2> QED BY <1>1, <2>1, <2>2
<1>4. first(s \o t, k) \in Seq(S) /\ first(s, k) \in Seq(S)
      /\ Len(first(s \o t, k)) = k /\ Len(first(s, k)) = k
  BY <1>1, <1>2, FirstIs
<1> QED BY <1>3, <1>4, SeqEqual

\* The whole of a sequence, and nothing of it.
LEMMA FirstAll ==
  ASSUME NEW S, NEW s \in Seq(S)
  PROVE  /\ first(s, Len(s)) = s
         /\ rest(s, Len(s)) = <<>>
         /\ first(s, 0) = <<>>
         /\ rest(s, 0) = s
         /\ \A t \in Seq(S) : first(s \o t, Len(s)) = s
<1>1. Len(s) \in Nat
  BY LenProperties
<1>2. first(s, Len(s)) = s /\ rest(s, 0) = s
  BY <1>1, SubSeqFull DEF first, rest
<1>3. rest(s, Len(s)) = <<>> /\ first(s, 0) = <<>>
  BY <1>1, SubSeqEmpty DEF first, rest
<1>4. ASSUME NEW t \in Seq(S) PROVE first(s \o t, Len(s)) = s
  <2>1. Len(s) \in 0..Len(s)
    BY <1>1
  <2> QED BY <1>2, <2>1, FirstOfLonger
<1> QED BY <1>2, <1>3, <1>4

-----------------------------------------------------------------------------
(* The bytes in the ring *)

Cells == Bytes \cup {NoByte}

\* The bytes between the pointers r and w of the buffer b.
held(b, w, r) == [i \in 1..ahead(w, r) |-> b[slot(r, i)]]

LEMMA HeldIs ==
  ASSUME RingAssumption, NEW w \in Slots, NEW r \in Slots, NEW b \in [Slots -> Cells]
  PROVE  /\ held(b, w, r) \in Seq(Cells)
         /\ Len(held(b, w, r)) = ahead(w, r)
         /\ \A i \in 1..ahead(w, r) : held(b, w, r)[i] = b[slot(r, i)]
         /\ ahead(w, r) \in 0..Size - 1
<1>1. ahead(w, r) \in 0..Size - 1 /\ Size \in Nat
  BY AheadIs DEF Slots, RingAssumption
<1>2. \A i \in 1..ahead(w, r) : b[slot(r, i)] \in Cells
  <2>1. \A i \in 1..ahead(w, r) : i \in 1..Size
    BY <1>1
  <2> QED BY <2>1, SlotIs
<1>3. held(b, w, r) \in [1..ahead(w, r) -> Cells]
  BY <1>2 DEF held
<1>4. held(b, w, r) \in Seq(Cells)
  BY <1>1, <1>3, SeqDef
<1>5. Len(held(b, w, r)) = ahead(w, r)
  BY <1>1, <1>3, <1>4, LenProperties
<1> QED BY <1>1, <1>4, <1>5 DEF held

\* A pointer stored behind bytes that have been copied appends them.
LEMMA StoreAppends ==
  ASSUME RingAssumption, NEW w \in Slots, NEW r \in Slots, NEW b \in [Slots -> Cells],
         NEW s \in Seq(Cells), ahead(w, r) + Len(s) < Size,
         \A j \in 1..Len(s) : b[slot(w, j)] = s[j]
  PROVE  held(b, mask(w + Len(s)), r) = held(b, w, r) \o s
<1> DEFINE a == ahead(w, r)
           v == mask(w + Len(s))
<1>1. /\ Len(s) \in Nat /\ a \in 0..Size - 1 /\ Size \in Nat
      /\ a + Len(s) < Size
  BY LenProperties, HeldIs DEF RingAssumption
<1>2. v \in Slots /\ ahead(v, r) = a + Len(s)
  <2>1. Len(s) \in 0..Size
    BY <1>1
  <2> QED BY <1>1, <2>1, MovedIs, Published
<1>3. \A j \in 1..Len(s) : b[slot(r, a + j)] = s[j]
  BY <1>1, Published
<1> HIDE DEF a, v
<1>4. /\ held(b, v, r) \in Seq(Cells) /\ Len(held(b, v, r)) = a + Len(s)
      /\ \A i \in 1..a + Len(s) : held(b, v, r)[i] = b[slot(r, i)]
  <2>1. /\ held(b, v, r) \in Seq(Cells) /\ Len(held(b, v, r)) = ahead(v, r)
        /\ \A i \in 1..ahead(v, r) : held(b, v, r)[i] = b[slot(r, i)]
    BY <1>2, HeldIs
  <2> QED BY <1>2, <2>1
<1>5. /\ held(b, w, r) \in Seq(Cells) /\ Len(held(b, w, r)) = a
      /\ \A i \in 1..a : held(b, w, r)[i] = b[slot(r, i)]
  BY HeldIs DEF a
<1>6. /\ held(b, w, r) \o s \in Seq(Cells)
      /\ Len(held(b, w, r) \o s) = a + Len(s)
      /\ \A i \in 1..a + Len(s) : (held(b, w, r) \o s)[i]
           = IF i <= a THEN held(b, w, r)[i] ELSE s[i - a]
  BY <1>5, ConcatProperties
<1>7. ASSUME NEW i \in 1..a + Len(s)
      PROVE  held(b, v, r)[i] = (held(b, w, r) \o s)[i]
  <2>1. CASE i <= a
    BY <1>1, <1>4, <1>5, <1>6, <2>1
  <2>2. CASE ~(i <= a)
    <3>1. i - a \in 1..Len(s) /\ a + (i - a) = i
      BY <1>1, <2>2
    <3> QED BY <1>3, <1>4, <1>6, <2>2, <3>1
  <2> QED BY <2>1, <2>2
<1>8. held(b, v, r) = held(b, w, r) \o s
  BY <1>4, <1>6, <1>7, SeqEqual
<1> QED BY <1>8 DEF v

\* A pointer stored behind k bytes that have been copied out drops them.
LEMMA StoreDrops ==
  ASSUME RingAssumption, NEW w \in Slots, NEW r \in Slots, NEW b \in [Slots -> Cells],
         NEW k \in 0..ahead(w, r)
  PROVE  held(b, w, mask(r + k)) = rest(held(b, w, r), k)
<1> DEFINE a == ahead(w, r)
           q == mask(r + k)
           h == held(b, w, r)
<1>1. a \in 0..Size - 1 /\ Size \in Nat /\ k \in 0..a
  BY HeldIs DEF RingAssumption
<1>2. q \in Slots /\ ahead(w, q) = a - k
  <2>1. k \in 0..Size
    BY <1>1
  <2> QED BY <2>1, MovedIs, Released
<1>3. \A i \in 1..a - k : slot(q, i) = slot(r, k + i)
  BY Released
<1>4. h \in Seq(Cells) /\ Len(h) = a /\ \A i \in 1..a : h[i] = b[slot(r, i)]
  BY HeldIs
<1> HIDE DEF a, q, h
<1>5. /\ held(b, w, q) \in Seq(Cells) /\ Len(held(b, w, q)) = a - k
      /\ \A i \in 1..a - k : held(b, w, q)[i] = b[slot(q, i)]
  <2>1. /\ held(b, w, q) \in Seq(Cells) /\ Len(held(b, w, q)) = ahead(w, q)
        /\ \A i \in 1..ahead(w, q) : held(b, w, q)[i] = b[slot(q, i)]
    BY <1>2, HeldIs
  <2> QED BY <1>2, <2>1
<1>6. /\ rest(h, k) \in Seq(Cells) /\ Len(rest(h, k)) = a - k
      /\ \A i \in 1..a - k : rest(h, k)[i] = h[k + i]
  <2>1. k \in 0..Len(h) /\ Len(h) - k = a - k
    BY <1>1, <1>4
  <2> QED BY <2>1, <1>4, RestIs
<1>7. ASSUME NEW i \in 1..a - k PROVE held(b, w, q)[i] = rest(h, k)[i]
  <2>1. k + i \in 1..a
    BY <1>1
  <2> QED BY <1>3, <1>4, <1>5, <1>6, <2>1
<1>8. held(b, w, q) = rest(h, k)
  BY <1>5, <1>6, <1>7, SeqEqual
<1> QED BY <1>8 DEF q, h

\* Copying into the free slots from w on changes nothing that is held.
LEMMA CopyKeeps ==
  ASSUME RingAssumption, NEW w \in Slots, NEW r \in Slots,
         NEW b \in [Slots -> Cells], NEW c \in [Slots -> Cells],
         NEW n \in Nat, ahead(w, r) + n < Size,
         \A s \in Slots : (\A j \in 1..n : s # slot(w, j)) => c[s] = b[s]
  PROVE  held(c, w, r) = held(b, w, r)
<1>1. ahead(w, r) \in 0..Size - 1 /\ Size \in Nat
  BY HeldIs DEF RingAssumption
<1>2. ASSUME NEW i \in 1..ahead(w, r) PROVE c[slot(r, i)] = b[slot(r, i)]
  <2>1. \A j \in 1..n : j \in 1..Size - ahead(w, r)
    BY <1>1
  <2>2. \A j \in 1..n : slot(r, i) # slot(w, j)
    BY <2>1, FreeSlots
  <2>3. slot(r, i) \in Slots
    <3>1. i \in 1..Size
      BY <1>1
    <3> QED BY <3>1, SlotIs
  <2> QED BY <2>2, <2>3
<1> QED BY <1>2 DEF held

-----------------------------------------------------------------------------
(* What memcpy does *)

\* b holds the bytes s from the slot of ptr on and elsewhere what buf holds.
filled(b, ptr, s) ==
  /\ b \in [Slots -> Cells]
  /\ \A j \in 1..Len(s) : b[slot(ptr, j)] = s[j]
  /\ \A x \in Slots : (\A j \in 1..Len(s) : x # slot(ptr, j)) => b[x] = buf[x]

\* Copying in up to the end of the buffer.
LEMMA CopiedIs ==
  ASSUME RingAssumption, buf \in [Slots -> Cells],
         NEW ptr \in Slots, NEW s \in Seq(Bytes), ptr + Len(s) <= Size
  PROVE  filled(copied(ptr, s), ptr, s)
<1>1. /\ Len(s) \in Nat /\ Size \in Nat \ {0, 1} /\ ptr \in 0..Size - 1
      /\ \A j \in 1..Len(s) : s[j] \in Bytes
  BY LenProperties, ElementOfSeq DEF RingAssumption, Slots
<1>2. ASSUME NEW j \in 1..Len(s) PROVE slot(ptr, j) = ptr + j - 1 /\ slot(ptr, j) \in Slots
  <2>1. j \in 1..Size /\ ptr + j - 1 < Size
    BY <1>1
  <2> QED BY <2>1, SlotIs
<1>3. ASSUME NEW x \in Slots
      PROVE  copied(ptr, s)[x] = IF x \in ptr..ptr + Len(s) - 1 THEN s[x - ptr + 1] ELSE buf[x]
  BY DEF copied
<1>4. ASSUME NEW x \in Slots, x \in ptr..ptr + Len(s) - 1
      PROVE  x - ptr + 1 \in 1..Len(s)
  BY <1>1, <1>4
<1>5. copied(ptr, s) \in [Slots -> Cells]
  <2>1. ASSUME NEW x \in Slots PROVE copied(ptr, s)[x] \in Cells
    BY <1>1, <1>3, <1>4 DEF Cells
  <2> QED BY <2>1 DEF copied
<1>6. ASSUME NEW j \in 1..Len(s) PROVE copied(ptr, s)[slot(ptr, j)] = s[j]
  <2>1. ptr + j - 1 \in ptr..ptr + Len(s) - 1 /\ (ptr + j - 1) - ptr + 1 = j
    BY <1>1
  <2>2. copied(ptr, s)[ptr + j - 1] = s[(ptr + j - 1) - ptr + 1]
    BY <1>2, <1>3, <2>1
  <2> QED BY <1>2, <2>1, <2>2
<1>7. ASSUME NEW x \in Slots, \A j \in 1..Len(s) : x # slot(ptr, j)
      PROVE  copied(ptr, s)[x] = buf[x]
  <2>1. ASSUME x \in ptr..ptr + Len(s) - 1 PROVE FALSE
    <3>1. x - ptr + 1 \in 1..Len(s) /\ x = ptr + (x - ptr + 1) - 1
      BY <1>1, <2>1
    <3> QED BY <1>2, <1>7, <3>1
  <2> QED BY <1>3, <2>1
<1> QED BY <1>5, <1>6, <1>7 DEF filled

\* Copying out up to the end of the buffer.
LEMMA CopiedOut ==
  ASSUME RingAssumption, TypeOK, NEW n \in 0..read_space, read_ptr + n <= Size
  PROVE  bytesAt(read_ptr, n) = first(content, n)
<1>1. /\ content = held(buf, write_ptr, read_ptr)
      /\ read_space = ahead(write_ptr, read_ptr)
      /\ buf \in [Slots -> Cells] /\ write_ptr \in Slots /\ read_ptr \in Slots
  BY DEF content, held, slot, ahead, read_space, TypeOK, Cells
<1>2. /\ content \in Seq(Cells) /\ Len(content) = read_space
      /\ \A i \in 1..read_space : content[i] = buf[slot(read_ptr, i)]
      /\ read_space \in 0..Size - 1 /\ Size \in Nat
  BY SMTT(30), <1>1, HeldIs DEF RingAssumption
<1>3. /\ first(content, n) \in Seq(Cells) /\ Len(first(content, n)) = n
      /\ \A i \in 1..n : first(content, n)[i] = content[i]
  BY <1>2, FirstIs
<1>4. first(content, n) = [i \in 1..n |-> first(content, n)[i]]
  BY <1>3, LenProperties
<1>5. ASSUME NEW i \in 1..n PROVE buf[read_ptr + i - 1] = first(content, n)[i]
  <2>1. i \in 1..Size /\ i \in 1..read_space /\ read_ptr + i - 1 < Size
    BY <1>1, <1>2 DEF Slots
  <2>2. slot(read_ptr, i) = read_ptr + i - 1
    BY <1>1, <2>1, SlotIs
  <2> QED BY <1>2, <1>3, <2>1, <2>2
<1> QED BY <1>4, <1>5 DEF bytesAt

\* Copying out the part from the start of the buffer behind it.
LEMMA CopiedOutWrapped ==
  ASSUME RingAssumption, TypeOK,
         NEW k \in Nat, NEW n \in Nat, k + n <= read_space, read_ptr + k = Size
  PROVE  first(content, k) \o bytesAt(0, n) = first(content, k + n)
<1>1. /\ content = held(buf, write_ptr, read_ptr)
      /\ read_space = ahead(write_ptr, read_ptr)
      /\ buf \in [Slots -> Cells] /\ write_ptr \in Slots /\ read_ptr \in Slots
  BY DEF content, held, slot, ahead, read_space, TypeOK, Cells
<1>2. /\ content \in Seq(Cells) /\ Len(content) = read_space
      /\ \A i \in 1..read_space : content[i] = buf[slot(read_ptr, i)]
      /\ read_space \in 0..Size - 1 /\ Size \in Nat
  BY SMTT(30), <1>1, HeldIs DEF RingAssumption
<1>3. /\ first(content, k) \in Seq(Cells) /\ Len(first(content, k)) = k
      /\ \A i \in 1..k : first(content, k)[i] = content[i]
      /\ first(content, k + n) \in Seq(Cells) /\ Len(first(content, k + n)) = k + n
      /\ \A i \in 1..k + n : first(content, k + n)[i] = content[i]
  <2>1. k \in 0..Len(content) /\ k + n \in 0..Len(content)
    BY <1>2
  <2> QED BY <1>2, <2>1, FirstIs
<1>4. ASSUME NEW i \in 1..n PROVE buf[0 + i - 1] = content[k + i]
  <2>1. k + i \in 1..Size /\ k + i \in 1..read_space
        /\ read_ptr + (k + i) - 1 - Size = 0 + i - 1 /\ ~(read_ptr + (k + i) - 1 < Size)
    BY <1>1, <1>2 DEF Slots
  <2>2. slot(read_ptr, k + i) = 0 + i - 1
    BY <1>1, <2>1, SlotIs
  <2> QED BY <1>2, <2>1, <2>2
<1>5. bytesAt(0, n) \in Seq(Cells) /\ Len(bytesAt(0, n)) = n
      /\ \A i \in 1..n : bytesAt(0, n)[i] = content[k + i]
  <2>1. \A i \in 1..n : bytesAt(0, n)[i] = content[k + i]
    BY <1>4 DEF bytesAt
  <2>2. \A i \in 1..n : content[k + i] \in Cells
    <3>1. \A i \in 1..n : k + i \in 1..Len(content)
      BY <1>2
    <3> QED BY <1>2, <3>1, ElementOfSeq
  <2>3. bytesAt(0, n) \in [1..n -> Cells]
    BY <2>1, <2>2 DEF bytesAt
  <2>4. bytesAt(0, n) \in Seq(Cells)
    BY <2>3, SeqDef
  <2> QED BY <2>1, <2>3, <2>4, LenProperties
<1>6. /\ first(content, k) \o bytesAt(0, n) \in Seq(Cells)
      /\ Len(first(content, k) \o bytesAt(0, n)) = k + n
      /\ \A i \in 1..k + n : (first(content, k) \o bytesAt(0, n))[i]
           = IF i <= k THEN first(content, k)[i] ELSE bytesAt(0, n)[i - k]
  <2> DEFINE s == first(content, k)
             t == bytesAt(0, n)
  <2>1. s \in Seq(Cells) /\ t \in Seq(Cells) /\ Len(s) = k /\ Len(t) = n
    BY <1>3, <1>5
  <2> HIDE DEF s, t
  <2>2. /\ s \o t \in Seq(Cells) /\ Len(s \o t) = Len(s) + Len(t)
        /\ \A i \in 1..Len(s) + Len(t) : (s \o t)[i] = IF i <= Len(s) THEN s[i] ELSE t[i - Len(s)]
    BY <2>1, ConcatProperties
  <2>3. /\ s \o t \in Seq(Cells) /\ Len(s \o t) = k + n
        /\ \A i \in 1..k + n : (s \o t)[i] = IF i <= k THEN s[i] ELSE t[i - k]
    BY <2>1, <2>2
  <2> QED BY <2>3 DEF s, t
<1>7. ASSUME NEW i \in 1..k + n
      PROVE  (first(content, k) \o bytesAt(0, n))[i] = first(content, k + n)[i]
  <2>1. CASE i <= k
    <3>1. i \in 1..k
      BY <2>1
    <3> QED BY <1>3, <1>6, <2>1, <3>1
  <2>2. CASE ~(i <= k)
    <3>1. i - k \in 1..n /\ k + (i - k) = i
      BY <2>2
    <3> QED BY <1>3, <1>5, <1>6, <2>2, <3>1
  <2> QED BY <2>1, <2>2
<1> QED BY <1>3, <1>6, <1>7, SeqEqual

\* The caller of the write vector fills the slots from the pointer on, across the
\* end of the buffer.
LEMMA VectorFilled ==
  ASSUME RingAssumption, TypeOK, NEW s \in Seq(Bytes), Len(s) < Size,
         NEW n, n = beforeEnd(write_ptr, Len(s)),
         NEW b, b = [x \in Slots |->
                       IF x >= write_ptr THEN copied(write_ptr, first(s, n))[x]
                                         ELSE copied(0, rest(s, n))[x]]
  PROVE  filled(b, write_ptr, s)
<1> DEFINE f == first(s, n)
           g == rest(s, n)
           w == write_ptr
<1>1. /\ Len(s) \in Nat /\ Size \in Nat \ {0, 1} /\ w \in 0..Size - 1
      /\ n = IF w + Len(s) > Size THEN Size - w ELSE Len(s)
  BY LenProperties DEF RingAssumption, TypeOK, Slots, beforeEnd
<1>2. n \in 0..Len(s) /\ w + n <= Size
  BY <1>1
<1>3. /\ f \in Seq(Bytes) /\ Len(f) = n /\ (\A j \in 1..n : f[j] = s[j])
      /\ g \in Seq(Bytes) /\ Len(g) = Len(s) - n
      /\ \A j \in 1..Len(s) - n : g[j] = s[n + j]
  <2>1. f \in Seq(Bytes) /\ Len(f) = n /\ \A j \in 1..n : f[j] = s[j]
    BY <1>2, FirstIs
  <2>2. /\ g \in Seq(Bytes) /\ Len(g) = Len(s) - n
        /\ \A j \in 1..Len(s) - n : g[j] = s[n + j]
    BY <1>2, RestIs
  <2> QED BY <2>1, <2>2
<1>4. buf \in [Slots -> Cells] /\ w \in Slots /\ 0 \in Slots
  BY <1>1 DEF TypeOK, Cells, Slots
<1> HIDE DEF f, g, w
<1>5. filled(copied(w, f), w, f) /\ filled(copied(0, g), 0, g)
  <2>1. w + Len(f) <= Size /\ 0 + Len(g) <= Size
    BY <1>1, <1>2, <1>3
  <2> QED BY <1>3, <1>4, <2>1, CopiedIs
<1>6. b = [x \in Slots |-> IF x >= w THEN copied(w, f)[x] ELSE copied(0, g)[x]]
  BY DEF f, g, w
<1>7. b \in [Slots -> Cells]
  BY <1>5, <1>6 DEF filled
<1>8. ASSUME NEW j \in 1..n
      PROVE  slot(w, j) \in Slots /\ slot(w, j) >= w
  <2>1. j \in 1..Size /\ w + j - 1 < Size
    BY <1>1, <1>2
  <2>2. slot(w, j) = w + j - 1 /\ slot(w, j) \in Slots
    BY <1>4, <2>1, SlotIs
  <2> QED BY <1>1, <2>2
<1>9. ASSUME NEW j \in 1..Len(s) - n
      PROVE  slot(w, n + j) = slot(0, j) /\ slot(0, j) \in Slots /\ slot(0, j) < w
  <2>1. /\ n = Size - w /\ j \in 1..Size /\ n + j \in 1..Size
        /\ ~(w + (n + j) - 1 < Size) /\ w + (n + j) - 1 - Size = j - 1
        /\ 0 + j - 1 < Size /\ 0 + j - 1 = j - 1 /\ j - 1 < w
    BY <1>1, <1>2
  <2>2. PICK k \in 1..Size : k = n + j
    BY <2>1
  <2>3. slot(w, k) = w + k - 1 - Size
    BY <1>4, <2>1, <2>2, SlotIs
  <2>4. slot(0, j) = 0 + j - 1 /\ slot(0, j) \in Slots
    BY <1>4, <2>1, SlotIs
  <2> QED BY <2>1, <2>2, <2>3, <2>4
<1>10. ASSUME NEW j \in 1..Len(s) PROVE b[slot(w, j)] = s[j]
  <2>1. CASE j <= n
    <3>1. j \in 1..n
      BY <1>1, <1>2, <2>1
    <3>2. b[slot(w, j)] = copied(w, f)[slot(w, j)]
      BY <1>6, <1>8, <3>1
    <3>3. copied(w, f)[slot(w, j)] = f[j]
      BY <1>3, <1>5, <3>1 DEF filled
    <3> QED BY <1>3, <3>1, <3>2, <3>3
  <2>2. CASE ~(j <= n)
    <3>1. PICK i \in 1..Len(s) - n : j = n + i
      <4>1. j - n \in 1..Len(s) - n /\ j = n + (j - n)
        BY <1>1, <1>2, <2>2
      <4> QED BY <4>1
    <3>2. slot(w, j) = slot(0, i) /\ slot(0, i) \in Slots /\ slot(0, i) < w
      BY <1>9, <3>1
    <3>3. b[slot(0, i)] = copied(0, g)[slot(0, i)]
      <4>1. ~(slot(0, i) >= w)
        BY <1>1, <3>2 DEF Slots
      <4> QED BY <1>6, <3>2, <4>1
    <3>4. copied(0, g)[slot(0, i)] = g[i]
      BY <1>3, <1>5, <3>1 DEF filled
    <3> QED BY <1>3, <3>1, <3>2, <3>3, <3>4
  <2> QED BY <2>1, <2>2
<1>11. ASSUME NEW x \in Slots, \A j \in 1..Len(s) : x # slot(w, j) PROVE b[x] = buf[x]
  <2>1. CASE x >= w
    <3>1. \A j \in 1..n : x # slot(w, j)
      BY <1>1, <1>2, <1>11
    <3> QED BY <1>3, <1>5, <1>6, <2>1, <3>1 DEF filled
  <2>2. CASE ~(x >= w)
    <3>1. \A j \in 1..Len(s) - n : n + j \in 1..Len(s)
      BY <1>1, <1>2
    <3>2. \A j \in 1..Len(s) - n : x # slot(0, j)
      BY <1>9, <1>11, <3>1
    <3> QED BY <1>3, <1>5, <1>6, <2>2, <3>2 DEF filled
  <2> QED BY <2>1, <2>2
<1>12. filled(b, w, s)
  BY <1>7, <1>10, <1>11 DEF filled
<1> QED BY <1>12 DEF w

-----------------------------------------------------------------------------
(* The invariant *)

\* What the writing thread is about: the bytes still to be published fit, and
\* those already copied are in their slots.  A write that wraps around stores the
\* end of the buffer first, and its pointer is then back at the start.
WriterInv ==
  /\ writer = "idle" => src = <<>>
  /\ writer \in {"copy1", "store1"} =>
       /\ w1 \in 1..Len(src)
       /\ write_ptr + w1 <= Size
       /\ w1 < Len(src) => write_ptr + w1 = Size
       /\ Len(content) + Len(src) < Size
  /\ writer = "store1" => \A j \in 1..w1 : buf[slot(write_ptr, j)] = src[j]
  /\ writer \in {"copy2", "store2"} =>
       /\ w1 \in 1..Len(src) - 1
       /\ write_ptr = 0
       /\ Len(content) + (Len(src) - w1) < Size
  /\ writer = "store2" =>
       \A j \in 1..Len(src) - w1 : buf[slot(write_ptr, j)] = src[w1 + j]
  /\ writer = "vector" => src = <<>> /\ Len(content) + w1 < Size
  /\ writer = "advance" =>
       /\ Len(content) + Len(src) < Size
       /\ \A j \in 1..Len(src) : buf[slot(write_ptr, j)] = src[j]

\* What the reading thread is about: the bytes it will release are there, and
\* those it has copied are the oldest in the ring.
ReaderInv ==
  /\ reader \in {"copy1", "store1", "peek1"} =>
       /\ r1 > 0
       /\ read_ptr + r1 <= Size
       /\ r2 > 0 => read_ptr + r1 = Size
       /\ r1 + r2 <= Len(content)
  /\ reader \in {"copy1", "peek1", "vector"} => dest = <<>>
  /\ reader = "store1" => dest = first(content, r1)
  /\ reader \in {"copy2", "store2"} =>
       /\ r2 > 0
       /\ read_ptr = 0
       /\ r2 <= Len(content)
  /\ reader = "copy2" => Len(dest) = r1
  /\ reader = "store2" => dest = first(dest, r1) \o first(content, r2)
  /\ reader = "peek2" =>
       /\ r1 > 0 /\ r2 > 0
       /\ read_ptr + r1 = Size
       /\ r1 + r2 <= Len(content)
       /\ dest = first(content, r1)
  /\ reader = "vector" =>
       /\ read_ptr + r1 <= Size
       /\ r2 > 0 => read_ptr + r1 = Size
       /\ r1 + r2 <= Len(content)
  /\ reader = "advance" =>
       /\ Len(dest) <= Len(content)
       /\ dest = first(content, Len(dest))

RingInv ==
  /\ TypeOK
  /\ content \in Seq(Bytes)
  /\ WriterInv
  /\ ReaderInv

\* The contents, by the pointers.
LEMMA ContentIs ==
  ASSUME RingAssumption, TypeOK
  PROVE  /\ content = held(buf, write_ptr, read_ptr)
         /\ read_space = ahead(write_ptr, read_ptr)
         /\ Len(content) = read_space
         /\ content \in Seq(Cells)
         /\ read_space \in 0..Size - 1
         /\ buf \in [Slots -> Cells] /\ write_ptr \in Slots /\ read_ptr \in Slots
         /\ Size \in Nat \ {0, 1}
<1>1. /\ content = held(buf, write_ptr, read_ptr)
      /\ read_space = ahead(write_ptr, read_ptr)
      /\ buf \in [Slots -> Cells] /\ write_ptr \in Slots /\ read_ptr \in Slots
  BY DEF content, held, slot, ahead, read_space, TypeOK, Cells
<1>2. Size \in Nat \ {0, 1}
  BY DEF RingAssumption
<1> QED BY <1>1, <1>2, HeldIs

LEMMA ContentIsNext ==
  content' = held(buf', write_ptr', read_ptr') /\ read_space' = ahead(write_ptr', read_ptr')
BY DEF content, held, slot, ahead, read_space, mask

\* A sequence of bytes is one of cells.
LEMMA BytesAreCells == ASSUME NEW s \in Seq(Bytes) PROVE s \in Seq(Cells)
<1>1. Bytes \subseteq Cells
  BY DEF Cells
<1> QED BY <1>1, SeqMonotonic

\* A step of the reading thread can only make room.
LEMMA WriterUndisturbed ==
  ASSUME RingAssumption, RingInv, UNCHANGED <<buf, write_ptr>>, UNCHANGED writerVars,
         Len(content') \in Nat, Len(content') <= Len(content)
  PROVE  WriterInv' /\ unpublished' = unpublished /\ published' = published
<1>1. /\ Len(src) \in Nat /\ Len(content) \in Nat /\ w1 \in Nat /\ write_ptr \in Nat
      /\ Size \in Nat
  BY ContentIs, LenProperties DEF RingInv, TypeOK, Slots
<1>2. /\ UNCHANGED <<writer, src, w1, wrote>>
      /\ UNCHANGED <<buf, write_ptr>>
  BY DEF writerVars
<1>3. WriterInv'
  BY <1>1, <1>2 DEF RingInv, WriterInv, slot, mask
<1>4. unpublished' = unpublished /\ published' = published
  BY <1>2 DEF unpublished, published, rest
<1> QED BY <1>3, <1>4

\* A step of the writing thread can only append.
LEMMA ReaderUndisturbed ==
  ASSUME RingAssumption, RingInv, UNCHANGED read_ptr, UNCHANGED readerVars,
         NEW t \in Seq(Bytes), content' = content \o t
  PROVE  ReaderInv' /\ unreleased' = unreleased /\ released' = released
<1>1. /\ Len(content') \in Nat /\ Len(content) <= Len(content')
      /\ Len(content) \in Nat /\ content \in Seq(Bytes)
      /\ r1 \in Nat /\ r2 \in Nat /\ dest \in Seq(Bytes) /\ Len(dest) \in Nat
  BY ConcatProperties, LenProperties DEF RingInv, TypeOK
<1>2. UNCHANGED <<reader, r1, r2, dest, read_ptr>>
  BY DEF readerVars
<1>3. \A k \in 0..Len(content) : first(content', k) = first(content, k)
  BY <1>1, FirstOfLonger
<1>4. first(dest', r1') = first(dest, r1)
  BY <1>2
<1>5. ReaderInv'
  <2>1. reader = "store1" => first(content', r1) = first(content, r1)
    BY <1>1, <1>3 DEF RingInv, ReaderInv
  <2>2. reader = "store2" => first(content', r2) = first(content, r2)
    BY <1>1, <1>3 DEF RingInv, ReaderInv
  <2>3. reader = "peek2" => first(content', r1) = first(content, r1)
    BY <1>1, <1>3 DEF RingInv, ReaderInv
  <2>4. reader = "advance" => first(content', Len(dest)) = first(content, Len(dest))
    BY <1>1, <1>3 DEF RingInv, ReaderInv
  <2>5. read_ptr \in Nat /\ Size \in Nat
    BY ContentIs DEF RingInv, Slots
  <2>6. /\ reader' = reader /\ r1' = r1 /\ r2' = r2 /\ dest' = dest /\ read_ptr' = read_ptr
        /\ ReaderInv
    BY <1>2 DEF RingInv
  <2>7. reader \in {"copy1", "store1", "peek1", "vector", "peek2"} => r1 + r2 <= Len(content')
    BY <1>1, <2>6 DEF ReaderInv
  <2>8. /\ reader \in {"copy2", "store2"} => r2 <= Len(content')
        /\ reader = "advance" => Len(dest) <= Len(content')
    BY <1>1, <2>6 DEF ReaderInv
  <2> QED BY <1>4, <2>1, <2>2, <2>3, <2>4, <2>6, <2>7, <2>8, Zenon DEF ReaderInv
<1>6. unreleased' = unreleased /\ released' = released
  BY <1>2 DEF unreleased, released, first
<1> QED BY <1>5, <1>6

-----------------------------------------------------------------------------
(* The steps of the writing thread *)

\* The types and ranges that the steps use.
LEMMA Facts ==
  ASSUME RingAssumption, RingInv
  PROVE  /\ content = held(buf, write_ptr, read_ptr)
         /\ read_space = ahead(write_ptr, read_ptr)
         /\ Len(content) = read_space
         /\ content \in Seq(Bytes) /\ content \in Seq(Cells)
         /\ read_space \in 0..Size - 1
         /\ buf \in [Slots -> Cells]
         /\ write_ptr \in Slots /\ write_ptr \in 0..Size - 1
         /\ read_ptr \in Slots /\ read_ptr \in 0..Size - 1
         /\ Size \in Nat \ {0, 1}
         /\ src \in Seq(Bytes) /\ Len(src) \in Nat
         /\ dest \in Seq(Bytes) /\ Len(dest) \in Nat
         /\ w1 \in 0..Size /\ r1 \in 0..Size /\ r2 \in 0..Size /\ wrote \in Nat
<1>1. TypeOK /\ content \in Seq(Bytes)
  BY DEF RingInv
<1>2. Len(src) \in Nat /\ Len(dest) \in Nat
  BY <1>1, LenProperties DEF TypeOK
<1>3. write_ptr \in 0..Size - 1 /\ read_ptr \in 0..Size - 1
  BY <1>1 DEF TypeOK, Slots
<1> QED BY <1>1, <1>2, <1>3, ContentIs DEF TypeOK

\* A step that leaves the ring alone leaves the contents alone.
LEMMA ContentKept ==
  ASSUME UNCHANGED ringVars
  PROVE  content' = content /\ read_space' = read_space
BY DEF ringVars, content, read_space, mask

\* What a step of the writing thread leaves to be shown.
LEMMA WriterStep ==
  ASSUME RingAssumption, RingInv, TypeOK', WriterInv',
         UNCHANGED read_ptr, UNCHANGED readerVars,
         NEW t \in Seq(Bytes), content' = content \o t
  PROVE  RingInv' /\ unreleased' = unreleased /\ released' = released
<1>1. content' \in Seq(Bytes)
  BY ConcatProperties DEF RingInv
<1>2. ReaderInv' /\ unreleased' = unreleased /\ released' = released
  BY ReaderUndisturbed
<1> QED BY <1>1, <1>2 DEF RingInv

LEMMA WriterStepKeeps ==
  ASSUME RingAssumption, RingInv, TypeOK', WriterInv',
         UNCHANGED read_ptr, UNCHANGED readerVars, content' = content
  PROVE  RingInv' /\ unreleased' = unreleased /\ released' = released
<1>1. <<>> \in Seq(Bytes) /\ content' = content \o <<>>
  BY EmptySeq, ConcatEmptySeq DEF RingInv
<1> QED BY <1>1, WriterStep

LEMMA WriteFullStep ==
  ASSUME RingAssumption, RingInv, WriteFull
  PROVE  RingInv' /\ Stream!Next
<1>1. content' = content /\ UNCHANGED read_ptr /\ UNCHANGED readerVars
  BY ContentKept DEF WriteFull, ringVars
<1>2. TypeOK'
  BY DEF WriteFull, RingInv, TypeOK, ringVars, readerVars, Slots
<1>3. WriterInv'
  BY <1>1 DEF WriteFull, RingInv, WriterInv, ringVars
<1>4. RingInv' /\ unreleased' = unreleased /\ released' = released
  BY <1>1, <1>2, <1>3, WriterStepKeeps
<1>5. Stream!BeginWrite(<<>>)
  <2>1. unpublished = <<>> /\ unpublished' = <<>> /\ published' = 0
    BY DEF WriteFull, unpublished, published
  <2>2. Len(<<>>) = 0
    BY EmptySeq
  <2>3. PICK n \in Int : n = Stream!AtMost(0, Size - 1 - Len(content)) /\ n <= 0
    BY Facts DEF Stream!AtMost
  <2>4. SubSeq(<<>>, 1, n) = <<>>
    BY <2>3, SubSeqEmpty
  <2>5. unpublished' = SubSeq(<<>>, 1, Stream!AtMost(Len(<<>>), Size - 1 - Len(content)))
    BY <2>1, <2>2, <2>3, <2>4
  <2> QED BY <1>1, <1>4, <2>1, <2>5 DEF Stream!BeginWrite, Stream!First
<1>6. <<>> \in [1..0 -> Bytes] /\ 0 \in 0..MaxCount
  BY DEF RingAssumption
<1> QED BY <1>4, <1>5, <1>6 DEF Stream!Next

\* The bytes of a call are a sequence.
LEMMA StringIs ==
  ASSUME RingAssumption, NEW bytes \in Strings
  PROVE  /\ bytes \in Seq(Bytes)
         /\ Len(bytes) \in 1..MaxCount
         /\ bytes \in [1..Len(bytes) -> Bytes]
<1>1. PICK cnt \in 1..MaxCount : bytes \in [1..cnt -> Bytes]
  BY DEF Strings
<1>2. bytes \in Seq(Bytes)
  <2>1. cnt \in Nat
    BY <1>1
  <2> QED BY <1>1, <2>1, SeqDef
<1>3. Len(bytes) = cnt
  BY <1>1, <1>2, LenProperties
<1> QED BY <1>1, <1>2, <1>3

LEMMA WriteBeginStep ==
  ASSUME RingAssumption, RingInv, NEW bytes \in Strings, WriteBegin(bytes)
  PROVE  RingInv' /\ Stream!Next
<1> DEFINE n == atMost(Len(bytes), write_space)
<1>1. content' = content /\ UNCHANGED read_ptr /\ UNCHANGED readerVars
  BY ContentKept DEF WriteBegin, ringVars
<1>2. /\ n \in 1..Len(bytes) /\ n <= Size - 1 - Len(content)
      /\ n = IF Len(bytes) > Size - 1 - Len(content) THEN Size - 1 - Len(content) ELSE Len(bytes)
  BY Facts, StringIs DEF WriteBegin, atMost, write_space
<1>3. /\ writer = "idle" /\ writer' = "copy1" /\ src' = first(bytes, n)
      /\ w1' = beforeEnd(write_ptr, n)
      /\ UNCHANGED <<buf, write_ptr, read_ptr, wrote>>
      /\ UNCHANGED <<reader, r1, r2, dest>>
  BY DEF WriteBegin, ringVars, readerVars
<1> HIDE DEF n
<1>4. src' \in Seq(Bytes) /\ Len(src') = n
  <2>1. n \in 0..Len(bytes)
    BY <1>2
  <2> QED BY <1>3, <2>1, StringIs, FirstIs
<1>5. w1' \in 1..n /\ write_ptr + w1' <= Size /\ (w1' < n => write_ptr + w1' = Size)
  <2>1. n \in Nat /\ n >= 1 /\ write_ptr \in 0..Size - 1 /\ Size \in Nat /\ n < Size
    BY SMTT(30), <1>2, Facts, StringIs
  <2>2. w1' = IF write_ptr + n > Size THEN Size - write_ptr ELSE n
    BY <1>3 DEF beforeEnd
  <2> QED BY <2>1, <2>2
<1>6. TypeOK'
  <2>1. w1' \in 0..Size
    BY <1>5, Facts
  <2> QED BY <1>3, <1>4, <2>1 DEF RingInv, TypeOK, Slots
<1>7. WriterInv'
  <2>1. Len(content') + Len(src') < Size
    BY SMTT(30), <1>1, <1>2, <1>4, Facts
  <2> QED BY <1>3, <1>4, <1>5, <2>1 DEF WriterInv
<1>8. RingInv' /\ unreleased' = unreleased /\ released' = released
  BY <1>1, <1>6, <1>7, WriterStepKeeps
<1>9. Stream!BeginWrite(bytes)
  <2>1. unpublished = <<>> /\ unpublished' = src' /\ published' = 0
    BY <1>3 DEF unpublished, published
  <2>2. n = Stream!AtMost(Len(bytes), Size - 1 - Len(content))
    BY <1>2 DEF Stream!AtMost
  <2> QED BY <1>1, <1>3, <1>8, <2>1, <2>2 DEF Stream!BeginWrite, Stream!First, first
<1>10. Len(bytes) \in 0..MaxCount /\ bytes \in [1..Len(bytes) -> Bytes]
  BY StringIs
<1> QED BY <1>8, <1>9, <1>10 DEF Stream!Next

\* Copying n bytes from the pointer on keeps the contents, and TypeOK of buf.
LEMMA CopyStep ==
  ASSUME RingAssumption, RingInv, UNCHANGED <<write_ptr, read_ptr>>,
         NEW s \in Seq(Bytes), Len(content) + Len(s) < Size,
         filled(buf', write_ptr, s)
  PROVE  content' = content
<1>1. buf' \in [Slots -> Cells] /\ Len(s) \in Nat
  BY LenProperties DEF filled
<1>2. \A x \in Slots : (\A j \in 1..Len(s) : x # slot(write_ptr, j)) => buf'[x] = buf[x]
  BY DEF filled
<1>3. ahead(write_ptr, read_ptr) + Len(s) < Size
  BY Facts
<1>4. held(buf', write_ptr, read_ptr) = held(buf, write_ptr, read_ptr)
  <2>1. write_ptr \in Slots /\ read_ptr \in Slots /\ buf \in [Slots -> Cells]
    BY Facts
  <2> QED BY <2>1, <1>1, <1>2, <1>3, CopyKeeps
<1>5. content' = held(buf', write_ptr', read_ptr')
  BY ContentIsNext
<1> QED BY <1>4, <1>5, Facts

LEMMA WriteCopy1Step ==
  ASSUME RingAssumption, RingInv, WriteCopy1
  PROVE  RingInv' /\ UNCHANGED Stream!vars
<1> DEFINE s == first(src, w1)
<1>1. /\ writer = "copy1" /\ writer' = "store1" /\ buf' = copied(write_ptr, s)
      /\ UNCHANGED <<write_ptr, read_ptr, src, w1, wrote>>
      /\ UNCHANGED <<reader, r1, r2, dest>> /\ UNCHANGED readerVars
  BY DEF WriteCopy1, readerVars
<1>2. /\ w1 \in 1..Len(src) /\ write_ptr + w1 <= Size
      /\ (w1 < Len(src) => write_ptr + w1 = Size)
      /\ Len(content) + Len(src) < Size
  BY <1>1 DEF RingInv, WriterInv
<1>3. s \in Seq(Bytes) /\ Len(s) = w1 /\ \A j \in 1..w1 : s[j] = src[j]
  <2>1. w1 \in 0..Len(src)
    BY <1>2, Facts
  <2> QED BY <2>1, Facts, FirstIs
<1> HIDE DEF s
<1>4. filled(buf', write_ptr, s)
  <2>1. write_ptr + Len(s) <= Size
    BY <1>2, <1>3
  <2> QED BY <1>1, <1>3, <2>1, Facts, CopiedIs
<1>5. content' = content
  <2>1. Len(content) + Len(s) < Size
    BY <1>2, <1>3, Facts
  <2> QED BY <1>1, <1>3, <1>4, <2>1, CopyStep
<1>6. TypeOK'
  <2>1. buf' \in [Slots -> Bytes \cup {NoByte}]
    BY <1>4 DEF filled, Cells
  <2> QED BY <1>1, <2>1 DEF RingInv, TypeOK, Slots
<1>7. WriterInv'
  <2>1. \A j \in 1..w1 : buf'[slot(write_ptr, j)] = src[j]
    BY <1>3, <1>4 DEF filled
  <2>2. \A j \in 1..w1' : buf'[slot(write_ptr, j)'] = src'[j]
    BY <1>1, <2>1 DEF slot, mask
  <2> QED BY <1>1, <1>2, <1>5, <2>2 DEF WriterInv
<1>8. RingInv' /\ unreleased' = unreleased /\ released' = released
  BY <1>1, <1>5, <1>6, <1>7, WriterStepKeeps
<1>9. unpublished' = unpublished /\ published' = published
  BY <1>1 DEF unpublished, published
<1> QED BY <1>5, <1>8, <1>9 DEF Stream!vars

LEMMA WriteCopy2Step ==
  ASSUME RingAssumption, RingInv, WriteCopy2
  PROVE  RingInv' /\ UNCHANGED Stream!vars
<1> DEFINE s == rest(src, w1)
<1>1. /\ writer = "copy2" /\ writer' = "store2" /\ buf' = copied(write_ptr, s)
      /\ UNCHANGED <<write_ptr, read_ptr, src, w1, wrote>>
      /\ UNCHANGED <<reader, r1, r2, dest>> /\ UNCHANGED readerVars
  BY DEF WriteCopy2, readerVars
<1>2. /\ w1 \in 1..Len(src) - 1 /\ write_ptr = 0
      /\ Len(content) + (Len(src) - w1) < Size
  BY <1>1 DEF RingInv, WriterInv
<1>3. /\ s \in Seq(Bytes) /\ Len(s) = Len(src) - w1
      /\ \A j \in 1..Len(src) - w1 : s[j] = src[w1 + j]
  <2>1. w1 \in 0..Len(src)
    BY <1>2, Facts
  <2> QED BY <2>1, Facts, RestIs
<1> HIDE DEF s
<1>4. filled(buf', write_ptr, s)
  <2>1. write_ptr + Len(s) <= Size
    <3>1. /\ Len(content) \in Nat /\ Len(content) + (Len(src) - w1) < Size
          /\ Len(s) = Len(src) - w1 /\ write_ptr = 0 /\ Size \in Nat
          /\ w1 \in Int /\ Len(src) \in Int
      BY <1>2, <1>3, Facts
    <3> QED BY ONLY <3>1
  <2> QED BY <1>1, <1>3, <2>1, Facts, CopiedIs
<1>5. content' = content
  <2>1. Len(content) + Len(s) < Size
    BY <1>2, <1>3, Facts
  <2> QED BY <1>1, <1>3, <1>4, <2>1, CopyStep
<1>6. TypeOK'
  <2>1. buf' \in [Slots -> Bytes \cup {NoByte}]
    BY <1>4 DEF filled, Cells
  <2> QED BY <1>1, <2>1 DEF RingInv, TypeOK, Slots
<1>7. WriterInv'
  <2>1. \A j \in 1..Len(src) - w1 : buf'[slot(write_ptr, j)] = src[w1 + j]
    BY <1>3, <1>4 DEF filled
  <2>2. \A j \in 1..Len(src') - w1' : buf'[slot(write_ptr, j)'] = src'[w1' + j]
    BY <1>1, <2>1 DEF slot, mask
  <2> QED BY <1>1, <1>2, <1>5, <2>2 DEF WriterInv
<1>8. RingInv' /\ unreleased' = unreleased /\ released' = released
  BY <1>1, <1>5, <1>6, <1>7, WriterStepKeeps
<1>9. unpublished' = unpublished /\ published' = published
  BY <1>1 DEF unpublished, published, rest
<1> QED BY <1>5, <1>8, <1>9 DEF Stream!vars

\* Storing the pointer appends the bytes that are in their slots.
LEMMA StoreStep ==
  ASSUME RingAssumption, RingInv, UNCHANGED <<buf, read_ptr>>,
         NEW s \in Seq(Bytes), Len(content) + Len(s) < Size,
         write_ptr' = mask(write_ptr + Len(s)),
         \A j \in 1..Len(s) : buf[slot(write_ptr, j)] = s[j]
  PROVE  /\ content' = content \o s
         /\ write_ptr' \in Slots
         /\ Len(content') = Len(content) + Len(s)
<1>1. Len(s) \in 0..Size /\ s \in Seq(Cells) /\ ahead(write_ptr, read_ptr) + Len(s) < Size
  BY SMTT(30), Facts, BytesAreCells, LenProperties
<1>2. held(buf, mask(write_ptr + Len(s)), read_ptr) = held(buf, write_ptr, read_ptr) \o s
  BY <1>1, Facts, StoreAppends
<1>3. content' = content \o s
  BY <1>2, ContentIsNext, Facts
<1>4. write_ptr' \in Slots
  BY <1>1, Facts, MovedIs
<1> QED BY <1>3, <1>4, Facts, ConcatProperties

LEMMA WriteStore1Step ==
  ASSUME RingAssumption, RingInv, WriteStore1
  PROVE  RingInv' /\ Stream!Next
<1> DEFINE s == first(src, w1)
<1>1. /\ writer = "store1" /\ write_ptr' = mask(write_ptr + w1)
      /\ UNCHANGED <<buf, read_ptr>>
      /\ UNCHANGED <<reader, r1, r2, dest>> /\ UNCHANGED readerVars
  BY DEF WriteStore1, readerVars
<1>2. /\ w1 \in 1..Len(src) /\ write_ptr + w1 <= Size
      /\ (w1 < Len(src) => write_ptr + w1 = Size)
      /\ Len(content) + Len(src) < Size
      /\ \A j \in 1..w1 : buf[slot(write_ptr, j)] = src[j]
  BY <1>1 DEF RingInv, WriterInv
<1>3. w1 \in 0..Len(src) /\ w1 \in Nat
  BY <1>2, Facts
<1>4. s \in Seq(Bytes) /\ Len(s) = w1 /\ \A j \in 1..w1 : s[j] = src[j]
  BY <1>3, Facts, FirstIs
<1> HIDE DEF s
<1>5. content' = content \o s /\ write_ptr' \in Slots /\ Len(content') = Len(content) + w1
  <2>1. Len(content) + Len(s) < Size
    BY <1>2, <1>4, Facts
  <2>2. write_ptr' = mask(write_ptr + Len(s)) /\ \A j \in 1..Len(s) : buf[slot(write_ptr, j)] = s[j]
    BY <1>1, <1>2, <1>4
  <2>3. /\ content' = content \o s /\ write_ptr' \in Slots
        /\ Len(content') = Len(content) + Len(s)
    BY <1>1, <1>4, <2>1, <2>2, StoreStep
  <2> QED BY <1>4, <2>3
<1>6. CASE w1 < Len(src)
  <2>1. writer' = "copy2" /\ UNCHANGED <<src, w1, wrote>>
    BY <1>2, <1>6, Facts DEF WriteStore1
  <2>2. write_ptr' = 0
    <3>1. write_ptr + w1 = Size /\ w1 \in 0..Size
      BY <1>2, <1>6, Facts
    <3>2. mask(write_ptr + w1) = IF write_ptr + w1 < Size THEN write_ptr + w1 ELSE write_ptr + w1 - Size
      BY <3>1, Facts, MovedIs
    <3> QED BY <1>1, <3>1, <3>2, Facts
  <2>3. TypeOK'
    BY <1>1, <1>5, <2>1 DEF RingInv, TypeOK, Slots
  <2>4. WriterInv'
    <3>1. w1 \in 1..Len(src) - 1 /\ Len(content') + (Len(src) - w1) < Size
      BY <1>2, <1>5, <1>6, Facts
    <3> QED BY <2>1, <2>2, <3>1 DEF WriterInv
  <2>5. RingInv' /\ unreleased' = unreleased /\ released' = released
    BY <1>1, <1>4, <1>5, <2>3, <2>4, WriterStep
  <2>6. unpublished = src /\ unpublished' = rest(src, w1) /\ published = 0 /\ published' = w1
    BY <1>1, <2>1 DEF unpublished, published, rest
  <2>7. Stream!Append1(w1)
    BY <1>3, <1>5, <2>5, <2>6 DEF Stream!Append1, Stream!First, Stream!Rest, s, first, rest
  <2>8. w1 \in 1..Len(unpublished)
    BY <1>2, <2>6
  <2> QED BY <2>5, <2>7, <2>8 DEF Stream!Next
<1>7. CASE w1 = Len(src)
  <2>1. writer' = "idle" /\ wrote' = Len(src) /\ src' = <<>> /\ w1' = 0
    BY <1>3, <1>7 DEF WriteStore1, writeReturns
  <2>2. TypeOK'
    <3>1. <<>> \in Seq(Bytes) /\ 0 \in 0..Size /\ Len(src) \in Nat
      BY EmptySeq, Facts
    <3> QED BY <1>1, <1>5, <2>1, <3>1 DEF RingInv, TypeOK, Slots
  <2>3. WriterInv'
    BY <2>1 DEF WriterInv
  <2>4. RingInv' /\ unreleased' = unreleased /\ released' = released
    BY <1>1, <1>4, <1>5, <2>2, <2>3, WriterStep
  <2>5. /\ unpublished = src /\ unpublished' = <<>>
        /\ published = 0 /\ published' = w1
    BY <1>1, <1>7, <2>1 DEF unpublished, published
  <2>6. rest(src, w1) = <<>>
    BY <1>7, Facts, FirstAll
  <2>7. Stream!Append1(w1)
    <3>1. content' = content \o SubSeq(unpublished, 1, w1)
      BY <1>5, <2>5, Zenon DEF s, first
    <3>2. unpublished' = SubSeq(unpublished, w1 + 1, Len(unpublished))
      BY <2>5, <2>6, Zenon DEF rest
    <3>3. published' = published + w1
      BY <1>3, <2>5
    <3> QED BY <2>4, <3>1, <3>2, <3>3, Zenon DEF Stream!Append1, Stream!First, Stream!Rest
  <2>8. w1 \in 1..Len(unpublished)
    BY <1>2, <2>5
  <2> QED BY <2>4, <2>7, <2>8 DEF Stream!Next
<1> QED BY <1>2, <1>6, <1>7, Facts

LEMMA WriteStore2Step ==
  ASSUME RingAssumption, RingInv, WriteStore2
  PROVE  RingInv' /\ Stream!Next
<1> DEFINE s == rest(src, w1)
           k == Len(src) - w1
<1>1. /\ writer = "store2" /\ write_ptr' = mask(write_ptr + k)
      /\ UNCHANGED <<buf, read_ptr>>
      /\ UNCHANGED <<reader, r1, r2, dest>> /\ UNCHANGED readerVars
      /\ writer' = "idle" /\ wrote' = Len(src) /\ src' = <<>> /\ w1' = 0
  BY DEF WriteStore2, writeReturns, readerVars
<1>2. /\ w1 \in 1..Len(src) - 1
      /\ Len(content) + k < Size
      /\ \A j \in 1..k : buf[slot(write_ptr, j)] = src[w1 + j]
  BY <1>1 DEF RingInv, WriterInv
<1>3. w1 \in 0..Len(src) /\ w1 \in Nat /\ k \in 1..Len(src) /\ w1 + k = Len(src)
  BY <1>2, Facts
<1>4. s \in Seq(Bytes) /\ Len(s) = k /\ \A j \in 1..k : s[j] = src[w1 + j]
  BY <1>3, Facts, RestIs
<1> HIDE DEF s, k
<1>5. content' = content \o s /\ write_ptr' \in Slots
  <2>1. Len(content) + Len(s) < Size
    BY <1>2, <1>4
  <2>2. write_ptr' = mask(write_ptr + Len(s)) /\ \A j \in 1..Len(s) : buf[slot(write_ptr, j)] = s[j]
    BY <1>1, <1>2, <1>4
  <2> QED BY <1>1, <1>4, <2>1, <2>2, StoreStep
<1>6. TypeOK'
  <2>1. <<>> \in Seq(Bytes) /\ 0 \in 0..Size /\ Len(src) \in Nat
    BY EmptySeq, Facts
  <2> QED BY <1>1, <1>5, <2>1 DEF RingInv, TypeOK, Slots
<1>7. WriterInv'
  BY <1>1 DEF WriterInv
<1>8. RingInv' /\ unreleased' = unreleased /\ released' = released
  BY <1>1, <1>4, <1>5, <1>6, <1>7, WriterStep
<1>9. /\ unpublished = s /\ unpublished' = <<>>
      /\ published = w1 /\ published' = w1 + k
  BY <1>1, <1>3 DEF unpublished, published, s
<1>10. first(s, k) = s /\ rest(s, k) = <<>>
  BY <1>4, FirstAll
<1>11. Stream!Append1(k)
  BY <1>5, <1>8, <1>9, <1>10 DEF Stream!Append1, Stream!First, Stream!Rest, first, rest
<1>12. k \in 1..Len(unpublished)
  BY <1>3, <1>4, <1>9
<1> QED BY <1>8, <1>11, <1>12 DEF Stream!Next

LEMMA GetWriteVectorStep ==
  ASSUME RingAssumption, RingInv, GetWriteVector
  PROVE  RingInv' /\ UNCHANGED Stream!vars
<1>1. /\ writer = "idle" /\ writer' = "vector" /\ w1' = write_space /\ src = <<>>
      /\ UNCHANGED <<buf, write_ptr, read_ptr, src, wrote>>
      /\ UNCHANGED <<reader, r1, r2, dest>> /\ UNCHANGED readerVars /\ UNCHANGED ringVars
  BY DEF GetWriteVector, readerVars, ringVars, RingInv, WriterInv
<1>2. w1' = Size - 1 - Len(content) /\ w1' \in 0..Size /\ content' = content
  BY <1>1, Facts, ContentKept DEF write_space
<1>3. TypeOK'
  BY <1>1, <1>2 DEF RingInv, TypeOK, Slots
<1>4. WriterInv'
  <2>1. Len(content') + w1' < Size
    BY SMTT(30), <1>2, Facts
  <2> QED BY <1>1, <2>1 DEF WriterInv
<1>5. RingInv' /\ unreleased' = unreleased /\ released' = released
  BY <1>1, <1>2, <1>3, <1>4, WriterStepKeeps
<1>6. unpublished' = unpublished /\ published' = published
  BY <1>1 DEF unpublished, published
<1> QED BY <1>2, <1>5, <1>6 DEF Stream!vars

LEMMA FillWriteVectorStep ==
  ASSUME RingAssumption, RingInv, NEW bytes \in Strings \cup {<<>>}, FillWriteVector(bytes)
  PROVE  RingInv' /\ Stream!Next
<1> DEFINE n == beforeEnd(write_ptr, Len(bytes))
<1>1. /\ writer = "vector" /\ writer' = "advance" /\ Len(bytes) <= w1 /\ src' = bytes
      /\ buf' = [x \in Slots |->
                   IF x >= write_ptr THEN copied(write_ptr, first(bytes, n))[x]
                                     ELSE copied(0, rest(bytes, n))[x]]
      /\ UNCHANGED <<write_ptr, read_ptr, w1, wrote>>
      /\ UNCHANGED <<reader, r1, r2, dest>> /\ UNCHANGED readerVars
  BY DEF FillWriteVector, readerVars
<1>2. bytes \in Seq(Bytes) /\ Len(bytes) \in 0..MaxCount /\ bytes \in [1..Len(bytes) -> Bytes]
  <2>1. CASE bytes \in Strings
    BY <2>1, StringIs
  <2>2. CASE bytes = <<>>
    BY <2>2, EmptySeq DEF RingAssumption
  <2> QED BY <2>1, <2>2
<1>3. src = <<>> /\ Len(content) + w1 < Size
  BY <1>1 DEF RingInv, WriterInv
<1>4. Len(content) + Len(bytes) < Size /\ Len(bytes) < Size
  BY <1>1, <1>2, <1>3, Facts
<1>5. filled(buf', write_ptr, bytes)
  BY <1>1, <1>2, <1>4, VectorFilled DEF RingInv
<1> HIDE DEF n
<1>6. content' = content
  BY <1>1, <1>2, <1>4, <1>5, CopyStep
<1>7. TypeOK'
  <2>1. buf' \in [Slots -> Bytes \cup {NoByte}]
    BY <1>5 DEF filled, Cells
  <2> QED BY <1>1, <1>2, <2>1 DEF RingInv, TypeOK, Slots
<1>8. WriterInv'
  <2>1. \A j \in 1..Len(bytes) : buf'[slot(write_ptr, j)] = bytes[j]
    BY <1>5 DEF filled
  <2>2. \A j \in 1..Len(src') : buf'[slot(write_ptr, j)'] = src'[j]
    BY <1>1, <2>1 DEF slot, mask
  <2> QED BY <1>1, <1>4, <1>6, <2>2 DEF WriterInv
<1>9. RingInv' /\ unreleased' = unreleased /\ released' = released
  BY <1>1, <1>6, <1>7, <1>8, WriterStepKeeps
<1>10. Stream!BeginWrite(bytes)
  <2>1. unpublished = <<>> /\ unpublished' = bytes /\ published' = 0
    BY <1>1 DEF unpublished, published
  <2>2. Stream!AtMost(Len(bytes), Size - 1 - Len(content)) = Len(bytes)
    BY <1>2, <1>4, Facts DEF Stream!AtMost
  <2>3. SubSeq(bytes, 1, Len(bytes)) = bytes
    BY <1>2, SubSeqFull
  <2> QED BY <1>6, <1>9, <2>1, <2>2, <2>3 DEF Stream!BeginWrite, Stream!First
<1> QED BY <1>2, <1>9, <1>10 DEF Stream!Next

LEMMA WriteAdvanceStep ==
  ASSUME RingAssumption, RingInv, WriteAdvance
  PROVE  RingInv' /\ (Stream!Next \/ UNCHANGED Stream!vars)
<1>1. /\ writer = "advance" /\ write_ptr' = mask(write_ptr + Len(src))
      /\ UNCHANGED <<buf, read_ptr>>
      /\ UNCHANGED <<reader, r1, r2, dest>> /\ UNCHANGED readerVars
      /\ writer' = "idle" /\ wrote' = Len(src) /\ src' = <<>> /\ w1' = 0
  BY DEF WriteAdvance, writeReturns, readerVars
<1>2. /\ Len(content) + Len(src) < Size
      /\ \A j \in 1..Len(src) : buf[slot(write_ptr, j)] = src[j]
  BY <1>1 DEF RingInv, WriterInv
<1>3. content' = content \o src /\ write_ptr' \in Slots
  BY <1>1, <1>2, Facts, StoreStep
<1>4. TypeOK'
  <2>1. <<>> \in Seq(Bytes) /\ 0 \in 0..Size /\ Len(src) \in Nat
    BY EmptySeq, Facts
  <2> QED BY <1>1, <1>3, <2>1 DEF RingInv, TypeOK, Slots
<1>5. WriterInv'
  BY <1>1 DEF WriterInv
<1>6. RingInv' /\ unreleased' = unreleased /\ released' = released
  BY <1>1, <1>3, <1>4, <1>5, Facts, WriterStep
<1>7. /\ unpublished = src /\ unpublished' = <<>>
      /\ published = 0 /\ published' = Len(src)
  BY <1>1 DEF unpublished, published
<1>8. CASE Len(src) = 0
  <2>1. src = <<>>
    BY <1>8, Facts, EmptySeq
  <2>2. content' = content
    BY <1>3, <2>1, Facts, ConcatEmptySeq
  <2> QED BY <1>6, <1>7, <1>8, <2>1, <2>2 DEF Stream!vars
<1>9. CASE Len(src) # 0
  <2>1. first(src, Len(src)) = src /\ rest(src, Len(src)) = <<>>
    BY Facts, FirstAll
  <2>2. 0 + Len(src) = Len(src) /\ Len(src) \in 1..Len(src)
    BY <1>9, Facts
  <2>3. Stream!Append1(Len(src))
    BY <1>3, <1>6, <1>7, <2>1, <2>2 DEF Stream!Append1, Stream!First, Stream!Rest, first, rest
  <2> QED BY <1>6, <1>7, <2>2, <2>3 DEF Stream!Next
<1> QED BY <1>8, <1>9

-----------------------------------------------------------------------------
(* The steps of the reading thread *)

\* What a step of the reading thread leaves to be shown.
LEMMA ReaderStep ==
  ASSUME RingAssumption, RingInv, TypeOK', ReaderInv',
         UNCHANGED <<buf, write_ptr>>, UNCHANGED writerVars,
         NEW k \in 0..Len(content), content' = rest(content, k)
  PROVE  RingInv' /\ unpublished' = unpublished /\ published' = published
<1>1. content' \in Seq(Bytes) /\ Len(content') = Len(content) - k
  BY Facts, RestIs
<1>2. Len(content') \in Nat /\ Len(content') <= Len(content)
  BY <1>1, Facts
<1>3. WriterInv' /\ unpublished' = unpublished /\ published' = published
  BY <1>2, WriterUndisturbed
<1> QED BY <1>1, <1>3 DEF RingInv

LEMMA ReaderStepKeeps ==
  ASSUME RingAssumption, RingInv, TypeOK', ReaderInv',
         UNCHANGED <<buf, write_ptr>>, UNCHANGED writerVars, content' = content
  PROVE  RingInv' /\ unpublished' = unpublished /\ published' = published
<1>1. rest(content, 0) = content /\ 0 \in 0..Len(content)
  BY Facts, FirstAll
<1> QED BY <1>1, ReaderStep

\* A read or a peek that finds nothing takes nothing, as does one of no bytes.
LEMMA BeginReadOfNone ==
  ASSUME RingAssumption, RingInv, content' = content,
         unpublished' = unpublished, published' = published,
         unreleased = 0, unreleased' = 0, released' = <<>>
  PROVE  Stream!Next
<1>1. Stream!AtMost(0, Len(content)) = 0 /\ 0 \in 0..MaxCount
  BY Facts DEF Stream!AtMost, RingAssumption
<1>2. Stream!BeginRead(0)
  BY <1>1 DEF Stream!BeginRead
<1> QED BY <1>1, <1>2 DEF Stream!Next

LEMMA TakeNoneStep ==
  ASSUME RingAssumption, RingInv, TakeNone
  PROVE  RingInv' /\ Stream!Next
<1>1. /\ reader = "idle" /\ reader' = "idle" /\ dest' = <<>>
      /\ UNCHANGED <<buf, write_ptr, read_ptr>> /\ UNCHANGED ringVars
      /\ UNCHANGED <<writer, src, w1, wrote>> /\ UNCHANGED writerVars
      /\ UNCHANGED <<r1, r2>>
  BY DEF TakeNone, ringVars, writerVars
<1>2. content' = content
  BY <1>1, ContentKept
<1>3. TypeOK'
  <2>1. <<>> \in Seq(Bytes)
    BY EmptySeq
  <2> QED BY <1>1, <2>1 DEF RingInv, TypeOK, Slots
<1>4. ReaderInv'
  BY <1>1 DEF ReaderInv
<1>5. RingInv' /\ unpublished' = unpublished /\ published' = published
  BY <1>1, <1>2, <1>3, <1>4, ReaderStepKeeps
<1>6. unreleased = 0 /\ unreleased' = 0 /\ released' = <<>>
  BY <1>1 DEF unreleased, released
<1> QED BY <1>2, <1>5, <1>6, BeginReadOfNone

LEMMA TakeBeginStep ==
  ASSUME RingAssumption, RingInv, NEW cnt \in 1..MaxCount,
         NEW step \in {"copy1", "peek1"}, TakeBegin(cnt, step)
  PROVE  RingInv' /\ Stream!Next
<1> DEFINE n == atMost(cnt, read_space)
<1>1. /\ reader = "idle" /\ reader' = step /\ dest' = <<>>
      /\ r1' = beforeEnd(read_ptr, n) /\ r2' = n - r1'
      /\ read_space > 0
      /\ UNCHANGED <<buf, write_ptr, read_ptr>> /\ UNCHANGED ringVars
      /\ UNCHANGED <<writer, src, w1, wrote>> /\ UNCHANGED writerVars
  BY DEF TakeBegin, ringVars, writerVars
<1>2. content' = content
  BY <1>1, ContentKept
<1>3. /\ n \in 1..Size - 1 /\ n <= Len(content)
      /\ n = IF cnt > Len(content) THEN Len(content) ELSE cnt
  BY <1>1, Facts DEF atMost, RingAssumption
<1> HIDE DEF n
<1>4. /\ r1' \in 1..n /\ r2' \in 0..n /\ r1' + r2' = n
      /\ read_ptr + r1' <= Size /\ (r2' > 0 => read_ptr + r1' = Size)
  <2>1. r1' = IF read_ptr + n > Size THEN Size - read_ptr ELSE n
    BY <1>1 DEF beforeEnd
  <2>2. n \in Nat /\ n >= 1 /\ n < Size /\ read_ptr \in 0..Size - 1 /\ Size \in Nat
    BY <1>3, Facts
  <2> QED BY <1>1, <2>1, <2>2
<1>5. TypeOK'
  <2>1. <<>> \in Seq(Bytes) /\ r1' \in 0..Size /\ r2' \in 0..Size
    <3>1. <<>> \in Seq(Bytes) /\ Size \in Nat
      BY Facts, EmptySeq
    <3>2. r1' \in 0..Size /\ r2' \in 0..Size
      BY <1>3, <1>4, <3>1
    <3> QED BY <3>1, <3>2
  <2> QED BY <1>1, <2>1 DEF RingInv, TypeOK, Slots
<1>6. ReaderInv'
  <2>1. r1' > 0 /\ r1' + r2' <= Len(content')
    BY <1>2, <1>3, <1>4
  <2> QED BY <1>1, <1>4, <2>1 DEF ReaderInv
<1>7. RingInv' /\ unpublished' = unpublished /\ published' = published
  BY <1>1, <1>2, <1>5, <1>6, ReaderStepKeeps
<1>8. unreleased = 0 /\ unreleased' = n /\ released' = <<>>
  BY <1>1, <1>4 DEF unreleased, released
<1>9. n = Stream!AtMost(cnt, Len(content))
  BY <1>3 DEF Stream!AtMost
<1>10. Stream!BeginRead(cnt) /\ cnt \in 0..MaxCount
  BY <1>2, <1>7, <1>8, <1>9 DEF Stream!BeginRead, RingAssumption
<1> QED BY <1>7, <1>10 DEF Stream!Next

LEMMA ReadCopy1Step ==
  ASSUME RingAssumption, RingInv, ReadCopy1
  PROVE  RingInv' /\ UNCHANGED Stream!vars
<1>1. /\ reader = "copy1" /\ reader' = "store1" /\ dest' = bytesAt(read_ptr, r1)
      /\ UNCHANGED <<buf, write_ptr, read_ptr>> /\ UNCHANGED ringVars
      /\ UNCHANGED <<writer, src, w1, wrote>> /\ UNCHANGED writerVars
      /\ UNCHANGED <<r1, r2>>
  BY DEF ReadCopy1, ringVars, writerVars
<1>2. content' = content
  BY <1>1, ContentKept
<1>3. /\ r1 > 0 /\ read_ptr + r1 <= Size /\ (r2 > 0 => read_ptr + r1 = Size)
      /\ r1 + r2 <= Len(content) /\ dest = <<>>
  BY <1>1 DEF RingInv, ReaderInv
<1>4. r1 \in 0..read_space /\ r1 \in 0..Len(content)
  BY <1>3, Facts
<1>5. dest' = first(content, r1) /\ dest' \in Seq(Bytes)
  BY <1>1, <1>3, <1>4, Facts, FirstIs, CopiedOut DEF RingInv
<1>6. TypeOK'
  BY <1>1, <1>5 DEF RingInv, TypeOK, Slots
<1>7. ReaderInv'
  BY <1>1, <1>2, <1>3, <1>5 DEF ReaderInv
<1>8. RingInv' /\ unpublished' = unpublished /\ published' = published
  BY <1>1, <1>2, <1>6, <1>7, ReaderStepKeeps
<1>9. unreleased' = unreleased /\ released = <<>> /\ released' = <<>>
  BY <1>1, <1>3 DEF unreleased, released
<1> QED BY <1>2, <1>8, <1>9 DEF Stream!vars

\* Storing the reader's pointer drops the bytes in front of it.
LEMMA DropStep ==
  ASSUME RingAssumption, RingInv, UNCHANGED <<buf, write_ptr>>,
         NEW k \in 0..Len(content), read_ptr' = mask(read_ptr + k)
  PROVE  /\ content' = rest(content, k)
         /\ read_ptr' \in Slots
         /\ Len(content') = Len(content) - k
<1>1. k \in 0..Size /\ k \in 0..ahead(write_ptr, read_ptr)
  BY Facts
<1>2. held(buf, write_ptr, mask(read_ptr + k)) = rest(held(buf, write_ptr, read_ptr), k)
  BY <1>1, Facts, StoreDrops
<1>3. content' = rest(content, k)
  BY <1>2, ContentIsNext, Facts
<1>4. read_ptr' \in Slots
  BY <1>1, Facts, MovedIs
<1> QED BY <1>3, <1>4, Facts, RestIs

LEMMA ReadStore1Step ==
  ASSUME RingAssumption, RingInv, ReadStore1
  PROVE  RingInv' /\ Stream!Next
<1>1. /\ reader = "store1" /\ read_ptr' = mask(read_ptr + r1)
      /\ UNCHANGED <<buf, write_ptr, dest>>
      /\ UNCHANGED <<writer, src, w1, wrote>> /\ UNCHANGED writerVars
  BY DEF ReadStore1, writerVars
<1>2. /\ r1 > 0 /\ read_ptr + r1 <= Size /\ (r2 > 0 => read_ptr + r1 = Size)
      /\ r1 + r2 <= Len(content) /\ dest = first(content, r1)
  BY <1>1 DEF RingInv, ReaderInv
<1>3. r1 \in 0..Len(content) /\ r1 \in 0..Size
  BY <1>2, Facts
<1>4. content' = rest(content, r1) /\ read_ptr' \in Slots /\ Len(content') = Len(content) - r1
  BY <1>1, <1>3, DropStep
<1>5. Len(dest) = r1
  BY <1>2, <1>3, Facts, FirstIs
<1>6. \/ r2 > 0 /\ reader' = "copy2" /\ UNCHANGED <<r1, r2>>
      \/ r2 = 0 /\ reader' = "idle" /\ r1' = 0 /\ r2' = 0
  BY DEF ReadStore1, takeReturns
<1>7. TypeOK'
  <2>1. 0 \in 0..Size
    BY Facts
  <2>2. r1' \in 0..Size /\ r2' \in 0..Size /\ reader' \in {"copy2", "idle"}
    BY <1>6, <2>1, Facts
  <2> QED BY <1>1, <1>4, <2>2 DEF RingInv, TypeOK, Slots
<1>8. ReaderInv'
  <2>1. CASE r2 > 0 /\ reader' = "copy2" /\ UNCHANGED <<r1, r2>>
    <3>1. mask(read_ptr + r1) = IF read_ptr + r1 < Size THEN read_ptr + r1 ELSE read_ptr + r1 - Size
      BY <1>3, Facts, MovedIs
    <3>2. read_ptr' = 0
      BY SMTT(30), <1>1, <1>2, <2>1, <3>1, Facts
    <3>3. r2 <= Len(content') /\ Len(dest') = r1'
      BY SMTT(30), <1>1, <1>2, <1>4, <1>5, <2>1, Facts
    <3> QED BY <2>1, <3>2, <3>3 DEF ReaderInv
  <2>2. CASE reader' = "idle"
    BY <2>2 DEF ReaderInv
  <2> QED BY <1>6, <2>1, <2>2
<1>9. RingInv' /\ unpublished' = unpublished /\ published' = published
  BY <1>1, <1>3, <1>4, <1>7, <1>8, ReaderStep
<1>10. /\ unreleased = r1 + r2 /\ unreleased' = unreleased - r1
       /\ released = <<>> /\ released' = dest
  <2>1. unreleased = r1 + r2 /\ released = <<>>
    BY <1>1 DEF unreleased, released
  <2>2. unreleased' = r2 /\ released' = dest
    BY <1>1, <1>6 DEF unreleased, released
  <2> QED BY <2>1, <2>2, Facts
<1>11. Stream!Take(r1)
  <2>1. released \o first(content, r1) = released'
    <3>1. dest \in Seq(Bytes)
      BY Facts
    <3> QED BY <1>2, <1>10, <3>1, ConcatEmptySeq
  <2> QED BY <1>4, <1>9, <1>10, <2>1 DEF Stream!Take, Stream!First, Stream!Rest, first, rest
<1>12. r1 \in 1..unreleased
  <2>1. r1 \in Nat /\ r2 \in Nat /\ r1 >= 1 /\ unreleased = r1 + r2
    BY <1>2, <1>10, Facts
  <2> QED BY <2>1
<1> QED BY <1>9, <1>11, <1>12 DEF Stream!Next

LEMMA ReadCopy2Step ==
  ASSUME RingAssumption, RingInv, ReadCopy2
  PROVE  RingInv' /\ UNCHANGED Stream!vars
<1> DEFINE t == first(content, r2)
<1>1. /\ reader = "copy2" /\ reader' = "store2"
      /\ dest' = dest \o bytesAt(read_ptr, r2)
      /\ UNCHANGED <<buf, write_ptr, read_ptr>> /\ UNCHANGED ringVars
      /\ UNCHANGED <<writer, src, w1, wrote>> /\ UNCHANGED writerVars
      /\ UNCHANGED <<r1, r2>>
  BY DEF ReadCopy2, ringVars, writerVars
<1>2. content' = content
  BY <1>1, ContentKept
<1>3. r2 > 0 /\ read_ptr = 0 /\ r2 <= Len(content) /\ Len(dest) = r1
  BY <1>1 DEF RingInv, ReaderInv
<1>4. r2 \in 0..read_space /\ r2 \in 0..Len(content) /\ read_ptr + r2 <= Size
  BY <1>3, Facts
<1>5. bytesAt(read_ptr, r2) = t /\ t \in Seq(Bytes)
  BY <1>4, Facts, FirstIs, CopiedOut DEF RingInv
<1> HIDE DEF t
<1>6. dest' = dest \o t /\ dest' \in Seq(Bytes) /\ first(dest', r1) = dest
  <2>1. dest' = dest \o t
    BY <1>1, <1>5
  <2>2. dest \o t \in Seq(Bytes) /\ first(dest \o t, Len(dest)) = dest
    BY <1>5, Facts, ConcatProperties, FirstAll
  <2> QED BY <1>3, <2>1, <2>2
<1>7. TypeOK'
  BY <1>1, <1>6 DEF RingInv, TypeOK, Slots
<1>8. ReaderInv'
  <2>1. dest' = first(dest', r1') \o first(content', r2')
    BY <1>1, <1>2, <1>6 DEF t
  <2> QED BY <1>1, <1>2, <1>3, <2>1 DEF ReaderInv
<1>9. RingInv' /\ unpublished' = unpublished /\ published' = published
  BY <1>1, <1>2, <1>7, <1>8, ReaderStepKeeps
<1>10. unreleased' = unreleased /\ released' = released
  BY <1>1, <1>6 DEF unreleased, released
<1> QED BY <1>2, <1>9, <1>10 DEF Stream!vars

LEMMA ReadStore2Step ==
  ASSUME RingAssumption, RingInv, ReadStore2
  PROVE  RingInv' /\ Stream!Next
<1>1. /\ reader = "store2" /\ read_ptr' = mask(read_ptr + r2)
      /\ reader' = "idle" /\ r1' = 0 /\ r2' = 0
      /\ UNCHANGED <<buf, write_ptr, dest>>
      /\ UNCHANGED <<writer, src, w1, wrote>> /\ UNCHANGED writerVars
  BY DEF ReadStore2, takeReturns, writerVars
<1>2. /\ r2 > 0 /\ r2 <= Len(content)
      /\ dest = first(dest, r1) \o first(content, r2)
  BY <1>1 DEF RingInv, ReaderInv
<1>3. r2 \in 0..Len(content)
  BY <1>2, Facts
<1>4. content' = rest(content, r2) /\ read_ptr' \in Slots
  BY <1>1, <1>3, DropStep
<1>5. TypeOK'
  <2>1. 0 \in 0..Size
    BY Facts
  <2> QED BY <1>1, <1>4, <2>1 DEF RingInv, TypeOK, Slots
<1>6. ReaderInv'
  BY <1>1 DEF ReaderInv
<1>7. RingInv' /\ unpublished' = unpublished /\ published' = published
  BY <1>1, <1>3, <1>4, <1>5, <1>6, ReaderStep
<1>8. /\ unreleased = r2 /\ unreleased' = 0
      /\ released = first(dest, r1) /\ released' = dest
  BY <1>1 DEF unreleased, released
<1>9. r2 \in 1..unreleased /\ unreleased' = unreleased - r2
  BY <1>2, <1>8, Facts
<1>10. Stream!Take(r2)
  BY <1>2, <1>4, <1>7, <1>8, <1>9 DEF Stream!Take, Stream!First, Stream!Rest, first, rest
<1> QED BY <1>7, <1>9, <1>10 DEF Stream!Next

LEMMA PeekCopy1Step ==
  ASSUME RingAssumption, RingInv, PeekCopy1
  PROVE  RingInv' /\ (Stream!Next \/ UNCHANGED Stream!vars)
<1>1. /\ reader = "peek1" /\ dest' = bytesAt(read_ptr, r1)
      /\ UNCHANGED <<buf, write_ptr, read_ptr>> /\ UNCHANGED ringVars
      /\ UNCHANGED <<writer, src, w1, wrote>> /\ UNCHANGED writerVars
  BY DEF PeekCopy1, ringVars, writerVars
<1>2. content' = content
  BY <1>1, ContentKept
<1>3. /\ r1 > 0 /\ read_ptr + r1 <= Size /\ (r2 > 0 => read_ptr + r1 = Size)
      /\ r1 + r2 <= Len(content) /\ dest = <<>>
  BY <1>1 DEF RingInv, ReaderInv
<1>4. r1 \in 0..read_space /\ r1 \in 0..Len(content)
  BY <1>3, Facts
<1>5. dest' = first(content, r1) /\ dest' \in Seq(Bytes)
  BY <1>1, <1>3, <1>4, Facts, FirstIs, CopiedOut DEF RingInv
<1>6. \/ r2 > 0 /\ reader' = "peek2" /\ UNCHANGED <<r1, r2>>
      \/ r2 = 0 /\ reader' = "idle" /\ r1' = 0 /\ r2' = 0
  BY DEF PeekCopy1, takeReturns
<1>7. TypeOK'
  <2>1. 0 \in 0..Size
    BY Facts
  <2>2. r1' \in 0..Size /\ r2' \in 0..Size /\ reader' \in {"peek2", "idle"}
    BY <1>6, <2>1, Facts
  <2> QED BY <1>1, <1>5, <2>2 DEF RingInv, TypeOK, Slots
<1>8. ReaderInv'
  BY <1>1, <1>2, <1>3, <1>5, <1>6 DEF ReaderInv
<1>9. RingInv' /\ unpublished' = unpublished /\ published' = published
  BY <1>1, <1>2, <1>7, <1>8, ReaderStepKeeps
<1>10. CASE r2 > 0 /\ reader' = "peek2" /\ UNCHANGED <<r1, r2>>
  <2>1. unreleased' = unreleased /\ released = <<>> /\ released' = <<>>
    BY <1>1, <1>3, <1>10 DEF unreleased, released
  <2> QED BY <1>2, <1>9, <2>1 DEF Stream!vars
<1>11. CASE r2 = 0 /\ reader' = "idle" /\ r1' = 0 /\ r2' = 0
  <2>1. unreleased = r1 /\ unreleased' = 0 /\ released' = dest'
    <3>1. r1 + 0 = r1
      BY Facts
    <3> QED BY <1>1, <1>11, <3>1 DEF unreleased, released
  <2>2. Stream!Copy
    BY <1>2, <1>5, <1>9, <2>1 DEF Stream!Copy, Stream!First, first
  <2> QED BY <1>9, <2>2 DEF Stream!Next
<1> QED BY <1>6, <1>10, <1>11

LEMMA PeekCopy2Step ==
  ASSUME RingAssumption, RingInv, PeekCopy2
  PROVE  RingInv' /\ Stream!Next
<1>1. /\ reader = "peek2" /\ dest' = dest \o bytesAt(mask(read_ptr + r1), r2)
      /\ reader' = "idle" /\ r1' = 0 /\ r2' = 0
      /\ UNCHANGED <<buf, write_ptr, read_ptr>> /\ UNCHANGED ringVars
      /\ UNCHANGED <<writer, src, w1, wrote>> /\ UNCHANGED writerVars
  BY DEF PeekCopy2, takeReturns, ringVars, writerVars
<1>2. content' = content
  BY <1>1, ContentKept
<1>3. /\ r1 > 0 /\ r2 > 0 /\ read_ptr + r1 = Size
      /\ r1 + r2 <= Len(content) /\ dest = first(content, r1)
  BY <1>1 DEF RingInv, ReaderInv
<1>4. mask(read_ptr + r1) = 0
  <2>1. mask(read_ptr + r1) = IF read_ptr + r1 < Size THEN read_ptr + r1 ELSE read_ptr + r1 - Size
    BY Facts, MovedIs
  <2> QED BY SMTT(30), <1>3, <2>1, Facts
<1>5. dest' = first(content, r1 + r2)
  <2>1. r1 \in Nat /\ r2 \in Nat /\ r1 + r2 <= read_space
    BY SMTT(30), <1>3, Facts
  <2> QED BY <1>1, <1>3, <1>4, <2>1, CopiedOutWrapped DEF RingInv
<1>6. dest' \in Seq(Bytes)
  <2>1. r1 + r2 \in 0..Len(content)
    BY SMTT(30), <1>3, Facts
  <2> QED BY <1>5, <2>1, Facts, FirstIs
<1>7. TypeOK'
  <2>1. 0 \in 0..Size
    BY Facts
  <2> QED BY <1>1, <1>6, <2>1 DEF RingInv, TypeOK, Slots
<1>8. ReaderInv'
  BY <1>1 DEF ReaderInv
<1>9. RingInv' /\ unpublished' = unpublished /\ published' = published
  BY <1>1, <1>2, <1>7, <1>8, ReaderStepKeeps
<1>10. unreleased = r1 + r2 /\ unreleased' = 0 /\ released' = dest'
  BY <1>1 DEF unreleased, released
<1>11. Stream!Copy
  BY <1>2, <1>5, <1>9, <1>10 DEF Stream!Copy, Stream!First, first
<1> QED BY <1>9, <1>11 DEF Stream!Next

LEMMA GetReadVectorStep ==
  ASSUME RingAssumption, RingInv, GetReadVector
  PROVE  RingInv' /\ Stream!Next
<1>1. /\ reader = "idle" /\ reader' = "vector" /\ dest' = <<>>
      /\ r1' = beforeEnd(read_ptr, read_space) /\ r2' = read_space - r1'
      /\ UNCHANGED <<buf, write_ptr, read_ptr>> /\ UNCHANGED ringVars
      /\ UNCHANGED <<writer, src, w1, wrote>> /\ UNCHANGED writerVars
  BY DEF GetReadVector, ringVars, writerVars
<1>2. content' = content
  BY <1>1, ContentKept
<1>3. /\ r1' \in 0..Size /\ r2' \in 0..Size /\ r1' + r2' = Len(content)
      /\ read_ptr + r1' <= Size /\ (r2' > 0 => read_ptr + r1' = Size)
  <2>1. r1' = IF read_ptr + read_space > Size THEN Size - read_ptr ELSE read_space
    BY <1>1 DEF beforeEnd
  <2>2. /\ read_space \in 0..Size - 1 /\ read_ptr \in 0..Size - 1 /\ Size \in Nat
        /\ Len(content) = read_space
    BY Facts
  <2> QED BY <1>1, <2>1, <2>2
<1>4. TypeOK'
  <2>1. <<>> \in Seq(Bytes)
    BY EmptySeq
  <2> QED BY <1>1, <1>3, <2>1 DEF RingInv, TypeOK, Slots
<1>5. ReaderInv'
  <2>1. r1' + r2' <= Len(content')
    BY <1>2, <1>3
  <2> QED BY <1>1, <1>3, <2>1 DEF ReaderInv
<1>6. RingInv' /\ unpublished' = unpublished /\ published' = published
  BY <1>1, <1>2, <1>4, <1>5, ReaderStepKeeps
<1>7. unreleased = 0 /\ unreleased' = 0 /\ released' = <<>>
  BY <1>1 DEF unreleased, released
<1> QED BY <1>2, <1>6, <1>7, BeginReadOfNone

LEMMA UseReadVectorStep ==
  ASSUME RingAssumption, RingInv, NEW cnt \in 0..MaxCount, UseReadVector(cnt)
  PROVE  RingInv' /\ Stream!Next
<1> DEFINE n == atMost(cnt, r1)
<1>1. /\ reader = "vector" /\ reader' = "advance" /\ cnt <= r1 + r2
      /\ dest' = bytesAt(read_ptr, n) \o bytesAt(0, cnt - n)
      /\ UNCHANGED <<buf, write_ptr, read_ptr>> /\ UNCHANGED ringVars
      /\ UNCHANGED <<writer, src, w1, wrote>> /\ UNCHANGED writerVars
      /\ UNCHANGED <<r1, r2>>
  BY DEF UseReadVector, ringVars, writerVars
<1>2. content' = content
  BY <1>1, ContentKept
<1>3. /\ read_ptr + r1 <= Size /\ (r2 > 0 => read_ptr + r1 = Size)
      /\ r1 + r2 <= Len(content)
  BY <1>1 DEF RingInv, ReaderInv
<1>4. cnt \in Nat /\ cnt \in 0..Len(content)
  BY SMTT(30), <1>1, <1>3, Facts DEF RingAssumption
<1>5. n = IF cnt > r1 THEN r1 ELSE cnt
  BY DEF atMost
<1> HIDE DEF n
<1>6. n \in 0..read_space /\ read_ptr + n <= Size /\ n \in 0..Len(content)
  BY SMTT(30), <1>3, <1>4, <1>5, Facts
<1>7. bytesAt(read_ptr, n) = first(content, n) /\ first(content, n) \in Seq(Bytes)
  BY <1>6, Facts, FirstIs, CopiedOut DEF RingInv
<1>8. dest' = first(content, cnt)
  <2>1. CASE cnt > r1
    <3>1. /\ n \in Nat /\ cnt - n \in Nat /\ n + (cnt - n) <= read_space
          /\ read_ptr + n = Size /\ n + (cnt - n) = cnt
      BY SMTT(30), <1>1, <1>3, <1>4, <1>5, <2>1, Facts
    <3>2. first(content, n) \o bytesAt(0, cnt - n) = first(content, n + (cnt - n))
      BY <3>1, CopiedOutWrapped DEF RingInv
    <3> QED BY <1>1, <1>7, <3>1, <3>2
  <2>2. CASE ~(cnt > r1)
    <3>1. n = cnt /\ cnt - n = 0
      BY <1>4, <1>5, <2>2
    <3>2. bytesAt(0, 0) = <<>>
      BY DEF bytesAt
    <3> QED BY <1>1, <1>7, <3>1, <3>2, ConcatEmptySeq
  <2> QED BY <2>1, <2>2
<1>9. dest' \in Seq(Bytes) /\ Len(dest') = cnt
  BY <1>4, <1>8, Facts, FirstIs
<1>10. TypeOK'
  BY <1>1, <1>9 DEF RingInv, TypeOK, Slots
<1>11. ReaderInv'
  <2>1. Len(dest') <= Len(content') /\ dest' = first(content', Len(dest'))
    BY <1>2, <1>4, <1>8, <1>9
  <2> QED BY <1>1, <2>1 DEF ReaderInv
<1>12. RingInv' /\ unpublished' = unpublished /\ published' = published
  BY <1>1, <1>2, <1>10, <1>11, ReaderStepKeeps
<1>13. unreleased = 0 /\ unreleased' = cnt /\ released' = <<>>
  BY <1>1, <1>9 DEF unreleased, released
<1>14. Stream!AtMost(cnt, Len(content)) = cnt
  BY <1>4, Facts DEF Stream!AtMost
<1>15. Stream!BeginRead(cnt)
  BY <1>2, <1>12, <1>13, <1>14 DEF Stream!BeginRead
<1> QED BY <1>12, <1>15 DEF Stream!Next

LEMMA ReadAdvanceStep ==
  ASSUME RingAssumption, RingInv, ReadAdvance
  PROVE  RingInv' /\ (Stream!Next \/ UNCHANGED Stream!vars)
<1> DEFINE k == Len(dest)
<1>1. /\ reader = "advance" /\ read_ptr' = mask(read_ptr + k)
      /\ reader' = "idle" /\ r1' = 0 /\ r2' = 0
      /\ UNCHANGED <<buf, write_ptr, dest>>
      /\ UNCHANGED <<writer, src, w1, wrote>> /\ UNCHANGED writerVars
  BY DEF ReadAdvance, takeReturns, writerVars
<1>2. k <= Len(content) /\ dest = first(content, k)
  BY <1>1 DEF RingInv, ReaderInv
<1>3. k \in 0..Len(content)
  BY <1>2, Facts
<1>4. content' = rest(content, k) /\ read_ptr' \in Slots
  BY <1>1, <1>3, DropStep
<1>5. TypeOK'
  <2>1. 0 \in 0..Size
    BY Facts
  <2> QED BY <1>1, <1>4, <2>1 DEF RingInv, TypeOK, Slots
<1>6. ReaderInv'
  BY <1>1 DEF ReaderInv
<1>7. RingInv' /\ unpublished' = unpublished /\ published' = published
  BY <1>1, <1>3, <1>4, <1>5, <1>6, ReaderStep
<1>8. /\ unreleased = k /\ unreleased' = 0
      /\ released = <<>> /\ released' = dest
  BY <1>1 DEF unreleased, released
<1>9. CASE k = 0
  <2>1. dest = <<>> /\ content' = content
    BY <1>2, <1>4, <1>9, Facts, FirstAll
  <2> QED BY <1>7, <1>8, <1>9, <2>1 DEF Stream!vars
<1>10. CASE k # 0
  <2>1. k \in 1..unreleased /\ unreleased' = unreleased - k
    BY <1>3, <1>8, <1>10, Facts
  <2>2. released \o first(content, k) = released'
    <3>1. dest \in Seq(Bytes)
      BY Facts
    <3> QED BY <1>2, <1>8, <3>1, ConcatEmptySeq
  <2>3. Stream!Take(k)
    BY <1>4, <1>7, <2>1, <2>2 DEF Stream!Take, Stream!First, Stream!Rest, first, rest
  <2> QED BY <1>7, <2>1, <2>3 DEF Stream!Next
<1> QED BY <1>9, <1>10

LEMMA ResetStep ==
  ASSUME RingAssumption, RingInv, Reset
  PROVE  RingInv' /\ Stream!Next
<1>1. /\ writer = "idle" /\ reader = "idle" /\ src = <<>>
      /\ read_ptr' = 0 /\ write_ptr' = 0 /\ buf' = buf
      /\ UNCHANGED <<writer, src, w1, wrote>>
      /\ UNCHANGED <<reader, r1, r2, dest>>
  BY DEF Reset, writerVars, readerVars, RingInv, WriterInv
<1>2. content' = <<>>
  <2>1. 0 \in Slots
    BY Facts DEF Slots
  <2>2. ahead(0, 0) = 0
    BY <2>1, AheadIs DEF Slots, RingAssumption
  <2> QED BY <1>1, <2>2, ContentIsNext DEF held
<1>3. TypeOK'
  <2>1. 0 \in Slots
    BY Facts DEF Slots
  <2> QED BY <1>1, <2>1 DEF RingInv, TypeOK, Slots
<1>4. WriterInv' /\ ReaderInv'
  BY <1>1 DEF WriterInv, ReaderInv
<1>5. RingInv'
  BY <1>2, <1>3, <1>4, EmptySeq DEF RingInv
<1>6. /\ unpublished = <<>> /\ unpublished' = <<>> /\ published' = published
      /\ unreleased = 0 /\ unreleased' = 0 /\ released' = released
  BY <1>1 DEF unpublished, published, unreleased, released
<1>7. Stream!Reset
  BY <1>2, <1>6 DEF Stream!Reset
<1> QED BY <1>5, <1>7 DEF Stream!Next

-----------------------------------------------------------------------------
(* The theorems *)

\* An empty ring satisfies the invariant and is the empty stream.
LEMMA RingInit ==
  ASSUME RingAssumption, Init
  PROVE  RingInv /\ Stream!Init
<1>1. Size \in Nat \ {0, 1} /\ 0 \in Slots /\ <<>> \in Seq(Bytes) /\ 0 \in 0..Size
  BY EmptySeq DEF RingAssumption, Slots
<1>2. /\ write_ptr = 0 /\ read_ptr = 0 /\ writer = "idle" /\ reader = "idle"
      /\ src = <<>> /\ dest = <<>> /\ wrote = 0
  BY DEF Init
<1>3. TypeOK
  BY <1>1, <1>2 DEF Init, TypeOK
<1>4. content = <<>>
  <2>1. ahead(0, 0) = 0
    BY <1>1, AheadIs DEF Slots
  <2>2. content = held(buf, 0, 0)
    BY <1>2, <1>3, ContentIs
  <2> QED BY <2>1, <2>2 DEF held
<1>5. RingInv
  BY <1>1, <1>2, <1>3, <1>4 DEF RingInv, WriterInv, ReaderInv
<1>6. unpublished = <<>> /\ published = 0 /\ unreleased = 0 /\ released = <<>>
  BY <1>2 DEF unpublished, published, unreleased, released
<1> QED BY <1>4, <1>5, <1>6 DEF Stream!Init

\* Every step keeps the invariant and is a step of the stream, or none.
LEMMA RingStep ==
  ASSUME RingAssumption, RingInv, [Next]_vars
  PROVE  RingInv' /\ [Stream!Next]_(Stream!vars)
<1>1. CASE Write
  BY <1>1, WriteFullStep, WriteBeginStep, WriteCopy1Step, WriteStore1Step, WriteCopy2Step,
     WriteStore2Step, GetWriteVectorStep, FillWriteVectorStep, WriteAdvanceStep
  DEF Write
<1>2. CASE Read
  <2>1. ASSUME NEW cnt \in 1..MaxCount, ReadBegin(cnt) \/ PeekBegin(cnt)
        PROVE  RingInv' /\ Stream!Next
    BY <2>1, TakeBeginStep DEF ReadBegin, PeekBegin
  <2> QED
    BY <1>2, <2>1, TakeNoneStep, ReadCopy1Step, ReadStore1Step, ReadCopy2Step,
       ReadStore2Step, PeekCopy1Step, PeekCopy2Step, GetReadVectorStep,
       UseReadVectorStep, ReadAdvanceStep
    DEF Read
<1>3. CASE Reset
  BY <1>3, ResetStep
<1>4. CASE UNCHANGED vars
  <2>1. /\ UNCHANGED <<writer, src, w1, wrote, reader, r1, r2, dest, buf, write_ptr, read_ptr>>
        /\ UNCHANGED read_ptr /\ UNCHANGED readerVars /\ UNCHANGED ringVars
    BY <1>4 DEF vars, ringVars, writerVars, readerVars
  <2>2. content' = content
    BY <2>1, ContentKept
  <2>3. TypeOK'
    BY <2>1 DEF RingInv, TypeOK, Slots
  <2>4. WriterInv' /\ unpublished' = unpublished /\ published' = published
    BY <2>1, <2>2 DEF RingInv, WriterInv, slot, mask, unpublished, published, rest
  <2>5. RingInv' /\ unreleased' = unreleased /\ released' = released
    BY <2>1, <2>2, <2>3, <2>4, WriterStepKeeps
  <2> QED BY <2>2, <2>4, <2>5 DEF Stream!vars
<1> QED BY <1>1, <1>2, <1>3, <1>4 DEF Next

\* The bytes of one side are never those of the other (ringbuffer.c:150-268).
THEOREM SidesApart ==
  ASSUME RingAssumption
  PROVE  Spec => []SidesNeverMeet
<1>1. ASSUME RingInv PROVE SidesNeverMeet
  <2> USE <1>1
  <2>1. /\ Len(content) = read_space /\ read_space \in 0..Size - 1 /\ Size \in Nat
        /\ src \in Seq(Bytes) /\ Len(src) \in Nat /\ Len(dest) \in Nat
        /\ r1 \in Nat /\ r2 \in Nat /\ w1 \in Nat
    BY Facts
  <2>2. WriterInv /\ ReaderInv
    BY DEF RingInv
  <2>3. read_space + Len(unpublished) < Size
    <3>1. CASE writer \in {"copy1", "store1", "advance"}
      BY <2>1, <2>2, <3>1 DEF WriterInv, unpublished
    <3>2. CASE writer \in {"copy2", "store2"}
      <4>1. unpublished = rest(src, w1) /\ w1 \in 0..Len(src)
        BY <2>1, <2>2, <3>2 DEF WriterInv, unpublished
      <4>2. Len(unpublished) = Len(src) - w1
        BY <2>1, <4>1, RestIs
      <4> QED BY <2>1, <2>2, <3>2, <4>2 DEF WriterInv
    <3>3. CASE writer \notin {"copy1", "store1", "copy2", "store2", "advance"}
      <4>1. unpublished = <<>> /\ Len(<<>>) = 0
        BY <3>3, EmptySeq DEF unpublished
      <4> QED BY <2>1, <4>1
    <3> QED BY <3>1, <3>2, <3>3
  <2>4. unreleased <= read_space
    <3>1. CASE reader \in {"copy1", "store1", "peek1", "peek2"}
      BY <2>1, <2>2, <3>1 DEF ReaderInv, unreleased
    <3>2. CASE reader \in {"copy2", "store2"}
      BY <2>1, <2>2, <3>2 DEF ReaderInv, unreleased
    <3>3. CASE reader = "advance"
      BY <2>1, <2>2, <3>3 DEF ReaderInv, unreleased
    <3>4. CASE reader \notin {"copy1", "store1", "peek1", "peek2", "copy2", "store2", "advance"}
      BY <2>1, <3>4 DEF unreleased
    <3> QED BY <3>1, <3>2, <3>3, <3>4
  <2>5. /\ writer = "vector" => read_space + w1 < Size
        /\ reader = "vector" => r1 + r2 <= read_space
    BY <2>1, <2>2 DEF WriterInv, ReaderInv
  <2> QED BY <2>3, <2>4, <2>5 DEF SidesNeverMeet
<1>2. Init => RingInv
  BY RingInit
<1>3. RingInv /\ [Next]_vars => RingInv'
  BY RingStep
<1> QED BY <1>1, <1>2, <1>3, PTL DEF Spec

\* Whatever the two calls do at once and wherever they wrap, the bytes come out in
\* the order they went in: the ring implements ByteStream for every size.
THEOREM Refinement ==
  ASSUME RingAssumption
  PROVE  Spec => ImplementsStream
<1>1. Init => RingInv /\ Stream!Init
  BY RingInit
<1>2. RingInv /\ [Next]_vars => RingInv' /\ [Stream!Next]_(Stream!vars)
  BY RingStep
<1> QED BY <1>1, <1>2, PTL DEF Spec, ImplementsStream, Stream!Spec

-----------------------------------------------------------------------------
(* The upwaker *)

\* The variables keep their types.
THEOREM UpwakerTyped == UpwakerSpec => []UpwakerTypeOK
<1>1. UpwakerInit => UpwakerTypeOK
  BY UpwakerAssumption DEF UpwakerInit, UpwakerTypeOK
<1>2. UpwakerTypeOK /\ [UpwakerNext]_upwakerVars => UpwakerTypeOK'
  BY UpwakerAssumption
  DEF UpwakerTypeOK, upwakerVars, UpwakerNext, upwaker_sleep, upwaker_wake_up, SleepCall, SleepTest,
      SleepWait, SpuriousWakeup, SleepClear, WakeSet, WakeBroadcast
<1> QED BY <1>1, <1>2, PTL DEF UpwakerSpec

\* The sleeps that are bound to end: one for the flag or for a sleeper on its way
\* out, who takes the flag with it, and one for the broadcast of a wake overtaken.
due ==
  (IF please_wakeup = 1 \/ sleeper = "clear" THEN 1 ELSE 0)
  + (IF waker = "broadcast" /\ please_wakeup = 0 THEN 1 ELSE 0)

\* What is over and what is due together: a wake, an overtaking and a wait that ends
\* for no reason add one at the most, and every other step only moves it.
Owed == returns + due <= wakes + overtaken + spurious

\* A wake ends a second sleep only if the sleeper overtook it between flag and
\* broadcast (upwaker.c:32-33): otherwise upwaker.h:9-11 is right.
THEOREM OncePerWake == UpwakerSpec => []OncePerWakeUnlessOvertaken
<1>1. UpwakerInit => Owed
  BY DEF UpwakerInit, Owed, due
<1>2. UpwakerTypeOK /\ Owed /\ [UpwakerNext]_upwakerVars => Owed'
  <2> SUFFICES ASSUME UpwakerTypeOK, Owed, [UpwakerNext]_upwakerVars PROVE Owed'
    OBVIOUS
  <2> USE DEF UpwakerTypeOK, Owed, due
  <2>1. CASE SleepCall \/ SleepTest \/ SleepWait
    BY <2>1 DEF SleepCall, SleepTest, SleepWait
  <2>2. CASE SpuriousWakeup
    BY <2>2 DEF SpuriousWakeup
  <2>3. CASE SleepClear
    BY <2>3 DEF SleepClear
  <2>4. CASE WakeSet
    BY <2>4 DEF WakeSet
  <2>5. CASE WakeBroadcast
    BY <2>5 DEF WakeBroadcast
  <2>6. CASE UNCHANGED upwakerVars
    BY <2>6 DEF upwakerVars
  <2> QED
    BY <2>1, <2>2, <2>3, <2>4, <2>5, <2>6 DEF UpwakerNext, upwaker_sleep, upwaker_wake_up
<1>3. UpwakerTypeOK /\ Owed => OncePerWakeUnlessOvertaken
  BY DEF UpwakerTypeOK, Owed, due, OncePerWakeUnlessOvertaken
<1> QED BY <1>1, <1>2, <1>3, UpwakerTyped, PTL DEF UpwakerSpec
===============================================================================
