----------------------------- MODULE Rack_proofs -----------------------------
(***************************************************************************)
(* For every number of rows and moves: which copies of its position a row  *)
(* can rely on, and what it takes for the rack to end the program.  For    *)
(* all plugins and presets: which control a value of a preset is for, and  *)
(* when a row shows what its plugin plays.                                 *)
(***************************************************************************)
EXTENDS Rack, Controls, CommonLemmas, FiniteSetTheorems

-----------------------------------------------------------------------------
(* Orders of rows *)

\* Different places of s hold different rows.
Differ(s) == \A j, k \in 1..Len(s) : s[j] = s[k] => j = k

\* Every row of s is in t.
Within(s, t) == \A k \in 1..Len(s) : \E j \in 1..Len(t) : t[j] = s[k]

\* Behind rows that are there come others.
LEMMA RowsJoined ==
  ASSUME NEW A, NEW B, NEW s \in Seq(A), NEW r \in Seq(B), Differ(s), Differ(r),
         A \cap B = {}
  PROVE  s \o r \in Seq(A \cup B) /\ Differ(s \o r)
<1> DEFINE t == s \o r
<1>1. s \in Seq(A \cup B) /\ r \in Seq(A \cup B) /\ Len(s) \in Nat /\ Len(r) \in Nat
  OBVIOUS
<1>2. /\ t \in Seq(A \cup B) /\ Len(t) = Len(s) + Len(r)
      /\ \A k \in 1..Len(s) : t[k] = s[k]
      /\ \A k \in 1..Len(r) : t[Len(s) + k] = r[k]
  BY <1>1, Joined
<1> HIDE DEF t
<1>3. ASSUME NEW k \in 1..Len(t)
      PROVE  \/ k \in 1..Len(s) /\ t[k] = s[k] /\ t[k] \in A /\ t[k] \notin B
             \/ k - Len(s) \in 1..Len(r) /\ t[k] = r[k - Len(s)] /\ t[k] \in B /\ t[k] \notin A
  <2>1. CASE k <= Len(s)
    <3>1. k \in 1..Len(s)
      BY <1>1, <1>2, <2>1
    <3>2. t[k] = s[k] /\ s[k] \in A
      BY <1>2, <3>1
    <3> QED BY <3>1, <3>2
  <2>2. CASE k > Len(s)
    <3>1. k - Len(s) \in 1..Len(r) /\ Len(s) + (k - Len(s)) = k
      BY <1>1, <1>2, <2>2
    <3>2. t[k] = r[k - Len(s)]
      BY <1>2, <3>1
    <3>3. r[k - Len(s)] \in B
      BY <3>1
    <3> QED BY <3>1, <3>2, <3>3
  <2>3. k <= Len(s) \/ k > Len(s)
    BY <1>1, <1>2
  <2> QED BY <2>1, <2>2, <2>3
<1>4. ASSUME NEW j \in 1..Len(t), NEW k \in 1..Len(t), t[j] = t[k]
      PROVE  j = k
  <2>1. CASE j \in 1..Len(s) /\ k \in 1..Len(s) /\ t[j] = s[j] /\ t[k] = s[k]
    BY <1>4, <2>1 DEF Differ
  <2>2. CASE /\ j - Len(s) \in 1..Len(r) /\ t[j] = r[j - Len(s)]
             /\ k - Len(s) \in 1..Len(r) /\ t[k] = r[k - Len(s)]
    <3>1. j - Len(s) = k - Len(s)
      BY <1>4, <2>2 DEF Differ
    <3>2. j \in Int /\ k \in Int
      BY <1>1, <1>2
    <3> QED BY <1>1, <3>1, <3>2
  <2> QED BY <1>3, <1>4, <2>1, <2>2
<1>5. Differ(t)
  BY <1>4 DEF Differ
<1> QED BY <1>2, <1>5 DEF t

\* Two rows that change places.
LEMMA RowsSwapped ==
  ASSUME NEW A, NEW s \in Seq(A), Differ(s), NEW n \in 1..Len(s) - 1
  PROVE  /\ Swapped(s, n) \in Seq(A) /\ Len(Swapped(s, n)) = Len(s)
         /\ Differ(Swapped(s, n)) /\ Within(Swapped(s, n), s)
         /\ Swapped(s, n)[n] = s[n + 1] /\ Swapped(s, n)[n + 1] = s[n]
         /\ \A k \in 1..Len(s) : k # n /\ k # n + 1 => Swapped(s, n)[k] = s[k]
<1>1. n \in 1..Len(s) /\ n + 1 \in 1..Len(s) /\ n # n + 1 /\ Len(s) \in Nat
  OBVIOUS
<1>2. /\ Swapped(s, n) \in Seq(A) /\ Len(Swapped(s, n)) = Len(s)
      /\ \A k \in 1..Len(s) : Swapped(s, n)[k] = IF k = n + 1 THEN s[n] ELSE IF k = n THEN s[n + 1] ELSE s[k]
  BY <1>1 DEF Swapped
<1>3. Differ(Swapped(s, n))
  BY <1>1, <1>2 DEF Differ
<1>4. Within(Swapped(s, n), s)
  BY <1>1, <1>2 DEF Within
<1> QED BY <1>1, <1>2, <1>3, <1>4

\* The last row goes to the top.
LEMMA RowsTurned ==
  ASSUME NEW A, NEW s \in Seq(A), Differ(s), s # <<>>
  PROVE  LET t == <<s[Len(s)]>> \o Front(s) IN
         t \in Seq(A) /\ Differ(t) /\ Within(t, s)
<1> DEFINE front == SubSeq(s, 1, Len(s) - 1)
           t == <<s[Len(s)]>> \o front
<1>1. Len(s) \in Nat \ {0} /\ Len(s) \in 1..Len(s)
  OBVIOUS
<1>2. front \in Seq(A) /\ Len(front) = Len(s) - 1 /\ \A k \in 1..Len(s) - 1 : front[k] = s[k]
  <2>1. Len(s) - 1 \in 0..Len(s)
    BY <1>1
  <2> QED BY <2>1, Begun
<1>3. <<s[Len(s)]>> \in Seq(A) /\ Len(<<s[Len(s)]>>) = 1 /\ <<s[Len(s)]>>[1] = s[Len(s)]
  BY <1>1
<1> HIDE DEF front
<1>4. /\ t \in Seq(A) /\ Len(t) = Len(s) /\ t[1] = s[Len(s)]
      /\ \A k \in 1..Len(s) - 1 : t[1 + k] = s[k]
  <2>1. PICK top \in Seq(A) : top = <<s[Len(s)]>>
    BY <1>3
  <2>2. /\ top \o front \in Seq(A)
        /\ Len(top \o front) = Len(top) + Len(front)
        /\ \A k \in 1..Len(top) : (top \o front)[k] = top[k]
        /\ \A k \in 1..Len(front) : (top \o front)[Len(top) + k] = front[k]
    BY ONLY <1>2, <2>1, Joined
  <2>3. Len(top) = 1 /\ top[1] = s[Len(s)] /\ t = top \o front
    BY <1>3, <2>1
  <2> HIDE DEF t
  <2> QED BY <1>1, <1>2, <2>2, <2>3
<1> HIDE DEF t
<1>5. ASSUME NEW k \in 1..Len(s)
      PROVE  \/ k = 1 /\ t[k] = s[Len(s)]
             \/ k # 1 /\ k - 1 \in 1..Len(s) /\ k - 1 # Len(s) /\ t[k] = s[k - 1]
  <2>1. CASE k = 1
    BY <1>4, <2>1
  <2>2. CASE k # 1
    <3>1. k - 1 \in 1..Len(s) - 1 /\ 1 + (k - 1) = k
      BY <1>1, <2>2
    <3> QED BY <1>1, <1>4, <2>2, <3>1
  <2> QED BY <2>1, <2>2
<1>6. Differ(t)
  <2>1. \A x, y \in 1..Len(s) : s[x] = s[y] => x = y
    BY DEF Differ
  <2>2. \A j, k \in 1..Len(s) : t[j] = t[k] => j = k
    BY <1>1, <1>5, <2>1
  <2> QED BY <1>4, <2>2 DEF Differ
<1>7. Within(t, s)
  BY <1>1, <1>4, <1>5 DEF Within
<1> QED BY <1>4, <1>6, <1>7 DEF t, front, Front

\* A row goes.
LEMMA RowRemoved ==
  ASSUME NEW A, NEW s \in Seq(A), Differ(s), NEW n \in 1..Len(s)
  PROVE  /\ RemoveAt(s, n) \in Seq(A) /\ Len(RemoveAt(s, n)) = Len(s) - 1
         /\ Differ(RemoveAt(s, n)) /\ Within(RemoveAt(s, n), s)
         /\ n = Len(s) => \A k \in 1..Len(s) - 1 : RemoveAt(s, n)[k] = s[k]
<1> DEFINE t == RemoveAt(s, n)
<1>1. /\ t \in Seq(A) /\ Len(t) = Len(s) - 1
      /\ \A k \in 1..Len(s) - 1 : t[k] = IF k < n THEN s[k] ELSE s[k + 1]
  BY Removed
<1> HIDE DEF t
<1>2. \A k \in 1..Len(s) - 1 : k \in 1..Len(s) /\ k + 1 \in 1..Len(s)
  OBVIOUS
<1>3. Differ(t)
  <2> SUFFICES ASSUME NEW j \in 1..Len(s) - 1, NEW k \in 1..Len(s) - 1, t[j] = t[k], j # k
               PROVE  FALSE
    BY <1>1 DEF Differ
  <2>1. j \in 1..Len(s) /\ j + 1 \in 1..Len(s) /\ k \in 1..Len(s) /\ k + 1 \in 1..Len(s)
    BY <1>2
  <2>2. \A x, y \in 1..Len(s) : s[x] = s[y] => x = y
    BY DEF Differ
  <2>3. t[j] = (IF j < n THEN s[j] ELSE s[j + 1]) /\ t[k] = (IF k < n THEN s[k] ELSE s[k + 1])
    BY <1>1
  <2>4. j \in Nat /\ k \in Nat /\ n \in Nat
    BY <2>1
  <2> HIDE DEF t
  <2>5. CASE j < n /\ k < n
    BY <2>1, <2>2, <2>3, <2>5, Zenon
  <2>6. CASE ~(j < n) /\ ~(k < n)
    <3>1. j + 1 # k + 1
      BY <2>4
    <3> QED BY <2>1, <2>2, <2>3, <2>6, <3>1, Zenon
  <2>7. CASE j < n /\ ~(k < n)
    <3>1. j # k + 1
      BY <2>4, <2>7
    <3> QED BY <2>1, <2>2, <2>3, <2>7, <3>1, Zenon
  <2>8. CASE ~(j < n) /\ k < n
    <3>1. j + 1 # k
      BY <2>4, <2>8
    <3> QED BY <2>1, <2>2, <2>3, <2>8, <3>1, Zenon
  <2> QED BY <2>5, <2>6, <2>7, <2>8, Zenon
<1>4. Within(t, s)
  BY <1>1, <1>2 DEF Within
<1> QED BY <1>1, <1>3, <1>4 DEF t

\* Within carries over.
LEMMA WithinWithin ==
  ASSUME NEW s, NEW t, NEW u, Within(s, t), Within(t, u)
  PROVE  Within(s, u)
BY DEF Within

-----------------------------------------------------------------------------
(* The inductive invariant *)

\* What each row knows, one entry for each row there is; the engine has no more
\* plugins than rows have been made.
CopiesOK ==
  /\ index \in Seq(Int) /\ name \in Seq(0..MaxRows) /\ created \in Seq(0..MaxRows - 1)
  /\ Len(name) = Len(index) /\ Len(created) = Len(index)
  /\ Len(index) <= MaxRows
  /\ Size <= Len(index)

\* Rows that exist, none twice; clear will remove all that are on screen.
OrderOK ==
  /\ activePlugins \in Seq(Rows) /\ Differ(activePlugins)
  /\ screen \in Seq(Rows) /\ Differ(screen)
  /\ plugs \in Seq(Rows) /\ Within(screen, plugs)

HistoryOK ==
  /\ program \in {"runs", "aborted", "undefined"}
  /\ course \in {"kept", "moved", "lost"}
  /\ edited \in BOOLEAN
  /\ moves \in 0..MaxMoves

\* Every card has the name of its position.
Named(s) == \A k \in 1..Len(s) : name[s[k]] = k - 1

\* Every row has its position in its other copies as well.
Placed(s) == \A k \in 1..Len(s) : index[s[k]] = k - 1 /\ created[s[k]] = k - 1

\* What the two courses preserve.
CourseInv ==
  /\ program = "runs" /\ course # "lost" => screen = activePlugins /\ Named(screen)
  /\ program = "runs" /\ course = "kept" => Placed(screen)

\* Until a row is moved or deleted the cards clear removes are those on screen.
EditInv == ~edited => program = "runs" /\ course = "kept" /\ plugs = screen

RackInv == CopiesOK /\ OrderOK /\ HistoryOK /\ CourseInv /\ EditInv

\* What a row knows.
LEMMA CopiesTyped ==
  ASSUME CopiesOK
  PROVE  /\ index \in [Rows -> Int] /\ name \in [Rows -> 0..MaxRows]
         /\ created \in [Rows -> 0..MaxRows - 1]
         /\ \A r \in Rows : /\ index[r] \in Int /\ name[r] \in 0..MaxRows
                            /\ created[r] \in 0..MaxRows - 1
<1>1. \A S : \A s \in Seq(S) : s \in [1..Len(s) -> S]
  OBVIOUS
<1>2. index \in [Rows -> Int]
  BY <1>1 DEF CopiesOK, Rows
<1>3. name \in [Rows -> 0..MaxRows]
  <2>1. name \in [1..Len(name) -> 0..MaxRows]
    BY <1>1, Zenon DEF CopiesOK
  <2> QED BY <2>1, Zenon DEF CopiesOK, Rows
<1>4. created \in [Rows -> 0..MaxRows - 1]
  <2>1. created \in [1..Len(created) -> 0..MaxRows - 1]
    BY <1>1, Zenon DEF CopiesOK
  <2> QED BY <2>1, Zenon DEF CopiesOK, Rows
<1> QED BY <1>2, <1>3, <1>4

\* All actions, for the case splits.
LEMMA RackActions ==
  ASSUME [Next]_vars
  PROVE  \/ program = "runs" /\ addPluginByName
         \/ program = "runs" /\ \E n \in 0..MaxRows : load_preset(n)
         \/ program = "runs" /\ \E k \in 1..Len(screen) : move_down(screen[k])
         \/ program = "runs" /\ \E k \in 1..Len(screen) : move_up(screen[k])
         \/ program = "runs" /\ \E k \in 1..Len(screen) : delete(screen[k])
         \/ program = "runs" /\ \E k \in 1..Len(screen) : use(screen[k])
         \/ UNCHANGED vars
BY DEF Next

\* The place of the k-th card from the top.
LEMMA PlaceIs ==
  ASSUME OrderOK, NEW k \in 1..Len(screen)
  PROVE  Place(screen[k]) = k - 1
<1>1. k - 1 \in 0..Len(screen) - 1 /\ screen[(k - 1) + 1] = screen[k]
  BY DEF OrderOK
<1>2. ASSUME NEW j \in 0..Len(screen) - 1, screen[j + 1] = screen[k]
      PROVE  j = k - 1
  <2>1. j + 1 \in 1..Len(screen)
    BY DEF OrderOK
  <2>2. j + 1 = k
    BY <1>2, <2>1 DEF OrderOK, Differ
  <2> QED BY <2>2
<1> QED BY <1>1, <1>2 DEF Place

\* Clearing takes every card off the screen.
LEMMA ClearedIs ==
  ASSUME OrderOK
  PROVE  Cleared = [plugins |-> <<>>, screen |-> <<>>, plugs |-> <<>>]
<1>1. ASSUME NEW k \in 1..Len(screen) PROVE screen[k] \notin Rows \ Range(plugs)
  <2>1. PICK j \in 1..Len(plugs) : plugs[j] = screen[k]
    BY DEF OrderOK, Within
  <2>2. screen[k] \in Range(plugs)
    BY <2>1 DEF Range, OrderOK
  <2> QED BY <2>2
<1>2. Kept(screen, Rows \ Range(plugs)) = <<>>
  <2>1. screen \in Seq(Rows)
    BY DEF OrderOK
  <2> QED BY <1>1, <2>1, NoneKept
<1> QED BY <1>2 DEF Cleared

\* Init establishes it.
LEMMA RackInit == Init => RackInv
<1> SUFFICES ASSUME Init PROVE RackInv
  OBVIOUS
<1>1. MaxRows \in Nat /\ MaxMoves \in Nat
  BY RackAssumption DEF RackAssumption
<1>2. \A S : <<>> \in Seq(S) /\ Len(<<>>) = 0
  OBVIOUS
<1>3. CopiesOK
  BY <1>1, <1>2 DEF Init, CopiesOK, Size
<1>4. OrderOK
  BY <1>2 DEF Init, OrderOK, Differ, Within
<1>5. HistoryOK
  <2>1. moves \in 0..MaxMoves
    BY <1>1 DEF Init
  <2>2. edited \in BOOLEAN
    BY Zenon DEF Init
  <2> QED BY <2>1, <2>2, Zenon DEF Init, HistoryOK
<1>6. CourseInv
  BY <1>2 DEF Init, CourseInv, Named, Placed
<1>7. EditInv
  BY DEF Init, EditInv
<1> QED BY <1>3, <1>4, <1>5, <1>6, <1>7 DEF RackInv

-----------------------------------------------------------------------------
(* Rows are added *)

\* Rows added to rows p of the engine and s on screen, with cards g.
LEMMA RowsAdded ==
  ASSUME CopiesOK, NEW p \in Seq(Rows), NEW s \in Seq(Rows), NEW g \in Seq(Rows),
         Differ(p), Differ(s), Within(s, g), Len(p) <= Len(index),
         NEW n \in 0..MaxRows, AddRows([plugins |-> p, screen |-> s, plugs |-> g], n)
  PROVE  /\ CopiesOK' /\ OrderOK'
         /\ s = p /\ Named(s) => screen' = activePlugins' /\ Named(screen)'
         /\ s = p /\ Placed(s) => Placed(screen)'
         /\ g = s => plugs' = screen'
<1> DEFINE new == (Len(index) + 1)..(Len(index) + n)
           rows == [k \in 1..n |-> Len(index) + k]
           places == [k \in 1..n |-> Len(p) + k - 1]
<1>1. MaxRows \in Nat /\ n \in Nat /\ Len(index) \in Nat /\ Len(p) \in Nat /\ Len(s) \in Nat
  BY RackAssumption DEF RackAssumption, CopiesOK
<1>2. /\ Len(index) + n <= MaxRows
      /\ activePlugins' = p \o rows
      /\ screen' = s \o rows
      /\ plugs' = g \o rows
      /\ index' = index \o places
      /\ name' = name \o places
      /\ created' = created \o places
  BY DEF AddRows
<1>3. rows \in Seq(new) /\ Len(rows) = n /\ \A k \in 1..n : rows[k] = Len(index) + k
  BY <1>1
<1>4. /\ places \in Seq(Int) /\ places \in Seq(0..MaxRows) /\ places \in Seq(0..MaxRows - 1)
      /\ Len(places) = n /\ \A k \in 1..n : places[k] = Len(p) + k - 1
  <2>1. \A k \in 1..n : /\ Len(p) + k - 1 \in Int
                        /\ Len(p) + k - 1 \in 0..MaxRows /\ Len(p) + k - 1 \in 0..MaxRows - 1
    BY <1>1, <1>2
  <2> QED BY <1>1, <2>1
<1> HIDE DEF rows, places
<1>5. Differ(rows) /\ Rows \cap new = {}
  BY <1>1, <1>3 DEF Differ, Rows
<1>6. /\ index' \in Seq(Int) /\ Len(index') = Len(index) + n
      /\ name' \in Seq(0..MaxRows) /\ Len(name') = Len(index) + n
      /\ created' \in Seq(0..MaxRows - 1) /\ Len(created') = Len(index) + n
      /\ \A k \in 1..Len(index) : index'[k] = index[k] /\ name'[k] = name[k] /\ created'[k] = created[k]
      /\ \A k \in 1..n : LET row == Len(index) + k IN
           index'[row] = places[k] /\ name'[row] = places[k] /\ created'[row] = places[k]
  <2>1. index \in Seq(Int) /\ name \in Seq(0..MaxRows) /\ created \in Seq(0..MaxRows - 1)
        /\ Len(name) = Len(index) /\ Len(created) = Len(index)
    BY DEF CopiesOK
  <2>2. PICK A, B, C : A = 0..MaxRows /\ B = 0..MaxRows - 1 /\ C = Int
    OBVIOUS
  <2>3. /\ index' \in Seq(Int) /\ Len(index') = Len(index) + n
        /\ \A k \in 1..Len(index) : index'[k] = index[k]
        /\ \A k \in 1..n : index'[Len(index) + k] = places[k]
    <3>1. index \in Seq(C) /\ places \in Seq(C)
      BY <1>4, <2>1, <2>2
    <3>2. /\ index \o places \in Seq(C) /\ Len(index \o places) = Len(index) + Len(places)
          /\ \A k \in 1..Len(index) : (index \o places)[k] = index[k]
          /\ \A k \in 1..Len(places) : (index \o places)[Len(index) + k] = places[k]
      BY ONLY <3>1, Joined
    <3> QED BY ONLY <1>2, <1>4, <2>2, <3>2, Zenon
  <2>4. /\ name' \in Seq(A) /\ Len(name') = Len(index) + n
        /\ \A k \in 1..Len(index) : name'[k] = name[k]
        /\ \A k \in 1..n : name'[Len(index) + k] = places[k]
    <3>1. name \in Seq(A) /\ places \in Seq(A)
      BY <1>4, <2>1, <2>2
    <3>2. /\ name \o places \in Seq(A) /\ Len(name \o places) = Len(name) + Len(places)
          /\ \A k \in 1..Len(name) : (name \o places)[k] = name[k]
          /\ \A k \in 1..Len(places) : (name \o places)[Len(name) + k] = places[k]
      BY ONLY <3>1, Joined
    <3> QED BY ONLY <1>2, <1>4, <2>1, <3>2, Zenon
  <2>5. /\ created' \in Seq(B) /\ Len(created') = Len(index) + n
        /\ \A k \in 1..Len(index) : created'[k] = created[k]
        /\ \A k \in 1..n : created'[Len(index) + k] = places[k]
    <3>1. created \in Seq(B) /\ places \in Seq(B)
      BY <1>4, <2>1, <2>2
    <3>2. /\ created \o places \in Seq(B) /\ Len(created \o places) = Len(created) + Len(places)
          /\ \A k \in 1..Len(created) : (created \o places)[k] = created[k]
          /\ \A k \in 1..Len(places) : (created \o places)[Len(created) + k] = places[k]
      BY ONLY <3>1, Joined
    <3> QED BY ONLY <1>2, <1>4, <2>1, <3>2, Zenon
  <2> QED BY <2>2, <2>3, <2>4, <2>5
<1>7. Rows' = Rows \cup new
  BY <1>1, <1>6 DEF Rows
<1>8. /\ activePlugins' \in Seq(Rows') /\ Differ(activePlugins') /\ Len(activePlugins') = Len(p) + n
      /\ screen' \in Seq(Rows') /\ Differ(screen') /\ Len(screen') = Len(s) + n
      /\ \A k \in 1..Len(s) : screen'[k] = s[k]
      /\ \A k \in 1..n : screen'[Len(s) + k] = rows[k]
  <2>1. PICK A, B, r : A = Rows /\ B = new /\ r = rows
    OBVIOUS
  <2>2. r \in Seq(B) /\ p \in Seq(A) /\ s \in Seq(A) /\ A \cap B = {} /\ Len(r) = n
    BY <1>3, <1>5, <2>1
  <2>3. Differ(p) /\ Differ(s) /\ Differ(r)
    BY <1>5, <2>1
  <2>4. p \o r \in Seq(A \cup B) /\ Differ(p \o r)
    BY ONLY <2>2, <2>3, RowsJoined
  <2>5. s \o r \in Seq(A \cup B) /\ Differ(s \o r)
    BY ONLY <2>2, <2>3, RowsJoined
  <2>6. p \in Seq(A \cup B) /\ s \in Seq(A \cup B) /\ r \in Seq(A \cup B)
    BY ONLY <2>2
  <2>7. Len(p \o r) = Len(p) + Len(r)
    BY ONLY <2>6, Joined
  <2>8. /\ Len(s \o r) = Len(s) + Len(r)
        /\ \A k \in 1..Len(s) : (s \o r)[k] = s[k]
        /\ \A k \in 1..Len(r) : (s \o r)[Len(s) + k] = r[k]
    BY ONLY <2>6, Joined
  <2>9. Rows' = A \cup B
    BY <1>7, <2>1
  <2> QED BY <1>2, <2>1, <2>2, <2>4, <2>5, <2>7, <2>8, <2>9, Zenon
<1>9. /\ plugs' \in Seq(Rows') /\ Len(plugs') = Len(g) + n
      /\ \A k \in 1..Len(g) : plugs'[k] = g[k]
      /\ \A k \in 1..n : plugs'[Len(g) + k] = rows[k]
  <2>1. PICK A : A = Rows'
    OBVIOUS
  <2>2. g \in Seq(A) /\ rows \in Seq(A)
    <3>1. PICK B, C : B = Rows /\ C = new
      OBVIOUS
    <3>2. g \in Seq(B) /\ rows \in Seq(C) /\ B \subseteq A /\ C \subseteq A
      BY <1>3, <1>7, <2>1, <3>1
    <3> QED BY ONLY <3>2
  <2>3. /\ g \o rows \in Seq(A) /\ Len(g \o rows) = Len(g) + Len(rows)
        /\ \A k \in 1..Len(g) : (g \o rows)[k] = g[k]
        /\ \A k \in 1..Len(rows) : (g \o rows)[Len(g) + k] = rows[k]
    BY ONLY <2>2, Joined
  <2> QED BY <1>2, <1>3, <2>1, <2>3, Zenon
<1>10. ASSUME NEW k \in 1..Len(screen')
       PROVE  k \in 1..Len(s) \/ (k - Len(s) \in 1..n /\ k = Len(s) + (k - Len(s)))
  BY <1>1, <1>8
<1>11. Within(screen, plugs)'
  <2>1. ASSUME NEW k \in 1..Len(s) PROVE \E j \in 1..Len(plugs') : plugs'[j] = screen'[k]
    <3>1. PICK j \in 1..Len(g) : g[j] = s[k]
      BY DEF Within
    <3>2. j \in 1..Len(plugs')
      BY <1>1, <1>9
    <3> QED BY <1>8, <1>9, <3>1, <3>2
  <2>2. ASSUME NEW k \in 1..n PROVE \E j \in 1..Len(plugs') : plugs'[j] = screen'[Len(s) + k]
    <3>1. Len(g) + k \in 1..Len(plugs') /\ plugs'[Len(g) + k] = rows[k]
      BY <1>1, <1>9
    <3> QED BY <1>8, <3>1
  <2> QED BY <1>10, <2>1, <2>2 DEF Within
<1>12. CopiesOK'
  BY <1>1, <1>2, <1>6, <1>8 DEF CopiesOK, Size
<1>13. OrderOK'
  BY <1>8, <1>9, <1>11 DEF OrderOK
<1>14. ASSUME NEW k \in 1..n
       PROVE  LET row == screen'[Len(s) + k] IN
              index'[row] = Len(p) + k - 1 /\ name'[row] = Len(p) + k - 1 /\ created'[row] = Len(p) + k - 1
  <2>1. screen'[Len(s) + k] = Len(index) + k /\ places[k] = Len(p) + k - 1
    BY <1>3, <1>4, <1>8
  <2> QED BY <1>6, <2>1
<1>15. ASSUME NEW k \in 1..Len(s)
       PROVE  LET row == screen'[k] IN
              row = s[k] /\ index'[row] = index[row] /\ name'[row] = name[row] /\ created'[row] = created[row]
  <2>1. s[k] \in 1..Len(index)
    BY DEF Rows
  <2> QED BY <1>6, <1>8, <2>1
<1>16. ASSUME s = p, Named(s) PROVE Named(screen)'
  <2> SUFFICES ASSUME NEW k \in 1..Len(screen') PROVE name'[screen'[k]] = k - 1
    BY DEF Named
  <2>1. CASE k \in 1..Len(s)
    BY <1>15, <1>16, <2>1 DEF Named
  <2>2. ASSUME NEW j \in 1..n, k = Len(s) + j PROVE name'[screen'[k]] = k - 1
    <3>1. name'[screen'[Len(s) + j]] = Len(p) + j - 1
      BY <1>14
    <3> QED BY ONLY <1>16, <2>2, <3>1
  <2> QED BY <1>10, <2>1, <2>2
<1>17. ASSUME s = p, Placed(s) PROVE Placed(screen)'
  <2> SUFFICES ASSUME NEW k \in 1..Len(screen')
               PROVE  index'[screen'[k]] = k - 1 /\ created'[screen'[k]] = k - 1
    BY DEF Placed
  <2>1. CASE k \in 1..Len(s)
    BY <1>15, <1>17, <2>1 DEF Placed
  <2>2. ASSUME NEW j \in 1..n, k = Len(s) + j
        PROVE  index'[screen'[k]] = k - 1 /\ created'[screen'[k]] = k - 1
    <3>1. LET row == screen'[Len(s) + j] IN
          index'[row] = Len(p) + j - 1 /\ created'[row] = Len(p) + j - 1
      BY <1>14
    <3> QED BY ONLY <1>17, <2>2, <3>1
  <2> QED BY <1>10, <2>1, <2>2
<1> QED BY <1>2, <1>12, <1>13, <1>16, <1>17

\* addPluginByName keeps the invariant.
LEMMA AddKeeps ==
  ASSUME RackInv, program = "runs", addPluginByName
  PROVE  RackInv'
<1>1. /\ AddRows([plugins |-> activePlugins, screen |-> screen, plugs |-> plugs], 1)
      /\ UNCHANGED <<program, course, edited, moves>>
  BY DEF addPluginByName
<1>2. 1 \in 0..MaxRows
  <2>1. Len(index) + 1 <= MaxRows /\ Len(index) \in Nat /\ MaxRows \in Nat
    BY <1>1, RackAssumption DEF AddRows, RackAssumption, RackInv, CopiesOK
  <2> QED BY <2>1
<1>3. /\ activePlugins \in Seq(Rows) /\ screen \in Seq(Rows) /\ plugs \in Seq(Rows)
      /\ Differ(activePlugins) /\ Differ(screen) /\ Within(screen, plugs)
      /\ Len(activePlugins) <= Len(index) /\ CopiesOK
  BY DEF RackInv, OrderOK, CopiesOK, Size
<1>4. /\ CopiesOK' /\ OrderOK'
      /\ screen = activePlugins /\ Named(screen) => screen' = activePlugins' /\ Named(screen)'
      /\ screen = activePlugins /\ Placed(screen) => Placed(screen)'
      /\ plugs = screen => plugs' = screen'
  BY <1>1, <1>2, <1>3, RowsAdded
<1>5. HistoryOK'
  BY <1>1 DEF RackInv, HistoryOK
<1>6. CourseInv'
  BY <1>1, <1>4 DEF RackInv, CourseInv
<1>7. EditInv'
  BY <1>1, <1>4 DEF RackInv, EditInv
<1> QED BY <1>4, <1>5, <1>6, <1>7 DEF RackInv

\* The end of the program: after it nothing is said, but that a row had been moved or
\* deleted.
LEMMA StopKeeps ==
  ASSUME RackInv, NEW how \in {"aborted", "undefined"}, Stops(how),
         edited', moves' \in 0..MaxMoves
  PROVE  RackInv'
<1>1. /\ program' = how /\ course' = course
      /\ UNCHANGED <<activePlugins, screen, plugs, index, name, created>>
  BY DEF Stops, rowVars
<1>2. CopiesOK' /\ OrderOK'
  BY <1>1 DEF RackInv, CopiesOK, OrderOK, Size, Rows, Within, Differ
<1>3. HistoryOK'
  <2>1. edited' \in BOOLEAN
    BY Zenon
  <2> QED BY <1>1, <2>1 DEF RackInv, HistoryOK
<1>4. CourseInv' /\ EditInv'
  BY <1>1 DEF CourseInv, EditInv
<1> QED BY <1>2, <1>3, <1>4 DEF RackInv

\* load_preset keeps the invariant: a card freed before is in plugs only if a row has
\* been deleted.
LEMMA LoadKeeps ==
  ASSUME RackInv, program = "runs", NEW n \in 0..MaxRows, load_preset(n)
  PROVE  RackInv'
<1>1. edited' = edited /\ moves' = moves /\ moves \in 0..MaxMoves
  BY DEF load_preset, RackInv, HistoryOK
<1>2. CASE AddRows(Cleared, n) /\ course' = "kept" /\ UNCHANGED program
  <2> DEFINE none == <<>>
  <2>1. AddRows([plugins |-> none, screen |-> none, plugs |-> none], n)
    BY <1>2, ClearedIs DEF RackInv
  <2>2. none \in Seq(Rows) /\ Len(none) = 0 /\ Differ(none) /\ Within(none, none)
        /\ Named(none) /\ Placed(none)
    BY DEF Differ, Within, Named, Placed
  <2>3. Len(none) <= Len(index) /\ CopiesOK
    BY <2>2 DEF RackInv, CopiesOK
  <2> HIDE DEF none
  <2>4. CopiesOK' /\ OrderOK' /\ screen' = activePlugins' /\ Named(screen)' /\ Placed(screen)'
        /\ plugs' = screen'
    BY <2>1, <2>2, <2>3, RowsAdded
  <2>5. HistoryOK'
    BY <1>1, <1>2 DEF RackInv, HistoryOK
  <2>6. CourseInv' /\ EditInv'
    BY <1>2, <2>4 DEF CourseInv, EditInv
  <2> QED BY <2>4, <2>5, <2>6 DEF RackInv
<1>3. CASE Range(plugs) # Range(screen) /\ Stops("undefined")
  <2>1. edited'
    BY <1>1, <1>3 DEF RackInv, EditInv
  <2> QED BY <1>1, <1>3, <2>1, StopKeeps
<1> QED BY <1>2, <1>3 DEF load_preset

\* A knob, a list of models or a switch does no harm until a row is moved or deleted.
LEMMA UseKeeps ==
  ASSUME RackInv, program = "runs", NEW k \in 1..Len(screen), use(screen[k])
  PROVE  RackInv'
<1> DEFINE row == screen[k]
<1>1. /\ {index[row], name[row], created[row]} \ (0..Size - 1) # {}
      /\ Stops("aborted") /\ edited' = edited /\ moves' = moves
  BY DEF use
<1>2. moves' \in 0..MaxMoves
  BY <1>1 DEF RackInv, HistoryOK
<1>3. ASSUME ~edited PROVE FALSE
  <2>1. screen = activePlugins /\ Named(screen) /\ Placed(screen)
    BY <1>3 DEF RackInv, EditInv, CourseInv
  <2>2. index[row] = k - 1 /\ name[row] = k - 1 /\ created[row] = k - 1
    BY <2>1 DEF Named, Placed
  <2>3. k - 1 \in 0..Size - 1
    BY <2>1 DEF Size, RackInv, OrderOK
  <2> QED BY <1>1, <2>2, <2>3
<1> QED BY <1>1, <1>2, <1>3, StopKeeps

-----------------------------------------------------------------------------
(* Rows are moved and deleted *)

\* An order of the rows there are, with no other cards on screen.
LEMMA Reordered ==
  ASSUME OrderOK, Len(index') = Len(index), plugs' = plugs,
         activePlugins' \in Seq(Rows), Differ(activePlugins'),
         screen' \in Seq(Rows), Differ(screen'), Within(screen', screen)
  PROVE  OrderOK'
<1>1. Rows' = Rows
  BY DEF Rows
<1>2. Within(screen', plugs')
  BY WithinWithin DEF OrderOK
<1>3. Within(screen, plugs)'
  BY <1>2 DEF Within
<1>4. Differ(activePlugins)' /\ Differ(screen)'
  BY DEF Differ
<1> QED BY <1>1, <1>3, <1>4 DEF OrderOK

\* What is known of a row on screen.
LEMMA RowKnown ==
  ASSUME RackInv, NEW k \in 1..Len(screen)
  PROVE  /\ screen[k] \in Rows /\ Place(screen[k]) = k - 1
         /\ index[screen[k]] \in Int /\ name[screen[k]] \in 0..MaxRows
         /\ created[screen[k]] \in 0..MaxRows - 1
         /\ Size \in Nat /\ Size <= MaxRows /\ MaxRows \in Nat
         /\ Len(screen) \in Nat \ {0} /\ k \in Nat
<1>1. screen[k] \in Rows
  BY DEF RackInv, OrderOK
<1>2. Place(screen[k]) = k - 1
  BY PlaceIs DEF RackInv
<1>3. index[screen[k]] \in Int /\ name[screen[k]] \in 0..MaxRows /\ created[screen[k]] \in 0..MaxRows - 1
  <2>1. CopiesOK
    BY DEF RackInv
  <2> QED BY <1>1, <2>1, CopiesTyped
<1>4. Size \in Nat /\ Size <= MaxRows /\ MaxRows \in Nat
  BY RackAssumption DEF RackAssumption, RackInv, CopiesOK, OrderOK, Size
<1>5. Len(screen) \in Nat \ {0} /\ k \in Nat
  BY DEF RackInv, OrderOK
<1> QED BY <1>1, <1>2, <1>3, <1>4, <1>5

\* The history of a move.
LEMMA MoveHistory ==
  ASSUME RackInv, NEW row, Moves(row)
  PROVE  /\ edited' /\ moves' \in 0..MaxMoves
         /\ Course(row) \in {"moved", "lost"}
         /\ Course(row) # "lost" => course # "lost" /\ index[row] = Place(row)
<1>1. edited' /\ moves' \in 0..MaxMoves
  BY RackAssumption DEF RackAssumption, Moves, RackInv, HistoryOK
<1> QED BY <1>1 DEF Course

\* A function on the first numbers is a sequence.
LEMMA AsSequence ==
  ASSUME NEW S, NEW n \in Nat, NEW f \in [1..n -> S]
  PROVE  f \in Seq(S) /\ Len(f) = n
OBVIOUS

\* New names and indices for the rows there are.
LEMMA Relabelled ==
  ASSUME RackInv, name' \in [Rows -> 0..MaxRows], index' \in [Rows -> Int],
         created' = created, Size' = Size
  PROVE  CopiesOK' /\ Len(index') = Len(index)
<1>1. Len(index) \in Nat /\ Rows = 1..Len(index)
  BY DEF RackInv, CopiesOK, Rows
<1>2. name' \in Seq(0..MaxRows) /\ Len(name') = Len(index)
  BY <1>1, AsSequence
<1>3. index' \in Seq(Int) /\ Len(index') = Len(index)
  BY <1>1, AsSequence
<1> QED BY <1>2, <1>3 DEF RackInv, CopiesOK

\* What is known when two rows that are where the engine has them change places on
\* screen and in the engine, and their names with them.
LEMMA SwapNamed ==
  ASSUME RackInv, program = "runs", course # "lost", NEW n \in 1..Len(screen) - 1,
         screen' = Swapped(screen, n), activePlugins' = Swapped(activePlugins, n),
         name'[screen[n]] = n, name'[screen[n + 1]] = n - 1,
         \A r \in Rows : r # screen[n] /\ r # screen[n + 1] => name'[r] = name[r]
  PROVE  screen' = activePlugins' /\ Named(screen)'
<1>1. screen = activePlugins /\ Named(screen)
  BY DEF RackInv, CourseInv
<1>2. screen \in Seq(Rows) /\ Differ(screen) /\ Len(screen) \in Nat
  BY DEF RackInv, OrderOK
<1>3. /\ Len(screen') = Len(screen)
      /\ screen'[n] = screen[n + 1] /\ screen'[n + 1] = screen[n]
      /\ \A k \in 1..Len(screen) : k # n /\ k # n + 1 => screen'[k] = screen[k]
  BY <1>2, RowsSwapped
<1>4. ASSUME NEW k \in 1..Len(screen) PROVE name'[screen'[k]] = k - 1
  <2>1. CASE k = n
    BY <1>3, <2>1
  <2>2. CASE k = n + 1
    BY <1>3, <2>2
  <2>3. CASE k # n /\ k # n + 1
    <3>1. n \in 1..Len(screen) /\ n + 1 \in 1..Len(screen)
      BY <1>2
    <3>2. screen[k] \in Rows /\ screen[k] # screen[n] /\ screen[k] # screen[n + 1]
      BY <1>2, <2>3, <3>1 DEF Differ
    <3>3. screen'[k] = screen[k] /\ name[screen[k]] = k - 1
      BY <1>1, <1>3, <2>3 DEF Named
    <3> QED BY <3>2, <3>3
  <2> QED BY <2>1, <2>2, <2>3
<1> QED BY <1>1, <1>3, <1>4 DEF Named

\* move_down keeps the invariant.
LEMMA DownKeeps ==
  ASSUME RackInv, program = "runs", NEW k \in 1..Len(screen), move_down(screen[k])
  PROVE  RackInv'
<1> DEFINE row == screen[k]
           i == index[row]
           isLast == k - 1 = Len(screen) - 1
<1>1. /\ row \in Rows /\ Place(row) = k - 1 /\ i \in Int
      /\ Size \in Nat /\ Size <= MaxRows /\ MaxRows \in Nat
      /\ Len(screen) \in Nat \ {0} /\ k \in Nat /\ name[row] \in 0..MaxRows
  BY RowKnown
<1>2. /\ Moves(row) /\ i >= 0 /\ i < Size
      /\ IF i = Size - 1
         THEN Stops("undefined")
         ELSE /\ screen' = IF isLast THEN <<row>> \o Front(screen) ELSE Swapped(screen, k)
              /\ activePlugins' = Swapped(activePlugins, i + 1)
              /\ name' = [r \in Rows |-> IF r = row THEN i + 1
                                         ELSE IF ~isLast /\ r = screen[k + 1] THEN i
                                         ELSE name[r]]
              /\ index' = [r \in Rows |-> index[r] + (IF r = row THEN 1 ELSE 0)
                                                  - (IF r = i + 2 THEN 1 ELSE 0)]
              /\ course' = Course(row)
              /\ UNCHANGED <<plugs, created, program>>
  <2>1. (k - 1) + 1 = k /\ (k - 1) + 2 = k + 1
    BY <1>1
  <2>2. PICK p : p = Place(row) /\ p = k - 1
    BY <1>1
  <2>3. /\ Moves(row) /\ i >= 0 /\ i < Size
        /\ IF i = Size - 1
           THEN Stops("undefined")
           ELSE /\ screen' = IF p = Len(screen) - 1 THEN <<row>> \o Front(screen)
                             ELSE Swapped(screen, p + 1)
                /\ activePlugins' = Swapped(activePlugins, i + 1)
                /\ name' = [r \in Rows |-> IF r = row THEN i + 1
                                           ELSE IF ~(p = Len(screen) - 1) /\ r = screen[p + 2]
                                                THEN i ELSE name[r]]
                /\ index' = [r \in Rows |-> index[r] + (IF r = row THEN 1 ELSE 0)
                                                    - (IF r = i + 2 THEN 1 ELSE 0)]
                /\ course' = Course(row)
                /\ UNCHANGED <<plugs, created, program>>
    BY ONLY move_down(screen[k]), <2>2 DEF move_down
  <2>4. p = k - 1 /\ p + 1 = k /\ p + 2 = k + 1
    BY <1>1, <2>2
  <2> QED BY ONLY <2>3, <2>4
<1> HIDE DEF i, isLast
<1>3. /\ edited' /\ moves' \in 0..MaxMoves
      /\ Course(row) \in {"moved", "lost"}
      /\ Course(row) # "lost" => course # "lost" /\ i = Place(row)
  BY <1>2, MoveHistory DEF i
<1>4. CASE i = Size - 1
  BY <1>2, <1>3, <1>4, StopKeeps
<1>5. CASE i # Size - 1
  <2>1. /\ i + 1 \in 1..Size - 1
        /\ screen' = IF isLast THEN <<row>> \o Front(screen) ELSE Swapped(screen, k)
        /\ activePlugins' = Swapped(activePlugins, i + 1)
        /\ course' = Course(row)
        /\ plugs' = plugs /\ created' = created /\ program' = program
    BY <1>1, <1>2, <1>5
  <2>2. name' = [r \in Rows |-> IF r = row THEN i + 1
                                ELSE IF ~isLast /\ r = screen[k + 1] THEN i ELSE name[r]]
    BY <1>2, <1>5
  <2>3. index' = [r \in Rows |-> index[r] + (IF r = row THEN 1 ELSE 0)
                                        - (IF r = i + 2 THEN 1 ELSE 0)]
    BY <1>2, <1>5
  <2>4. /\ activePlugins \in Seq(Rows) /\ Differ(activePlugins)
        /\ screen \in Seq(Rows) /\ Differ(screen)
    BY DEF RackInv, OrderOK
  <2>5. /\ activePlugins' \in Seq(Rows) /\ Differ(activePlugins')
        /\ Len(activePlugins') = Len(activePlugins)
    BY <2>1, <2>4, RowsSwapped DEF Size
  <2>6. screen' \in Seq(Rows) /\ Differ(screen') /\ Within(screen', screen)
    <3>1. CASE isLast
      <4>1. k = Len(screen) /\ screen # <<>>
        BY <1>1, <3>1 DEF isLast
      <4>2. <<screen[Len(screen)]>> \o Front(screen) = screen'
        BY <2>1, <3>1, <4>1
      <4> QED BY <2>4, <4>1, <4>2, RowsTurned
    <3>2. CASE ~isLast
      <4>1. k \in 1..Len(screen) - 1
        BY <1>1, <3>2 DEF isLast
      <4> QED BY <2>1, <2>4, <3>2, <4>1, RowsSwapped
    <3> QED BY <3>1, <3>2
  <2>7. \A r \in Rows : name[r] \in 0..MaxRows /\ index[r] \in Int
    BY CopiesTyped DEF RackInv
  <2>8. name' \in [Rows -> 0..MaxRows]
    <3>1. i + 1 \in 0..MaxRows /\ i \in 0..MaxRows
      BY <1>1, <2>1
    <3> QED BY <2>2, <2>7, <3>1
  <2>9. index' \in [Rows -> Int]
    BY <2>3, <2>7
  <2>10. CopiesOK' /\ Len(index') = Len(index)
    BY <2>1, <2>5, <2>8, <2>9, Relabelled DEF Size
  <2>11. OrderOK'
    BY <2>1, <2>5, <2>6, <2>10, Reordered DEF RackInv
  <2>12. HistoryOK'
    <3>1. edited' \in BOOLEAN
      BY <1>3, Zenon
    <3> QED BY <1>3, <2>1, <3>1 DEF RackInv, HistoryOK
  <2>13. ASSUME course' # "lost" PROVE screen' = activePlugins' /\ Named(screen)'
    <3>1. course # "lost" /\ i = k - 1 /\ screen = activePlugins
      BY <1>1, <1>3, <2>1, <2>13 DEF RackInv, CourseInv
    <3>2. k \in 1..Len(screen) - 1 /\ ~isLast /\ k + 1 \in 1..Len(screen)
      BY <1>1, <2>1, <3>1 DEF Size, isLast
    <3>3. screen[k + 1] \in Rows /\ screen[k + 1] # row
      BY <1>1, <2>4, <3>2 DEF Differ
    <3>4. name'[row] = k /\ name'[screen[k + 1]] = k - 1
      BY <1>1, <2>2, <3>1, <3>2, <3>3
    <3>5. \A r \in Rows : r # row /\ r # screen[k + 1] => name'[r] = name[r]
      BY <2>2
    <3>6. screen' = Swapped(screen, k) /\ activePlugins' = Swapped(activePlugins, k)
      BY <1>1, <2>1, <3>1, <3>2
    <3> QED BY <3>1, <3>2, <3>4, <3>5, <3>6, SwapNamed
  <2>14. CourseInv' /\ EditInv'
    BY <1>3, <2>1, <2>13 DEF CourseInv, EditInv
  <2> QED BY <2>10, <2>11, <2>12, <2>14 DEF RackInv
<1> QED BY <1>4, <1>5

\* move_up keeps the invariant.
LEMMA UpKeeps ==
  ASSUME RackInv, program = "runs", NEW k \in 1..Len(screen), move_up(screen[k])
  PROVE  RackInv'
<1> DEFINE row == screen[k]
           i == index[row]
<1>1. /\ row \in Rows /\ Place(row) = k - 1 /\ i \in Int
      /\ Size \in Nat /\ Size <= MaxRows /\ MaxRows \in Nat
      /\ Len(screen) \in Nat \ {0} /\ k \in Nat /\ name[row] \in 0..MaxRows
  BY RowKnown
<1>2. /\ Moves(row) /\ i # 0
      /\ IF i \notin 0..Size - 1
         THEN Stops("undefined")
         ELSE /\ screen' = IF k - 1 = 0 THEN screen ELSE Swapped(screen, k - 1)
              /\ activePlugins' = Swapped(activePlugins, i)
              /\ name' = [r \in Rows |-> IF r = row THEN i - 1
                                         ELSE IF k - 1 > 0 /\ r = screen[k - 1] THEN i
                                         ELSE name[r]]
              /\ IF i + 2 \in Rows
                 THEN /\ index' = [r \in Rows |-> index[r] - (IF r = row THEN 1 ELSE 0)
                                                          + (IF r = i + 2 THEN 1 ELSE 0)]
                      /\ UNCHANGED program
                 ELSE program' = "aborted" /\ UNCHANGED index
              /\ course' = Course(row)
              /\ UNCHANGED <<plugs, created>>
  BY <1>1 DEF move_up
<1> HIDE DEF i
<1>3. /\ edited' /\ moves' \in 0..MaxMoves
      /\ Course(row) \in {"moved", "lost"}
      /\ Course(row) # "lost" => course # "lost" /\ i = Place(row)
  BY <1>2, MoveHistory DEF i
<1>4. CASE i \notin 0..Size - 1
  BY <1>2, <1>3, <1>4, StopKeeps
<1>5. CASE i \in 0..Size - 1
  <2>1. /\ i \in 1..Size - 1
        /\ screen' = IF k - 1 = 0 THEN screen ELSE Swapped(screen, k - 1)
        /\ activePlugins' = Swapped(activePlugins, i)
        /\ course' = Course(row)
        /\ plugs' = plugs /\ created' = created
    BY <1>1, <1>2, <1>5
  <2>2. name' = [r \in Rows |-> IF r = row THEN i - 1
                                ELSE IF k - 1 > 0 /\ r = screen[k - 1] THEN i ELSE name[r]]
    BY <1>2, <1>5
  <2>3. \/ /\ index' = [r \in Rows |-> index[r] - (IF r = row THEN 1 ELSE 0)
                                             + (IF r = i + 2 THEN 1 ELSE 0)]
           /\ program' = program
        \/ index' = index /\ program' = "aborted"
    BY <1>2, <1>5
  <2>4. /\ activePlugins \in Seq(Rows) /\ Differ(activePlugins)
        /\ screen \in Seq(Rows) /\ Differ(screen)
    BY DEF RackInv, OrderOK
  <2>5. /\ activePlugins' \in Seq(Rows) /\ Differ(activePlugins')
        /\ Len(activePlugins') = Len(activePlugins)
    BY <2>1, <2>4, RowsSwapped DEF Size
  <2>6. screen' \in Seq(Rows) /\ Differ(screen') /\ Within(screen', screen)
    <3>1. CASE k - 1 = 0
      BY <2>1, <2>4, <3>1 DEF Within
    <3>2. CASE k - 1 # 0
      <4>1. k - 1 \in 1..Len(screen) - 1
        BY <1>1, <3>2
      <4> QED BY <2>1, <2>4, <3>2, <4>1, RowsSwapped
    <3> QED BY <3>1, <3>2
  <2>7. \A r \in Rows : name[r] \in 0..MaxRows /\ index[r] \in Int
    BY CopiesTyped DEF RackInv
  <2>8. name' \in [Rows -> 0..MaxRows]
    <3>1. i - 1 \in 0..MaxRows /\ i \in 0..MaxRows
      BY <1>1, <2>1
    <3> QED BY <2>2, <2>7, <3>1
  <2>9. index' \in [Rows -> Int]
    <3>1. index \in [Rows -> Int]
      BY CopiesTyped DEF RackInv
    <3> QED BY <2>3, <2>7, <3>1
  <2>10. CopiesOK' /\ Len(index') = Len(index)
    BY <2>1, <2>5, <2>8, <2>9, Relabelled DEF Size
  <2>11. OrderOK'
    BY <2>1, <2>5, <2>6, <2>10, Reordered DEF RackInv
  <2>12. HistoryOK'
    <3>1. edited' \in BOOLEAN
      BY <1>3, Zenon
    <3> QED BY <1>3, <2>1, <2>3, <3>1 DEF RackInv, HistoryOK
  <2>13. ASSUME course' # "lost" PROVE screen' = activePlugins' /\ Named(screen)'
    <3>1. course # "lost" /\ i = k - 1 /\ screen = activePlugins
      BY <1>1, <1>3, <2>1, <2>13 DEF RackInv, CourseInv
    <3>2. k - 1 \in 1..Len(screen) - 1 /\ k - 1 # 0 /\ k - 1 > 0 /\ k - 1 \in 1..Len(screen)
      BY <1>1, <2>1, <3>1
    <3>3. screen[k - 1] \in Rows /\ screen[k - 1] # row
      <4>1. k - 1 # k
        BY <1>1
      <4> QED BY <2>4, <3>2, <4>1 DEF Differ
    <3>4. name'[row] = (k - 1) - 1 /\ name'[screen[k - 1]] = k - 1
      BY <1>1, <2>2, <3>1, <3>2, <3>3
    <3>5. \A r \in Rows : r # row /\ r # screen[k - 1] => name'[r] = name[r]
      BY <2>2
    <3>6. screen' = Swapped(screen, k - 1) /\ activePlugins' = Swapped(activePlugins, k - 1)
      BY <1>1, <2>1, <3>1, <3>2
    <3>7. (k - 1) + 1 = k
      BY <1>1
    <3> QED BY <3>1, <3>2, <3>4, <3>5, <3>6, <3>7, SwapNamed
  <2>14. CourseInv' /\ EditInv'
    BY <1>3, <2>1, <2>13 DEF CourseInv, EditInv
  <2> QED BY <2>10, <2>11, <2>12, <2>14 DEF RackInv
<1> QED BY <1>4, <1>5

\* delete keeps the invariant.
LEMMA DeleteKeeps ==
  ASSUME RackInv, program = "runs", NEW k \in 1..Len(screen), delete(screen[k])
  PROVE  RackInv'
<1> DEFINE row == screen[k]
           i == created[row]
<1>1. /\ row \in Rows /\ Place(row) = k - 1 /\ i \in 0..MaxRows - 1
      /\ Size \in Nat /\ Size <= MaxRows /\ MaxRows \in Nat
      /\ Len(screen) \in Nat \ {0} /\ k \in Nat
  BY RowKnown
<1>2. /\ edited' = TRUE /\ moves' = moves
      /\ IF i >= Size
         THEN Stops("undefined")
         ELSE /\ screen' = RemoveAt(screen, k)
              /\ activePlugins' = RemoveAt(activePlugins, i + 1)
              /\ course' = IF course # "lost" /\ row = Last(screen) /\ i = k - 1
                           THEN course ELSE "lost"
              /\ UNCHANGED <<plugs, rowVars, program>>
  <2>1. (k - 1) + 1 = k
    BY <1>1
  <2> QED BY <1>1, <2>1 DEF delete
<1> HIDE DEF i
<1>3. edited' /\ moves' \in 0..MaxMoves
  BY <1>2 DEF RackInv, HistoryOK
<1>4. CASE i >= Size
  BY <1>2, <1>3, <1>4, StopKeeps
<1>5. CASE ~(i >= Size)
  <2>1. /\ i + 1 \in 1..Size
        /\ screen' = RemoveAt(screen, k)
        /\ activePlugins' = RemoveAt(activePlugins, i + 1)
        /\ course' = IF course # "lost" /\ row = Last(screen) /\ i = k - 1
                     THEN course ELSE "lost"
        /\ plugs' = plugs /\ program' = program
        /\ index' = index /\ name' = name /\ created' = created
    BY <1>1, <1>2, <1>5 DEF rowVars
  <2>2. /\ activePlugins \in Seq(Rows) /\ Differ(activePlugins)
        /\ screen \in Seq(Rows) /\ Differ(screen)
    BY DEF RackInv, OrderOK
  <2>3. /\ activePlugins' \in Seq(Rows) /\ Differ(activePlugins')
        /\ Len(activePlugins') = Len(activePlugins) - 1
    BY <2>1, <2>2, RowRemoved DEF Size
  <2>4. /\ screen' \in Seq(Rows) /\ Differ(screen') /\ Within(screen', screen)
        /\ Len(screen') = Len(screen) - 1
        /\ k = Len(screen) => \A j \in 1..Len(screen) - 1 : screen'[j] = screen[j]
    BY <2>1, <2>2, RowRemoved
  <2>5. CopiesOK'
    BY <1>1, <2>1, <2>3 DEF RackInv, CopiesOK, Size
  <2>6. OrderOK'
    BY <2>1, <2>3, <2>4, Reordered DEF RackInv
  <2>7. HistoryOK'
    <3>1. edited' \in BOOLEAN
      BY <1>2, Zenon
    <3> QED BY <1>3, <2>1, <3>1 DEF RackInv, HistoryOK
  <2>8. ASSUME course' # "lost"
        PROVE  course' = course /\ k = Len(screen) /\ i + 1 = k
    <3>1. course' = course /\ course # "lost" /\ row = screen[Len(screen)] /\ i = k - 1
      BY <2>1, <2>8 DEF Last
    <3>2. Len(screen) \in 1..Len(screen)
      BY <1>1
    <3>3. k = Len(screen)
      BY <2>2, <3>1, <3>2 DEF Differ
    <3> QED BY <1>1, <3>1, <3>3
  <2>9. ASSUME program' = "runs", course' # "lost"
        PROVE  screen' = activePlugins' /\ Named(screen)'
    <3>1. screen = activePlugins /\ Named(screen)
      BY <2>8, <2>9 DEF RackInv, CourseInv
    <3>2. screen' = activePlugins'
      BY <2>1, <2>8, <2>9, <3>1
    <3>3. ASSUME NEW j \in 1..Len(screen') PROVE name'[screen'[j]] = j - 1
      <4>1. j \in 1..Len(screen) - 1 /\ j \in 1..Len(screen)
        BY <1>1, <2>4
      <4> QED BY <2>1, <2>4, <2>8, <2>9, <3>1, <4>1 DEF Named
    <3> QED BY <3>2, <3>3 DEF Named
  <2>10. ASSUME program' = "runs", course' = "kept" PROVE Placed(screen)'
    <3>1. Placed(screen)
      BY <2>8, <2>10 DEF RackInv, CourseInv
    <3>2. ASSUME NEW j \in 1..Len(screen')
          PROVE  index'[screen'[j]] = j - 1 /\ created'[screen'[j]] = j - 1
      <4>1. j \in 1..Len(screen) - 1 /\ j \in 1..Len(screen)
        BY <1>1, <2>4
      <4> QED BY <2>1, <2>4, <2>8, <2>10, <3>1, <4>1 DEF Placed
    <3> QED BY <3>2 DEF Placed
  <2>11. CourseInv' /\ EditInv'
    BY <1>3, <2>9, <2>10 DEF CourseInv, EditInv
  <2> QED BY <2>5, <2>6, <2>7, <2>11 DEF RackInv
<1> QED BY <1>4, <1>5

-----------------------------------------------------------------------------
(* The theorems *)

\* Every handler keeps the invariant.
LEMMA RackStep == RackInv /\ [Next]_vars => RackInv'
<1> SUFFICES ASSUME RackInv, [Next]_vars PROVE RackInv'
  OBVIOUS
<1>1. CASE UNCHANGED vars
  BY <1>1 DEF vars, rowVars, RackInv, CopiesOK, OrderOK, HistoryOK, CourseInv, EditInv,
              Size, Rows, Differ, Within, Named, Placed
<1> QED BY <1>1, RackActions, AddKeeps, LoadKeeps, DownKeeps, UpKeeps, DeleteKeeps, UseKeeps

LEMMA RackKept == Spec => []RackInv
BY RackInit, RackStep, PTL DEF Spec

\* The variables keep their types: the rows on screen and in the engine are rows
\* there are, none twice, and clear knows all that are on screen.
THEOREM RackTypes == Spec => []TypeOK
<1>1. ASSUME RackInv PROVE TypeOK
  <2>1. Len(index) \in 0..MaxRows
    BY <1>1, RackAssumption DEF RackAssumption, RackInv, CopiesOK
  <2>2. /\ index \in [Rows -> Int] /\ name \in [Rows -> 0..MaxRows]
        /\ created \in [Rows -> 0..MaxRows - 1]
    BY <1>1, CopiesTyped DEF RackInv
  <2>3. /\ activePlugins \in Seq(Rows) /\ IsInjective(activePlugins)
        /\ screen \in Seq(Rows) /\ IsInjective(screen)
        /\ plugs \in Seq(Rows)
    <3>1. activePlugins \in Seq(Rows) /\ Differ(activePlugins)
          /\ screen \in Seq(Rows) /\ Differ(screen) /\ plugs \in Seq(Rows)
      BY <1>1 DEF RackInv, OrderOK
    <3>2. \A s \in Seq(Rows) : Differ(s) => IsInjective(s)
      BY DEF Differ, IsInjective
    <3> QED BY <3>1, <3>2
  <2>4. Range(screen) \subseteq Range(plugs)
    BY <1>1, <2>3 DEF RackInv, OrderOK, Within, Range
  <2> QED BY <1>1, <2>1, <2>2, <2>3, <2>4 DEF TypeOK, RackInv, HistoryOK
<1> QED BY <1>1, RackKept, PTL

\* Until the course is left every copy of a row's position is right, however often
\* the rack was cleared before (rack.cc:296-300).
THEOREM RowsRight == Spec => []RowsDriveTheirPlugins
<1>1. RackInv => RowsDriveTheirPlugins
  BY DEF RackInv, CourseInv, Named, Placed, RowsDriveTheirPlugins
<1> QED BY <1>1, RackKept, PTL

\* Rows moved by their right index keep the screen, the engine and the names in
\* step (rack.cc:198-206, 228-238).
THEOREM KnobsRight == Spec => []KnobsFollowMoves
<1>1. RackInv => KnobsFollowMoves
  BY DEF RackInv, CourseInv, Named, KnobsFollowMoves
<1> QED BY <1>1, RackKept, PTL

\* Without a row moved or deleted no handler leaves the rack's vectors or uses a card
\* that is gone, however often plugins are added, presets loaded and the rack cleared.
THEOREM AddingIsSafe == Spec => []OnlyEditsEndIt
<1>1. RackInv => OnlyEditsEndIt
  BY DEF RackInv, EditInv, OnlyEditsEndIt
<1> QED BY <1>1, RackKept, PTL

-----------------------------------------------------------------------------
(* The values of the controls *)

\* A control as it is made and as its slider leaves it: in the range of its port,
\* and what it plays is what its slider shows or the default.
Made(control) ==
  /\ control.lo = Lo /\ control.hi \in {Lo, Hi}
  /\ control.shown \in control.lo..control.hi
  /\ control.port = "controlIn" =>
       /\ control.hi = Hi
       /\ control.def \in Lo..Hi
       /\ control.shown # control.def => control.def = Default
  /\ control.port = "atom" => control.type = "LV2_ATOM"

Plugins ==
  {plugin \in [kind : Kinds, controls : Seq(Controls)] :
     \A c \in 1..Len(plugin.controls) : Made(plugin.controls[c])}

\* What is saved: values in range, and no name.
Values == Seq([name : {NoName}, values : Seq(Lo..Hi)])

\* What a new plugin plays once an entry of a preset has been loaded.
PlaysEntry(plugin, entry) ==
  /\ plugin.kind = entry.name
  /\ \A c \in 1..Len(plugin.controls) :
       inStep(plugin, c) =>
         LET control == plugin.controls[c]
             k == place(plugin, c)
         IN IF k \in DOMAIN entry.values
            THEN /\ control.shown = inRange(entry.values[k])
                 /\ control.def \in {control.shown, Default}
            ELSE control.def = Default

LoadedInv ==
  loaded # Nothing /\ running =>
    /\ Len(rack) = Len(found(loaded))
    /\ \A i \in 1..Len(rack) : PlaysEntry(rack[i], found(loaded)[i])

ControlsInv ==
  /\ rack \in Seq(Plugins) /\ Len(rack) <= MaxPlugins
  /\ saved = Nothing \/ saved \in Values
  /\ running \in BOOLEAN
  /\ loaded \in Library \cup {Nothing}
  /\ LoadedInv

LEMMA RangeIs == Lo \in Int /\ Hi \in Int /\ Default \in Lo..Hi /\ Lo <= Hi /\ Lo..Hi \subseteq Int
BY ControlsAssumption

\* The slider takes the nearest value of its range, and only if that is another
\* one than it shows does the control take it too.
LEMMA ValueSet ==
  ASSUME NEW control \in Controls, Made(control), NEW v \in Int,
         NEW r, r = setValue(control, v)
  PROVE  /\ r \in Controls /\ Made(r) /\ r.port = control.port /\ r.type = control.type
         /\ control.port = "controlIn" => /\ r.shown = inRange(v)
                                          /\ r.def \in {r.shown, control.def}
<1> DEFINE value == IF v < control.lo THEN control.lo ELSE IF v > control.hi THEN control.hi ELSE v
<1>1. /\ control.lo = Lo /\ control.hi \in {Lo, Hi} /\ control.shown \in Int
      /\ control.lo \in Int /\ control.hi \in Int
  BY DEF Made, Controls
<1>2. value \in control.lo..control.hi /\ value \in Int
  BY <1>1, RangeIs
<1>3. control.port = "controlIn" => value = inRange(v)
  BY <1>1 DEF Made, inRange
<1>4. r = IF value = control.shown THEN control
          ELSE [control EXCEPT !.shown = value, !.def = value]
  BY DEF setValue
<1> HIDE DEF value
<1>5. CASE value = control.shown
  BY <1>3, <1>4, <1>5
<1>6. CASE value # control.shown
  <2>1. r = [control EXCEPT !.shown = value, !.def = value]
    BY <1>4, <1>6
  <2>2. /\ r \in Controls /\ r.port = control.port /\ r.type = control.type
        /\ r.lo = control.lo /\ r.hi = control.hi /\ r.shown = value /\ r.def = value
    BY <2>1, <1>2 DEF Controls
  <2>3. Made(r)
    BY <2>2, <1>1, <1>2 DEF Made
  <2> QED BY <2>2, <2>3, <1>3
<1> QED BY <1>5, <1>6

\* The controls that are made for a port.
LEMMA NewControl ==
  ASSUME NEW port \in {"controlIn", "atom"}, NEW r \in newControls(port)
  PROVE  r \in Controls /\ Made(r) /\ r.port = port /\ r.def = Default
<1>1. Garbage \subseteq {"value", "ATOM", "LV2_ATOM"} /\ Default \in Int
  BY RangeIs, ControlsAssumption
<1>2. CASE port = "controlIn"
  <2>1. r \in [port : {port}, type : Garbage, lo : {Lo}, hi : {Hi},
               def : {Default}, shown : Lo..Hi]
    BY <1>2 DEF newControls
  <2>2. /\ r.port = port /\ r.lo = Lo /\ r.hi = Hi /\ r.def = Default /\ r.shown \in Lo..Hi
        /\ r \in Controls
    BY <2>1, <1>1, <1>2, RangeIs DEF Controls
  <2> QED BY <2>2, <1>2, RangeIs DEF Made
<1>3. CASE port = "atom"
  <2>1. PICK hi \in {Lo, Hi}, shown \in {Lo} :
          r = [port |-> port, type |-> "LV2_ATOM", lo |-> Lo, hi |-> hi, def |-> Default,
               shown |-> shown]
    BY <1>3 DEF newControls
  <2>2. /\ r.port = port /\ r.lo = Lo /\ r.hi = hi /\ r.def = Default /\ r.shown = Lo
        /\ r.type = "LV2_ATOM" /\ r \in Controls
    BY <2>1, <1>1, <1>3, RangeIs DEF Controls
  <2> QED BY <2>2, <1>3, RangeIs DEF Made
<1> QED BY <1>2, <1>3

\* A plugin that is made plays the defaults.
LEMMA NewPlugin ==
  ASSUME NEW kind \in Kinds, NEW plugin \in newPlugins(kind)
  PROVE  /\ plugin \in Plugins /\ plugin.kind = kind
         /\ \A c \in 1..Len(plugin.controls) : plugin.controls[c].def = Default
<1> DEFINE ports == controlPorts(kind)
           some == UNION {newControls(ports[c]) : c \in DOMAIN ports}
<1>1. Ports[kind] \in Seq(PortTypes)
  BY ControlsAssumption
<1>2. /\ ports \in Seq(PortTypes)
      /\ \A c \in 1..Len(ports) : ports[c] \in {"controlIn", "atom"}
  BY <1>1, KeptTyped, KeptIsIn DEF controlPorts
<1>3. PICK cs \in [DOMAIN ports -> some] :
        /\ \A c \in DOMAIN ports : cs[c] \in newControls(ports[c])
        /\ plugin = [kind |-> kind, controls |-> cs]
  BY DEF newPlugins
<1> HIDE DEF ports, some
<1>4. \A c \in 1..Len(ports) : cs[c] \in Controls /\ Made(cs[c]) /\ cs[c].def = Default
  BY <1>2, <1>3, NewControl
<1>5. DOMAIN ports = 1..Len(ports) /\ Len(ports) \in Nat
  BY <1>2
<1>6. cs \in Seq(Controls) /\ Len(cs) = Len(ports)
  <2>1. cs \in [1..Len(ports) -> some]
    BY <1>3, <1>5
  <2>2. cs \in [1..Len(ports) -> Controls]
    BY ONLY <2>1, <1>4
  <2> QED BY ONLY <2>2, <1>5
<1>7. plugin.kind = kind /\ plugin.controls = cs /\ plugin \in [kind : Kinds, controls : Seq(Controls)]
  BY <1>3, <1>6
<1> QED BY <1>4, <1>6, <1>7 DEF Plugins

\* Sliders stand in the order of their controls.
LEMMA SlidersOf ==
  ASSUME NEW plugin \in Plugins
  PROVE  /\ sliders(plugin) \in Seq(1..Len(plugin.controls))
         /\ \A j, k \in 1..Len(sliders(plugin)) : sliders(plugin)[j] = sliders(plugin)[k] => j = k
         /\ \A c \in 1..Len(plugin.controls) :
              inStep(plugin, c) => c <= Len(sliders(plugin)) /\ sliders(plugin)[c] = c
<1> DEFINE n == Len(plugin.controls)
           places == [c \in DOMAIN plugin.controls |-> c]
           shown == {c \in DOMAIN plugin.controls : plugin.controls[c].type # "ATOM"}
           s == sliders(plugin)
<1>1. n \in Nat /\ DOMAIN plugin.controls = 1..n
  BY DEF Plugins
<1>2. places = [c \in 1..n |-> c]
  BY <1>1
<1>3. s = Kept(places, shown)
  BY DEF sliders
<1>4. shown = {c \in 1..n : plugin.controls[c].type # "ATOM"}
  BY <1>1
<1> HIDE DEF n, places, shown, s
<1>5. places \in Seq(1..n) /\ places \in Seq(Int) /\ Len(places) = n /\ \A c \in 1..n : places[c] = c
  BY ONLY <1>1, <1>2
<1>6. s \in Seq(1..n) /\ s \in Seq(Int)
  BY <1>3, <1>5, KeptTyped
<1>7. \A j, k \in 1..Len(s) : j < k => s[j] < s[k]
  <2>1. \A j, k \in 1..Len(places) : j < k => places[j] < places[k]
    BY <1>5
  <2> QED BY <1>3, <1>5, <2>1, KeptIncreases
<1>8. \A j, k \in 1..Len(s) : s[j] = s[k] => j = k
  BY <1>6, <1>7
<1>9. ASSUME NEW c \in 1..n, inStep(plugin, c) PROVE c <= Len(s) /\ s[c] = c
  <2>1. \A d \in 1..c : places[d] \in shown
    <3>1. \A d \in 1..c : d \in 1..n /\ plugin.controls[d].type # "ATOM"
      BY <1>1, <1>9 DEF inStep
    <3> QED BY <1>4, <1>5, <3>1
  <2>2. c \in 0..Len(places) /\ c \in 1..c
    BY <1>1, <1>5
  <2>3. c <= Len(s) /\ \A d \in 1..c : s[d] = places[d]
    BY ONLY <1>3, <1>5, <2>1, <2>2, KeptPrefix
  <2> QED BY <1>5, <2>2, <2>3
<1> QED BY <1>6, <1>8, <1>9 DEF n, s

\* The values given to a plugin: its controls stay what they are and in their
\* range, and one in step takes its own value if there is one.
LEMMA ValuesLoaded ==
  ASSUME NEW plugin \in Plugins, NEW values \in Seq(Int), NEW r, r = loadValues(plugin, values)
  PROVE  /\ r \in Plugins /\ r.kind = plugin.kind
         /\ Len(r.controls) = Len(plugin.controls)
         /\ \A c \in 1..Len(plugin.controls) :
              /\ r.controls[c].port = plugin.controls[c].port
              /\ r.controls[c].type = plugin.controls[c].type
              /\ inStep(plugin, c) =>
                   r.controls[c] = IF c \in DOMAIN values
                                   THEN setValue(plugin.controls[c], values[c])
                                   ELSE plugin.controls[c]
<1> DEFINE n == Len(plugin.controls)
           old == plugin.controls
           s == sliders(plugin)
           given(c) == {i \in DOMAIN s \cap DOMAIN values : s[i] = c}
           new(c) == IF given(c) = {} THEN old[c]
                     ELSE setValue(old[c], values[CHOOSE i \in given(c) : TRUE])
           cs == [c \in 1..n |-> new(c)]
<1>1. /\ n \in Nat /\ DOMAIN old = 1..n /\ old \in Seq(Controls)
      /\ \A c \in 1..n : old[c] \in Controls /\ Made(old[c])
      /\ plugin \in [kind : Kinds, controls : Seq(Controls)]
  BY DEF Plugins
<1>2. r = [plugin EXCEPT !.controls = cs]
  BY <1>1 DEF loadValues
<1>3. /\ s \in Seq(1..n)
      /\ \A j, k \in 1..Len(s) : s[j] = s[k] => j = k
      /\ \A c \in 1..n : inStep(plugin, c) => c <= Len(s) /\ s[c] = c
  BY SlidersOf
<1>4. /\ DOMAIN s = 1..Len(s) /\ DOMAIN values = 1..Len(values)
      /\ \A i \in DOMAIN values : values[i] \in Int
      /\ Len(s) \in Nat /\ Len(values) \in Nat
  BY <1>3
<1> HIDE DEF n, old, s
<1>5. ASSUME NEW c \in 1..n
      PROVE  new(c) \in Controls /\ Made(new(c)) /\ new(c).port = old[c].port /\ new(c).type = old[c].type
  <2>1. CASE given(c) = {}
    <3>1. new(c) = old[c]
      BY <2>1
    <3> QED BY <1>1, <3>1
  <2>2. CASE given(c) # {}
    <3>1. (CHOOSE i \in given(c) : TRUE) \in given(c)
      BY <2>2
    <3>2. PICK v \in Int : new(c) = setValue(old[c], v)
      BY <1>4, <2>2, <3>1
    <3>3. PICK w, control : w = new(c) /\ control = old[c]
      OBVIOUS
    <3>4. v \in Int /\ control \in Controls /\ Made(control) /\ w = setValue(control, v)
      BY <1>1, <3>2, <3>3
    <3>5. w \in Controls /\ Made(w) /\ w.port = control.port /\ w.type = control.type
      BY ONLY <3>4, ValueSet
    <3> HIDE DEF new
    <3> QED BY ONLY <3>3, <3>5
  <2> QED BY <2>1, <2>2
<1>6. ASSUME NEW c \in 1..n, inStep(plugin, c)
      PROVE  new(c) = IF c \in DOMAIN values THEN setValue(old[c], values[c]) ELSE old[c]
  <2>1. c \in 1..Len(s) /\ s[c] = c
    BY <1>1, <1>3, <1>4, <1>6
  <2>2. \A i \in given(c) : i = c
    BY <1>3, <1>4, <2>1
  <2>3. CASE c \in DOMAIN values
    <3>1. c \in given(c)
      BY <1>4, <2>1, <2>3
    <3>2. (CHOOSE i \in given(c) : TRUE) = c /\ given(c) # {}
      BY <2>2, <3>1
    <3> HIDE DEF given
    <3> QED BY <2>3, <3>2
  <2>4. CASE c \notin DOMAIN values
    <3>1. given(c) = {}
      BY <2>2, <2>4
    <3> HIDE DEF given
    <3> QED BY <2>4, <3>1
  <2> QED BY <2>3, <2>4
<1> HIDE DEF new
<1>7. cs \in Seq(Controls) /\ Len(cs) = n /\ \A c \in 1..n : cs[c] = new(c)
  BY ONLY <1>1, <1>5
<1> HIDE DEF cs
<1>8. r.kind = plugin.kind /\ r.controls = cs /\ r \in [kind : Kinds, controls : Seq(Controls)]
  BY ONLY <1>1, <1>2, <1>7
<1>9. r \in Plugins
  BY <1>5, <1>7, <1>8 DEF Plugins
<1> QED BY <1>5, <1>6, <1>7, <1>8, <1>9 DEF n, old

\* In step every control has its own place among those of its kind.
LEMMA PlaceInStep ==
  ASSUME NEW plugin, NEW c \in Nat, inStep(plugin, c)
  PROVE  place(plugin, c) = c
<1>1. {d \in 1..c : plugin.controls[d].port = "controlIn"} = 1..c
  BY DEF inStep
<1>2. Cardinality(1..c) = c
  BY FS_Interval
<1> QED BY <1>1, <1>2 DEF place

\* A new plugin plays the entry that is loaded into it.
LEMMA EntryLoaded ==
  ASSUME NEW plugin \in Plugins, NEW entry, entry.values \in Seq(Int),
         plugin.kind = entry.name,
         \A c \in 1..Len(plugin.controls) : plugin.controls[c].def = Default,
         NEW r, r = loadValues(plugin, entry.values)
  PROVE  r \in Plugins /\ PlaysEntry(r, entry)
<1> DEFINE values == entry.values
<1>1. /\ r \in Plugins /\ r.kind = plugin.kind
      /\ Len(r.controls) = Len(plugin.controls)
      /\ \A c \in 1..Len(plugin.controls) :
           /\ r.controls[c].port = plugin.controls[c].port
           /\ r.controls[c].type = plugin.controls[c].type
           /\ inStep(plugin, c) =>
                r.controls[c] = IF c \in DOMAIN values
                                THEN setValue(plugin.controls[c], values[c])
                                ELSE plugin.controls[c]
  BY ValuesLoaded
<1>2. ASSUME NEW c \in 1..Len(r.controls), inStep(r, c)
      PROVE  IF place(r, c) \in DOMAIN values
             THEN /\ r.controls[c].shown = inRange(values[place(r, c)])
                  /\ r.controls[c].def \in {r.controls[c].shown, Default}
             ELSE r.controls[c].def = Default
  <2>1. c \in Nat /\ c \in 1..Len(plugin.controls) /\ c \in 1..c /\ Len(plugin.controls) \in Nat
    BY <1>1 DEF Plugins
  <2>2. place(r, c) = c
    BY <1>2, <2>1, PlaceInStep
  <2>3. inStep(plugin, c)
    <3>1. \A d \in 1..c : d \in 1..Len(plugin.controls)
      BY <2>1
    <3> QED BY <1>1, <1>2, <3>1 DEF inStep
  <2>4. /\ plugin.controls[c] \in Controls /\ Made(plugin.controls[c])
        /\ plugin.controls[c].port = "controlIn" /\ plugin.controls[c].def = Default
    BY <2>1, <2>3 DEF Plugins, inStep
  <2>5. CASE c \in DOMAIN values
    <3>1. values[c] \in Int /\ r.controls[c] = setValue(plugin.controls[c], values[c])
      BY <1>1, <2>1, <2>3, <2>5
    <3>2. /\ r.controls[c].shown = inRange(values[c])
          /\ r.controls[c].def \in {r.controls[c].shown, plugin.controls[c].def}
      BY <2>4, <3>1, ValueSet
    <3> QED BY <2>2, <2>4, <2>5, <3>2
  <2>6. CASE c \notin DOMAIN values
    BY <1>1, <2>1, <2>2, <2>3, <2>4, <2>6
  <2> QED BY <2>5, <2>6
<1> QED BY <1>1, <1>2 DEF PlaysEntry

\* A preset is loaded with a plugin for every entry whose name is known.
LEMMA PresetLoaded ==
  ASSUME NEW names, NEW preset \in Seq([name : names, values : Seq(Int)]),
         loadPlugins(preset)
  PROVE  /\ rack' \in Seq(Plugins) /\ Len(rack') <= MaxPlugins
         /\ saved' = saved /\ running' \in BOOLEAN
         /\ Len(rack') = Len(found(preset))
         /\ \A i \in 1..Len(rack') : PlaysEntry(rack'[i], found(preset)[i])
<1> DEFINE entries == found(preset)
           some == UNION {newPlugins(entries[i].name) : i \in DOMAIN entries}
           E == [name : names, values : Seq(Int)]
           known == {entry \in Range(preset) : entry.name \in Kinds}
<1>1. entries \in Seq(E) /\ \A i \in 1..Len(entries) : entries[i] \in known
  <2>1. PICK A, S : A = E /\ S = known
    OBVIOUS
  <2>2. preset \in Seq(A) /\ entries = Kept(preset, S)
    BY <2>1 DEF found
  <2>3. entries \in Seq(A) /\ \A i \in 1..Len(entries) : entries[i] \in S
    BY ONLY <2>2, KeptTyped, KeptIsIn
  <2> QED BY <2>1, <2>3
<1>2. PICK new \in [DOMAIN entries -> some] :
        /\ \A i \in DOMAIN entries : new[i].kind = entries[i].name
        /\ rack' = [i \in DOMAIN entries |-> loadValues(new[i], entries[i].values)]
        /\ running' = \A i \in DOMAIN entries : ~diesOf(new[i], rack'[i])
  BY DEF loadPlugins
<1>3. Len(entries) <= MaxPlugins /\ saved' = saved
  BY DEF loadPlugins
<1>4. running' \in BOOLEAN
  <2>1. (\A i \in DOMAIN entries : ~diesOf(new[i], rack'[i])) \in BOOLEAN
    OBVIOUS
  <2> HIDE DEF entries
  <2> QED BY <1>2, <2>1, Zenon
<1> HIDE DEF entries, E
<1>5. DOMAIN entries = 1..Len(entries) /\ Len(entries) \in Nat
      /\ \A i \in 1..Len(entries) : entries[i].name \in Kinds /\ entries[i].values \in Seq(Int)
  <2>1. DOMAIN entries = 1..Len(entries) /\ Len(entries) \in Nat
        /\ \A i \in 1..Len(entries) : entries[i] \in E
    BY ONLY <1>1
  <2>2. \A e \in E : e.values \in Seq(Int)
    BY DEF E
  <2>3. \A e \in known : e.name \in Kinds
    OBVIOUS
  <2> HIDE DEF known
  <2> QED BY ONLY <1>1, <2>1, <2>2, <2>3
<1>6. ASSUME NEW i \in 1..Len(entries)
      PROVE  /\ new[i] \in Plugins /\ new[i].kind = entries[i].name
             /\ \A c \in 1..Len(new[i].controls) : new[i].controls[c].def = Default
  <2>1. PICK j \in 1..Len(entries) : new[i] \in newPlugins(entries[j].name)
    BY <1>2, <1>5
  <2>2. new[i].kind = entries[i].name
    BY <1>2, <1>5
  <2> QED BY <1>5, <2>1, <2>2, NewPlugin
<1>7. PICK loads : loads = rack'
  OBVIOUS
<1>8. ASSUME NEW i \in 1..Len(entries)
      PROVE  loads[i] \in Plugins /\ PlaysEntry(loads[i], entries[i])
  <2>1. loads[i] = loadValues(new[i], entries[i].values)
    BY <1>2, <1>5, <1>7
  <2> QED BY ONLY i \in 1..Len(entries), <1>5, <1>6, <2>1, EntryLoaded
<1>9. loads \in Seq(Plugins) /\ Len(loads) = Len(entries)
  <2>1. PICK f : f = [i \in 1..Len(entries) |-> loadValues(new[i], entries[i].values)]
    OBVIOUS
  <2>2. loads = f
    BY <1>2, <1>5, <1>7, <2>1
  <2>3. f \in [1..Len(entries) -> Plugins]
    BY <1>8, <2>1, <2>2
  <2>4. PICK n \in Nat : n = Len(entries)
    BY <1>5
  <2>5. f \in [1..n -> Plugins]
    BY <2>3, <2>4
  <2>6. f \in Seq(Plugins) /\ Len(f) = n
    BY ONLY n \in Nat, <2>5
  <2> QED BY <2>2, <2>4, <2>6
<1> QED BY <1>3, <1>4, <1>7, <1>8, <1>9 DEF entries

\* Sequences over one set are sequences over a larger one.
LEMMA SeqWidens ==
  ASSUME NEW A, NEW B, A \subseteq B, NEW s \in Seq(A)
  PROVE  s \in Seq(B)
<1>1. s \in [1..Len(s) -> B] /\ Len(s) \in Nat
  OBVIOUS
<1>2. PICK n, f : n \in Nat /\ n = Len(s) /\ f = s
  BY <1>1
<1>3. f \in [1..n -> B]
  BY <1>1, <1>2
<1>4. f \in Seq(B)
  BY ONLY <1>2, <1>3
<1> QED BY <1>2, <1>4

LEMMA EntriesWiden ==
  ASSUME NEW N, NEW V, V \subseteq Int, NEW s \in Seq([name : N, values : Seq(V)])
  PROVE  s \in Seq([name : N, values : Seq(Int)])
<1>1. Seq(V) \subseteq Seq(Int)
  BY SeqWidens
<1>2. \A e \in [name : N, values : Seq(V)] : e \in [name : N, values : Seq(Int)]
  BY <1>1
<1>3. PICK A, B : A = [name : N, values : Seq(V)] /\ B = [name : N, values : Seq(Int)]
  OBVIOUS
<1>4. A \subseteq B /\ s \in Seq(A)
  BY <1>2, <1>3
<1> QED BY <1>3, <1>4, SeqWidens

\* The steps that say no more about the preset loaded last.
LEMMA NothingLoaded ==
  ASSUME ControlsInv, rack' \in Seq(Plugins), Len(rack') <= MaxPlugins,
         saved' = saved, running' \in BOOLEAN, loaded' = Nothing
  PROVE  ControlsInv'
<1>1. LoadedInv'
  BY DEF LoadedInv
<1>2. loaded' \in Library \cup {Nothing}
  OBVIOUS
<1>3. (saved = Nothing \/ saved \in Values)'
  BY DEF ControlsInv, Values
<1> QED BY <1>1, <1>2, <1>3 DEF ControlsInv, Plugins, Made

LEMMA AddPluginKeeps ==
  ASSUME ControlsInv, NEW kind \in Kinds, addPlugin(kind)
  PROVE  ControlsInv'
<1>1. PICK plugin \in newPlugins(kind) : rack' = Append(rack, plugin)
  BY DEF addPlugin
<1>2. plugin \in Plugins
  BY NewPlugin
<1>3. rack \in Seq(Plugins) /\ Len(rack) < MaxPlugins /\ MaxPlugins \in Nat
  BY ControlsAssumption DEF ControlsInv, addPlugin
<1>4. rack' \in Seq(Plugins) /\ Len(rack') <= MaxPlugins
  BY ONLY <1>1, <1>2, <1>3
<1>5. saved' = saved /\ running' \in BOOLEAN /\ loaded' = Nothing
  BY DEF addPlugin, ControlsInv
<1> QED BY <1>4, <1>5, NothingLoaded

LEMMA SliderKeeps ==
  ASSUME ControlsInv, NEW i \in DOMAIN rack, NEW c \in DOMAIN rack[i].controls,
         NEW v \in FileValues, control_changed(i, c, v)
  PROVE  ControlsInv'
<1> DEFINE old == rack[i].controls
           set == setValue(old[c], v)
           plugin == [rack[i] EXCEPT !.controls[c] = setValue(@, v)]
<1>1. rack \in Seq(Plugins) /\ Len(rack) <= MaxPlugins /\ i \in 1..Len(rack) /\ rack[i] \in Plugins
  BY DEF ControlsInv
<1>2. /\ rack[i] \in [kind : Kinds, controls : Seq(Controls)] /\ old \in Seq(Controls)
      /\ c \in 1..Len(old) /\ \A d \in 1..Len(old) : old[d] \in Controls /\ Made(old[d])
  BY <1>1 DEF Plugins
<1>3. set \in Controls /\ Made(set)
  <2>1. PICK r : r = set
    OBVIOUS
  <2>2. v \in Int /\ old[c] \in Controls /\ Made(old[c]) /\ r = setValue(old[c], v)
    BY <1>2, <2>1, ControlsAssumption
  <2>3. r \in Controls /\ Made(r)
    BY ONLY <2>2, ValueSet
  <2> HIDE DEF set
  <2> QED BY ONLY <2>1, <2>3
<1>4. plugin \in Plugins
  <2>1. PICK p : p = plugin
    OBVIOUS
  <2>2. p.kind = rack[i].kind /\ p.controls = [old EXCEPT ![c] = set]
        /\ p \in [kind : Kinds, controls : {p.controls}]
    BY <1>2, <2>1
  <2> HIDE DEF old, set, plugin
  <2>3. p.controls \in Seq(Controls) /\ Len(p.controls) = Len(old)
        /\ \A d \in 1..Len(old) : p.controls[d] = IF d = c THEN set ELSE old[d]
    BY ONLY <1>2, <1>3, <2>2
  <2>4. \A d \in 1..Len(p.controls) : Made(p.controls[d])
    BY ONLY <1>2, <1>3, <2>3
  <2>5. p \in [kind : Kinds, controls : Seq(Controls)]
    BY <2>2, <2>3
  <2> QED BY <2>1, <2>4, <2>5 DEF Plugins
<1>5. rack' = [rack EXCEPT ![i] = plugin]
  BY DEF control_changed
<1> HIDE DEF plugin
<1>6. rack' \in Seq(Plugins) /\ Len(rack') <= MaxPlugins
  BY ONLY <1>1, <1>4, <1>5
<1>7. saved' = saved /\ loaded' = Nothing
  BY DEF control_changed
<1>8. running' \in BOOLEAN
  BY DEF control_changed
<1> QED BY <1>6, <1>7, <1>8, NothingLoaded

LEMMA LibraryKeeps ==
  ASSUME ControlsInv, NEW preset \in Library, LoadLibrary(preset)
  PROVE  ControlsInv'
<1>1. preset \in Seq([name : {preset[i].name : i \in DOMAIN preset}, values : Seq(Int)])
  BY ControlsAssumption, EntriesWiden DEF Entries
<1>2. loadPlugins(preset) /\ loaded' = preset
  BY DEF LoadLibrary
<1>3. /\ rack' \in Seq(Plugins) /\ Len(rack') <= MaxPlugins
      /\ saved' = saved /\ running' \in BOOLEAN
      /\ Len(rack') = Len(found(preset))
      /\ \A i \in 1..Len(rack') : PlaysEntry(rack'[i], found(preset)[i])
  <2>1. PICK names : preset \in Seq([name : names, values : Seq(Int)])
    BY <1>1
  <2> QED BY <1>2, <2>1, PresetLoaded
<1>4. LoadedInv'
  BY <1>2, <1>3 DEF LoadedInv
<1>5. loaded' \in Library \cup {Nothing}
  BY <1>2
<1>6. (saved = Nothing \/ saved \in Values)'
  BY <1>3 DEF ControlsInv, Values
<1> QED BY <1>3, <1>4, <1>5, <1>6 DEF ControlsInv, Plugins, Made

LEMMA SavedKeeps ==
  ASSUME ControlsInv, LoadSaved
  PROVE  ControlsInv'
<1>1. saved \in Values /\ loadPlugins(saved) /\ loaded' = Nothing
  BY DEF LoadSaved, ControlsInv
<1>2. saved \in Seq([name : {NoName}, values : Seq(Int)])
  BY <1>1, RangeIs, EntriesWiden DEF Values
<1>3. rack' \in Seq(Plugins) /\ Len(rack') <= MaxPlugins /\ saved' = saved /\ running' \in BOOLEAN
  <2>1. PICK names : saved \in Seq([name : names, values : Seq(Int)])
    BY <1>2
  <2> QED BY <1>1, <2>1, PresetLoaded
<1> QED BY <1>1, <1>3, NothingLoaded

LEMMA ClearKeeps ==
  ASSUME ControlsInv, clear
  PROVE  ControlsInv'
<1>1. rack' \in Seq(Plugins) /\ Len(rack') <= MaxPlugins
  BY ControlsAssumption DEF clear
<1>2. saved' = saved /\ running' \in BOOLEAN /\ loaded' = Nothing
  BY DEF clear, ControlsInv
<1> QED BY <1>1, <1>2, NothingLoaded

\* What is saved are values of controls, since what is an atom port looks like one.
LEMMA PresetIs == ControlsInv => getPreset \in Values
<1> SUFFICES ASSUME ControlsInv PROVE getPreset \in Values
  OBVIOUS
<1> DEFINE played(i) == Kept(rack[i].controls,
                             {control \in Range(rack[i].controls) : control.type = "value"})
           entry(i) == [name |-> NoName, values |-> [c \in DOMAIN played(i) |-> played(i)[c].def]]
<1>1. rack \in Seq(Plugins) /\ Len(rack) \in Nat /\ DOMAIN rack = 1..Len(rack)
  BY DEF ControlsInv
<1>2. ASSUME NEW i \in 1..Len(rack)
      PROVE  entry(i) \in [name : {NoName}, values : Seq(Lo..Hi)]
  <2>1. PICK cs, S : cs = rack[i].controls
                     /\ S = {control \in Range(rack[i].controls) : control.type = "value"}
    OBVIOUS
  <2>2. /\ cs \in Seq(Controls) /\ Len(cs) \in Nat /\ DOMAIN cs = 1..Len(cs)
        /\ \A d \in 1..Len(cs) : cs[d] \in Controls /\ Made(cs[d])
    <3>1. rack[i] \in Plugins
      BY <1>1
    <3>2. /\ cs \in Seq(Controls) /\ \A d \in 1..Len(cs) : Made(cs[d])
      BY ONLY <2>1, <3>1 DEF Plugins
    <3> QED BY ONLY <3>2
  <2>3. \A control \in S : \E d \in DOMAIN cs : control = cs[d] /\ control.type = "value"
    BY <2>1 DEF Range
  <2>4. \A control \in S : control.def \in Lo..Hi
    <3> SUFFICES ASSUME NEW control \in S PROVE control.def \in Lo..Hi
      OBVIOUS
    <3>1. control \in Controls /\ Made(control) /\ control.type = "value"
      BY <2>2, <2>3
    <3>2. control.port \in {"controlIn", "atom"}
      BY <3>1 DEF Controls
    <3> QED BY <3>1, <3>2 DEF Made
  <2>5. PICK p : p = Kept(cs, S)
    OBVIOUS
  <2>6. p \in Seq(Controls) /\ \A c \in 1..Len(p) : p[c] \in S
    BY <2>2, <2>5, KeptTyped, KeptIsIn
  <2>7. [c \in DOMAIN p |-> p[c].def] \in Seq(Lo..Hi)
    <3>1. DOMAIN p = 1..Len(p) /\ Len(p) \in Nat
      BY <2>6
    <3>2. [c \in 1..Len(p) |-> p[c].def] \in [1..Len(p) -> Lo..Hi]
      BY <2>4, <2>6
    <3> QED BY <3>1, <3>2
  <2>8. entry(i) = [name |-> NoName, values |-> [c \in DOMAIN p |-> p[c].def]]
    BY <2>1, <2>5
  <2> QED BY <2>7, <2>8
<1>3. getPreset = [i \in 1..Len(rack) |-> entry(i)]
  BY <1>1 DEF getPreset
<1> HIDE DEF entry
<1>4. PICK n, E : n = Len(rack) /\ E = [name : {NoName}, values : Seq(Lo..Hi)]
  OBVIOUS
<1>5. PICK f : f = [i \in 1..n |-> entry(i)]
  OBVIOUS
<1>6. f \in [1..n -> E] /\ n \in Nat
  BY <1>1, <1>2, <1>4, <1>5
<1>7. f \in Seq(E)
  BY ONLY <1>6
<1> QED BY <1>3, <1>4, <1>5, <1>7 DEF Values

\* A step that leaves the rack alone, and the preset loaded last.
LEMMA RackSame ==
  ASSUME ControlsInv, rack' = rack, running' = running, loaded' = loaded,
         saved' = saved \/ saved' \in Values
  PROVE  ControlsInv'
<1>1. LoadedInv'
  <2>1. LoadedInv
    BY DEF ControlsInv
  <2> QED BY <2>1 DEF LoadedInv
<1>2. (saved = Nothing \/ saved \in Values)'
  BY DEF ControlsInv, Values
<1>3. (rack \in Seq(Plugins) /\ Len(rack) <= MaxPlugins)'
  BY DEF ControlsInv, Plugins, Made
<1>4. running' \in BOOLEAN /\ loaded' \in Library \cup {Nothing}
  BY Zenon DEF ControlsInv
<1> QED BY <1>1, <1>2, <1>3, <1>4 DEF ControlsInv

LEMMA ControlsBegin == ControlsInit => ControlsInv
<1> SUFFICES ASSUME ControlsInit PROVE ControlsInv
  OBVIOUS
<1>1. rack \in Seq(Plugins) /\ Len(rack) <= MaxPlugins
  BY ControlsAssumption DEF ControlsInit
<1>2. saved = Nothing /\ running \in BOOLEAN /\ loaded = Nothing
  BY DEF ControlsInit
<1> QED BY <1>1, <1>2 DEF ControlsInv, LoadedInv

LEMMA ControlsStep == ControlsInv /\ [ControlsNext]_controlsVars => ControlsInv'
<1> SUFFICES ASSUME ControlsInv, [ControlsNext]_controlsVars PROVE ControlsInv'
  OBVIOUS
<1>1. CASE \E kind \in Kinds : addPlugin(kind)
  BY <1>1, AddPluginKeeps
<1>2. CASE \E i \in DOMAIN rack : \E c \in DOMAIN rack[i].controls :
             \E v \in FileValues : control_changed(i, c, v)
  BY <1>2, SliderKeeps
<1>3. CASE \E preset \in Library : LoadLibrary(preset)
  BY <1>3, LibraryKeeps
<1>4. CASE LoadSaved
  BY <1>4, SavedKeeps
<1>5. CASE clear
  BY <1>5, ClearKeeps
<1>6. CASE savePreset
  BY <1>6, PresetIs, RackSame DEF savePreset
<1>7. CASE UNCHANGED controlsVars
  BY <1>7, RackSame DEF controlsVars
<1> QED BY <1>1, <1>2, <1>3, <1>4, <1>5, <1>6, <1>7 DEF ControlsNext

LEMMA ControlsKept == ControlsSpec => []ControlsInv
BY ControlsBegin, ControlsStep, PTL DEF ControlsSpec

\* The types of the controls: sliders stay in their ranges and plugins get values
\* of their ports' ranges, whatever values presets hold (pluginui.cpp:100-116).
THEOREM ControlsTyped == ControlsSpec => []ControlsTypeOK
<1>1. ControlsInv => ControlsTypeOK
  <2> SUFFICES ASSUME ControlsInv PROVE ControlsTypeOK
    OBVIOUS
  <2>1. rack \in Seq([kind : Kinds, controls : Seq(Controls)])
    <3>1. Plugins \subseteq [kind : Kinds, controls : Seq(Controls)]
      BY DEF Plugins
    <3> QED BY <3>1, SeqWidens DEF ControlsInv
  <2>2. ASSUME NEW i \in DOMAIN rack, NEW c \in DOMAIN rack[i].controls
        PROVE  /\ rack[i].controls[c].shown \in rack[i].controls[c].lo..rack[i].controls[c].hi
               /\ rack[i].controls[c].port = "controlIn" => rack[i].controls[c].def \in Lo..Hi
    <3>1. rack[i] \in Plugins
      BY DEF ControlsInv
    <3>2. Made(rack[i].controls[c])
      BY <3>1 DEF Plugins
    <3> QED BY <3>2 DEF Made
  <2>3. saved = Nothing \/ saved \in Seq([name : Kinds \cup {NoName}, values : Seq(Lo..Hi)])
    <3>1. PICK A, B : /\ A = [name : {NoName}, values : Seq(Lo..Hi)]
                      /\ B = [name : Kinds \cup {NoName}, values : Seq(Lo..Hi)]
      OBVIOUS
    <3>2. A \subseteq B
      BY <3>1
    <3>3. saved = Nothing \/ saved \in Seq(A)
      BY <3>1 DEF ControlsInv, Values
    <3>4. saved \in Seq(A) => saved \in Seq(B)
      BY ONLY <3>2, SeqWidens
    <3> QED BY <3>1, <3>3, <3>4, Zenon
  <2> QED BY <2>1, <2>2, <2>3 DEF ControlsInv, ControlsTypeOK
<1> QED BY <1>1, ControlsKept, PTL

\* A row and its plugin differ only while the plugin has the default of its port
\* (Plugin.cpp:1045-1050, pluginui.cpp:409).
THEOREM RowsShowDefaults == ControlsSpec => []ShownIsPlayed
<1>1. ControlsInv => ShownIsPlayed
  <2> SUFFICES ASSUME ControlsInv, NEW i \in DOMAIN rack, NEW c \in DOMAIN rack[i].controls
               PROVE  LET control == rack[i].controls[c]
                      IN control.port = "controlIn" /\ control.shown # control.def
                           => control.def = Default
    BY DEF ShownIsPlayed
  <2>1. rack[i] \in Plugins
    BY DEF ControlsInv
  <2>2. Made(rack[i].controls[c])
    BY <2>1 DEF Plugins
  <2> QED BY <2>2 DEF Made
<1> QED BY <1>1, ControlsKept, PTL

\* Whatever plugins are installed and whatever values a preset holds, each control
\* in step takes its own value (pluginui.cpp:100-116).
THEOREM PresetsArePlayed == ControlsSpec => []LoadedIsPlayed
<1>1. ControlsInv => LoadedIsPlayed
  <2> SUFFICES ASSUME ControlsInv PROVE LoadedIsPlayed
    OBVIOUS
  <2>1. /\ LoadedInv /\ DOMAIN rack = 1..Len(rack)
        /\ \A i \in DOMAIN rack : DOMAIN rack[i].controls = 1..Len(rack[i].controls)
    BY DEF ControlsInv, Plugins
  <2> QED BY <2>1 DEF LoadedInv, PlaysEntry, LoadedIsPlayed
<1> QED BY <1>1, ControlsKept, PTL

\* What SavedIsRestored asks for never happens unless the saved rack was empty: no
\* saved plugin is found by its name, and the rack is left empty, whatever was
\* saved (engine.cc:261, rack.cc:554-563).
THEOREM SavedIsLost == ControlsSpec => [][LoadSaved => rack' = <<>>]_controlsVars
<1>1. ControlsInv /\ LoadSaved => rack' = <<>>
  <2> SUFFICES ASSUME ControlsInv, LoadSaved PROVE rack' = <<>>
    OBVIOUS
  <2>1. saved \in Values /\ loadPlugins(saved)
    BY DEF LoadSaved, ControlsInv
  <2>2. PICK E, S : /\ E = [name : {NoName}, values : Seq(Lo..Hi)]
                    /\ S = {entry \in Range(saved) : entry.name \in Kinds}
    OBVIOUS
  <2>3. saved \in Seq(E) /\ \A k \in 1..Len(saved) : saved[k] \in E
    <3>1. saved \in Seq(E)
      BY <2>1, <2>2, Zenon DEF Values
    <3> QED BY ONLY <3>1
  <2>4. \A e \in E : e \notin S
    BY <2>2, ControlsAssumption
  <2>5. found(saved) = <<>>
    <3>1. Kept(saved, S) = <<>>
      BY ONLY <2>3, <2>4, NoneKept
    <3> QED BY <2>2, <3>1 DEF found
  <2>6. PICK new : rack' = [i \in DOMAIN found(saved) |-> loadValues(new[i], found(saved)[i].values)]
    BY <2>1 DEF loadPlugins
  <2> HIDE DEF found
  <2> QED BY <2>5, <2>6
<1> QED BY <1>1, ControlsKept, PTL
===============================================================================
