----------------------------- MODULE Engine_proofs -----------------------------
(***************************************************************************)
(* For every number of plugins, slots and changes: what a pass of the      *)
(* callback runs and what the worker's walk reads.                         *)
(***************************************************************************)
EXTENDS PluginChain, CommonLemmas

building == gtk \in {"next", "instance", "count"}

\* The changes of the rack that end with the chain being built anew.
Rebuild ==
  \/ \E p \in Plugins : AddPlugin(p)
  \/ \E n \in 2..Len(rack) : MoveUp(n)
  \/ \E n \in 1..Len(rack) - 1 : MoveDown(n)
  \/ \E n \in 1..Len(rack) : Delete(n)
  \/ Clear
  \/ \E n \in 1..Len(rack), value \in BOOLEAN : Switch(n, value)

\* All actions, for the case splits.
LEMMA ChainActions ==
  ASSUME [Next]_vars
  PROVE  \/ SetBypass \/ ClearBypass \/ Grow \/ Rebuild
         \/ BuildPorts \/ BuildInstance \/ BuildCount \/ BuildEnd
         \/ ProcessBegin \/ ProcessTest \/ ProcessConnect \/ ProcessRun \/ ProcessEnd
         \/ (worker # "dead" /\ check_notify)
         \/ UNCHANGED vars
BY DEF Next, Edit, Build, Process, Rebuild

-----------------------------------------------------------------------------
(* Types *)

\* Where the threads are, as far as types depend on it: a change that has begun may
\* be made, a vector that has grown takes one more; what is still to be copied fits
\* into the slots; a thread at a slot or a plugin is at one there is.
RackOK ==
  /\ RackTyped
  /\ gtk \in {"add", "grow", "up", "file"} => edits < MaxEdits
  /\ gtk = "grow" => Len(rack) < capacity

SlotsOK ==
  /\ SlotsTyped
  /\ activePlugins + Len(todo) <= MAX_PLUGINS
  /\ gtk \in {"instance", "count"} => todo # <<>>

PassOK ==
  /\ PassTyped
  /\ callback \in {"connect", "run"} => i <= MAX_PLUGINS

WalkOK ==
  /\ WalkTyped
  /\ worker \in {"at", "load"} => w <= MAX_PLUGINS
  /\ worker \in {"at", "load"} /\ shaken = {} => w <= Len(rack)

ChainTypeInv == RackOK /\ SlotsOK /\ PassOK /\ WalkOK

\* The chain has no more plugins than there are slots.
LEMMA ChainFits ==
  ASSUME RackTyped
  PROVE  Chain \in Seq(Plugins) /\ Len(Chain) \in Nat /\ Len(Chain) <= MAX_PLUGINS
<1>1. rack \in Seq(Plugins) /\ Len(rack) <= MAX_PLUGINS
  BY DEF RackTyped
<1>2. Chain \in Seq(Plugins) /\ Len(Chain) <= Len(rack)
  BY <1>1, KeptTyped DEF Chain
<1> QED BY <1>1, <1>2, ChainAssumption

\* What the changes that rebuild do to the rack and to the vector under a walk.
RackChanges ==
  /\ rack' \in Seq(Plugins) /\ Len(rack') <= MAX_PLUGINS /\ Len(rack') <= capacity
  /\ on' \subseteq Plugins /\ created' \subseteq Plugins
  /\ edits < MaxEdits
  /\ UNCHANGED capacity

WalkShaken ==
  /\ shaken' \subseteq {"grown", "moved", "shrunk"}
  /\ \/ shaken' = {} /\ worker = "idle"
     \/ shaken \subseteq shaken' /\ "shrunk" \in shaken'
     \/ shaken \subseteq shaken' /\ shaken' # {} /\ Len(rack) <= Len(rack')
     \/ /\ shaken' = shaken /\ Len(rack) <= Len(rack')
        /\ \A k \in 1..Len(rack) : rack'[k] = rack[k]

\* A rack in which two have changed places.
LEMMA SwappedTyped ==
  ASSUME NEW s \in Seq(Plugins), NEW n \in 1..Len(s) - 1
  PROVE  Swapped(s, n) \in Seq(Plugins) /\ Len(Swapped(s, n)) = Len(s)
BY DEF Swapped

\* A change that shakes the vector leaves the place of the walk as it is.
LEMMA Shaking ==
  ASSUME WalkTyped, NEW how, how \in {"grown", "moved", "shrunk"}, Shake({how})
  PROVE  /\ UNCHANGED <<worker, w, seen>>
         /\ shaken' \subseteq {"grown", "moved", "shrunk"}
         /\ \/ shaken' = {} /\ worker = "idle"
            \/ shaken \subseteq shaken' /\ how \in shaken' /\ shaken' # {}
<1>1. UNCHANGED <<worker, w, seen>>
  BY DEF Shake, walkVars
<1>2. shaken \subseteq {"grown", "moved", "shrunk"}
  BY DEF WalkTyped
<1>3. CASE worker = "idle"
  BY <1>1, <1>3 DEF Shake
<1>4. CASE worker # "idle"
  <2>1. shaken' = shaken \cup {how}
    BY <1>4 DEF Shake
  <2> QED BY <1>1, <1>2, <2>1
<1> QED BY <1>3, <1>4

\* Every change that rebuilds changes the rack so, shakes the walk so and begins
\* to build.
LEMMA RebuildBegins ==
  ASSUME ChainTypeInv, Rebuild
  PROVE  RackChanges /\ WalkShaken /\ UNCHANGED <<worker, w, seen, stale>> /\ BuildBegin
<1> USE ChainAssumption DEF RackChanges
<1>0. /\ rack \in Seq(Plugins) /\ Len(rack) <= MAX_PLUGINS /\ Len(rack) <= capacity
      /\ Len(rack) \in Nat /\ capacity \in Nat /\ on \subseteq Plugins /\ created \subseteq Plugins
      /\ gtk \in {"add", "grow", "up", "file"} => edits < MaxEdits
      /\ gtk = "grow" => Len(rack) < capacity
      /\ shaken \subseteq {"grown", "moved", "shrunk"}
  BY DEF ChainTypeInv, RackOK, RackTyped, WalkOK, WalkTyped
<1>00. WalkTyped
  BY DEF ChainTypeInv, WalkOK
<1>1. ASSUME NEW p \in Plugins, AddPlugin(p)
      PROVE  RackChanges /\ WalkShaken /\ UNCHANGED <<worker, w, seen, stale>> /\ BuildBegin
  <2>1. /\ rack' = Append(rack, p) /\ on' = on \cup {p} /\ created' = created \cup {p}
        /\ Len(rack) < MAX_PLUGINS /\ BuildBegin
        /\ UNCHANGED <<capacity, worker, w, seen, stale, shaken>>
    BY <1>1 DEF AddPlugin, vectorVars, walkVars
  <2>2. Len(rack) < capacity /\ gtk \in {"add", "grow"}
    BY <1>0, <1>1 DEF AddPlugin
  <2>3. /\ rack' \in Seq(Plugins) /\ Len(rack') = Len(rack) + 1
        /\ \A k \in 1..Len(rack) : rack'[k] = rack[k]
    BY <1>0, <2>1
  <2>4. WalkShaken
    BY <1>0, <2>1, <2>3 DEF WalkShaken
  <2>5. on' \subseteq Plugins /\ created' \subseteq Plugins
    BY <1>0, <2>1
  <2> QED BY <1>0, <2>1, <2>2, <2>3, <2>4, <2>5
<1>2. ASSUME NEW n \in 1..Len(rack) - 1, rack' = Swapped(rack, n), Shake({"moved"}),
             UNCHANGED <<on, created, capacity, stale>>, BuildBegin, edits < MaxEdits
      PROVE  RackChanges /\ WalkShaken /\ UNCHANGED <<worker, w, seen, stale>> /\ BuildBegin
  <2>1. rack' \in Seq(Plugins) /\ Len(rack') = Len(rack)
    BY <1>0, <1>2, SwappedTyped
  <2>2. WalkShaken /\ UNCHANGED <<worker, w, seen>>
    <3>1. /\ UNCHANGED <<worker, w, seen>>
          /\ shaken' \subseteq {"grown", "moved", "shrunk"}
          /\ \/ shaken' = {} /\ worker = "idle"
             \/ shaken \subseteq shaken' /\ "moved" \in shaken' /\ shaken' # {}
      BY <1>00, <1>2, Shaking
    <3> QED BY <1>0, <2>1, <3>1 DEF WalkShaken
  <2> QED BY <1>0, <1>2, <2>1, <2>2
<1>3. ASSUME Len(rack') <= Len(rack), rack' \in Seq(Plugins), Shake({"shrunk"}),
             UNCHANGED <<on, created, capacity, stale>>, BuildBegin, edits < MaxEdits
      PROVE  RackChanges /\ WalkShaken /\ UNCHANGED <<worker, w, seen, stale>> /\ BuildBegin
  <2>1. WalkShaken /\ UNCHANGED <<worker, w, seen>>
    BY <1>0, <1>00, <1>3, Shaking DEF WalkShaken
  <2>2. Len(rack') \in Nat
    BY <1>3
  <2> QED BY <1>0, <1>3, <2>1, <2>2
<1>4. ASSUME NEW n \in 2..Len(rack), MoveUp(n)
      PROVE  RackChanges /\ WalkShaken /\ UNCHANGED <<worker, w, seen, stale>> /\ BuildBegin
  <2>1. n - 1 \in 1..Len(rack) - 1
    BY <1>0
  <2> QED BY <1>0, <1>2, <1>4, <2>1 DEF MoveUp
<1>5. ASSUME NEW n \in 1..Len(rack) - 1, MoveDown(n)
      PROVE  RackChanges /\ WalkShaken /\ UNCHANGED <<worker, w, seen, stale>> /\ BuildBegin
  BY <1>2, <1>5 DEF MoveDown, MayEdit
<1>6. ASSUME NEW n \in 1..Len(rack), Delete(n)
      PROVE  RackChanges /\ WalkShaken /\ UNCHANGED <<worker, w, seen, stale>> /\ BuildBegin
  <2>1. rack' \in Seq(Plugins) /\ Len(rack') <= Len(rack)
    BY <1>0, <1>6, Removed DEF Delete
  <2> QED BY <1>3, <1>6, <2>1 DEF Delete, MayEdit
<1>7. CASE Clear
  <2>1. rack' \in Seq(Plugins) /\ Len(rack') <= Len(rack)
    BY <1>0, <1>7 DEF Clear
  <2> QED BY <1>3, <1>7, <2>1 DEF Clear, MayEdit
<1>8. ASSUME NEW n \in 1..Len(rack), NEW value \in BOOLEAN, Switch(n, value)
      PROVE  RackChanges /\ WalkShaken /\ UNCHANGED <<worker, w, seen, stale>> /\ BuildBegin
  <2>1. /\ on' = (IF value THEN on \cup {rack[n]} ELSE on \ {rack[n]})
        /\ UNCHANGED <<rack, created, capacity, worker, w, seen, stale, shaken>>
        /\ BuildBegin /\ edits < MaxEdits
    BY <1>8 DEF Switch, MayEdit, vectorVars, walkVars
  <2>2. on' \subseteq Plugins
    <3>1. rack[n] \in Plugins
      BY <1>0
    <3> QED BY <1>0, <2>1, <3>1
  <2>3. WalkShaken
    BY <1>0, <2>1 DEF WalkShaken
  <2> QED BY <1>0, <2>1, <2>2, <2>3
<1> QED BY <1>1, <1>4, <1>5, <1>6, <1>7, <1>8 DEF Rebuild

LEMMA ChainTypeInit == Init => ChainTypeInv
<1> SUFFICES ASSUME Init PROVE ChainTypeInv
  OBVIOUS
<1> USE ChainAssumption DEF Init
<1>1. RackOK
  BY DEF RackOK, RackTyped
<1>2. SlotsOK
  <2>1. ports \in [Slots -> Plugins \cup {NULL}] /\ lilv_instance \in [Slots -> Plugins \cup {NULL}]
    BY Zenon
  <2>2. bypass \in BOOLEAN
    BY Zenon
  <2>3. todo \in Seq(Plugins) /\ Len(todo) = 0 /\ activePlugins = 0 /\ gtk = "idle"
    OBVIOUS
  <2> QED BY <2>1, <2>2, <2>3 DEF SlotsOK, SlotsTyped
<1>3. PassOK
  <2>1. connected \in [instance : Plugins \cup {NULL}, ports : Plugins \cup {NULL}]
    BY Zenon
  <2>2. disturbed \in BOOLEAN /\ partial \in BOOLEAN
    BY Zenon
  <2>3. ran \in Seq([plugin : Plugins \cup {NULL}, whole : BOOLEAN]) /\ i = 1
        /\ callback = "idle"
    OBVIOUS
  <2> QED BY <2>1, <2>2, <2>3 DEF PassOK, PassTyped
<1>4. WalkOK
  <2>1. stale \in BOOLEAN
    BY Zenon
  <2>2. seen \in Seq(Plugins) /\ worker = "idle" /\ w = 1 /\ shaken = {}
    OBVIOUS
  <2> QED BY <2>1, <2>2 DEF WalkOK, WalkTyped
<1> QED BY <1>1, <1>2, <1>3, <1>4 DEF ChainTypeInv

\* The rack changes by a change of it only.
LEMMA RackTypeStep ==
  ASSUME ChainTypeInv, [Next]_vars
  PROVE  RackOK'
<1> USE ChainAssumption DEF RackOK, RackTyped
<1>0. RackOK
  BY DEF ChainTypeInv
<1>1. CASE SetBypass
  BY <1>0, <1>1 DEF SetBypass, MayEdit, rackVars, vectorVars
<1>2. CASE ClearBypass
  BY <1>0, <1>2 DEF ClearBypass, vectorVars
<1>3. CASE Grow
  BY <1>0, <1>3 DEF Grow, rackVars
<1>4. CASE Rebuild
  <2>1. RackChanges /\ BuildBegin
    BY <1>4, RebuildBegins
  <2> QED BY <1>0, <2>1 DEF RackChanges, BuildBegin
<1>5. CASE BuildPorts \/ BuildInstance \/ BuildCount \/ BuildEnd
  BY <1>0, <1>5 DEF BuildPorts, BuildInstance, BuildCount, BuildEnd, rackVars, vectorVars
<1>6. CASE ProcessBegin \/ ProcessTest \/ ProcessConnect \/ ProcessRun \/ ProcessEnd
  BY <1>0, <1>6 DEF ProcessBegin, ProcessTest, ProcessConnect, ProcessRun, ProcessEnd,
     rackVars, vectorVars
<1>7. CASE check_notify
  BY <1>0, <1>7 DEF check_notify, WalkBegin, WalkTest, WalkAt, WalkLoad, WalkEnd,
     unchangedByWalk, rackVars
<1>8. CASE UNCHANGED vars
  BY <1>0, <1>8 DEF vars, rackVars, vectorVars
<1> QED BY <1>1, <1>2, <1>3, <1>4, <1>5, <1>6, <1>7, <1>8, ChainActions

\* The slots change while the chain is built only.
LEMMA SlotsTypeStep ==
  ASSUME ChainTypeInv, [Next]_vars
  PROVE  SlotsOK'
<1> USE ChainAssumption DEF SlotsOK, SlotsTyped
<1>0. SlotsOK
  BY DEF ChainTypeInv
<1>1. CASE SetBypass \/ ClearBypass \/ Grow
  BY <1>0, <1>1 DEF SetBypass, ClearBypass, Grow, slotVars
<1>2. CASE Rebuild
  <2>1. RackChanges /\ BuildBegin
    BY <1>2, RebuildBegins
  <2>2. todo' \in Seq(Plugins) /\ Len(todo') <= Len(rack')
    BY <2>1, KeptTyped DEF BuildBegin, RackChanges
  <2> QED BY <1>0, <2>1, <2>2 DEF RackChanges, BuildBegin
<1>3. CASE BuildPorts
  <2>1. Head(todo) \in Plugins
    BY <1>0, <1>3 DEF BuildPorts
  <2> QED BY <1>0, <1>3, <2>1 DEF BuildPorts
<1>4. CASE BuildInstance
  <2>1. Head(todo) \in Plugins
    BY <1>0, <1>4 DEF BuildInstance
  <2> QED BY <1>0, <1>4, <2>1 DEF BuildInstance
<1>5. CASE BuildCount
  <2>1. Tail(todo) \in Seq(Plugins) /\ Len(Tail(todo)) = Len(todo) - 1 /\ Len(todo) \in Nat
    BY <1>0, <1>5 DEF BuildCount
  <2> QED BY <1>0, <1>5, <2>1 DEF BuildCount
<1>6. CASE BuildEnd
  BY <1>0, <1>6 DEF BuildEnd, slotVars
<1>7. CASE ProcessBegin \/ ProcessTest \/ ProcessConnect \/ ProcessRun \/ ProcessEnd
  BY <1>0, <1>7 DEF ProcessBegin, ProcessTest, ProcessConnect, ProcessRun, ProcessEnd,
     slotVars
<1>8. CASE check_notify
  BY <1>0, <1>8 DEF check_notify, WalkBegin, WalkTest, WalkAt, WalkLoad, WalkEnd,
     unchangedByWalk, slotVars
<1>9. CASE UNCHANGED vars
  BY <1>0, <1>9 DEF vars, slotVars
<1> QED BY <1>1, <1>2, <1>3, <1>4, <1>5, <1>6, <1>7, <1>8, <1>9, ChainActions

\* The state of a pass is the callback's, but for being disturbed.
LEMMA PassTypeStep ==
  ASSUME ChainTypeInv, [Next]_vars
  PROVE  PassOK'
<1> USE ChainAssumption DEF PassOK, PassTyped
<1>0. PassOK /\ SlotsTyped
  BY DEF ChainTypeInv, SlotsOK
<1>1. CASE SetBypass \/ ClearBypass \/ Grow
  BY <1>0, <1>1 DEF SetBypass, ClearBypass, Grow, passVars
<1>2. CASE Rebuild
  <2>1. BuildBegin
    BY <1>2, RebuildBegins
  <2>2. disturbed' \in BOOLEAN
    BY <2>1, Zenon DEF BuildBegin
  <2> QED BY <1>0, <2>1, <2>2 DEF BuildBegin, passVars
<1>3. CASE BuildPorts \/ BuildInstance \/ BuildCount \/ BuildEnd
  BY <1>0, <1>3 DEF BuildPorts, BuildInstance, BuildCount, BuildEnd, passVars
<1>4. CASE ProcessBegin
  <2>1. partial' \in BOOLEAN
    BY <1>4, Zenon DEF ProcessBegin
  <2> QED BY <1>0, <1>4, <2>1 DEF ProcessBegin
<1>5. CASE ProcessTest
  BY <1>0, <1>5 DEF ProcessTest, SlotsTyped
<1>6. CASE ProcessConnect
  <2>1. i \in Slots
    BY <1>0, <1>6 DEF ProcessConnect, Slots
  <2> QED BY <1>0, <1>6, <2>1 DEF ProcessConnect, SlotsTyped
<1>7. CASE ProcessRun
  <2>1. i \in Slots
    BY <1>0, <1>7 DEF ProcessRun, Slots
  <2> DEFINE p == lilv_instance[i]
             r == [plugin |-> p, whole |-> connected = [instance |-> p, ports |-> p]]
  <2>2. r \in [plugin : Plugins \cup {NULL}, whole : BOOLEAN]
    <3>1. p \in Plugins \cup {NULL}
      BY <1>0, <2>1 DEF SlotsTyped
    <3>2. (connected = [instance |-> p, ports |-> p]) \in BOOLEAN
      OBVIOUS
    <3> HIDE DEF p
    <3> QED BY <3>1, <3>2, Zenon
  <2>3. ran' = Append(ran, r)
    BY <1>7 DEF ProcessRun
  <2> HIDE DEF r
  <2>4. ran' \in Seq([plugin : Plugins \cup {NULL}, whole : BOOLEAN])
    BY <1>0, <2>2, <2>3
  <2> QED BY <1>0, <1>7, <2>1, <2>4 DEF ProcessRun, Slots
<1>8. CASE ProcessEnd
  <2>1. connected' \in [instance : Plugins \cup {NULL}, ports : Plugins \cup {NULL}]
    BY <1>8, Zenon DEF ProcessEnd
  <2>2. disturbed' \in BOOLEAN /\ partial' \in BOOLEAN
    BY <1>0, <1>8, Zenon DEF ProcessEnd
  <2>3. ran' \in Seq([plugin : Plugins \cup {NULL}, whole : BOOLEAN]) /\ i' = 1
        /\ callback' = "idle"
    BY <1>8 DEF ProcessEnd
  <2> QED BY <2>1, <2>2, <2>3
<1>9. CASE check_notify
  BY <1>0, <1>9 DEF check_notify, WalkBegin, WalkTest, WalkAt, WalkLoad, WalkEnd,
     unchangedByWalk, passVars
<1>10. CASE UNCHANGED vars
  BY <1>0, <1>10 DEF vars, passVars
<1> QED BY <1>1, <1>2, <1>3, <1>4, <1>5, <1>6, <1>7, <1>8, <1>9, <1>10, ChainActions

\* The walk is the worker's, but for what is done to the vector under it.
LEMMA WalkTypeStep ==
  ASSUME ChainTypeInv, [Next]_vars
  PROVE  WalkOK'
<1> USE ChainAssumption DEF WalkOK, WalkTyped
<1>0. WalkOK /\ RackTyped
  BY DEF ChainTypeInv, RackOK
<1>1. CASE SetBypass \/ ClearBypass
  BY <1>0, <1>1 DEF SetBypass, ClearBypass, rackVars, vectorVars, walkVars
<1>2. CASE Grow
  <2>1. /\ UNCHANGED <<worker, w, seen>>
        /\ shaken' \subseteq {"grown", "moved", "shrunk"}
        /\ \/ shaken' = {} /\ worker = "idle"
           \/ shaken \subseteq shaken' /\ "grown" \in shaken' /\ shaken' # {}
    BY <1>0, <1>2, Shaking DEF Grow
  <2>2. stale' \in BOOLEAN
    <3>1. stale' = (worker \in {"at", "load"})
      BY <1>2 DEF Grow
    <3>2. (worker \in {"at", "load"}) \in BOOLEAN
      OBVIOUS
    <3> QED BY <3>1, <3>2
  <2> QED BY <1>0, <2>1, <2>2
<1>3. CASE Rebuild
  <2>1. RackChanges /\ WalkShaken /\ UNCHANGED <<worker, w, seen, stale>>
    BY <1>3, RebuildBegins
  <2> QED BY <1>0, <2>1 DEF RackChanges, WalkShaken, RackTyped
<1>4. CASE BuildPorts \/ BuildInstance \/ BuildCount \/ BuildEnd
  BY <1>0, <1>4
  DEF BuildPorts, BuildInstance, BuildCount, BuildEnd, rackVars, vectorVars, walkVars
<1>5. CASE ProcessBegin \/ ProcessTest \/ ProcessConnect \/ ProcessRun \/ ProcessEnd
  BY <1>0, <1>5 DEF ProcessBegin, ProcessTest, ProcessConnect, ProcessRun, ProcessEnd,
     rackVars, vectorVars, walkVars
<1>6. CASE WalkBegin
  BY <1>0, <1>6 DEF WalkBegin, unchangedByWalk, rackVars
<1>7. CASE WalkTest
  <2>1. stale' \in BOOLEAN
    BY <1>7, Zenon DEF WalkTest
  <2>2. w <= Len(rack) /\ worker' = "at" /\ UNCHANGED <<w, seen, shaken, rack>>
    BY <1>7 DEF WalkTest, unchangedByWalk, rackVars
  <2> QED BY <1>0, <2>1, <2>2 DEF RackTyped
<1>8. CASE WalkAt
  BY <1>0, <1>8 DEF WalkAt, unchangedByWalk, rackVars
<1>9. CASE WalkLoad
  <2>1. seen' \in Seq(Plugins)
    <3>1. CASE shaken = {}
      <4>1. rack[w] \in Plugins
        BY <1>0, <1>9, <3>1 DEF WalkLoad, RackTyped
      <4> QED BY <1>0, <1>9, <3>1, <4>1 DEF WalkLoad
    <3>2. CASE shaken # {}
      BY <1>9, <3>2 DEF WalkLoad
    <3> QED BY <3>1, <3>2
  <2>2. /\ worker' \in {"test", "dead"} /\ w' = w + 1 /\ w <= MAX_PLUGINS
        /\ UNCHANGED <<shaken, stale, rack>>
    BY <1>0, <1>9 DEF WalkLoad, unchangedByWalk, rackVars
  <2> QED BY <1>0, <2>1, <2>2
<1>10. CASE WalkEnd
  <2>1. stale' \in BOOLEAN
    BY <1>10, Zenon DEF WalkEnd
  <2>2. worker' = "idle" /\ w' = 1 /\ seen' = <<>> /\ shaken' = {}
    BY <1>10 DEF WalkEnd
  <2> QED BY <1>0, <2>1, <2>2
<1>11. CASE UNCHANGED vars
  BY <1>0, <1>11 DEF vars, rackVars, vectorVars, walkVars
<1> QED
  BY <1>1, <1>2, <1>3, <1>4, <1>5, <1>6, <1>7, <1>8, <1>9, <1>10, <1>11, ChainActions
  DEF check_notify

\* The variables keep their types.
LEMMA ChainTypes == Spec => []ChainTypeInv
<1>1. ChainTypeInv /\ [Next]_vars => ChainTypeInv'
  BY RackTypeStep, SlotsTypeStep, PassTypeStep, WalkTypeStep DEF ChainTypeInv
<1> QED BY <1>1, ChainTypeInit, PTL DEF Spec

-----------------------------------------------------------------------------
(* The slots in use *)

\* What has been copied and what is still to be copied make up the chain, and the
\* slot being filled gets the next of it.
FillInv ==
  /\ activePlugins + Len(todo) = Len(Chain)
  /\ \A k \in 1..Len(todo) : todo[k] = Chain[activePlugins + k]
  /\ \A k \in 1..activePlugins : lilv_instance[k] = Chain[k] /\ ports[k] = Chain[k]
  /\ ~building => todo = <<>>
  /\ gtk \in {"instance", "count"} => ports[slot] = Head(todo)
  /\ gtk = "count" => lilv_instance[slot] = Head(todo)

LEMMA FillInit == Init => FillInv
<1> SUFFICES ASSUME Init PROVE FillInv
  OBVIOUS
<1>1. rack \in Seq({}) /\ Len(rack) = 0 /\ activePlugins = 0 /\ todo = <<>> /\ gtk = "idle"
  BY DEF Init
<1>2. Len(Chain) = 0
  <2>1. Kept(rack, on) \in Seq({}) /\ Len(Kept(rack, on)) <= 0
    BY <1>1, KeptTyped
  <2> QED BY <2>1 DEF Chain
<1> QED BY <1>1, <1>2 DEF FillInv, building

\* The chain stays as it is unless a rebuild begins, and so does what is in the slots
\* unless the loop of buildPluginChain goes on.
LEMMA ChainStays ==
  ASSUME [Next]_vars
  PROVE  \/ Rebuild
         \/ /\ Chain' = Chain
            /\ \/ BuildPorts \/ BuildInstance \/ BuildCount
               \/ UNCHANGED <<slotVars, todo>>
<1>1. CASE SetBypass \/ ClearBypass \/ Grow
  BY <1>1 DEF SetBypass, ClearBypass, Grow, rackVars, Chain
<1>2. CASE BuildPorts \/ BuildInstance \/ BuildCount \/ BuildEnd
  BY <1>2 DEF BuildPorts, BuildInstance, BuildCount, BuildEnd, rackVars, Chain
<1>3. CASE ProcessBegin \/ ProcessTest \/ ProcessConnect \/ ProcessRun \/ ProcessEnd
  BY <1>3 DEF ProcessBegin, ProcessTest, ProcessConnect, ProcessRun, ProcessEnd,
     rackVars, Chain
<1>4. CASE check_notify
  BY <1>4 DEF check_notify, WalkBegin, WalkTest, WalkAt, WalkLoad, WalkEnd,
     unchangedByWalk, rackVars, Chain
<1>5. CASE UNCHANGED vars
  BY <1>5 DEF vars, rackVars, Chain
<1> QED BY <1>1, <1>2, <1>3, <1>4, <1>5, ChainActions

LEMMA FillStep ==
  ASSUME ChainTypeInv, FillInv, [Next]_vars
  PROVE  FillInv'
<1>0. /\ Chain \in Seq(Plugins) /\ Len(Chain) \in Nat /\ Len(Chain) <= MAX_PLUGINS
      /\ activePlugins \in Nat /\ todo \in Seq(Plugins) /\ MAX_PLUGINS \in Nat
      /\ ports \in [Slots -> Plugins \cup {NULL}]
      /\ lilv_instance \in [Slots -> Plugins \cup {NULL}]
      /\ gtk \in {"instance", "count"} => todo # <<>>
  BY ChainFits, ChainAssumption DEF ChainTypeInv, RackOK, SlotsOK, SlotsTyped
<1>1. CASE Rebuild
  <2>1. RackChanges /\ BuildBegin
    BY <1>1, RebuildBegins
  <2>2. Chain' = todo' /\ Chain' \in Seq(Plugins)
    BY <2>1, KeptTyped DEF RackChanges, BuildBegin, Chain
  <2> QED BY <2>1, <2>2 DEF FillInv, BuildBegin, building
<1>2. CASE Chain' = Chain /\ BuildPorts
  <2>1. slot \in Slots /\ slot = activePlugins + 1 /\ slot' = slot
    BY <1>0, <1>2 DEF BuildPorts, FillInv, slot, Slots
  <2>2. ports'[slot] = Head(todo) /\ \A k \in 1..activePlugins : ports'[k] = ports[k]
    BY <1>0, <1>2, <2>1 DEF BuildPorts
  <2> QED BY <1>0, <1>2, <2>1, <2>2 DEF BuildPorts, FillInv, building
<1>3. CASE Chain' = Chain /\ BuildInstance
  <2>1. slot \in Slots /\ slot = activePlugins + 1 /\ slot' = slot
    BY <1>0, <1>3 DEF BuildInstance, FillInv, slot, Slots
  <2>2. /\ lilv_instance'[slot] = Head(todo)
        /\ \A k \in 1..activePlugins : lilv_instance'[k] = lilv_instance[k]
    BY <1>0, <1>3, <2>1 DEF BuildInstance
  <2> QED BY <1>0, <1>3, <2>1, <2>2 DEF BuildInstance, FillInv, building
<1>4. CASE Chain' = Chain /\ BuildCount
  <2>1. /\ todo' = Tail(todo) /\ activePlugins' = activePlugins + 1 /\ gtk' = "next"
        /\ UNCHANGED <<ports, lilv_instance>> /\ gtk = "count"
    BY <1>4 DEF BuildCount
  <2>2. /\ Len(todo') = Len(todo) - 1 /\ Len(todo) \in Nat
        /\ \A k \in 1..Len(todo') : todo'[k] = todo[k + 1] /\ k + 1 \in 1..Len(todo)
    BY <1>0, <2>1
  <2>3. Head(todo) = todo[1] /\ 1 \in 1..Len(todo)
    BY <1>0, <2>1
  <2>4. todo[1] = Chain[activePlugins + 1]
    BY <2>3 DEF FillInv
  <2>5. \A k \in 1..Len(todo') : todo'[k] = Chain'[activePlugins' + k]
    <3> TAKE k \in 1..Len(todo')
    <3>1. todo[k + 1] = Chain[activePlugins + (k + 1)]
      BY <2>2 DEF FillInv
    <3>2. activePlugins + (k + 1) = activePlugins' + k
      BY <1>0, <2>1, <2>2
    <3> QED BY <1>4, <2>2, <3>1, <3>2
  <2>6. ASSUME NEW k \in 1..activePlugins'
        PROVE  lilv_instance'[k] = Chain'[k] /\ ports'[k] = Chain'[k]
    <3>1. CASE k = activePlugins + 1
      BY <1>4, <2>1, <2>3, <2>4, <3>1 DEF FillInv, slot
    <3>2. CASE k # activePlugins + 1
      <4>1. k \in 1..activePlugins
        BY <1>0, <2>1, <3>2
      <4> QED BY <1>4, <2>1, <4>1 DEF FillInv
    <3> QED BY <3>1, <3>2
  <2>7. activePlugins' + Len(todo') = Len(Chain')
    BY <1>0, <1>4, <2>1, <2>2 DEF FillInv
  <2> QED BY <2>1, <2>5, <2>6, <2>7 DEF FillInv, building
<1>5. CASE Chain' = Chain /\ UNCHANGED <<slotVars, todo>> /\ (building' <=> building)
           /\ (gtk' = gtk \/ ~building')
  BY <1>5 DEF FillInv, slotVars, slot, building
<1>6. CASE SetBypass \/ ClearBypass \/ Grow
  <2>1. Chain' = Chain /\ UNCHANGED <<slotVars, todo>> /\ ~building' /\ ~building
    BY <1>6 DEF SetBypass, ClearBypass, Grow, MayEdit, rackVars, Chain, building
  <2> QED BY <1>5, <2>1
<1>7. CASE BuildEnd
  <2>1. Chain' = Chain /\ UNCHANGED <<slotVars, todo>> /\ ~building' /\ todo = <<>>
    BY <1>7 DEF BuildEnd, rackVars, Chain, building
  <2> QED BY <2>1 DEF FillInv, slotVars, slot, building
<1>8. CASE ProcessBegin \/ ProcessTest \/ ProcessConnect \/ ProcessRun \/ ProcessEnd
  <2>1. Chain' = Chain /\ UNCHANGED <<slotVars, todo, gtk>>
    BY <1>8 DEF ProcessBegin, ProcessTest, ProcessConnect, ProcessRun, ProcessEnd,
       rackVars, Chain
  <2> QED BY <1>5, <2>1 DEF building
<1>9. CASE check_notify
  <2>1. Chain' = Chain /\ UNCHANGED <<slotVars, todo, gtk>>
    BY <1>9 DEF check_notify, WalkBegin, WalkTest, WalkAt, WalkLoad, WalkEnd,
       unchangedByWalk, rackVars, Chain
  <2> QED BY <1>5, <2>1 DEF building
<1>10. CASE UNCHANGED vars
  <2>1. Chain' = Chain /\ UNCHANGED <<slotVars, todo, gtk>>
    BY <1>10 DEF vars, rackVars, Chain
  <2> QED BY <1>5, <2>1 DEF building
<1> QED BY <1>1, <1>2, <1>3, <1>4, <1>6, <1>7, <1>8, <1>9, <1>10, ChainActions, ChainStays

LEMMA Filling == Spec => []FillInv
BY FillInit, FillStep, ChainTypes, PTL DEF Spec

\* At rest the slots in use are the plugins that are on, in rack order
\* (engine.cc:175-210).
THEOREM SettledAtRest == Spec => []SettledChain
<1>1. ChainTypeInv /\ FillInv => SettledChain
  BY DEF ChainTypeInv, SlotsOK, SlotsTyped, FillInv, building, SettledChain
<1> QED BY <1>1, ChainTypes, Filling, PTL

-----------------------------------------------------------------------------
(* A pass *)

\* What an undisturbed pass has run is the chain up to the slot it is at; that slot
\* is in use, and stays in use, because slots are only filled unless the pass is
\* disturbed; one that began at rest still has the whole chain before it.
OnItsWay ==
  /\ Len(ran) = i - 1
  /\ i <= activePlugins + 1
  /\ callback \in {"connect", "run"} => i <= activePlugins
  /\ callback = "run" => connected = [instance |-> Chain[i], ports |-> Chain[i]]
  /\ \A k \in 1..Len(ran) : ran[k] = [plugin |-> Chain[k], whole |-> TRUE]
  /\ ~partial => ~building

PassInv ==
  /\ callback = "idle" => ~disturbed /\ ran = <<>>
  /\ callback # "idle" /\ ~disturbed => OnItsWay

LEMMA PassInit == Init => PassInv
BY DEF Init, PassInv

\* A step that is not the callback's and does not rebuild leaves the pass where it
\* is, on a chain that is the same and has no fewer slots in use.
LEMMA PassWaits ==
  ASSUME ChainTypeInv, PassInv, UNCHANGED <<passVars, disturbed>>, Chain' = Chain,
         activePlugins \in Nat, activePlugins' \in Nat, activePlugins <= activePlugins',
         ~partial => (building' => building)
  PROVE  PassInv'
<1>1. i \in Nat /\ UNCHANGED <<callback, i, connected, ran, partial, disturbed>>
  BY ChainAssumption DEF ChainTypeInv, PassOK, PassTyped, passVars
<1>2. CASE callback = "idle"
  BY <1>1, <1>2 DEF PassInv
<1>3. CASE callback # "idle" /\ disturbed
  BY <1>1, <1>3 DEF PassInv
<1>4. CASE callback # "idle" /\ ~disturbed
  <2>1. OnItsWay
    BY <1>4 DEF PassInv
  <2>2. i <= activePlugins' + 1 /\ (callback \in {"connect", "run"} => i <= activePlugins')
    BY <1>1, <2>1 DEF OnItsWay
  <2> QED BY <1>1, <1>4, <2>1, <2>2 DEF PassInv, OnItsWay
<1> QED BY <1>2, <1>3, <1>4

LEMMA PassStep ==
  ASSUME ChainTypeInv, FillInv, PassInv, [Next]_vars
  PROVE  PassInv'
<1>0. /\ Chain \in Seq(Plugins) /\ Len(Chain) \in Nat /\ Len(Chain) <= MAX_PLUGINS
      /\ activePlugins \in Nat /\ MAX_PLUGINS \in Nat /\ i \in Nat \ {0}
      /\ activePlugins <= Len(Chain) /\ Len(todo) \in Nat
  BY ChainFits, ChainAssumption
  DEF ChainTypeInv, RackOK, SlotsOK, SlotsTyped, PassOK, PassTyped, FillInv
<1>1. CASE Rebuild
  <2>1. BuildBegin
    BY <1>1, RebuildBegins
  <2>2. disturbed' = (callback # "idle") /\ UNCHANGED <<callback, ran>>
    BY <2>1 DEF BuildBegin, passVars
  <2> QED BY <2>2 DEF PassInv
<1>2. CASE SetBypass \/ ClearBypass \/ Grow
  <2>1. Chain' = Chain /\ UNCHANGED <<passVars, disturbed, activePlugins>> /\ ~building'
    BY <1>2 DEF SetBypass, ClearBypass, Grow, MayEdit, rackVars, slotVars, Chain, building
  <2> QED BY <1>0, <2>1, PassWaits
<1>3. CASE BuildPorts \/ BuildInstance \/ BuildEnd
  <2>1. Chain' = Chain /\ UNCHANGED <<passVars, disturbed, activePlugins>> /\ building
    BY <1>3 DEF BuildPorts, BuildInstance, BuildEnd, rackVars, slotVars, Chain, building
  <2> QED BY <1>0, <2>1, PassWaits
<1>4. CASE BuildCount
  <2>1. Chain' = Chain /\ UNCHANGED <<passVars, disturbed>> /\ building
        /\ activePlugins' = activePlugins + 1
    BY <1>4 DEF BuildCount, rackVars, Chain, building
  <2> QED BY <1>0, <2>1, PassWaits
<1>5. CASE ProcessBegin
  <2>1. /\ callback = "idle" /\ callback' = "test" /\ i' = 1 /\ partial' = (gtk # "idle")
        /\ UNCHANGED <<ran, connected, disturbed, activePlugins, gtk>> /\ Chain' = Chain
    BY <1>5 DEF ProcessBegin, rackVars, slotVars, Chain
  <2>2. ran' = <<>>
    BY <2>1 DEF PassInv
  <2>3. ~partial' => ~building'
    BY <2>1 DEF building
  <2>4. OnItsWay'
    BY <1>0, <2>1, <2>2, <2>3 DEF OnItsWay
  <2> QED BY <2>1, <2>4 DEF PassInv
<1>6. CASE ProcessTest
  <2>1. /\ callback = "test" /\ i <= activePlugins
        /\ UNCHANGED <<ran, connected, disturbed, activePlugins, gtk, partial>> /\ Chain' = Chain
    BY <1>6 DEF ProcessTest, rackVars, slotVars, Chain
  <2>2. lilv_instance[i] = Chain[i] /\ Chain[i] # NULL
    BY <1>0, <2>1, ChainAssumption DEF FillInv
  <2>3. callback' = "connect" /\ i' = i
    BY <1>6, <2>2 DEF ProcessTest
  <2> QED BY <1>0, <2>1, <2>3 DEF PassInv, OnItsWay, building
<1>7. CASE ProcessConnect
  <2>1. /\ callback = "connect" /\ callback' = "run"
        /\ connected' = [instance |-> lilv_instance[i], ports |-> ports[i]]
        /\ UNCHANGED <<ran, i, disturbed, activePlugins, gtk, partial>> /\ Chain' = Chain
    BY <1>7 DEF ProcessConnect, rackVars, slotVars, Chain
  <2>2. ASSUME ~disturbed PROVE lilv_instance[i] = Chain[i] /\ ports[i] = Chain[i]
    BY <1>0, <2>1, <2>2 DEF FillInv, PassInv, OnItsWay
  <2> QED BY <1>0, <2>1, <2>2 DEF PassInv, OnItsWay, building
<1>8. CASE ProcessRun
  <2>1. /\ callback = "run" /\ callback' = "test" /\ i' = i + 1
        /\ ran' = Append(ran, [plugin |-> lilv_instance[i],
                               whole |-> connected = [instance |-> lilv_instance[i],
                                                      ports |-> lilv_instance[i]]])
        /\ UNCHANGED <<disturbed, activePlugins, gtk, partial>> /\ Chain' = Chain
    BY <1>8 DEF ProcessRun, rackVars, slotVars, Chain
  <2>2. ran \in Seq([plugin : Plugins \cup {NULL}, whole : BOOLEAN])
    BY DEF ChainTypeInv, PassOK, PassTyped
  <2> SUFFICES ASSUME ~disturbed' PROVE OnItsWay'
    BY <2>1 DEF PassInv
  <2>3. OnItsWay /\ i <= activePlugins /\ connected = [instance |-> Chain[i], ports |-> Chain[i]]
    BY <2>1 DEF PassInv, OnItsWay
  <2>4. lilv_instance[i] = Chain[i]
    BY <1>0, <2>3 DEF FillInv
  <2>5. ran' = Append(ran, [plugin |-> Chain[i], whole |-> TRUE])
    BY <2>1, <2>3, <2>4
  <2>6. /\ Len(ran') = Len(ran) + 1 /\ ran'[Len(ran) + 1] = [plugin |-> Chain[i], whole |-> TRUE]
        /\ \A k \in 1..Len(ran) : ran'[k] = ran[k]
    <3>1. [plugin |-> Chain[i], whole |-> TRUE] \in [plugin : Plugins \cup {NULL}, whole : BOOLEAN]
      BY <1>0, <2>3
    <3> DEFINE r == [plugin |-> Chain[i], whole |-> TRUE]
               R == [plugin : Plugins \cup {NULL}, whole : BOOLEAN]
    <3> HIDE DEF r, R
    <3>2. r \in R /\ ran \in Seq(R) /\ ran' = Append(ran, r)
      BY <2>2, <2>5, <3>1 DEF r, R
    <3>3. Len(ran') = Len(ran) + 1 /\ ran'[Len(ran) + 1] = r /\ \A k \in 1..Len(ran) : ran'[k] = ran[k]
      BY <3>2
    <3> QED BY <3>3 DEF r
  <2>7. \A k \in 1..Len(ran') : ran'[k] = [plugin |-> Chain[k], whole |-> TRUE]
    <3> TAKE k \in 1..Len(ran')
    <3>1. CASE k = Len(ran) + 1
      BY <1>0, <2>3, <2>6, <3>1 DEF OnItsWay
    <3>2. CASE k # Len(ran) + 1
      <4>1. k \in 1..Len(ran)
        BY <2>2, <2>6, <3>2
      <4> QED BY <2>3, <2>6, <4>1 DEF OnItsWay
    <3> QED BY <3>1, <3>2
  <2>8. Len(ran') = i' - 1 /\ i' <= activePlugins' + 1
    BY <1>0, <2>1, <2>3, <2>6 DEF OnItsWay
  <2> QED BY <2>1, <2>3, <2>7, <2>8 DEF OnItsWay, building
<1>9. CASE ProcessEnd
  BY <1>9 DEF ProcessEnd, PassInv
<1>10. CASE check_notify \/ UNCHANGED vars
  <2>1. Chain' = Chain /\ UNCHANGED <<passVars, disturbed, activePlugins, gtk>>
    BY <1>10 DEF check_notify, WalkBegin, WalkTest, WalkAt, WalkLoad, WalkEnd,
       unchangedByWalk, vars, rackVars, slotVars, Chain
  <2> QED BY <1>0, <2>1, PassWaits DEF building
<1> QED
  BY <1>1, <1>2, <1>3, <1>4, <1>5, <1>6, <1>7, <1>8, <1>9, <1>10, ChainActions

LEMMA Passing == Spec => []PassInv
BY PassInit, PassStep, ChainTypes, Filling, PTL DEF Spec

\* A pass whose slots were not reset under it runs plugins of the chain from the
\* first on, each by its own port numbers (process.cc:36-53).
THEOREM PassRunsPrefix == Spec => []PassIsPrefix
<1>1. ChainTypeInv /\ FillInv /\ PassInv => PassIsPrefix
  <2> SUFFICES ASSUME ChainTypeInv, FillInv, PassInv, ~disturbed
               PROVE  /\ Len(ran) <= Len(Chain)
                      /\ \A k \in 1..Len(ran) : ran[k] = [plugin |-> Chain[k], whole |-> TRUE]
    BY DEF PassIsPrefix
  <2>1. activePlugins \in Nat /\ activePlugins <= Len(Chain) /\ Len(Chain) \in Nat /\ i \in Nat
    BY ChainFits, ChainAssumption
    DEF ChainTypeInv, RackOK, SlotsOK, SlotsTyped, PassOK, PassTyped, FillInv
  <2>2. CASE callback = "idle"
    BY <2>1, <2>2 DEF PassInv
  <2>3. CASE callback # "idle"
    BY <2>1, <2>3 DEF PassInv, OnItsWay
  <2> QED BY <2>2, <2>3
<1> QED BY <1>1, ChainTypes, Filling, Passing, PTL

\* A pass that neither began while the slots were being filled nor had them reset
\* under it has run the whole chain when it ends.
THEOREM PassRunsAll == Spec => PassIsComplete
<1>1. ASSUME ChainTypeInv, FillInv, PassInv, [Next]_vars,
             callback # "idle", callback' = "idle", ~disturbed, ~partial
      PROVE  Len(ran) = Len(Chain)
  <2>1. ProcessEnd
    <3>1. CASE Rebuild
      <4>1. BuildBegin
        BY <1>1, <3>1, RebuildBegins
      <4> QED BY <1>1, <4>1 DEF BuildBegin, passVars
    <3>2. CASE SetBypass \/ ClearBypass \/ Grow
      BY <1>1, <3>2 DEF SetBypass, ClearBypass, Grow, passVars
    <3>3. CASE BuildPorts \/ BuildInstance \/ BuildCount \/ BuildEnd
      BY <1>1, <3>3 DEF BuildPorts, BuildInstance, BuildCount, BuildEnd, passVars
    <3>4. CASE ProcessBegin \/ ProcessTest \/ ProcessConnect \/ ProcessRun
      BY <1>1, <3>4 DEF ProcessBegin, ProcessTest, ProcessConnect, ProcessRun
    <3>5. CASE check_notify \/ UNCHANGED vars
      BY <1>1, <3>5 DEF check_notify, WalkBegin, WalkTest, WalkAt, WalkLoad, WalkEnd,
         unchangedByWalk, vars, passVars
    <3> QED BY <1>1, <3>1, <3>2, <3>3, <3>4, <3>5, ChainActions
  <2>2. OnItsWay /\ ~building
    BY <1>1 DEF PassInv, OnItsWay
  <2>3. i > activePlugins /\ todo = <<>>
    BY <1>1, <2>1, <2>2 DEF ProcessEnd, FillInv
  <2>4. activePlugins \in Nat /\ i \in Nat /\ activePlugins + Len(todo) = Len(Chain)
    BY <1>1, ChainAssumption DEF ChainTypeInv, SlotsOK, SlotsTyped, PassOK, PassTyped, FillInv
  <2> QED BY <2>2, <2>3, <2>4 DEF OnItsWay
<1>2. ChainTypeInv /\ FillInv /\ PassInv /\ [Next]_vars =>
        [callback # "idle" /\ callback' = "idle" /\ ~disturbed /\ ~partial =>
           Len(ran) = Len(Chain)]_vars
  BY <1>1
<1>3. Spec => [][callback # "idle" /\ callback' = "idle" /\ ~disturbed /\ ~partial =>
                  Len(ran) = Len(Chain)]_vars
  BY <1>2, ChainTypes, Filling, Passing, PTL DEF Spec
<1> QED BY <1>3 DEF PassIsComplete

-----------------------------------------------------------------------------
(* The walk of check_notify *)

\* What an unshaken walk has read is the rack up to the plugin it is at; a storage
\* that is gone is known to have grown; a plugin tested to be there is gone only if
\* the vector has shrunk.
WalkInv ==
  /\ worker = "idle" => seen = <<>> /\ w = 1 /\ ~stale
  /\ worker # "idle" /\ shaken = {} =>
       /\ Len(seen) = w - 1 /\ w - 1 <= Len(rack)
       /\ \A k \in 1..Len(seen) : seen[k] = rack[k]
  /\ worker # "idle" /\ (stale \/ gtk = "grow") => "grown" \in shaken
  /\ worker \in {"at", "load"} => w <= Len(rack) \/ "shrunk" \in shaken
  /\ WalkDiesOnlyByEdits

LEMMA WalkInit == Init => WalkInv
BY DEF Init, WalkInv, WalkDiesOnlyByEdits

\* A step that leaves the vector and the walk alone, and does not begin to grow it.
LEMMA WalkWaits ==
  ASSUME WalkInv, UNCHANGED <<rack, worker, w, seen, stale, shaken>>, gtk' = "grow" => gtk = "grow"
  PROVE  WalkInv'
BY DEF WalkInv, WalkDiesOnlyByEdits

LEMMA WalkStep ==
  ASSUME ChainTypeInv, WalkInv, [Next]_vars
  PROVE  WalkInv'
<1>0. /\ rack \in Seq(Plugins) /\ Len(rack) \in Nat /\ w \in Nat \ {0} /\ seen \in Seq(Plugins)
      /\ WalkTyped /\ stale \in BOOLEAN
  BY ChainAssumption DEF ChainTypeInv, RackOK, RackTyped, WalkOK, WalkTyped
<1>1. CASE SetBypass \/ ClearBypass
  BY <1>1, WalkWaits DEF SetBypass, ClearBypass, rackVars, vectorVars, walkVars
<1>2. CASE Grow
  <2>1. /\ UNCHANGED <<worker, w, seen>>
        /\ \/ shaken' = {} /\ worker = "idle"
           \/ shaken \subseteq shaken' /\ "grown" \in shaken'
    BY <1>0, <1>2, Shaking DEF Grow
  <2>2. UNCHANGED rack /\ stale' = (worker \in {"at", "load"})
    BY <1>2 DEF Grow, rackVars
  <2> QED BY <2>1, <2>2 DEF WalkInv, WalkDiesOnlyByEdits
<1>3. CASE Rebuild
  <2>1. /\ RackChanges /\ WalkShaken /\ UNCHANGED <<worker, w, seen, stale>> /\ gtk' = "next"
        /\ Len(rack') \in Nat
    BY <1>3, RebuildBegins DEF BuildBegin, RackChanges
  <2>2. CASE shaken' = {} /\ worker = "idle"
    BY <2>1, <2>2 DEF WalkInv, WalkDiesOnlyByEdits
  <2>3. CASE shaken \subseteq shaken' /\ "shrunk" \in shaken'
    BY <2>1, <2>3 DEF WalkInv, WalkDiesOnlyByEdits
  <2>4. CASE shaken \subseteq shaken' /\ shaken' # {} /\ Len(rack) <= Len(rack')
    BY <1>0, <2>1, <2>4 DEF WalkInv, WalkDiesOnlyByEdits
  <2>5. CASE /\ shaken' = shaken /\ Len(rack) <= Len(rack')
             /\ \A k \in 1..Len(rack) : rack'[k] = rack[k]
    <3>1. ASSUME worker # "idle", shaken = {}
          PROVE  /\ Len(seen) = w - 1 /\ w - 1 <= Len(rack')
                 /\ \A k \in 1..Len(seen) : seen[k] = rack'[k]
      BY <1>0, <2>1, <2>5, <3>1 DEF WalkInv
    <3>2. worker \in {"at", "load"} => w <= Len(rack') \/ "shrunk" \in shaken
      BY <1>0, <2>1, <2>5 DEF WalkInv
    <3> QED BY <2>1, <2>5, <3>1, <3>2 DEF WalkInv, WalkDiesOnlyByEdits
  <2> QED BY <2>1, <2>2, <2>3, <2>4, <2>5 DEF WalkShaken
<1>4. CASE BuildPorts \/ BuildInstance \/ BuildCount \/ BuildEnd
  BY <1>4, WalkWaits
  DEF BuildPorts, BuildInstance, BuildCount, BuildEnd, rackVars, vectorVars, walkVars
<1>5. CASE ProcessBegin \/ ProcessTest \/ ProcessConnect \/ ProcessRun \/ ProcessEnd
  BY <1>5, WalkWaits DEF ProcessBegin, ProcessTest, ProcessConnect, ProcessRun, ProcessEnd,
     rackVars, vectorVars, walkVars
<1>6. CASE WalkBegin
  <2>1. /\ worker = "idle" /\ worker' = "test"
        /\ shaken' = (IF gtk = "grow" THEN {"grown"} ELSE {})
        /\ UNCHANGED <<w, seen, stale, rack, gtk>>
    BY <1>6 DEF WalkBegin, unchangedByWalk, rackVars
  <2> QED BY <1>0, <2>1 DEF WalkInv, WalkDiesOnlyByEdits
<1>7. CASE WalkTest
  <2>1. /\ worker = "test" /\ worker' = "at" /\ w <= Len(rack) /\ stale' = FALSE
        /\ UNCHANGED <<w, seen, shaken, rack, gtk>>
    BY <1>7 DEF WalkTest, unchangedByWalk, rackVars
  <2> QED BY <1>0, <2>1 DEF WalkInv, WalkDiesOnlyByEdits
<1>8. CASE WalkAt
  <2>1. /\ worker = "at" /\ (worker' = "load" \/ (w > Len(rack) /\ worker' = "dead"))
        /\ UNCHANGED <<w, seen, shaken, stale, rack, gtk>>
    BY <1>8 DEF WalkAt, unchangedByWalk, rackVars
  <2> QED BY <1>0, <2>1 DEF WalkInv, WalkDiesOnlyByEdits
<1>9. CASE WalkLoad
  <2>1. /\ worker = "load" /\ w' = w + 1
        /\ (worker' = "test" \/ ((stale \/ gtk = "grow") /\ worker' = "dead"))
        /\ seen' = (IF shaken = {} THEN Append(seen, rack[w]) ELSE <<>>)
        /\ UNCHANGED <<shaken, stale, rack, gtk>>
    BY <1>9 DEF WalkLoad, unchangedByWalk, rackVars
  <2>2. ASSUME shaken = {}
        PROVE  /\ Len(seen') = w' - 1 /\ w' - 1 <= Len(rack)
               /\ \A k \in 1..Len(seen') : seen'[k] = rack[k]
    <3>1. w <= Len(rack) /\ Len(seen) = w - 1 /\ \A k \in 1..Len(seen) : seen[k] = rack[k]
      BY <2>1, <2>2 DEF WalkInv
    <3>2. rack[w] \in Plugins
      BY <1>0, <3>1
    <3>3. seen' = Append(seen, rack[w])
      BY <2>1, <2>2
    <3>4. Len(seen') = w /\ seen'[w] = rack[w] /\ \A k \in 1..Len(seen) : seen'[k] = seen[k]
      BY <1>0, <3>1, <3>2, <3>3
    <3> QED BY <1>0, <2>1, <3>1, <3>4
  <2> QED BY <1>0, <2>1, <2>2 DEF WalkInv, WalkDiesOnlyByEdits
<1>10. CASE WalkEnd
  <2>1. worker' = "idle" /\ w' = 1 /\ stale' = FALSE /\ seen' = <<>>
    BY <1>10 DEF WalkEnd
  <2> QED BY <2>1 DEF WalkInv, WalkDiesOnlyByEdits
<1>11. CASE UNCHANGED vars
  BY <1>11, WalkWaits DEF vars, rackVars, vectorVars, walkVars
<1> QED
  BY <1>1, <1>2, <1>3, <1>4, <1>5, <1>6, <1>7, <1>8, <1>9, <1>10, <1>11, ChainActions
  DEF check_notify

LEMMA Walking == Spec => []WalkInv
BY WalkInit, WalkStep, ChainTypes, PTL DEF Spec

\* The worker's walk ends the program only if the vector grew or shrank under it.
THEOREM WalkSafe == Spec => []WalkDiesOnlyByEdits
<1>1. WalkInv => WalkDiesOnlyByEdits
  BY DEF WalkInv
<1> QED BY <1>1, Walking, PTL

\* A walk under which the vector was left alone, but for plugins added within its
\* storage, has read the whole rack in order when it ends.
THEOREM WalkReadsAll == Spec => WalkIsComplete
<1>1. ASSUME ChainTypeInv, WalkInv, [Next]_vars, worker # "idle", worker' = "idle", shaken = {}
      PROVE  seen = rack
  <2>1. WalkEnd
    <3>1. CASE SetBypass \/ ClearBypass \/ Grow
      BY <1>1, <3>1 DEF SetBypass, ClearBypass, Grow, Shake, vectorVars, walkVars
    <3>2. CASE Rebuild
      BY <1>1, <3>2, RebuildBegins
    <3>3. CASE BuildPorts \/ BuildInstance \/ BuildCount \/ BuildEnd
      BY <1>1, <3>3 DEF BuildPorts, BuildInstance, BuildCount, BuildEnd, vectorVars, walkVars
    <3>4. CASE ProcessBegin \/ ProcessTest \/ ProcessConnect \/ ProcessRun \/ ProcessEnd
      BY <1>1, <3>4 DEF ProcessBegin, ProcessTest, ProcessConnect, ProcessRun, ProcessEnd,
         vectorVars, walkVars
    <3>5. CASE check_notify
      BY <1>1, <3>5 DEF check_notify, WalkBegin, WalkTest, WalkAt, WalkLoad
    <3>6. CASE UNCHANGED vars
      BY <1>1, <3>6 DEF vars, vectorVars, walkVars
    <3> QED BY <1>1, <3>1, <3>2, <3>3, <3>4, <3>5, <3>6, ChainActions
  <2>2. /\ Len(seen) = w - 1 /\ w - 1 <= Len(rack)
        /\ \A k \in 1..Len(seen) : seen[k] = rack[k]
    BY <1>1 DEF WalkInv
  <2>3. w > Len(rack) /\ seen \in Seq(Plugins) /\ rack \in Seq(Plugins) /\ w \in Nat
    BY <1>1, <2>1, ChainAssumption
    DEF WalkEnd, ChainTypeInv, RackOK, RackTyped, WalkOK, WalkTyped
  <2>4. Len(seen) = Len(rack)
    BY <2>2, <2>3
  <2> QED BY <2>2, <2>3, <2>4
<1>2. ChainTypeInv /\ WalkInv /\ [Next]_vars =>
        [worker # "idle" /\ worker' = "idle" /\ shaken = {} => seen = rack]_vars
  BY <1>1
<1>3. Spec => [][worker # "idle" /\ worker' = "idle" /\ shaken = {} => seen = rack]_vars
  BY <1>2, ChainTypes, Walking, PTL DEF Spec
<1> QED BY <1>3 DEF WalkIsComplete
===============================================================================
