---------------------------- MODULE PluginChain ----------------------------
(***************************************************************************)
(* The plugin chain of src/engine.cc and src/process.cc.  The GTK thread   *)
(* keeps the plugins in a vector and, after every change, copies the ones  *)
(* that are on into the arrays of Processor; the JACK callback walks those *)
(* arrays on every block.  No lock protects them.  Some changes set        *)
(* `bypass' first, so that no new pass starts; none waits for a pass that  *)
(* is under way.  The worker walks the vector itself (check_notify), after  *)
(* every block it has taken from the queue.                                *)
(*                                                                         *)
(* A slot of the arrays is abstracted to the plugin its port numbers are   *)
(* from (ports) and the plugin its instance is from (lilv_instance): they  *)
(* are written one after the other.  Stores are seen in source order.  Of  *)
(* the vector's memory only its growth is kept: push_back frees the old    *)
(* storage before it points the vector at the new one.                     *)
(***************************************************************************)
EXTENDS Integers, SequencesExt, Selection

CONSTANTS Plugins,    \* the plugin instances that are ever created
          MAX_PLUGINS, \* slots in the arrays of Processor
          NULL,       \* what an unused slot holds
          MaxEdits    \* bound: how often the GTK thread changes the rack

\* Nothing in the code keeps the rack from outgrowing the arrays; that it does not
\* is assumed.
ASSUME ChainAssumption ==
  /\ MAX_PLUGINS \in Nat
  /\ NULL \notin Plugins
  /\ MaxEdits \in Nat

VARIABLES rack,          \* Engine::activePlugins, the plugins in order
          on,            \* those whose `active' is set
          created,       \* those that have been created
          gtk,           \* where the GTK thread is
          todo,          \* what buildPluginChain has still to copy
          bypass,        \* Processor::bypass
          activePlugins, \* Processor::activePlugins, the number of slots in use
          ports,         \* whose port numbers a slot holds
          lilv_instance, \* whose instance a slot holds
          callback,      \* where the callback is
          i,             \* the slot it is at
          connected      \* the instance and the port numbers it connected last

\* history
VARIABLES ran,       \* what the pass has run so far
          disturbed, \* the slots were reset under the pass
          partial,   \* the pass began while the slots were being filled
          edits      \* how many changes have been made

VARIABLES capacity, \* how many plugins the storage of the vector takes
          worker,   \* where the worker is in check_notify; "dead": it has ended
                    \* the program
          w,        \* the plugin it is at
          stale     \* the storage has been replaced since its last test

\* history
VARIABLES seen,     \* the plugins this walk has read
          shaken    \* what has been done to the vector under it

walkVars == <<worker, w, seen>>
vectorVars == <<capacity, walkVars, stale, shaken>>
rackVars == <<rack, on, created, edits>>
slotVars == <<activePlugins, ports, lilv_instance>>
passVars == <<callback, i, connected, ran, partial>>
vars == <<rackVars, vectorVars, gtk, todo, bypass, slotVars, passVars, disturbed>>

Slots == 1..MAX_PLUGINS

\* The chain the user sees: the plugins that are on, in rack order.
Chain == Kept(rack, on)

\* The rack and where its changes are.
RackTyped ==
  /\ rack \in Seq(Plugins)
  /\ Len(rack) <= MAX_PLUGINS
  /\ on \in SUBSET Plugins
  /\ created \in SUBSET Plugins
  /\ edits \in 0..MaxEdits
  /\ gtk \in {"idle", "add", "grow", "up", "file", "next", "instance", "count"}
  /\ capacity \in Nat
  /\ Len(rack) <= capacity

SlotsTyped ==
  /\ todo \in Seq(Plugins)
  /\ bypass \in BOOLEAN
  /\ activePlugins \in 0..MAX_PLUGINS
  /\ ports \in [Slots -> Plugins \cup {NULL}]
  /\ lilv_instance \in [Slots -> Plugins \cup {NULL}]

PassTyped ==
  /\ callback \in {"idle", "test", "connect", "run"}
  /\ i \in 1..MAX_PLUGINS + 1
  /\ connected \in [instance : Plugins \cup {NULL}, ports : Plugins \cup {NULL}]
  /\ ran \in Seq([plugin : Plugins \cup {NULL}, whole : BOOLEAN])
  /\ disturbed \in BOOLEAN
  /\ partial \in BOOLEAN

WalkTyped ==
  /\ worker \in {"idle", "test", "at", "load", "dead"}
  /\ w \in 1..MAX_PLUGINS + 1
  /\ stale \in BOOLEAN
  /\ seen \in Seq(Plugins)
  /\ shaken \in SUBSET {"grown", "moved", "shrunk"}

TypeOK == RackTyped /\ SlotsTyped /\ PassTyped /\ WalkTyped

Init ==
  /\ rack = <<>> /\ on = {} /\ created = {} /\ edits = 0
  /\ gtk = "idle" /\ todo = <<>>
  /\ bypass = FALSE
  /\ activePlugins = 0
  /\ ports = [s \in Slots |-> NULL]
  /\ lilv_instance = [s \in Slots |-> NULL]
  /\ callback = "idle" /\ i = 1
  /\ connected = [instance |-> NULL, ports |-> NULL]
  /\ ran = <<>> /\ disturbed = FALSE /\ partial = FALSE
  /\ capacity = 0
  /\ worker = "idle" /\ w = 1 /\ stale = FALSE
  /\ seen = <<>> /\ shaken = {}

-----------------------------------------------------------------------------
(* The GTK thread: changes of the rack *)

MayEdit == gtk = "idle" /\ edits < MaxEdits

\* What a change does to the vector under the worker's walk.
Shake(how) ==
  /\ shaken' = IF worker = "idle" THEN {} ELSE shaken \cup how
  /\ UNCHANGED walkVars
\* buildPluginChain begins: no slot is in use, under whatever pass is under way.
\* The vector and `active' are the GTK thread's own until it is done.
BuildBegin ==
  /\ activePlugins' = 0
  /\ todo' = Kept(rack', on')
  /\ gtk' = "next"
  /\ edits' = edits + 1
  /\ disturbed' = (callback # "idle")
  /\ UNCHANGED <<ports, lilv_instance, bypass, passVars>>

\* addPlugin, moveActivePluginUp and the file setters begin with `bypass'.
SetBypass ==
  /\ MayEdit
  /\ gtk' \in {"add"} \cup (IF Len(rack) >= 1 THEN {"file"} ELSE {})
                      \cup (IF Len(rack) >= 2 THEN {"up"} ELSE {})
  /\ bypass' = TRUE
  /\ UNCHANGED <<rackVars, vectorVars, todo, slotVars, passVars, disturbed>>

\* A plugin that does not load, or a file, leaves the chain as it is.
ClearBypass ==
  /\ gtk \in {"add", "file"}
  /\ bypass' = FALSE
  /\ gtk' = "idle"
  /\ edits' = edits + 1
  /\ UNCHANGED <<rack, on, created, vectorVars, todo, slotVars, passVars, disturbed>>

\* push_back on a full vector: until it is done the vector's storage is freed memory.
Grow ==
  /\ gtk = "add"
  /\ Len(rack) = capacity
  /\ Len(rack) < MAX_PLUGINS
  /\ created # Plugins
  /\ gtk' = "grow"
  /\ capacity' = IF capacity = 0 THEN 1 ELSE 2 * capacity
  /\ stale' = (worker \in {"at", "load"})
  /\ Shake({"grown"})
  /\ UNCHANGED <<rackVars, todo, bypass, slotVars, passVars, disturbed>>

\* addPlugin.  The new plugin is on.
AddPlugin(p) ==
  /\ \/ gtk = "add" /\ Len(rack) < capacity
     \/ gtk = "grow"
  /\ p \notin created
  /\ Len(rack) < MAX_PLUGINS
  /\ rack' = Append(rack, p)
  /\ on' = on \cup {p}
  /\ created' = created \cup {p}
  /\ UNCHANGED vectorVars
  /\ BuildBegin

Swapped(s, n) == [s EXCEPT ![n] = s[n + 1], ![n + 1] = s[n]]

\* Moving the first plugin up does nothing at all (rack.cc:219, engine.cc:445).
MoveUp(n) ==
  /\ gtk = "up"
  /\ rack' = Swapped(rack, n - 1)
  /\ Shake({"moved"})
  /\ UNCHANGED <<on, created, capacity, stale>>
  /\ BuildBegin

\* moveActivePluginDown does not set `bypass'.  Of the last plugin it is undefined:
\* neither guard stops it (rack.cc:189, engine.cc:431).
MoveDown(n) ==
  /\ MayEdit
  /\ rack' = Swapped(rack, n)
  /\ Shake({"moved"})
  /\ UNCHANGED <<on, created, capacity, stale>>
  /\ BuildBegin

\* mutation: a deleted row leaves the slots as they are
DeleteWithoutBuild(n) ==
  /\ MayEdit
  /\ rack' = RemoveAt(rack, n)
  /\ edits' = edits + 1
  /\ Shake({"shrunk"})
  /\ UNCHANGED <<on, created, capacity, stale, gtk, todo, bypass, slotVars, passVars, disturbed>>

\* The delete button of a row (pluginui.cpp:44-52).
Delete(n) ==
  /\ MayEdit
  /\ rack' = RemoveAt(rack, n)
  /\ Shake({"shrunk"})
  /\ UNCHANGED <<on, created, capacity, stale>>
  /\ BuildBegin

\* Rack::clear.
Clear ==
  /\ MayEdit
  /\ rack' = <<>>
  /\ Shake({"shrunk"})
  /\ UNCHANGED <<on, created, capacity, stale>>
  /\ BuildBegin

\* The switch of a row (pluginui.cpp:67-74).
Switch(n, value) ==
  /\ MayEdit
  /\ on' = IF value THEN on \cup {rack[n]} ELSE on \ {rack[n]}
  /\ UNCHANGED <<rack, created, vectorVars>>
  /\ BuildBegin

Edit ==
  \/ SetBypass
  \/ ClearBypass
  \/ Grow
  \/ \E p \in Plugins : AddPlugin(p)
  \/ \E n \in 2..Len(rack) : MoveUp(n)
  \/ \E n \in 1..Len(rack) - 1 : MoveDown(n)
  \/ \E n \in 1..Len(rack) : Delete(n)
  \/ Clear
  \/ \E n \in 1..Len(rack), value \in BOOLEAN : Switch(n, value)

-----------------------------------------------------------------------------
(* The GTK thread: the loop of buildPluginChain *)

slot == activePlugins + 1

BuildPorts ==
  /\ gtk = "next"
  /\ todo # <<>>
  /\ ports' = [ports EXCEPT ![slot] = Head(todo)]
  /\ gtk' = "instance"
  /\ UNCHANGED <<rackVars, vectorVars, todo, bypass, activePlugins, lilv_instance, passVars,
                 disturbed>>

BuildInstance ==
  /\ gtk = "instance"
  /\ lilv_instance' = [lilv_instance EXCEPT ![slot] = Head(todo)]
  /\ gtk' = "count"
  /\ UNCHANGED <<rackVars, vectorVars, todo, bypass, activePlugins, ports, passVars, disturbed>>

BuildCount ==
  /\ gtk = "count"
  /\ activePlugins' = activePlugins + 1
  /\ todo' = Tail(todo)
  /\ gtk' = "next"
  /\ UNCHANGED <<rackVars, vectorVars, bypass, ports, lilv_instance, passVars, disturbed>>

\* Whoever set `bypass' clears it; to the others it makes no difference.
BuildEnd ==
  /\ gtk = "next"
  /\ todo = <<>>
  /\ bypass' = FALSE
  /\ gtk' = "idle"
  /\ UNCHANGED <<rackVars, vectorVars, todo, slotVars, passVars, disturbed>>

Build == BuildPorts \/ BuildInstance \/ BuildCount \/ BuildEnd

-----------------------------------------------------------------------------
(* The JACK callback *)

\* A call that finds `bypass' set returns at once.
ProcessBegin ==
  /\ callback = "idle"
  /\ ~bypass
  /\ callback' = "test"
  /\ i' = 1
  /\ partial' = (gtk # "idle")
  /\ UNCHANGED <<rackVars, vectorVars, gtk, todo, bypass, slotVars, connected, ran, disturbed>>

\* mutation: <= for < in the loop's condition
ProcessTestOneMore ==
  /\ callback = "test"
  /\ i <= activePlugins + 1
  /\ i \in Slots
  /\ IF lilv_instance[i] = NULL
     THEN i' = i + 1 /\ UNCHANGED callback
     ELSE callback' = "connect" /\ UNCHANGED i
  /\ UNCHANGED <<rackVars, vectorVars, gtk, todo, bypass, slotVars, connected, ran, disturbed,
                 partial>>

\* The loop compares with the count as it is now, and passes over a slot without an
\* instance (a plugin that has none is never added, engine.cc:10).
ProcessTest ==
  /\ callback = "test"
  /\ i <= activePlugins
  /\ IF lilv_instance[i] = NULL
     THEN i' = i + 1 /\ UNCHANGED callback
     ELSE callback' = "connect" /\ UNCHANGED i
  /\ UNCHANGED <<rackVars, vectorVars, gtk, todo, bypass, slotVars, connected, ran, disturbed,
                 partial>>

\* The instance and its port numbers are read where they are used.
ProcessConnect ==
  /\ callback = "connect"
  /\ connected' = [instance |-> lilv_instance[i], ports |-> ports[i]]
  /\ callback' = "run"
  /\ UNCHANGED <<rackVars, vectorVars, gtk, todo, bypass, slotVars, i, ran, disturbed, partial>>

\* The run is whole when the instance that runs is the one just connected, by its
\* own port numbers.
ProcessRun ==
  /\ callback = "run"
  /\ LET p == lilv_instance[i] IN
     ran' = Append(ran, [plugin |-> p, whole |-> connected = [instance |-> p, ports |-> p]])
  /\ i' = i + 1
  /\ callback' = "test"
  /\ UNCHANGED <<rackVars, vectorVars, gtk, todo, bypass, slotVars, connected, disturbed, partial>>

\* mutation: the last slot is left out
ProcessEndEarly ==
  /\ callback = "test"
  /\ i >= activePlugins
  /\ callback' = "idle"
  /\ ran' = <<>>
  /\ disturbed' = FALSE
  /\ i' = 1
  /\ connected' = [instance |-> NULL, ports |-> NULL]
  /\ UNCHANGED <<rackVars, vectorVars, gtk, todo, bypass, slotVars, partial>>

ProcessEnd ==
  /\ callback = "test"
  /\ i > activePlugins
  /\ callback' = "idle"
  /\ ran' = <<>>
  /\ disturbed' = FALSE
  /\ i' = 1
  /\ connected' = [instance |-> NULL, ports |-> NULL]
  /\ UNCHANGED <<rackVars, vectorVars, gtk, todo, bypass, slotVars, partial>>

Process ==
  ProcessBegin \/ ProcessTest \/ ProcessConnect \/ ProcessRun \/ ProcessEnd

-----------------------------------------------------------------------------
(* The worker: Engine::check_notify *)

unchangedByWalk ==
  UNCHANGED <<rackVars, capacity, gtk, todo, bypass, slotVars, passVars, disturbed>>

WalkBegin ==
  /\ worker = "idle"
  /\ worker' = "test"
  /\ shaken' = IF gtk = "grow" THEN {"grown"} ELSE {}
  /\ UNCHANGED <<w, seen, stale>>
  /\ unchangedByWalk

\* mutation: <= for < in the loop's condition
WalkTestOneMore ==
  /\ worker = "test"
  /\ w <= Len(rack) + 1
  /\ worker' = "at"
  /\ stale' = FALSE
  /\ UNCHANGED <<w, seen, shaken>>
  /\ unchangedByWalk

WalkTest ==
  /\ worker = "test"
  /\ w <= Len(rack)
  /\ worker' = "at"
  /\ stale' = FALSE
  /\ UNCHANGED <<w, seen, shaken>>
  /\ unchangedByWalk

\* at() tests again, unless the compiler has kept what the loop found; nobody
\* catches what it throws.
WalkAt ==
  /\ worker = "at"
  /\ \/ worker' = "load"
     \/ w > Len(rack) /\ worker' = "dead"
  /\ UNCHANGED <<w, seen, shaken, stale>>
  /\ unchangedByWalk

\* The plugin is read, out of freed memory if the vector grows or has grown under
\* the walk.  Beyond the last plugin there is still the one that was there.
WalkLoad ==
  /\ worker = "load"
  /\ \/ worker' = "test"
     \/ (stale \/ gtk = "grow") /\ worker' = "dead"
  /\ w' = w + 1
  /\ seen' = IF shaken = {} THEN Append(seen, rack[w]) ELSE <<>>
  /\ UNCHANGED <<shaken, stale>>
  /\ unchangedByWalk

\* mutation: the last plugin is left out
WalkEndEarly ==
  /\ worker = "test"
  /\ w >= Len(rack)
  /\ worker' = "idle"
  /\ w' = 1 /\ stale' = FALSE
  /\ seen' = <<>> /\ shaken' = {}
  /\ unchangedByWalk

WalkEnd ==
  /\ worker = "test"
  /\ w > Len(rack)
  /\ worker' = "idle"
  /\ w' = 1 /\ stale' = FALSE
  /\ seen' = <<>> /\ shaken' = {}
  /\ unchangedByWalk

check_notify == WalkBegin \/ WalkTest \/ WalkAt \/ WalkLoad \/ WalkEnd

-----------------------------------------------------------------------------
Next == worker # "dead" /\ (Edit \/ Build \/ Process \/ check_notify)

Spec == Init /\ [][Next]_vars

-----------------------------------------------------------------------------
(* Properties *)

\* Whenever the GTK thread is at rest the slots in use are the plugins that are on,
\* in rack order, each with its own port numbers (engine.cc:175-210): every change
\* of the rack rebuilds the chain.
SettledChain ==
  gtk = "idle" =>
    /\ activePlugins = Len(Chain)
    /\ \A k \in 1..activePlugins : lilv_instance[k] = Chain[k] /\ ports[k] = Chain[k]

\* A pass whose slots were not reset under it runs plugins of the chain from the
\* first on, none skipped, none twice, each connected by its own port numbers
\* (process.cc:36-53), even while the chain is being filled again.
PassIsPrefix ==
  ~disturbed =>
    /\ Len(ran) <= Len(Chain)
    /\ \A k \in 1..Len(ran) : ran[k] = [plugin |-> Chain[k], whole |-> TRUE]

\* A pass that neither began while the slots were being filled nor had them reset
\* under it ends only when it has run the whole chain.
PassIsComplete ==
  [][callback # "idle" /\ callback' = "idle" /\ ~disturbed /\ ~partial =>
       Len(ran) = Len(Chain)]_vars

\* The worker's walk ends the program only if a plugin was deleted, the rack was
\* cleared or the vector outgrew its storage under it (engine.cc:503-504 against
\* pluginui.cpp:49, rack.cc:597 and engine.cc:11): moving, switching and adding a
\* plugin for which there is room are safe at any step of it.
WalkDiesOnlyByEdits ==
  worker = "dead" => shaken \cap {"grown", "shrunk"} # {}

\* A walk under which the vector was neither moved in, grown nor shrunk reads every
\* plugin of the rack, each once and in order, those added meanwhile included.
WalkIsComplete ==
  [][worker # "idle" /\ worker' = "idle" /\ shaken = {} => seen = rack]_vars
=============================================================================
