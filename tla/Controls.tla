------------------------------- MODULE Controls -------------------------------
(***************************************************************************)
(* The values of the plugins' controls: what a plugin plays with, what its *)
(* row in the rack shows, and what presets hold.  src/Plugin.cpp makes a   *)
(* PluginControl for every control and atom port of a plugin,              *)
(* src/pluginui.cpp a slider for every PluginControl, and a preset is the  *)
(* list of values that Engine::getPreset reads from the controls and       *)
(* PluginUI::load_preset gives to the sliders.                             *)
(*                                                                         *)
(* `type' and `val' of a control port and the range of an atom port are    *)
(* never set: they may be anything the heap held.  Everything happens on   *)
(* the GTK thread.  Rows are taken to be where their plugins are; Rack     *)
(* says when they are.                                                     *)
(***************************************************************************)
EXTENDS Integers, SequencesExt, Selection

CONSTANTS Kinds,      \* the plugins installed
          Ports,      \* the ports of each, in order
          Library,    \* presets of assets/quick.json and the library
          Lo, Hi,     \* the range of every control
          Default,    \* the default of every control
          FileValues, \* values that stand in presets
          NoName,     \* the empty name
          Nothing,    \* no preset
          Garbage,    \* what `type' may look like where nobody sets it
          MaxPlugins  \* bound: plugins in the rack

PortTypes == {"audio", "controlIn", "controlOut", "atom"}

\* A preset: the name and the values of each plugin in its order.
Entries(names) == [name : names, values : Seq(FileValues)]

ASSUME ControlsAssumption ==
  /\ Ports \in [Kinds -> Seq(PortTypes)]
  /\ Lo \in Int /\ Hi \in Int /\ Default \in Lo..Hi
  /\ FileValues \subseteq Int
  /\ NoName \notin Kinds
  /\ \A preset \in Library : preset \in Seq(Entries({preset[i].name : i \in DOMAIN preset}))
  /\ Garbage \subseteq {"value", "ATOM", "LV2_ATOM"}
  /\ MaxPlugins \in Nat

VARIABLES rack,     \* the plugins with their rows, in order
          saved,    \* the preset last saved, or Nothing
          running,  \* the process has not died
          loaded    \* history: the preset loaded last, if nothing has changed since

controlsVars == <<rack, saved, running, loaded>>

\* A PluginControl and its slider.  def is the memory the plugin's port is
\* connected to; that of an atom port is a null pointer.
Controls ==
  [port : {"controlIn", "atom"}, type : {"value", "ATOM", "LV2_ATOM"},
   lo : Int, hi : Int, def : Int, shown : Int]

ControlsTypeOK ==
  /\ rack \in Seq([kind : Kinds, controls : Seq(Controls)])
  /\ Len(rack) <= MaxPlugins
  /\ \A i \in DOMAIN rack : \A c \in DOMAIN rack[i].controls :
       LET control == rack[i].controls[c]
       IN /\ control.shown \in control.lo..control.hi
          /\ control.port = "controlIn" => control.def \in Lo..Hi
  /\ saved = Nothing \/ saved \in Seq([name : Kinds \cup {NoName}, values : Seq(Lo..Hi)])
  /\ running \in BOOLEAN
  /\ loaded \in Library \cup {Nothing}

ControlsInit ==
  /\ rack = <<>>
  /\ saved = Nothing
  /\ running = TRUE
  /\ loaded = Nothing

-----------------------------------------------------------------------------
(* A plugin and its row *)

\* The ports that Plugin::Plugin makes a control for.
controlPorts(kind) == Kept(Ports[kind], {"controlIn", "atom"})

\* mutation: the adjustment takes any value
newControlsUnclamped(port) ==
  IF port = "controlIn"
  THEN [port : {port}, type : Garbage, lo : {Lo}, hi : {Hi},
        def : {Default}, shown : Lo..Hi + 1]
  ELSE {[port |-> port, type |-> "LV2_ATOM", lo |-> Lo, hi |-> hi, def |-> Default, shown |-> shown] :
          hi \in {Lo, Hi}, shown \in {Lo}}

\* The control of a port, with whatever was in the fields that nobody sets.
\* The adjustment brings the value into the range.
newControls(port) ==
  IF port = "controlIn"
  THEN [port : {port}, type : Garbage, lo : {Lo}, hi : {Hi},
        def : {Default}, shown : Lo..Hi]
  ELSE {[port |-> port, type |-> "LV2_ATOM", lo |-> Lo, hi |-> hi, def |-> Default, shown |-> shown] :
          hi \in {Lo, Hi}, shown \in {Lo}}

newPlugins(kind) ==
  LET ports == controlPorts(kind)
      some == UNION {newControls(ports[c]) : c \in DOMAIN ports}
  IN {[kind |-> kind, controls |-> controls] :
        controls \in {cs \in [DOMAIN ports -> some] :
                        \A c \in DOMAIN ports : cs[c] \in newControls(ports[c])}}

\* PluginUI::PluginUI: the controls that have a slider.
sliders(plugin) ==
  Kept([c \in DOMAIN plugin.controls |-> c],
       {c \in DOMAIN plugin.controls : plugin.controls[c].type # "ATOM"})

\* mutation: the plugin is given the value the slider has refused
setValueUnclamped(control, v) ==
  LET value == IF v < control.lo THEN control.lo ELSE IF v > control.hi THEN control.hi ELSE v
  IN IF value = control.shown THEN control
     ELSE [control EXCEPT !.shown = value, !.def = v]

\* gtk_range_set_value and, only if that changes the value, control_changed.
setValue(control, v) ==
  LET value == IF v < control.lo THEN control.lo ELSE IF v > control.hi THEN control.hi ELSE v
  IN IF value = control.shown THEN control
     ELSE [control EXCEPT !.shown = value, !.def = value]
\* control_changed stores through the null pointer of an atom port.
diesOf(before, after) ==
  \E c \in DOMAIN before.controls :
    before.controls[c].port = "atom" /\ after.controls[c] # before.controls[c]

\* mutation: the last slider gets no value
loadValuesShort(plugin, values) ==
  LET s == sliders(plugin)
      given(c) == {i \in DOMAIN s \cap DOMAIN values : s[i] = c /\ i < Len(s)}
  IN [plugin EXCEPT !.controls =
        [c \in DOMAIN @ |-> IF given(c) = {} THEN @[c]
                            ELSE setValue(@[c], values[CHOOSE i \in given(c) : TRUE])]]

\* PluginUI::load_preset: the values go to the sliders one after the other.
loadValues(plugin, values) ==
  LET s == sliders(plugin)
      given(c) == {i \in DOMAIN s \cap DOMAIN values : s[i] = c}
  IN [plugin EXCEPT !.controls =
        [c \in DOMAIN @ |-> IF given(c) = {} THEN @[c]
                            ELSE setValue(@[c], values[CHOOSE i \in given(c) : TRUE])]]

-----------------------------------------------------------------------------
\* Rack::addPluginByName from the dialog.
addPlugin(kind) ==
  /\ running
  /\ Len(rack) < MaxPlugins
  /\ \E plugin \in newPlugins(kind) : rack' = Append(rack, plugin)
  /\ loaded' = Nothing
  /\ UNCHANGED <<saved, running>>

\* The user moves a slider, or the knob, spin button or toggle that goes by the
\* same adjustment.
control_changed(i, c, v) ==
  LET plugin == [rack[i] EXCEPT !.controls[c] = setValue(@, v)] IN
  /\ running
  /\ rack[i].controls[c].type # "ATOM"
  /\ rack' = [rack EXCEPT ![i] = plugin]
  /\ running' = ~diesOf(rack[i], plugin)
  /\ loaded' = Nothing
  /\ UNCHANGED saved

\* The plugins of a preset that are found by their names.
found(preset) == Kept(preset, {entry \in Range(preset) : entry.name \in Kinds})

\* Rack::load_preset: the rack is cleared, and each plugin that is found by its
\* name is added and given its values.
loadPlugins(preset) ==
  LET entries == found(preset)
      some == UNION {newPlugins(entries[i].name) : i \in DOMAIN entries}
  IN /\ running
     /\ Len(entries) <= MaxPlugins
     /\ \E new \in [DOMAIN entries -> some] :
          /\ \A i \in DOMAIN entries : new[i].kind = entries[i].name
          /\ rack' = [i \in DOMAIN entries |-> loadValues(new[i], entries[i].values)]
          /\ running' = \A i \in DOMAIN entries : ~diesOf(new[i], rack'[i])
     /\ UNCHANGED saved

LoadLibrary(preset) == loadPlugins(preset) /\ loaded' = preset
LoadSaved == saved # Nothing /\ loadPlugins(saved) /\ loaded' = Nothing

\* Rack::clear
clear ==
  /\ running
  /\ rack' = <<>>
  /\ loaded' = Nothing
  /\ UNCHANGED <<saved, running>>

\* Engine::getPreset: the values of a plugin are those of its controls except
\* what looks like an atom port.  Its name is Plugin::lv2_name, which the
\* constructor for lilv does not set.
getPreset ==
  [i \in DOMAIN rack |->
     LET played == Kept(rack[i].controls,
                        {control \in Range(rack[i].controls) : control.type = "value"})
     IN [name |-> NoName, values |-> [c \in DOMAIN played |-> played[c].def]]]

\* Engine::savePreset, by hand or on quitting.  An empty rack is saved as one: its json
\* is a null value, which does not equal the number NULL of engine.cc:294.
savePreset ==
  /\ running
  /\ saved' = getPreset
  /\ UNCHANGED <<rack, running, loaded>>

ControlsNext ==
  \/ \E kind \in Kinds : addPlugin(kind)
  \/ \E i \in DOMAIN rack : \E c \in DOMAIN rack[i].controls :
       \E v \in FileValues : control_changed(i, c, v)
  \/ \E preset \in Library : LoadLibrary(preset)
  \/ LoadSaved
  \/ clear
  \/ savePreset

ControlsSpec == ControlsInit /\ [][ControlsNext]_controlsVars

-----------------------------------------------------------------------------
(* Properties *)

\* A row shows another value than its plugin plays with only until the value is
\* changed for the first time: the plugin then has the port's default, which
\* nobody shows (Plugin.cpp:1045-1050 sets def and not val, pluginui.cpp:409
\* shows val).
ShownIsPlayed ==
  \A i \in DOMAIN rack : \A c \in DOMAIN rack[i].controls :
    LET control == rack[i].controls[c]
    IN control.port = "controlIn" /\ control.shown # control.def => control.def = Default

\* Which value of a preset is for the control port c of a plugin, what the
\* control makes of it, and whether all controls up to c have taken theirs at
\* their sliders: there is one for each, and no atom port before it.
place(plugin, c) == Cardinality({d \in 1..c : plugin.controls[d].port = "controlIn"})
inRange(v) == IF v < Lo THEN Lo ELSE IF v > Hi THEN Hi ELSE v

inStep(plugin, c) ==
  \A d \in 1..c : plugin.controls[d].port = "controlIn" /\ plugin.controls[d].type # "ATOM"

\* A preset just loaded is what the plugins play, and a control for which it has
\* no value plays its default, except for a control behind an atom port or a
\* missing slider, which gets the value of another (pluginui.cpp:107-113 counts
\* sliders), and for one whose slider happened to show the value already: GTK
\* then reports no change, and the plugin keeps its default (pluginui.cpp:76, 111).
LoadedIsPlayed ==
  loaded # Nothing /\ running =>
    LET entries == found(loaded) IN
    /\ Len(rack) = Len(entries)
    /\ \A i \in DOMAIN rack :
         /\ rack[i].kind = entries[i].name
         /\ \A c \in DOMAIN rack[i].controls :
              inStep(rack[i], c) =>
                LET control == rack[i].controls[c]
                    k == place(rack[i], c)
                IN IF k \in DOMAIN entries[i].values
                   THEN /\ control.shown = inRange(entries[i].values[k])
                        /\ control.def \in {control.shown, Default}
                   ELSE control.def = Default

\* "Last saved preset" (main.cc:115), loaded at the next start (main.cc:88-89)
\* and by the rows of the user's presets: loading what has been saved brings back
\* as many plugins as there were in the rack.
SavedIsRestored ==
  [][LoadSaved => Len(rack') = Len(saved)]_controlsVars
===============================================================================
