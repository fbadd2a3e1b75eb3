----------------------------- MODULE PresetLists -----------------------------
(***************************************************************************)
(* The four tabs of presets in src/presets.cc: the rows each shows, the    *)
(* list of presets each keeps for the arrows of src/rack.cc, and the files *)
(* behind the user's presets and the favourites.                           *)
(*                                                                         *)
(* A preset is its name: user presets and favourites are stored in files   *)
(* of that name.  All steps are handlers of the GTK thread, hence atomic.  *)
(* A row tells whether its heart is switched on.                           *)
(***************************************************************************)
EXTENDS Integers, Sequences, SequencesExt, FiniteSets, PresetNames

CONSTANTS Factory,  \* the presets of assets/quick.json, a sequence
          Pages,    \* the pages of the library, sequences of presets
          MaxRows,  \* bound: rows of one tab
          MaxListed \* bound: presets each tab has kept for the arrows

Tabs == {"quick", "user", "library", "favs"}

ASSUME PresetListsAssumption ==
  /\ Factory \in Seq(Names)
  /\ Pages \subseteq Seq(Names)
  /\ MaxRows \in Nat /\ MaxListed \in [Tabs -> Nat]

VARIABLES files,    \* the presets in presets_dir
          favs,     \* the presets in favs_dir
          rows,     \* what each tab shows
          list,     \* list_of_presets
          tab,      \* the page of the notebook that is open
          patch,    \* rack->patch
          running,  \* the program has not been ended by an exception
          arrowed   \* history: the tab in which patch was last set, or "none"

listsVars == <<files, favs, rows, list, tab, patch, running, arrowed>>

Rows == [name : Names, fav : BOOLEAN]

ListsTypeOK ==
  /\ files \subseteq Names
  /\ favs \subseteq Names
  /\ rows \in [Tabs -> Seq(Rows)]
  /\ list \in [Tabs -> Seq(Names)]
  /\ tab \in Tabs
  /\ patch \in Nat
  /\ running \in BOOLEAN
  /\ arrowed \in Tabs \cup {"none"}

\* Presets::add_preset: a row whose heart is on if there is a file for it.
row(name) == [name |-> name, fav |-> name \in favs]
newRows(names) == [i \in DOMAIN names |-> row(names[i])]

room(t, n) == Len(rows[t]) + n <= MaxRows /\ Len(list[t]) + n <= MaxListed[t]

\* mutation: the preset gets a row but the arrows do not know it
addPresetsUnlisted(t, names) ==
  /\ room(t, Len(names))
  /\ rows' = [rows EXCEPT ![t] = @ \o newRows(names)]
  /\ UNCHANGED list

addPresets(t, names) ==
  /\ room(t, Len(names))
  /\ rows' = [rows EXCEPT ![t] = @ \o newRows(names)]
  /\ list' = [list EXCEPT ![t] = @ \o names]

\* Presets::my: what the tabs hold at start, the directories in any order.
atStart(user, hearts, page) ==
  [t \in Tabs |-> CASE t = "quick" -> Factory [] t = "user" -> user
                    [] t = "library" -> page [] t = "favs" -> hearts]

my ==
  \E user \in SetToSeqs(files), hearts \in SetToSeqs(favs), page \in Pages :
    /\ list' = atStart(user, hearts, page)
    /\ rows' = [t \in Tabs |-> newRows(list'[t])]
    /\ tab' = "quick"
    /\ patch' = 0
    /\ running' = TRUE
    /\ arrowed' = "none"
    /\ UNCHANGED <<files, favs>>

\* The first start finds no file.
ListsInit ==
  /\ files = {}
  /\ favs = {}
  /\ \E page \in Pages : list = atStart(<<>>, <<>>, page)
  /\ rows = [t \in Tabs |-> newRows(list[t])]
  /\ tab = "quick"
  /\ patch = 0
  /\ running = TRUE
  /\ arrowed = "none"

-----------------------------------------------------------------------------
SelectTab(t) ==
  /\ running
  /\ tab' = t
  /\ UNCHANGED <<files, favs, rows, list, patch, running, arrowed>>

\* add_cb: the preset is written under its name and shown once more.  There is always
\* one to write and to read back: savePreset takes an empty rack too (see Quit of
\* SavedState).
add_cb(name) ==
  /\ running
  /\ files' = files \cup {name}
  /\ addPresets("user", <<name>>)
  /\ UNCHANGED <<favs, tab, patch, running, arrowed>>

\* import_presets_from_json
import_presets_from_json(names) ==
  /\ running
  /\ files' = files \cup Range(names)
  /\ addPresets("user", names)
  /\ UNCHANGED <<favs, tab, patch, running, arrowed>>
\* delete_callback: if there is no file to remove the row stays as well.
delete_callback(i) ==
  /\ running
  /\ rows["user"][i].name \in files
  /\ files' = files \ {rows["user"][i].name}
  /\ rows' = [rows EXCEPT !["user"] = RemoveAt(@, i)]
  /\ UNCHANGED <<favs, list, tab, patch, running, arrowed>>

\* preset_fav_cb, the heart of row i of tab t switched on: a file and a row
\* among the favourites, whose own heart is on from the start.
HeartOn(t, i) ==
  LET name == rows[t][i].name
      shown == [rows EXCEPT ![t][i].fav = TRUE]
  IN /\ running
     /\ ~rows[t][i].fav
     /\ room("favs", 1)
     /\ favs' = favs \cup {name}
     /\ rows' = [shown EXCEPT !["favs"] = Append(@, [name |-> name, fav |-> TRUE])]
     /\ list' = [list EXCEPT !["favs"] = Append(@, name)]
     /\ UNCHANGED <<files, tab, patch, running, arrowed>>

\* The same, switched off: the file goes.  The box handed to gtk_box_remove is
\* the one inside the row, not the row, so GTK removes nothing.
HeartOff(t, i) ==
  /\ running
  /\ rows[t][i].fav
  /\ favs' = favs \ {rows[t][i].name}
  /\ rows' = [rows EXCEPT ![t][i].fav = FALSE]
  /\ UNCHANGED <<files, list, tab, patch, running, arrowed>>

\* library_load: the rows of the page before go, what the arrows know stays.
ShowPage(page) ==
  /\ running
  /\ Len(list["library"]) + Len(page) <= MaxListed["library"]
  /\ rows' = [rows EXCEPT !["library"] = newRows(page)]
  /\ list' = [list EXCEPT !["library"] = @ \o page]
  /\ UNCHANGED <<files, favs, tab, patch, running, arrowed>>

\* Rack::next_preset
NextPreset ==
  /\ running
  /\ list[tab] # <<>>
  /\ patch' = IF patch + 1 > Len(list[tab]) - 1 THEN 0 ELSE patch + 1
  /\ arrowed' = tab
  /\ UNCHANGED <<files, favs, rows, list, tab, running>>

\* mutation: past the first preset the arrow goes one beyond the last
PrevPresetBeyond ==
  /\ running
  /\ list[tab] # <<>>
  /\ patch' = IF patch - 1 < 0 THEN Len(list[tab]) ELSE patch - 1
  /\ running' = (patch' \in 0..Len(list[tab]) - 1)
  /\ arrowed' = IF running' THEN tab ELSE arrowed
  /\ UNCHANGED <<files, favs, rows, list, tab>>

\* mutation: the arrow back does not turn around at the first preset
PrevPresetNoTurn ==
  /\ running
  /\ list[tab] # <<>>
  /\ patch' = patch - 1
  /\ running' = (patch' \in 0..Len(list[tab]) - 1)
  /\ arrowed' = IF running' THEN tab ELSE arrowed
  /\ UNCHANGED <<files, favs, rows, list, tab>>

\* Rack::prev_preset: at() throws if another tab left patch beyond this list,
\* and nothing catches it.
PrevPreset ==
  /\ running
  /\ list[tab] # <<>>
  /\ patch' = IF patch - 1 < 0 THEN Len(list[tab]) - 1 ELSE patch - 1
  /\ running' = (patch' \in 0..Len(list[tab]) - 1)
  /\ arrowed' = IF running' THEN tab ELSE arrowed
  /\ UNCHANGED <<files, favs, rows, list, tab>>

ListsNext ==
  \/ \E t \in Tabs : SelectTab(t)
  \/ \E name \in Names : add_cb(name)
  \/ \E name, other \in Names : import_presets_from_json(<<name, other>>)
  \/ \E i \in DOMAIN rows["user"] : delete_callback(i)
  \/ \E t \in Tabs : \E i \in DOMAIN rows[t] : HeartOn(t, i)
  \/ \E t \in Tabs : \E i \in DOMAIN rows[t] : HeartOff(t, i)
  \/ \E page \in Pages : ShowPage(page)
  \/ NextPreset
  \/ PrevPreset
  \/ my

ListsSpec == ListsInit /\ [][ListsNext]_listsVars

-----------------------------------------------------------------------------
(* Properties *)

\* No preset is out of reach: whatever has a file has a row in its tab
\* (presets.cc:331-372 add and remove the two separately), and whatever has a
\* row can be reached with the arrows (rack.cc:798-836), which go by a list of
\* their own.  Rows of the same name, deleted ones and hearts switched off by
\* another row come in between.
NothingOutOfReach ==
  /\ \A name \in files : \E i \in DOMAIN rows["user"] : rows["user"][i].name = name
  /\ \A name \in favs : \E i \in DOMAIN rows["favs"] : rows["favs"][i].name = name
  /\ \A t \in Tabs : \A i \in DOMAIN rows[t] : Contains(list[t], rows[t][i].name)
\* The arrow back ends the program (rack.cc:833) only in a tab other than the
\* one the position was set in, and only if that tab has fewer presets.
EndsOnlyInShorterTab ==
  ~running =>
    /\ arrowed \notin {"none", tab}
    /\ Len(list[tab]) < Len(list[arrowed])
===============================================================================
