-------------------------------- MODULE Rack --------------------------------
(***************************************************************************)
(* The rows of the rack on screen (src/rack.cc, src/pluginui.cpp) and the  *)
(* plugins they drive.  A row finds its plugin by position, and keeps that *)
(* position three times: `index' of its PluginUI, the name of its card,    *)
(* from which its knobs take it, and the CallbackData made with it, from   *)
(* which its delete button and its switch take it.  Whatever changes the   *)
(* order has to keep them right.                                           *)
(*                                                                         *)
(* A row and the plugin it was made for are both the number of the row in  *)
(* `uiv', which gets every row and never loses one: uiv.at (i) is row      *)
(* i + 1.  Positions count from 0, as in the code.  All handlers run on    *)
(* the GTK thread, one at a time; what they do to the chain of the         *)
(* callback is PluginChain's.                                              *)
(***************************************************************************)
EXTENDS Integers, SequencesExt, Selection

CONSTANTS MaxRows,  \* bound: how many rows are ever made
          MaxMoves  \* bound: how often a row is moved

ASSUME RackAssumption == MaxRows \in Nat /\ MaxMoves \in Nat

VARIABLES activePlugins, \* Engine::activePlugins
          screen,        \* the cards in list_box, from the top
          plugs,         \* Rack::plugs, the cards clear removes
          index,         \* per row, PluginUI::index
          name,          \* per row, the name of its card
          created,       \* per row, CallbackData::index
          program        \* it runs, has ended by an exception, or is undefined

\* history
VARIABLES course, \* what was done since the rack was last cleared: rows were only
                  \* added, or the last one deleted (kept); rows were moved, each by
                  \* its right index (moved); anything else (lost)
          edited, \* a row has been moved or deleted
          moves   \* how often

rowVars == <<index, name, created>>
vars == <<activePlugins, screen, plugs, rowVars, program, course, edited, moves>>

Rows == 1..Len(index)  \* uiv
Size == Len(activePlugins)

\* Where a row is on screen, from 0.
Place(row) == CHOOSE k \in 0..Len(screen) - 1 : screen[k + 1] = row

TypeOK ==
  /\ Len(index) \in 0..MaxRows
  /\ activePlugins \in Seq(Rows) /\ IsInjective(activePlugins)
  /\ screen \in Seq(Rows) /\ IsInjective(screen)
  /\ plugs \in Seq(Rows) /\ Range(screen) \subseteq Range(plugs)
  /\ index \in [Rows -> Int]
  /\ name \in [Rows -> 0..MaxRows]
  /\ created \in [Rows -> 0..MaxRows - 1]
  /\ program \in {"runs", "aborted", "undefined"}
  /\ course \in {"kept", "moved", "lost"}
  /\ edited \in BOOLEAN
  /\ moves \in 0..MaxMoves

Init ==
  /\ activePlugins = <<>> /\ screen = <<>> /\ plugs = <<>>
  /\ index = <<>> /\ name = <<>> /\ created = <<>>
  /\ program = "runs"
  /\ course = "kept" /\ edited = FALSE /\ moves = 0

\* What is outside the vectors is not modelled: after that nothing is said.
Stops(how) ==
  /\ program' = how
  /\ UNCHANGED <<activePlugins, screen, plugs, rowVars, course>>

-----------------------------------------------------------------------------
\* mutation: a row is told its position in uiv
AddRowsByUiv(there, n) ==
  LET rows == [k \in 1..n |-> Len(index) + k]
      places == [k \in 1..n |-> Len(index) + k - 1] IN
  /\ Len(index) + n <= MaxRows
  /\ activePlugins' = there.plugins \o rows
  /\ screen' = there.screen \o rows
  /\ plugs' = there.plugs \o rows
  /\ index' = index \o places
  /\ name' = name \o places
  /\ created' = created \o places

\* n plugins are added, each with a row, to what is there (addPluginByName).
AddRows(there, n) ==
  LET rows == [k \in 1..n |-> Len(index) + k]
      places == [k \in 1..n |-> Len(there.plugins) + k - 1] IN
  /\ Len(index) + n <= MaxRows
  /\ activePlugins' = there.plugins \o rows
  /\ screen' = there.screen \o rows
  /\ plugs' = there.plugs \o rows
  /\ index' = index \o places
  /\ name' = name \o places
  /\ created' = created \o places

\* A plugin that cannot be loaded changes nothing.
addPluginByName ==
  /\ AddRows([plugins |-> activePlugins, screen |-> screen, plugs |-> plugs], 1)
  /\ UNCHANGED <<program, course, edited, moves>>

\* mutation: plugs is emptied before its cards are removed
ClearedPlugsFirst ==
  [plugins |-> <<>>, screen |-> screen, plugs |-> <<>>]

\* mutation: plugs is not emptied
ClearedNotPlugs ==
  [plugins |-> <<>>, screen |-> Kept(screen, Rows \ Range(plugs)),
   plugs |-> plugs]

\* Rack::clear.  uiv keeps the rows that were there.
Cleared ==
  [plugins |-> <<>>, screen |-> Kept(screen, Rows \ Range(plugs)),
   plugs |-> <<>>]

\* load_preset clears and then adds the plugins of the preset that can be loaded;
\* the clear button adds none.  A card in plugs that a delete button has removed is
\* freed: the program may go on, or not.
load_preset(n) ==
  /\ \/ AddRows(Cleared, n) /\ course' = "kept" /\ UNCHANGED program
     \/ Range(plugs) # Range(screen) /\ Stops("undefined")
  /\ UNCHANGED <<edited, moves>>

-----------------------------------------------------------------------------
Swapped(s, n) == [s EXCEPT ![n] = s[n + 1], ![n + 1] = s[n]]

\* What moving does to the history.
Moves(row) ==
  /\ moves < MaxMoves
  /\ moves' = moves + 1
  /\ edited' = TRUE
Course(row) == IF course # "lost" /\ index[row] = Place(row) THEN "moved" ELSE "lost"

\* mutation: the card that moves up keeps its name
move_downOneName(row) ==
  LET i == index[row] place == Place(row) IN
  /\ Moves(row)
  /\ i >= 0 /\ i < Size - 1 /\ place < Len(screen) - 1
  /\ screen' = Swapped(screen, place + 1)
  /\ activePlugins' = Swapped(activePlugins, i + 1)
  /\ name' = [name EXCEPT ![row] = i + 1]
  /\ index' = [r \in Rows |-> index[r] + (IF r = row THEN 1 ELSE 0)
                                      - (IF r = i + 2 THEN 1 ELSE 0)]
  /\ course' = Course(row)
  /\ UNCHANGED <<plugs, created, program>>

\* The down button of a row.  The card after it on screen gets the name, the row after
\* it in uiv the index.  A card that is the last goes to the top, but the engine has
\* left its vector by then if the index is right.
move_down(row) ==
  LET i == index[row]
      place == Place(row)
      isLast == place = Len(screen) - 1 IN
  /\ Moves(row)
  /\ i >= 0 /\ i < Size  \* compared as size_t
  /\ IF i = Size - 1
     THEN Stops("undefined")
     ELSE /\ screen' = IF isLast THEN <<row>> \o Front(screen) ELSE Swapped(screen, place + 1)
          /\ activePlugins' = Swapped(activePlugins, i + 1)
          /\ name' = [r \in Rows |-> IF r = row THEN i + 1
                                     ELSE IF ~isLast /\ r = screen[place + 2] THEN i
                                     ELSE name[r]]
          /\ index' = [r \in Rows |-> index[r] + (IF r = row THEN 1 ELSE 0)
                                              - (IF r = i + 2 THEN 1 ELSE 0)]
          /\ course' = Course(row)
          /\ UNCHANGED <<plugs, created, program>>

\* The up button.  It is the row at the next position in uiv, too, that gets the
\* index, and when there is none std::vector::at throws: the engine and the screen
\* have changed by then.
move_up(row) ==
  LET i == index[row]
      place == Place(row) IN
  /\ Moves(row)
  /\ i # 0
  /\ IF i \notin 0..Size - 1
     THEN Stops("undefined")
     ELSE /\ screen' = IF place = 0 THEN screen ELSE Swapped(screen, place)
          /\ activePlugins' = Swapped(activePlugins, i)
          /\ name' = [r \in Rows |-> IF r = row THEN i - 1
                                     ELSE IF place > 0 /\ r = screen[place] THEN i
                                     ELSE name[r]]
          /\ IF i + 2 \in Rows
             THEN /\ index' = [r \in Rows |-> index[r] - (IF r = row THEN 1 ELSE 0)
                                                      + (IF r = i + 2 THEN 1 ELSE 0)]
                  /\ UNCHANGED program
             ELSE program' = "aborted" /\ UNCHANGED index
          /\ course' = Course(row)
          /\ UNCHANGED <<plugs, created>>

\* The delete button of a row (callback).  plugs and uiv keep the row.
delete(row) ==
  LET i == created[row] IN
  /\ edited' = TRUE
  /\ IF i >= Size
     THEN Stops("undefined")
     ELSE /\ screen' = RemoveAt(screen, Place(row) + 1)
          /\ activePlugins' = RemoveAt(activePlugins, i + 1)
          /\ course' = IF course # "lost" /\ row = Last(screen) /\ i = Place(row)
                       THEN course ELSE "lost"
          /\ UNCHANGED <<plugs, rowVars, program>>
  /\ UNCHANGED moves

\* A knob finds its plugin by the name of the card, the list of models by the index,
\* the switch by the position at which the row was made.  Where there is no plugin
\* std::vector::at throws; else the order stays as it is.
use(row) ==
  /\ {index[row], name[row], created[row]} \ (0..Size - 1) # {}
  /\ Stops("aborted")
  /\ UNCHANGED <<edited, moves>>

-----------------------------------------------------------------------------
Next ==
  /\ program = "runs"
  /\ \/ addPluginByName
     \/ \E n \in 0..MaxRows : load_preset(n)
     \/ \E k \in 1..Len(screen) :
          \/ move_down(screen[k]) \/ move_up(screen[k])
          \/ delete(screen[k]) \/ use(screen[k])

Spec == Init /\ [][Next]_vars

-----------------------------------------------------------------------------
(* Properties *)

\* As long as rows have only been added since the rack was last cleared, or the last
\* one deleted, every row has its own plugin, wherever it takes the position from
\* (rack.cc:296-300): what was there before a clear, which uiv keeps, does no harm.
RowsDriveTheirPlugins ==
  program = "runs" /\ course = "kept" =>
    /\ screen = activePlugins
    /\ \A k \in 1..Len(screen) :
         LET row == screen[k] IN
         index[row] = k - 1 /\ name[row] = k - 1 /\ created[row] = k - 1

\* Moving a row by its right index keeps the screen and the engine in the same order,
\* and every knob at its own plugin (rack.cc:198-206, 228-238), although the other
\* copies of the positions go wrong.
KnobsFollowMoves ==
  program = "runs" /\ course # "lost" =>
    /\ screen = activePlugins
    /\ \A k \in 1..Len(screen) : name[screen[k]] = k - 1
\* As far as the vectors and positions of the rack go, adding plugins, loading presets
\* and clearing never end the program, in any order: it takes a row that is moved or
\* deleted (rack.cc:189, 240 and 593, pluginui.cpp:49).  Outside of this module two more
\* things end it: an eleventh plugin, beyond the slots (engine.cc:185), and a preset
\* that reaches an atom port (pluginui.cpp:89, the Controls module).
OnlyEditsEndIt == program # "runs" => edited
=============================================================================
