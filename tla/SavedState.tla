------------------------------ MODULE SavedState ------------------------------
(***************************************************************************)
(* The JSON files that outlive a session and are read by a later one: the  *)
(* presets and the hearts, the downloaded library, the lists of plugins    *)
(* that the first start writes, and the three files that quitting writes,  *)
(* "default" (the rack), "fav" (the favourite plugins) and "config".  The  *)
(* GTK thread and, while the window of Sync is open, the server thread     *)
(* work on them; the process may be killed at any time, ends when either   *)
(* thread throws, and is started again.                                    *)
(*                                                                         *)
(* json_to_filename (util.cc) empties the file and then writes it in place *)
(* (the buffer of the stream takes a preset, so it goes out at once).      *)
(* filename_to_json throws when json::parse meets anything but one whole   *)
(* value, and nobody catches it.  Only the library is not of the program's *)
(* own making: whatever the server answers is written to it.               *)
(***************************************************************************)
EXTENDS Naturals, FiniteSets, PresetNames

CONSTANTS MaxSessions  \* bound: how often the program is started

\* The files that only quitting writes.
QuitFiles == {"default", "fav"}

\* What the engine lists the plugins in (lily.cc:122-124).
PluginFiles == {"plugins", "categories", "creators"}

OwnFiles == QuitFiles \cup PluginFiles \cup {"config", "heart", "library"}

\* Presets and hearts have directories of their own.
ASSUME SavedStateAssumption ==
  /\ MaxSessions \in Nat
  /\ Names \cap OwnFiles = {}

Files == Names \cup OwnFiles

VARIABLES disk,     \* what each file holds
          kept,     \* the session that has last written each file of QuitFiles
          gtk,      \* what the GTK thread does next; "off": there is no process
          gtkFile,  \* the file it has open or has just written
          after,    \* what it does once it has written gtkFile
          gtkReads, \* the presets it is still to read
          server,   \* what the server thread does next
          srvFile,  \* the file it has open
          srvReads, \* the presets it is still to read
          orphan,   \* srvFile has been deleted since it was opened
          session   \* history: the number of this start of the program

\* More history: the last session that quit to the end, whether one since has
\* ended inside quit, whether a process ended with a file open, whether a thread
\* has opened or read a file that the other had open, whether the server of the
\* library has answered with something that is no JSON, and what has gone wrong:
\* a start or a running session has met an unreadable file, or the user has chosen
\* a file to import that is none.
VARIABLES lastQuit, half, cut, met, malformed, failed

gtkVars == <<gtk, gtkFile, after, gtkReads>>
srvVars == <<server, srvFile, srvReads, orphan>>
history == <<lastQuit, half, cut, met, malformed, failed>>
vars == <<disk, kept, gtkVars, srvVars, session, history>>

quitting == gtk \in {"quitFav", "quitConfig"} \/ (gtk = "write" /\ after \in {"quitFav", "quitConfig", "off"})

TypeOK ==
  /\ disk \in [Files -> {"none", "cut", "mixed", "malformed", "whole"}]
  /\ kept \in [QuitFiles -> 0..MaxSessions]
  /\ gtk \in PluginFiles \cup {"off", "load", "made", "show", "on", "write", "readback", "read",
                              "quitFav", "quitConfig"}
  /\ gtkFile \in Files
  /\ after \in {"categories", "creators", "load", "show", "on", "readback", "quitFav", "quitConfig", "off"}
  /\ gtkReads \subseteq Names
  /\ server \in {"none", "idle", "read", "write"}
  /\ srvFile \in Names
  /\ srvReads \subseteq Names
  /\ orphan \in BOOLEAN
  /\ session \in 0..MaxSessions
  /\ lastQuit \in 0..MaxSessions
  /\ half \in BOOLEAN /\ cut \in BOOLEAN /\ met \in BOOLEAN /\ malformed \in BOOLEAN
  /\ failed \in {"no", "start", "run", "import"}

Init ==
  /\ disk = [f \in Files |-> "none"]
  /\ kept = [f \in QuitFiles |-> 0]
  /\ gtk = "off"
  /\ gtkFile = "default"
  /\ after = "on"
  /\ gtkReads = {}
  /\ server = "none"
  /\ srvFile \in Names
  /\ srvReads = {}
  /\ orphan = FALSE
  /\ session = 0
  /\ lastQuit = 0
  /\ half = FALSE /\ cut = FALSE /\ met = FALSE /\ malformed = FALSE
  /\ failed = "no"

-----------------------------------------------------------------------------
\* Files that json::parse throws on.
unreadable(f) == disk[f] \in {"cut", "mixed", "malformed"}

gtkHas(f) == gtk = "write" /\ gtkFile = f
srvHas(f) == server = "write" /\ srvFile = f /\ ~orphan

\* What is in f when a thread has written it: if the other has written it since
\* it was emptied, the longer of the two shows behind the shorter.
written(f, now) ==
  \/ disk[f] = "cut" /\ now = "whole"
  \/ disk[f] # "cut" /\ now \in {"whole", "mixed"}

\* The process ends and what it has open stays as it is.
processEnds ==
  /\ gtk' = "off"
  /\ server' = "none"
  /\ cut' = (cut \/ gtk = "write" \/ (server = "write" /\ ~orphan))
  /\ half' = (half \/ quitting)
  /\ UNCHANGED <<disk, kept, gtkFile, after, gtkReads, srvFile, srvReads, orphan, session, lastQuit>>

Throws(when) == processEnds /\ failed' = when /\ UNCHANGED malformed

\* Killed, or ended by anything but a file: a download without an answer, for one,
\* looks into a result that is not there (util.cc:175).
Killed ==
  /\ gtk # "off"
  /\ processEnds
  /\ UNCHANGED <<met, malformed, failed>>

-----------------------------------------------------------------------------
(* Starting and quitting *)

\* main; Engine::Engine lists the plugins if there is no list yet.
Start ==
  /\ gtk = "off"
  /\ session < MaxSessions
  /\ session' = session + 1
  /\ IF unreadable("config")
     THEN failed' = "start" /\ UNCHANGED gtk
     ELSE /\ gtk' = IF disk["plugins"] = "none" THEN "plugins" ELSE "load"
          /\ UNCHANGED failed
  /\ UNCHANGED <<disk, kept, gtkFile, after, gtkReads, srvVars, lastQuit, half, cut, met, malformed>>

\* The GTK thread opens f for writing.
open(f, next) ==
  /\ disk' = [disk EXCEPT ![f] = "cut"]
  /\ gtkFile' = f
  /\ after' = next
  /\ gtk' = "write"
  /\ met' = (met \/ srvHas(f))
  /\ UNCHANGED <<kept, gtkReads, srvVars, session, lastQuit, half, cut, malformed, failed>>

generateLV2Info ==
  \/ gtk = "plugins" /\ open("plugins", "categories")
  \/ gtk = "categories" /\ open("categories", "creators")
  \/ gtk = "creators" /\ open("creators", "load")

startReads == Names \cup PluginFiles \cup {"heart", "library", "config"}

\* The rest of Engine::Engine and Rack::Rack, Presets::my up to the tabs of presets.
LoadFiles ==
  /\ gtk = "load"
  /\ IF \E f \in startReads : unreadable(f)
     THEN Throws("start") /\ UNCHANGED met
     ELSE /\ gtk' = "made"
          /\ UNCHANGED <<disk, kept, gtkFile, after, gtkReads, srvVars, session, history>>

\* Settings::Settings selects the renderer of the config, and doing so saves the
\* config, unless the renderer is the first of the list.
SettingsWrites ==
  /\ gtk = "made"
  /\ open("config", "show")

SettingsLeave ==
  /\ gtk = "made"
  /\ gtk' = "show"
  /\ UNCHANGED <<disk, kept, gtkFile, after, gtkReads, srvVars, session, history>>

\* onshow
Show ==
  /\ gtk = "show"
  /\ \/ (unreadable("default") \/ unreadable("fav")) /\ Throws("start") /\ UNCHANGED met
     \/ /\ ~unreadable("default") /\ ~unreadable("fav")
        /\ gtk' = "on"
        /\ UNCHANGED <<disk, kept, gtkFile, after, gtkReads, srvVars, session, history>>

\* savePreset writes an empty rack too: getPreset makes it json {}, a null value, and
\* to compare that with NULL, as engine.cc:294 does, is to compare it with the number
\* 0, which json.hpp says it is not.
Quit == gtk = "on" /\ open("default", "quitFav")

\* mutation: favourites are saved only if there are any
QuitFavSkipped ==
  /\ gtk = "quitFav"
  /\ \/ open("fav", "quitConfig")
     \/ gtk' = "quitConfig" /\ UNCHANGED <<disk, kept, gtkFile, after, gtkReads, srvVars, session, history>>

QuitFav == gtk = "quitFav" /\ open("fav", "quitConfig")
QuitConfig == gtk = "quitConfig" /\ open("config", "off")

\* mutation: the program goes on before a file has been written
GtkWriteLater ==
  /\ gtk = "write"
  /\ after # "off"
  /\ kept' = [f \in QuitFiles |-> IF f = gtkFile THEN session ELSE kept[f]]
  /\ gtk' = after
  /\ UNCHANGED <<disk, gtkFile, after, gtkReads, srvVars, session, history>>

GtkWrite ==
  /\ gtk = "write"
  /\ after # "off"
  /\ \E now \in {"whole", "mixed"} :
       written(gtkFile, now) /\ disk' = [disk EXCEPT ![gtkFile] = now]
  /\ kept' = [f \in QuitFiles |-> IF f = gtkFile THEN session ELSE kept[f]]
  /\ gtk' = after
  /\ UNCHANGED <<gtkFile, after, gtkReads, srvVars, session, history>>

\* The server of the library has answered with something that json::parse throws on.
DownloadMalformed ==
  /\ gtk = "write"
  /\ gtkFile = "library"
  /\ disk' = [disk EXCEPT !["library"] = "malformed"]
  /\ malformed' = TRUE
  /\ gtk' = after
  /\ UNCHANGED <<kept, gtkFile, after, gtkReads, srvVars, session, lastQuit, half, cut, met, failed>>

\* The last write of quit; main returns and takes the server thread with it.
GtkExit ==
  /\ gtk = "write"
  /\ after = "off"
  /\ disk' = [disk EXCEPT !["config"] = "whole"]
  /\ gtk' = "off"
  /\ server' = "none"
  /\ lastQuit' = session
  /\ half' = FALSE
  /\ cut' = (cut \/ (server = "write" /\ ~orphan))
  /\ UNCHANGED <<kept, gtkFile, after, gtkReads, srvFile, srvReads, orphan, session, met, malformed, failed>>

-----------------------------------------------------------------------------
(* The GTK thread in between *)

\* add_cb writes a preset, of whatever rack (see Quit), and reads it back, and so
\* does download_cb with the library; preset_fav_cb, the import from a file or of
\* an answer to Sync, and the settings only write.
Download == gtk = "on" /\ open("library", "readback")
Save(n) == gtk = "on" /\ open(n, "readback")
GtkImport(n) == gtk = "on" /\ open(n, "on")
SwitchHeartOn == gtk = "on" /\ open("heart", "on")
switch_theme == gtk = "on" /\ open("config", "on")

\* presets_on_response: the user chooses a file that is not whole JSON.
ImportMalformed ==
  /\ gtk = "on"
  /\ Throws("import")
  /\ UNCHANGED met

ReadBack ==
  /\ gtk = "readback"
  /\ met' = (met \/ srvHas(gtkFile))
  /\ \/ unreadable(gtkFile) /\ Throws("run")
     \/ /\ ~unreadable(gtkFile)
        /\ gtk' = "on"
        /\ UNCHANGED <<disk, kept, gtkFile, after, gtkReads, srvVars, session, lastQuit, half, cut, malformed, failed>>

\* delete_callback; the server thread goes on writing to the file without a name.
Delete(n) ==
  /\ gtk = "on"
  /\ disk[n] # "none"
  /\ disk' = [disk EXCEPT ![n] = "none"]
  /\ orphan' = (orphan \/ srvHas(n))
  /\ UNCHANGED <<kept, gtkVars, server, srvFile, srvReads, session, history>>

SwitchHeartOff ==
  /\ gtk = "on"
  /\ disk' = [disk EXCEPT !["heart"] = "none"]
  /\ UNCHANGED <<kept, gtkVars, srvVars, session, history>>
existing == {n \in Names : disk[n] # "none"}

\* save_presets_to_json, and sync_send: get_all_user_presets
GtkReadAll ==
  /\ gtk = "on"
  /\ gtk' = "read"
  /\ gtkReads' = existing
  /\ UNCHANGED <<disk, kept, gtkFile, after, srvVars, session, history>>

GtkRead(n) ==
  /\ gtk = "read"
  /\ n \in gtkReads
  /\ met' = (met \/ srvHas(n))
  /\ \/ unreadable(n) /\ Throws("run")
     \/ /\ ~unreadable(n)
        /\ gtkReads' = gtkReads \ {n}
        /\ UNCHANGED <<disk, kept, gtk, gtkFile, after, srvVars, session, lastQuit, half, cut, malformed, failed>>

GtkReadEnd ==
  /\ gtk = "read"
  /\ gtkReads = {}
  /\ gtk' = "on"
  /\ UNCHANGED <<disk, kept, gtkFile, after, gtkReads, srvVars, session, history>>

OpenSync ==
  /\ gtk = "on"
  /\ server = "none"
  /\ server' = "idle"
  /\ UNCHANGED <<disk, kept, gtkVars, srvFile, srvReads, orphan, session, history>>

\* close_sync joins the server thread.
CloseSync ==
  /\ gtk = "on"
  /\ server = "idle"
  /\ server' = "none"
  /\ UNCHANGED <<disk, kept, gtkVars, srvFile, srvReads, orphan, session, history>>

-----------------------------------------------------------------------------
(* The server thread: Server::handle *)

SrvReadAll ==
  /\ server = "idle"
  /\ server' = "read"
  /\ srvReads' = existing
  /\ UNCHANGED <<disk, kept, gtkVars, srvFile, orphan, session, history>>

SrvRead(n) ==
  /\ server = "read"
  /\ n \in srvReads
  /\ met' = (met \/ gtkHas(n))
  /\ \/ unreadable(n) /\ Throws("run")
     \/ /\ ~unreadable(n)
        /\ srvReads' = srvReads \ {n}
        /\ UNCHANGED <<disk, kept, gtkVars, server, srvFile, orphan, session, lastQuit, half, cut, malformed, failed>>

SrvReadEnd ==
  /\ server = "read"
  /\ srvReads = {}
  /\ server' = "idle"
  /\ UNCHANGED <<disk, kept, gtkVars, srvFile, srvReads, orphan, session, history>>

SrvOpen(n) ==
  /\ server = "idle"
  /\ disk' = [disk EXCEPT ![n] = "cut"]
  /\ srvFile' = n
  /\ orphan' = FALSE
  /\ server' = "write"
  /\ met' = (met \/ gtkHas(n))
  /\ UNCHANGED <<kept, gtkVars, srvReads, session, lastQuit, half, cut, malformed, failed>>

SrvWrite ==
  /\ server = "write"
  /\ IF orphan THEN UNCHANGED disk
     ELSE \E now \in {"whole", "mixed"} :
            written(srvFile, now) /\ disk' = [disk EXCEPT ![srvFile] = now]
  /\ server' = "idle"
  /\ UNCHANGED <<kept, gtkVars, srvFile, srvReads, orphan, session, history>>

-----------------------------------------------------------------------------
Gtk ==
  \/ Start \/ generateLV2Info \/ LoadFiles
  \/ SettingsWrites \/ SettingsLeave \/ Show
  \/ Quit \/ QuitFav \/ QuitConfig \/ GtkWrite \/ GtkExit
  \/ Download \/ DownloadMalformed \/ ImportMalformed
  \/ \E n \in Names : Save(n)
  \/ \E n \in Names : GtkImport(n)
  \/ \E n \in Names : Delete(n)
  \/ SwitchHeartOn \/ SwitchHeartOff \/ switch_theme
  \/ ReadBack
  \/ GtkReadAll \/ GtkReadEnd
  \/ \E n \in Names : GtkRead(n)
  \/ OpenSync \/ CloseSync

Srv ==
  \/ SrvReadAll \/ SrvReadEnd \/ SrvWrite
  \/ \E n \in Names : SrvRead(n)
  \/ \E n \in Names : SrvOpen(n)

Next == Gtk \/ Srv \/ Killed

Spec == Init /\ [][Next]_vars

-----------------------------------------------------------------------------
(* Properties *)

\* A running session meets an unreadable file of the program's only if the two
\* threads have met in one (server.cc:104 and 130 against presets.cc and
\* main.cc:27-28) or the library has just come malformed from its server
\* (presets.cc:29-33): whatever a killed process has cut, no session gets past its
\* start with it.  A start meets one only for these reasons or if a process ended
\* while it was writing, the end of quit under a server thread that imports and the
\* end of a first start inside its lists of plugins included (util.cc:14 and 33).
FailsOnlyForCause ==
  /\ failed = "run" => met \/ malformed
  /\ failed = "start" => cut \/ met \/ malformed

\* The rack and the favourites a session starts with are of one session, the last
\* that was quit, however often the program has been killed since, unless that
\* was inside quit (main.cc:115-127 writes them one after the other).
RackAndFavsOfLastQuit ==
  quitting \/ half \/
    \A f \in {"default", "fav"} :
      /\ kept[f] = lastQuit
      /\ disk[f] = IF lastQuit = 0 THEN "none" ELSE "whole"
===============================================================================
