----------------------------- MODULE Presets_proofs -----------------------------
(***************************************************************************)
(* The presets, for every set of names: which files a kill or the other    *)
(* thread can spoil, what the tabs and the pages of the library show, and  *)
(* what two computers have after they have synced.                         *)
(***************************************************************************)
EXTENDS SavedState, LibraryPages, PresetLists, Sync, CommonLemmas, FiniteSetTheorems

-----------------------------------------------------------------------------
(* SavedState: the files *)

\* All actions, for the case splits.
LEMMA SavedActions ==
  ASSUME [Next]_vars
  PROVE  \/ Start \/ generateLV2Info \/ LoadFiles
         \/ Download \/ DownloadMalformed \/ ImportMalformed
         \/ SettingsWrites \/ SettingsLeave \/ Show
         \/ Quit \/ QuitFav \/ QuitConfig \/ GtkWrite \/ GtkExit
         \/ \E n \in Names : Save(n) \/ GtkImport(n) \/ Delete(n) \/ GtkRead(n)
         \/ SwitchHeartOn \/ SwitchHeartOff \/ switch_theme
         \/ ReadBack \/ GtkReadAll \/ GtkReadEnd \/ OpenSync \/ CloseSync
         \/ SrvReadAll \/ SrvReadEnd \/ SrvWrite
         \/ \E n \in Names : SrvRead(n) \/ SrvOpen(n)
         \/ Killed
         \/ UNCHANGED vars
BY DEF Next, Gtk, Srv

\* The end of a process keeps the types.
LEMMA EndTyped ==
  ASSUME TypeOK, processEnds, met' \in BOOLEAN, malformed' = malformed,
         failed' \in {"no", "start", "run", "import"}
  PROVE  TypeOK'
<1>1. cut' \in BOOLEAN /\ half' \in BOOLEAN
  BY Zenon DEF processEnds
<1> QED BY <1>1 DEF processEnds, TypeOK, Files, OwnFiles, PluginFiles, QuitFiles

\* Opening a file keeps the types.
LEMMA OpenTyped ==
  ASSUME TypeOK, NEW f \in Files,
         NEW next \in {"categories", "creators", "load", "show", "on", "readback",
                      "quitFav", "quitConfig", "off"},
         open(f, next)
  PROVE  TypeOK'
<1>1. met' \in BOOLEAN
  BY Zenon DEF open
<1>2. disk' \in [Files -> {"none", "cut", "mixed", "malformed", "whole"}]
  BY DEF TypeOK, open
<1>3. UNCHANGED <<kept, gtkReads, server, srvFile, srvReads, orphan, session, lastQuit, half, cut,
                  malformed, failed>>
  BY Zenon DEF open, srvVars
<1>4. gtk' = "write" /\ gtkFile' = f /\ after' = next
  BY Zenon DEF open
<1> QED BY <1>1, <1>2, <1>3, <1>4 DEF TypeOK

LEMMA SrvOpenTyped ==
  ASSUME TypeOK, NEW n \in Names, SrvOpen(n)
  PROVE  TypeOK'
<1>1. met' \in BOOLEAN
  BY Zenon DEF SrvOpen
<1>2. n \in Files
  BY DEF Files
<1>3. disk' \in [Files -> {"none", "cut", "mixed", "malformed", "whole"}]
  BY <1>2 DEF TypeOK, SrvOpen
<1>4. UNCHANGED <<kept, gtk, gtkFile, after, gtkReads, srvReads, session, lastQuit, half, cut,
                  malformed, failed>>
  BY Zenon DEF SrvOpen, gtkVars
<1>5. srvFile' = n /\ server' = "write" /\ orphan' = FALSE
  BY Zenon DEF SrvOpen
<1>6. /\ orphan' \in BOOLEAN
      /\ half' \in BOOLEAN /\ cut' \in BOOLEAN /\ met' \in BOOLEAN /\ malformed' \in BOOLEAN
  BY <1>1, <1>4, <1>5, Zenon DEF TypeOK
<1>7. /\ kept' \in [QuitFiles -> 0..MaxSessions]
      /\ gtk' \in PluginFiles \cup {"off", "load", "made", "show", "on", "write", "readback", "read",
                                   "quitFav", "quitConfig"}
      /\ gtkFile' \in Files
      /\ after' \in {"categories", "creators", "load", "show", "on", "readback", "quitFav",
                     "quitConfig", "off"}
      /\ gtkReads' \subseteq Names
      /\ session' \in 0..MaxSessions
      /\ lastQuit' \in 0..MaxSessions
      /\ failed' \in {"no", "start", "run", "import"}
  BY <1>4, Zenon DEF TypeOK
<1>8. server' \in {"none", "idle", "read", "write"} /\ srvFile' \in Names /\ srvReads' \subseteq Names
  BY <1>4, <1>5 DEF TypeOK
<1> QED BY <1>3, <1>6, <1>7, <1>8, Zenon DEF TypeOK

\* The variables keep their types.
LEMMA SavedTypeStep ==
  ASSUME TypeOK, [Next]_vars
  PROVE  TypeOK'
<1> USE SavedStateAssumption DEF TypeOK, Files, OwnFiles, PluginFiles, QuitFiles
<1> USE DEF gtkVars, srvVars, history
<1>1. CASE Start \/ SettingsLeave
  BY <1>1 DEF Start, SettingsLeave
<1>2. CASE SettingsWrites
  BY <1>2, OpenTyped DEF SettingsWrites
<1>3. CASE Show
  <2>1. CASE Throws("start") /\ UNCHANGED met
    BY <2>1, EndTyped DEF Throws
  <2>2. CASE gtk' = "on" /\ UNCHANGED <<disk, kept, gtkFile, after, gtkReads, srvVars, session, history>>
    BY <2>2
  <2> QED BY <1>3, <2>1, <2>2 DEF Show
<1>4. CASE Quit \/ QuitFav \/ QuitConfig
  BY <1>4, OpenTyped DEF Quit, QuitFav, QuitConfig
<1>5. CASE GtkWrite
  BY <1>5 DEF GtkWrite
<1>6. CASE GtkExit
  BY <1>6 DEF GtkExit
<1>7. ASSUME NEW n \in Names, Save(n) \/ GtkImport(n) PROVE TypeOK'
  BY <1>7, OpenTyped DEF Save, GtkImport
<1>8. ASSUME NEW n \in Names, Delete(n) PROVE TypeOK'
  BY <1>8 DEF Delete
<1>9. ASSUME NEW n \in Names, GtkRead(n) PROVE TypeOK'
  <2>1. met' \in BOOLEAN
    BY <1>9, Zenon DEF GtkRead
  <2>2. CASE Throws("run")
    BY <2>1, <2>2, EndTyped DEF Throws
  <2>3. CASE ~Throws("run")
    BY <1>9, <2>1, <2>3 DEF GtkRead
  <2> QED BY <2>2, <2>3
<1>10. CASE SwitchHeartOn \/ switch_theme
  BY <1>10, OpenTyped DEF SwitchHeartOn, switch_theme
<1>11. CASE SwitchHeartOff
  BY <1>11 DEF SwitchHeartOff
<1>12. CASE ReadBack
  <2>1. met' \in BOOLEAN
    BY <1>12, Zenon DEF ReadBack
  <2>2. CASE Throws("run")
    BY <2>1, <2>2, EndTyped DEF Throws
  <2>3. CASE ~Throws("run")
    BY <1>12, <2>1, <2>3 DEF ReadBack
  <2> QED BY <2>2, <2>3
<1>13. CASE GtkReadAll \/ SrvReadAll
  BY <1>13 DEF GtkReadAll, SrvReadAll, existing
<1>14. CASE GtkReadEnd \/ OpenSync \/ CloseSync \/ SrvReadEnd
  BY <1>14 DEF GtkReadEnd, OpenSync, CloseSync, SrvReadEnd
<1>15. CASE SrvWrite
  <2>1. srvFile \in Files
    OBVIOUS
  <2>2. disk' \in [Files -> {"none", "cut", "mixed", "malformed", "whole"}]
    <3>1. CASE orphan
      BY <1>15, <3>1 DEF SrvWrite
    <3>2. CASE ~orphan
      BY <1>15, <2>1, <3>2 DEF SrvWrite
    <3> QED BY <3>1, <3>2
  <2> QED BY <1>15, <2>2 DEF SrvWrite
<1>16. ASSUME NEW n \in Names, SrvRead(n) PROVE TypeOK'
  <2>1. met' \in BOOLEAN
    BY <1>16, Zenon DEF SrvRead
  <2>2. CASE Throws("run")
    BY <2>1, <2>2, EndTyped DEF Throws
  <2>3. CASE ~Throws("run")
    BY <1>16, <2>1, <2>3 DEF SrvRead
  <2> QED BY <2>2, <2>3
<1>17. ASSUME NEW n \in Names, SrvOpen(n) PROVE TypeOK'
  BY <1>17, SrvOpenTyped
<1>18. CASE Killed
  BY <1>18 DEF Killed, processEnds
<1>19. CASE UNCHANGED vars
  BY <1>19 DEF vars
<1>20. CASE generateLV2Info \/ Download
  BY <1>20, OpenTyped DEF generateLV2Info, Download
<1>21. CASE LoadFiles
  <2>1. CASE Throws("start")
    BY <1>21, <2>1, EndTyped DEF LoadFiles, Throws
  <2>2. CASE ~Throws("start")
    BY <1>21, <2>2 DEF LoadFiles
  <2> QED BY <2>1, <2>2
<1>22. CASE DownloadMalformed
  BY <1>22 DEF DownloadMalformed
<1>23. CASE ImportMalformed
  BY <1>23, EndTyped DEF ImportMalformed, Throws
<1> QED
  BY <1>1, <1>2, <1>3, <1>4, <1>5, <1>6, <1>7, <1>8, <1>9, <1>10, <1>11, <1>12, <1>13,
     <1>14, <1>15, <1>16, <1>17, <1>18, <1>19, <1>20, <1>21, <1>22, <1>23, SavedActions

-----------------------------------------------------------------------------
(* What is open, and what quitting has written *)

\* The process has read what a start reads.
pastStart ==
  /\ gtk \notin PluginFiles \cup {"off", "load"}
  /\ ~(gtk = "write" /\ after \in {"categories", "creators", "load"})

\* Which file a write is of follows from what comes after it.
Positions ==
  /\ gtk # "off" => session > 0
  /\ ~pastStart => server = "none"
  /\ gtk = "write" =>
       /\ after = "quitFav" => gtkFile = "default"
       /\ after = "quitConfig" => gtkFile = "fav"
       /\ after \in {"off", "show"} => gtkFile = "config"
       /\ after \in {"categories", "creators", "load"} => gtkFile \in PluginFiles
       /\ after = "readback" => gtkFile \in Names \cup {"library"}
       /\ after = "on" => gtkFile \in Names \cup {"heart", "config"}
  /\ gtk = "readback" => gtkFile \in Names \cup {"library"}

\* This session has written f to the end.
done(f) == kept[f] = session /\ disk[f] = "whole"

\* While quitting the rack is written before the favourites, both by this session;
\* outside quitting they are of the last one that quit, unless one was ended inside.
Quitting ==
  /\ gtk = "quitFav" => done("default")
  /\ gtk = "write" /\ after = "quitFav" => disk["default"] = "cut"
  /\ gtk = "write" /\ after = "quitConfig" => done("default") /\ disk["fav"] = "cut"
  /\ gtk = "quitConfig" => done("default") /\ done("fav")
  /\ gtk = "write" /\ after = "off" => done("default") /\ done("fav")
  /\ RackAndFavsOfLastQuit

\* The names of the files differ.
LEMMA NamesDiffer ==
  /\ \A n \in Names : n \notin OwnFiles
  /\ MaxSessions \in Nat
  /\ Files = Names \cup OwnFiles
  /\ OwnFiles = {"default", "fav", "config", "heart", "library", "plugins", "categories", "creators"}
  /\ PluginFiles = {"plugins", "categories", "creators"}
BY SavedStateAssumption DEF Files, OwnFiles, PluginFiles, QuitFiles

LEMMA PositionsStep ==
  ASSUME TypeOK, Positions, [Next]_vars
  PROVE  Positions'
<1> USE NamesDiffer DEF TypeOK, Positions, pastStart, gtkVars, srvVars
<1>1. CASE Start \/ SettingsLeave
  BY <1>1 DEF Start, SettingsLeave
<1>2. CASE SettingsWrites
  BY <1>2 DEF SettingsWrites, open
<1>3. CASE Show
  BY <1>3 DEF Show, Throws, processEnds
<1>4. CASE Quit \/ QuitFav \/ QuitConfig
  BY <1>4 DEF Quit, QuitFav, QuitConfig, open
<1>5. CASE GtkWrite
  BY <1>5 DEF GtkWrite
<1>6. CASE GtkExit
  BY <1>6 DEF GtkExit
<1>7. ASSUME NEW n \in Names, Save(n) \/ GtkImport(n) PROVE Positions'
  BY <1>7 DEF Save, GtkImport, open
<1>8. ASSUME NEW n \in Names, Delete(n) PROVE Positions'
  BY <1>8 DEF Delete
<1>9. ASSUME NEW n \in Names, GtkRead(n) PROVE Positions'
  BY <1>9 DEF GtkRead, Throws, processEnds
<1>10. CASE SwitchHeartOn \/ switch_theme
  BY <1>10 DEF SwitchHeartOn, switch_theme, open
<1>11. CASE SwitchHeartOff
  BY <1>11 DEF SwitchHeartOff
<1>12. CASE ReadBack
  BY <1>12 DEF ReadBack, Throws, processEnds
<1>13. CASE GtkReadAll \/ SrvReadAll
  BY <1>13 DEF GtkReadAll, SrvReadAll
<1>14. CASE GtkReadEnd \/ OpenSync \/ CloseSync \/ SrvReadEnd
  BY <1>14 DEF GtkReadEnd, OpenSync, CloseSync, SrvReadEnd
<1>15. CASE SrvWrite
  BY <1>15 DEF SrvWrite
<1>16. ASSUME NEW n \in Names, SrvRead(n) PROVE Positions'
  BY <1>16 DEF SrvRead, Throws, processEnds
<1>17. ASSUME NEW n \in Names, SrvOpen(n) PROVE Positions'
  BY <1>17 DEF SrvOpen
<1>18. CASE Killed
  BY <1>18 DEF Killed, processEnds
<1>19. CASE UNCHANGED vars
  BY <1>19 DEF vars
<1>20. CASE generateLV2Info \/ Download
  BY <1>20 DEF generateLV2Info, Download, open
<1>21. CASE LoadFiles
  <2>1. CASE Throws("start")
    BY <1>21, <2>1 DEF LoadFiles, Throws, processEnds, startReads
  <2>2. CASE ~Throws("start")
    BY <1>21, <2>2 DEF LoadFiles, startReads
  <2> QED BY <2>1, <2>2
<1>22. CASE DownloadMalformed
  BY <1>22 DEF DownloadMalformed
<1>23. CASE ImportMalformed
  BY <1>23 DEF ImportMalformed, Throws, processEnds
<1> QED
  BY <1>1, <1>2, <1>3, <1>4, <1>5, <1>6, <1>7, <1>8, <1>9, <1>10, <1>11, <1>12, <1>13,
     <1>14, <1>15, <1>16, <1>17, <1>18, <1>19, <1>20, <1>21, <1>22, <1>23, SavedActions

LEMMA QuittingStep ==
  ASSUME TypeOK, Positions, Quitting, [Next]_vars
  PROVE  Quitting'
<1> USE NamesDiffer DEF TypeOK, Positions, pastStart, Quitting, RackAndFavsOfLastQuit, quitting, done, gtkVars, srvVars, history
<1>1. CASE Start \/ SettingsLeave
  BY <1>1 DEF Start, SettingsLeave
<1>2. CASE SettingsWrites
  BY <1>2 DEF SettingsWrites, open
<1>3. CASE Show
  BY <1>3 DEF Show, Throws, processEnds
<1>4. CASE Quit \/ QuitFav \/ QuitConfig
  BY <1>4 DEF Quit, QuitFav, QuitConfig, open
<1>5. CASE GtkWrite
  BY <1>5 DEF GtkWrite, written, QuitFiles
<1>6. CASE GtkExit
  BY <1>6 DEF GtkExit, QuitFiles
<1>7. ASSUME NEW n \in Names, Save(n) \/ GtkImport(n) PROVE Quitting'
  BY <1>7 DEF Save, GtkImport, open
<1>8. ASSUME NEW n \in Names, Delete(n) PROVE Quitting'
  BY <1>8 DEF Delete
<1>9. ASSUME NEW n \in Names, GtkRead(n) PROVE Quitting'
  BY <1>9 DEF GtkRead, Throws, processEnds
<1>10. CASE SwitchHeartOn \/ switch_theme
  BY <1>10 DEF SwitchHeartOn, switch_theme, open
<1>11. CASE SwitchHeartOff
  BY <1>11 DEF SwitchHeartOff
<1>12. CASE ReadBack
  BY <1>12 DEF ReadBack, Throws, processEnds
<1>13. CASE GtkReadAll \/ SrvReadAll
  BY <1>13 DEF GtkReadAll, SrvReadAll
<1>14. CASE GtkReadEnd \/ OpenSync \/ CloseSync \/ SrvReadEnd
  BY <1>14 DEF GtkReadEnd, OpenSync, CloseSync, SrvReadEnd
<1>15. CASE SrvWrite
  BY <1>15 DEF SrvWrite
<1>16. ASSUME NEW n \in Names, SrvRead(n) PROVE Quitting'
  <2>1. CASE Throws("run")
    BY <2>1 DEF Throws, processEnds
  <2>2. CASE ~Throws("run")
    BY <1>16, <2>2 DEF SrvRead
  <2> QED BY <2>1, <2>2
<1>17. ASSUME NEW n \in Names, SrvOpen(n) PROVE Quitting'
  BY <1>17 DEF SrvOpen
<1>18. CASE Killed
  BY <1>18 DEF Killed, processEnds
<1>19. CASE UNCHANGED vars
  BY <1>19 DEF vars
<1>20. CASE generateLV2Info \/ Download
  BY <1>20 DEF generateLV2Info, Download, open
<1>21. CASE LoadFiles
  <2>1. CASE Throws("start")
    BY <1>21, <2>1 DEF LoadFiles, Throws, processEnds, startReads
  <2>2. CASE ~Throws("start")
    BY <1>21, <2>2 DEF LoadFiles, startReads
  <2> QED BY <2>1, <2>2
<1>22. CASE DownloadMalformed
  BY <1>22 DEF DownloadMalformed
<1>23. CASE ImportMalformed
  BY <1>23 DEF ImportMalformed, Throws, processEnds
<1> QED
  BY <1>1, <1>2, <1>3, <1>4, <1>5, <1>6, <1>7, <1>8, <1>9, <1>10, <1>11, <1>12, <1>13,
     <1>14, <1>15, <1>16, <1>17, <1>18, <1>19, <1>20, <1>21, <1>22, <1>23, SavedActions

-----------------------------------------------------------------------------
(* What is unreadable *)

\* A file that a thread has open is empty and stays so until that thread has
\* written it, and only then is a file unreadable, unless the threads have met or
\* a process has ended with a file open; what a kill has cut is not forgotten once
\* a session is past its start, because the start reads every file there is.
OpenAreCut ==
  ~met => \A f \in Files :
            /\ gtkHas(f) => disk[f] = "cut" /\ ~srvHas(f)
            /\ srvHas(f) => disk[f] = "cut"

\* What a session past its start or, before any cut, any process may find.
OnlyOpenUnreadable ==
  ~met /\ ~malformed =>
    /\ pastStart => \A f \in startReads : unreadable(f) => gtkHas(f) \/ srvHas(f)
    /\ ~cut => \A f \in Files : unreadable(f) => gtkHas(f) \/ srvHas(f)

\* Opening a file that the other thread has open is a meeting.
LEMMA OpenCuts ==
  ASSUME TypeOK, OpenAreCut, NEW f \in Files, NEW next, open(f, next)
  PROVE  OpenAreCut'
<1> SUFFICES ASSUME ~met', NEW g \in Files
             PROVE  /\ gtkHas(g)' => disk'[g] = "cut" /\ ~srvHas(g)'
                    /\ srvHas(g)' => disk'[g] = "cut"
  BY DEF OpenAreCut
<1>1. ~met /\ ~srvHas(f)
  BY DEF open
<1>2. srvHas(g)' = srvHas(g)
  BY DEF open, srvHas, srvVars
<1>3. srvHas(g) => disk[g] = "cut"
  BY <1>1 DEF OpenAreCut
<1>4. disk' = [disk EXCEPT ![f] = "cut"] /\ DOMAIN disk = Files
  BY DEF open, TypeOK
<1>5. gtkHas(g)' => g = f
  BY DEF open, gtkHas
<1> QED BY <1>1, <1>2, <1>3, <1>4, <1>5

LEMMA OpenStep ==
  ASSUME TypeOK, Positions, OpenAreCut, [Next]_vars
  PROVE  OpenAreCut'
<1> USE NamesDiffer DEF TypeOK, Positions, pastStart, gtkVars, srvVars, history, unreadable, gtkHas, srvHas, OpenAreCut
<1>1. CASE Start \/ SettingsLeave
  BY <1>1 DEF Start, SettingsLeave
<1>2. CASE SettingsWrites
  BY <1>2, OpenCuts DEF SettingsWrites
<1>3. CASE Show
  BY <1>3 DEF Show, Throws, processEnds
<1>4. CASE Quit \/ QuitFav \/ QuitConfig
  BY <1>4, OpenCuts DEF Quit, QuitFav, QuitConfig
<1>5. CASE GtkWrite
  BY <1>5 DEF GtkWrite, written
<1>6. CASE GtkExit
  BY <1>6 DEF GtkExit
<1>7. ASSUME NEW n \in Names, Save(n) \/ GtkImport(n) PROVE OpenAreCut'
  <2>1. n \in Files /\ (open(n, "readback") \/ open(n, "on"))
    BY <1>7 DEF Save, GtkImport
  <2> QED BY <2>1, OpenCuts
<1>8. ASSUME NEW n \in Names, Delete(n) PROVE OpenAreCut'
  BY <1>8 DEF Delete
<1>9. ASSUME NEW n \in Names, GtkRead(n) PROVE OpenAreCut'
  <2>1. CASE Throws("run")
    BY <1>9, <2>1 DEF GtkRead, Throws, processEnds
  <2>2. CASE ~Throws("run")
    BY <1>9, <2>2 DEF GtkRead
  <2> QED BY <2>1, <2>2
<1>10. CASE SwitchHeartOn \/ switch_theme
  BY <1>10, OpenCuts DEF SwitchHeartOn, switch_theme
<1>11. CASE SwitchHeartOff
  BY <1>11 DEF SwitchHeartOff
<1>12. CASE ReadBack
  <2>1. CASE Throws("run")
    BY <1>12, <2>1 DEF ReadBack, Throws, processEnds
  <2>2. CASE ~Throws("run")
    BY <1>12, <2>2 DEF ReadBack
  <2> QED BY <2>1, <2>2
<1>13. CASE GtkReadAll \/ SrvReadAll
  BY <1>13 DEF GtkReadAll, SrvReadAll
<1>14. CASE GtkReadEnd \/ OpenSync \/ CloseSync \/ SrvReadEnd
  BY <1>14 DEF GtkReadEnd, OpenSync, CloseSync, SrvReadEnd
<1>15. CASE SrvWrite
  BY <1>15 DEF SrvWrite, written
<1>16. ASSUME NEW n \in Names, SrvRead(n) PROVE OpenAreCut'
  <2>1. CASE Throws("run")
    BY <1>16, <2>1 DEF SrvRead, Throws, processEnds
  <2>2. CASE ~Throws("run")
    BY <1>16, <2>2 DEF SrvRead
  <2> QED BY <2>1, <2>2
<1>17. ASSUME NEW n \in Names, SrvOpen(n) PROVE OpenAreCut'
  BY <1>17 DEF SrvOpen
<1>18. CASE Killed
  BY <1>18 DEF Killed, processEnds
<1>19. CASE UNCHANGED vars
  BY <1>19 DEF vars
<1>20. CASE generateLV2Info \/ Download
  BY <1>20, OpenCuts DEF generateLV2Info, Download
<1>21. CASE LoadFiles
  <2>1. CASE Throws("start")
    BY <1>21, <2>1 DEF LoadFiles, Throws, processEnds, startReads
  <2>2. CASE ~Throws("start")
    BY <1>21, <2>2 DEF LoadFiles, startReads
  <2> QED BY <2>1, <2>2
<1>22. CASE DownloadMalformed
  BY <1>22 DEF DownloadMalformed
<1>23. CASE ImportMalformed
  BY <1>23 DEF ImportMalformed, Throws, processEnds
<1> QED
  BY <1>1, <1>2, <1>3, <1>4, <1>5, <1>6, <1>7, <1>8, <1>9, <1>10, <1>11, <1>12, <1>13,
     <1>14, <1>15, <1>16, <1>17, <1>18, <1>19, <1>20, <1>21, <1>22, <1>23, SavedActions

LEMMA UnreadableStep ==
  ASSUME TypeOK, Positions, OpenAreCut, OnlyOpenUnreadable, [Next]_vars
  PROVE  OnlyOpenUnreadable'
<1> USE NamesDiffer DEF TypeOK, Positions, pastStart, gtkVars, srvVars, history, unreadable, gtkHas, srvHas, startReads, OpenAreCut, OnlyOpenUnreadable
<1>1. CASE Start \/ SettingsLeave
  BY <1>1 DEF Start, SettingsLeave
<1>2. CASE SettingsWrites
  BY <1>2 DEF SettingsWrites, open
<1>3. CASE Show
  BY <1>3 DEF Show, Throws, processEnds
<1>4. CASE Quit \/ QuitFav \/ QuitConfig
  BY <1>4 DEF Quit, QuitFav, QuitConfig, open
<1>5. CASE GtkWrite
  BY <1>5 DEF GtkWrite, written
<1>6. CASE GtkExit
  <2> SUFFICES ASSUME ~met', ~malformed', ~cut', NEW f \in Files, unreadable(f)' PROVE FALSE
    BY <1>6 DEF GtkExit
  <2>1. ~met /\ ~malformed /\ ~cut /\ ~srvHas(f) /\ gtkFile = "config"
    BY <1>6 DEF GtkExit
  <2>2. f # "config" /\ unreadable(f)
    BY <1>6 DEF GtkExit
  <2> QED BY <2>1, <2>2
<1>7. ASSUME NEW n \in Names, Save(n) \/ GtkImport(n) PROVE OnlyOpenUnreadable'
  BY <1>7 DEF Save, GtkImport, open
<1>8. ASSUME NEW n \in Names, Delete(n) PROVE OnlyOpenUnreadable'
  BY <1>8 DEF Delete
<1>9. ASSUME NEW n \in Names, GtkRead(n) PROVE OnlyOpenUnreadable'
  <2>1. CASE Throws("run")
    BY <1>9, <2>1 DEF GtkRead, Throws, processEnds
  <2>2. CASE ~Throws("run")
    BY <1>9, <2>2 DEF GtkRead
  <2> QED BY <2>1, <2>2
<1>10. CASE SwitchHeartOn \/ switch_theme
  BY <1>10 DEF SwitchHeartOn, switch_theme, open
<1>11. CASE SwitchHeartOff
  BY <1>11 DEF SwitchHeartOff
<1>12. CASE ReadBack
  <2>1. CASE Throws("run")
    BY <1>12, <2>1 DEF ReadBack, Throws, processEnds
  <2>2. CASE ~Throws("run")
    BY <1>12, <2>2 DEF ReadBack
  <2> QED BY <2>1, <2>2
<1>13. CASE GtkReadAll \/ SrvReadAll
  BY <1>13 DEF GtkReadAll, SrvReadAll
<1>14. CASE GtkReadEnd \/ OpenSync \/ CloseSync \/ SrvReadEnd
  BY <1>14 DEF GtkReadEnd, OpenSync, CloseSync, SrvReadEnd
<1>15. CASE SrvWrite
  BY <1>15 DEF SrvWrite, written
<1>16. ASSUME NEW n \in Names, SrvRead(n) PROVE OnlyOpenUnreadable'
  <2>1. CASE Throws("run")
    BY <1>16, <2>1 DEF SrvRead, Throws, processEnds
  <2>2. CASE ~Throws("run")
    BY <1>16, <2>2 DEF SrvRead
  <2> QED BY <2>1, <2>2
<1>17. ASSUME NEW n \in Names, SrvOpen(n) PROVE OnlyOpenUnreadable'
  BY <1>17 DEF SrvOpen
<1>18. CASE Killed
  BY <1>18 DEF Killed, processEnds
<1>19. CASE UNCHANGED vars
  BY <1>19 DEF vars
<1>20. CASE generateLV2Info \/ Download
  BY <1>20 DEF generateLV2Info, Download, open
<1>21. CASE LoadFiles
  <2>1. CASE Throws("start")
    BY <1>21, <2>1 DEF LoadFiles, Throws, processEnds, startReads
  <2>2. CASE ~Throws("start")
    BY <1>21, <2>2 DEF LoadFiles, startReads
  <2> QED BY <2>1, <2>2
<1>22. CASE DownloadMalformed
  BY <1>22 DEF DownloadMalformed
<1>23. CASE ImportMalformed
  BY <1>23 DEF ImportMalformed, Throws, processEnds
<1> QED
  BY <1>1, <1>2, <1>3, <1>4, <1>5, <1>6, <1>7, <1>8, <1>9, <1>10, <1>11, <1>12, <1>13,
     <1>14, <1>15, <1>16, <1>17, <1>18, <1>19, <1>20, <1>21, <1>22, <1>23, SavedActions

LEMMA FailsStep ==
  ASSUME TypeOK, Positions, OpenAreCut, OnlyOpenUnreadable, FailsOnlyForCause, [Next]_vars
  PROVE  FailsOnlyForCause'
<1> USE NamesDiffer DEF TypeOK, Positions, pastStart, gtkVars, srvVars, history, unreadable, gtkHas, srvHas, startReads, OpenAreCut, OnlyOpenUnreadable, FailsOnlyForCause
<1>1. CASE Start \/ SettingsLeave
  BY <1>1 DEF Start, SettingsLeave
<1>2. CASE SettingsWrites
  BY <1>2 DEF SettingsWrites, open
<1>3. CASE Show
  BY <1>3 DEF Show, Throws, processEnds
<1>4. CASE Quit \/ QuitFav \/ QuitConfig
  BY <1>4 DEF Quit, QuitFav, QuitConfig, open
<1>5. CASE GtkWrite
  BY <1>5 DEF GtkWrite, written
<1>6. CASE GtkExit
  BY <1>6 DEF GtkExit
<1>7. ASSUME NEW n \in Names, Save(n) \/ GtkImport(n) PROVE FailsOnlyForCause'
  BY <1>7 DEF Save, GtkImport, open
<1>8. ASSUME NEW n \in Names, Delete(n) PROVE FailsOnlyForCause'
  BY <1>8 DEF Delete
<1>9. ASSUME NEW n \in Names, GtkRead(n) PROVE FailsOnlyForCause'
  <2>1. CASE Throws("run")
    BY <1>9, <2>1 DEF GtkRead, Throws, processEnds
  <2>2. CASE ~Throws("run")
    BY <1>9, <2>2 DEF GtkRead
  <2> QED BY <2>1, <2>2
<1>10. CASE SwitchHeartOn \/ switch_theme
  BY <1>10 DEF SwitchHeartOn, switch_theme, open
<1>11. CASE SwitchHeartOff
  BY <1>11 DEF SwitchHeartOff
<1>12. CASE ReadBack
  <2>1. CASE Throws("run")
    BY <1>12, <2>1 DEF ReadBack, Throws, processEnds
  <2>2. CASE ~Throws("run")
    BY <1>12, <2>2 DEF ReadBack
  <2> QED BY <2>1, <2>2
<1>13. CASE GtkReadAll \/ SrvReadAll
  BY <1>13 DEF GtkReadAll, SrvReadAll
<1>14. CASE GtkReadEnd \/ OpenSync \/ CloseSync \/ SrvReadEnd
  BY <1>14 DEF GtkReadEnd, OpenSync, CloseSync, SrvReadEnd
<1>15. CASE SrvWrite
  BY <1>15 DEF SrvWrite, written
<1>16. ASSUME NEW n \in Names, SrvRead(n) PROVE FailsOnlyForCause'
  <2>1. CASE Throws("run")
    BY <1>16, <2>1 DEF SrvRead, Throws, processEnds
  <2>2. CASE ~Throws("run")
    BY <1>16, <2>2 DEF SrvRead
  <2> QED BY <2>1, <2>2
<1>17. ASSUME NEW n \in Names, SrvOpen(n) PROVE FailsOnlyForCause'
  BY <1>17 DEF SrvOpen
<1>18. CASE Killed
  BY <1>18 DEF Killed, processEnds
<1>19. CASE UNCHANGED vars
  BY <1>19 DEF vars
<1>20. CASE generateLV2Info \/ Download
  BY <1>20 DEF generateLV2Info, Download, open
<1>21. CASE LoadFiles
  <2>1. CASE Throws("start")
    BY <1>21, <2>1 DEF LoadFiles, Throws, processEnds, startReads
  <2>2. CASE ~Throws("start")
    BY <1>21, <2>2 DEF LoadFiles, startReads
  <2> QED BY <2>1, <2>2
<1>22. CASE DownloadMalformed
  BY <1>22 DEF DownloadMalformed
<1>23. CASE ImportMalformed
  BY <1>23 DEF ImportMalformed, Throws, processEnds
<1> QED
  BY <1>1, <1>2, <1>3, <1>4, <1>5, <1>6, <1>7, <1>8, <1>9, <1>10, <1>11, <1>12, <1>13,
     <1>14, <1>15, <1>16, <1>17, <1>18, <1>19, <1>20, <1>21, <1>22, <1>23, SavedActions

-----------------------------------------------------------------------------
(* The theorems *)

\* Whatever is killed and whichever thread throws, the state is well typed: what
\* json_to_filename, Server::handle and download_file do to a file leaves it in one of
\* five states.
THEOREM SavedTyped == Spec => []TypeOK
<1>1. Init => TypeOK
  <2> SUFFICES ASSUME Init PROVE TypeOK
    OBVIOUS
  <2>1. orphan \in BOOLEAN /\ half \in BOOLEAN /\ cut \in BOOLEAN /\ met \in BOOLEAN
       /\ malformed \in BOOLEAN
    BY Zenon DEF Init
  <2> QED BY <2>1, NamesDiffer DEF Init, TypeOK, Files, QuitFiles
<1>2. TypeOK /\ [Next]_vars => TypeOK'
  BY SavedTypeStep
<1> QED BY <1>1, <1>2, PTL DEF Spec

\* The rack and the favourites of a start are of one session, the last that was quit
\* to its end, for every set of presets and number of sessions (main.cc:115-127).
THEOREM RackOfLastQuit == Spec => []RackAndFavsOfLastQuit
<1>1. Init => Positions /\ Quitting
  BY NamesDiffer DEF Init, Positions, pastStart, Quitting, RackAndFavsOfLastQuit, quitting, done, QuitFiles
<1>2. TypeOK /\ Positions /\ [Next]_vars => Positions'
  BY PositionsStep
<1>3. TypeOK /\ Positions /\ Quitting /\ [Next]_vars => Quitting'
  BY QuittingStep
<1>4. Quitting => RackAndFavsOfLastQuit
  BY DEF Quitting
<1> QED BY <1>1, <1>2, <1>3, <1>4, SavedTyped, PTL DEF Spec

\* A running session meets an unreadable file only after the two threads have met in
\* a file or the library has come malformed from its server, and a start only after
\* one of these or a process ended inside a write, however many sessions there are and
\* wherever they end (util.cc:14 and 33, server.cc:104 and 130, presets.cc:29-33 and 232).
THEOREM FailsOnly == Spec => []FailsOnlyForCause
<1> DEFINE Inv == OpenAreCut /\ OnlyOpenUnreadable /\ FailsOnlyForCause
<1>1. Init => Positions /\ Inv
  BY NamesDiffer DEF Init, Positions, pastStart, OpenAreCut, OnlyOpenUnreadable, FailsOnlyForCause,
     unreadable, gtkHas, srvHas
<1>2. TypeOK /\ Positions /\ [Next]_vars => Positions'
  BY PositionsStep
<1>3. TypeOK /\ Positions /\ Inv /\ [Next]_vars => Inv'
  BY OpenStep, UnreadableStep, FailsStep
<1>4. Inv => FailsOnlyForCause
  OBVIOUS
<1> QED BY <1>1, <1>2, <1>3, <1>4, SavedTyped, PTL DEF Spec

-----------------------------------------------------------------------------
(* LibraryPages: the three numbers *)

\* The number of full pages.
LEMMA FullPages ==
  ASSUME NEW n \in Nat, NEW d \in Nat \ {0}
  PROVE  n \div d \in Nat /\ d * (n \div d) <= n
OBVIOUS

\* A library that is not smaller has no fewer full pages.
LEMMA FullPagesGrow ==
  ASSUME NEW n \in Nat, NEW d \in Nat \ {0}, NEW k \in Nat, n <= k
  PROVE  n \div d <= k \div d
<1> DEFINE p == n \div d
           q == k \div d
<1>1. p \in Nat /\ d * p <= n
  BY FullPages
<1>2. q \in Nat /\ k < d * (q + 1)
  OBVIOUS
<1> HIDE DEF p, q
<1> SUFFICES ASSUME q + 1 <= p PROVE FALSE
  BY <1>1, <1>2 DEF p, q
<1>3. d * (q + 1) <= d * p
  BY <1>1, <1>2
<1> QED BY <1>1, <1>2, <1>3

\* The last value does not fall when the adjustment grows.
LEMMA LastGrows ==
  ASSUME NEW u \in Nat, NEW w \in Nat, u <= w, NEW v \in Nat,
         v <= (IF u > 2 THEN u - 1 ELSE 1)
  PROVE  v <= (IF w > 2 THEN w - 1 ELSE 1)
OBVIOUS

\* What the three numbers and the history are, between handlers: the adjustment
\* ends at the last full page, its value is beyond that only after a refresh has
\* brought a smaller library, and so is the page on screen.
PagesInv ==
  /\ PagesTypeOK
  /\ upper = size \div PageSize
  /\ ~shrunk => value <= last
  /\ ~shrunk => shown = 0 \/ shown + 1 <= upper
  /\ ShownIsDisplayed
  /\ DriftsOnlyAtTheEnd

\* The start establishes it.
LEMMA PagesInvInit == PagesAssumption /\ PagesInit => PagesInv
<1> SUFFICES ASSUME PagesAssumption, PagesInit PROVE PagesInv
  OBVIOUS
<1>1. size \in Nat /\ upper \in Nat
  BY FullPages DEF PagesAssumption, PagesInit
<1>2. PagesTypeOK
  <2>1. /\ size \in 0..MaxSize /\ value = 1 /\ page = 0 /\ shown = 0
        /\ shrunk = FALSE
    BY DEF PagesInit
  <2>2. value \in Nat \ {0} /\ page \in Nat /\ shown \in Nat
    <3>1. 1 \in Nat \ {0} /\ 0 \in Nat
      OBVIOUS
    <3> QED BY <2>1, <3>1, Zenon
  <2>3. shrunk \in BOOLEAN
    BY <2>1, Zenon
  <2> QED BY <1>1, <2>1, <2>2, <2>3, Zenon DEF PagesTypeOK
<1>3. value <= last /\ shown = 0 /\ page = 0
  BY <1>1 DEF PagesInit, last
<1>4. upper = size \div PageSize
  BY DEF PagesInit
<1> QED BY <1>2, <1>3, <1>4 DEF PagesInv, ShownIsDisplayed, DriftsOnlyAtTheEnd

\* A handler that sets page and then the adjustment keeps it.
LEMMA SetValueKeeps ==
  ASSUME PagesAssumption, PagesInv, NEW p \in Nat, NEW v \in Nat, setValue(p, v),
         p = v \/ p = page
  PROVE  PagesInv'
<1> USE DEF PagesInv, PagesTypeOK, last
<1>1. value' \in Nat \ {0} /\ value' = clamped(v) /\ last' = last
  BY DEF setValue, clamped
<1>2. CASE value' # value
  BY <1>1, <1>2 DEF setValue, clamped, ShownIsDisplayed, DriftsOnlyAtTheEnd
<1>3. CASE value' = value
  <2>1. page' = p /\ shown' = shown /\ UNCHANGED <<size, upper, shrunk>>
    BY <1>3 DEF setValue
  <2>2. DriftsOnlyAtTheEnd'
    BY <1>1, <1>3, <2>1 DEF clamped, DriftsOnlyAtTheEnd
  <2> QED BY <1>1, <1>3, <2>1, <2>2 DEF ShownIsDisplayed
<1> QED BY <1>2, <1>3

\* Every handler keeps it.
LEMMA PagesInvStep == PagesAssumption /\ PagesInv /\ [PagesNext]_pagesVars => PagesInv'
<1> SUFFICES ASSUME PagesAssumption, PagesInv, [PagesNext]_pagesVars PROVE PagesInv'
  OBVIOUS
<1>1. page \in Nat /\ MaxPage \in Nat
  BY DEF PagesInv, PagesTypeOK, PagesAssumption
<1>2. CASE presets_next
  BY <1>1, <1>2, SetValueKeeps DEF presets_next
<1>3. CASE presets_prev
  BY <1>1, <1>3, SetValueKeeps DEF presets_prev
<1>4. ASSUME NEW v \in 1..MaxPage, Typed(v) PROVE PagesInv'
  BY <1>1, <1>4, SetValueKeeps DEF Typed
<1>5. ASSUME NEW n \in 0..MaxSize, download_cb(n) PROVE PagesInv'
  <2>1. n \in Nat /\ size \in Nat /\ PageSize \in Nat \ {0}
    BY <1>5 DEF PagesInv, PagesTypeOK, PagesAssumption
  <2>2. upper' \in Nat /\ (size <= n => upper <= upper')
    BY <1>5, <2>1, FullPages, FullPagesGrow DEF download_cb, PagesInv
  <2>3. PagesTypeOK'
    BY <1>5, <2>1, <2>2 DEF PagesInv, PagesTypeOK, download_cb
  <2>4. (upper = size \div PageSize)'
    BY <1>5 DEF download_cb
  <2>5. shown' = 0 /\ page' = 0
    BY <1>5 DEF download_cb
  <2>6. ASSUME ~shrunk' PROVE value' <= last'
    <3>1. ~shrunk /\ ~(n < size) /\ value' = value
      <4>1. shrunk' = (shrunk \/ n < size) /\ value' = value
        BY <1>5 DEF download_cb
      <4> QED BY <2>6, <4>1, Zenon
    <3>2. value <= last /\ value \in Nat /\ upper \in Nat
      BY <3>1 DEF PagesInv, PagesTypeOK
    <3>3. upper <= upper' /\ upper' \in Nat
      BY <2>1, <2>2, <3>1
    <3>4. value <= last'
      <4>1. value <= (IF upper > 2 THEN upper - 1 ELSE 1)
        BY <3>2 DEF last
      <4>2. value <= (IF upper' > 2 THEN upper' - 1 ELSE 1)
        BY ONLY <3>2, <3>3, <4>1, LastGrows, Zenon
      <4> QED BY <4>2, Zenon DEF last
    <3> QED BY <3>1, <3>4, Zenon
  <2> QED BY <2>3, <2>4, <2>5, <2>6 DEF PagesInv, ShownIsDisplayed, DriftsOnlyAtTheEnd
<1>6. CASE UNCHANGED pagesVars
  BY <1>6 DEF pagesVars, PagesInv, PagesTypeOK, last, ShownIsDisplayed, DriftsOnlyAtTheEnd
<1> QED BY <1>2, <1>3, <1>4, <1>5, <1>6 DEF PagesNext

\* The types, and what is on screen against what is displayed and counted.
THEOREM PagesAgree ==
  ASSUME PagesAssumption
  PROVE  PagesSpec => [](PagesTypeOK /\ ShownIsDisplayed /\ DriftsOnlyAtTheEnd)
<1>1. PagesInv => PagesTypeOK /\ ShownIsDisplayed /\ DriftsOnlyAtTheEnd
  BY DEF PagesInv
<1> QED BY <1>1, PagesInvInit, PagesInvStep, PTL DEF PagesSpec

\* The page on screen is a full one or the first, until a refresh brings a smaller
\* library: then a partly filled or empty one may be shown (presets.cc:34 and 234).
THEOREM OnlyFullPages ==
  ASSUME PagesAssumption
  PROVE  PagesSpec => []ShownIsFull
<1>1. ASSUME PagesInv PROVE ShownIsFull
  <2> SUFFICES ASSUME shown # 0, ~shrunk PROVE (shown + 1) * PageSize <= size
    BY DEF ShownIsFull
  <2>1. PageSize \in Nat \ {0} /\ size \in Nat /\ upper \in Nat /\ shown + 1 \in Nat
    BY <1>1 DEF PagesInv, PagesTypeOK, PagesAssumption
  <2>2. PageSize * upper <= size
    BY <1>1, <2>1, FullPages DEF PagesInv
  <2>3. shown + 1 <= upper
    BY <1>1 DEF PagesInv
  <2>4. (shown + 1) * PageSize <= PageSize * upper
    BY <2>1, <2>3
  <2>5. (shown + 1) * PageSize \in Nat /\ PageSize * upper \in Nat
    BY <2>1
  <2> QED BY <2>1, <2>2, <2>4, <2>5
<1> QED BY <1>1, PagesInvInit, PagesInvStep, PTL DEF PagesSpec

-----------------------------------------------------------------------------
(* PresetLists: rows and what the arrows reach *)

\* Every row of r is of a preset that the arrows find in l.
Reached(r, l) == \A i \in 1..Len(r) : Contains(l, r[i].name)

\* Every preset of F has a row in r.
Shows(r, F) == \A name \in F : \E i \in 1..Len(r) : r[i].name = name

\* The order in which a directory is read has every file of it.
LEMMA EachListed ==
  ASSUME NEW S, IsFiniteSet(S), NEW s \in SetToSeqs(S)
  PROVE  s \in Seq(S) /\ \A x \in S : \E k \in 1..Len(s) : s[k] = x
<1> DEFINE D == 1..Cardinality(S)
<1>1. Cardinality(S) \in Nat
  BY FS_CardinalityType
<1>2. s \in [D -> S] /\ \A i, j \in D : i # j => s[i] # s[j]
  BY DEF SetToSeqs
<1>3. s \in Injection(D, S)
  BY <1>2 DEF Injection, IsInjective
<1>4. Cardinality(D) = Cardinality(S)
  BY <1>1, FS_Interval
<1>5. s \in Surjection(D, S)
  BY <1>3, <1>4, FS_Injection
<1>6. \A x \in S : \E k \in D : s[k] = x
  BY <1>5 DEF Surjection
<1>7. s \in Seq(S) /\ Len(s) = Cardinality(S)
  BY <1>1, <1>2
<1> QED BY <1>6, <1>7

\* The rows of presets: one for each, of its name.
LEMMA RowsOfNames ==
  ASSUME NEW s \in Seq(Names)
  PROVE  /\ newRows(s) \in Seq(Rows) /\ Len(newRows(s)) = Len(s)
         /\ \A k \in 1..Len(s) : newRows(s)[k].name = s[k]
<1>1. \A k \in 1..Len(s) : row(s[k]) \in Rows /\ row(s[k]).name = s[k]
  BY DEF row, Rows
<1> HIDE DEF row, Rows
<1>2. DOMAIN s = 1..Len(s) /\ Len(s) \in Nat
  OBVIOUS
<1>3. newRows(s) = [k \in 1..Len(s) |-> row(s[k])]
  BY <1>2 DEF newRows
<1>4. newRows(s) \in [1..Len(s) -> Rows]
  BY <1>1, <1>3
<1>5. newRows(s) \in Seq(Rows) /\ Len(newRows(s)) = Len(s)
  BY <1>2, <1>4
<1> QED BY <1>1, <1>3, <1>5

\* The rows of all names of a set show it.
LEMMA RowsShow ==
  ASSUME NEW F, F \subseteq Names, NEW s \in Seq(F), \A x \in F : \E k \in 1..Len(s) : s[k] = x
  PROVE  Shows(newRows(s), F)
<1>1. s \in Seq(Names)
  OBVIOUS
<1>2. PICK r : r = newRows(s) /\ Len(r) = Len(s) /\ \A k \in 1..Len(s) : r[k].name = s[k]
  BY <1>1, RowsOfNames
<1>3. \A x \in F : \E k \in 1..Len(r) : r[k].name = x
  BY <1>2
<1> QED BY <1>2, <1>3 DEF Shows

\* Rows of presets that the arrows know, as they are shown by an empty tab.
LEMMA ReachedAtStart ==
  ASSUME NEW s \in Seq(Names)
  PROVE  Reached(newRows(s), s)
BY RowsOfNames DEF Reached, Contains

\* What the arrows know stays when more is put behind it.
LEMMA ReachedStays ==
  ASSUME NEW r, NEW l \in Seq(Names), NEW s \in Seq(Names), Reached(r, l)
  PROVE  Reached(r, l \o s)
<1>1. /\ Len(l \o s) = Len(l) + Len(s)
      /\ \A k \in 1..Len(l) : (l \o s)[k] = l[k]
  BY Joined
<1>2. \A k \in 1..Len(l) : k \in 1..Len(l \o s)
  BY <1>1
<1> QED BY <1>1, <1>2 DEF Reached, Contains

\* And so does what is put there.
LEMMA ReachedBehind ==
  ASSUME NEW r, NEW l \in Seq(Names), NEW s \in Seq(Names), Reached(r, s)
  PROVE  Reached(r, l \o s)
<1>1. /\ Len(l \o s) = Len(l) + Len(s)
      /\ \A k \in 1..Len(s) : (l \o s)[Len(l) + k] = s[k]
  BY Joined
<1>2. \A k \in 1..Len(s) : Len(l) + k \in 1..Len(l \o s)
  BY <1>1
<1> QED BY <1>1, <1>2 DEF Reached, Contains

\* Rows behind rows are reached if all of them are.
LEMMA ReachedJoined ==
  ASSUME NEW r \in Seq(Rows), NEW q \in Seq(Rows), NEW l, Reached(r, l), Reached(q, l)
  PROVE  Reached(r \o q, l)
<1>1. PICK A : A = Rows
  OBVIOUS
<1>2. r \in Seq(A) /\ q \in Seq(A)
  BY <1>1
<1>3. /\ Len(r \o q) = Len(r) + Len(q)
      /\ \A k \in 1..Len(r) : (r \o q)[k] = r[k]
      /\ \A k \in 1..Len(q) : (r \o q)[Len(r) + k] = q[k]
  BY ONLY <1>2, Joined
<1> SUFFICES ASSUME NEW k \in 1..Len(r \o q) PROVE Contains(l, (r \o q)[k].name)
  BY DEF Reached
<1>4. CASE k \in 1..Len(r)
  BY <1>3, <1>4 DEF Reached
<1>5. CASE k - Len(r) \in 1..Len(q)
  <2>1. Len(r) + (k - Len(r)) = k
    OBVIOUS
  <2>2. (r \o q)[k] = q[k - Len(r)]
    BY <1>3, <1>5, <2>1
  <2> QED BY <1>5, <2>2 DEF Reached
<1>6. k \in 1..Len(r) \/ k - Len(r) \in 1..Len(q)
  BY <1>3
<1> QED BY <1>4, <1>5, <1>6

\* Rows put behind others take none away.
LEMMA ShowsStays ==
  ASSUME NEW r \in Seq(Rows), NEW q \in Seq(Rows), NEW F, Shows(r, F)
  PROVE  Shows(r \o q, F)
<1>1. PICK A : A = Rows
  OBVIOUS
<1>2. r \in Seq(A) /\ q \in Seq(A)
  BY <1>1
<1>3. /\ Len(r \o q) = Len(r) + Len(q)
      /\ \A k \in 1..Len(r) : (r \o q)[k] = r[k]
  BY ONLY <1>2, Joined
<1>4. \A k \in 1..Len(r) : k \in 1..Len(r \o q)
  BY <1>2, <1>3
<1> QED BY <1>3, <1>4 DEF Shows

\* And show what they are rows of.
LEMMA ShowsBehind ==
  ASSUME NEW r \in Seq(Rows), NEW q \in Seq(Rows), NEW F, Shows(q, F)
  PROVE  Shows(r \o q, F)
<1>1. PICK A : A = Rows
  OBVIOUS
<1>2. r \in Seq(A) /\ q \in Seq(A)
  BY <1>1
<1>3. /\ Len(r \o q) = Len(r) + Len(q)
      /\ \A k \in 1..Len(q) : (r \o q)[Len(r) + k] = q[k]
  BY ONLY <1>2, Joined
<1>4. \A k \in 1..Len(q) : Len(r) + k \in 1..Len(r \o q)
  BY <1>2, <1>3
<1> QED BY <1>3, <1>4 DEF Shows

\* The row of a preset that loses its file goes; the other presets keep theirs.
LEMMA RowDeleted ==
  ASSUME NEW r \in Seq(Rows), NEW i \in 1..Len(r), NEW l, NEW F, Reached(r, l), Shows(r, F)
  PROVE  /\ RemoveAt(r, i) \in Seq(Rows) /\ Reached(RemoveAt(r, i), l)
         /\ Shows(RemoveAt(r, i), F \ {r[i].name})
<1> DEFINE t == RemoveAt(r, i)
<1>1. /\ t \in Seq(Rows) /\ Len(t) = Len(r) - 1
      /\ \A k \in 1..Len(r) - 1 : t[k] = IF k < i THEN r[k] ELSE r[k + 1]
  BY Removed
<1> HIDE DEF t
<1>2. Len(r) \in Nat /\ i \in Nat /\ i <= Len(r)
  OBVIOUS
<1>3. Reached(t, l)
  <2> SUFFICES ASSUME NEW k \in 1..Len(r) - 1 PROVE Contains(l, t[k].name)
    BY <1>1 DEF Reached
  <2>1. k \in 1..Len(r) /\ k + 1 \in 1..Len(r)
    BY <1>2
  <2> QED BY <1>1, <2>1 DEF Reached
<1>4. Shows(t, F \ {r[i].name})
  <2> SUFFICES ASSUME NEW x \in F, x # r[i].name
               PROVE  \E k \in 1..Len(r) - 1 : t[k].name = x
    BY <1>1 DEF Shows
  <2>1. PICK k \in 1..Len(r) : r[k].name = x
    BY DEF Shows
  <2>2. k # i
    BY <2>1
  <2>3. CASE k < i
    <3>1. k \in 1..Len(r) - 1
      BY <1>2, <2>3
    <3> QED BY <1>1, <2>1, <2>3, <3>1
  <2>4. CASE ~(k < i)
    <3>1. k - 1 \in 1..Len(r) - 1 /\ ~(k - 1 < i) /\ (k - 1) + 1 = k
      BY <1>2, <2>2, <2>4
    <3> QED BY <1>1, <2>1, <3>1
  <2> QED BY <2>3, <2>4
<1> QED BY <1>1, <1>3, <1>4 DEF t

\* A heart changes no name.
LEMMA HeartSwitched ==
  ASSUME NEW r \in Seq(Rows), NEW i \in 1..Len(r), NEW on \in BOOLEAN
  PROVE  LET t == [r EXCEPT ![i] = [@ EXCEPT !.fav = on]] IN
         /\ t \in Seq(Rows) /\ \A l : Reached(r, l) => Reached(t, l)
         /\ \A F : Shows(r, F) => Shows(t, F)
<1> DEFINE t == [r EXCEPT ![i] = [@ EXCEPT !.fav = on]]
<1>1. [r[i] EXCEPT !.fav = on] \in Rows /\ [r[i] EXCEPT !.fav = on].name = r[i].name
  <2>1. PICK x : x = r[i]
    OBVIOUS
  <2>2. PICK B : B = BOOLEAN
    OBVIOUS
  <2>3. x \in [name : Names, fav : B] /\ on \in B
    <3>1. r[i] \in Rows
      OBVIOUS
    <3> QED BY <2>1, <2>2, <3>1, Zenon DEF Rows
  <2>4. [x EXCEPT !.fav = on] \in [name : Names, fav : B] /\ [x EXCEPT !.fav = on].name = x.name
    BY ONLY <2>3
  <2> QED BY <2>1, <2>2, <2>4, Zenon DEF Rows
<1>2. t \in Seq(Rows) /\ Len(t) = Len(r)
  BY <1>1
<1>3. \A k \in 1..Len(r) : t[k].name = r[k].name
  BY <1>1
<1> HIDE DEF t
<1>4. \A l : Reached(r, l) => Reached(t, l)
  BY <1>2, <1>3 DEF Reached
<1>5. \A F : Shows(r, F) => Shows(t, F)
  BY <1>2, <1>3 DEF Shows
<1> QED BY <1>2, <1>4, <1>5 DEF t

\* One tab of all changes.
LEMMA TabChanged ==
  ASSUME NEW R \in [Tabs -> Seq(Rows)], NEW L \in [Tabs -> Seq(Names)],
         \A u \in Tabs : Reached(R[u], L[u]),
         NEW t \in Tabs, NEW r \in Seq(Rows), NEW l \in Seq(Names), Reached(r, l)
  PROVE  /\ [R EXCEPT ![t] = r] \in [Tabs -> Seq(Rows)]
         /\ [L EXCEPT ![t] = l] \in [Tabs -> Seq(Names)]
         /\ \A u \in Tabs : Reached([R EXCEPT ![t] = r][u], [L EXCEPT ![t] = l][u])
OBVIOUS

FilesOK == IsFiniteSet(files) /\ IsFiniteSet(favs)

ReachOK ==
  /\ Shows(rows["user"], files)
  /\ Shows(rows["favs"], favs)
  /\ \A t \in Tabs : Reached(rows[t], list[t])

\* The position is one of the tab it was set in, as long as the program runs.
ArrowOK ==
  /\ running => patch = 0 \/ (arrowed \in Tabs /\ patch < Len(list[arrowed]))
  /\ EndsOnlyInShorterTab

ListsInv == ListsTypeOK /\ FilesOK /\ ReachOK /\ ArrowOK

LEMMA TabNames == "quick" \in Tabs /\ "user" \in Tabs /\ "library" \in Tabs /\ "favs" \in Tabs
BY DEF Tabs

\* Presets::my: each tab shows what the arrows go by, and the two directories are
\* read to the end.
LEMMA StartReaches ==
  ASSUME NEW user \in Seq(files), NEW hearts \in Seq(favs), NEW p \in Pages,
         files \subseteq Names, favs \subseteq Names,
         Shows(newRows(user), files), Shows(newRows(hearts), favs),
         NEW L, L = atStart(user, hearts, p),
         NEW R, R = [t \in Tabs |-> newRows(L[t])]
  PROVE  /\ L \in [Tabs -> Seq(Names)] /\ R \in [Tabs -> Seq(Rows)]
         /\ Shows(R["user"], files) /\ Shows(R["favs"], favs)
         /\ \A t \in Tabs : Reached(R[t], L[t])
<1>1. user \in Seq(Names) /\ hearts \in Seq(Names) /\ p \in Seq(Names) /\ Factory \in Seq(Names)
  BY PresetListsAssumption
<1>2. /\ L = [t \in Tabs |-> L[t]]
      /\ L["quick"] = Factory /\ L["user"] = user /\ L["library"] = p /\ L["favs"] = hearts
  <2>1. L = [t \in Tabs |-> CASE t = "quick" -> Factory [] t = "user" -> user
                               [] t = "library" -> p [] t = "favs" -> hearts]
    BY DEF atStart
  <2>2. L = [t \in Tabs |-> L[t]]
    BY <2>1
  <2> QED BY <2>1, <2>2, TabNames
<1>3. \A t \in Tabs : t = "quick" \/ t = "user" \/ t = "library" \/ t = "favs"
  BY DEF Tabs
<1>4. \A t \in Tabs : L[t] \in Seq(Names)
  BY <1>1, <1>2, <1>3
<1>5. \A t \in Tabs : newRows(L[t]) \in Seq(Rows) /\ Reached(newRows(L[t]), L[t])
  BY <1>4, RowsOfNames, ReachedAtStart
<1>6. L \in [Tabs -> Seq(Names)]
  BY <1>2, <1>4
<1>7. R \in [Tabs -> Seq(Rows)] /\ \A t \in Tabs : R[t] = newRows(L[t])
  BY <1>5
<1>8. Shows(R["user"], files) /\ Shows(R["favs"], favs)
  BY <1>2, <1>7, TabNames
<1>9. \A t \in Tabs : Reached(R[t], L[t])
  BY <1>5, <1>7
<1> QED BY <1>6, <1>7, <1>8, <1>9

\* The first start establishes the invariant.
LEMMA ListsInvInit == ListsInit => ListsInv
<1> SUFFICES ASSUME ListsInit PROVE ListsInv
  OBVIOUS
<1>1. PICK p \in Pages : list = atStart(<<>>, <<>>, p)
  BY DEF ListsInit
<1>2. files = {} /\ favs = {} /\ rows = [t \in Tabs |-> newRows(list[t])]
  BY DEF ListsInit
<1>3. <<>> \in Seq(files) /\ <<>> \in Seq(favs) /\ files \subseteq Names /\ favs \subseteq Names
  BY <1>2
<1>4. Shows(newRows(<<>>), files) /\ Shows(newRows(<<>>), favs)
  BY <1>2 DEF Shows
<1>5. /\ list \in [Tabs -> Seq(Names)] /\ rows \in [Tabs -> Seq(Rows)]
      /\ Shows(rows["user"], files) /\ Shows(rows["favs"], favs)
      /\ \A t \in Tabs : Reached(rows[t], list[t])
  <2>1. PICK L, R : L = list /\ R = rows
    OBVIOUS
  <2>2. L = atStart(<<>>, <<>>, p) /\ R = [t \in Tabs |-> newRows(L[t])]
    BY <1>1, <1>2, <2>1, Zenon
  <2>3. /\ L \in [Tabs -> Seq(Names)] /\ R \in [Tabs -> Seq(Rows)]
        /\ Shows(R["user"], files) /\ Shows(R["favs"], favs)
        /\ \A t \in Tabs : Reached(R[t], L[t])
    <3>1. PICK user, hearts : user = <<>> /\ hearts = <<>>
      OBVIOUS
    <3>2. /\ user \in Seq(files) /\ hearts \in Seq(favs) /\ p \in Pages
          /\ files \subseteq Names /\ favs \subseteq Names
          /\ Shows(newRows(user), files) /\ Shows(newRows(hearts), favs)
          /\ L = atStart(user, hearts, p)
      BY ONLY p \in Pages, <1>3, <1>4, <2>2, <3>1
    <3> QED BY ONLY <2>2, <3>2, StartReaches
  <2> QED BY <2>1, <2>3, Zenon
<1>6. tab = "quick" /\ patch = 0 /\ running = TRUE /\ arrowed = "none"
  BY DEF ListsInit
<1>7. ListsTypeOK
  <2>1. tab \in Tabs /\ patch \in Nat /\ arrowed \in Tabs \cup {"none"}
    BY <1>6, TabNames
  <2>2. running \in BOOLEAN
    BY <1>6, Zenon
  <2> QED BY <1>3, <1>5, <2>1, <2>2, Zenon DEF ListsTypeOK
<1>8. FilesOK
  BY <1>2, FS_EmptySet DEF FilesOK
<1>9. ArrowOK
  BY <1>6 DEF ArrowOK, EndsOnlyInShorterTab
<1> QED BY <1>5, <1>7, <1>8, <1>9 DEF ListsInv, ReachOK

\* A later one finds the files that there are.
LEMMA MyKeeps ==
  ASSUME ListsInv, my
  PROVE  ListsInv'
<1>1. PICK user \in SetToSeqs(files), hearts \in SetToSeqs(favs), p \in Pages :
        list' = atStart(user, hearts, p)
  BY DEF my
<1>2. /\ rows' = [t \in Tabs |-> newRows(list'[t])]
      /\ tab' = "quick" /\ patch' = 0 /\ running' = TRUE /\ arrowed' = "none"
      /\ files' = files /\ favs' = favs
  BY DEF my
<1>3. files \subseteq Names /\ favs \subseteq Names /\ IsFiniteSet(files) /\ IsFiniteSet(favs)
  BY DEF ListsInv, ListsTypeOK, FilesOK
<1>4. /\ user \in Seq(files) /\ hearts \in Seq(favs)
      /\ \A x \in files : \E k \in 1..Len(user) : user[k] = x
      /\ \A x \in favs : \E k \in 1..Len(hearts) : hearts[k] = x
  BY <1>1, <1>3, EachListed
<1>5. user \in Seq(Names) /\ hearts \in Seq(Names)
  BY <1>3, <1>4
<1>6. Shows(newRows(user), files) /\ Shows(newRows(hearts), favs)
  BY <1>3, <1>4, RowsShow
<1>7. /\ list' \in [Tabs -> Seq(Names)] /\ rows' \in [Tabs -> Seq(Rows)]
      /\ Shows(rows'["user"], files) /\ Shows(rows'["favs"], favs)
      /\ \A t \in Tabs : Reached(rows'[t], list'[t])
  <2>1. PICK L, R : L = list' /\ R = rows'
    OBVIOUS
  <2>2. L = atStart(user, hearts, p) /\ R = [t \in Tabs |-> newRows(L[t])]
    BY <1>1, <1>2, <2>1, Zenon
  <2>3. /\ L \in [Tabs -> Seq(Names)] /\ R \in [Tabs -> Seq(Rows)]
        /\ Shows(R["user"], files) /\ Shows(R["favs"], favs)
        /\ \A t \in Tabs : Reached(R[t], L[t])
    <3>1. /\ user \in Seq(files) /\ hearts \in Seq(favs) /\ p \in Pages
          /\ files \subseteq Names /\ favs \subseteq Names
          /\ Shows(newRows(user), files) /\ Shows(newRows(hearts), favs)
      BY <1>3, <1>4, <1>6
    <3> QED BY ONLY <2>2, <3>1, StartReaches
  <2> QED BY <2>1, <2>3, Zenon
<1>8. ListsTypeOK'
  <2>1. tab' \in Tabs /\ patch' \in Nat /\ arrowed' \in Tabs \cup {"none"}
    BY <1>2, TabNames
  <2>2. running' \in BOOLEAN
    BY <1>2, Zenon
  <2> QED BY <1>2, <1>3, <1>7, <2>1, <2>2, Zenon DEF ListsTypeOK
<1>9. FilesOK'
  BY <1>2, <1>3 DEF FilesOK
<1>10. ArrowOK'
  BY <1>2 DEF ArrowOK, EndsOnlyInShorterTab
<1>11. ReachOK'
  BY <1>2, <1>7 DEF ReachOK
<1> QED BY <1>8, <1>9, <1>10, <1>11 DEF ListsInv

\* While the program runs the arrows go by lists that only grow.
LEMMA ArrowStays ==
  ASSUME ListsInv, running, UNCHANGED <<patch, running, arrowed>>,
         \A t \in Tabs : Len(list[t]) <= Len(list'[t]) /\ Len(list[t]) \in Nat
                         /\ Len(list'[t]) \in Nat
  PROVE  ArrowOK'
<1>1. patch = 0 \/ (arrowed \in Tabs /\ patch < Len(list[arrowed]))
  BY DEF ListsInv, ArrowOK
<1>2. patch \in Nat
  BY DEF ListsInv, ListsTypeOK
<1>3. patch' = 0 \/ (arrowed' \in Tabs /\ patch' < Len(list'[arrowed']))
  BY <1>1, <1>2
<1> QED BY <1>3 DEF ArrowOK, EndsOnlyInShorterTab

\* One more list behind that of a tab.
LEMMA LongerList ==
  ASSUME NEW L \in [Tabs -> Seq(Names)], NEW t \in Tabs, NEW s \in Seq(Names)
  PROVE  LET K == [L EXCEPT ![t] = @ \o s] IN
         \A u \in Tabs : Len(L[u]) <= Len(K[u]) /\ Len(L[u]) \in Nat /\ Len(K[u]) \in Nat
<1>1. L[t] \o s \in Seq(Names)
  OBVIOUS
<1>2. Len(L[t] \o s) = Len(L[t]) + Len(s)
  OBVIOUS
<1>3. Len(L[t]) \in Nat /\ Len(s) \in Nat
  OBVIOUS
<1>4. Len(L[t]) <= Len(L[t] \o s) /\ Len(L[t] \o s) \in Nat
  BY <1>2, <1>3
<1> QED BY <1>4

\* Presets written to files and shown behind those that are.
LEMMA PresetsAdded ==
  ASSUME ListsInv, running, NEW s \in Seq(Names), addPresets("user", s),
         NEW F, F \subseteq Names, IsFiniteSet(F), \A x \in F : \E k \in 1..Len(s) : s[k] = x,
         files' = files \cup F, UNCHANGED <<favs, tab, patch, running, arrowed>>
  PROVE  ListsInv'
<1> DEFINE q == newRows(s)
           r == rows["user"] \o q
           l == list["user"] \o s
<1>1. /\ rows' = [rows EXCEPT !["user"] = r]
      /\ list' = [list EXCEPT !["user"] = l]
  BY DEF addPresets
<1>2. /\ rows \in [Tabs -> Seq(Rows)] /\ list \in [Tabs -> Seq(Names)]
      /\ \A t \in Tabs : Reached(rows[t], list[t])
      /\ Shows(rows["user"], files) /\ Shows(rows["favs"], favs)
  BY DEF ListsInv, ListsTypeOK, ReachOK
<1>3. rows["user"] \in Seq(Rows) /\ list["user"] \in Seq(Names) /\ "user" \in Tabs /\ "favs" \in Tabs
  BY <1>2, TabNames
<1>4. /\ q \in Seq(Rows) /\ Len(q) = Len(s) /\ \A k \in 1..Len(s) : q[k].name = s[k]
  BY RowsOfNames
<1>5. Reached(q, s)
  BY ReachedAtStart
<1>6. Shows(q, F)
  BY <1>4 DEF Shows
<1> HIDE DEF q
<1>7. r \in Seq(Rows) /\ l \in Seq(Names)
  BY <1>3, <1>4
<1>8. Reached(rows["user"], l) /\ Reached(q, l)
  BY <1>2, <1>3, <1>5, ReachedStays, ReachedBehind
<1>9. Reached(r, l)
  BY <1>3, <1>4, <1>8, ReachedJoined
<1>10. Shows(r, files) /\ Shows(r, F)
  BY <1>2, <1>3, <1>4, <1>6, ShowsStays, ShowsBehind
<1>11. \A u \in Tabs : Len(list[u]) <= Len(list'[u]) /\ Len(list[u]) \in Nat /\ Len(list'[u]) \in Nat
  BY <1>1, <1>2, <1>3, LongerList
<1> HIDE DEF r, l
<1>12. /\ rows' \in [Tabs -> Seq(Rows)] /\ list' \in [Tabs -> Seq(Names)]
       /\ \A t \in Tabs : Reached(rows'[t], list'[t])
  BY <1>1, <1>2, <1>3, <1>7, <1>9, TabChanged
<1>13. rows'["user"] = r /\ rows'["favs"] = rows["favs"]
  BY <1>1, <1>2, <1>3
<1>14. Shows(rows'["user"], files') /\ Shows(rows'["favs"], favs')
  BY <1>2, <1>10, <1>13 DEF Shows
<1>15. FilesOK'
  BY FS_Union DEF ListsInv, FilesOK
<1>16. ListsTypeOK'
  BY <1>12 DEF ListsInv, ListsTypeOK
<1>17. ArrowOK'
  BY <1>11, ArrowStays
<1> QED BY <1>12, <1>14, <1>15, <1>16, <1>17 DEF ListsInv, ReachOK

\* add_cb and the import of presets.
LEMMA AddedKeeps ==
  ASSUME ListsInv, NEW x \in Names, NEW y \in Names,
         add_cb(x) \/ import_presets_from_json(<<x, y>>)
  PROVE  ListsInv'
<1>1. CASE add_cb(x)
  <2>1. <<x>> \in Seq(Names) /\ {x} \subseteq Names
        /\ \A z \in {x} : \E k \in 1..Len(<<x>>) : <<x>>[k] = z
    OBVIOUS
  <2>3. IsFiniteSet({x})
    BY FS_Singleton
  <2>2. /\ running /\ files' = files \cup {x} /\ addPresets("user", <<x>>)
        /\ UNCHANGED <<favs, tab, patch, running, arrowed>>
    BY <1>1 DEF add_cb
  <2> QED BY <2>1, <2>2, <2>3, PresetsAdded
<1>2. CASE import_presets_from_json(<<x, y>>)
  <2>1. Range(<<x, y>>) = {x, y}
    BY DEF Range
  <2>2. IsFiniteSet({x}) /\ IsFiniteSet({y}) /\ {x, y} = {x} \cup {y}
    BY FS_Singleton
  <2>3. IsFiniteSet({x, y})
    BY <2>2, FS_Union
  <2>4. <<x, y>> \in Seq(Names) /\ {x, y} \subseteq Names
        /\ \A z \in {x, y} : \E k \in 1..Len(<<x, y>>) : <<x, y>>[k] = z
    OBVIOUS
  <2>5. /\ running /\ files' = files \cup {x, y} /\ addPresets("user", <<x, y>>)
        /\ UNCHANGED <<favs, tab, patch, running, arrowed>>
    BY <1>2, <2>1 DEF import_presets_from_json
  <2> QED BY <2>3, <2>4, <2>5, PresetsAdded
<1> QED BY <1>1, <1>2

\* delete_callback
LEMMA DeletedKeeps ==
  ASSUME ListsInv, NEW i \in DOMAIN rows["user"], delete_callback(i)
  PROVE  ListsInv'
<1> DEFINE r == RemoveAt(rows["user"], i)
<1>1. /\ rows \in [Tabs -> Seq(Rows)] /\ list \in [Tabs -> Seq(Names)]
      /\ \A t \in Tabs : Reached(rows[t], list[t])
      /\ Shows(rows["user"], files) /\ Shows(rows["favs"], favs)
  BY DEF ListsInv, ListsTypeOK, ReachOK
<1>2. /\ running /\ files' = files \ {rows["user"][i].name}
      /\ rows' = [rows EXCEPT !["user"] = r]
      /\ UNCHANGED <<favs, list, tab, patch, running, arrowed>>
  BY DEF delete_callback
<1>3. rows["user"] \in Seq(Rows) /\ list["user"] \in Seq(Names) /\ i \in 1..Len(rows["user"])
  BY <1>1, TabNames
<1>4. r \in Seq(Rows) /\ Reached(r, list["user"]) /\ Shows(r, files \ {rows["user"][i].name})
  BY <1>1, <1>3, TabNames, RowDeleted
<1> HIDE DEF r
<1>5. list' = [list EXCEPT !["user"] = list["user"]]
  BY <1>1, <1>2
<1>6. /\ rows' \in [Tabs -> Seq(Rows)] /\ list' \in [Tabs -> Seq(Names)]
      /\ \A t \in Tabs : Reached(rows'[t], list'[t])
  BY <1>1, <1>2, <1>3, <1>4, <1>5, TabNames, TabChanged
<1>7. rows'["user"] = r /\ rows'["favs"] = rows["favs"]
  BY <1>1, <1>2, TabNames
<1>8. Shows(rows'["user"], files') /\ Shows(rows'["favs"], favs')
  BY <1>1, <1>2, <1>4, <1>7
<1>9. FilesOK'
  BY <1>2, FS_Difference DEF ListsInv, FilesOK
<1>10. ListsTypeOK'
  BY <1>2, <1>6 DEF ListsInv, ListsTypeOK
<1>11. ArrowOK'
  BY <1>2 DEF ListsInv, ArrowOK, EndsOnlyInShorterTab
<1> QED BY <1>6, <1>8, <1>9, <1>10, <1>11 DEF ListsInv, ReachOK

\* preset_fav_cb, on: the row becomes one of a favourite, and a row, a file and an
\* entry for the arrows are made.
LEMMA HeartOnKeeps ==
  ASSUME ListsInv, NEW t \in Tabs, NEW i \in DOMAIN rows[t], HeartOn(t, i)
  PROVE  ListsInv'
<1> DEFINE x == rows[t][i].name
           q == <<[name |-> x, fav |-> TRUE]>>
           r == [rows[t] EXCEPT ![i] = [@ EXCEPT !.fav = TRUE]]
           R == [rows EXCEPT ![t] = r]
           s == R["favs"] \o q
           l == list["favs"] \o <<x>>
<1>1. /\ rows \in [Tabs -> Seq(Rows)] /\ list \in [Tabs -> Seq(Names)]
      /\ \A u \in Tabs : Reached(rows[u], list[u])
      /\ Shows(rows["user"], files) /\ Shows(rows["favs"], favs)
  BY DEF ListsInv, ListsTypeOK, ReachOK
<1>2. rows[t] \in Seq(Rows) /\ list[t] \in Seq(Names) /\ i \in 1..Len(rows[t])
  BY <1>1
<1>3. x \in Names
  <2>1. rows[t][i] \in Rows
    BY <1>2
  <2> QED BY <2>1 DEF Rows
<1>4. r \in Seq(Rows) /\ Reached(r, list[t]) /\ \A F : Shows(rows[t], F) => Shows(r, F)
  <2>1. TRUE \in BOOLEAN
    OBVIOUS
  <2> QED BY <1>1, <1>2, <2>1, HeartSwitched
<1>5. [rows EXCEPT ![t][i].fav = TRUE] = R
  OBVIOUS
<1>6. q \in Seq(Rows) /\ Len(q) = 1 /\ q[1].name = x
  <2>1. [name |-> x, fav |-> TRUE] \in Rows
    BY <1>3, Zenon DEF Rows
  <2> QED BY <2>1
<1>7. /\ rows' = [R EXCEPT !["favs"] = s]
      /\ list' = [list EXCEPT !["favs"] = l]
      /\ favs' = favs \cup {x}
      /\ UNCHANGED <<files, tab, patch, running, arrowed>> /\ running
  <2>1. /\ rows' = [[rows EXCEPT ![t][i].fav = TRUE] EXCEPT !["favs"] = Append(@, [name |-> x, fav |-> TRUE])]
        /\ list' = [list EXCEPT !["favs"] = Append(@, x)]
        /\ favs' = favs \cup {x}
        /\ UNCHANGED <<files, tab, patch, running, arrowed>> /\ running
    BY DEF HeartOn
  <2>2. R["favs"] \in Seq(Rows)
    BY <1>1, <1>4, TabNames
  <2>3. Append(R["favs"], [name |-> x, fav |-> TRUE]) = s
    <3>1. PICK e : e = [name |-> x, fav |-> TRUE]
      OBVIOUS
    <3>2. PICK A, u : A = Rows /\ u = R["favs"]
      OBVIOUS
    <3>3. u \in Seq(A) /\ e \in A
      <4>1. q[1] = e /\ q[1] \in Rows
        BY <1>6, <3>1
      <4> QED BY <2>2, <3>2, <4>1, Zenon
    <3>4. Append(u, e) = u \o <<e>>
      BY ONLY <3>3
    <3> QED BY <3>1, <3>2, <3>4, Zenon
  <2>4. Append(list["favs"], x) = l
    BY <1>1, TabNames
  <2> HIDE DEF R, s, l, x, q
  <2> QED BY <1>1, <1>5, <2>1, <2>3, <2>4
<1>8. list = [list EXCEPT ![t] = list[t]]
  BY <1>1
<1> HIDE DEF r
<1>9. /\ R \in [Tabs -> Seq(Rows)]
      /\ \A u \in Tabs : Reached(R[u], list[u])
  <2>1. /\ R \in [Tabs -> Seq(Rows)]
        /\ \A u \in Tabs : Reached(R[u], [list EXCEPT ![t] = list[t]][u])
    BY <1>1, <1>2, <1>4, TabChanged
  <2> QED BY <1>8, <2>1
<1>10. \A u \in Tabs : \A F : Shows(rows[u], F) => Shows(R[u], F)
  BY <1>1, <1>4
<1> HIDE DEF R
<1>11. R["favs"] \in Seq(Rows) /\ list["favs"] \in Seq(Names) /\ <<x>> \in Seq(Names)
  BY <1>1, <1>3, <1>9, TabNames
<1>12. Reached(q, <<x>>) /\ Shows(q, {x})
  BY <1>6 DEF Reached, Shows, Contains
<1> HIDE DEF q, x
<1>13. s \in Seq(Rows) /\ l \in Seq(Names)
  BY <1>6, <1>11
<1>14. Reached(s, l)
  <2>1. Reached(R["favs"], l) /\ Reached(q, l)
    BY <1>9, <1>11, <1>12, TabNames, ReachedStays, ReachedBehind
  <2> QED BY <1>6, <1>11, <2>1, ReachedJoined
<1>15. Shows(s, favs) /\ Shows(s, {x})
  <2>1. Shows(R["favs"], favs)
    BY <1>1, <1>10, TabNames
  <2> QED BY <1>6, <1>11, <1>12, <2>1, ShowsStays, ShowsBehind
<1>16. \A u \in Tabs : Len(list[u]) <= Len(list'[u]) /\ Len(list[u]) \in Nat /\ Len(list'[u]) \in Nat
  BY <1>1, <1>7, <1>11, TabNames, LongerList
<1> HIDE DEF s, l
<1>17. /\ rows' \in [Tabs -> Seq(Rows)] /\ list' \in [Tabs -> Seq(Names)]
       /\ \A u \in Tabs : Reached(rows'[u], list'[u])
  BY <1>1, <1>7, <1>9, <1>13, <1>14, TabNames, TabChanged
<1>18. rows'["favs"] = s /\ rows'["user"] = R["user"]
  BY <1>7, <1>9, TabNames
<1>19. Shows(rows'["user"], files') /\ Shows(rows'["favs"], favs')
  <2>1. Shows(R["user"], files)
    BY <1>1, <1>10, TabNames
  <2>2. Shows(s, favs \cup {x})
    BY <1>15 DEF Shows
  <2> QED BY <1>7, <1>18, <2>1, <2>2
<1>20. FilesOK'
  BY <1>7, FS_AddElement DEF ListsInv, FilesOK
<1>21. ListsTypeOK'
  BY <1>3, <1>7, <1>17 DEF ListsInv, ListsTypeOK
<1>22. ArrowOK'
  BY <1>7, <1>16, ArrowStays
<1> QED BY <1>17, <1>19, <1>20, <1>21, <1>22 DEF ListsInv, ReachOK

\* The same, off: only the file goes.
LEMMA HeartOffKeeps ==
  ASSUME ListsInv, NEW t \in Tabs, NEW i \in DOMAIN rows[t], HeartOff(t, i)
  PROVE  ListsInv'
<1> DEFINE x == rows[t][i].name
           r == [rows[t] EXCEPT ![i] = [@ EXCEPT !.fav = FALSE]]
<1>1. /\ rows \in [Tabs -> Seq(Rows)] /\ list \in [Tabs -> Seq(Names)]
      /\ \A u \in Tabs : Reached(rows[u], list[u])
      /\ Shows(rows["user"], files) /\ Shows(rows["favs"], favs)
  BY DEF ListsInv, ListsTypeOK, ReachOK
<1>2. rows[t] \in Seq(Rows) /\ list[t] \in Seq(Names) /\ i \in 1..Len(rows[t])
  BY <1>1
<1>3. r \in Seq(Rows) /\ Reached(r, list[t]) /\ \A F : Shows(rows[t], F) => Shows(r, F)
  <2>1. FALSE \in BOOLEAN
    OBVIOUS
  <2> QED BY <1>1, <1>2, <2>1, HeartSwitched
<1>4. /\ rows' = [rows EXCEPT ![t] = r]
      /\ favs' = favs \ {x}
      /\ UNCHANGED <<files, list, tab, patch, running, arrowed>> /\ running
  <2>1. /\ rows' = [rows EXCEPT ![t][i].fav = FALSE]
        /\ favs' = favs \ {x}
        /\ UNCHANGED <<files, list, tab, patch, running, arrowed>> /\ running
    BY DEF HeartOff
  <2> QED BY <2>1
<1>5. list' = [list EXCEPT ![t] = list[t]]
  BY <1>1, <1>4
<1> HIDE DEF r
<1>6. /\ rows' \in [Tabs -> Seq(Rows)] /\ list' \in [Tabs -> Seq(Names)]
      /\ \A u \in Tabs : Reached(rows'[u], list'[u])
  BY <1>1, <1>2, <1>3, <1>4, <1>5, TabChanged
<1>7. \A u \in Tabs : \A F : Shows(rows[u], F) => Shows(rows'[u], F)
  BY <1>1, <1>3, <1>4
<1>8. Shows(rows'["user"], files) /\ Shows(rows'["favs"], favs)
  BY <1>1, <1>7, TabNames
<1>9. Shows(rows'["user"], files') /\ Shows(rows'["favs"], favs')
  BY <1>4, <1>8 DEF Shows
<1>10. FilesOK'
  BY <1>4, FS_Difference DEF ListsInv, FilesOK
<1>11. ListsTypeOK'
  BY <1>4, <1>6 DEF ListsInv, ListsTypeOK
<1>12. ArrowOK'
  BY <1>4 DEF ListsInv, ArrowOK, EndsOnlyInShorterTab
<1> QED BY <1>6, <1>9, <1>10, <1>11, <1>12 DEF ListsInv, ReachOK

\* library_load
LEMMA ShowPageKeeps ==
  ASSUME ListsInv, NEW p \in Pages, ShowPage(p)
  PROVE  ListsInv'
<1> DEFINE r == newRows(p)
           l == list["library"] \o p
<1>1. /\ rows \in [Tabs -> Seq(Rows)] /\ list \in [Tabs -> Seq(Names)]
      /\ \A t \in Tabs : Reached(rows[t], list[t])
      /\ Shows(rows["user"], files) /\ Shows(rows["favs"], favs)
  BY DEF ListsInv, ListsTypeOK, ReachOK
<1>2. p \in Seq(Names) /\ list["library"] \in Seq(Names)
  BY <1>1, TabNames, PresetListsAssumption
<1>3. r \in Seq(Rows) /\ Reached(r, p)
  BY <1>2, RowsOfNames, ReachedAtStart
<1>4. /\ rows' = [rows EXCEPT !["library"] = r]
      /\ list' = [list EXCEPT !["library"] = l]
      /\ UNCHANGED <<files, favs, tab, patch, running, arrowed>> /\ running
  BY DEF ShowPage
<1> HIDE DEF r
<1>5. l \in Seq(Names) /\ Reached(r, l)
  BY <1>2, <1>3, ReachedBehind
<1>6. \A u \in Tabs : Len(list[u]) <= Len(list'[u]) /\ Len(list[u]) \in Nat /\ Len(list'[u]) \in Nat
  BY <1>1, <1>2, <1>4, TabNames, LongerList
<1> HIDE DEF l
<1>7. /\ rows' \in [Tabs -> Seq(Rows)] /\ list' \in [Tabs -> Seq(Names)]
      /\ \A t \in Tabs : Reached(rows'[t], list'[t])
  BY <1>1, <1>3, <1>4, <1>5, TabNames, TabChanged
<1>8. rows'["user"] = rows["user"] /\ rows'["favs"] = rows["favs"]
  BY <1>1, <1>4, TabNames
<1>9. FilesOK'
  BY <1>4 DEF ListsInv, FilesOK
<1>10. ListsTypeOK'
  BY <1>4, <1>7 DEF ListsInv, ListsTypeOK
<1>11. ArrowOK'
  BY <1>4, <1>6, ArrowStays
<1> QED BY <1>1, <1>4, <1>7, <1>8, <1>9, <1>10, <1>11 DEF ListsInv, ReachOK

\* The arrows: the one forward stays in the list that is open, the one back leaves
\* it if the position is that of a longer one.
LEMMA ArrowsKeep ==
  ASSUME ListsInv, NextPreset \/ PrevPreset
  PROVE  ListsInv'
<1>1. /\ tab \in Tabs /\ patch \in Nat /\ arrowed \in Tabs \cup {"none"}
      /\ list \in [Tabs -> Seq(Names)] /\ running
      /\ running => patch = 0 \/ (arrowed \in Tabs /\ patch < Len(list[arrowed]))
  BY DEF ListsInv, ListsTypeOK, ArrowOK, NextPreset, PrevPreset
<1>2. UNCHANGED <<files, favs, rows, list, tab>>
  BY DEF NextPreset, PrevPreset
<1>3. Len(list[tab]) \in Nat \ {0}
  <2>1. list[tab] # <<>> /\ list[tab] \in Seq(Names)
    BY <1>1 DEF NextPreset, PrevPreset
  <2> QED BY <2>1
<1>4. "none" \notin Tabs
  BY DEF Tabs
<1>5. CASE NextPreset
  <2>1. /\ patch' = IF patch + 1 > Len(list[tab]) - 1 THEN 0 ELSE patch + 1
        /\ arrowed' = tab /\ running' = running
    BY <1>5 DEF NextPreset
  <2>2. patch' \in Nat /\ patch' < Len(list[tab])
    BY <1>1, <1>3, <2>1
  <2>3. ArrowOK'
    BY <1>1, <1>2, <2>1, <2>2 DEF ArrowOK, EndsOnlyInShorterTab
  <2>4. ListsTypeOK'
    BY <1>1, <1>2, <2>1, <2>2 DEF ListsInv, ListsTypeOK
  <2> QED BY <1>2, <2>3, <2>4 DEF ListsInv, ReachOK, FilesOK
<1>6. CASE PrevPreset
  <2>1. /\ patch' = IF patch - 1 < 0 THEN Len(list[tab]) - 1 ELSE patch - 1
        /\ running' = (patch' \in 0..Len(list[tab]) - 1)
        /\ arrowed' = IF running' THEN tab ELSE arrowed
    BY <1>6 DEF PrevPreset
  <2>2. patch' \in Nat
    BY <1>1, <1>3, <2>1
  <2>3. running' \in BOOLEAN
    <3>1. running' = (patch' \in 0..Len(list[tab]) - 1)
      BY <2>1, Zenon
    <3>2. (patch' \in 0..Len(list[tab]) - 1) \in BOOLEAN
      OBVIOUS
    <3> QED BY <3>1, <3>2, Zenon
  <2>4. arrowed' \in Tabs \cup {"none"}
    <3>1. tab \in Tabs \cup {"none"}
      BY <1>1
    <3> QED BY <1>1, <2>1, <3>1, Zenon
  <2>5. ListsTypeOK'
    BY <1>2, <2>2, <2>3, <2>4 DEF ListsInv, ListsTypeOK
  <2>6. CASE patch' \in 0..Len(list[tab]) - 1
    <3>1. running' /\ arrowed' = tab
      BY <2>1, <2>6, Zenon
    <3>2. patch' < Len(list[tab])
      BY <1>3, <2>6
    <3>3. ArrowOK'
      BY <1>1, <1>2, <3>1, <3>2 DEF ArrowOK, EndsOnlyInShorterTab
    <3> QED BY <1>2, <2>5, <3>3 DEF ListsInv, ReachOK, FilesOK
  <2>7. CASE patch' \notin 0..Len(list[tab]) - 1
    <3>1. ~running' /\ arrowed' = arrowed
      BY <2>1, <2>7, Zenon
    <3>2. patch' = patch - 1 /\ patch # 0 /\ patch' >= Len(list[tab])
      BY <1>1, <1>3, <2>1, <2>2, <2>7
    <3>3. arrowed \in Tabs /\ patch < Len(list[arrowed])
      BY <1>1, <3>2
    <3>4. Len(list[arrowed]) \in Nat
      BY <1>1, <3>3
    <3>5. Len(list[tab]) < Len(list[arrowed]) /\ arrowed # tab
      BY <1>1, <1>3, <3>2, <3>3, <3>4
    <3>6. ArrowOK'
      BY <1>2, <1>4, <3>1, <3>3, <3>5 DEF ArrowOK, EndsOnlyInShorterTab
    <3> QED BY <1>2, <2>5, <3>6 DEF ListsInv, ReachOK, FilesOK
  <2> QED BY <2>6, <2>7
<1> QED BY <1>5, <1>6

\* Every handler keeps the invariant.
LEMMA ListsInvStep == ListsInv /\ [ListsNext]_listsVars => ListsInv'
<1> SUFFICES ASSUME ListsInv, [ListsNext]_listsVars PROVE ListsInv'
  OBVIOUS
<1>1. ASSUME NEW t \in Tabs, SelectTab(t) PROVE ListsInv'
  <2>1. running /\ tab' = t /\ UNCHANGED <<files, favs, rows, list, patch, running, arrowed>>
    BY <1>1 DEF SelectTab
  <2> QED BY <2>1 DEF ListsInv, ListsTypeOK, FilesOK, ReachOK, ArrowOK, EndsOnlyInShorterTab
<1>2. ASSUME NEW x \in Names, add_cb(x) PROVE ListsInv'
  BY <1>2, AddedKeeps
<1>3. ASSUME NEW x \in Names, NEW y \in Names, import_presets_from_json(<<x, y>>) PROVE ListsInv'
  BY <1>3, AddedKeeps
<1>4. ASSUME NEW i \in DOMAIN rows["user"], delete_callback(i) PROVE ListsInv'
  BY <1>4, DeletedKeeps
<1>5. ASSUME NEW t \in Tabs, NEW i \in DOMAIN rows[t], HeartOn(t, i) PROVE ListsInv'
  BY <1>5, HeartOnKeeps
<1>6. ASSUME NEW t \in Tabs, NEW i \in DOMAIN rows[t], HeartOff(t, i) PROVE ListsInv'
  BY <1>6, HeartOffKeeps
<1>7. ASSUME NEW p \in Pages, ShowPage(p) PROVE ListsInv'
  BY <1>7, ShowPageKeeps
<1>8. CASE NextPreset \/ PrevPreset
  BY <1>8, ArrowsKeep
<1>9. CASE my
  BY <1>9, MyKeeps
<1>10. CASE UNCHANGED listsVars
  BY <1>10 DEF listsVars, ListsInv, ListsTypeOK, FilesOK, ReachOK, ArrowOK, EndsOnlyInShorterTab
<1> QED BY <1>1, <1>2, <1>3, <1>4, <1>5, <1>6, <1>7, <1>8, <1>9, <1>10 DEF ListsNext

\* The types of what the tabs keep.
THEOREM ListsTyped == ListsSpec => []ListsTypeOK
<1>1. ListsInv => ListsTypeOK
  BY DEF ListsInv
<1> QED BY <1>1, ListsInvInit, ListsInvStep, PTL DEF ListsSpec

\* Every file has a row, and every row is among what the arrows go by, whichever
\* rows are added, deleted, switched or replaced by a page before.
THEOREM AllInReach == ListsSpec => []NothingOutOfReach
<1>1. ASSUME ListsInv PROVE NothingOutOfReach
  <2>1. \A t \in Tabs : rows[t] \in Seq(Rows)
    BY <1>1 DEF ListsInv, ListsTypeOK
  <2>2. \A t \in Tabs : DOMAIN rows[t] = 1..Len(rows[t])
    BY <2>1
  <2> QED BY <1>1, <2>2, TabNames DEF ListsInv, ReachOK, Shows, Reached, NothingOutOfReach
<1> QED BY <1>1, ListsInvInit, ListsInvStep, PTL DEF ListsSpec

\* The arrow back throws (rack.cc:833) only in a tab with fewer presets than the
\* one in which the position was set.
THEOREM ThrowsInShorterTab == ListsSpec => []EndsOnlyInShorterTab
<1>1. ListsInv => EndsOnlyInShorterTab
  BY DEF ListsInv, ArrowOK
<1> QED BY <1>1, ListsInvInit, ListsInvStep, PTL DEF ListsSpec

-----------------------------------------------------------------------------
(* Sync: what has been imported where *)

MessageParts == {"body", "end", "empty"}
Busy == {"recv", "import", "send"}

\* The clients whose presets the host has imported.
Imported == {handled[k] : k \in 1..Len(handled)}

\* c has got something of its answer.
Answered(c) == toClient[c] # <<>> \/ client[c] = "import" \/ c \in synced

\* What c sends is one message of the presets it has when it connects: after the
\* end of it nothing comes, and before that nothing of it is imported.
SendsOnce(c) ==
  /\ client[c] \in {"idle", "send"} => toServer[c] = <<>>
  /\ client[c] = "end" => request[c] # NoPresets
  /\ \A k \in 1..Len(toServer[c]) :
       /\ toServer[c][k] = "empty" <=> request[c] = NoPresets
       /\ toServer[c][k] = "end" =>
            /\ k = Len(toServer[c])
            /\ client[c] \notin {"idle", "send", "end"}
            /\ c \notin Imported
  /\ client[c] \in {"idle", "send", "end"} => c \notin Imported
  /\ serverAt = "import" /\ serving = c =>
       /\ c \notin Imported
       /\ client[c] \notin {"idle", "send", "end"}
       /\ \A k \in 1..Len(toServer[c]) : toServer[c][k] # "end"

\* A client that has not connected, or waits to be accepted, has got nothing yet.
NotYet(c) ==
  /\ client[c] = "idle" =>
       /\ c \notin waiting /\ c # serving /\ ~Answered(c)
       /\ \A n \in Names : has[c][n] \in {c, None}
  /\ c \in waiting => c # serving /\ c \notin Imported /\ ~Answered(c)

\* What c has got, and how much of it it has written.
Writes(c) ==
  /\ \A n \in Names : request[c][n] \in {c, None}
  /\ Answered(c) /\ request[c] # NoPresets => c \in Imported
  /\ client[c] = "import" =>
       /\ left[c] \subseteq NamesOf(response[c])
       /\ \A n \in NamesOf(response[c]) \ left[c] : has[c][n] # None
  /\ c \in synced => NamesOf(response[c]) \subseteq NamesOf(has[c])

\* The host has the version of n of the last client that has sent one.
LastImport(n) ==
  \/ /\ has[Host][n] \in {Host, None}
     /\ \A k \in 1..Len(handled) : request[handled[k]][n] = None
  \/ \E k \in 1..Len(handled) :
       /\ request[handled[k]][n] # None
       /\ has[Host][n] = handled[k]
       /\ \A j \in 1..Len(handled) : j > k => request[handled[j]][n] = None

\* The connection that is served: what is answered has what was imported before.
ServingOK ==
  /\ serving # None <=> serverAt \in Busy
  /\ serverAt = "send" =>
       request[serving] = NoPresets \/ serving \in Imported \/ conn[serving] # "open"
  /\ serving # None =>
       /\ Answered(serving) => response[serving] = toSend
       /\ \A k \in 1..Len(handled) :
            IF handled[k] = serving THEN k = Len(handled)
            ELSE NamesOf(request[handled[k]]) \subseteq NamesOf(toSend)

\* The files of the host, also between the writes of an import.
HostOK ==
  /\ serverAt = "import" => left[Host] \subseteq NamesOf(request[serving])
  /\ \A n \in Names :
       IF serverAt = "import" /\ n \in NamesOf(request[serving]) \ left[Host]
       THEN has[Host][n] = serving ELSE LastImport(n)
  /\ \A k \in 1..Len(handled) : NamesOf(request[handled[k]]) \subseteq NamesOf(has[Host])

\* The answer to a client has what was imported before it.
Reaches ==
  \A j, k \in 1..Len(handled) :
    j < k /\ Answered(handled[k]) =>
      NamesOf(request[handled[j]]) \subseteq NamesOf(response[handled[k]])

SyncInv ==
  /\ SyncTypeOK
  /\ \A c \in Clients : SendsOnce(c)
  /\ \A c \in Clients : NotYet(c)
  /\ \A c \in Clients : Writes(c)
  /\ ServingOK
  /\ HostOK
  /\ Reaches

\* A message is one or two pieces.
LEMMA MessageTyped ==
  ASSUME NEW p
  PROVE  /\ Message(p) \in Seq(MessageParts) /\ Message(p)[1] \in MessageParts
         /\ Message(p) # <<>> /\ \A s \in Seq(MessageParts) : s \o Message(p) \in Seq(MessageParts)
<1>1. PICK A : A = MessageParts
  OBVIOUS
<1>2. <<"empty">> \in Seq(A) /\ <<"body", "end">> \in Seq(A) /\ <<"empty">>[1] = "empty"
      /\ <<"body", "end">>[1] = "body" /\ "empty" \in A /\ "body" \in A
      /\ <<"empty">> # <<>> /\ <<"body", "end">> # <<>>
  BY <1>1 DEF MessageParts
<1>3. PICK m : m = Message(p)
  OBVIOUS
<1>4. m = <<"empty">> \/ m = <<"body", "end">>
  BY <1>3, Zenon DEF Message
<1>5. m \in Seq(A) /\ m[1] \in A /\ m # <<>>
  BY <1>2, <1>4, Zenon
<1>6. \A s \in Seq(A) : s \o m \in Seq(A)
  BY ONLY <1>5
<1> QED BY <1>1, <1>3, <1>5, <1>6, Zenon

\* The types of all variables, but for what the order of the imports is.
SyncTypes ==
  /\ has \in [Machines -> Presets]
  /\ conn \in [Clients -> {"none", "open", "left", "poked", "reset"}]
  /\ toServer \in [Clients -> Seq(MessageParts)]
  /\ toClient \in [Clients -> Seq(MessageParts)]
  /\ client \in [Clients -> {"idle", "send", "end", "recv", "import", "close", "done"}]
  /\ request \in [Clients -> Presets] /\ response \in [Clients -> Presets]
  /\ listening \in {"none", "open", "closed"} /\ waiting \in SUBSET Clients
  /\ serverAt \in {"new", "create", "accept", "recv", "import", "send", "over", "exit"}
  /\ serving \in Clients \cup {None}
  /\ asked \in {"none", "presets", "empty", "gone"}
  /\ toSend \in Presets
  /\ left \in [Machines -> SUBSET Names]
  /\ window \in {"open", "join", "closed", "exit"}
  /\ handled \in Seq(Clients)
  /\ synced \in SUBSET Clients
  /\ early \in BOOLEAN

LEMMA SyncTypesOf == SyncTypeOK <=> SyncTypes /\ IsInjective(handled)
BY DEF SyncTypeOK, SyncTypes, MessageParts

\* A step of a client that changes nothing but where it is and its connection.
LEMMA ClientMoves ==
  ASSUME SyncTypes,
         client' \in [Clients -> {"idle", "send", "end", "recv", "import", "close", "done"}],
         conn' \in [Clients -> {"none", "open", "left", "poked", "reset"}],
         UNCHANGED <<has, toServer, toClient, waiting, request, response, synced, serverVars,
                     left, windowVars>>
  PROVE  SyncTypes'
BY DEF SyncTypes, serverVars, windowVars

\* The steps of a client keep the types.
LEMMA ClientTyped ==
  ASSUME SyncTypes, NEW c \in Clients, Connect(c) \/ Crash(c) \/ ClientStep(c) \/ Reset(c)
  PROVE  SyncTypes'
<1> USE DEF netVars, clientVars, serverVars, windowVars, At, GoesTo
<1>0. c \in Machines /\ has[c] \in Presets /\ \A n \in Names : response[c][n] \in Machines \cup {None}
  BY DEF Machines, SyncTypes, Presets
<1>1. CASE Connect(c)
  <2>1. /\ conn' \in [Clients -> {"none", "open", "left", "poked", "reset"}]
        /\ waiting' \in SUBSET Clients
        /\ request' \in [Clients -> Presets]
    <3>1. CASE listening = "open"
      <4>1. /\ conn' = [conn EXCEPT ![c] = "open"]
            /\ waiting' = waiting \cup {c}
            /\ request' = [request EXCEPT ![c] = has[c]]
        BY <1>1, <3>1 DEF Connect
      <4> QED BY <1>0, <4>1 DEF SyncTypes
    <3>2. CASE listening # "open"
      BY <1>1, <3>2 DEF Connect, SyncTypes
    <3> QED BY <3>1, <3>2
  <2>2. client' \in [Clients -> {"idle", "send", "end", "recv", "import", "close", "done"}]
    BY <1>1 DEF Connect, SyncTypes
  <2> QED BY <1>1, <2>1, <2>2 DEF Connect, SyncTypes
<1>2. CASE Crash(c)
  <2>1. conn' \in [Clients -> {"none", "open", "left", "poked", "reset"}]
    BY <1>2 DEF Crash, Gone, SyncTypes
  <2>2. client' \in [Clients -> {"idle", "send", "end", "recv", "import", "close", "done"}]
    BY <1>2 DEF Crash, SyncTypes
  <2>3. UNCHANGED <<has, toServer, toClient, waiting, request, response, synced, serverVars,
                    left, windowVars>>
    BY <1>2 DEF Crash
  <2> QED BY ONLY SyncTypes, <2>1, <2>2, <2>3, ClientMoves
<1>3. CASE Send(c)
  <2>1. Message(request[c])[1] \in MessageParts /\ "end" \in MessageParts
    BY MessageTyped DEF MessageParts
  <2>2. PICK piece \in MessageParts :
          \/ GoesTo(c, "recv") /\ UNCHANGED toServer
          \/ /\ toServer' = [toServer EXCEPT ![c] = Append(@, piece)]
             /\ GoesTo(c, IF piece = "body" THEN "end" ELSE "recv")
    BY <1>3, <2>1 DEF Send
  <2>3. toServer' \in [Clients -> Seq(MessageParts)]
    <3>1. toServer' = toServer \/ toServer' = [toServer EXCEPT ![c] = Append(@, piece)]
      BY <2>2, Zenon
    <3>2. toServer[c] \in Seq(MessageParts) /\ toServer \in [Clients -> Seq(MessageParts)]
      BY DEF SyncTypes
    <3>3. Append(toServer[c], piece) \in Seq(MessageParts)
      BY <3>2
    <3> QED BY <3>1, <3>2, <3>3
  <2>4. client' \in [Clients -> {"idle", "send", "end", "recv", "import", "close", "done"}]
    <3>1. client' = [client EXCEPT ![c] = "recv"] \/ client' = [client EXCEPT ![c] = "end"]
      <4>1. CASE piece = "body"
        BY <2>2, <4>1
      <4>2. CASE piece # "body"
        BY <2>2, <4>2
      <4> QED BY <4>1, <4>2
    <3> QED BY <3>1 DEF SyncTypes
  <2> QED BY <1>3, <2>3, <2>4 DEF Send, SyncTypes
<1>4. CASE Recv(c)
  <2>1. toClient' \in [Clients -> Seq(MessageParts)]
    BY <1>4 DEF Recv, SyncTypes
  <2>2. client' \in [Clients -> {"idle", "send", "end", "recv", "import", "close", "done"}]
    BY <1>4 DEF Recv, SyncTypes
  <2>3. left' \in [Machines -> SUBSET Names]
    BY <1>0, <1>4 DEF Recv, SyncTypes, NamesOf
  <2> QED BY <1>4, <2>1, <2>2, <2>3 DEF Recv, SyncTypes
<1>5. CASE RecvFails(c)
  <2>1. client' \in [Clients -> {"idle", "send", "end", "recv", "import", "close", "done"}]
    BY <1>5 DEF RecvFails, SyncTypes
  <2>2. conn' \in [Clients -> {"none", "open", "left", "poked", "reset"}]
    BY <1>5 DEF RecvFails, SyncTypes
  <2>3. UNCHANGED <<has, toServer, toClient, waiting, request, response, synced, serverVars,
                    left, windowVars>>
    BY <1>5 DEF RecvFails
  <2> QED BY ONLY SyncTypes, <2>1, <2>2, <2>3, ClientMoves
<1>6. CASE Import(c)
  <2>1. has' \in [Machines -> Presets] /\ left' \in [Machines -> SUBSET Names]
    <3>1. PICK n \in left[c] :
            /\ has' = [has EXCEPT ![c][n] = response[c][n]]
            /\ left' = [left EXCEPT ![c] = @ \ {n}]
      BY <1>6 DEF Import
    <3>2. left[c] \subseteq Names
      BY <1>0 DEF SyncTypes
    <3>3. n \in Names /\ response[c][n] \in Machines \cup {None}
      BY <1>0, <3>1, <3>2
    <3>4. [has[c] EXCEPT ![n] = response[c][n]] \in Presets
      BY <1>0, <3>3 DEF Presets
    <3> QED BY <1>0, <3>1, <3>2, <3>4 DEF SyncTypes
  <2>2. client' \in [Clients -> {"idle", "send", "end", "recv", "import", "close", "done"}]
        /\ synced' \in SUBSET Clients
    <3>1. CASE left'[c] = {}
      <4>1. client' = [client EXCEPT ![c] = "close"] /\ synced' = synced \cup {c}
        BY <1>6, <3>1 DEF Import
      <4> QED BY <4>1 DEF SyncTypes
    <3>2. CASE left'[c] # {}
      BY <1>6, <3>2 DEF Import, SyncTypes
    <3> QED BY <3>1, <3>2
  <2> QED BY <1>6, <2>1, <2>2 DEF Import, SyncTypes
<1>7. CASE Close(c)
  <2>1. conn' \in [Clients -> {"none", "open", "left", "poked", "reset"}]
    BY <1>7 DEF Close, Gone, SyncTypes
  <2>2. client' \in [Clients -> {"idle", "send", "end", "recv", "import", "close", "done"}]
    BY <1>7 DEF Close, SyncTypes
  <2>3. UNCHANGED <<has, toServer, toClient, waiting, request, response, synced, serverVars,
                    left, windowVars>>
    BY <1>7 DEF Close
  <2> QED BY ONLY SyncTypes, <2>1, <2>2, <2>3, ClientMoves
<1>8. CASE Reset(c)
  BY <1>8 DEF Reset, SyncTypes
<1> QED BY <1>1, <1>2, <1>3, <1>4, <1>5, <1>6, <1>7, <1>8 DEF ClientStep

\* So do those of the server.
LEMMA ServerTyped ==
  ASSUME SyncTypes, serving # None <=> serverAt \in Busy,
         ServerStep \/ CloseSocket \/ Join \/ UNCHANGED syncVars
  PROVE  SyncTypes'
<1> USE DEF netVars, clientVars, serverVars, windowVars
<1>0. Host \in Machines /\ has[Host] \in Presets
  BY DEF Machines, SyncTypes
<1>1. CASE ServerNew \/ ServerAcceptFails \/ ServerSendFails \/ ServerRecvGone \/ Join
  BY <1>1 DEF ServerNew, ServerAcceptFails, ServerSendFails, ServerRecvGone, Join, SyncTypes
<1>2. CASE ServerCreate
  BY <1>2 DEF ServerCreate, SyncTypes
<1>3. CASE ServerAccept
  BY <1>0, <1>3 DEF ServerAccept, SyncTypes
<1>4. CASE ServerRecv
  <2>1. serving \in Clients
    BY <1>4 DEF ServerRecv, SyncTypes, Busy
  <2>2. toServer' \in [Clients -> Seq(MessageParts)]
    BY <1>4, <2>1 DEF ServerRecv, SyncTypes
  <2>3. left' \in [Machines -> SUBSET Names] /\ serverAt' \in {"recv", "import", "send"}
        /\ asked' \in {"none", "presets", "empty", "gone"}
    BY <1>0, <1>4, <2>1 DEF ServerRecv, SyncTypes, NamesOf
  <2> QED BY <1>4, <2>2, <2>3 DEF ServerRecv, SyncTypes
<1>5. CASE ServerImport
  <2>1. serving \in Clients
    BY <1>5 DEF ServerImport, SyncTypes, Busy
  <2>2. has' \in [Machines -> Presets] /\ left' \in [Machines -> SUBSET Names]
    <3>1. PICK n \in left[Host] :
            /\ has' = [has EXCEPT ![Host][n] = request[serving][n]]
            /\ left' = [left EXCEPT ![Host] = @ \ {n}]
      BY <1>5 DEF ServerImport
    <3>2. left[Host] \subseteq Names
      BY <1>0 DEF SyncTypes
    <3>3. n \in Names /\ request[serving][n] \in Machines \cup {None}
      BY <2>1, <3>1, <3>2 DEF SyncTypes, Presets
    <3>4. [has[Host] EXCEPT ![n] = request[serving][n]] \in Presets
      BY <1>0, <3>3 DEF Presets
    <3> QED BY <1>0, <3>1, <3>2, <3>4 DEF SyncTypes
  <2>3. handled' \in Seq(Clients) /\ serverAt' \in {"import", "send"}
    <3>1. CASE left'[Host] = {}
      <4>1. serverAt' = "send" /\ handled' = Append(handled, serving)
        BY <1>5, <3>1 DEF ServerImport
      <4> QED BY <2>1, <4>1 DEF SyncTypes
    <3>2. CASE left'[Host] # {}
      <4>1. serverAt' = "import" /\ handled' = handled
        BY <1>5, <3>2 DEF ServerImport
      <4> QED BY <4>1 DEF SyncTypes
    <3> QED BY <3>1, <3>2
  <2> QED BY <1>5, <2>2, <2>3 DEF ServerImport, SyncTypes
<1>6. CASE ServerSend
  <2>1. serving \in Clients
    BY <1>6 DEF ServerSend, SyncTypes, Busy
  <2>2. toClient[serving] \o Message(toSend) \in Seq(MessageParts)
    BY <2>1, MessageTyped DEF SyncTypes
  <2>3. toClient' \in [Clients -> Seq(MessageParts)] /\ response' \in [Clients -> Presets]
        /\ conn' \in [Clients -> {"none", "open", "left", "poked", "reset"}]
    <3>1. CASE conn[serving] = "open"
      <4>1. /\ toClient' = [toClient EXCEPT ![serving] = @ \o Message(toSend)]
            /\ response' = [response EXCEPT ![serving] = toSend]
            /\ conn' = conn
        BY <1>6, <3>1 DEF ServerSend
      <4> QED BY ONLY SyncTypes, <2>1, <2>2, <4>1 DEF SyncTypes
    <3>2. CASE conn[serving] # "open"
      <4>1. /\ conn' = [conn EXCEPT ![serving] = "poked"]
            /\ toClient' = toClient /\ response' = response
        BY <1>6, <3>2 DEF ServerSend
      <4> QED BY ONLY SyncTypes, <2>1, <4>1 DEF SyncTypes
    <3> QED BY <3>1, <3>2
  <2> QED BY <1>6, <2>3 DEF ServerSend, SyncTypes
<1>7. CASE CloseSocket
  <2>1. early' \in BOOLEAN
    <3>1. early' = (serverAt \in {"new", "create"}) /\ (serverAt \in {"new", "create"}) \in BOOLEAN
      BY <1>7 DEF CloseSocket
    <3> QED BY <3>1, Zenon
  <2>2. waiting' \in SUBSET Clients /\ listening' \in {"none", "open", "closed"}
    BY <1>7 DEF CloseSocket, SyncTypes
  <2>3. conn' \in [Clients -> {"none", "open", "left", "poked", "reset"}]
    BY <1>7 DEF CloseSocket, SyncTypes
  <2>4. serverAt' \in {"new", "create", "accept", "recv", "import", "send", "over", "exit"}
        /\ window' \in {"open", "join", "closed", "exit"}
    BY <1>7 DEF CloseSocket, SyncTypes
  <2> QED BY <1>7, <2>1, <2>2, <2>3, <2>4 DEF CloseSocket, SyncTypes
<1>8. CASE UNCHANGED syncVars
  BY <1>8 DEF syncVars, SyncTypes
<1> QED BY <1>1, <1>2, <1>3, <1>4, <1>5, <1>6, <1>7, <1>8 DEF ServerStep

\* The connections start with nothing sent and nothing imported.
LEMMA SyncInvInit == SyncInit => SyncInv
<1> SUFFICES ASSUME SyncInit PROVE SyncInv
  OBVIOUS
<1>1. /\ \A m \in Machines : \A n \in Names : has[m][n] \in {m, None}
      /\ has \in [Machines -> Presets]
      /\ conn = [c \in Clients |-> "none"]
      /\ toServer = [c \in Clients |-> <<>>] /\ toClient = [c \in Clients |-> <<>>]
      /\ client = [c \in Clients |-> "idle"]
      /\ request = [c \in Clients |-> NoPresets] /\ response = [c \in Clients |-> NoPresets]
      /\ listening = "none" /\ waiting = {}
      /\ serverAt = "new" /\ serving = None /\ asked = "none" /\ toSend = NoPresets
      /\ left = [m \in Machines |-> {}]
      /\ window = "open"
      /\ handled = <<>> /\ synced = {}
  BY DEF SyncInit
<1>2. NoPresets \in Presets
  BY DEF NoPresets, Presets
<1>3. early \in BOOLEAN
  BY Zenon DEF SyncInit
<1>4. SyncTypes
  BY <1>1, <1>2, <1>3 DEF SyncTypes
<1>5. SyncTypeOK
  BY <1>1, <1>4, SyncTypesOf DEF IsInjective
<1>6. Imported = {} /\ \A c \in Clients : ~Answered(c) /\ client[c] = "idle" /\ c \in Machines
  BY <1>1 DEF Imported, Answered, Machines
<1>7. ASSUME NEW c \in Clients PROVE SendsOnce(c) /\ NotYet(c) /\ Writes(c)
  <2>1. c # serving
    BY <1>1, SyncAssumption
  <2>2. \A n \in Names : request[c][n] = None
    BY <1>1 DEF NoPresets
  <2> QED BY <1>1, <1>6, <2>1, <2>2 DEF SendsOnce, NotYet, Writes
<1>8. ServingOK
  BY <1>1 DEF ServingOK, Busy
<1>9. HostOK
  <2>1. Host \in Machines /\ Len(handled) = 0
    BY <1>1 DEF Machines
  <2> QED BY <1>1, <2>1 DEF HostOK, LastImport
<1>10. Reaches
  BY <1>1 DEF Reaches
<1> QED BY <1>5, <1>7, <1>8, <1>9, <1>10 DEF SyncInv

\* A step that is not about client d leaves it as it is.
LEMMA OthersKeep ==
  ASSUME SyncInv, NEW d \in Clients,
         client'[d] = client[d], toServer'[d] = toServer[d], toClient'[d] = toClient[d],
         request'[d] = request[d], response'[d] = response[d], has'[d] = has[d],
         left'[d] = left[d], d \in waiting' => d \in waiting, d \in synced' <=> d \in synced,
         d \in Imported' <=> d \in Imported, serving' = d => serving = d,
         serverAt' = "import" /\ serving' = d => serverAt = "import"
  PROVE  SendsOnce(d)' /\ NotYet(d)' /\ Writes(d)'
<1>1. SendsOnce(d) /\ NotYet(d) /\ Writes(d)
  BY DEF SyncInv
<1>2. Answered(d)' <=> Answered(d)
  BY DEF Answered
<1>3. SendsOnce(d)'
  BY <1>1 DEF SendsOnce
<1>4. NotYet(d)'
  BY <1>1, <1>2 DEF NotYet
<1>5. Writes(d)'
  BY <1>1, <1>2 DEF Writes
<1> QED BY <1>3, <1>4, <1>5

\* Those that have been imported are clients, and imported once.
LEMMA ImportedOnce ==
  ASSUME SyncInv
  PROVE  /\ \A k \in 1..Len(handled) : handled[k] \in Clients /\ handled[k] \in Imported
         /\ \A j, k \in 1..Len(handled) : handled[j] = handled[k] => j = k
<1>1. handled \in Seq(Clients) /\ IsInjective(handled)
  BY DEF SyncInv, SyncTypeOK
<1> QED BY <1>1 DEF Imported, IsInjective

\* A step that does not concern the host leaves it as it is.
LEMMA HostKeeps ==
  ASSUME SyncInv, has'[Host] = has[Host], left'[Host] = left[Host],
         UNCHANGED <<serving, toSend, handled>>,
         serverAt' = serverAt \/ (serverAt \notin Busy /\ serverAt' \notin Busy),
         \A c \in Clients : c \in Imported \/ c = serving =>
           request'[c] = request[c] /\ response'[c] = response[c] /\ (Answered(c)' => Answered(c)),
         serving # None /\ conn'[serving] = "open" => conn[serving] = "open"
  PROVE  ServingOK' /\ HostOK' /\ Reaches'
<1>1. /\ \A k \in 1..Len(handled) : handled[k] \in Clients /\ handled[k] \in Imported
      /\ Len(handled') = Len(handled) /\ \A k \in 1..Len(handled) : handled'[k] = handled[k]
  BY ImportedOnce
<1>2. \A k \in 1..Len(handled) :
        /\ request'[handled[k]] = request[handled[k]]
        /\ response'[handled[k]] = response[handled[k]]
        /\ Answered(handled[k])' => Answered(handled[k])
  BY <1>1
<1>3. serving # None => serving \in Clients
  BY DEF SyncInv, SyncTypeOK
<1>4. ServingOK /\ HostOK /\ Reaches /\ Imported' = Imported
  BY DEF SyncInv, Imported
<1>5. serving # None =>
        /\ request'[serving] = request[serving] /\ response'[serving] = response[serving]
        /\ Answered(serving)' => Answered(serving)
  BY <1>3
<1>6. ServingOK'
  <2>1. serving' # None <=> serverAt' \in Busy
    BY <1>4 DEF ServingOK
  <2>2. serverAt' = "send" => serverAt = "send" /\ serving # None
    BY <1>4, <2>1 DEF ServingOK, Busy
  <2>3. serverAt' = "send" =>
          request'[serving'] = NoPresets \/ serving' \in Imported' \/ conn'[serving'] # "open"
    BY <1>4, <1>5, <2>2 DEF ServingOK
  <2>4. serving' # None =>
          /\ Answered(serving)' => response'[serving'] = toSend'
          /\ \A k \in 1..Len(handled') :
               IF handled'[k] = serving' THEN k = Len(handled')
               ELSE NamesOf(request'[handled'[k]]) \subseteq NamesOf(toSend')
    BY <1>1, <1>2, <1>4, <1>5 DEF ServingOK, NamesOf
  <2> QED BY <2>1, <2>3, <2>4 DEF ServingOK, NamesOf
<1>7. HostOK'
  <2>1. serverAt' = "import" <=> serverAt = "import"
    BY DEF Busy
  <2>2. serverAt = "import" => serving # None
    BY <1>4 DEF ServingOK, Busy
  <2>3. ASSUME NEW n \in Names, LastImport(n) PROVE LastImport(n)'
    BY <1>1, <1>2, <2>3 DEF LastImport
  <2>4. serverAt' = "import" => left'[Host] \subseteq NamesOf(request'[serving'])
    BY <1>4, <1>5, <2>1, <2>2 DEF HostOK
  <2>5. \A k \in 1..Len(handled') : NamesOf(request'[handled'[k]]) \subseteq NamesOf(has'[Host])
    BY <1>1, <1>2, <1>4 DEF HostOK
  <2>6. ASSUME NEW n \in Names
        PROVE  IF serverAt' = "import" /\ n \in NamesOf(request'[serving']) \ left'[Host]
               THEN has'[Host][n] = serving' ELSE LastImport(n)'
    BY <1>4, <1>5, <2>1, <2>2, <2>3 DEF HostOK
  <2> QED BY <2>4, <2>5, <2>6 DEF HostOK, NamesOf
<1>8. Reaches'
  BY <1>1, <1>2, <1>4 DEF Reaches, NamesOf
<1> QED BY <1>6, <1>7, <1>8

\* A step of client c leaves the server, the host's files and the other clients alone.
OnlyClient(c) ==
  /\ UNCHANGED <<serverAt, serving, toSend, handled>>
  /\ has'[Host] = has[Host] /\ left'[Host] = left[Host]
  /\ \A d \in Clients \ {c} :
       /\ client'[d] = client[d] /\ toServer'[d] = toServer[d] /\ toClient'[d] = toClient[d]
       /\ request'[d] = request[d] /\ response'[d] = response[d]
       /\ has'[d] = has[d] /\ left'[d] = left[d] /\ conn'[d] = conn[d]
       /\ (d \in waiting' => d \in waiting) /\ (d \in synced' <=> d \in synced)

\* And c has not got more than before, once the server has to do with it.
OwnStep(c) ==
  /\ SendsOnce(c)' /\ NotYet(c)' /\ Writes(c)'
  /\ c \in Imported \/ c = serving =>
       /\ request'[c] = request[c] /\ response'[c] = response[c]
       /\ Answered(c)' => Answered(c)
       /\ conn'[c] = "open" => conn[c] = "open"

LEMMA ClientEffects ==
  ASSUME SyncInv, NEW c \in Clients, SyncTypes', OnlyClient(c), OwnStep(c)
  PROVE  SyncInv'
<1>1. SyncTypeOK'
  <2>1. IsInjective(handled) /\ handled' = handled
    BY SyncTypesOf DEF SyncInv, OnlyClient
  <2>2. IsInjective(handled')
    BY <2>1, Zenon
  <2> QED BY <2>2 DEF SyncTypeOK, SyncTypes, MessageParts
<1>2. Imported' = Imported
  BY DEF Imported, OnlyClient
<1>3. ASSUME NEW d \in Clients PROVE SendsOnce(d)' /\ NotYet(d)' /\ Writes(d)'
  <2>1. CASE d = c
    BY <2>1 DEF OwnStep
  <2>2. CASE d # c
    <3>1. /\ client'[d] = client[d] /\ toServer'[d] = toServer[d] /\ toClient'[d] = toClient[d]
          /\ request'[d] = request[d] /\ response'[d] = response[d] /\ has'[d] = has[d]
          /\ left'[d] = left[d] /\ (d \in waiting' => d \in waiting)
          /\ (d \in synced' <=> d \in synced)
          /\ serving' = serving /\ serverAt' = serverAt
      BY <2>2 DEF OnlyClient
    <3> QED BY <1>2, <3>1, OthersKeep
  <2> QED BY <2>1, <2>2
<1>4. ASSUME NEW d \in Clients, d \in Imported \/ d = serving
      PROVE  /\ request'[d] = request[d] /\ response'[d] = response[d]
             /\ Answered(d)' => Answered(d)
             /\ conn'[d] = "open" => conn[d] = "open"
  BY <1>4 DEF OwnStep, OnlyClient, Answered
<1>5. serving # None => serving \in Clients
  BY DEF SyncInv, SyncTypeOK
<1>6. /\ has'[Host] = has[Host] /\ left'[Host] = left[Host]
      /\ UNCHANGED <<serving, toSend, handled>> /\ serverAt' = serverAt
  BY DEF OnlyClient
<1>7. ServingOK' /\ HostOK' /\ Reaches'
  <2>1. \A d \in Clients : d \in Imported \/ d = serving =>
          request'[d] = request[d] /\ response'[d] = response[d] /\ (Answered(d)' => Answered(d))
    BY <1>4
  <2>2. serving # None /\ conn'[serving] = "open" => conn[serving] = "open"
    BY <1>4, <1>5
  <2> QED BY <1>6, <2>1, <2>2, HostKeeps
<1> QED BY <1>1, <1>3, <1>7 DEF SyncInv

\* create: what the client sends is what it has, which is its own.
LEMMA ConnectKeeps ==
  ASSUME SyncInv, NEW c \in Clients, Connect(c)
  PROVE  OnlyClient(c) /\ OwnStep(c)
<1>1. SendsOnce(c) /\ NotYet(c) /\ Writes(c) /\ SyncTypes
  BY SyncTypesOf DEF SyncInv
<1>2. client[c] = "idle" /\ UNCHANGED <<has, toServer, toClient, response, synced, serverVars, left, windowVars>>
  BY DEF Connect, At
<1>3. c # Host
  BY SyncAssumption
<1>4. \/ /\ conn' = [conn EXCEPT ![c] = "open"] /\ waiting' = waiting \cup {c}
         /\ request' = [request EXCEPT ![c] = has[c]] /\ client' = [client EXCEPT ![c] = "send"]
      \/ /\ client' = [client EXCEPT ![c] = "done"] /\ UNCHANGED <<conn, waiting, request>>
  BY DEF Connect, GoesTo
<1>5. OnlyClient(c)
  BY <1>1, <1>2, <1>4 DEF OnlyClient, serverVars, SyncTypes
<1>6. Imported' = Imported /\ serverAt' = serverAt /\ serving' = serving
  BY <1>2 DEF Imported, serverVars
<1>7. client'[c] \in {"send", "done"} /\ (client'[c] = "done" => waiting' = waiting /\ request' = request)
      /\ (request'[c] = request[c] \/ request'[c] = has[c])
  BY <1>1, <1>4 DEF SyncTypes
<1>8. ~Answered(c) /\ ~Answered(c)' /\ c # serving /\ c \notin Imported /\ toServer'[c] = <<>> /\ c \notin waiting
  BY <1>1, <1>2, <1>7 DEF NotYet, SendsOnce, Answered
<1>9. SendsOnce(c)'
  BY <1>6, <1>7, <1>8 DEF SendsOnce
<1>10. NotYet(c)'
  BY <1>6, <1>7, <1>8 DEF NotYet
<1>11. Writes(c)'
  BY <1>1, <1>2, <1>7, <1>8 DEF Writes, NotYet, Answered
<1> QED BY <1>5, <1>8, <1>9, <1>10, <1>11 DEF OwnStep

\* The steps by which a client goes: nothing new is sent or got.
LEMMA LeaveKeeps ==
  ASSUME SyncInv, NEW c \in Clients, Crash(c) \/ RecvFails(c) \/ Close(c) \/ Reset(c)
  PROVE  OnlyClient(c) /\ OwnStep(c)
<1> USE DEF netVars, clientVars, serverVars, windowVars
<1>1. SendsOnce(c) /\ NotYet(c) /\ Writes(c) /\ SyncTypes
  BY SyncTypesOf DEF SyncInv
<1>2. /\ UNCHANGED <<has, waiting, toServer, toClient, request, response, synced, left>>
      /\ UNCHANGED <<serverAt, serving, toSend, handled>>
  BY DEF Crash, RecvFails, Close, Reset
<1>3. \/ client' = client /\ conn[c] = "poked"
      \/ client' = [client EXCEPT ![c] = "done"] \/ client' = [client EXCEPT ![c] = "close"]
  BY DEF Crash, RecvFails, Close, Reset, GoesTo
<1>4. conn' = conn \/ conn' = [conn EXCEPT ![c] = "reset"] \/ conn' = [conn EXCEPT ![c] = "left"]
  <2>1. CASE Gone(c)
    <3>1. conn' = [conn EXCEPT ![c] = conn[c]] \/ conn' = [conn EXCEPT ![c] = "reset"]
          \/ conn' = [conn EXCEPT ![c] = "left"]
      BY <2>1 DEF Gone
    <3> QED BY <1>1, <3>1 DEF SyncTypes
  <2>2. CASE RecvFails(c) \/ Reset(c)
    BY <2>2 DEF RecvFails, Reset
  <2> QED BY <2>1, <2>2 DEF Crash, Close
<1>5. conn'[c] = "open" => conn[c] = "open"
  BY <1>1, <1>4 DEF SyncTypes
<1>6. OnlyClient(c)
  BY <1>1, <1>2, <1>3, <1>4 DEF OnlyClient, SyncTypes
<1>7. client'[c] = client[c] \/ client'[c] = "done" \/ client'[c] = "close"
  BY <1>1, <1>3 DEF SyncTypes
<1>8. Imported' = Imported
  BY <1>2 DEF Imported
<1>9. Answered(c)' => Answered(c)
  BY <1>2, <1>7 DEF Answered
<1>10. SendsOnce(c)'
  BY <1>1, <1>2, <1>7, <1>8 DEF SendsOnce
<1>11. NotYet(c)'
  BY <1>1, <1>2, <1>7, <1>8, <1>9 DEF NotYet
<1>12. Writes(c)'
  BY <1>1, <1>2, <1>7, <1>8, <1>9 DEF Writes
<1> QED BY <1>2, <1>5, <1>6, <1>9, <1>10, <1>11, <1>12 DEF OwnStep

\* send_request: the message once, piece by piece.
LEMMA SendKeeps ==
  ASSUME SyncInv, NEW c \in Clients, Send(c)
  PROVE  OnlyClient(c) /\ OwnStep(c)
<1> USE DEF netVars, clientVars, serverVars, windowVars
<1>1. SendsOnce(c) /\ NotYet(c) /\ Writes(c) /\ SyncTypes
  BY SyncTypesOf DEF SyncInv
<1>2. /\ UNCHANGED <<has, conn, waiting, toClient, request, response, synced, left>>
      /\ UNCHANGED <<serverAt, serving, toSend, handled>>
  BY DEF Send
<1>3. PICK piece :
        /\ piece = IF client[c] = "send" THEN Message(request[c])[1] ELSE "end"
        /\ \/ client' = [client EXCEPT ![c] = "recv"] /\ toServer' = toServer
           \/ /\ toServer' = [toServer EXCEPT ![c] = Append(@, piece)]
              /\ client' = [client EXCEPT ![c] = IF piece = "body" THEN "end" ELSE "recv"]
  BY DEF Send, At, GoesTo
<1>4. client[c] \in {"send", "end"}
  BY DEF Send, At
<1>5. Message(request[c])[1] = IF request[c] = NoPresets THEN "empty" ELSE "body"
  BY DEF Message
<1>6. piece \in MessageParts
  BY <1>3, <1>5 DEF MessageParts
<1>7. client'[c] \in {"end", "recv"} /\ (client'[c] = "end" => client[c] = "send" /\ request[c] # NoPresets)
  BY <1>1, <1>3, <1>5 DEF SyncTypes
<1>8. OnlyClient(c)
  BY <1>1, <1>2, <1>3 DEF OnlyClient, SyncTypes
<1>9. Imported' = Imported
  BY <1>2 DEF Imported
<1>10. Answered(c)' => Answered(c)
  BY <1>2, <1>7 DEF Answered
<1>11. c \notin Imported /\ ~(serverAt = "import" /\ serving = c)
  BY <1>1, <1>4 DEF SendsOnce
<1>12. \A k \in 1..Len(toServer[c]) : toServer[c][k] # "end"
  BY <1>1, <1>4 DEF SendsOnce
<1>13. ASSUME NEW k \in 1..Len(toServer'[c])
       PROVE  /\ toServer'[c][k] = "empty" <=> request[c] = NoPresets
              /\ toServer'[c][k] = "end" => k = Len(toServer'[c]) /\ client'[c] = "recv"
  <2>1. toServer[c] \in Seq(MessageParts)
    BY <1>1 DEF SyncTypes
  <2>2. CASE toServer' = toServer
    BY <1>1, <1>12, <2>2 DEF SendsOnce
  <2>3. CASE toServer'[c] = Append(toServer[c], piece) /\ (piece = "end" => client'[c] = "recv")
    <3>1. Len(toServer'[c]) = Len(toServer[c]) + 1
      BY <1>6, <2>1, <2>3
    <3>2. CASE k \in 1..Len(toServer[c])
      <4>1. toServer'[c][k] = toServer[c][k]
        BY <1>6, <2>1, <2>3, <3>2
      <4> QED BY <1>1, <1>12, <3>2, <4>1 DEF SendsOnce
    <3>3. CASE k = Len(toServer[c]) + 1
      <4>1. toServer'[c][k] = piece
        BY <1>6, <2>1, <2>3, <3>3
      <4>2. piece = "empty" <=> request[c] = NoPresets
        BY <1>1, <1>3, <1>4, <1>5 DEF SendsOnce
      <4> QED BY <2>3, <3>1, <3>3, <4>1, <4>2
    <3>4. Len(toServer[c]) \in Nat
      BY <2>1
    <3>5. k \in 1..Len(toServer[c]) \/ k = Len(toServer[c]) + 1
      BY <3>1, <3>4
    <3> QED BY <3>2, <3>3, <3>5
  <2>4. toServer' = toServer
        \/ (toServer'[c] = Append(toServer[c], piece) /\ (piece = "end" => client'[c] = "recv"))
    BY <1>1, <1>3 DEF SyncTypes
  <2> QED BY <2>2, <2>3, <2>4
<1>14. SendsOnce(c)'
  BY <1>2, <1>7, <1>9, <1>11, <1>13 DEF SendsOnce
<1>15. NotYet(c)'
  BY <1>1, <1>2, <1>7, <1>9, <1>10 DEF NotYet
<1>16. Writes(c)'
  BY <1>1, <1>2, <1>7, <1>9, <1>10 DEF Writes
<1> QED BY <1>2, <1>8, <1>10, <1>14, <1>15, <1>16 DEF OwnStep

\* recv: with the end of the answer the client knows all it has to write.
LEMMA RecvKeeps ==
  ASSUME SyncInv, NEW c \in Clients, Recv(c)
  PROVE  OnlyClient(c) /\ OwnStep(c)
<1> USE DEF netVars, clientVars, serverVars, windowVars
<1>1. SendsOnce(c) /\ NotYet(c) /\ Writes(c) /\ SyncTypes
  BY SyncTypesOf DEF SyncInv
<1>2. /\ UNCHANGED <<has, conn, waiting, toServer, request, response, synced>>
      /\ UNCHANGED <<serverAt, serving, toSend, handled>>
      /\ client[c] = "recv" /\ toClient[c] # <<>>
      /\ toClient' = [toClient EXCEPT ![c] = Tail(@)]
  BY DEF Recv, At
<1>3. PICK pc \in {"import", "close", "recv"} :
        /\ client' = [client EXCEPT ![c] = pc]
        /\ left' = left \/ left' = [left EXCEPT ![c] = NamesOf(response[c])]
        /\ pc = "import" => left' = [left EXCEPT ![c] = NamesOf(response[c])]
  <2>1. CASE Head(toClient[c]) = "end"
    BY <2>1 DEF Recv, GoesTo
  <2>2. CASE Head(toClient[c]) = "empty"
    BY <2>2 DEF Recv, GoesTo
  <2>3. CASE Head(toClient[c]) \notin {"end", "empty"}
    BY <2>3 DEF Recv, GoesTo
  <2> QED BY <2>1, <2>2, <2>3
<1>4. c \in Machines /\ Host \in Machines /\ c # Host
  BY SyncAssumption DEF Machines
<1>5. OnlyClient(c)
  BY <1>1, <1>2, <1>3, <1>4 DEF OnlyClient, SyncTypes, Machines
<1>6. Imported' = Imported
  BY <1>2 DEF Imported
<1>7. Answered(c)
  BY <1>2 DEF Answered
<1>8. client'[c] = pc /\ (pc = "import" => left'[c] = NamesOf(response[c]))
  BY <1>1, <1>3, <1>4 DEF SyncTypes
<1>9. SendsOnce(c)'
  BY <1>1, <1>2, <1>6, <1>8 DEF SendsOnce
<1>10. NotYet(c)'
  BY <1>1, <1>2, <1>6, <1>7, <1>8 DEF NotYet
<1>11. Writes(c)'
  BY <1>1, <1>2, <1>6, <1>7, <1>8 DEF Writes, NamesOf
<1> QED BY <1>2, <1>5, <1>7, <1>9, <1>10, <1>11 DEF OwnStep

\* import_presets_from_json at the client: no preset it had is lost.
LEMMA ImportKeeps ==
  ASSUME SyncInv, NEW c \in Clients, Import(c)
  PROVE  OnlyClient(c) /\ OwnStep(c)
<1> USE DEF netVars, clientVars, serverVars, windowVars
<1>1. SendsOnce(c) /\ NotYet(c) /\ Writes(c) /\ SyncTypes
  BY SyncTypesOf DEF SyncInv
<1>2. /\ UNCHANGED <<conn, waiting, toServer, toClient, request, response>>
      /\ UNCHANGED <<serverAt, serving, toSend, handled>>
      /\ client[c] = "import"
  BY DEF Import, At
<1>3. PICK n \in left[c] :
        /\ has' = [has EXCEPT ![c][n] = response[c][n]]
        /\ left' = [left EXCEPT ![c] = @ \ {n}]
  BY DEF Import
<1>4. \/ left'[c] = {} /\ client' = [client EXCEPT ![c] = "close"] /\ synced' = synced \cup {c}
      \/ left'[c] # {} /\ client' = client /\ synced' = synced
  BY DEF Import, GoesTo
<1>5. c \in Machines /\ Host \in Machines /\ c # Host
  BY SyncAssumption DEF Machines
<1>6. OnlyClient(c)
  BY <1>1, <1>2, <1>3, <1>4, <1>5 DEF OnlyClient, SyncTypes, Machines
<1>7. Imported' = Imported
  BY <1>2 DEF Imported
<1>8. Answered(c) /\ left[c] \subseteq NamesOf(response[c]) /\ client'[c] \in {"close", "import"}
  BY <1>1, <1>2, <1>4 DEF Answered, Writes, SyncTypes
<1>9. n \in Names /\ response[c][n] # None
  BY <1>3, <1>8 DEF NamesOf
<1>10. has'[c] = [has[c] EXCEPT ![n] = response[c][n]] /\ left'[c] = left[c] \ {n}
  BY <1>1, <1>3, <1>5 DEF SyncTypes
<1>11. \A m \in Names : has'[c][m] = IF m = n THEN response[c][n] ELSE has[c][m]
  BY <1>1, <1>5, <1>10 DEF SyncTypes, Presets
<1>12. SendsOnce(c)'
  BY <1>1, <1>2, <1>7, <1>8 DEF SendsOnce
<1>13. NotYet(c)'
  BY <1>1, <1>2, <1>7, <1>8 DEF NotYet
<1>14. \A m \in NamesOf(response[c]) \ left'[c] : has'[c][m] # None
  BY <1>1, <1>2, <1>9, <1>10, <1>11 DEF Writes, NamesOf
<1>15. c \in synced' => NamesOf(response[c]) \subseteq NamesOf(has'[c])
  <2>1. CASE left'[c] = {}
    BY <1>14, <2>1 DEF NamesOf
  <2>2. CASE synced' = synced
    BY <1>1, <1>9, <1>11, <2>2 DEF Writes, NamesOf
  <2> QED BY <1>4, <2>1, <2>2
<1>16. Writes(c)'
  BY <1>1, <1>2, <1>7, <1>8, <1>10, <1>14, <1>15 DEF Writes, NamesOf
<1> QED BY <1>2, <1>6, <1>8, <1>12, <1>13, <1>16 DEF OwnStep

\* All steps of a client.
LEMMA ClientKeeps ==
  ASSUME SyncInv, NEW c \in Clients, Connect(c) \/ Crash(c) \/ ClientStep(c) \/ Reset(c)
  PROVE  SyncInv'
<1>1. SyncTypes'
  BY SyncTypesOf, ClientTyped DEF SyncInv
<1>2. OnlyClient(c) /\ OwnStep(c)
  BY ConnectKeeps, LeaveKeeps, SendKeeps, RecvKeeps, ImportKeeps DEF ClientStep
<1> QED BY <1>1, <1>2, ClientEffects

\* What a step of the host does not touch.
LEMMA HostTypes ==
  ASSUME SyncInv, SyncTypes', handled' = handled
  PROVE  SyncTypeOK'
<1>1. IsInjective(handled)
  BY DEF SyncInv, SyncTypeOK
<1>2. IsInjective(handled')
  BY <1>1, Zenon
<1> QED BY <1>2 DEF SyncTypeOK, SyncTypes, MessageParts

\* Steps outside of a connection.
LEMMA QuietKeeps ==
  ASSUME SyncInv,
         ServerNew \/ ServerCreate \/ ServerAcceptFails \/ CloseSocket \/ Join \/ UNCHANGED syncVars
  PROVE  SyncInv'
<1> USE DEF netVars, clientVars, serverVars, windowVars
<1>1. SyncTypes /\ (serving # None <=> serverAt \in Busy) /\ \A c \in Clients : NotYet(c)
  BY SyncTypesOf DEF SyncInv, ServingOK
<1>2. /\ UNCHANGED <<has, left, toServer, toClient, client, request, response, synced, serving, toSend, handled>>
      /\ serverAt' = serverAt \/ (serverAt \notin Busy /\ serverAt' \notin Busy)
      /\ waiting' \subseteq waiting
      /\ conn' = conn \/ conn' = [c \in Clients |-> IF c \in waiting \ waiting' THEN "reset" ELSE conn[c]]
  BY DEF ServerNew, ServerCreate, ServerAcceptFails, CloseSocket, Join, syncVars, Busy
<1>3. SyncTypes'
  BY <1>1, ServerTyped DEF ServerStep
<1>4. SyncTypeOK'
  BY <1>2, <1>3, HostTypes
<1>5. Imported' = Imported
  BY <1>2 DEF Imported
<1>6. serverAt' = "import" => serverAt = "import"
  BY <1>2 DEF Busy
<1>7. ASSUME NEW d \in Clients PROVE SendsOnce(d)' /\ NotYet(d)' /\ Writes(d)'
  BY <1>2, <1>5, <1>6, OthersKeep
<1>8. ServingOK' /\ HostOK' /\ Reaches'
  <2>1. \A d \in Clients : request'[d] = request[d] /\ response'[d] = response[d]
                           /\ (Answered(d)' => Answered(d))
    BY <1>2 DEF Answered
  <2>2. serving # None /\ conn'[serving] = "open" => conn[serving] = "open"
    BY <1>1, <1>2 DEF SyncTypes
  <2> QED BY <1>2, <2>1, <2>2, HostKeeps
<1> QED BY <1>4, <1>7, <1>8 DEF SyncInv

\* accept: whatever has been imported is in what will be answered.
LEMMA AcceptKeeps ==
  ASSUME SyncInv, ServerAccept
  PROVE  SyncInv'
<1> USE DEF netVars, clientVars, serverVars, windowVars
<1>1. SyncTypes /\ (serving # None <=> serverAt \in Busy) /\ HostOK /\ Reaches
      /\ \A c \in Clients : NotYet(c) /\ SendsOnce(c)
  BY SyncTypesOf DEF SyncInv, ServingOK
<1>2. /\ UNCHANGED <<has, conn, toServer, toClient, client, request, response, synced, handled, left>>
      /\ serverAt = "accept" /\ serverAt' = "recv" /\ toSend' = has[Host]
  BY DEF ServerAccept
<1>3. PICK c \in waiting : waiting' = waiting \ {c} /\ serving' = c
  BY DEF ServerAccept
<1>4. c \in Clients /\ c # None /\ serving = None
  BY <1>1, <1>2, SyncAssumption DEF SyncTypes, Busy
<1>5. SyncTypes'
  BY <1>1, ServerTyped DEF ServerStep
<1>6. SyncTypeOK'
  BY <1>2, <1>5, HostTypes
<1>7. Imported' = Imported /\ \A d \in Clients : Answered(d)' <=> Answered(d)
  BY <1>2 DEF Imported, Answered
<1>8. c \notin Imported /\ ~Answered(c) /\ client[c] # "idle"
  BY <1>1, <1>3, <1>4 DEF NotYet
<1>9. ASSUME NEW d \in Clients PROVE SendsOnce(d)' /\ NotYet(d)' /\ Writes(d)'
  <2>1. CASE d # c
    <3>1. (d \in waiting' => d \in waiting) /\ serving' # d /\ serverAt' # "import"
      BY <1>2, <1>3, <2>1
    <3> QED BY <1>2, <1>7, <3>1, OthersKeep
  <2>2. CASE d = c
    <3>1. SendsOnce(c) /\ NotYet(c) /\ Writes(c)
      BY <1>4 DEF SyncInv
    <3>2. SendsOnce(c)'
      BY <1>2, <1>7, <3>1 DEF SendsOnce
    <3>3. NotYet(c)'
      BY <1>2, <1>3, <1>7, <1>8, <3>1 DEF NotYet
    <3>4. Writes(c)'
      BY <1>2, <1>4, <1>7, <3>1 DEF Writes
    <3> QED BY <2>2, <3>2, <3>3, <3>4
  <2> QED BY <2>1, <2>2
<1>10. \A k \in 1..Len(handled) : handled[k] # c
  BY <1>8 DEF Imported
<1>11. ServingOK'
  <2>1. serving' # None /\ serverAt' \in Busy /\ serverAt' # "send" /\ ~Answered(serving)'
    <3>1. ~Answered(c)'
      BY <1>4, <1>7, <1>8
    <3> QED BY <1>2, <1>3, <1>4, <3>1 DEF Busy, Answered
  <2>2. \A k \in 1..Len(handled') : handled'[k] # serving'
          /\ NamesOf(request'[handled'[k]]) \subseteq NamesOf(toSend')
    BY <1>1, <1>2, <1>3, <1>10 DEF HostOK
  <2> QED BY <2>1, <2>2 DEF ServingOK, NamesOf
<1>12. HostOK'
  <2>1. \A n \in Names : LastImport(n)
    BY <1>1, <1>2 DEF HostOK
  <2>2. \A n \in Names : LastImport(n)'
    BY <1>2, <2>1 DEF LastImport
  <2> QED BY <1>1, <1>2, <2>2 DEF HostOK, NamesOf
<1>13. Reaches'
  <2>1. \A k \in 1..Len(handled) : Answered(handled[k])' => Answered(handled[k])
    BY <1>2, <1>7, ImportedOnce
  <2> QED BY <1>1, <1>2, <2>1 DEF Reaches, NamesOf
<1> QED BY <1>6, <1>9, <1>11, <1>12, <1>13 DEF SyncInv

\* The end of a connection.
LEMMA SendFailsKeeps ==
  ASSUME SyncInv, ServerSendFails
  PROVE  SyncInv'
<1> USE DEF netVars, clientVars, serverVars, windowVars
<1>1. SyncTypes /\ (serving # None <=> serverAt \in Busy) /\ HostOK /\ Reaches
  BY SyncTypesOf DEF SyncInv, ServingOK
<1>2. /\ UNCHANGED <<has, conn, toServer, toClient, waiting, client, request, response, synced, toSend, handled, left>>
      /\ serverAt = "send" /\ serverAt' = "accept" /\ serving' = None
  BY DEF ServerSendFails
<1>3. SyncTypes'
  BY <1>1, ServerTyped DEF ServerStep
<1>4. SyncTypeOK'
  BY <1>2, <1>3, HostTypes
<1>5. Imported' = Imported /\ \A d \in Clients : Answered(d)' <=> Answered(d)
  BY <1>2 DEF Imported, Answered
<1>6. ASSUME NEW d \in Clients PROVE SendsOnce(d)' /\ NotYet(d)' /\ Writes(d)'
  <2>1. serving' # d /\ serverAt' # "import"
    BY <1>2, SyncAssumption
  <2> QED BY <1>2, <1>5, <2>1, OthersKeep
<1>7. ServingOK'
  BY <1>2 DEF ServingOK, Busy
<1>8. HostOK'
  <2>1. \A n \in Names : LastImport(n)
    BY <1>1, <1>2 DEF HostOK
  <2>2. \A n \in Names : LastImport(n)'
    BY <1>2, <2>1 DEF LastImport
  <2> QED BY <1>1, <1>2, <2>2 DEF HostOK, NamesOf
<1>9. Reaches'
  <2>1. \A k \in 1..Len(handled) : Answered(handled[k])' => Answered(handled[k])
    BY <1>2, <1>5, ImportedOnce
  <2> QED BY <1>1, <1>2, <2>1 DEF Reaches, NamesOf
<1> QED BY <1>4, <1>6, <1>7, <1>8, <1>9 DEF SyncInv

\* get_request, and the client that is gone: an import begins with the end of a
\* request, and whoever is answered without one has sent nothing or is gone.
LEMMA RequestKeeps ==
  ASSUME SyncInv, ServerRecv \/ ServerRecvGone
  PROVE  SyncInv'
<1> USE DEF netVars, clientVars, serverVars, windowVars
<1>1. SyncTypes /\ ServingOK /\ HostOK /\ Reaches /\ Host \in Machines
  BY SyncTypesOf DEF SyncInv, Machines
<1>2. /\ UNCHANGED <<has, conn, toClient, waiting, client, request, response, synced, serving, toSend, handled>>
      /\ serverAt = "recv"
  BY DEF ServerRecv, ServerRecvGone
<1>0. PICK c : c = serving
  OBVIOUS
<1>3. c \in Clients /\ c # None
  BY <1>0, <1>1, <1>2, SyncAssumption DEF SyncTypes, ServingOK, Busy
<1>4. SendsOnce(c) /\ NotYet(c) /\ Writes(c) /\ toServer[c] \in Seq(MessageParts)
  BY <1>1, <1>3 DEF SyncInv, SyncTypes
<1>5. /\ toServer' = toServer \/ (toServer[c] # <<>> /\ toServer' = [toServer EXCEPT ![c] = Tail(@)])
      /\ \/ serverAt' = "recv" /\ left' = left
         \/ /\ serverAt' = "import" /\ left' = [left EXCEPT ![Host] = NamesOf(request[c])]
            /\ toServer[c] # <<>> /\ Head(toServer[c]) = "end"
            /\ toServer' = [toServer EXCEPT ![c] = Tail(@)]
         \/ /\ serverAt' = "send" /\ left' = left
            /\ conn[c] # "open" \/ (toServer[c] # <<>> /\ Head(toServer[c]) = "empty")
  <2>1. CASE ServerRecvGone
    BY <2>1, <1>0 DEF ServerRecvGone
  <2>2. CASE ServerRecv
    <3>1. toServer[c] # <<>> /\ toServer' = [toServer EXCEPT ![c] = Tail(@)]
      BY <2>2, <1>0 DEF ServerRecv
    <3>2. Head(toServer[c]) \in MessageParts
      BY <1>4, <3>1
    <3>3. CASE Head(toServer[c]) = "body"
      BY <1>2, <2>2, <3>1, <3>3, <1>0 DEF ServerRecv
    <3>4. CASE Head(toServer[c]) = "end"
      BY <2>2, <3>1, <3>4, <1>0 DEF ServerRecv
    <3>5. CASE Head(toServer[c]) = "empty"
      BY <2>2, <3>1, <3>5, <1>0 DEF ServerRecv
    <3> QED BY <3>2, <3>3, <3>4, <3>5 DEF MessageParts
  <2> QED BY <2>1, <2>2
<1>6. toServer[c] # <<>> =>
        /\ 1 \in 1..Len(toServer[c]) /\ Head(toServer[c]) = toServer[c][1]
        /\ Len(Tail(toServer[c])) = Len(toServer[c]) - 1
        /\ \A k \in 1..Len(toServer[c]) - 1 : Tail(toServer[c])[k] = toServer[c][k + 1]
  BY <1>4
<1>7. Len(toServer[c]) \in Nat
  BY <1>4
<1>8. toServer'[c] = toServer[c] \/ (toServer[c] # <<>> /\ toServer'[c] = Tail(toServer[c]))
  BY <1>1, <1>3, <1>5 DEF SyncTypes
<1>9. \A k \in 1..Len(toServer'[c]) :
        \E j \in 1..Len(toServer[c]) :
          /\ toServer'[c][k] = toServer[c][j]
          /\ j = Len(toServer[c]) => k = Len(toServer'[c])
  <2>1. CASE toServer'[c] = toServer[c]
    BY <2>1
  <2>2. CASE toServer[c] # <<>> /\ toServer'[c] = Tail(toServer[c])
    <3>1. \A k \in 1..Len(toServer[c]) - 1 :
            /\ k + 1 \in 1..Len(toServer[c])
            /\ k + 1 = Len(toServer[c]) => k = Len(toServer[c]) - 1
      BY <1>7
    <3> QED BY <1>6, <2>2, <3>1
  <2> QED BY <1>8, <2>1, <2>2
<1>10. SyncTypes'
  BY <1>1, ServerTyped DEF ServerStep, ServingOK
<1>11. SyncTypeOK'
  BY <1>2, <1>10, HostTypes
<1>12. Imported' = Imported /\ \A d \in Clients : Answered(d)' <=> Answered(d)
  BY <1>2 DEF Imported, Answered
<1>13. serverAt' = "import" =>
         /\ c \notin Imported /\ client[c] \notin {"idle", "send", "end"}
         /\ \A k \in 1..Len(toServer'[c]) : toServer'[c][k] # "end"
         /\ left'[Host] = NamesOf(request[c])
  <2> SUFFICES ASSUME serverAt' = "import" PROVE
         /\ c \notin Imported /\ client[c] \notin {"idle", "send", "end"}
         /\ \A k \in 1..Len(toServer'[c]) : toServer'[c][k] # "end"
         /\ left'[Host] = NamesOf(request[c])
    OBVIOUS
  <2>1. toServer[c] # <<>> /\ toServer[c][1] = "end" /\ toServer'[c] = Tail(toServer[c])
        /\ left'[Host] = NamesOf(request[c])
    BY <1>1, <1>3, <1>5, <1>6 DEF SyncTypes
  <2>2. Len(toServer[c]) = 1 /\ client[c] \notin {"idle", "send", "end"} /\ c \notin Imported
    BY <1>4, <1>6, <2>1 DEF SendsOnce
  <2>3. Len(toServer'[c]) = 0
    BY <1>6, <2>1, <2>2
  <2> QED BY <2>1, <2>2, <2>3
<1>14. ASSUME NEW d \in Clients PROVE SendsOnce(d)' /\ NotYet(d)' /\ Writes(d)'
  <2>1. left'[d] = left[d] /\ has'[d] = has[d]
    BY <1>1, <1>2, <1>5, SyncAssumption DEF SyncTypes, Machines
  <2>2. CASE d # c
    <3>1. toServer'[d] = toServer[d] /\ serving' # d
      BY <1>0, <1>1, <1>2, <1>5, <2>2 DEF SyncTypes
    <3> QED BY <1>2, <1>12, <2>1, <3>1, OthersKeep
  <2>3. CASE d = c
    <3>1. SendsOnce(c)'
      <4>1. client[c] \in {"idle", "send"} => toServer'[c] = <<>>
        BY <1>4, <1>8 DEF SendsOnce
      <4>2. \A k \in 1..Len(toServer'[c]) :
              /\ toServer'[c][k] = "empty" <=> request[c] = NoPresets
              /\ toServer'[c][k] = "end" =>
                   /\ k = Len(toServer'[c])
                   /\ client[c] \notin {"idle", "send", "end"} /\ c \notin Imported
        BY <1>4, <1>9 DEF SendsOnce
      <4> QED BY <1>2, <1>4, <1>12, <1>13, <4>1, <4>2 DEF SendsOnce
    <3>2. NotYet(c)'
      BY <1>2, <1>3, <1>4, <1>12 DEF NotYet
    <3>3. Writes(c)'
      BY <1>2, <1>3, <1>4, <1>12, <2>1, <2>3 DEF Writes
    <3> QED BY <2>3, <3>1, <3>2, <3>3
  <2> QED BY <2>2, <2>3
<1>15. serverAt' \in Busy /\ serving' = c /\ c = serving
  BY <1>0, <1>2, <1>5 DEF Busy
<1>16. ServingOK'
  <2>1. serverAt' = "send" => request[c] = NoPresets \/ conn[c] # "open"
    BY <1>4, <1>5, <1>6 DEF SendsOnce
  <2>2. /\ Answered(c)' => response[c] = toSend
        /\ \A k \in 1..Len(handled) :
             IF handled[k] = c THEN k = Len(handled)
             ELSE NamesOf(request[handled[k]]) \subseteq NamesOf(toSend)
    BY <1>1, <1>3, <1>12, <1>15 DEF ServingOK
  <2> QED BY <1>2, <1>3, <1>12, <1>15, <2>1, <2>2 DEF ServingOK, NamesOf
<1>17. HostOK'
  <2>1. \A n \in Names : LastImport(n)
    BY <1>1, <1>2 DEF HostOK
  <2>2. \A n \in Names : LastImport(n)'
    BY <1>2, <2>1 DEF LastImport
  <2>3. serverAt' = "import" => left'[Host] = NamesOf(request'[serving'])
    BY <1>2, <1>13, <1>15
  <2> QED BY <1>1, <1>2, <2>2, <2>3 DEF HostOK, NamesOf
<1>18. Reaches'
  <2>1. \A k \in 1..Len(handled) : Answered(handled[k])' => Answered(handled[k])
    BY <1>2, <1>12, ImportedOnce
  <2> QED BY <1>1, <1>2, <2>1 DEF Reaches, NamesOf
<1> QED BY <1>11, <1>14, <1>16, <1>17, <1>18 DEF SyncInv

\* import_presets_from_json at the host: when the last preset has been written the
\* client counts as imported, and the versions it sent are the ones the host has.
LEMMA HostImportKeeps ==
  ASSUME SyncInv, ServerImport
  PROVE  SyncInv'
<1> USE DEF netVars, clientVars, serverVars, windowVars
<1>1. SyncTypes /\ ServingOK /\ HostOK /\ Reaches /\ Host \in Machines
  BY SyncTypesOf DEF SyncInv, Machines
<1>2. /\ UNCHANGED <<conn, toServer, toClient, waiting, client, request, response, synced, serving, toSend>>
      /\ serverAt = "import"
  BY DEF ServerImport
<1>0. PICK c : c = serving
  OBVIOUS
<1>3. c \in Clients /\ c # None /\ c # Host /\ serving' = c
  BY <1>0, <1>1, <1>2, SyncAssumption DEF SyncTypes, ServingOK, Busy
<1>4. SendsOnce(c) /\ NotYet(c) /\ Writes(c)
  BY <1>3 DEF SyncInv
<1>5. PICK x \in left[Host] :
        /\ has' = [has EXCEPT ![Host][x] = request[c][x]]
        /\ left' = [left EXCEPT ![Host] = @ \ {x}]
  BY <1>0 DEF ServerImport
<1>6. x \in Names /\ request[c][x] = c /\ left[Host] \subseteq NamesOf(request[c])
  BY <1>0, <1>1, <1>2, <1>4, <1>5 DEF HostOK, NamesOf, Writes
<1>7. request[c] # NoPresets
  BY <1>3, <1>6 DEF NoPresets
<1>8. c \notin Imported /\ ~Answered(c)
  BY <1>0, <1>2, <1>4, <1>7 DEF SendsOnce, Writes
<1>9. left'[Host] = left[Host] \ {x} /\ has'[Host] \in Presets
      /\ \A n \in Names : has'[Host][n] = IF n = x THEN c ELSE has[Host][n]
  <2>1. has[Host] \in Presets
    BY <1>1 DEF SyncTypes
  <2>2. has'[Host] = [has[Host] EXCEPT ![x] = c] /\ left'[Host] = left[Host] \ {x}
    BY <1>1, <1>5, <1>6 DEF SyncTypes
  <2>3. c \in Machines
    BY <1>3 DEF Machines
  <2> QED BY <1>6, <2>1, <2>2, <2>3 DEF Presets
<1>10. handled \in Seq(Clients) /\ Len(handled) \in Nat
       /\ (\A k \in 1..Len(handled) : handled[k] \in Clients /\ handled[k] # c)
       /\ \A j, k \in 1..Len(handled) : handled[j] = handled[k] => j = k
  BY <1>1, <1>8, ImportedOnce DEF SyncTypes, Imported
<1>11. \/ left'[Host] # {} /\ serverAt' = "import" /\ handled' = handled
       \/ left'[Host] = {} /\ serverAt' = "send" /\ handled' = Append(handled, c)
  BY <1>0, <1>2 DEF ServerImport
<1>12. SyncTypes'
  BY <1>1, ServerTyped DEF ServerStep, ServingOK
<1>13. \A d \in Clients : (Answered(d)' <=> Answered(d)) /\ has'[d] = has[d] /\ left'[d] = left[d]
  BY <1>1, <1>2, <1>5, SyncAssumption DEF Answered, SyncTypes, Machines
<1>14. /\ \A n \in Names : n # x /\ LastImport(n) =>
              \/ /\ has'[Host][n] \in {Host, None}
                 /\ \A k \in 1..Len(handled) : request[handled[k]][n] = None
              \/ \E k \in 1..Len(handled) :
                   /\ request[handled[k]][n] # None
                   /\ has'[Host][n] = handled[k]
                   /\ \A j \in 1..Len(handled) : j > k => request[handled[j]][n] = None
       /\ \A k \in 1..Len(handled) : NamesOf(request[handled[k]]) \subseteq NamesOf(has'[Host])
       /\ \A n \in Names :
            IF n \in NamesOf(request[c]) \ left'[Host] THEN has'[Host][n] = c
            ELSE n # x /\ LastImport(n)
  <2>1. \A n \in Names : IF n \in NamesOf(request[c]) \ left[Host] THEN has[Host][n] = c ELSE LastImport(n)
    BY <1>0, <1>1, <1>2 DEF HostOK
  <2>2. x \in NamesOf(request[c])
    BY <1>5, <1>6
  <2>3. \A n \in Names :
            IF n \in NamesOf(request[c]) \ left'[Host] THEN has'[Host][n] = c
            ELSE n # x /\ LastImport(n)
    BY <1>9, <2>1, <2>2
  <2>4. \A k \in 1..Len(handled) : NamesOf(request[handled[k]]) \subseteq NamesOf(has'[Host])
    BY <1>1, <1>3, <1>9 DEF HostOK, NamesOf
  <2> QED BY <1>9, <2>3, <2>4 DEF LastImport
<1>15. CASE left'[Host] # {}
  <2>1. serverAt' = "import" /\ handled' = handled
    BY <1>11, <1>15
  <2>2. SyncTypeOK'
    BY <1>12, <2>1, HostTypes
  <2>3. Imported' = Imported
    BY <2>1 DEF Imported
  <2>4. ASSUME NEW d \in Clients PROVE SendsOnce(d)' /\ NotYet(d)' /\ Writes(d)'
    BY <1>2, <1>13, <2>1, <2>3, OthersKeep
  <2>5. ServingOK'
    <3>1. Answered(c)' <=> Answered(c)
      BY <1>3, <1>13
    <3> QED BY <1>0, <1>1, <1>2, <1>3, <1>8, <2>1, <3>1 DEF ServingOK, Busy, NamesOf
  <2>6. HostOK'
    <3>1. \A n \in Names : n # x /\ LastImport(n) => LastImport(n)'
      BY <1>2, <1>14, <2>1 DEF LastImport
    <3>2. left'[Host] \subseteq NamesOf(request'[serving'])
      BY <1>2, <1>3, <1>6, <1>9
    <3>3. \A n \in Names :
            IF n \in NamesOf(request'[serving']) \ left'[Host]
            THEN has'[Host][n] = serving' ELSE LastImport(n)'
      BY <1>2, <1>3, <1>14, <3>1
    <3> QED BY <1>2, <1>14, <2>1, <3>2, <3>3 DEF HostOK, NamesOf
  <2>7. Reaches'
    <3>1. \A k \in 1..Len(handled) : Answered(handled[k])' => Answered(handled[k])
      BY <1>10, <1>13, <2>1
    <3> QED BY <1>1, <1>2, <2>1, <3>1 DEF Reaches, NamesOf
  <2> QED BY <2>2, <2>4, <2>5, <2>6, <2>7 DEF SyncInv
<1>16. CASE left'[Host] = {}
  <2>1. serverAt' = "send" /\ handled' = Append(handled, c)
    BY <1>11, <1>16
  <2>2. /\ Len(handled') = Len(handled) + 1 /\ handled'[Len(handled) + 1] = c
        /\ \A k \in 1..Len(handled) : handled'[k] = handled[k]
    BY <1>3, <1>10, <2>1
  <2>3. ASSUME NEW k \in 1..Len(handled')
        PROVE  \/ k \in 1..Len(handled) /\ handled'[k] = handled[k] /\ handled'[k] # c
               \/ k = Len(handled) + 1 /\ handled'[k] = c
    BY <1>10, <2>2
  <2>4. \A k \in 1..Len(handled) : k \in 1..Len(handled')
    BY <1>10, <2>2
  <2>5. Imported' = Imported \cup {c}
    <3>1. Len(handled) + 1 \in 1..Len(handled')
      BY <1>10, <2>2
    <3> QED BY <2>2, <2>3, <2>4, <3>1 DEF Imported
  <2>6. SyncTypeOK'
    <3>1. handled' \in Seq(Clients)
      BY <1>12 DEF SyncTypes
    <3>2. \A j, k \in 1..Len(handled') : handled'[j] = handled'[k] => j = k
      BY <1>10, <2>3
    <3>3. IsInjective(handled')
      BY <3>1, <3>2 DEF IsInjective
    <3> QED BY <1>12, <3>3 DEF SyncTypeOK, SyncTypes, MessageParts
  <2>7. ASSUME NEW d \in Clients PROVE SendsOnce(d)' /\ NotYet(d)' /\ Writes(d)'
    <3>1. CASE d # c
      <4>1. (d \in Imported' <=> d \in Imported) /\ serverAt' # "import"
        BY <2>1, <2>5, <3>1
      <4> QED BY <1>2, <1>13, <4>1, OthersKeep
    <3>2. CASE d = c
      <4>1. c # serving' => FALSE
        BY <1>3
      <4>2. SendsOnce(c)'
        BY <1>0, <1>2, <1>4, <2>1 DEF SendsOnce
      <4>3. NotYet(c)'
        BY <1>0, <1>2, <1>3, <1>4, <1>13 DEF NotYet
      <4>4. Writes(c)'
        BY <1>2, <1>3, <1>4, <1>13, <2>5 DEF Writes
      <4> QED BY <3>2, <4>2, <4>3, <4>4
    <3> QED BY <3>1, <3>2
  <2>8. ServingOK'
    <3>1. Answered(c)' <=> Answered(c)
      BY <1>3, <1>13
    <3>2. \A k \in 1..Len(handled') :
            IF handled'[k] = c THEN k = Len(handled')
            ELSE NamesOf(request[handled'[k]]) \subseteq NamesOf(toSend)
      BY <1>0, <1>1, <1>3, <2>2, <2>3 DEF ServingOK
    <3> QED BY <1>0, <1>2, <1>3, <1>8, <2>1, <2>5, <3>1, <3>2 DEF ServingOK, Busy, NamesOf
  <2>9. HostOK'
    <3>1. ASSUME NEW n \in Names PROVE LastImport(n)'
      <4>1. CASE n \in NamesOf(request[c])
        <5>1. has'[Host][n] = c
          BY <1>14, <1>16, <4>1
        <5>2. Len(handled) + 1 \in 1..Len(handled') /\ request[c][n] # None
          BY <1>10, <2>2, <4>1 DEF NamesOf
        <5>3. \A j \in 1..Len(handled') : ~(j > Len(handled) + 1)
          BY <1>10, <2>2
        <5> QED BY <1>2, <2>2, <5>1, <5>2, <5>3 DEF LastImport
      <4>2. CASE n \notin NamesOf(request[c])
        <5>1. request[c][n] = None
          BY <4>2 DEF NamesOf
        <5>2. n # x /\ LastImport(n)
          BY <1>14, <4>2
        <5>3. CASE /\ has'[Host][n] \in {Host, None}
                   /\ \A k \in 1..Len(handled) : request[handled[k]][n] = None
          BY <1>2, <2>3, <5>1, <5>3 DEF LastImport
        <5>4. ASSUME NEW k \in 1..Len(handled),
                     request[handled[k]][n] # None, has'[Host][n] = handled[k],
                     \A j \in 1..Len(handled) : j > k => request[handled[j]][n] = None
              PROVE  LastImport(n)'
          <6>1. k \in 1..Len(handled') /\ handled'[k] = handled[k]
            BY <2>2, <2>4
          <6>2. \A j \in 1..Len(handled') : j > k => request[handled'[j]][n] = None
            BY <2>3, <5>1, <5>4
          <6> QED BY <1>2, <5>4, <6>1, <6>2 DEF LastImport
        <5> QED BY <1>14, <5>2, <5>3, <5>4
      <4> QED BY <4>1, <4>2
    <3>2. NamesOf(request[c]) \subseteq NamesOf(has'[Host])
      BY <1>3, <1>14, <1>16 DEF NamesOf
    <3>3. \A k \in 1..Len(handled') : NamesOf(request[handled'[k]]) \subseteq NamesOf(has'[Host])
      BY <1>14, <2>3, <3>2
    <3> QED BY <1>2, <2>1, <3>1, <3>3 DEF HostOK, NamesOf
  <2>10. Reaches'
    <3> SUFFICES ASSUME NEW j \in 1..Len(handled'), NEW k \in 1..Len(handled'),
                        j < k, Answered(handled[k])'
                 PROVE  NamesOf(request'[handled'[j]]) \subseteq NamesOf(response'[handled'[k]])
      BY DEF Reaches, NamesOf
    <3>1. handled'[k] # c
      BY <1>3, <1>8, <1>13
    <3>2. k \in 1..Len(handled) /\ handled'[k] = handled[k]
      BY <2>3, <3>1
    <3>3. j \in 1..Len(handled) /\ handled'[j] = handled[j]
      BY <1>10, <2>2, <3>2
    <3>4. Answered(handled[k])
      BY <1>10, <1>13, <3>2
    <3> QED BY <1>1, <1>2, <3>2, <3>3, <3>4 DEF Reaches
  <2> QED BY <2>6, <2>7, <2>8, <2>9, <2>10 DEF SyncInv
<1> QED BY <1>15, <1>16

\* send_response: whoever gets presets has been imported, and gets what was there
\* when it was accepted.
LEMMA AnswerKeeps ==
  ASSUME SyncInv, ServerSend
  PROVE  SyncInv'
<1> USE DEF netVars, clientVars, serverVars, windowVars
<1>1. SyncTypes /\ ServingOK /\ HostOK /\ Reaches
  BY SyncTypesOf DEF SyncInv
<1>2. /\ UNCHANGED <<has, toServer, waiting, client, request, synced, serving, toSend, handled, left>>
      /\ serverAt = "send" /\ serverAt' = "recv"
  BY DEF ServerSend
<1>0. PICK c : c = serving
  OBVIOUS
<1>3. c \in Clients /\ c # None /\ serving' = c
  BY <1>0, <1>1, <1>2, SyncAssumption DEF SyncTypes, ServingOK, Busy
<1>4. SendsOnce(c) /\ NotYet(c) /\ Writes(c) /\ client[c] # "idle" /\ c \notin waiting
  <2>1. SendsOnce(c) /\ NotYet(c) /\ Writes(c)
    BY <1>3 DEF SyncInv
  <2> QED BY <1>0, <2>1 DEF NotYet
<1>5. \/ /\ conn[c] = "open" /\ conn' = conn
         /\ toClient' = [toClient EXCEPT ![c] = @ \o Message(toSend)]
         /\ response' = [response EXCEPT ![c] = toSend]
      \/ conn' = [conn EXCEPT ![c] = "poked"] /\ toClient' = toClient /\ response' = response
  BY <1>0 DEF ServerSend
<1>6. SyncTypes'
  BY <1>1, ServerTyped DEF ServerStep, ServingOK
<1>7. SyncTypeOK'
  BY <1>2, <1>6, HostTypes
<1>8. Imported' = Imported
  BY <1>2 DEF Imported
<1>9. ASSUME NEW d \in Clients, d # c
      PROVE  toClient'[d] = toClient[d] /\ response'[d] = response[d] /\ (Answered(d)' <=> Answered(d))
  BY <1>1, <1>2, <1>5, <1>9 DEF SyncTypes, Answered
<1>10. response'[c] = response[c] \/ response'[c] = toSend
  BY <1>1, <1>3, <1>5 DEF SyncTypes
<1>11. Answered(c) => response[c] = toSend
  BY <1>0, <1>1, <1>3 DEF ServingOK
<1>12. Answered(c)' => response'[c] = toSend
  <2>1. CASE toClient' = toClient /\ response' = response
    BY <1>2, <1>11, <2>1 DEF Answered
  <2>2. CASE response' = [response EXCEPT ![c] = toSend]
    BY <1>1, <1>3, <2>2 DEF SyncTypes
  <2> QED BY <1>5, <2>1, <2>2
<1>13. Answered(c)' /\ request[c] # NoPresets => c \in Imported
  <2>1. CASE toClient' = toClient
    BY <1>2, <1>4, <2>1 DEF Answered, Writes
  <2>2. CASE conn[c] = "open"
    BY <1>0, <1>1, <1>2, <2>2 DEF ServingOK
  <2> QED BY <1>5, <2>1, <2>2
<1>14. ASSUME NEW d \in Clients PROVE SendsOnce(d)' /\ NotYet(d)' /\ Writes(d)'
  <2>1. CASE d # c
    BY <1>2, <1>8, <1>9, <2>1, OthersKeep
  <2>2. CASE d = c
    <3>1. SendsOnce(c)'
      BY <1>2, <1>4, <1>8 DEF SendsOnce
    <3>2. NotYet(c)'
      BY <1>2, <1>4 DEF NotYet
    <3>3. client[c] = "import" \/ c \in synced => response'[c] = response[c]
      BY <1>10, <1>11 DEF Answered
    <3>4. Writes(c)'
      BY <1>2, <1>4, <1>8, <1>13, <3>3 DEF Writes
    <3> QED BY <2>2, <3>1, <3>2, <3>4
  <2> QED BY <2>1, <2>2
<1>15. \A k \in 1..Len(handled) :
         IF handled[k] = c THEN k = Len(handled)
         ELSE NamesOf(request[handled[k]]) \subseteq NamesOf(toSend)
  BY <1>0, <1>1, <1>3 DEF ServingOK
<1>16. ServingOK'
  BY <1>0, <1>2, <1>3, <1>12, <1>15 DEF ServingOK, Busy, NamesOf
<1>17. HostOK'
  <2>1. \A n \in Names : LastImport(n)
    BY <1>1, <1>2 DEF HostOK
  <2>2. \A n \in Names : LastImport(n)'
    BY <1>2, <2>1 DEF LastImport
  <2> QED BY <1>1, <1>2, <2>2 DEF HostOK, NamesOf
<1>18. Reaches'
  <2> SUFFICES ASSUME NEW j \in 1..Len(handled), NEW k \in 1..Len(handled),
                      j < k, Answered(handled[k])'
               PROVE  NamesOf(request[handled[j]]) \subseteq NamesOf(response'[handled[k]])
    BY <1>2 DEF Reaches, NamesOf
  <2>1. handled[j] # handled[k] /\ handled[k] \in Clients
    BY ImportedOnce
  <2>2. CASE handled[k] = c
    BY <1>2, <1>12, <1>15, <2>1, <2>2
  <2>3. CASE handled[k] # c
    BY <1>1, <1>2, <1>9, <2>1, <2>3 DEF Reaches
  <2> QED BY <2>2, <2>3
<1> QED BY <1>7, <1>14, <1>16, <1>17, <1>18 DEF SyncInv

\* Every step keeps the invariant.
LEMMA SyncInvStep == SyncInv /\ [SyncNext]_syncVars => SyncInv'
<1> SUFFICES ASSUME SyncInv, [SyncNext]_syncVars PROVE SyncInv'
  OBVIOUS
<1>1. ASSUME NEW c \in Clients, Connect(c) \/ Crash(c) \/ ClientStep(c) \/ Reset(c) PROVE SyncInv'
  BY <1>1, ClientKeeps
<1>2. CASE ServerStep
  BY <1>2, QuietKeeps, AcceptKeeps, SendFailsKeeps, RequestKeeps, HostImportKeeps, AnswerKeeps
     DEF ServerStep
<1>3. CASE CloseSocket \/ Join \/ UNCHANGED syncVars
  BY <1>3, QuietKeeps
<1> QED BY <1>1, <1>2, <1>3 DEF SyncNext

\* The types of what the two sides keep; no client is imported twice.
THEOREM SyncTyped == SyncSpec => []SyncTypeOK
<1>1. SyncInv => SyncTypeOK
  BY DEF SyncInv
<1> QED BY <1>1, SyncInvInit, SyncInvStep, PTL DEF SyncSpec

\* Whoever has been answered has been imported (server.cc:130 before 143).
THEOREM AnsweredIsImported == SyncSpec => []AnswerMeansImported
<1>1. ASSUME SyncInv PROVE AnswerMeansImported
  <2>1. \A c \in Clients : toClient[c] # <<>> /\ request[c] # NoPresets => c \in Imported
    BY <1>1 DEF SyncInv, Writes, Answered
  <2> QED BY <2>1 DEF AnswerMeansImported, Imported, Contains
<1> QED BY <1>1, SyncInvInit, SyncInvStep, PTL DEF SyncSpec

\* Between two imports the host has the versions of the last client that sent one.
THEOREM HostHasLast == SyncSpec => []HostHasLastImport
<1>1. ASSUME SyncInv PROVE HostHasLastImport
  <2> SUFFICES ASSUME serverAt # "import", NEW n \in Names
               PROVE  LET senders == {k \in 1..Len(handled) : request[handled[k]][n] # None} IN
                      IF senders = {} THEN has[Host][n] \in {Host, None}
                                      ELSE has[Host][n] = handled[Max(senders)]
    BY DEF HostHasLastImport
  <2> DEFINE senders == {k \in 1..Len(handled) : request[handled[k]][n] # None}
  <2>1. LastImport(n)
    BY <1>1 DEF SyncInv, HostOK
  <2>2. CASE /\ has[Host][n] \in {Host, None}
             /\ \A k \in 1..Len(handled) : request[handled[k]][n] = None
    BY <2>2
  <2>3. ASSUME NEW k \in 1..Len(handled),
               request[handled[k]][n] # None, has[Host][n] = handled[k],
               \A j \in 1..Len(handled) : j > k => request[handled[j]][n] = None
        PROVE  senders # {} /\ has[Host][n] = handled[Max(senders)]
    <3>1. k \in senders /\ senders \subseteq Int
      BY <2>3
    <3>2. \A j \in senders : k >= j
      BY <2>3
    <3> HIDE DEF senders
    <3>3. \A m \in senders : (\A j \in senders : m >= j) => m = k
      BY <3>1, <3>2
    <3>4. Max(senders) = k
      BY <3>1, <3>2, <3>3, Zenon DEF Max
    <3> QED BY <2>3, <3>1, <3>4
  <2> QED BY <2>1, <2>2, <2>3 DEF LastImport
<1> QED BY <1>1, SyncInvInit, SyncInvStep, PTL DEF SyncSpec

\* Presets reach the clients that are served later (server.cc:104).
THEOREM LaterClientsHaveThem == SyncSpec => []EarlierReachLater
<1>1. ASSUME SyncInv PROVE EarlierReachLater
  <2> SUFFICES ASSUME NEW j \in 1..Len(handled), NEW k \in 1..Len(handled),
                      j < k, handled[k] \in synced
               PROVE  NamesOf(request[handled[j]]) \subseteq NamesOf(has[handled[k]])
    BY DEF EarlierReachLater
  <2>1. handled[k] \in Clients
    BY <1>1, ImportedOnce
  <2>2. NamesOf(request[handled[j]]) \subseteq NamesOf(response[handled[k]])
    BY <1>1 DEF SyncInv, Reaches, Answered
  <2>3. NamesOf(response[handled[k]]) \subseteq NamesOf(has[handled[k]])
    BY <1>1, <2>1 DEF SyncInv, Writes
  <2> QED BY <2>2, <2>3
<1> QED BY <1>1, SyncInvInit, SyncInvStep, PTL DEF SyncSpec
===============================================================================
