------------------------------- MODULE Plugins -------------------------------
(***************************************************************************)
(* One exporter plugin: its row, its shared object on disk and the builds  *)
(* of it, internal/exporter/loader.go and internal/grpc/plugin-handlers.go. *)
(* A build takes minutes and holds no lock: requests may build the same    *)
(* plugin at once, in one work directory, while others edit or delete the  *)
(* row, and the process may die at any step.  At the next boot the plugins *)
(* of the config are imported and the installed ones verified before       *)
(* requests are served; the install directory may have been wiped.         *)
(*                                                                         *)
(* The name of the plugin, and with it the paths, stays as it is.          *)
(***************************************************************************)
EXTENDS Naturals, FiniteSets

CONSTANTS
    Source,        \* git repositories and refs
    NoSource,      \* a row without a git url
    NoFile,        \* there is no such file
    Partial,       \* the file is not written to its end
    Declared,      \* what the server config may declare at a boot, or NoSource
    Request        \* goroutines that serve InstallPlugin

ASSUME PluginsAssumption ==
    /\ NoSource \notin Source /\ NoFile \notin Source /\ Partial \notin Source
    /\ NoFile # Partial
    /\ Declared \subseteq Source \cup {NoSource}
    /\ "boot" \notin Request

\* Builds run in the goroutines of requests, and at boot.
Installer == Request \cup {"boot"}

VARIABLES
    phase,    \* how far the process has come
    row,      \* whether the plugin's row exists
    source,   \* its git_url and git_ref
    status,   \* its status column
    soPath,   \* whether its so_path is set
    schema,   \* the source whose config_schema is in the row
    file,     \* the shared object in the install directory
    work,     \* the clone in the build directory
    built,    \* built.so in the build directory
    image,    \* the shared object that the process has opened
    step,     \* step[i]: where install i is
    snap,     \* snap[i]: the source it builds, the object it copies, the schema it read
    edit,     \* the row an unfinished UpdatePlugin will save
    crossed,  \* history: an install overlapped another one or an edit
    lost      \* history: a call of the database failed unnoticed

rowVars == <<row, source, status, soPath, schema>>
diskVars == <<file, work, built, image>>
installVars == <<step, snap>>
history == <<crossed, lost>>
vars == <<phase, row, source, status, soPath, schema, file, work, built, image, step, snap, edit,
          crossed, lost>>

\* Between "down" and "serving" the plugins are imported, then verified.
Phase == {"down", "import", "importing", "verify", "verifying", "serving"}
Status == {"NOT_INSTALLED", "INSTALLING", "INSTALLED", "FAILED"}
Step == {"idle", "read", "mark", "clone", "build", "open", "copy", "schema",
         "record", "fail"}

Row == [row : {"none", "live", "deleted"}, source : Source \cup {NoSource},
        status : Status, soPath : BOOLEAN, schema : Source \cup {NoSource}]

TypeOK ==
    /\ phase \in Phase
    /\ [row |-> row, source |-> source, status |-> status, soPath |-> soPath,
        schema |-> schema] \in Row
    /\ file \in Source \cup {NoFile, Partial}
    /\ work \in Source \cup {NoFile} /\ built \in Source \cup {NoFile}
    /\ image \in Source \cup {NoFile, Partial}
    /\ step \in [Installer -> Step]
    /\ snap \in [Installer -> Source \cup {NoSource}]
    /\ edit \in [open : BOOLEAN, source : Source \cup {NoSource}, status : Status,
                 soPath : BOOLEAN, schema : Source \cup {NoSource}]
    /\ crossed \in BOOLEAN /\ lost \in BOOLEAN

NoEdit == [open |-> FALSE, source |-> NoSource, status |-> "FAILED", soPath |-> FALSE,
           schema |-> NoSource]

Init ==
    /\ phase = "down"
    /\ row = "none" /\ source = NoSource /\ status = "NOT_INSTALLED" /\ soPath = FALSE
    /\ schema = NoSource
    /\ file = NoFile /\ work = NoFile /\ built = NoFile /\ image = NoFile
    /\ step = [i \in Installer |-> "idle"]
    /\ snap = [i \in Installer |-> NoSource]
    /\ edit = NoEdit
    /\ crossed = FALSE /\ lost = FALSE

Active(i) == step[i] # "idle"

-----------------------------------------------------------------------------
(* InstallPlugin.                                                          *)

\* The update of the columns of a row takes place, changes nothing because the
\* row is deleted, or fails, and the error is ignored.
Updates(newStatus, newPath, newSchema) ==
    \/ /\ status' = IF row = "live" THEN newStatus ELSE status
       /\ soPath' = IF row = "live" THEN newPath ELSE soPath
       /\ schema' = IF row = "live" THEN newSchema ELSE schema
       /\ lost' = lost
    \/ lost' = TRUE /\ UNCHANGED <<status, soPath, schema>>

Goes(i, from, to) ==
    /\ step[i] = from
    /\ step' = [step EXCEPT ![i] = to]

fileExists == file # NoFile

\* The row is read: it is not found, or the plugin is installed, or it is built.
InstallReads(i) ==
    /\ LET skip == row # "live" \/ (status = "INSTALLED" /\ soPath /\ fileExists) IN
        /\ Goes(i, "read", IF skip THEN "idle" ELSE "mark")
        /\ snap' = IF skip THEN snap ELSE [snap EXCEPT ![i] = source]
    /\ crossed' = (crossed \/ edit.open \/ \E j \in Installer \ {i} : Active(j))
    /\ UNCHANGED <<phase, rowVars, diskVars, edit, lost>>

InstallMarks(i) ==
    /\ Goes(i, "mark", "clone")
    /\ Updates("INSTALLING", soPath, schema)
    /\ UNCHANGED <<phase, row, source, diskVars, snap, edit, crossed>>

\* Mutant: a clone that is already there is kept.
KeepsClone(i) ==
    /\ snap[i] # NoSource
    /\ Goes(i, "clone", "build")
    /\ work' = IF work = NoFile THEN snap[i] ELSE work
    /\ UNCHANGED <<phase, rowVars, file, built, image, snap, edit, history>>

\* cloneRepo empties the build directory and clones.
cloneRepo(i) ==
    /\ snap[i] # NoSource
    /\ Goes(i, "clone", "build")
    /\ work' = snap[i] /\ built' = NoFile
    /\ UNCHANGED <<phase, rowVars, file, image, snap, edit, history>>

buildPlugin(i) ==
    /\ work # NoFile
    /\ Goes(i, "build", "open")
    /\ built' = work
    /\ UNCHANGED <<phase, rowVars, file, work, image, snap, edit, history>>

\* copyFile opens the object that was built and truncates the installed one, in
\* place: an image the process has mapped from it may be spoilt ...
copyFileOpens(i) ==
    /\ built # NoFile
    /\ Goes(i, "open", "copy")
    /\ file' = Partial
    /\ image' \in {image} \cup (IF image = NoFile THEN {} ELSE {Partial})
    /\ snap' = [snap EXCEPT ![i] = built]
    /\ UNCHANGED <<phase, rowVars, work, built, edit, history>>

\* ... and copies; two copies to one file at once may leave a mixture.
copyFile(i) ==
    /\ Goes(i, "copy", "schema")
    /\ file' \in IF \E j \in Installer \ {i} : step[j] = "copy" THEN {snap[i], Partial}
                 ELSE {snap[i]}
    /\ UNCHANGED <<phase, rowVars, work, built, image, snap, edit, history>>

\* openPlugin: the image of a file the process has opened before is returned, and
\* otherwise the file is opened if it is whole.
openPlugin == image' = IF image = NoFile /\ file \in Source THEN file ELSE image

\* The new object is opened for its schema, which every source declares; none is
\* recorded when it cannot be opened.
extractConfigSchema(i) ==
    /\ Goes(i, "schema", "record")
    /\ openPlugin
    /\ snap' = [snap EXCEPT ![i] = IF image' \in Source THEN image' ELSE NoSource]
    /\ UNCHANGED <<phase, rowVars, file, work, built, edit, history>>

\* Any step of the build fails, after the directory was emptied.
BuildFails(i) ==
    /\ step[i] \in {"clone", "build", "open", "copy"}
    /\ Goes(i, step[i], "fail")
    /\ \/ UNCHANGED <<work, built>>
       \/ step[i] = "clone" /\ work' = NoFile /\ built' = NoFile
    /\ UNCHANGED <<phase, rowVars, file, image, snap, edit, history>>

Ends(i, from) ==
    /\ Goes(i, from, "idle")
    /\ snap' = [snap EXCEPT ![i] = NoSource]

InstallFails(i) ==
    /\ Ends(i, "fail")
    /\ Updates("FAILED", soPath, schema)
    /\ UNCHANGED <<phase, row, source, diskVars, edit, crossed>>

\* Mutant: the content is recorded in the place of the path.
InstallRecordsContent(i) ==
    /\ Ends(i, "record")
    /\ Updates("INSTALLED", snap[i], snap[i])
    /\ UNCHANGED <<phase, row, source, diskVars, edit, crossed>>

InstallRecords(i) ==
    /\ Ends(i, "record")
    /\ Updates("INSTALLED", TRUE, snap[i])
    /\ UNCHANGED <<phase, row, source, diskVars, edit, crossed>>

-----------------------------------------------------------------------------
(* Boot.                                                                   *)

Boot ==
    /\ phase = "down"
    /\ phase' = "import"
    /\ UNCHANGED <<rowVars, diskVars, installVars, edit, history>>

StartsInstall == step' = [step EXCEPT !["boot"] = "read"]

\* ImportConfigPlugins, declared being the plugin's source in the config: it is
\* created if there is none, and installed unless it is.
ImportConfigPlugins(declared) ==
    /\ phase = "import"
    /\ IF declared = NoSource \/ (row = "live" /\ status = "INSTALLED")
       THEN phase' = "verify" /\ UNCHANGED <<rowVars, step>>
       ELSE /\ phase' = "importing"
            /\ StartsInstall
            /\ IF row = "live" THEN UNCHANGED rowVars
               ELSE /\ row' = "live" /\ source' = declared
                    /\ status' = "NOT_INSTALLED" /\ soPath' = FALSE
                    /\ schema' = NoSource
    /\ UNCHANGED <<diskVars, snap, edit, history>>

\* Mutant: the file is not looked for.
LacksFileNever == row = "live" /\ status \in {"INSTALLED", "INSTALLING"} /\ ~soPath

\* Mutant: only installed plugins are looked at.
LacksFileIfInstalled == row = "live" /\ status = "INSTALLED" /\ ~(soPath /\ fileExists)

\* A plugin that is to be usable, the boot finds, has no shared object.
LacksFile ==
    /\ row = "live"
    /\ status \in {"INSTALLED", "INSTALLING"}
    /\ ~(soPath /\ fileExists)

\* VerifyPlugins: the plugin is built again, or marked when it has no source.
VerifyPlugins ==
    /\ phase = "verify"
    /\ IF LacksFile /\ source # NoSource
       THEN phase' = "verifying" /\ StartsInstall /\ UNCHANGED <<status, soPath, schema, lost>>
       ELSE /\ phase' = "serving" /\ step' = step
            /\ IF LacksFile THEN Updates("FAILED", FALSE, schema)
               ELSE UNCHANGED <<status, soPath, schema, lost>>
    /\ UNCHANGED <<row, source, diskVars, snap, edit, crossed>>

\* The install at boot has returned, with or without an error.
BootGoesOn ==
    /\ phase \in {"importing", "verifying"}
    /\ ~Active("boot")
    /\ phase' = IF phase = "importing" THEN "verify" ELSE "serving"
    /\ UNCHANGED <<rowVars, diskVars, installVars, edit, history>>

\* The rows cannot be read: the boot goes on without.
BootReadFails ==
    /\ phase \in {"import", "verify"}
    /\ phase' = IF phase = "import" THEN "verify" ELSE "serving"
    /\ lost' = TRUE
    /\ UNCHANGED <<rowVars, diskVars, installVars, edit, crossed>>

\* The process dies; the install directory may not outlive it, and what is in the
\* build directory is removed before it is used.
Crash ==
    /\ phase # "down"
    /\ phase' = "down"
    /\ file' \in {file, NoFile}
    /\ work' = NoFile /\ built' = NoFile /\ image' = NoFile
    /\ step' = [i \in Installer |-> "idle"]
    /\ snap' = [i \in Installer |-> NoSource]
    /\ edit' = NoEdit
    /\ UNCHANGED <<rowVars, history>>

-----------------------------------------------------------------------------
(* Requests.                                                               *)

RequestInstall(i) ==
    /\ phase = "serving"
    /\ Goes(i, "idle", "read")
    /\ UNCHANGED <<phase, rowVars, diskVars, snap, edit, history>>

CreatePlugin ==
    /\ phase = "serving"
    /\ row = "none"
    /\ row' = "live" /\ source' \in Source \cup {NoSource}
    /\ status' = "NOT_INSTALLED" /\ soPath' = FALSE /\ schema' = NoSource
    /\ UNCHANGED <<phase, diskVars, installVars, edit, history>>

\* DeletePlugin, when no exporter refers to the plugin.
DeletePlugin ==
    /\ phase = "serving"
    /\ row = "live"
    /\ row' = "deleted"
    /\ UNCHANGED <<phase, source, status, soPath, schema, diskVars, installVars, edit, history>>

\* The row UpdatePlugin saves: a changed source resets the others.
Edited(new) ==
    IF new = source
    THEN [open |-> TRUE, source |-> new, status |-> status, soPath |-> soPath, schema |-> schema]
    ELSE [NoEdit EXCEPT !.open = TRUE, !.source = new, !.status = "NOT_INSTALLED"]

\* UpdatePlugin, one at a time: the row is read ...
UpdateReads ==
    /\ phase = "serving"
    /\ row = "live"
    /\ ~edit.open
    /\ \E new \in Source \cup {NoSource} : edit' = Edited(new)
    /\ crossed' = (crossed \/ \E i \in Installer : Active(i))
    /\ UNCHANGED <<phase, rowVars, diskVars, installVars, lost>>

\* ... and saved with every column, or the save fails.
UpdateSaves ==
    /\ edit.open
    /\ edit' = NoEdit
    /\ \/ /\ row' = "live" /\ source' = edit.source
          /\ status' = edit.status /\ soPath' = edit.soPath
          /\ schema' = edit.schema
       \/ UNCHANGED rowVars
    /\ UNCHANGED <<phase, diskVars, installVars, history>>

\* An exporter that starts loads the plugin if the row says it is installed.
loadInstalledPlugin ==
    /\ phase = "serving"
    /\ row = "live" /\ status = "INSTALLED" /\ soPath
    /\ image = NoFile /\ openPlugin
    /\ UNCHANGED <<phase, rowVars, file, work, built, installVars, edit, history>>

-----------------------------------------------------------------------------

Install(i) ==
    \/ InstallReads(i) \/ InstallMarks(i)
    \/ cloneRepo(i) \/ buildPlugin(i) \/ copyFileOpens(i) \/ copyFile(i)
    \/ extractConfigSchema(i)
    \/ BuildFails(i) \/ InstallFails(i) \/ InstallRecords(i)

Next ==
    \/ Boot \/ VerifyPlugins \/ BootGoesOn \/ BootReadFails \/ Crash
    \/ CreatePlugin \/ DeletePlugin \/ loadInstalledPlugin \/ UpdateReads \/ UpdateSaves
    \/ \E declared \in Declared : ImportConfigPlugins(declared)
    \/ \E i \in Request : RequestInstall(i)
    \/ \E i \in Installer : Install(i)

Spec == Init /\ [][Next]_vars

-----------------------------------------------------------------------------
(* Properties.                                                             *)

\* While requests are served, and exporters load plugins, one that the row says
\* is installed has a shared object on disk, whatever the last process was doing
\* when it died and whether or not the install directory outlived it.
InstalledHasFile ==
    phase = "serving" /\ row = "live" /\ status = "INSTALLED" /\ ~lost
        => soPath /\ fileExists

\* As long as installs overlap neither each other nor an edit, an installed
\* plugin's file is the build of the source the row names, to its last byte; or
\* the file was wiped and the next boot has not looked yet.
InstalledIsCurrent ==
    row = "live" /\ status = "INSTALLED" /\ ~crossed /\ ~lost => file \in {source, NoFile}

\* An install that a crash has cut off is taken up at the next boot, unless it
\* left a file behind.
CutOffInstallResumed ==
    phase = "serving" /\ row = "live" /\ status = "INSTALLING" /\ ~crossed /\ ~lost
    /\ (\A i \in Installer : ~Active(i))
        => soPath /\ fileExists

-----------------------------------------------------------------------------
(* What the documents say and the code does not do: TLC refutes each of     *)
(* these when it is added to a run.                                        *)

\* VerifyPlugins is about plugins "INSTALLED, or INSTALLING left stale by a crash
\* during a previous install": none is left INSTALLING once requests are served.
NoStaleInstalling ==
    ~(phase = "serving" /\ row = "live" /\ status = "INSTALLING" /\ ~crossed /\ ~lost
      /\ \A i \in Installer : ~Active(i))

\* InstallPlugin: "Changing the source (UpdatePlugin) resets Status and SoPath, so
\* this never blocks a legitimate rebuild."
RebuildNeverSkipped ==
    row = "live" /\ status = "INSTALLED" /\ soPath /\ file \in Source => file = source

\* "Editing the source resets it to NOT_INSTALLED -- reinstall to rebuild", and the
\* schema is "extracted from the plugin at install time".
SchemaIsCurrent ==
    row = "live" /\ status = "INSTALLED" /\ ~crossed /\ ~lost => schema \in {source, NoSource}

\* Exporters run what is installed.
ImageIsCurrent ==
    phase = "serving" /\ row = "live" /\ status = "INSTALLED" /\ ~crossed /\ ~lost
        => image \in {source, NoFile}

=============================================================================
