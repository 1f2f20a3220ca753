---------------------------- MODULE PluginsProofs ----------------------------
(***************************************************************************)
(* Proofs about Plugins, for any sources, declarations and requests.       *)
(*                                                                         *)
(* Once requests are served, what the row says of the shared object holds  *)
(* because the boot has repaired it: an install that runs while the boot   *)
(* verifies is the repair itself, and afterwards the object is never       *)
(* removed.  That it is the object of the row's source needs more: as long *)
(* as nothing has overlapped, a build is alone, beside no edit, so that    *)
(* what it reads from the work directory is what it made of that source,   *)
(* and the row says INSTALLING until it is done.                           *)
(***************************************************************************)
EXTENDS Plugins, TLAPS

\* Which installs run in which phase, and that edits are for requests.
PhaseInv ==
    /\ phase \in {"down", "import", "verify"} => \A i \in Installer : step[i] = "idle"
    /\ phase \in {"importing", "verifying"} => \A i \in Request : step[i] = "idle"
    /\ phase = "serving" => step["boot"] = "idle"
    /\ edit.open => phase = "serving"

\* An install past its look at the row.
Builds(i) == step[i] \notin {"idle", "read"}

\* What an install relies on, alone or not.
BuildInv ==
    \A i \in Installer :
        /\ Builds(i) => row # "none"
        /\ step[i] = "copy" => snap[i] \in Source
        /\ step[i] \in {"copy", "schema", "record"} => fileExists

\* As long as nothing has overlapped, a build is the only one, beside no edit ...
AloneInv ==
    ~crossed => \A i \in Installer : Builds(i) =>
        ~edit.open /\ \A j \in Installer \ {i} : ~Builds(j)

\* ... and what it has made so far is made of the source in the row.
SourceInv ==
    ~crossed => \A i \in Installer :
        /\ step[i] \in {"mark", "clone", "copy"} => snap[i] = source
        /\ step[i] = "build" => work = source
        /\ step[i] = "open" => built = source
        /\ step[i] \in {"schema", "record"} => file = source

\* The row an edit will save, and the row an install at boot is to repair.
FileInv ==
    ~lost =>
        /\ edit.open /\ edit.status = "INSTALLED" => edit.soPath /\ fileExists
        /\ phase = "verifying" /\ LacksFile =>
              /\ step["boot"] # "idle"
              /\ status = "INSTALLED" => step["boot"] \in {"read", "mark"}

\* An install that has marked the row.
Marked(i) == Builds(i) /\ step[i] # "mark"

StatusInv ==
    ~crossed /\ ~lost =>
        /\ row = "live" => \A i \in Installer : Marked(i) => status = "INSTALLING"
        /\ phase = "serving" /\ row = "live" /\ status = "INSTALLING" =>
              (soPath /\ fileExists) \/ \E i \in Installer : Marked(i)
        /\ edit.open /\ edit.status = "INSTALLING" => edit.soPath /\ fileExists
        /\ edit.open /\ edit.status = "INSTALLED" => file \in {edit.source, NoFile}

IInv ==
    /\ TypeOK /\ PhaseInv /\ BuildInv /\ AloneInv /\ SourceInv /\ FileInv /\ StatusInv
    /\ InstalledHasFile /\ InstalledIsCurrent

-----------------------------------------------------------------------------

\* The initial state satisfies the invariant.
LEMMA InitIInv == ASSUME PluginsAssumption, Init PROVE IInv
<1>1. TypeOK
  BY DEF Init, TypeOK, Row, Status, Phase, Step, NoEdit, Installer
<1>2. QED
  BY <1>1 DEF Init, NoEdit, IInv, PhaseInv, BuildInv, AloneInv, SourceInv, FileInv, StatusInv,
              Builds, Marked, LacksFile, InstalledHasFile, InstalledIsCurrent

\* Every install is one of a request or the boot's, and runs in the phase for it.
LEMMA InstallPhase ==
    ASSUME IInv, NEW i \in Installer, step[i] # "idle"
    PROVE  /\ i = "boot" => phase \in {"importing", "verifying"}
           /\ i # "boot" => phase = "serving"
BY DEF IInv, TypeOK, PhaseInv, Installer, Phase

\* The look of an install at the row keeps the invariant.
LEMMA ReadsKeeps ==
    ASSUME PluginsAssumption, IInv, NEW i \in Installer, InstallReads(i) PROVE IInv'
<1>1. /\ step[i] = "read"
      /\ UNCHANGED <<phase, row, source, status, soPath, schema, file, work, built, image, edit,
                     lost>>
      /\ crossed' = (crossed \/ edit.open \/ \E j \in Installer \ {i} : Active(j))
  BY DEF InstallReads, Goes, rowVars, diskVars
<1>2. \/ /\ row # "live" \/ (status = "INSTALLED" /\ soPath /\ fileExists)
         /\ step' = [step EXCEPT ![i] = "idle"] /\ snap' = snap
      \/ /\ row = "live" /\ ~(status = "INSTALLED" /\ soPath /\ fileExists)
         /\ step' = [step EXCEPT ![i] = "mark"]
         /\ snap' = [snap EXCEPT ![i] = source]
  BY DEF InstallReads, Goes
<1>3. TypeOK'
  BY <1>1, <1>2 DEF IInv, TypeOK, Step, Row
<1>4. PhaseInv'
  BY <1>1, <1>2 DEF IInv, TypeOK, PhaseInv, Installer
<1>5. BuildInv'
  BY <1>1, <1>2 DEF IInv, TypeOK, BuildInv, Builds, fileExists
<1>6. AloneInv'
  <2>1. ~crossed' => ~crossed /\ ~edit.open /\ \A j \in Installer \ {i} : step[j] = "idle"
    BY <1>1, Zenon DEF Active
  <2>2. ~crossed' => \A j \in Installer \ {i} : ~Builds(j)'
    BY <1>2, <2>1 DEF IInv, TypeOK, Builds
  <2>3. QED
    BY <1>1, <2>1, <2>2 DEF AloneInv
<1>7. SourceInv'
  BY <1>1, <1>2 DEF IInv, TypeOK, SourceInv
<1>8. FileInv'
  BY <1>1, <1>2 DEF IInv, TypeOK, FileInv, LacksFile, fileExists, Installer
<1>9. StatusInv'
  BY <1>1, <1>2 DEF IInv, TypeOK, StatusInv, Marked, Builds, fileExists
<1>10. InstalledHasFile' /\ InstalledIsCurrent'
  BY <1>1, <1>2 DEF IInv, InstalledHasFile, InstalledIsCurrent, fileExists
<1>11. QED
  BY <1>3, <1>4, <1>5, <1>6, <1>7, <1>8, <1>9, <1>10 DEF IInv

\* The steps of a build after the row is marked and before the row is updated.
BuildStep == {"clone", "build", "open", "copy", "schema", "record", "fail"}

\* A step of a build keeps the invariant if the shared object, once there, stays
\* there, and if what the build makes is made of the source of the row.
LEMMA BuildStepKeeps ==
    ASSUME PluginsAssumption, IInv, NEW i \in Installer,
           NEW from \in BuildStep, NEW to \in BuildStep, Goes(i, from, to),
           UNCHANGED <<phase, row, source, status, soPath, schema, edit, crossed, lost>>,
           file' \in Source \cup {NoFile, Partial}, work' \in Source \cup {NoFile},
           built' \in Source \cup {NoFile}, image' \in Source \cup {NoFile, Partial},
           snap' \in [Installer -> Source \cup {NoSource}],
           \A j \in Installer \ {i} : snap'[j] = snap[j],
           fileExists => file' # NoFile,
           to = "copy" => snap'[i] \in Source,
           to \in {"copy", "schema", "record"} => file' # NoFile,
           ~crossed =>
                /\ to \in {"clone", "copy"} => snap'[i] = source
                /\ to = "build" => work' = source
                /\ to = "open" => built' = source
                /\ to \in {"schema", "record"} => file' = source
    PROVE  IInv'
<1>1. /\ step[i] = from
      /\ step' \in [Installer -> Step]
      /\ \A j \in Installer : step'[j] = IF j = i THEN to ELSE step[j]
  BY DEF Goes, IInv, TypeOK, BuildStep, Step
<1>2. /\ \A j \in Installer : Builds(j)' <=> Builds(j)
      /\ \A j \in Installer : Marked(j)' <=> Marked(j)
      /\ Builds(i) /\ Marked(i)
  BY <1>1 DEF Builds, Marked, BuildStep
<1>3. TypeOK'
  BY <1>1 DEF IInv, TypeOK
<1>4. PhaseInv'
  BY <1>1, <1>2 DEF IInv, PhaseInv, Installer, Builds
<1>5. BuildInv'
  BY <1>1, <1>2 DEF IInv, BuildInv, fileExists
<1>6. AloneInv'
  BY <1>2 DEF IInv, AloneInv
<1>7. SourceInv'
  BY <1>1, <1>2 DEF IInv, AloneInv, SourceInv, Builds, BuildStep
<1>8. FileInv'
  BY <1>1 DEF IInv, FileInv, LacksFile, fileExists, Installer, BuildStep
<1>9. StatusInv'
  BY <1>2 DEF IInv, StatusInv, AloneInv, fileExists
<1>10. InstalledHasFile'
  BY DEF IInv, InstalledHasFile, fileExists
<1>11. InstalledIsCurrent'
  BY <1>2 DEF IInv, InstalledIsCurrent, StatusInv
<1>12. QED
  BY <1>3, <1>4, <1>5, <1>6, <1>7, <1>8, <1>9, <1>10, <1>11 DEF IInv

\* The steps of a build keep the invariant.
LEMMA BuildKeeps ==
    ASSUME PluginsAssumption, IInv, NEW i \in Installer,
           \/ cloneRepo(i) \/ buildPlugin(i) \/ copyFileOpens(i) \/ copyFile(i)
           \/ extractConfigSchema(i) \/ BuildFails(i)
    PROVE  IInv'
<1>1. /\ UNCHANGED <<phase, row, source, status, soPath, schema, edit, crossed, lost>>
      /\ file \in Source \cup {NoFile, Partial} /\ work \in Source \cup {NoFile}
      /\ built \in Source \cup {NoFile} /\ image \in Source \cup {NoFile, Partial}
      /\ snap \in [Installer -> Source \cup {NoSource}]
  BY DEF IInv, TypeOK, cloneRepo, buildPlugin, copyFileOpens, copyFile, extractConfigSchema,
         BuildFails, rowVars, history
<1>2. CASE cloneRepo(i)
  <2>1. /\ Goes(i, "clone", "build") /\ snap[i] # NoSource
        /\ work' = snap[i] /\ built' = NoFile /\ UNCHANGED <<file, image, snap>>
    BY <1>2 DEF cloneRepo
  <2>2. ~crossed => snap[i] = source
    BY <2>1 DEF Goes, IInv, SourceInv
  <2>3. "clone" \in BuildStep /\ "build" \in BuildStep
    BY DEF BuildStep
  <2>4. QED
    BY <1>1, <2>1, <2>2, <2>3, BuildStepKeeps DEF fileExists
<1>3. CASE buildPlugin(i)
  <2>1. /\ Goes(i, "build", "open") /\ work # NoFile
        /\ built' = work /\ UNCHANGED <<file, work, image, snap>>
    BY <1>3 DEF buildPlugin
  <2>2. ~crossed => work = source
    BY <2>1 DEF Goes, IInv, SourceInv
  <2>3. "build" \in BuildStep /\ "open" \in BuildStep
    BY DEF BuildStep
  <2>4. QED
    BY <1>1, <2>1, <2>2, <2>3, BuildStepKeeps DEF fileExists
<1>4. CASE copyFileOpens(i)
  <2>1. /\ Goes(i, "open", "copy") /\ built # NoFile /\ file' = Partial
        /\ image' \in {image, Partial} /\ snap' = [snap EXCEPT ![i] = built]
        /\ UNCHANGED <<work, built>>
    BY <1>4 DEF copyFileOpens
  <2>2. ~crossed => built = source
    BY <2>1 DEF Goes, IInv, SourceInv
  <2>3. "open" \in BuildStep /\ "copy" \in BuildStep
    BY DEF BuildStep
  <2>4. snap' \in [Installer -> Source \cup {NoSource}] /\ snap'[i] = built
        /\ \A j \in Installer \ {i} : snap'[j] = snap[j]
    BY <1>1, <2>1
  <2>5. QED
    BY <1>1, <2>1, <2>2, <2>3, <2>4, BuildStepKeeps DEF fileExists, PluginsAssumption
<1>5. CASE copyFile(i)
  <2>1. /\ Goes(i, "copy", "schema") /\ UNCHANGED <<work, built, image, snap>>
        /\ file' \in {snap[i], Partial}
        /\ (\A j \in Installer \ {i} : step[j] # "copy") => file' = snap[i]
    BY <1>5 DEF copyFile
  <2>2. /\ snap[i] \in Source
        /\ ~crossed => snap[i] = source
        /\ ~crossed => \A j \in Installer \ {i} : step[j] # "copy"
    BY <2>1 DEF Goes, IInv, BuildInv, SourceInv, AloneInv, Builds
  <2>3. "copy" \in BuildStep /\ "schema" \in BuildStep
    BY DEF BuildStep
  <2>4. file' \in Source \cup {Partial} /\ (~crossed => file' = source)
    BY <2>1, <2>2
  <2>5. QED
    BY <1>1, <2>1, <2>3, <2>4, BuildStepKeeps DEF fileExists, PluginsAssumption
<1>6. CASE extractConfigSchema(i)
  <2>1. /\ Goes(i, "schema", "record") /\ UNCHANGED <<file, work, built>>
        /\ image' \in {image, file}
        /\ snap' = [snap EXCEPT ![i] = IF image' \in Source THEN image' ELSE NoSource]
    BY <1>6 DEF extractConfigSchema, openPlugin
  <2>2. /\ ~crossed => file = source
        /\ file # NoFile
    BY <2>1 DEF Goes, IInv, BuildInv, SourceInv, fileExists
  <2>3. "schema" \in BuildStep /\ "record" \in BuildStep
    BY DEF BuildStep
  <2>4. snap' \in [Installer -> Source \cup {NoSource}]
        /\ \A j \in Installer \ {i} : snap'[j] = snap[j]
    BY <1>1, <2>1
  <2>5. QED
    BY <1>1, <2>1, <2>2, <2>3, <2>4, BuildStepKeeps DEF fileExists
<1>7. CASE BuildFails(i)
  <2>1. /\ Goes(i, step[i], "fail") /\ step[i] \in {"clone", "build", "open", "copy"}
        /\ UNCHANGED <<file, image, snap>>
        /\ work' \in {work, NoFile} /\ built' \in {built, NoFile}
    BY <1>7 DEF BuildFails
  <2>2. step[i] \in BuildStep /\ "fail" \in BuildStep
    BY <2>1 DEF BuildStep
  <2>3. QED
    BY <1>1, <2>1, <2>2, BuildStepKeeps DEF fileExists
<1>8. QED
  BY <1>2, <1>3, <1>4, <1>5, <1>6, <1>7
\* An update of the row by install i, and its errors, keep the invariant: the mark,
\* the failure and the record of a build.
LEMMA UpdateKeeps ==
    ASSUME PluginsAssumption, IInv, NEW i \in Installer,
           InstallMarks(i) \/ InstallFails(i) \/ InstallRecords(i)
    PROVE  IInv'
<1>1. PICK from \in {"mark", "fail", "record"}, to \in {"clone", "idle"},
           new \in {"INSTALLING", "FAILED", "INSTALLED"} :
        /\ step[i] = from /\ step' = [step EXCEPT ![i] = to]
        /\ \/ from = "mark" /\ to = "clone" /\ new = "INSTALLING" /\ snap' = snap
           \/ from = "fail" /\ to = "idle" /\ new = "FAILED"
           \/ from = "record" /\ to = "idle" /\ new = "INSTALLED"
        /\ UNCHANGED <<phase, row, source, file, work, built, image, edit, crossed>>
        /\ snap' = snap \/ snap' = [snap EXCEPT ![i] = NoSource]
        /\ \/ lost' = TRUE /\ UNCHANGED <<status, soPath, schema>>
           \/ /\ row # "live" /\ UNCHANGED <<status, soPath, schema, lost>>
           \/ /\ row = "live" /\ status' = new /\ lost' = lost
              /\ soPath' = (soPath \/ from = "record")
              /\ schema' \in {schema, snap[i]}
  <2>1. CASE InstallMarks(i)
    BY <2>1 DEF InstallMarks, Goes, Updates, diskVars, IInv, TypeOK, Row
  <2>2. CASE InstallFails(i)
    BY <2>2 DEF InstallFails, Ends, Goes, Updates, diskVars, IInv, TypeOK, Row
  <2>3. CASE InstallRecords(i)
    BY <2>3 DEF InstallRecords, Ends, Goes, Updates, diskVars, IInv, TypeOK, Row
  <2>4. QED
    BY <2>1, <2>2, <2>3
<1>2. /\ step' \in [Installer -> Step]
      /\ \A j \in Installer : step'[j] = IF j = i THEN to ELSE step[j]
      /\ \A j \in Installer \ {i} : snap'[j] = snap[j]
  BY <1>1 DEF IInv, TypeOK, Step
<1>3. TypeOK'
  <2>1. soPath' \in BOOLEAN
    BY <1>1 DEF IInv, TypeOK, Row
  <2>2. lost' \in BOOLEAN
    BY <1>1 DEF IInv, TypeOK
  <2>3. /\ row' \in {"none", "live", "deleted"} /\ source' \in Source \cup {NoSource}
        /\ status' \in Status /\ schema' \in Source \cup {NoSource}
    BY <1>1 DEF IInv, TypeOK, Row, Status
  <2>4. QED
    BY <1>1, <1>2, <2>1, <2>2, <2>3 DEF IInv, TypeOK, Row
<1>4. PhaseInv'
  BY <1>1, <1>2 DEF IInv, PhaseInv, Installer
<1>5. BuildInv'
  BY <1>1, <1>2 DEF IInv, BuildInv, Builds, fileExists
<1>6. AloneInv'
  BY <1>1, <1>2 DEF IInv, AloneInv, Builds
<1>7. SourceInv'
  BY <1>1, <1>2 DEF IInv, SourceInv
<1>8. FileInv'
  <2>1. phase = "verifying" => i = "boot"
    BY <1>1, InstallPhase
  <2>2. step[i] = "record" => fileExists
    BY DEF IInv, BuildInv
  <2>3. ~lost' /\ phase = "verifying" /\ LacksFile' =>
            /\ step'["boot"] # "idle"
            /\ status' = "INSTALLED" => step'["boot"] \in {"read", "mark"}
    BY <1>1, <1>2, <2>1, <2>2 DEF IInv, FileInv, LacksFile, fileExists, Installer
  <2>4. QED
    BY <1>1, <2>3 DEF IInv, FileInv, fileExists
<1>9. StatusInv'
  BY <1>1, <1>2 DEF IInv, StatusInv, AloneInv, Marked, Builds, fileExists
<1>10. InstalledHasFile'
  BY <1>1, <1>2 DEF IInv, InstalledHasFile, fileExists, BuildInv
<1>11. InstalledIsCurrent'
  BY <1>1, <1>2 DEF IInv, InstalledIsCurrent, SourceInv
<1>12. QED
  BY <1>3, <1>4, <1>5, <1>6, <1>7, <1>8, <1>9, <1>10, <1>11 DEF IInv
-----------------------------------------------------------------------------

\* The boot's way from phase to phase keeps the invariant.
LEMMA BootKeeps ==
    ASSUME PluginsAssumption, IInv, Boot \/ BootGoesOn \/ BootReadFails PROVE IInv'
<1>1. /\ UNCHANGED <<row, source, status, soPath, schema, file, work, built, image, step, snap,
                     edit, crossed>>
      /\ phase # "serving" /\ phase' \in Phase /\ lost' \in BOOLEAN /\ step["boot"] = "idle"
      /\ phase' = "serving" => phase = "verifying" \/ lost'
      /\ phase' \notin {"down", "importing", "verifying"}
      /\ lost' \/ lost' = lost
  BY DEF Boot, BootGoesOn, BootReadFails, rowVars, diskVars, installVars, history, Phase, Active,
         IInv, TypeOK, PhaseInv, Installer
<1>2. \A i \in Installer : step[i] = "idle"
  BY <1>1 DEF IInv, TypeOK, PhaseInv, Installer, Phase
<1>3. TypeOK'
  BY <1>1 DEF IInv, TypeOK, Row
<1>4. PhaseInv'
  BY <1>1, <1>2 DEF IInv, PhaseInv, Installer
<1>5. BuildInv' /\ AloneInv' /\ SourceInv'
  BY <1>1 DEF IInv, BuildInv, AloneInv, SourceInv, Builds, fileExists
<1>6. FileInv'
  BY <1>1 DEF IInv, FileInv, LacksFile, fileExists
<1>7. StatusInv'
  BY <1>1, <1>2 DEF IInv, StatusInv, FileInv, LacksFile, Marked, Builds, fileExists
<1>8. InstalledHasFile'
  BY <1>1, <1>2 DEF IInv, InstalledHasFile, FileInv, LacksFile, fileExists
<1>9. InstalledIsCurrent'
  BY <1>1 DEF IInv, InstalledIsCurrent
<1>10. QED
  BY <1>3, <1>4, <1>5, <1>6, <1>7, <1>8, <1>9 DEF IInv

\* The import of the plugin of the config keeps the invariant.
LEMMA ImportKeeps ==
    ASSUME PluginsAssumption, IInv, NEW declared \in Declared, ImportConfigPlugins(declared)
    PROVE  IInv'
<1>1. /\ phase = "import" /\ UNCHANGED <<file, work, built, image, snap, edit, crossed, lost>>
      /\ declared \in Source \cup {NoSource}
      /\ \A i \in Installer : step[i] = "idle"
      /\ ~edit.open
  BY DEF ImportConfigPlugins, diskVars, history, PluginsAssumption, IInv, PhaseInv
<1>2. \/ /\ phase' = "verify" /\ step' = step
         /\ UNCHANGED <<row, source, status, soPath, schema>>
      \/ /\ phase' = "importing" /\ step' = [step EXCEPT !["boot"] = "read"]
         /\ UNCHANGED <<row, source, status, soPath, schema>>
      \/ /\ phase' = "importing" /\ step' = [step EXCEPT !["boot"] = "read"]
         /\ row' = "live" /\ source' = declared /\ status' = "NOT_INSTALLED" /\ soPath' = FALSE
         /\ schema' = NoSource
  BY DEF ImportConfigPlugins, StartsInstall, rowVars
<1>3. /\ step' \in [Installer -> Step]
      /\ \A i \in Installer : i # "boot" => step'[i] = "idle"
      /\ step'["boot"] \in {"idle", "read"}
  BY <1>1, <1>2 DEF IInv, TypeOK, Step, Installer
<1>4. \A i \in Installer : ~Builds(i)' /\ step'[i] \in {"idle", "read"}
  BY <1>3 DEF Builds, Installer
<1>5. TypeOK'
  <2>1. soPath' \in BOOLEAN
    BY <1>1, <1>2, <1>3 DEF IInv, TypeOK, Row
  <2>2. /\ row' \in {"none", "live", "deleted"} /\ source' \in Source \cup {NoSource}
        /\ status' \in Status /\ schema' \in Source \cup {NoSource}
    BY <1>1, <1>2, <1>3 DEF IInv, TypeOK, Row, Status
  <2>3. QED
    BY <1>1, <1>2, <1>3, <2>1, <2>2 DEF IInv, TypeOK, Row, Phase
<1>6. PhaseInv'
  BY <1>1, <1>2, <1>3, PluginsAssumption DEF PhaseInv, Installer, PluginsAssumption
<1>7. BuildInv' /\ AloneInv' /\ SourceInv'
  BY <1>4 DEF BuildInv, AloneInv, SourceInv
<1>8. FileInv' /\ StatusInv' /\ InstalledHasFile'
  BY <1>1, <1>2, <1>4 DEF FileInv, StatusInv, InstalledHasFile, Marked
<1>9. InstalledIsCurrent'
  BY <1>1, <1>2 DEF IInv, InstalledIsCurrent
<1>10. QED
  BY <1>5, <1>6, <1>7, <1>8, <1>9 DEF IInv

\* The boot's look at the shared object keeps the invariant.
LEMMA VerifyKeeps == ASSUME PluginsAssumption, IInv, VerifyPlugins PROVE IInv'
<1>1. /\ phase = "verify" /\ UNCHANGED <<row, source, file, work, built, image, snap, edit, crossed>>
      /\ \A i \in Installer : step[i] = "idle"
      /\ ~edit.open
  BY DEF VerifyPlugins, diskVars, IInv, PhaseInv
<1>2. \/ /\ phase' = "verifying" /\ step' = [step EXCEPT !["boot"] = "read"]
         /\ UNCHANGED <<status, soPath, schema, lost>>
      \/ /\ phase' = "serving" /\ step' = step
         /\ ~LacksFile /\ UNCHANGED <<status, soPath, schema, lost>>
      \/ /\ phase' = "serving" /\ step' = step
         /\ LacksFile /\ status' = "FAILED" /\ soPath' = FALSE /\ schema' = schema /\ lost' = lost
      \/ /\ phase' = "serving" /\ step' = step
         /\ lost' = TRUE /\ UNCHANGED <<status, soPath, schema>>
  BY DEF VerifyPlugins, StartsInstall, Updates, LacksFile
<1>3. /\ step' \in [Installer -> Step]
      /\ \A i \in Installer : i # "boot" => step'[i] = "idle"
      /\ step'["boot"] = IF phase' = "verifying" THEN "read" ELSE "idle"
  BY <1>1, <1>2 DEF IInv, TypeOK, Step, Installer
<1>4. \A i \in Installer : ~Builds(i)' /\ step'[i] \in {"idle", "read"}
  BY <1>3 DEF Builds, Installer
<1>5. TypeOK'
  <2>1. soPath' \in BOOLEAN
    BY <1>1, <1>2, <1>3 DEF IInv, TypeOK, Row
  <2>2. /\ row' \in {"none", "live", "deleted"} /\ source' \in Source \cup {NoSource}
        /\ status' \in Status /\ schema' \in Source \cup {NoSource}
    BY <1>1, <1>2, <1>3 DEF IInv, TypeOK, Row, Status
  <2>3. lost' \in BOOLEAN
    BY <1>2 DEF IInv, TypeOK
  <2>4. QED
    BY <1>1, <1>2, <1>3, <2>1, <2>2, <2>3 DEF IInv, TypeOK, Row, Phase
<1>6. PhaseInv'
  BY <1>1, <1>2, <1>3 DEF PhaseInv, Installer, PluginsAssumption
<1>7. BuildInv' /\ AloneInv' /\ SourceInv'
  BY <1>4 DEF BuildInv, AloneInv, SourceInv
<1>8. FileInv'
  BY <1>1, <1>2, <1>3 DEF FileInv
<1>9. StatusInv'
  BY <1>1, <1>2, <1>4 DEF StatusInv, Marked, LacksFile, fileExists
<1>10. InstalledHasFile' /\ InstalledIsCurrent'
  BY <1>1, <1>2 DEF IInv, InstalledHasFile, InstalledIsCurrent, LacksFile, fileExists
<1>11. QED
  BY <1>5, <1>6, <1>7, <1>8, <1>9, <1>10 DEF IInv

\* A crash leaves the row and, perhaps, the shared object.
LEMMA CrashKeeps == ASSUME PluginsAssumption, IInv, Crash PROVE IInv'
<1>1. /\ UNCHANGED <<row, source, status, soPath, schema, crossed, lost>>
      /\ phase' = "down" /\ file' \in {file, NoFile} /\ edit' = NoEdit
      /\ work' = NoFile /\ built' = NoFile /\ image' = NoFile
      /\ step' = [i \in Installer |-> "idle"] /\ snap' = [i \in Installer |-> NoSource]
  BY DEF Crash, rowVars, history
<1>2. TypeOK'
  BY <1>1 DEF IInv, TypeOK, Row, Phase, Status, Step, NoEdit
<1>3. \A i \in Installer : step'[i] = "idle" /\ ~Builds(i)'
  BY <1>1 DEF Builds
<1>4. PhaseInv' /\ BuildInv' /\ AloneInv' /\ SourceInv' /\ FileInv' /\ StatusInv'
      /\ InstalledHasFile'
  BY <1>1, <1>3 DEF PhaseInv, BuildInv, AloneInv, SourceInv, FileInv, StatusInv, Marked, NoEdit,
                    InstalledHasFile, Installer
<1>5. InstalledIsCurrent'
  BY <1>1 DEF IInv, InstalledIsCurrent
<1>6. QED
  BY <1>2, <1>4, <1>5 DEF IInv

-----------------------------------------------------------------------------

\* A request for an install, and an exporter that loads the plugin, keep the invariant.
LEMMA RequestKeeps ==
    ASSUME PluginsAssumption, IInv,
           loadInstalledPlugin \/ \E i \in Request : RequestInstall(i)
    PROVE  IInv'
<1>1. /\ UNCHANGED <<phase, row, source, status, soPath, schema, file, work, built, snap, edit,
                     crossed, lost>>
      /\ phase = "serving"
      /\ image' \in {image, file}
  BY DEF loadInstalledPlugin, openPlugin, RequestInstall, rowVars, diskVars, installVars, history
<1>2. /\ step' \in [Installer -> Step]
      /\ \A i \in Installer :
            step'[i] = step[i] \/ (i # "boot" /\ step[i] = "idle" /\ step'[i] = "read")
  BY DEF loadInstalledPlugin, RequestInstall, Goes, installVars, Installer, Step, IInv, TypeOK,
         PluginsAssumption
<1>3. \A i \in Installer : (Builds(i)' <=> Builds(i)) /\ (Marked(i)' <=> Marked(i))
  BY <1>2 DEF Builds, Marked
<1>4. TypeOK'
  BY <1>1, <1>2 DEF IInv, TypeOK, Row
<1>5. PhaseInv'
  BY <1>1, <1>2 DEF IInv, PhaseInv, Installer
<1>6. BuildInv'
  BY <1>1, <1>2, <1>3 DEF IInv, BuildInv, fileExists
<1>7. AloneInv' /\ StatusInv'
  BY <1>1, <1>3 DEF IInv, AloneInv, StatusInv, fileExists
<1>8. SourceInv'
  BY <1>1, <1>2 DEF IInv, SourceInv
<1>9. FileInv' /\ InstalledHasFile' /\ InstalledIsCurrent'
  BY <1>1 DEF IInv, FileInv, InstalledHasFile, InstalledIsCurrent, fileExists
<1>10. QED
  BY <1>4, <1>5, <1>6, <1>7, <1>8, <1>9 DEF IInv

\* The making and the deletion of the row keep the invariant.
LEMMA RowKeeps ==
    ASSUME PluginsAssumption, IInv, CreatePlugin \/ DeletePlugin PROVE IInv'
<1>1. /\ UNCHANGED <<phase, file, work, built, image, step, snap, edit, crossed, lost>>
      /\ phase = "serving"
      /\ \/ /\ row' = "deleted" /\ UNCHANGED <<source, status, soPath, schema>>
         \/ /\ row = "none" /\ row' = "live" /\ source' \in Source \cup {NoSource}
            /\ status' = "NOT_INSTALLED" /\ soPath' = FALSE /\ schema' = NoSource
  BY DEF CreatePlugin, DeletePlugin, diskVars, installVars, history
<1>2. TypeOK'
  <2>1. soPath' \in BOOLEAN
    BY <1>1 DEF IInv, TypeOK, Row
  <2>2. /\ row' \in {"none", "live", "deleted"} /\ source' \in Source \cup {NoSource}
        /\ status' \in Status /\ schema' \in Source \cup {NoSource}
    BY <1>1 DEF IInv, TypeOK, Row, Status
  <2>3. QED
    BY <1>1, <2>1, <2>2 DEF IInv, TypeOK, Row, Phase
<1>3. PhaseInv' /\ BuildInv' /\ AloneInv'
  BY <1>1 DEF IInv, PhaseInv, BuildInv, AloneInv, Builds, fileExists
<1>4. SourceInv'
  BY <1>1 DEF IInv, SourceInv, BuildInv, Builds
<1>5. FileInv' /\ StatusInv'
  BY <1>1 DEF IInv, FileInv, StatusInv, BuildInv, Marked, Builds, fileExists
<1>6. InstalledHasFile' /\ InstalledIsCurrent'
  BY <1>1 DEF IInv, InstalledHasFile, InstalledIsCurrent
<1>7. QED
  BY <1>2, <1>3, <1>4, <1>5, <1>6 DEF IInv

\* The two steps of an edit keep the invariant: the row it will save says of the
\* shared object what the row said.
LEMMA EditKeeps ==
    ASSUME PluginsAssumption, IInv, UpdateReads \/ UpdateSaves PROVE IInv'
<1>1. CASE UpdateReads
  <2>1. /\ UNCHANGED <<phase, row, source, status, soPath, schema, file, work, built, image, step,
                       snap, lost>>
        /\ phase = "serving" /\ row = "live" /\ crossed' \in BOOLEAN
        /\ crossed' = (crossed \/ \E i \in Installer : Active(i))
    BY <1>1 DEF UpdateReads, rowVars, diskVars, installVars
  <2>2. PICK new \in Source \cup {NoSource} :
          \/ /\ new = source
             /\ edit' = [open |-> TRUE, source |-> new, status |-> status, soPath |-> soPath,
                         schema |-> schema]
          \/ edit' = [open |-> TRUE, source |-> new, status |-> "NOT_INSTALLED",
                      soPath |-> FALSE, schema |-> NoSource]
    BY <1>1 DEF UpdateReads, Edited, NoEdit
  <2>3. ~crossed' => ~crossed /\ \A i \in Installer : step[i] = "idle"
    BY <2>1, Zenon DEF Active
  <2>4. TypeOK'
    <3>1. /\ row \in {"none", "live", "deleted"} /\ source \in Source \cup {NoSource}
          /\ status \in Status /\ soPath \in BOOLEAN /\ schema \in Source \cup {NoSource}
          /\ "NOT_INSTALLED" \in Status
      BY DEF IInv, TypeOK, Row, Status
    <3>2. edit' \in [open : BOOLEAN, source : Source \cup {NoSource}, status : Status,
                     soPath : BOOLEAN, schema : Source \cup {NoSource}]
      <4>1. CASE edit' = [open |-> TRUE, source |-> new, status |-> status, soPath |-> soPath,
                          schema |-> schema]
        BY <3>1, <4>1, Zenon
      <4>2. CASE edit' = [open |-> TRUE, source |-> new, status |-> "NOT_INSTALLED",
                          soPath |-> FALSE, schema |-> NoSource]
        BY <3>1, <4>2
      <4>3. QED
        BY <2>2, <4>1, <4>2
    <3>3. QED
      BY <2>1, <3>2 DEF IInv, TypeOK, Row
  <2>5. PhaseInv' /\ BuildInv'
    BY <2>1 DEF IInv, PhaseInv, BuildInv, Builds, fileExists
  <2>6. AloneInv' /\ SourceInv'
    BY <2>3, <2>1 DEF AloneInv, SourceInv, Builds
  <2>7. FileInv'
    BY <2>1, <2>2 DEF IInv, FileInv, InstalledHasFile, fileExists
  <2>8. StatusInv'
    BY <2>1, <2>2, <2>3 DEF IInv, StatusInv, InstalledIsCurrent, Marked, Builds, fileExists
  <2>9. InstalledHasFile' /\ InstalledIsCurrent'
    BY <2>1, <2>3 DEF IInv, InstalledHasFile, InstalledIsCurrent, fileExists
  <2>10. QED
    BY <2>4, <2>5, <2>6, <2>7, <2>8, <2>9 DEF IInv
<1>2. CASE UpdateSaves
  <2>1. /\ UNCHANGED <<phase, file, work, built, image, step, snap, crossed, lost>>
        /\ edit.open /\ phase = "serving" /\ edit' = NoEdit
        /\ \/ /\ row' = "live" /\ source' = edit.source /\ status' = edit.status
              /\ soPath' = edit.soPath /\ schema' = edit.schema
           \/ UNCHANGED <<row, source, status, soPath, schema>>
    BY <1>2 DEF UpdateSaves, rowVars, diskVars, installVars, history, IInv, PhaseInv
  <2>2. ~crossed => \A i \in Installer : ~Builds(i)
    BY <2>1 DEF IInv, AloneInv
  <2>3. TypeOK'
    BY <2>1 DEF IInv, TypeOK, Row, Status, NoEdit
  <2>4. PhaseInv' /\ BuildInv'
    BY <2>1 DEF IInv, PhaseInv, BuildInv, Builds, fileExists, NoEdit
  <2>5. AloneInv' /\ SourceInv'
    BY <2>1, <2>2 DEF AloneInv, SourceInv, Builds
  <2>6. FileInv'
    BY <2>1 DEF FileInv, NoEdit
  <2>7. StatusInv'
    BY <2>1, <2>2 DEF IInv, StatusInv, Marked, Builds, NoEdit, fileExists
  <2>8. InstalledHasFile' /\ InstalledIsCurrent'
    BY <2>1 DEF IInv, InstalledHasFile, InstalledIsCurrent, FileInv, StatusInv, fileExists
  <2>9. QED
    BY <2>3, <2>4, <2>5, <2>6, <2>7, <2>8 DEF IInv
<1>3. QED
  BY <1>1, <1>2

-----------------------------------------------------------------------------

\* Every step keeps the invariant.
LEMMA NextKeeps == ASSUME PluginsAssumption, IInv, [Next]_vars PROVE IInv'
<1>1. CASE Next
  BY <1>1, ReadsKeeps, BuildKeeps, UpdateKeeps, BootKeeps, ImportKeeps, VerifyKeeps, CrashKeeps,
     RequestKeeps, RowKeeps, EditKeeps
  DEF Next, Install
<1>2. CASE UNCHANGED vars
  BY <1>2 DEF vars, IInv, TypeOK, PhaseInv, BuildInv, AloneInv, SourceInv, FileInv, StatusInv,
              InstalledHasFile, InstalledIsCurrent, Builds, Marked, LacksFile, fileExists
<1>3. QED
  BY <1>1, <1>2

\* The invariant holds in every behaviour.
LEMMA InvariantHolds == ASSUME PluginsAssumption PROVE Spec => []IInv
<1>1. Init => IInv
  BY InitIInv
<1>2. IInv /\ [Next]_vars => IInv'
  BY NextKeeps
<1>3. QED
  BY <1>1, <1>2, PTL DEF Spec

-----------------------------------------------------------------------------

\* The state is well typed: what lies in the install and build directories is the
\* build of a source, cut off or not there (InstallPlugin, copyFile).
THEOREM TypeCorrect == ASSUME PluginsAssumption PROVE Spec => []TypeOK
<1>1. IInv => TypeOK
  BY DEF IInv
<1>2. QED
  BY <1>1, InvariantHolds, PTL

\* While requests are served, a plugin the row says is installed has a shared object,
\* whatever a crash has cut off or wiped (VerifyPlugins), unless an error of the
\* database went unnoticed.
THEOREM InstalledPluginHasFile == ASSUME PluginsAssumption PROVE Spec => []InstalledHasFile
<1>1. IInv => InstalledHasFile
  BY DEF IInv
<1>2. QED
  BY <1>1, InvariantHolds, PTL

\* As long as installs overlap neither each other nor an edit, the shared object of an
\* installed plugin is that of the row's source (InstallPlugin, UpdatePlugin).
THEOREM InstalledPluginIsCurrent == ASSUME PluginsAssumption PROVE Spec => []InstalledIsCurrent
<1>1. IInv => InstalledIsCurrent
  BY DEF IInv
<1>2. QED
  BY <1>1, InvariantHolds, PTL

\* An install that a crash cut off is resumed by the next boot, or has left a shared
\* object (VerifyPlugins on status INSTALLING).
THEOREM InstallIsResumed == ASSUME PluginsAssumption PROVE Spec => []CutOffInstallResumed
<1>1. IInv => CutOffInstallResumed
  BY DEF IInv, StatusInv, CutOffInstallResumed, Marked, Builds, Active
<1>2. QED
  BY <1>1, InvariantHolds, PTL

=============================================================================
