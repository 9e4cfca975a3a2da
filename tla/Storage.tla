------------------------------- MODULE Storage -------------------------------
(***************************************************************************)
(* Saving and loading of sketches: the dialogs of src/source/main.cpp and  *)
(* the directories that World::save and World::load choose.  A drawing is  *)
(* a value; what becomes of its things is in Sketch.tla and World.tla.     *)
(*                                                                         *)
(* An open dialog takes the stylus, so there is one at a time.  The box    *)
(* that the motion pack asks for with L and R held is left out: it would   *)
(* take the place of an open box in mb.                                    *)
(***************************************************************************)
EXTENDS Naturals

CONSTANTS
  Names,        \* file names, extension included
  Drawings,
  EMPTY,        \* the drawing without things
  DAMAGED,      \* what is left of a file that could not be written to its end
  NONE

Sketches == Drawings \cup {EMPTY, DAMAGED}

ASSUME StorageAssumption ==
  NONE \notin Sketches \cup Names /\ DAMAGED \notin Drawings \cup {EMPTY}

\* pocketphysics/sketches, and data/pocketphysics/sketches with its parents; "root"
\* is the card itself
Legacy == "legacy"
Modern == "modern"
Parent == "parent"
Paths  == {Legacy, "data", Parent, Modern}

VARIABLES
  dirs, files,          \* on the card
  card_full,            \* nothing more can be written
  drawn,                \* the drawing on the canvas
  current_filename,
  dialog,               \* "none", "save_as", "overwrite" or "load"
  stored                \* the last save that reached the card: [name, drawing] or NONE

card == <<dirs, files, card_full>>
vars == <<card, drawn, current_filename, dialog, stored>>

\* Any card that this or an older version, or its owner, may have left.
Init ==
  /\ dirs \in {d \in SUBSET Paths : /\ Modern \in d => Parent \in d
                                    /\ Parent \in d => "data" \in d}
  /\ files \in [{Legacy, Modern} \X Names -> Drawings \cup {NONE}]
  /\ \A f \in DOMAIN files : files[f] # NONE => f[1] \in dirs
  /\ card_full \in BOOLEAN
  /\ drawn = EMPTY /\ current_filename = NONE /\ dialog = "none" /\ stored = NONE
-----------------------------------------------------------------------------
(***************************************************************************)
(* World::save and World::load, as far as the card is concerned.           *)
(***************************************************************************)
SaveDir == IF Legacy \in dirs THEN Legacy ELSE Modern

\* mkdir of a path that is not there, under a parent that is
MkDir(ds, path, parent) ==
  IF path \notin ds /\ ~ card_full /\ parent \in ds \cup {"root"} THEN ds \cup {path} ELSE ds

\* Seeded fault: the directory is made before its parents.
MadeDirsBackwards ==
  IF Legacy \in dirs THEN dirs
  ELSE MkDir(MkDir(MkDir(dirs, Modern, Parent), Parent, "data"), "data", "root")

MadeDirs ==
  IF Legacy \in dirs THEN dirs
  ELSE MkDir(MkDir(MkDir(dirs, "data", "root"), Parent, "data"), Modern, Parent)

\* save() under the name n: nothing without a directory; a full card leaves the
\* old file, none, or a damaged one.  Nobody is told.
Save(n) ==
  /\ dirs' = MadeDirs
  /\ IF SaveDir \in dirs' /\ ~ card_full
     THEN /\ files' = [files EXCEPT ![<<SaveDir, n>>] = drawn]
          /\ stored' = [name |-> n, drawing |-> drawn]
     ELSE /\ \/ UNCHANGED files
             \/ SaveDir \in dirs' /\ files' = [files EXCEPT ![<<SaveDir, n>>] = DAMAGED]
          /\ stored' = NONE
  /\ UNCHANGED card_full

\* Seeded fault: load knows the old directory only.
LoadDirLegacy == IF Legacy \in dirs THEN Legacy ELSE "root"

\* The directory of load, and of the list in the load dialog
LoadDir == IF Modern \in dirs THEN Modern ELSE IF Legacy \in dirs THEN Legacy ELSE "root"

Offered == {n \in Names : <<LoadDir, n>> \in DOMAIN files /\ files[<<LoadDir, n>>] # NONE}
-----------------------------------------------------------------------------
\* The player draws, or destroys the world.
Draw(d) ==
  /\ dialog = "none"
  /\ drawn' = d
  /\ UNCHANGED <<card, current_filename, dialog, stored>>

CardFills ==
  /\ card_full' = ~ card_full
  /\ UNCHANGED <<dirs, files, drawn, current_filename, dialog, stored>>

ShowSaveDialog ==
  /\ dialog = "none"
  /\ dialog' = "save_as"
  /\ UNCHANGED <<card, drawn, current_filename, stored>>

ShowLoadDialog ==
  /\ dialog = "none"
  /\ dialog' = "load"
  /\ UNCHANGED <<card, drawn, current_filename, stored>>

\* deleteTypewriter, deleteLoadDialog and deleteMessageBox as callbacks of "cancel" and "no"
Cancel ==
  /\ dialog # "none"
  /\ dialog' = "none"
  /\ UNCHANGED <<card, drawn, current_filename, stored>>

\* Seeded fault: the question is not asked.
SaveDialogOkUnasked(n) ==
  /\ dialog = "save_as"
  /\ current_filename' = n
  /\ dialog' = "none" /\ Save(n)
  /\ UNCHANGED drawn

\* Seeded fault: the name is only kept if it is new.
SaveDialogOkUnnamed(n) ==
  /\ dialog = "save_as"
  /\ IF files[<<Legacy, n>>] # NONE
     THEN dialog' = "overwrite" /\ UNCHANGED <<card, stored, current_filename>>
     ELSE dialog' = "none" /\ current_filename' = n /\ Save(n)
  /\ UNCHANGED drawn

(***************************************************************************)
(* handleSaveDialogOk with the text for n.  It looks for a file that       *)
(* exists in the old directory.  (With an empty text it does nothing; a    *)
(* text of one or two characters ends the program with an exception.)      *)
(***************************************************************************)
SaveDialogOk(n) ==
  /\ dialog = "save_as"
  /\ current_filename' = n
  /\ IF files[<<Legacy, n>>] # NONE
     THEN dialog' = "overwrite" /\ UNCHANGED <<card, stored>>
     ELSE dialog' = "none" /\ Save(n)
  /\ UNCHANGED drawn

\* "yes": overwriteFile
OverwriteFile ==
  /\ dialog = "overwrite"
  /\ dialog' = "none" /\ Save(current_filename)
  /\ UNCHANGED <<drawn, current_filename>>

\* handleLoadDialogOk: the canvas is cleared before the file is read
LoadDialogOk(n) ==
  /\ dialog = "load" /\ n \in Offered
  /\ drawn' \in IF files[<<LoadDir, n>>] = DAMAGED THEN Drawings \cup {EMPTY} ELSE {files[<<LoadDir, n>>]}
  /\ current_filename' = n
  /\ dialog' = "none"
  /\ UNCHANGED <<card, stored>>

Next ==
  \/ \E d \in Drawings \cup {EMPTY} : Draw(d)
  \/ CardFills
  \/ ShowSaveDialog \/ ShowLoadDialog \/ Cancel \/ OverwriteFile
  \/ \E n \in Names : SaveDialogOk(n) \/ LoadDialogOk(n)

Spec == Init /\ [][Next]_vars
-----------------------------------------------------------------------------
TypeOK ==
  /\ dirs \subseteq Paths /\ card_full \in BOOLEAN
  /\ files \in [{Legacy, Modern} \X Names -> Sketches \cup {NONE}]
  /\ \A f \in DOMAIN files : files[f] # NONE => f[1] \in dirs
  /\ drawn \in Drawings \cup {EMPTY}
  /\ current_filename \in Names \cup {NONE}
  /\ dialog \in {"none", "save_as", "overwrite", "load"}
  /\ dialog = "overwrite" => current_filename # NONE
  /\ stored = NONE \/ stored \in [name : Names, drawing : Drawings \cup {EMPTY}]

(***************************************************************************)
(* With one sketch directory on the card, a save that reached the card can *)
(* be loaded until the next save: the load dialog offers it, and load      *)
(* reads what was drawn.                                                   *)
(***************************************************************************)
Readable == stored.name \in Offered /\ files[<<LoadDir, stored.name>>] = stored.drawing

StoredIsOffered == stored # NONE /\ ~ {Legacy, Modern} \subseteq dirs => Readable

(***************************************************************************)
(* A sketch in the old directory is never lost without a yes, also not to  *)
(* a save that fails.                                                      *)
(***************************************************************************)
LegacyAsked ==
  [][\A n \in Names : files[<<Legacy, n>>] \notin {NONE, files'[<<Legacy, n>>]} =>
       dialog = "overwrite" /\ current_filename = n]_vars

(***************************************************************************)
(* A save that goes through with room on the card reaches it, whatever     *)
(* directories are missing.                                                *)
(***************************************************************************)
Stored == stored' = [name |-> current_filename', drawing |-> drawn]

SavesReachCard ==
  [][(dialog \in {"save_as", "overwrite"} /\ dialog' = "none" /\ ~ card_full) => Cancel \/ Stored]_vars

-----------------------------------------------------------------------------
(***************************************************************************)
(* What the program does not live up to: no file that exists is            *)
(* overwritten without a question.                                         *)
(***************************************************************************)
ExistingAsked ==
  [][\A f \in DOMAIN files : files[f] \notin {NONE, files'[f]} => dialog = "overwrite"]_vars
=============================================================================
