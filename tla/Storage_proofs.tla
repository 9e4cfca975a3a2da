--------------------------- MODULE Storage_proofs ---------------------------
(***************************************************************************)
(* What Storage promises about the sketches on a card, for any names,      *)
(* drawings and directories.                                               *)
(***************************************************************************)
EXTENDS Storage, TLAPS

IInv == TypeOK /\ StoredIsOffered

\* The directories only grow, and a save writes into one that exists.
LEMMA MadeDirsFacts ==
  ASSUME dirs \subseteq Paths
  PROVE  /\ MadeDirs \subseteq Paths /\ dirs \subseteq MadeDirs
         /\ Legacy \in MadeDirs <=> Legacy \in dirs
BY DEF MadeDirs, MkDir, Paths, Legacy, Modern, Parent

\* Saving keeps the types of what is on the card.
LEMMA SaveTypes ==
  ASSUME TypeOK, NEW n \in Names, Save(n)
  PROVE  /\ dirs' \subseteq Paths /\ card_full' \in BOOLEAN
         /\ files' \in [{Legacy, Modern} \X Names -> Sketches \cup {NONE}]
         /\ \A f \in DOMAIN files' : files'[f] # NONE => f[1] \in dirs'
         /\ stored' = NONE \/ stored' \in [name : Names, drawing : Drawings \cup {EMPTY}]
<1>1. dirs' \subseteq Paths /\ dirs \subseteq dirs' /\ card_full' \in BOOLEAN
  BY MadeDirsFacts DEF TypeOK, Save
<1>2. drawn \in Sketches /\ <<SaveDir, n>> \in {Legacy, Modern} \X Names
  BY DEF SaveDir, TypeOK, Sketches
<1>3. PICK d \in Sketches :
        \/ files' = files
        \/ SaveDir \in dirs' /\ files' = [files EXCEPT ![<<SaveDir, n>>] = d]
  BY <1>2 DEF Save, Sketches
<1>4. files' \in [{Legacy, Modern} \X Names -> Sketches \cup {NONE}]
  BY <1>2, <1>3 DEF TypeOK
<1>5. ASSUME NEW f \in DOMAIN files', files'[f] # NONE PROVE f[1] \in dirs'
  BY <1>1, <1>2, <1>3, <1>5 DEF TypeOK
<1>6. stored' = NONE \/ stored' \in [name : Names, drawing : Drawings \cup {EMPTY}]
  BY DEF Save, TypeOK
<1>. QED BY <1>1, <1>4, <1>5, <1>6

\* What was saved is where load looks for it, if there is one directory.
LEMMA SaveOffers ==
  ASSUME TypeOK, NEW n \in Names, Save(n)
  PROVE  StoredIsOffered'
<1> SUFFICES ASSUME stored' # NONE, ~ {Legacy, Modern} \subseteq dirs' PROVE Readable'
  BY DEF StoredIsOffered
<1>1. /\ SaveDir \in dirs' /\ files' = [files EXCEPT ![<<SaveDir, n>>] = drawn]
      /\ stored' = [name |-> n, drawing |-> drawn]
  BY DEF Save
<1>2. Legacy \in dirs' <=> Legacy \in dirs
  BY MadeDirsFacts DEF TypeOK, Save
<1>3. LoadDir' = SaveDir
  BY <1>1, <1>2 DEF LoadDir, SaveDir, Legacy, Modern
<1>4. <<SaveDir, n>> \in DOMAIN files /\ drawn # NONE
  BY StorageAssumption DEF SaveDir, TypeOK, Sketches
<1>5. DOMAIN files' = DOMAIN files /\ files'[<<SaveDir, n>>] = drawn
  BY <1>1, <1>4 DEF TypeOK
<1>6. n \in Offered'
  BY <1>3, <1>4, <1>5 DEF Offered
<1>. QED BY <1>1, <1>3, <1>5, <1>6 DEF Readable

\* Saving keeps every sketch in the old directory but the one of its name.
LEMMA SaveKeepsOthers ==
  ASSUME TypeOK, NEW n \in Names, Save(n), NEW f \in DOMAIN files, f # <<SaveDir, n>>
  PROVE  files'[f] = files[f]
BY DEF Save, TypeOK

\* The invariant holds for any card.
LEMMA InitIInv == Init => IInv
<1> SUFFICES ASSUME Init PROVE IInv
  OBVIOUS
<1>1. dirs \subseteq Paths /\ files \in [{Legacy, Modern} \X Names -> Sketches \cup {NONE}]
  BY DEF Init, Sketches
<1>2. TypeOK
  BY <1>1 DEF Init, TypeOK
<1>3. StoredIsOffered
  BY DEF Init, StoredIsOffered
<1>. QED BY <1>2, <1>3 DEF IInv

\* Every step keeps it.
LEMMA NextIInv == IInv /\ [Next]_vars => IInv'
<1> SUFFICES ASSUME IInv, [Next]_vars PROVE IInv'
  OBVIOUS
<1>1. ASSUME NEW n \in Names, SaveDialogOk(n) PROVE IInv'
  <2>1. CASE files[<<Legacy, n>>] # NONE
    <3>1. TypeOK'
      <4>1. UNCHANGED <<dirs, files, card_full, drawn, stored>> /\ dialog' = "overwrite"
        BY <1>1, <2>1 DEF SaveDialogOk, card
      <4>2. current_filename' \in Names /\ current_filename' # NONE
        BY <1>1, StorageAssumption DEF SaveDialogOk
      <4>. QED BY <4>1, <4>2 DEF IInv, TypeOK
    <3>2. StoredIsOffered'
      BY <1>1, <2>1 DEF IInv, SaveDialogOk, card, StoredIsOffered, Readable, Offered, LoadDir
    <3>. QED BY <3>1, <3>2 DEF IInv
  <2>2. CASE files[<<Legacy, n>>] = NONE
    <3>1. Save(n) /\ dialog' = "none" /\ current_filename' = n /\ drawn' = drawn
      BY <1>1, <2>2 DEF SaveDialogOk
    <3>2. TypeOK'
      BY <3>1, SaveTypes DEF IInv, TypeOK
    <3>. QED BY <3>1, <3>2, SaveOffers DEF IInv
  <2>. QED BY <2>1, <2>2
<1>2. CASE OverwriteFile
  <2>1. /\ Save(current_filename) /\ current_filename \in Names
        /\ dialog' = "none" /\ current_filename' = current_filename /\ drawn' = drawn
    BY <1>2 DEF OverwriteFile, IInv, TypeOK
  <2>2. TypeOK'
    BY <2>1, SaveTypes DEF IInv, TypeOK
  <2>. QED BY <2>1, <2>2, SaveOffers DEF IInv
<1>3. ASSUME NEW n \in Names, LoadDialogOk(n) PROVE IInv'
  <2>1. drawn' \in Drawings \cup {EMPTY}
    <3>1. files[<<LoadDir, n>>] \in Sketches
      BY <1>3 DEF LoadDialogOk, Offered, IInv, TypeOK
    <3>. QED BY <1>3, <3>1 DEF LoadDialogOk, Sketches
  <2>2. TypeOK'
    BY <1>3, <2>1 DEF IInv, TypeOK, LoadDialogOk, card
  <2>3. StoredIsOffered'
    BY <1>3 DEF IInv, LoadDialogOk, card, StoredIsOffered, Readable, Offered, LoadDir
  <2>. QED BY <2>2, <2>3 DEF IInv
<1>4. CASE \/ \E d \in Drawings \cup {EMPTY} : Draw(d)
           \/ CardFills \/ ShowSaveDialog \/ ShowLoadDialog \/ Cancel
  <2>1. UNCHANGED <<dirs, files, stored>>
    BY <1>4 DEF Draw, CardFills, ShowSaveDialog, ShowLoadDialog, Cancel, card
  <2>2. TypeOK'
    BY <1>4 DEF IInv, TypeOK, Draw, CardFills, ShowSaveDialog, ShowLoadDialog, Cancel, card
  <2>3. StoredIsOffered'
    BY <2>1 DEF IInv, StoredIsOffered, Readable, Offered, LoadDir
  <2>. QED BY <2>2, <2>3 DEF IInv
<1>5. CASE UNCHANGED vars
  BY <1>5 DEF IInv, TypeOK, StoredIsOffered, Readable, Offered, LoadDir, vars, card
<1>. QED BY <1>1, <1>2, <1>3, <1>4, <1>5 DEF Next

\* The dialogs keep the invariant, whatever the card held and whenever it fills.
THEOREM StorageInvariant == Spec => []IInv
BY InitIInv, NextIInv, PTL DEF Spec

\* Types; an overwrite question has a name, and files are in directories that exist.
THEOREM StorageTypeCorrect == Spec => []TypeOK
<1>1. IInv => TypeOK
  BY DEF IInv
<1>. QED BY <1>1, StorageInvariant, PTL

\* With one sketch directory, what a save stored can be loaded.
THEOREM StoredCanBeLoaded == Spec => []StoredIsOffered
<1>1. IInv => StoredIsOffered
  BY DEF IInv
<1>. QED BY <1>1, StorageInvariant, PTL

\* No sketch in the old directory is lost without a yes to its question.
THEOREM LegacyNeverLost == Spec => LegacyAsked
<1> DEFINE Asked == \A n \in Names : files[<<Legacy, n>>] \notin {NONE, files'[<<Legacy, n>>]} =>
                      dialog = "overwrite" /\ current_filename = n
<1>1. IInv /\ [Next]_vars => [Asked]_vars
  <2> SUFFICES ASSUME IInv, Next, NEW m \in Names,
                      files[<<Legacy, m>>] \notin {NONE, files'[<<Legacy, m>>]}
               PROVE  dialog = "overwrite" /\ current_filename = m
    OBVIOUS
  <2>1. <<Legacy, m>> \in DOMAIN files /\ files' # files
    BY DEF IInv, TypeOK
  <2>2. ASSUME NEW n \in Names, Save(n), n # m PROVE FALSE
    BY <2>1, <2>2, SaveKeepsOthers DEF IInv
  <2>3. ASSUME NEW n \in Names, SaveDialogOk(n) PROVE FALSE
    BY <2>1, <2>2, <2>3 DEF SaveDialogOk, card
  <2>4. CASE OverwriteFile
    BY <2>2, <2>4 DEF OverwriteFile, IInv, TypeOK
  <2>5. ~ (\E n \in Names : LoadDialogOk(n))
    BY <2>1 DEF LoadDialogOk, card
  <2>6. ~ (CardFills \/ ShowSaveDialog \/ ShowLoadDialog \/ Cancel)
    BY <2>1 DEF CardFills, ShowSaveDialog, ShowLoadDialog, Cancel, card
  <2>7. ~ (\E d \in Drawings \cup {EMPTY} : Draw(d))
    BY <2>1 DEF Draw, card
  <2>. QED BY <2>3, <2>4, <2>5, <2>6, <2>7 DEF Next
<1>. QED BY <1>1, StorageInvariant, PTL DEF LegacyAsked, Spec
\* With room on the card, a save finds or makes the directory it writes to.
LEMMA SaveHasDir ==
  ASSUME ~ card_full
  PROVE  SaveDir \in MadeDirs
BY DEF SaveDir, MadeDirs, MkDir

\* Every save that goes through with room on the card reaches it, whichever of the
\* directories above the sketches are missing.
THEOREM SavesReach == Spec => SavesReachCard
<1> DEFINE Reaches == (dialog \in {"save_as", "overwrite"} /\ dialog' = "none" /\ ~ card_full)
                        => Cancel \/ Stored
<1>1. IInv /\ [Next]_vars => [Reaches]_vars
  <2> SUFFICES ASSUME IInv, Next, dialog \in {"save_as", "overwrite"}, dialog' = "none",
                      ~ card_full, ~ Cancel
               PROVE  Stored
    OBVIOUS
  <2>1. ASSUME NEW n, Save(n), current_filename' = n PROVE Stored
    BY <2>1, SaveHasDir DEF Save, Stored
  <2>2. CASE OverwriteFile
    BY <2>1, <2>2 DEF OverwriteFile
  <2>3. ASSUME NEW n \in Names, SaveDialogOk(n) PROVE Stored
    BY <2>1, <2>3 DEF SaveDialogOk
  <2>4. ~ (\E n \in Names : LoadDialogOk(n))
    BY DEF LoadDialogOk
  <2>5. ~ (CardFills \/ ShowSaveDialog \/ ShowLoadDialog)
    BY DEF CardFills, ShowSaveDialog, ShowLoadDialog
  <2>6. ~ (\E d \in Drawings \cup {EMPTY} : Draw(d))
    BY DEF Draw
  <2>. QED BY <2>2, <2>3, <2>4, <2>5, <2>6 DEF Next
<1>. QED BY <1>1, StorageInvariant, PTL DEF SavesReachCard, Spec
=============================================================================
