-------------------------- MODULE ConfigPagesProofs --------------------------
(* The properties of ConfigPages hold for every set of contents and every     *)
(* bound: the invariants the runs check are each inductive, FormIsKept relative*)
(* to SaveSendsForm.                                                          *)
EXTENDS ConfigPages, TLAPS

(* The type invariant in two parts: the flags, and everything else.           *)
FlagsOK ==
  /\ url \in BOOLEAN /\ timer \in BOOLEAN /\ parsing \in BOOLEAN
  /\ force \in BOOLEAN /\ dialog \in BOOLEAN
  /\ dropped \in BOOLEAN /\ disturbed \in BOOLEAN

ValuesOK ==
  /\ page \in {"away", "builder", "wizard"}
  /\ form \in Contents /\ checked \in Contents
  /\ stored \in Storable \cup {None} \cup Unusable
  /\ writer \in {"wizard", "workbench", "elsewhere"}
  /\ banner \in Storable \cup {None, Malformed}
  /\ {save, late, preview, saved} \subseteq Contents \cup {None}
  /\ {fetched, cache, server} \subseteq Storable \cup {None}
  /\ deleting \in {"no", "own", "left"} /\ fetch \in {"idle", "asked", "served"}
  /\ changes \in 0..MaxChanges

(* What is stored holds no File object, and is a content.                     *)
LEMMA StorableContents ==
  /\ Storable \subseteq Contents
  /\ \A x \in Contents : Persistable[x] \in Storable
  /\ \A x \in Storable : Persistable[x] = x
<1>1. \A x \in Contents : Persistable[x] \in Contents
  BY PagesAssumption
<1>2. \A x \in Contents : Persistable[Persistable[x]] = Persistable[x]
  BY PagesAssumption
<1> QED BY <1>1, <1>2 DEF Storable

LEMMA TypeInParts == TypeOK <=> FlagsOK /\ ValuesOK
BY DEF TypeOK, FlagsOK, ValuesOK

(* Initially no form is open, nothing is in flight, and the stored draft is   *)
(* not an untouched form.                                                     *)
LEMMA InitHolds ==
  ASSUME Init
  PROVE  TypeOK /\ NoPristineDraft /\ SavedDraftStaysGone /\ SaveSendsForm
         /\ FormIsKept /\ OnlyValidSent
<1>1. TypeOK
  <2>1. FlagsOK
    BY Zenon DEF Init, FlagsOK
  <2>2. ValuesOK
    BY PagesAssumption, StorableContents DEF Init, ValuesOK
  <2> QED BY <2>1, <2>2, TypeInParts
<1>2. NoPristineDraft
  BY PagesAssumption DEF Init, NoPristineDraft
<1>3. SavedDraftStaysGone /\ SaveSendsForm /\ FormIsKept
  BY DEF Init, SavedDraftStaysGone, SaveSendsForm, FormIsKept, Mounted
<1>4. OnlyValidSent
  BY DEF Init, OnlyValidSent
<1> QED BY <1>1, <1>2, <1>3, <1>4

(* Every step leaves the flags Boolean.                                       *)
LEMMA FlagsStep ==
  ASSUME FlagsOK, [Next]_vars
  PROVE  FlagsOK'
<1> USE DEF FlagsOK, ChangeForm, ReplaceForm, Unmount, vars, pageVars, draftVars, saveVars, serverVars, history
<1>1. CASE OpenPage
  BY <1>1, FlagsOK, Zenon DEF OpenPage
<1>2. CASE LeavePage
  BY <1>2, FlagsOK, Zenon DEF LeavePage
<1>3. CASE Edit
  BY <1>3, FlagsOK, Zenon DEF Edit
<1>4. CASE ParseArrives
  BY <1>4, FlagsOK, Zenon DEF ParseArrives
<1>5. CASE Validate
  BY <1>5, FlagsOK, Zenon DEF Validate
<1>6. CASE ClickPreview
  BY <1>6, FlagsOK, Zenon DEF ClickPreview
<1>7. CASE PreviewAnswers
  BY <1>7, FlagsOK, Zenon DEF PreviewAnswers
<1>8. CASE Autosave
  BY <1>8, FlagsOK, Zenon DEF Autosave, WriteDraft
<1>9. CASE RestoreDraft
  BY <1>9, FlagsOK, Zenon DEF RestoreDraft
<1>10. CASE DiscardDraft
  BY <1>10, FlagsOK, Zenon DEF DiscardDraft
<1>11. CASE OtherTab
  BY <1>11, FlagsOK, Zenon DEF OtherTab
<1>12. CASE ClickSave
  BY <1>12, FlagsOK, Zenon DEF ClickSave
<1>13. CASE ConfirmOverwrite
  BY <1>13, FlagsOK, Zenon DEF ConfirmOverwrite
<1>14. CASE CancelOverwrite
  BY <1>14, FlagsOK, Zenon DEF CancelOverwrite
<1>15. CASE SaveSucceeds
  BY <1>15, FlagsOK, Zenon DEF SaveSucceeds
<1>16. CASE SaveRefused
  BY <1>16, FlagsOK, Zenon DEF SaveRefused
<1>17. CASE LateSaveAnswers
  BY <1>17, FlagsOK, Zenon DEF LateSaveAnswers
<1>18. CASE SelectConfig
  BY <1>18, FlagsOK, Zenon DEF SelectConfig
<1>19. CASE Refetch
  BY <1>19, FlagsOK, Zenon DEF Refetch
<1>20. CASE ServeFetch
  BY <1>20, FlagsOK, Zenon DEF ServeFetch
<1>21. CASE FetchArrives
  BY <1>21, FlagsOK, Zenon DEF FetchArrives
<1>22. CASE NewProject
  BY <1>22, FlagsOK, Zenon DEF NewProject
<1>23. CASE ConfirmDelete
  BY <1>23, FlagsOK, Zenon DEF ConfirmDelete
<1>24. CASE DeleteFails
  BY <1>24, FlagsOK, Zenon DEF DeleteFails
<1>25. CASE DeleteSucceeds
  BY <1>25, FlagsOK, Zenon DEF DeleteSucceeds
<1>26. CASE LateDeleteSucceeds
  BY <1>26, FlagsOK, Zenon DEF LateDeleteSucceeds
<1>27. CASE OtherUser
  BY <1>27, FlagsOK, Zenon DEF OtherUser
<1>28. CASE UNCHANGED vars
  BY <1>28, FlagsOK, Zenon
<1> QED BY <1>1, <1>2, <1>3, <1>4, <1>5, <1>6, <1>7, <1>8, <1>9, <1>10, <1>11,
  <1>12, <1>13, <1>14, <1>15, <1>16, <1>17, <1>18, <1>19, <1>20, <1>21, <1>22,
  <1>23, <1>24, <1>25, <1>26, <1>27, <1>28 DEF Next

(* Every step keeps every other variable within its type.                     *)
LEMMA ValuesStep ==
  ASSUME ValuesOK, [Next]_vars
  PROVE  ValuesOK'
<1> USE DEF ValuesOK, ReadDraft, ChangeForm, ReplaceForm, Spend, Unmount, vars, pageVars, draftVars, saveVars, serverVars, history
<1>1. CASE OpenPage
  BY <1>1, ValuesOK, PagesAssumption, StorableContents DEF OpenPage
<1>2. CASE LeavePage
  BY <1>2, ValuesOK, PagesAssumption, StorableContents DEF LeavePage
<1>3. CASE Edit
  BY <1>3, ValuesOK, PagesAssumption, StorableContents DEF Edit
<1>4. CASE ParseArrives
  BY <1>4, ValuesOK, PagesAssumption, StorableContents DEF ParseArrives
<1>5. CASE Validate
  BY <1>5, ValuesOK, PagesAssumption, StorableContents DEF Validate
<1>6. CASE ClickPreview
  BY <1>6, ValuesOK, PagesAssumption, StorableContents DEF ClickPreview
<1>7. CASE PreviewAnswers
  BY <1>7, ValuesOK, PagesAssumption, StorableContents DEF PreviewAnswers
<1>8. CASE Autosave
  BY <1>8, ValuesOK, PagesAssumption, StorableContents DEF Autosave, WriteDraft
<1>9. CASE RestoreDraft
  BY <1>9, ValuesOK, PagesAssumption, StorableContents DEF RestoreDraft
<1>10. CASE DiscardDraft
  BY <1>10, ValuesOK, PagesAssumption, StorableContents DEF DiscardDraft
<1>11. CASE OtherTab
  BY <1>11, ValuesOK, PagesAssumption, StorableContents DEF OtherTab
<1>12. CASE ClickSave
  BY <1>12, ValuesOK, PagesAssumption, StorableContents DEF ClickSave
<1>13. CASE ConfirmOverwrite
  BY <1>13, ValuesOK, PagesAssumption, StorableContents DEF ConfirmOverwrite
<1>14. CASE CancelOverwrite
  BY <1>14, ValuesOK, PagesAssumption, StorableContents DEF CancelOverwrite
<1>15. CASE SaveSucceeds
  BY <1>15, ValuesOK, PagesAssumption, StorableContents DEF SaveSucceeds
<1>16. CASE SaveRefused
  BY <1>16, ValuesOK, PagesAssumption, StorableContents DEF SaveRefused
<1>17. CASE LateSaveAnswers
  BY <1>17, ValuesOK, PagesAssumption, StorableContents DEF LateSaveAnswers
<1>18. CASE SelectConfig
  BY <1>18, ValuesOK, PagesAssumption, StorableContents DEF SelectConfig
<1>19. CASE Refetch
  BY <1>19, ValuesOK, PagesAssumption, StorableContents DEF Refetch
<1>20. CASE ServeFetch
  BY <1>20, ValuesOK, PagesAssumption, StorableContents DEF ServeFetch
<1>21. CASE FetchArrives
  BY <1>21, ValuesOK, PagesAssumption, StorableContents DEF FetchArrives
<1>22. CASE NewProject
  BY <1>22, ValuesOK, PagesAssumption, StorableContents DEF NewProject
<1>23. CASE ConfirmDelete
  BY <1>23, ValuesOK, PagesAssumption, StorableContents DEF ConfirmDelete
<1>24. CASE DeleteFails
  BY <1>24, ValuesOK, PagesAssumption, StorableContents DEF DeleteFails
<1>25. CASE DeleteSucceeds
  BY <1>25, ValuesOK, PagesAssumption, StorableContents DEF DeleteSucceeds
<1>26. CASE LateDeleteSucceeds
  BY <1>26, ValuesOK, PagesAssumption, StorableContents DEF LateDeleteSucceeds
<1>27. CASE OtherUser
  BY <1>27, ValuesOK, PagesAssumption, StorableContents DEF OtherUser
<1>28. CASE UNCHANGED vars
  BY <1>28, ValuesOK, PagesAssumption, StorableContents
<1> QED BY <1>1, <1>2, <1>3, <1>4, <1>5, <1>6, <1>7, <1>8, <1>9, <1>10, <1>11,
  <1>12, <1>13, <1>14, <1>15, <1>16, <1>17, <1>18, <1>19, <1>20, <1>21, <1>22,
  <1>23, <1>24, <1>25, <1>26, <1>27, <1>28 DEF Next

(* No step stores an untouched form as the draft.                             *)
LEMMA PristineStep ==
  ASSUME NoPristineDraft, [Next]_vars
  PROVE  NoPristineDraft'
<1> USE DEF NoPristineDraft, vars, pageVars, draftVars, saveVars, serverVars, history
<1>1. CASE OpenPage
  BY <1>1, NoPristineDraft, PagesAssumption DEF OpenPage
<1>2. CASE LeavePage
  BY <1>2, NoPristineDraft, PagesAssumption DEF LeavePage
<1>3. CASE Edit
  BY <1>3, NoPristineDraft, PagesAssumption DEF Edit
<1>4. CASE ParseArrives
  BY <1>4, NoPristineDraft, PagesAssumption DEF ParseArrives
<1>5. CASE Validate
  BY <1>5, NoPristineDraft, PagesAssumption DEF Validate
<1>6. CASE ClickPreview
  BY <1>6, NoPristineDraft, PagesAssumption DEF ClickPreview
<1>7. CASE PreviewAnswers
  BY <1>7, NoPristineDraft, PagesAssumption DEF PreviewAnswers
<1>8. CASE Autosave
  BY <1>8, NoPristineDraft, PagesAssumption DEF Autosave, WriteDraft
<1>9. CASE RestoreDraft
  BY <1>9, NoPristineDraft, PagesAssumption DEF RestoreDraft
<1>10. CASE DiscardDraft
  BY <1>10, NoPristineDraft, PagesAssumption DEF DiscardDraft
<1>11. CASE OtherTab
  BY <1>11, NoPristineDraft, PagesAssumption DEF OtherTab
<1>12. CASE ClickSave
  BY <1>12, NoPristineDraft, PagesAssumption DEF ClickSave
<1>13. CASE ConfirmOverwrite
  BY <1>13, NoPristineDraft, PagesAssumption DEF ConfirmOverwrite
<1>14. CASE CancelOverwrite
  BY <1>14, NoPristineDraft, PagesAssumption DEF CancelOverwrite
<1>15. CASE SaveSucceeds
  BY <1>15, NoPristineDraft, PagesAssumption DEF SaveSucceeds
<1>16. CASE SaveRefused
  BY <1>16, NoPristineDraft, PagesAssumption DEF SaveRefused
<1>17. CASE LateSaveAnswers
  BY <1>17, NoPristineDraft, PagesAssumption DEF LateSaveAnswers
<1>18. CASE SelectConfig
  BY <1>18, NoPristineDraft, PagesAssumption DEF SelectConfig
<1>19. CASE Refetch
  BY <1>19, NoPristineDraft, PagesAssumption DEF Refetch
<1>20. CASE ServeFetch
  BY <1>20, NoPristineDraft, PagesAssumption DEF ServeFetch
<1>21. CASE FetchArrives
  BY <1>21, NoPristineDraft, PagesAssumption DEF FetchArrives
<1>22. CASE NewProject
  BY <1>22, NoPristineDraft, PagesAssumption DEF NewProject
<1>23. CASE ConfirmDelete
  BY <1>23, NoPristineDraft, PagesAssumption DEF ConfirmDelete
<1>24. CASE DeleteFails
  BY <1>24, NoPristineDraft, PagesAssumption DEF DeleteFails
<1>25. CASE DeleteSucceeds
  BY <1>25, NoPristineDraft, PagesAssumption DEF DeleteSucceeds
<1>26. CASE LateDeleteSucceeds
  BY <1>26, NoPristineDraft, PagesAssumption DEF LateDeleteSucceeds
<1>27. CASE OtherUser
  BY <1>27, NoPristineDraft, PagesAssumption DEF OtherUser
<1>28. CASE UNCHANGED vars
  BY <1>28, NoPristineDraft, PagesAssumption
<1> QED BY <1>1, <1>2, <1>3, <1>4, <1>5, <1>6, <1>7, <1>8, <1>9, <1>10, <1>11,
  <1>12, <1>13, <1>14, <1>15, <1>16, <1>17, <1>18, <1>19, <1>20, <1>21, <1>22,
  <1>23, <1>24, <1>25, <1>26, <1>27, <1>28 DEF Next

(* No step sends a content the schema refuses.                                *)
LEMMA ValidStep ==
  ASSUME OnlyValidSent, [Next]_vars
  PROVE  OnlyValidSent'
<1> USE DEF OnlyValidSent, Unmount, vars, pageVars, draftVars, saveVars, serverVars, history
<1>1. CASE OpenPage
  BY <1>1, OnlyValidSent DEF OpenPage
<1>2. CASE LeavePage
  BY <1>2, OnlyValidSent DEF LeavePage
<1>3. CASE Edit
  BY <1>3, OnlyValidSent DEF Edit
<1>4. CASE ParseArrives
  BY <1>4, OnlyValidSent DEF ParseArrives
<1>5. CASE Validate
  BY <1>5, OnlyValidSent DEF Validate
<1>6. CASE ClickPreview
  BY <1>6, OnlyValidSent DEF ClickPreview
<1>7. CASE PreviewAnswers
  BY <1>7, OnlyValidSent DEF PreviewAnswers
<1>8. CASE Autosave
  BY <1>8, OnlyValidSent DEF Autosave, WriteDraft
<1>9. CASE RestoreDraft
  BY <1>9, OnlyValidSent DEF RestoreDraft
<1>10. CASE DiscardDraft
  BY <1>10, OnlyValidSent DEF DiscardDraft
<1>11. CASE OtherTab
  BY <1>11, OnlyValidSent DEF OtherTab
<1>12. CASE ClickSave
  BY <1>12, OnlyValidSent DEF ClickSave
<1>13. CASE ConfirmOverwrite
  BY <1>13, OnlyValidSent DEF ConfirmOverwrite
<1>14. CASE CancelOverwrite
  BY <1>14, OnlyValidSent DEF CancelOverwrite
<1>15. CASE SaveSucceeds
  BY <1>15, OnlyValidSent DEF SaveSucceeds
<1>16. CASE SaveRefused
  BY <1>16, OnlyValidSent DEF SaveRefused
<1>17. CASE LateSaveAnswers
  BY <1>17, OnlyValidSent DEF LateSaveAnswers
<1>18. CASE SelectConfig
  BY <1>18, OnlyValidSent DEF SelectConfig
<1>19. CASE Refetch
  BY <1>19, OnlyValidSent DEF Refetch
<1>20. CASE ServeFetch
  BY <1>20, OnlyValidSent DEF ServeFetch
<1>21. CASE FetchArrives
  BY <1>21, OnlyValidSent DEF FetchArrives
<1>22. CASE NewProject
  BY <1>22, OnlyValidSent DEF NewProject
<1>23. CASE ConfirmDelete
  BY <1>23, OnlyValidSent DEF ConfirmDelete
<1>24. CASE DeleteFails
  BY <1>24, OnlyValidSent DEF DeleteFails
<1>25. CASE DeleteSucceeds
  BY <1>25, OnlyValidSent DEF DeleteSucceeds
<1>26. CASE LateDeleteSucceeds
  BY <1>26, OnlyValidSent DEF LateDeleteSucceeds
<1>27. CASE OtherUser
  BY <1>27, OnlyValidSent DEF OtherUser
<1>28. CASE UNCHANGED vars
  BY <1>28, OnlyValidSent
<1> QED BY <1>1, <1>2, <1>3, <1>4, <1>5, <1>6, <1>7, <1>8, <1>9, <1>10, <1>11,
  <1>12, <1>13, <1>14, <1>15, <1>16, <1>17, <1>18, <1>19, <1>20, <1>21, <1>22,
  <1>23, <1>24, <1>25, <1>26, <1>27, <1>28 DEF Next

(* While a save is in flight, the form changes only under the disturbed flag. *)
LEMMA SendsStep ==
  ASSUME SaveSendsForm, [Next]_vars
  PROVE  SaveSendsForm'
<1> USE DEF SaveSendsForm, ChangeForm, ReplaceForm, Unmount, vars, pageVars, draftVars, saveVars, serverVars, history
<1>1. CASE OpenPage
  BY <1>1, SaveSendsForm DEF OpenPage
<1>2. CASE LeavePage
  BY <1>2, SaveSendsForm DEF LeavePage
<1>3. CASE Edit
  BY <1>3, SaveSendsForm DEF Edit
<1>4. CASE ParseArrives
  BY <1>4, SaveSendsForm DEF ParseArrives
<1>5. CASE Validate
  BY <1>5, SaveSendsForm DEF Validate
<1>6. CASE ClickPreview
  BY <1>6, SaveSendsForm DEF ClickPreview
<1>7. CASE PreviewAnswers
  BY <1>7, SaveSendsForm DEF PreviewAnswers
<1>8. CASE Autosave
  BY <1>8, SaveSendsForm DEF Autosave, WriteDraft
<1>9. CASE RestoreDraft
  BY <1>9, SaveSendsForm DEF RestoreDraft
<1>10. CASE DiscardDraft
  BY <1>10, SaveSendsForm DEF DiscardDraft
<1>11. CASE OtherTab
  BY <1>11, SaveSendsForm DEF OtherTab
<1>12. CASE ClickSave
  BY <1>12, SaveSendsForm DEF ClickSave
<1>13. CASE ConfirmOverwrite
  BY <1>13, SaveSendsForm DEF ConfirmOverwrite
<1>14. CASE CancelOverwrite
  BY <1>14, SaveSendsForm DEF CancelOverwrite
<1>15. CASE SaveSucceeds
  BY <1>15, SaveSendsForm DEF SaveSucceeds
<1>16. CASE SaveRefused
  BY <1>16, SaveSendsForm DEF SaveRefused
<1>17. CASE LateSaveAnswers
  BY <1>17, SaveSendsForm DEF LateSaveAnswers
<1>18. CASE SelectConfig
  BY <1>18, SaveSendsForm DEF SelectConfig
<1>19. CASE Refetch
  BY <1>19, SaveSendsForm DEF Refetch
<1>20. CASE ServeFetch
  BY <1>20, SaveSendsForm DEF ServeFetch
<1>21. CASE FetchArrives
  BY <1>21, SaveSendsForm DEF FetchArrives
<1>22. CASE NewProject
  BY <1>22, SaveSendsForm DEF NewProject
<1>23. CASE ConfirmDelete
  BY <1>23, SaveSendsForm DEF ConfirmDelete
<1>24. CASE DeleteFails
  BY <1>24, SaveSendsForm DEF DeleteFails
<1>25. CASE DeleteSucceeds
  BY <1>25, SaveSendsForm DEF DeleteSucceeds
<1>26. CASE LateDeleteSucceeds
  BY <1>26, SaveSendsForm DEF LateDeleteSucceeds
<1>27. CASE OtherUser
  BY <1>27, SaveSendsForm DEF OtherUser
<1>28. CASE UNCHANGED vars
  BY <1>28, SaveSendsForm
<1> QED BY <1>1, <1>2, <1>3, <1>4, <1>5, <1>6, <1>7, <1>8, <1>9, <1>10, <1>11,
  <1>12, <1>13, <1>14, <1>15, <1>16, <1>17, <1>18, <1>19, <1>20, <1>21, <1>22,
  <1>23, <1>24, <1>25, <1>26, <1>27, <1>28 DEF Next

(* A saved form arms no autosave and leaves no draft until it changes.        *)
LEMMA GoneStep ==
  ASSUME SavedDraftStaysGone, [Next]_vars
  PROVE  SavedDraftStaysGone'
<1> USE DEF SavedDraftStaysGone, ChangeForm, ReplaceForm, Spend, Unmount, vars, pageVars, draftVars, saveVars, serverVars, history
<1>1. CASE OpenPage
  BY <1>1, SavedDraftStaysGone DEF OpenPage
<1>2. CASE LeavePage
  BY <1>2, SavedDraftStaysGone DEF LeavePage
<1>3. CASE Edit
  BY <1>3, SavedDraftStaysGone DEF Edit
<1>4. CASE ParseArrives
  BY <1>4, SavedDraftStaysGone DEF ParseArrives
<1>5. CASE Validate
  BY <1>5, SavedDraftStaysGone DEF Validate
<1>6. CASE ClickPreview
  BY <1>6, SavedDraftStaysGone DEF ClickPreview
<1>7. CASE PreviewAnswers
  BY <1>7, SavedDraftStaysGone DEF PreviewAnswers
<1>8. CASE Autosave
  BY <1>8, SavedDraftStaysGone DEF Autosave, WriteDraft
<1>9. CASE RestoreDraft
  BY <1>9, SavedDraftStaysGone DEF RestoreDraft
<1>10. CASE DiscardDraft
  BY <1>10, SavedDraftStaysGone DEF DiscardDraft
<1>11. CASE OtherTab
  BY <1>11, SavedDraftStaysGone DEF OtherTab
<1>12. CASE ClickSave
  BY <1>12, SavedDraftStaysGone DEF ClickSave
<1>13. CASE ConfirmOverwrite
  BY <1>13, SavedDraftStaysGone DEF ConfirmOverwrite
<1>14. CASE CancelOverwrite
  BY <1>14, SavedDraftStaysGone DEF CancelOverwrite
<1>15. CASE SaveSucceeds
  BY <1>15, SavedDraftStaysGone DEF SaveSucceeds
<1>16. CASE SaveRefused
  BY <1>16, SavedDraftStaysGone DEF SaveRefused
<1>17. CASE LateSaveAnswers
  BY <1>17, SavedDraftStaysGone DEF LateSaveAnswers
<1>18. CASE SelectConfig
  BY <1>18, SavedDraftStaysGone DEF SelectConfig
<1>19. CASE Refetch
  BY <1>19, SavedDraftStaysGone DEF Refetch
<1>20. CASE ServeFetch
  BY <1>20, SavedDraftStaysGone DEF ServeFetch
<1>21. CASE FetchArrives
  BY <1>21, SavedDraftStaysGone DEF FetchArrives
<1>22. CASE NewProject
  BY <1>22, SavedDraftStaysGone DEF NewProject
<1>23. CASE ConfirmDelete
  BY <1>23, SavedDraftStaysGone DEF ConfirmDelete
<1>24. CASE DeleteFails
  BY <1>24, SavedDraftStaysGone DEF DeleteFails
<1>25. CASE DeleteSucceeds
  BY <1>25, SavedDraftStaysGone DEF DeleteSucceeds
<1>26. CASE LateDeleteSucceeds
  BY <1>26, SavedDraftStaysGone DEF LateDeleteSucceeds
<1>27. CASE OtherUser
  BY <1>27, SavedDraftStaysGone DEF OtherUser
<1>28. CASE UNCHANGED vars
  BY <1>28, SavedDraftStaysGone
<1> QED BY <1>1, <1>2, <1>3, <1>4, <1>5, <1>6, <1>7, <1>8, <1>9, <1>10, <1>11,
  <1>12, <1>13, <1>14, <1>15, <1>16, <1>17, <1>18, <1>19, <1>20, <1>21, <1>22,
  <1>23, <1>24, <1>25, <1>26, <1>27, <1>28 DEF Next

(* The form of a mounted page stays protected: by the timer, the draft or the *)
(* save, which was the form's own as long as nothing disturbed it.            *)
LEMMA KeptStep ==
  ASSUME SaveSendsForm, FormIsKept, [Next]_vars
  PROVE  FormIsKept'
<1> USE DEF FormIsKept, SaveSendsForm, Mounted, ChangeForm, ReplaceForm, Spend, Unmount, vars, pageVars, draftVars, saveVars, serverVars, history
<1>1. CASE OpenPage
  BY <1>1, SaveSendsForm, FormIsKept DEF OpenPage
<1>2. CASE LeavePage
  BY <1>2, SaveSendsForm, FormIsKept DEF LeavePage
<1>3. CASE Edit
  BY <1>3, SaveSendsForm, FormIsKept DEF Edit
<1>4. CASE ParseArrives
  BY <1>4, SaveSendsForm, FormIsKept DEF ParseArrives
<1>5. CASE Validate
  BY <1>5, SaveSendsForm, FormIsKept DEF Validate
<1>6. CASE ClickPreview
  BY <1>6, SaveSendsForm, FormIsKept DEF ClickPreview
<1>7. CASE PreviewAnswers
  BY <1>7, SaveSendsForm, FormIsKept DEF PreviewAnswers
<1>8. CASE Autosave
  BY <1>8, SaveSendsForm, FormIsKept DEF Autosave, WriteDraft
<1>9. CASE RestoreDraft
  BY <1>9, SaveSendsForm, FormIsKept DEF RestoreDraft
<1>10. CASE DiscardDraft
  BY <1>10, SaveSendsForm, FormIsKept DEF DiscardDraft
<1>11. CASE OtherTab
  BY <1>11, SaveSendsForm, FormIsKept DEF OtherTab
<1>12. CASE ClickSave
  BY <1>12, SaveSendsForm, FormIsKept DEF ClickSave
<1>13. CASE ConfirmOverwrite
  BY <1>13, SaveSendsForm, FormIsKept DEF ConfirmOverwrite
<1>14. CASE CancelOverwrite
  BY <1>14, SaveSendsForm, FormIsKept DEF CancelOverwrite
<1>15. CASE SaveSucceeds
  BY <1>15, SaveSendsForm, FormIsKept DEF SaveSucceeds
<1>16. CASE SaveRefused
  BY <1>16, SaveSendsForm, FormIsKept DEF SaveRefused
<1>17. CASE LateSaveAnswers
  BY <1>17, SaveSendsForm, FormIsKept DEF LateSaveAnswers
<1>18. CASE SelectConfig
  BY <1>18, SaveSendsForm, FormIsKept DEF SelectConfig
<1>19. CASE Refetch
  BY <1>19, SaveSendsForm, FormIsKept DEF Refetch
<1>20. CASE ServeFetch
  BY <1>20, SaveSendsForm, FormIsKept DEF ServeFetch
<1>21. CASE FetchArrives
  BY <1>21, SaveSendsForm, FormIsKept DEF FetchArrives
<1>22. CASE NewProject
  BY <1>22, SaveSendsForm, FormIsKept DEF NewProject
<1>23. CASE ConfirmDelete
  BY <1>23, SaveSendsForm, FormIsKept DEF ConfirmDelete
<1>24. CASE DeleteFails
  BY <1>24, SaveSendsForm, FormIsKept DEF DeleteFails
<1>25. CASE DeleteSucceeds
  BY <1>25, SaveSendsForm, FormIsKept DEF DeleteSucceeds
<1>26. CASE LateDeleteSucceeds
  BY <1>26, SaveSendsForm, FormIsKept DEF LateDeleteSucceeds
<1>27. CASE OtherUser
  BY <1>27, SaveSendsForm, FormIsKept DEF OtherUser
<1>28. CASE UNCHANGED vars
  BY <1>28, SaveSendsForm, FormIsKept
<1> QED BY <1>1, <1>2, <1>3, <1>4, <1>5, <1>6, <1>7, <1>8, <1>9, <1>10, <1>11,
  <1>12, <1>13, <1>14, <1>15, <1>16, <1>17, <1>18, <1>19, <1>20, <1>21, <1>22,
  <1>23, <1>24, <1>25, <1>26, <1>27, <1>28 DEF Next

(* The type invariant: in particular nothing malformed is ever restored into a *)
(* form.                                                                      *)
THEOREM TypesHold == Spec => []TypeOK
<1>1. Init => TypeOK
  BY InitHolds
<1>2. TypeOK /\ [Next]_vars => TypeOK'
  <2> SUFFICES ASSUME TypeOK, [Next]_vars PROVE TypeOK'
    OBVIOUS
  <2>1. FlagsOK /\ ValuesOK
    BY TypeInParts
  <2>2. FlagsOK' /\ ValuesOK'
    BY <2>1, FlagsStep, ValuesStep
  <2> QED BY <2>2 DEF TypeOK, FlagsOK, ValuesOK
<1> QED BY <1>1, <1>2, PTL DEF Spec

(* Opening a page or starting anew never replaces a stored draft by the empty *)
(* form (writeDraft).                                                         *)
THEOREM DraftIsNeverPristine == Spec => []NoPristineDraft
<1>1. Init => NoPristineDraft
  BY InitHolds
<1>2. NoPristineDraft /\ [Next]_vars => NoPristineDraft'
  BY PristineStep
<1> QED BY <1>1, <1>2, PTL DEF Spec

(* Every configuration sent with a save or a preview was accepted by the schema, *)
(* whatever the debounced validation said.                                    *)
THEOREM OnlyValidReachesServer == Spec => []OnlyValidSent
<1>1. Init => OnlyValidSent
  BY InitHolds
<1>2. OnlyValidSent /\ [Next]_vars => OnlyValidSent'
  BY ValidStep
<1> QED BY <1>1, <1>2, PTL DEF Spec

(* The content of the page's own save is the form on screen unless something  *)
(* unlocked changed it (the fieldset disabled while saving).                  *)
THEOREM SaveSendsTheForm == Spec => []SaveSendsForm
<1>1. Init => SaveSendsForm
  BY InitHolds
<1>2. SaveSendsForm /\ [Next]_vars => SaveSendsForm'
  BY SendsStep
<1> QED BY <1>1, <1>2, PTL DEF Spec

(* A draft removed by a save is not resurrected by an autosave of the saved   *)
(* form.                                                                      *)
THEOREM SavedDraftIsGone == Spec => []SavedDraftStaysGone
<1>1. Init => SavedDraftStaysGone
  BY InitHolds
<1>2. SavedDraftStaysGone /\ [Next]_vars => SavedDraftStaysGone'
  BY GoneStep
<1> QED BY <1>1, <1>2, PTL DEF Spec

(* A touched form on screen is about to be stored, stored or saved.           *)
THEOREM TouchedFormIsKept == Spec => []FormIsKept
<1> DEFINE IInv == SaveSendsForm /\ FormIsKept
<1>1. Init => IInv
  BY InitHolds
<1>2. IInv /\ [Next]_vars => IInv'
  BY SendsStep, KeptStep
<1>3. IInv => FormIsKept
  OBVIOUS
<1> QED BY <1>1, <1>2, <1>3, PTL DEF Spec
==============================================================================
