----------------------------- MODULE ConfigPages -----------------------------
(* The two pages that edit a configuration, the builder (ConfigBuilder.tsx)   *)
(* and the wizard (WizardPage.tsx), over one browser tab: the draft they share*)
(* in localStorage, its debounced autosave, restoring and discarding it,      *)
(* saving to the server with the overwrite dialog, loading, deleting and      *)
(* starting anew, and the gate of the preview. A form is one value of         *)
(* Contents; ConfigEditor says how it is edited. There is one project name, so*)
(* a save without "overwrite" meets a 409 whenever the server has it.         *)
EXTENDS Naturals

CONSTANTS
    Contents,   \* what a form may hold
    Pristine,   \* emptyState(), among them
    Persistable,\* toPersistable(): a content without the File objects it holds
    Valid,      \* the contents toConfig() accepts
    Unusable,   \* stored texts that are no draft: no JSON, a wrong shape, another version
    None,       \* no draft, no configuration, nothing in flight
    Malformed,  \* what readDraft() makes of them
    MaxChanges  \* changes of a form, and acts of others, in a behaviour

ASSUME PagesAssumption ==
    /\ Pristine \in Contents
    /\ Valid \subseteq Contents \ {Pristine}
    /\ Persistable \in [Contents -> Contents]
    /\ Persistable[Pristine] = Pristine
    /\ \A x \in Contents : Persistable[Persistable[x]] = Persistable[x]
    /\ \A x \in Valid : Persistable[x] \in Valid
    /\ Unusable \cap (Contents \cup {None}) = {}
    /\ None \notin Contents /\ Malformed \notin Contents /\ None # Malformed
    /\ MaxChanges \in Nat

VARIABLES
    page,       \* the route shown
    url,        \* whether the builder's address names the configuration (?config=)
    form,       \* the form's state
    timer,      \* an autosave of the current form is pending
    checked,    \* the form the live validation last looked at (500 ms behind)
    parsing,    \* a dropped file is being parsed; the answer changes the form
    stored,     \* the draft in localStorage
    writer,     \* who wrote it; "elsewhere" is another tab
    banner,     \* the draft found when the page was opened and not answered yet
    save,       \* the content of the page's own save in flight
    force,      \* whether that save overwrites
    late,       \* the content of a save whose page has been left
    dialog,     \* the overwrite question is on screen
    deleting,   \* a delete in flight: "no", the page's "own", or of a page that was "left"
    preview,    \* the content of a preview in flight
    fetch,      \* "idle", "asked", or "served" with the answer in fetched
    fetched,
    cache,      \* the query cache's copy of the configuration
    server,     \* the configuration the server holds
    saved,      \* history: what the last save sent, None once the form changed
    dropped,    \* history: the storage was full when the form was to be written
    disturbed,  \* history: since the form changed its draft was removed or replaced
                \* by someone else, or it changed under a save in flight
    changes
pageVars == <<page, url, form, timer, checked, parsing>>
draftVars == <<stored, writer, banner>>
saveVars == <<save, force, late, dialog>>
serverVars == <<deleting, preview, fetch, fetched, cache, server>>
history == <<saved, dropped, disturbed, changes>>
vars == <<pageVars, draftVars, saveVars, serverVars, history>>

Mounted == page \in {"builder", "wizard"}
Spend == changes < MaxChanges /\ changes' = changes + 1

(* The contents that hold no File object: what is stored, here or there       *)
Storable == {Persistable[x] : x \in Contents}

(* readDraft: a text it cannot use is kept, and reported instead of a form.   *)
ReadDraft == IF stored \in Unusable THEN Malformed ELSE stored

MutantTimerNotArmed(x) ==
    /\ form' = x
    /\ timer' = FALSE
    /\ saved' = None
    /\ dropped' = FALSE

(* setState: the autosave of the previous form is cancelled, a new one armed. *)
ChangeForm(x) ==
    /\ form' = x
    /\ timer' = TRUE
    /\ saved' = None
    /\ dropped' = FALSE

(* A change that no lock of the fields holds back while a save is in flight.  *)
ReplaceForm(x) ==
    /\ ChangeForm(x)
    /\ disturbed' = (save # None)

-----------------------------------------------------------------------------
(* Opening and leaving a page                                                 *)

(* A page starts from the empty form and asks about a stored draft, the       *)
(* builder only when its address names no configuration.                      *)
OpenPage ==
    /\ page = "away"
    /\ page' \in {"builder", "wizard"}
    /\ url' \in {FALSE, page' = "builder"}
    /\ IF url' /\ cache # None THEN ReplaceForm(cache) ELSE ReplaceForm(Pristine)
    /\ checked' = Pristine
    /\ parsing' = FALSE
    /\ banner' = IF url' THEN None ELSE ReadDraft
    /\ fetch' = IF url' /\ cache = None /\ fetch = "idle" THEN "asked" ELSE fetch
    /\ UNCHANGED <<stored, writer, saveVars, deleting, preview, fetched, cache, server, changes>>

(* Leaving cancels the autosave; a save or a delete in flight goes on.        *)
Unmount ==
    /\ save # None => late = None
    /\ form' = Pristine /\ checked' = Pristine
    /\ timer' = FALSE /\ parsing' = FALSE
    /\ banner' = None /\ dialog' = FALSE
    /\ save' = None /\ late' = IF save # None THEN save ELSE late
    /\ preview' = None
    /\ saved' = None /\ dropped' = FALSE /\ disturbed' = FALSE

LeavePage ==
    /\ Mounted
    /\ page' = "away" /\ url' = FALSE
    /\ Unmount
    /\ deleting' = IF deleting = "own" THEN "left" ELSE deleting
    /\ UNCHANGED <<stored, writer, force, fetch, fetched, cache, server, changes>>

-----------------------------------------------------------------------------
(* Editing, validation and preview                                            *)

MutantEditWhileSaving == \E x \in Contents :
    /\ Mounted
    /\ Spend /\ ChangeForm(x)
    /\ disturbed' = FALSE
    /\ parsing' \in {parsing, TRUE}
    /\ UNCHANGED <<page, url, checked, draftVars, saveVars, serverVars>>

(* The fields are locked while a save is in flight. Dropping a file is an edit*)
(* that starts a parse.                                                       *)
Edit == \E x \in Contents :
    /\ Mounted /\ save = None
    /\ Spend /\ ChangeForm(x)
    /\ disturbed' = FALSE
    /\ parsing' \in {parsing, TRUE}
    /\ UNCHANGED <<page, url, checked, draftVars, saveVars, serverVars>>

(* The answer of a parse is not held back by the lock.                        *)
ParseArrives == \E x \in Contents \ {Pristine} :
    /\ Mounted /\ parsing
    /\ Spend /\ ReplaceForm(x)
    /\ parsing' = FALSE
    /\ UNCHANGED <<page, url, checked, draftVars, saveVars, serverVars>>

Validate ==
    /\ page = "builder" /\ checked # form
    /\ checked' = form
    /\ UNCHANGED <<page, url, form, timer, parsing, draftVars, saveVars, serverVars, history>>

MutantPreviewUnchecked ==
    /\ page = "builder" /\ checked \in Valid /\ preview = None
    /\ preview' = form
    /\ UNCHANGED <<pageVars, draftVars, saveVars, deleting, fetch, fetched, cache, server,
                   history>>

(* The button follows the debounced validation, so the click checks again.    *)
ClickPreview ==
    /\ page = "builder" /\ checked \in Valid /\ preview = None
    /\ form \in Valid
    /\ preview' = form
    /\ UNCHANGED <<pageVars, draftVars, saveVars, deleting, fetch, fetched, cache, server,
                   history>>

PreviewAnswers ==
    /\ preview # None
    /\ preview' = None
    /\ UNCHANGED <<pageVars, draftVars, saveVars, deleting, fetch, fetched, cache, server,
                   history>>

-----------------------------------------------------------------------------
(* The draft                                                                  *)

MutantWritePristine(x, by) ==
    \/ stored' = Persistable[x] /\ writer' = by /\ dropped' = FALSE
    \/ dropped' = TRUE /\ UNCHANGED <<stored, writer>>

(* writeDraft: a form that is untouched but for its File objects is never     *)
(* written; a full storage is ignored.                                        *)
WriteDraft(x, by) ==
    IF Persistable[x] = Pristine THEN UNCHANGED <<stored, writer, dropped>>
    ELSE \/ stored' = Persistable[x] /\ writer' = by /\ dropped' = FALSE
         \/ dropped' = TRUE /\ UNCHANGED <<stored, writer>>

Autosave ==
    /\ timer
    /\ timer' = FALSE
    /\ WriteDraft(form, IF page = "wizard" THEN "wizard" ELSE "workbench")
    /\ UNCHANGED <<page, url, form, checked, parsing, banner, saveVars, serverVars,
                   saved, disturbed, changes>>

MutantRestoreMalformed ==
    /\ banner # None
    /\ ReplaceForm(banner)
    /\ banner' = None
    /\ parsing' = FALSE
    /\ UNCHANGED <<page, url, checked, stored, writer, saveVars, serverVars, changes>>

(* Neither button of the banner is locked by a save in flight.                *)
RestoreDraft ==
    /\ banner \in Contents
    /\ ReplaceForm(banner)
    /\ banner' = None
    /\ parsing' = FALSE
    /\ UNCHANGED <<page, url, checked, stored, writer, saveVars, serverVars, changes>>

(* Discarding removes whatever is stored by then, the current form's draft    *)
(* included, and leaves the autosave pending.                                 *)
DiscardDraft ==
    /\ banner # None
    /\ stored' = None /\ banner' = None
    /\ disturbed' = TRUE
    /\ UNCHANGED <<pageVars, writer, saveVars, serverVars, saved, dropped, changes>>

(* Another tab writes or clears the draft.                                    *)
OtherTab ==
    /\ Spend
    /\ stored' \in (Storable \ {Pristine}) \cup {None}
    /\ writer' = "elsewhere"
    /\ disturbed' = TRUE
    /\ UNCHANGED <<pageVars, banner, saveVars, serverVars, saved, dropped>>

-----------------------------------------------------------------------------
(* Saving                                                                     *)

ClickSave ==
    /\ Mounted /\ save = None /\ ~dialog
    /\ form \in Valid
    /\ save' = form /\ force' = FALSE
    /\ UNCHANGED <<pageVars, draftVars, late, dialog, serverVars, history>>

(* Confirming takes the form as it is by then, not as it was first sent.      *)
ConfirmOverwrite ==
    /\ dialog /\ save = None
    /\ dialog' = FALSE
    /\ IF form \in Valid THEN save' = form /\ force' = TRUE
       ELSE UNCHANGED <<save, force>>
    /\ UNCHANGED <<pageVars, draftVars, late, serverVars, history>>

CancelOverwrite ==
    /\ dialog
    /\ dialog' = FALSE
    /\ UNCHANGED <<pageVars, draftVars, save, force, late, serverVars, history>>

MutantTimerKept ==
    /\ save # None /\ (force \/ server = None)
    /\ server' = Persistable[save]
    /\ stored' = None
    /\ saved' = save /\ save' = None
    /\ UNCHANGED <<pageVars, writer, banner, force, late, dialog, deleting, preview, fetch,
                   fetched, cache, dropped, disturbed, changes>>

(* Success cancels the pending autosave before it clears the draft. The query *)
(* cache keeps its old copy: only the list of names is invalidated.           *)
SaveSucceeds ==
    /\ save # None /\ (force \/ server = None)
    /\ server' = Persistable[save]
    /\ timer' = FALSE
    /\ stored' = None
    /\ saved' = save /\ save' = None
    /\ UNCHANGED <<page, url, form, checked, parsing, writer, banner, force, late, dialog,
                   deleting, preview, fetch, fetched, cache, dropped, disturbed, changes>>

SaveRefused ==
    /\ save # None
    /\ save' = None
    /\ \/ ~force /\ server # None /\ dialog' = TRUE
       \/ UNCHANGED dialog
    /\ UNCHANGED <<pageVars, draftVars, force, late, serverVars, history>>

(* The save of a page that was left: on success it clears the draft of        *)
(* whichever page has written one since.                                      *)
LateSaveAnswers ==
    /\ late # None
    /\ late' = None
    /\ \/ server' = Persistable[late] /\ stored' = None /\ disturbed' = TRUE
       \/ UNCHANGED <<server, stored, disturbed>>
    /\ UNCHANGED <<pageVars, writer, banner, save, force, dialog, deleting, preview, fetch,
                   fetched, cache, saved, dropped, changes>>

-----------------------------------------------------------------------------
(* The builder: load, new project, delete                                     *)

SelectConfig ==
    /\ page = "builder" /\ ~url
    /\ url' = TRUE
    /\ IF cache # None
       THEN ReplaceForm(cache) /\ parsing' = FALSE /\ UNCHANGED fetch
       ELSE /\ fetch' = IF fetch = "idle" THEN "asked" ELSE fetch
            /\ UNCHANGED <<form, timer, parsing, saved, dropped, disturbed>>
    /\ UNCHANGED <<page, checked, draftVars, saveVars, deleting, preview, fetched, cache,
                   server, changes>>

(* A copy older than 30 seconds is fetched again when the window gets focus.  *)
Refetch ==
    /\ page = "builder" /\ url /\ fetch = "idle"
    /\ Spend
    /\ fetch' = "asked"
    /\ UNCHANGED <<pageVars, draftVars, saveVars, deleting, preview, fetched, cache, server,
                   saved, dropped, disturbed>>

ServeFetch ==
    /\ fetch = "asked"
    /\ fetch' = "served" /\ fetched' = server
    /\ UNCHANGED <<pageVars, draftVars, saveVars, deleting, preview, cache, server, history>>

(* A copy that differs from the cached one replaces the form, edited or not.  *)
FetchArrives ==
    /\ fetch = "served"
    /\ fetch' = "idle" /\ fetched' = None
    /\ cache' = IF fetched # None THEN fetched ELSE cache
    /\ IF fetched \notin {None, cache} /\ page = "builder" /\ url
       THEN ReplaceForm(fetched) /\ parsing' = FALSE
       ELSE UNCHANGED <<form, timer, parsing, saved, dropped, disturbed>>
    /\ UNCHANGED <<page, url, checked, draftVars, saveVars, deleting, preview, server, changes>>

NewProject ==
    /\ page = "builder"
    /\ ReplaceForm(Pristine)
    /\ parsing' = FALSE
    /\ url' = FALSE
    /\ banner' = IF url /\ stored # None THEN ReadDraft ELSE banner
    /\ UNCHANGED <<page, checked, stored, writer, saveVars, serverVars, changes>>

ConfirmDelete ==
    /\ page = "builder" /\ url /\ deleting = "no"
    /\ Spend
    /\ deleting' = "own"
    /\ UNCHANGED <<pageVars, draftVars, saveVars, preview, fetch, fetched, cache, server,
                   saved, dropped, disturbed>>

DeleteFails ==
    /\ deleting # "no"
    /\ deleting' = "no"
    /\ UNCHANGED <<pageVars, draftVars, saveVars, preview, fetch, fetched, cache, server, history>>

DeleteSucceeds ==
    /\ deleting = "own"
    /\ deleting' = "no" /\ server' = None
    /\ ReplaceForm(Pristine) /\ parsing' = FALSE /\ url' = FALSE
    /\ banner' = IF url /\ stored # None THEN ReadDraft ELSE banner
    /\ UNCHANGED <<page, checked, stored, writer, saveVars, preview, fetch, fetched, cache,
                   changes>>

(* The handler of a page that was left still resets the address: whatever is  *)
(* open by then gives way to the builder.                                     *)
LateDeleteSucceeds ==
    /\ deleting = "left"
    /\ deleting' = "no" /\ server' = None
    /\ page' = "builder" /\ url' = FALSE
    /\ IF page = "builder"
       THEN /\ banner' = IF url /\ stored # None THEN ReadDraft ELSE banner
            /\ UNCHANGED <<form, timer, checked, parsing, save, late, dialog, preview, saved,
                           dropped, disturbed>>
       ELSE /\ save # None => late = None
            /\ ChangeForm(Pristine) /\ disturbed' = FALSE
            /\ checked' = Pristine /\ parsing' = FALSE
            /\ banner' = ReadDraft /\ dialog' = FALSE /\ preview' = None
            /\ save' = None /\ late' = IF save # None THEN save ELSE late
    /\ UNCHANGED <<stored, writer, force, fetch, fetched, cache, changes>>

(* Another user saves the configuration.                                      *)
OtherUser ==
    /\ Spend
    /\ server' \in Valid \cap Storable
    /\ UNCHANGED <<pageVars, draftVars, saveVars, deleting, preview, fetch, fetched, cache,
                   saved, dropped, disturbed>>

-----------------------------------------------------------------------------
Init ==
    /\ page = "away" /\ url = FALSE /\ form = Pristine /\ timer = FALSE
    /\ checked = Pristine /\ parsing = FALSE
    /\ stored \in {None} \cup Unusable \cup (Valid \cap Storable)
    /\ writer = "elsewhere" /\ banner = None
    /\ save = None /\ force = FALSE /\ late = None /\ dialog = FALSE
    /\ deleting = "no" /\ preview = None /\ fetch = "idle" /\ fetched = None
    /\ cache = None /\ server \in (Valid \cap Storable) \cup {None}
    /\ saved = None /\ dropped = FALSE /\ disturbed = FALSE /\ changes = 0

Next ==
    \/ OpenPage \/ LeavePage
    \/ Edit \/ ParseArrives \/ Validate \/ ClickPreview \/ PreviewAnswers
    \/ Autosave \/ RestoreDraft \/ DiscardDraft \/ OtherTab
    \/ ClickSave \/ ConfirmOverwrite \/ CancelOverwrite
    \/ SaveSucceeds \/ SaveRefused \/ LateSaveAnswers
    \/ SelectConfig \/ Refetch \/ ServeFetch \/ FetchArrives
    \/ NewProject \/ ConfirmDelete \/ DeleteFails \/ DeleteSucceeds \/ LateDeleteSucceeds
    \/ OtherUser

Spec == Init /\ [][Next]_vars

-----------------------------------------------------------------------------
TypeOK ==
    /\ page \in {"away", "builder", "wizard"}
    /\ url \in BOOLEAN /\ timer \in BOOLEAN /\ parsing \in BOOLEAN
    /\ form \in Contents /\ checked \in Contents
    /\ stored \in Storable \cup {None} \cup Unusable
    /\ writer \in {"wizard", "workbench", "elsewhere"}
    /\ banner \in Storable \cup {None, Malformed}
    /\ save \in Contents \cup {None} /\ late \in Contents \cup {None}
    /\ force \in BOOLEAN /\ dialog \in BOOLEAN /\ deleting \in {"no", "own", "left"}
    /\ preview \in Contents \cup {None}
    /\ fetch \in {"idle", "asked", "served"} /\ fetched \in Storable \cup {None}
    /\ cache \in Storable \cup {None} /\ server \in Storable \cup {None}
    /\ saved \in Contents \cup {None}
    /\ dropped \in BOOLEAN /\ disturbed \in BOOLEAN
    /\ changes \in 0..MaxChanges

(* Opening a page, or starting anew, never costs the user a stored draft: an  *)
(* untouched form is never written over it.                                   *)
NoPristineDraft == stored # Pristine

(* What has been saved is not resurrected as a draft: while the form is as it *)
(* was saved, no autosave of it is pending and no draft of these pages exists.*)
SavedDraftStaysGone ==
    saved # None => ~timer /\ (stored = None \/ writer = "elsewhere" \/ disturbed)

(* While a save is in flight the form on screen is the content being saved,   *)
(* unless the answer of a parse, a restored draft or a loaded configuration   *)
(* came in between: no typed edit can be lost by the save's success.          *)
SaveSendsForm == save # None /\ ~disturbed => form = save

(* Nothing on screen goes unprotected: a form touched in anything but its File*)
(* objects is about to be written, is the stored draft (without them), or is  *)
(* what was saved - unless the storage was full or someone else disturbed it  *)
(* since it changed.                                                          *)
FormIsKept ==
    Mounted /\ Persistable[form] # Pristine /\ ~timer /\ ~dropped /\ ~disturbed =>
        saved = form \/ (stored = Persistable[form] /\ writer # "elsewhere")

(* Only contents the schema accepts are sent to the server, though the preview*)
(* button follows a validation of an older form and the overwrite dialog one  *)
(* of an older save.                                                          *)
OnlyValidSent == {save, late, preview} \subseteq Valid \cup {None}
==============================================================================
