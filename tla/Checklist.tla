------------------------------ MODULE Checklist ------------------------------
(* The editor with the checklist beside it (ChecklistRail in the builder, the *)
(* steps of the wizard) and the builder's preview button. The builder counts  *)
(* the issues of the form it had when it was last left alone for half a second*)
(* (useDebounce), while everything else the checklist and the button look at  *)
(* is the form on screen; the wizard counts those of the form on screen.      *)
EXTENDS ConfigEditor

VARIABLE checked   \* the issues of debouncedState, the form the builder counts them in
checklistVars == <<editorVars, checked>>

IssuesNow  == Issues(ToConfig(form))
LiveIssues == IF entry = "builder" THEN checked ELSE IssuesNow
StepStates == DeriveStepStates(form, CountIssuesByStep(LiveIssues))

(* previewEnabled                                                             *)
CanPreview ==
    /\ form.target.file # NoFile
    /\ \E i \in DOMAIN form.sources : form.sources[i].file # NoFile
    /\ LiveIssues = {}

(* The timer every change of the form has started anew fires (a validation    *)
(* that finds the issues counted already changes nothing).                    *)
Validate ==
    /\ entry = "builder" /\ checked # IssuesNow
    /\ checked' = IssuesNow
    /\ UNCHANGED editorVars

(* The builder mounts with an empty form, and is given the fetched one then.  *)
ChecklistInit == EditorInit /\ checked = Issues(ToConfig(EmptyState))

ChecklistNext ==
    \/ EditorNext /\ UNCHANGED checked
    \/ Validate

ChecklistSpec == ChecklistInit /\ [][ChecklistNext]_checklistVars

-----------------------------------------------------------------------------
(* When the checklist shows every step as done, although it may count the     *)
(* issues of an earlier form, the builder's preview is on, the wizard's form  *)
(* is one the browser accepts, and there is a file to send for every source of*)
(* the configuration.                                                         *)
DoneFormPreviews ==
    (\A step \in Steps : StepStates[step] = "done") =>
        /\ IF entry = "builder" THEN CanPreview ELSE BrowserAccepts(form)
        /\ PreviewFiles(form) = Aliases(ToConfig(form))

(* A row counts as done by the rule the schema checks it by: hasExactlyOneMode*)
(* is a "Mirror of the mapping XOR rule in schemas.ts" (previewHelpers.ts).   *)
ModesMirrorSchema == \A m \in DOMAIN form.mappings :
    HasExactlyOneMode(form.mappings[m]) <=> ModesSet(ToConfig(form).mappings[m]) = 1
=============================================================================
