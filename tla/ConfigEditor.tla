---------------------------- MODULE ConfigEditor ----------------------------
(* The form of one configuration while a user edits it: the panes of the      *)
(* builder and the steps of the wizard (SourcesTree, SheetHeaderPicker,       *)
(* FileDropzone, JoinsEditor, MappingsList, MappingRow, ConditionChip). Each  *)
(* file dropped starts a request that parses it on the server; the answer     *)
(* comes while the user goes on editing, or after the file was replaced or    *)
(* its source removed. A picker is keyed by the position of its source.       *)
EXTENDS ConfigForm, FiniteSetsExt

CONSTANTS
    Files,          \* the workbooks a user may drop
    Book,           \* the sheets of a workbook: a sequence of [name, rows], a row being its cells
    PreviewRows,    \* rows of a sheet the server sends at a time
    Saved,          \* configurations stored on the server
    TypedNames, TypedAliases, TypedTargets, TypedLiterals, TypedAddresses,
    MaxSources, MaxJoins, MaxMappings, MaxConditions,
    MaxEdits        \* edits by the user in a behaviour

(* Every workbook has a sheet, and no two sheets of one name.                 *)
ASSUME BookAssumption ==
    /\ Files \subseteq STRING /\ Absent \notin Files
    /\ Null # Absent /\ Null \notin [alias : STRING, col : STRING]
    /\ NoFile \notin [name : Files, id : 0..MaxEdits]
    /\ \A f \in Files :
          /\ Book[f] \in Seq([name : STRING, rows : Seq(Seq(STRING))])
          /\ Book[f] # <<>>
          /\ \A s, t \in DOMAIN Book[f] : Book[f][s].name = Book[f][t].name => s = t

(* The server stores nothing its schema refuses.                              *)
ASSUME SavedAssumption ==
    LET Refs == [alias : STRING, col : STRING]
    IN  \A c \in Saved :
          /\ ServerAccepts(c) /\ Len(c.sources) <= MaxSources
          /\ c.target \in [sheet : STRING, header_row : Nat \ {0}, columns : Seq(STRING),
                           sample : Files \cup {Absent}]
          /\ c.sources \in Seq([alias : STRING, role : {"primary", "lookup"}, sheet : STRING,
                                header_row : Nat \ {0}, sample : Files \cup {Absent}])
          /\ c.joins \in Seq([left : Refs, right : Refs])
          /\ c.mappings \in Seq([target : STRING, source : Refs \cup {Absent},
                                 literal : STRING \cup {Absent},
                                 source_cell : [alias : STRING, address : STRING] \cup {Absent},
                                 conditions : Seq(Refs)])

ASSUME EditorAssumption ==
    /\ PreviewRows \in Nat \ {0}
    /\ MaxSources \in Nat \ {0} /\ MaxEdits \in Nat

Target == 0
Keys == 0..MaxSources
NoPicker == [file |-> NoFile, sheets |-> <<>>, ask |-> <<>>, late |-> {},
             more |-> <<>>, loading |-> FALSE, error |-> FALSE]

VARIABLES
    entry,    \* the page: "builder" or "wizard"
    form,     \* FormState
    picker,   \* SheetHeaderPicker of each position, NoPicker when none is mounted
    edits,    \* edits made so far
    disturbed \* history: an answer for a source has replaced a newer form, or removing a
              \* source has moved another one that shares its File object into its place
editorVars == <<entry, form, picker, edits, disturbed>>

(* Every drop makes a File object of its own, also of a file dropped before.  *)
FileObject(n) == [name |-> n, id |-> edits]

(* The part of a form that a position shows                                   *)
Part(f, k) ==
    IF k = Target THEN f.target
    ELSE IF k \in DOMAIN f.sources THEN f.sources[k] ELSE NewSource("", "lookup")

Fields(f) ==
    FlattenSeq([i \in DOMAIN f.sources |->
        LET cols == NonBlanks(f.sources[i].columns)
        IN  [c \in DOMAIN cols |-> [alias |-> f.sources[i].alias, col |-> cols[c]]]])

RowsFrom(rows, first) == SubSeq(rows, first, Min({Len(rows), first + PreviewRows - 1}))

FirstRows(file) ==
    [s \in DOMAIN Book[file.name] |->
        [name |-> Book[file.name][s].name, rows |-> RowsFrom(Book[file.name][s].rows, 1)]]

RowAsHeaders(rows, n) == IF n \in DOMAIN rows THEN rows[n] ELSE <<>>

-----------------------------------------------------------------------------
(* Rendering a new form: a picker whose file changed cancels its request and  *)
(* asks again, remembering the form it was rendered with; the rows of the     *)
(* previous file stay until the answer. A position without a file has none.   *)
MutantPickerStays(k, old, f) ==
    LET file == Part(f, k).file
    IN  IF file = NoFile \/ old.file = file THEN old
        ELSE [old EXCEPT !.file = file, !.ask = <<f>>, !.loading = TRUE]

PickerAfter(k, old, f) ==
    LET file == Part(f, k).file
    IN  IF file = NoFile THEN NoPicker
        ELSE IF old.file = file THEN old
        ELSE [old EXCEPT !.file = file, !.ask = <<f>>, !.loading = TRUE,
                         !.late = @ \cup ToSet(old.ask)]

Render(f, pickers) ==
    /\ form' = f
    /\ picker' = [k \in Keys |-> PickerAfter(k, pickers[k], f)]

(* A change made by the user                                                  *)
Edit(f) ==
    /\ edits < MaxEdits
    /\ edits' = edits + 1
    /\ Render(f, picker)
    /\ UNCHANGED <<entry, disturbed>>

-----------------------------------------------------------------------------
(* Name, files, sources                                                       *)

TypeName == \E n \in TypedNames : n # form.name /\ Edit([form EXCEPT !.name = n])

(* Only the wizard notes the name of the template's file in the form.         *)
DropTarget == \E n \in Files :
    Edit([form EXCEPT !.target.file = FileObject(n),
                      !.target.sample = IF entry = "wizard" THEN n ELSE @])

RemoveTargetFile ==
    /\ form.target.file # NoFile
    /\ Edit([form EXCEPT !.target.file = NoFile])

DropSource == \E i \in DOMAIN form.sources, n \in Files :
    Edit([form EXCEPT !.sources[i].file = FileObject(n), !.sources[i].sample = n])

RemoveSourceFile == \E i \in DOMAIN form.sources :
    /\ form.sources[i].file # NoFile
    /\ Edit([form EXCEPT !.sources[i].file = NoFile])

TypeAlias == \E i \in DOMAIN form.sources, a \in TypedAliases :
    /\ a # form.sources[i].alias
    /\ Edit([form EXCEPT !.sources[i].alias = a])

PickRole == \E i \in DOMAIN form.sources, r \in {"primary", "lookup"} :
    /\ r # form.sources[i].role
    /\ Edit([form EXCEPT !.sources[i].role = r])

AddSource ==
    /\ Len(form.sources) < MaxSources
    /\ Edit([form EXCEPT !.sources =
            Append(@, NewSource("source_" \o ToString(Len(@) + 1), "lookup"))])

RemoveSource == \E i \in DOMAIN form.sources :
    /\ edits < MaxEdits
    /\ edits' = edits + 1
    /\ Render([form EXCEPT !.sources = RemoveAt(@, i)], picker)
    /\ disturbed' = (disturbed \/ \E j \in (i + 1)..Len(form.sources) :
            /\ form.sources[j].file # NoFile
            /\ form.sources[j].file = form.sources[j - 1].file)
    /\ UNCHANGED entry

AddSheetVariant == \E i \in DOMAIN form.sources :
    LET src == form.sources[i]
        n == Len(form.sources) + 1
        variant == [NewSource(src.alias \o "_sheet" \o ToString(n), "lookup")
                        EXCEPT !.file = src.file,
                               !.sample = IF src.sample # Absent THEN src.sample
                                          ELSE SampleOf(src)]
    IN  /\ Len(form.sources) < MaxSources
        /\ src.file # NoFile \/ src.sample # Absent
        /\ Edit([form EXCEPT !.sources = Append(@, variant)])

-----------------------------------------------------------------------------
(* Choosing a sheet and a header row. The columns of the target are merged    *)
(* into the rows by a functional update of whatever the form is by then; those*)
(* of a source replace the form it was rendered with.                         *)

WithMeta(f, k, meta) ==
    IF k = Target
    THEN [f EXCEPT !.target.sheet = meta.sheet, !.target.header_row = meta.header_row,
                   !.target.columns = meta.columns,
                   !.mappings = MergeMappingsWithColumns(f.mappings, meta.columns)]
    ELSE [f EXCEPT !.sources[k].sheet = meta.sheet,
                   !.sources[k].header_row = meta.header_row,
                   !.sources[k].columns = meta.columns]

Shown(k) == picker[k].sheets # <<>> /\ ~picker[k].error

CurrentSheet(k) ==
    LET sheets == picker[k].sheets
        named == {s \in DOMAIN sheets : sheets[s].name = Part(form, k).sheet}
    IN  sheets[IF named = {} THEN 1 ELSE CHOOSE s \in named : TRUE]

PickSheet == \E k \in Keys : \E s \in DOMAIN picker[k].sheets :
    LET sheet == picker[k].sheets[s]
    IN  /\ Shown(k)
        /\ Len(picker[k].sheets) > 1
        /\ sheet.name # Part(form, k).sheet
        /\ Edit(WithMeta(form, k, [sheet |-> sheet.name, header_row |-> 1,
                                   columns |-> RowAsHeaders(sheet.rows, 1)]))

ClickRow == \E k \in Keys :
    /\ Shown(k)
    /\ \E n \in DOMAIN CurrentSheet(k).rows :
        Edit(WithMeta(form, k, [sheet |-> CurrentSheet(k).name, header_row |-> n,
                                columns |-> RowAsHeaders(CurrentSheet(k).rows, n)]))

(* The first answer of a file: the sheet of the form when the file has it and *)
(* the header row is among the rows sent, else the first sheet and row.       *)
Parsed(asked, k, sheets) ==
    LET part == Part(asked, k)
        named == {s \in DOMAIN sheets : sheets[s].name = part.sheet}
        sheet == sheets[IF named = {} THEN 1 ELSE CHOOSE s \in named : TRUE]
        row == IF named # {} /\ part.header_row \in DOMAIN sheet.rows
               THEN part.header_row ELSE 1
    IN  [sheet |-> sheet.name, header_row |-> row, columns |-> RowAsHeaders(sheet.rows, row)]

MutantTargetReplacesForm(k, asked, sheets) ==
    WithMeta(asked, k, Parsed(asked, k, sheets))

AnsweredForm(k, asked, sheets) ==
    WithMeta(IF k = Target THEN form ELSE asked, k, Parsed(asked, k, sheets))

ParseAnswers == \E k \in Keys :
    /\ picker[k].ask # <<>>
    /\ LET sheets == FirstRows(picker[k].file)
       IN  Render(AnsweredForm(k, picker[k].ask[1], sheets),
                  [picker EXCEPT ![k].sheets = sheets, ![k].ask = <<>>, ![k].loading = FALSE])
    /\ disturbed' = (disturbed \/ (k # Target /\ picker[k].ask[1] # form))
    /\ UNCHANGED <<entry, edits>>

(* A request that fails shows its error for as long as the picker stays, even *)
(* when the file was replaced meanwhile: only the answer checks for that.     *)
ParseFails == \E k \in Keys :
    /\ \/ /\ picker[k].ask # <<>>
          /\ picker' = [picker EXCEPT ![k].ask = <<>>, ![k].error = TRUE, ![k].loading = FALSE]
       \/ \E asked \in picker[k].late :
            picker' = [picker EXCEPT ![k].late = @ \ {asked}, ![k].error = TRUE,
                                     ![k].loading = FALSE]
    /\ UNCHANGED <<entry, form, edits, disturbed>>

MutantLateAnswerApplies == \E k \in Keys : \E asked \in picker[k].late :
    LET sheets == FirstRows(Part(asked, k).file)
    IN  /\ Render(AnsweredForm(k, asked, sheets),
                  [picker EXCEPT ![k].late = @ \ {asked}, ![k].loading = FALSE])
        /\ UNCHANGED <<entry, edits, disturbed>>

LateAnswerIgnored == \E k \in Keys : \E asked \in picker[k].late :
    /\ picker' = [picker EXCEPT ![k].late = @ \ {asked}, ![k].loading = FALSE]
    /\ UNCHANGED <<entry, form, edits, disturbed>>

(* "Load more rows" of the current sheet, from the file it was clicked with.  *)
LoadMore == \E k \in Keys :
    /\ edits < MaxEdits
    /\ Shown(k) /\ ~picker[k].loading /\ picker[k].more = <<>>
    /\ CurrentSheet(k).name = Part(form, k).sheet
    /\ picker' = [picker EXCEPT
            ![k].loading = TRUE,
            ![k].more = <<[file |-> picker[k].file, sheet |-> CurrentSheet(k).name,
                           from |-> Len(CurrentSheet(k).rows) + 1]>>]
    /\ edits' = edits + 1
    /\ UNCHANGED <<entry, form, disturbed>>

MoreAnswers == \E k \in Keys :
    /\ picker[k].more # <<>>
    /\ LET ask == picker[k].more[1]
           sent(s) == IF s.name # ask.sheet THEN <<>>
                      ELSE FlattenSeq([b \in DOMAIN Book[ask.file.name] |->
                             IF Book[ask.file.name][b].name # ask.sheet THEN <<>>
                             ELSE RowsFrom(Book[ask.file.name][b].rows, ask.from)])
       IN  picker' = [picker EXCEPT
                ![k].more = <<>>, ![k].loading = FALSE,
                ![k].sheets = [s \in DOMAIN @ |->
                                 [name |-> @[s].name, rows |-> @[s].rows \o sent(@[s])]]]
    /\ UNCHANGED <<entry, form, edits, disturbed>>

MoreFails == \E k \in Keys :
    /\ picker[k].more # <<>>
    /\ picker' = [picker EXCEPT ![k].more = <<>>, ![k].loading = FALSE]
    /\ UNCHANGED <<entry, form, edits, disturbed>>

-----------------------------------------------------------------------------
(* Joins                                                                      *)

FieldAt(n) == IF n \in DOMAIN Fields(form) THEN Fields(form)[n] ELSE EmptyRef
Offered == ToSet(Fields(form)) \cup {EmptyRef}

AddJoin ==
    /\ Fields(form) # <<>> /\ Len(form.joins) < MaxJoins
    /\ Edit([form EXCEPT !.joins =
            Append(@, [left |-> FieldAt(1), right |-> FieldAt(2)])])

RemoveJoin == \E j \in DOMAIN form.joins : Edit([form EXCEPT !.joins = RemoveAt(@, j)])

PickJoin == \E j \in DOMAIN form.joins, side \in {"left", "right"}, ref \in Offered :
    /\ ref # form.joins[j][side]
    /\ Edit([form EXCEPT !.joins[j][side] = ref])

-----------------------------------------------------------------------------
(* Mapping rows                                                               *)

EditRow(m, row) == Edit([form EXCEPT !.mappings[m] = row])

AddMapping ==
    /\ Len(form.mappings) < MaxMappings
    /\ Edit([form EXCEPT !.mappings =
            Append(@, [FreshRow("") EXCEPT !.source = FieldAt(1)])])

RemoveMapping == \E m \in DOMAIN form.mappings :
    Edit([form EXCEPT !.mappings = RemoveAt(@, m)])

(* The target of a row is fixed while it names a column of the template.      *)
TypeTarget == \E m \in DOMAIN form.mappings, t \in TypedTargets :
    LET row == form.mappings[m]
    IN  /\ row.target = "" \/ row.target \notin ToSet(form.target.columns)
        /\ t # row.target
        /\ EditRow(m, [row EXCEPT !.target = t])

(* Switching the mode clears the values of the other two.                     *)
MutantSwitchKeepsSource(row, mode) ==
    [row EXCEPT !.source = IF mode = "source" THEN EmptyRef ELSE @,
                !.literal = IF mode = "literal" THEN "" ELSE Absent,
                !.source_cell = IF mode = "source_cell"
                                THEN [alias |-> Part(form, 1).alias, address |-> ""]
                                ELSE Absent]

Switched(row, mode) ==
    [row EXCEPT !.source = IF mode = "source" THEN EmptyRef ELSE Absent,
                !.literal = IF mode = "literal" THEN "" ELSE Absent,
                !.source_cell = IF mode = "source_cell"
                                THEN [alias |-> Part(form, 1).alias, address |-> ""]
                                ELSE Absent]

SwitchTo == \E m \in DOMAIN form.mappings, mode \in {"source", "literal", "source_cell"} :
    /\ mode # ModeOf(form.mappings[m])
    /\ EditRow(m, Switched(form.mappings[m], mode))

PickField == \E m \in DOMAIN form.mappings, ref \in Offered :
    /\ ModeOf(form.mappings[m]) = "source" /\ ref # form.mappings[m].source
    /\ EditRow(m, [form.mappings[m] EXCEPT !.source = ref])

PickCell == \E m \in DOMAIN form.mappings :
    LET row == form.mappings[m]
        aliases == {form.sources[i].alias : i \in DOMAIN form.sources} \cup {""}
    IN  /\ ModeOf(row) = "source_cell"
        /\ \/ \E a \in aliases \ {row.source_cell.alias} :
                EditRow(m, [row EXCEPT !.source_cell.alias = a])
           \/ \E d \in TypedAddresses \ {row.source_cell.address} :
                EditRow(m, [row EXCEPT !.source_cell.address = d])

TypeLiteral == \E m \in DOMAIN form.mappings, v \in TypedLiterals :
    /\ ModeOf(form.mappings[m]) = "literal" /\ v # form.mappings[m].literal
    /\ EditRow(m, [form.mappings[m] EXCEPT !.literal = v])

AddCondition == \E m \in DOMAIN form.mappings :
    /\ Len(form.mappings[m].conditions) < MaxConditions
    /\ EditRow(m, [form.mappings[m] EXCEPT !.conditions = Append(@, FieldAt(1))])

PickCondition == \E m \in DOMAIN form.mappings :
    \E c \in DOMAIN form.mappings[m].conditions, ref \in ToSet(Fields(form)) :
        /\ ref # form.mappings[m].conditions[c]
        /\ EditRow(m, [form.mappings[m] EXCEPT !.conditions[c] = ref])

RemoveCondition == \E m \in DOMAIN form.mappings :
    \E c \in DOMAIN form.mappings[m].conditions :
        EditRow(m, [form.mappings[m] EXCEPT !.conditions = RemoveAt(@, c)])

-----------------------------------------------------------------------------
(* A fresh page, a stored configuration opened in the builder, or the draft   *)
(* of one restored in the wizard.                                             *)
EditorInit ==
    /\ entry \in {"builder", "wizard"}
    /\ form \in {EmptyState} \cup {LoadForm(c) : c \in Saved}
    /\ picker = [k \in Keys |-> NoPicker]
    /\ edits = 0
    /\ disturbed = FALSE

EditorNext ==
    \/ TypeName \/ DropTarget \/ RemoveTargetFile \/ DropSource \/ RemoveSourceFile
    \/ TypeAlias \/ PickRole \/ AddSource \/ RemoveSource \/ AddSheetVariant
    \/ PickSheet \/ ClickRow \/ LoadMore
    \/ ParseAnswers \/ ParseFails \/ LateAnswerIgnored \/ MoreAnswers \/ MoreFails
    \/ AddJoin \/ RemoveJoin \/ PickJoin
    \/ AddMapping \/ RemoveMapping \/ TypeTarget \/ SwitchTo \/ PickField \/ PickCell
    \/ TypeLiteral \/ AddCondition \/ PickCondition \/ RemoveCondition

EditorSpec == EditorInit /\ [][EditorNext]_editorVars

-----------------------------------------------------------------------------
(* Every source has a place, whatever names it and its columns have, and every*)
(* picker shows the file of its own source, waits for at most one answer that *)
(* it will use, and has no request when there is no file.                     *)
FileObjects == [name : Files, id : 0..MaxEdits]
SourceOf(aliases) ==
    [alias : aliases, role : {"primary", "lookup"}, file : FileObjects \cup {NoFile},
     sheet : {""} \cup STRING, header_row : Nat \ {0}, columns : Seq(STRING),
     sample : Files \cup {Absent}]
EditorTypeOK ==
    /\ entry \in {"builder", "wizard"}
    /\ edits \in 0..MaxEdits /\ disturbed \in BOOLEAN
    /\ form.sources \in Seq(SourceOf(Aliases(form)))
    /\ Len(form.sources) <= MaxSources
    /\ \A k \in Keys :
          /\ picker[k].file = Part(form, k).file
          /\ Len(picker[k].ask) <= 1 /\ Len(picker[k].more) <= 1
          /\ picker[k].file = NoFile => picker[k] = NoPicker

(* The rows on show were all sent for the picker's own file: "load more" may  *)
(* have answered for the file before it.                                      *)
OwnRows(k) ==
    /\ Len(picker[k].sheets) = Len(Book[picker[k].file.name])
    /\ \A s \in DOMAIN picker[k].sheets :
          IsPrefix(picker[k].sheets[s].rows, Book[picker[k].file.name][s].rows)

HeaderOf(file, part) ==
    LET named == {s \in DOMAIN Book[file.name] : Book[file.name][s].name = part.sheet}
    IN  IF named = {} THEN <<>>
        ELSE RowAsHeaders(Book[file.name][CHOOSE s \in named : TRUE].rows, part.header_row)

(* The file of a position has been parsed, and its rows are on show.          *)
Settled(k) ==
    picker[k].file # NoFile /\ picker[k].ask = <<>> /\ ~picker[k].error /\ OwnRows(k)

ColumnsAreRead(k) ==
    Settled(k) => Part(form, k).columns = HeaderOf(picker[k].file, Part(form, k))

(* Once the file of a position has been parsed, the columns the form keeps for*)
(* it are the cells of the chosen sheet and header row of that very file,     *)
(* however files were replaced, sources removed and requests crossed          *)
(* meanwhile - as long as no answer for a source replaced a newer form and no *)
(* source moved into the place of one with the same File object.              *)
ColumnsMatchFile == ~disturbed => \A k \in Keys : ColumnsAreRead(k)

(* A red "column missing" warning is never raised against columns that are    *)
(* only inferred from a loaded configuration or left over from a removed file *)
(* ("so we never false-positive on loaded configs", configHelpers.ts): what is*)
(* flagged is missing from the parsed header of an uploaded file, or that file*)
(* is still being parsed.                                                     *)
References ==
    (UNION {{form.joins[j].left, form.joins[j].right} : j \in DOMAIN form.joins})
    \cup {form.mappings[m].source : m \in DOMAIN form.mappings}
FlaggedIsMissing == ~disturbed => \A ref \in References :
    ColumnRefMissing(ref, form) => \E k \in DOMAIN form.sources :
        /\ form.sources[k].alias = ref.alias /\ form.sources[k].file # NoFile
        /\ Settled(k) =>
              ref.col \notin ToSet(HeaderOf(picker[k].file, form.sources[k]))

(* The picker recomputes the columns of a file whenever it is shown anew,     *)
(* "otherwise `columns` stays empty forever for that source" (the comment in  *)
(* SheetHeaderPicker.tsx): after the answer the columns are never those of    *)
(* before it.                                                                 *)
ColumnsNeverStale == \A k \in Keys : ColumnsAreRead(k)

(* Parsing the template never costs the user anything: its answer, whenever it*)
(* comes, leaves name, sources and joins as edited meanwhile, and keeps every *)
(* row whose target no other row has.                                         *)
TemplateAnswerKeepsEdits ==
    [][(/\ picker[Target].ask # <<>> /\ picker'[Target].ask = <<>>
        /\ picker'[Target].file = picker[Target].file)
       => /\ form'.name = form.name
          /\ form'.sources = form.sources
          /\ form'.joins = form.joins
          /\ \A m \in DOMAIN form.mappings :
                (\A n \in DOMAIN form.mappings :
                    form.mappings[n].target = form.mappings[m].target => n = m)
                => \E n \in DOMAIN form'.mappings : form'.mappings[n] = form.mappings[m]]_editorVars

(* In a form the browser accepts, the value a row shows is the one the job    *)
(* will write: no hidden value of another mode is saved with it.              *)
RowShowsWhatIsSaved ==
    BrowserAccepts(form) => \A m \in DOMAIN form.mappings :
        LET row == form.mappings[m] IN
        \A mode \in {"source", "literal", "source_cell"} :
            ToConfig(form).mappings[m][mode] # Absent => mode = ModeOf(row)

(* The browser's schema and the server's agree on every form the editor can   *)
(* produce, except that the browser does not look at the aliases conditions   *)
(* refer to: with those known, a form the browser accepts is never refused.   *)
ConditionsKnown(cfg) ==
    \A m \in DOMAIN cfg.mappings : \A c \in DOMAIN cfg.mappings[m].conditions :
        cfg.mappings[m].conditions[c].alias \in Aliases(cfg)
AcceptedFormsAreSaved ==
    BrowserAccepts(form) /\ ConditionsKnown(ToConfig(form)) => ServerAccepts(ToConfig(form))
=============================================================================
