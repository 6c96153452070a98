----------------------------- MODULE ConfigForm -----------------------------
(* The form a configuration is edited in and the pure functions around it:    *)
(* frontend/src/lib/configForm.ts, configHelpers.ts, schemas.ts (what the     *)
(* browser accepts), previewHelpers.ts and the schema of the server           *)
(* (backend/app/schemas.py, what a save is checked against).                  *)
(*                                                                            *)
(* A qualified reference "alias.col" is a record. Absent stands for undefined *)
(* and for null where the code treats the two alike, which is everywhere but  *)
(* at the source of a row: a configuration fetched from the server has Null   *)
(* there when the row has another mode. Operators, values and defaults of     *)
(* conditions and mappings, join types, style flags and the trimming of names *)
(* are left out: no property is about them.                                   *)
EXTENDS Sublists, FiniteSets, SequencesExt

CONSTANTS
    Absent,        \* undefined, or a null that is treated alike
    Null,          \* the null a fetched row may have for its source
    NoFile,        \* no File object is held (one that is held has a name)
    GoodNames,     \* the names NAME_PATTERN accepts
    GoodAddresses  \* the addresses cellAddressPattern accepts

EmptyRef == [alias |-> "", col |-> ""]
Qualified(ref) == ref.alias # "" /\ ref.col # ""
NonBlanks(cols) == Picked(cols, {i \in DOMAIN cols : cols[i] # ""})

-----------------------------------------------------------------------------
(* The form and the configuration derived from it                             *)

NewSource(alias, role) ==
    [alias |-> alias, role |-> role, file |-> NoFile, sheet |-> "",
     header_row |-> 1, columns |-> <<>>, sample |-> Absent]

EmptyState ==
    [name |-> "",
     target |-> [file |-> NoFile, sheet |-> "", header_row |-> 1,
                 columns |-> <<>>, sample |-> Absent],
     sources |-> <<NewSource("primary", "primary")>>,
     joins |-> <<>>,
     mappings |-> <<>>]

SampleOf(part) == IF part.file # NoFile THEN part.file.name ELSE part.sample

(* The schema reads a null source as undefined.                               *)
NullishToUndef(row) == [row EXCEPT !.source = IF @ = Null THEN Absent ELSE @]

(* The writer's columns are the targets of the rows, then the columns of the  *)
(* template that no row names.                                                *)
ToConfig(form) ==
    LET targets == NonBlanks([i \in DOMAIN form.mappings |-> form.mappings[i].target])
        cols == form.target.columns
        orphans == {i \in DOMAIN cols : cols[i] # "" /\ cols[i] \notin ToSet(targets)}
    IN  [name |-> form.name,
         target |-> [sheet |-> form.target.sheet,
                     header_row |-> form.target.header_row,
                     columns |-> targets \o Picked(cols, orphans),
                     sample |-> SampleOf(form.target)],
         sources |-> [i \in DOMAIN form.sources |->
                        LET s == form.sources[i]
                        IN  [alias |-> s.alias, role |-> s.role, sheet |-> s.sheet,
                             header_row |-> s.header_row, sample |-> SampleOf(s)]],
         joins |-> form.joins,
         mappings |-> [m \in DOMAIN form.mappings |-> NullishToUndef(form.mappings[m])]]

(* The columns a loaded configuration is known to use of one source           *)
InferColumns(cfg, alias) ==
    LET joinRefs == FlattenSeq([i \in DOMAIN cfg.joins |->
                        <<cfg.joins[i].left, cfg.joins[i].right>>])
        rowRefs == FlattenSeq([i \in DOMAIN cfg.mappings |->
                        (IF cfg.mappings[i].source = Absent THEN <<>>
                         ELSE <<cfg.mappings[i].source>>) \o cfg.mappings[i].conditions])
        refs == joinRefs \o rowRefs
        used == Picked(refs, {i \in DOMAIN refs : Qualified(refs[i]) /\ refs[i].alias = alias})
    IN  Distinct([i \in DOMAIN used |-> used[i].col])

(* The form of a configuration fetched from the server: no File objects, the  *)
(* sources' columns inferred from the references, the rows as they came, with *)
(* the null the server sends for a source that is not set.                    *)
LoadForm(cfg) ==
    [name |-> cfg.name,
     target |-> [file |-> NoFile, sheet |-> cfg.target.sheet,
                 header_row |-> cfg.target.header_row,
                 columns |-> cfg.target.columns, sample |-> cfg.target.sample],
     sources |-> [i \in DOMAIN cfg.sources |->
                    LET s == cfg.sources[i]
                    IN  [alias |-> s.alias, role |-> s.role, file |-> NoFile,
                         sheet |-> s.sheet, header_row |-> s.header_row,
                         columns |-> InferColumns(cfg, s.alias), sample |-> s.sample]],
     joins |-> cfg.joins,
     mappings |-> [m \in DOMAIN cfg.mappings |->
                     [cfg.mappings[m] EXCEPT !.source = IF @ = Absent THEN Null ELSE @]]]

-----------------------------------------------------------------------------
(* Merging the rows with the columns of a parsed template. The rows are put   *)
(* in a Map by target: of several rows with one target the last one stays,    *)
(* at the place of the first.                                                 *)

FreshRow(col) ==
    [target |-> col, source |-> EmptyRef, literal |-> Absent,
     source_cell |-> Absent, conditions |-> <<>>]

LastRowOf(rows, t) ==
    rows[CHOOSE i \in DOMAIN rows :
            rows[i].target = t /\ \A j \in DOMAIN rows : rows[j].target = t => j <= i]

MergeMappingsWithColumns(rows, columns) ==
    LET keys == Distinct([i \in DOMAIN rows |-> rows[i].target])
        cols == NonBlanks(columns)
        left == Picked(keys, {i \in DOMAIN keys : keys[i] \notin ToSet(cols)})
    IN  [i \in DOMAIN cols |->
            IF cols[i] \in ToSet(keys) /\ \A j \in 1..(i - 1) : cols[j] # cols[i]
            THEN LastRowOf(rows, cols[i])
            ELSE FreshRow(cols[i])]
        \o [i \in DOMAIN left |-> LastRowOf(rows, left[i])]

-----------------------------------------------------------------------------
(* What the browser's schema says of a configuration: the set of its issues.  *)
(* An issue is at a section, at a row (0 for the section itself) and a field. *)

Issue(section, row, field, message) ==
    [section |-> section, row |-> row, field |-> field, message |-> message]
Unless(ok, issue) == IF ok THEN {} ELSE {issue}

HasSource(row) == row.source # Absent /\ row.source # EmptyRef
HasLiteral(row) == row.literal # Absent /\ row.literal # ""
HasCell(row) == row.source_cell # Absent
ModesSet(row) == Cardinality({m \in {"source", "literal", "source_cell"} :
                    \/ m = "source" /\ HasSource(row)
                    \/ m = "literal" /\ HasLiteral(row)
                    \/ m = "source_cell" /\ HasCell(row)})

SourceIssues(cfg) ==
    Unless(cfg.sources # <<>>, Issue("sources", 0, "", "too_small"))
    \cup UNION {LET s == cfg.sources[i] IN
                Unless(s.alias # "", Issue("sources", i, "alias", "too_small"))
                \cup Unless(s.sheet # "", Issue("sources", i, "sheet", "too_small"))
                : i \in DOMAIN cfg.sources}

JoinIssues(cfg) ==
    UNION {UNION {Unless(Qualified(cfg.joins[i][side]),
                         Issue("joins", i, side, "err.qualified"))
                  : side \in {"left", "right"}} : i \in DOMAIN cfg.joins}

RowIssues(row, i) ==
    Unless(row.target # "", Issue("mappings", i, "target", "too_small"))
    \cup Unless(row.source = Absent \/ Qualified(row.source),
                Issue("mappings", i, "source", "err.qualified"))
    \cup Unless(row.source_cell = Absent \/ row.source_cell.alias # "",
                Issue("mappings", i, "source_cell", "too_small"))
    \cup Unless(row.source_cell = Absent \/ row.source_cell.address \in GoodAddresses,
                Issue("mappings", i, "address", "err.cellAddress"))
    \cup (UNION {Unless(Qualified(row.conditions[c]),
                        Issue("mappings", i, "condition", "err.qualified"))
                 : c \in DOMAIN row.conditions})
    \cup Unless(ModesSet(row) <= 1, Issue("mappings", i, "source", "err.xorMode"))
    \cup Unless(ModesSet(row) >= 1, Issue("mappings", i, "source", "err.requireOneMode"))

Aliases(cfg) == {cfg.sources[i].alias : i \in DOMAIN cfg.sources}

MutantRelationIssues(cfg) ==
    Unless(\E i \in DOMAIN cfg.sources : cfg.sources[i].role = "primary",
           Issue("sources", 0, "role", "err.noPrimary"))

RelationIssues(cfg) ==
    Unless(Cardinality(Aliases(cfg)) = Len(cfg.sources),
           Issue("sources", 0, "alias", "err.duplicateAlias"))
    \cup Unless(\E i \in DOMAIN cfg.sources : cfg.sources[i].role = "primary",
                Issue("sources", 0, "role", "err.noPrimary"))
    \cup (UNION {UNION {Unless(cfg.joins[i][side].alias \in Aliases(cfg),
                               Issue("joins", i, side, "err.joinUnknownAlias"))
                        : side \in {"left", "right"}} : i \in DOMAIN cfg.joins})
    \cup UNION {LET row == cfg.mappings[i] IN
                Unless(~HasSource(row) \/ row.source.alias \in Aliases(cfg),
                       Issue("mappings", i, "source", "err.mappingSourceUnknownAlias"))
                \cup Unless(~HasCell(row) \/ row.source_cell.alias \in Aliases(cfg),
                            Issue("mappings", i, "source_cell", "err.mappingCellUnknownAlias"))
                : i \in DOMAIN cfg.mappings}

Issues(cfg) ==
    Unless(cfg.name \in GoodNames, Issue("name", 0, "", "err.invalidName"))
    \cup Unless(cfg.target.sheet # "", Issue("target_template", 0, "sheet", "too_small"))
    \cup Unless(cfg.target.columns # <<>>, Issue("target_template", 0, "columns", "too_small"))
    \cup SourceIssues(cfg)
    \cup JoinIssues(cfg)
    \cup Unless(cfg.mappings # <<>>, Issue("mappings", 0, "", "too_small"))
    \cup (UNION {RowIssues(cfg.mappings[i], i) : i \in DOMAIN cfg.mappings})
    \cup RelationIssues(cfg)

BrowserAccepts(form) == Issues(ToConfig(form)) = {}

(* What the server checks when the configuration arrives (HTTP 422 otherwise) *)
ServerAccepts(cfg) ==
    /\ cfg.name \in GoodNames
    /\ cfg.target.columns # <<>>
    /\ cfg.sources # <<>>
    /\ \A i \in DOMAIN cfg.sources : cfg.sources[i].alias # ""
    /\ Cardinality(Aliases(cfg)) = Len(cfg.sources)
    /\ \E i \in DOMAIN cfg.sources : cfg.sources[i].role = "primary"
    /\ \A i \in DOMAIN cfg.joins : \A side \in {"left", "right"} :
          /\ Qualified(cfg.joins[i][side])
          /\ cfg.joins[i][side].alias \in Aliases(cfg)
    /\ cfg.mappings # <<>>
    /\ \A i \in DOMAIN cfg.mappings : LET row == cfg.mappings[i] IN
          /\ row.target # ""
          /\ Cardinality({m \in {"source", "literal", "source_cell"} : row[m] # Absent}) = 1
          /\ row.source # Absent => row.source # EmptyRef /\ row.source.alias \in Aliases(cfg)
          /\ row.source_cell # Absent =>
                /\ row.source_cell.alias \in Aliases(cfg) \ {""}
                /\ row.source_cell.address \in GoodAddresses
          /\ \A c \in DOMAIN row.conditions :
                row.conditions[c] # EmptyRef /\ row.conditions[c].alias \in Aliases(cfg)

-----------------------------------------------------------------------------
(* What the editor shows of a row and of the form                             *)

(* The mode a row is shown in. An empty literal still is a literal here.      *)
ModeOf(row) ==
    IF row.literal # Absent THEN "literal"
    ELSE IF row.source_cell # Absent THEN "source_cell" ELSE "source"

MutantInferredChecked(ref, form) ==
    LET named == {i \in DOMAIN form.sources : form.sources[i].alias = ref.alias}
    IN  /\ ref \notin {Absent, Null}
        /\ Qualified(ref)
        /\ named # {}
        /\ LET src == form.sources[CHOOSE i \in named : \A j \in named : i <= j]
           IN  ref.col \notin ToSet(src.columns)

(* A reference is flagged only when its source holds an uploaded file and the *)
(* file's columns do not have it.                                             *)
ColumnRefMissing(ref, form) ==
    LET named == {i \in DOMAIN form.sources : form.sources[i].alias = ref.alias}
    IN  /\ ref \notin {Absent, Null}
        /\ Qualified(ref)
        /\ named # {}
        /\ LET src == form.sources[CHOOSE i \in named : \A j \in named : i <= j]
           IN  src.file # NoFile /\ ref.col \notin ToSet(src.columns)

Steps == {"target", "sources", "joins", "mappings", "save"}

StepOf(issue) ==
    CASE issue.section = "target_template" -> "target"
      [] issue.section \in {"sources", "joins", "mappings"} -> issue.section
      [] OTHER -> "save"
CountIssuesByStep(issues) ==
    [step \in Steps |-> Cardinality({i \in issues : StepOf(i) = step})]

(* A null source counts as set here, unlike in the schema it is to mirror.    *)
HasExactlyOneMode(row) ==
    Cardinality({m \in {"source", "literal", "source_cell"} :
                    \/ m = "source" /\ row.source \notin {Absent, EmptyRef}
                    \/ m = "literal" /\ HasLiteral(row)
                    \/ m = "source_cell" /\ HasCell(row)}) = 1

MutantSomeSourceDone(form) ==
    \E i \in DOMAIN form.sources : form.sources[i].file # NoFile /\ form.sources[i].alias # ""

SourcesDone(form) ==
    /\ form.sources # <<>>
    /\ \A i \in DOMAIN form.sources :
          form.sources[i].file # NoFile /\ form.sources[i].alias # ""

DeriveStepStates(form, counts) ==
    LET done(step) ==
          CASE step = "target" ->
                    form.target.file # NoFile /\ NonBlanks(form.target.columns) # <<>>
            [] step = "sources" -> SourcesDone(form)
            [] step = "joins" ->
                    \A i \in DOMAIN form.joins :
                        Qualified(form.joins[i].left) /\ Qualified(form.joins[i].right)
            [] step = "mappings" ->
                    /\ form.mappings # <<>>
                    /\ \A i \in DOMAIN form.mappings : HasExactlyOneMode(form.mappings[i])
            [] step = "save" -> form.name # "" /\ \A s \in Steps : counts[s] = 0
    IN  [step \in Steps |-> IF counts[step] > 0 THEN "attention"
                            ELSE IF done(step) THEN "done" ELSE "pending"]

(* The files sent with a preview, by alias: of two sources with one alias     *)
(* only the last one's file is sent.                                          *)
PreviewFiles(form) ==
    {form.sources[i].alias : i \in {j \in DOMAIN form.sources : form.sources[j].file # NoFile}}
=============================================================================
