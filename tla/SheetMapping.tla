---------------------------- MODULE SheetMapping ----------------------------
(***************************************************************************)
(* From the columns of a sheet to the fields of a candidate                *)
(* (app/pipeline/ingest.py): which column the preview proposes for each    *)
(* field, and which cell of a row ends up in a field, with a mapping the   *)
(* user confirmed or without one.  A sheet is its sequence of headers; a   *)
(* cell is its column's position, 0 for an empty one.                      *)
(***************************************************************************)
EXTENDS Naturals, SequencesExt

CONSTANTS
  Exact,  \* _COL_MAP: the field a header stands for, or None
  Hints,  \* _FIELD_KEYWORDS: the fields a header has a keyword of
  None    \* no field, or no column

CANONICAL_FIELDS == <<"name", "email", "resume_url", "yoe", "location">>
Field == ToSet(CANONICAL_FIELDS)
REQUIRED_FIELDS == {"name", "email"}

Header == DOMAIN Exact

ASSUME HeaderAssumption ==
  /\ Exact \in [Header -> Field \cup {None}] /\ Hints \in [Header -> SUBSET Field]
  /\ None \notin Header \cup Field
  /\ \A h \in Header \cap Field : Exact[h] = h  \* a field's own name is in _COL_MAP

(* The first header of the sheet with a property, or None.                 *)
FirstHeader(sheet, P(_)) ==
  LET at == {i \in DOMAIN sheet : P(sheet[i])}
  IN IF at = {} THEN None ELSE sheet[CHOOSE i \in at : \A j \in at : i <= j]

(* Wrong variant: a column already claimed is proposed again.              *)
HintUnclaimed(m, sheet, f) == FirstHeader(sheet, LAMBDA h : f \in Hints[h])

(* Pass 2: the first column no field has claimed that has a keyword of f.  *)
Hint(m, sheet, f) ==
  FirstHeader(sheet, LAMBDA h : f \in Hints[h] /\ \A g \in Field : m[g] # h)

Detect_column_mapping(sheet) ==
  FoldLeft(LAMBDA m, f : IF m[f] # None THEN m ELSE [m EXCEPT ![f] = Hint(m, sheet, f)],
           [f \in Field |-> FirstHeader(sheet, LAMBDA h : Exact[h] = f)],
           CANONICAL_FIELDS)

(* Wrong variant: a column not mapped goes where its name says.            *)
RekeyByName(mapping, h) ==
  LET of == {f \in Field : mapping[f] = h}
  IN IF of # {} THEN CHOOSE f \in of : TRUE
     ELSE IF Exact[h] # None THEN Exact[h] ELSE h

(* Where a column of the row goes when a mapping is applied: to the field  *)
(* mapped to it (the last of them), else it keeps its own name.            *)
Rekey(mapping, h) ==
  LET of == {i \in DOMAIN CANONICAL_FIELDS : mapping[CANONICAL_FIELDS[i]] = h}
  IN IF of = {} THEN h
     ELSE CANONICAL_FIELDS[CHOOSE i \in of : \A j \in of : j <= i]

Normalize_header(h) == IF Exact[h] # None THEN Exact[h] ELSE h

LastOf(positions) ==
  IF positions = {} THEN 0 ELSE CHOOSE i \in positions : \A j \in positions : j <= i

(* apply_column_mapping: the last column that goes to the field decides,   *)
(* also with an empty cell.                                                *)
Apply_column_mapping(sheet, filled, mapping) ==
  [f \in Field |-> LET i == LastOf({j \in DOMAIN sheet : Rekey(mapping, sheet[j]) = f})
                   IN IF i \in filled THEN i ELSE 0]

(* parse_excel and parse_csv, without a mapping: empty cells are dropped,  *)
(* so the last filled column that goes to the field decides.               *)
Parse_sheet(sheet, filled) ==
  [f \in Field |-> LastOf({j \in filled : Normalize_header(sheet[j]) = f})]
=============================================================================
