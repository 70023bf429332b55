--------------------------- MODULE DatasetProfiler ---------------------------
(***************************************************************************)
(* DatasetProfiler (packages/profiling/profiler.py): profile computes the  *)
(* statistics and recommendations of a loaded table, and collect_evidence  *)
(* restates a finished profile as Evidence items, without the table.       *)
(*                                                                         *)
(* A table is its schema, a function from column names to physical types,  *)
(* and its rows, functions from column names to cells.  Left out: the      *)
(* order of columns and of evidence items (column names are unique),       *)
(* descriptions, identifiers and the time stamp of the batch.  A type      *)
(* stands for the types that the code's tests on it do not tell apart;     *)
(* percentages are rounded down.                                           *)
(***************************************************************************)
EXTENDS Integers, Sequences, FiniteSets, FiniteSetsExt

CONSTANTS
    ReservedNames,        \* column names in _IDENTIFIER_NAMES
    SuffixedNames,        \* column names that end in an _IDENTIFIER_SUFFIXES
    OtherNames,           \* all other column names
    Values, Null,         \* what a cell may hold
    MaxRows, MaxCells,    \* bounds of the tables that are profiled
    CardinalityLimit      \* _CATEGORICAL_CARDINALITY_LIMIT

Names == ReservedNames \cup SuffixedNames \cup OtherNames

ASSUME NamesAssumption == /\ ReservedNames \cap OtherNames = {}
                          /\ SuffixedNames \cap OtherNames = {}
ASSUME NullAssumption == Null \notin Values
ASSUME LimitAssumption == CardinalityLimit \in Nat \ {0}
ASSUME BoundsAssumption == MaxRows \in Nat /\ MaxCells \in Nat

VARIABLES
    table,                \* the dataframe of a TabularLoadResult
    result,               \* the ProfileResult, <<>> before profile returns
    evidence              \* the Evidence items, {} before collect_evidence

vars == <<table, result, evidence>>

Types == {"Int", "Float", "String", "Date", "Boolean"}

(* A dataframe without columns has no rows either. *)
Tables ==
    UNION {[schema : [columns -> Types],
            rows : UNION {[1 .. height -> [columns -> Values \cup {Null}]] :
                             height \in {h \in 0 .. MaxRows :
                                /\ h * Cardinality(columns) <= MaxCells
                                /\ columns = {} => h = 0}}] :
              columns \in {c \in SUBSET Names : IsFiniteSet(c)}}

Columns(t) == DOMAIN t.schema
Height(t)  == Len(t.rows)
Width(t)   == Cardinality(Columns(t))

-----------------------------------------------------------------------------
(* The tests on names and types, and the percentage. *)

IsIdentifierName(name) == name \in ReservedNames \cup SuffixedNames

(* Fault: only the suffixes are looked at. *)
IdentifierPatternSuffix(name) == IF name \in SuffixedNames THEN "suffix" ELSE "none"

IdentifierPattern(name) ==
    IF name \in ReservedNames THEN "name"
    ELSE IF name \in SuffixedNames THEN "suffix"
    ELSE "none"

IsInteger(type)       == type = "Int"
IsNumeric(type)       == type \in {"Int", "Float"}
IsString(type)        == type = "String"
IsDateDimension(type) == type = "Date"

Percentage(numerator, denominator) ==
    IF denominator = 0 THEN 0 ELSE (100 * numerator) \div denominator

-----------------------------------------------------------------------------
(* profile *)

NullCount(t, name) == Cardinality({r \in 1 .. Height(t) : t.rows[r][name] = Null})

(* Fault: nulls are not dropped before the values are counted. *)
DistinctCountWithNull(t, name) ==
    Cardinality({t.rows[r][name] : r \in 1 .. Height(t)})

PresentRows(t, name) == {r \in 1 .. Height(t) : t.rows[r][name] # Null}

DistinctCount(t, name) == Cardinality({t.rows[r][name] : r \in PresentRows(t, name)})

ProfileColumns(t) ==
    [name \in Columns(t) |->
        [data_type           |-> t.schema[name],
         null_count          |-> NullCount(t, name),
         null_percentage     |-> Percentage(NullCount(t, name), Height(t)),
         distinct_count      |-> DistinctCount(t, name),
         distinct_percentage |-> Percentage(DistinctCount(t, name), Height(t))]]

DuplicateRowCount(t) == Height(t) - Cardinality({t.rows[r] : r \in 1 .. Height(t)})

NullCellCount(columns) ==
    MapThenSumSet(LAMBDA name : columns[name].null_count, DOMAIN columns)

(* Fault: the guard on the row count is missing. *)
EmptyColumnCountUnguarded(columns, row_count) ==
    Cardinality({name \in DOMAIN columns : columns[name].null_count = row_count})

EmptyColumnCount(columns, row_count) ==
    IF row_count = 0 THEN 0
    ELSE Cardinality({name \in DOMAIN columns : columns[name].null_count = row_count})

DataQuality(t, columns) ==
    [total_cell_count         |-> Height(t) * Width(t),
     null_cell_count          |-> NullCellCount(columns),
     null_percentage          |-> Percentage(NullCellCount(columns), Height(t) * Width(t)),
     duplicate_row_count      |-> DuplicateRowCount(t),
     duplicate_row_percentage |-> Percentage(DuplicateRowCount(t), Height(t)),
     empty_column_count       |-> EmptyColumnCount(columns, Height(t))]

(* min(50, max(1, int(row_count * 0.5))) *)
CategoricalLimit(row_count) ==
    LET half == IF row_count < 2 THEN 1 ELSE row_count \div 2
    IN  IF half < CardinalityLimit THEN half ELSE CardinalityLimit

IsUnique(column, row_count) ==
    column.null_count = 0 /\ column.distinct_count = row_count

PrimaryKeys(columns, row_count) ==
    {name \in DOMAIN columns :
        /\ IsUnique(columns[name], row_count)
        /\ IsIdentifierName(name) \/ IsInteger(columns[name].data_type)}

Identifiers(columns, row_count) ==
    {name \in DOMAIN columns :
        IsIdentifierName(name) /\ IsUnique(columns[name], row_count)}

Categorical(columns, row_count) ==
    {name \in DOMAIN columns :
        /\ IsString(columns[name].data_type)
        /\ columns[name].distinct_count <= CategoricalLimit(row_count)}

(* Fault: integer keys without an identifier's name are measures. *)
MeasuresWithKeys(columns, row_count) ==
    {name \in DOMAIN columns :
        /\ IsNumeric(columns[name].data_type)
        /\ name \notin Identifiers(columns, row_count)}

Measures(columns, row_count) ==
    {name \in DOMAIN columns :
        /\ IsNumeric(columns[name].data_type)
        /\ name \notin PrimaryKeys(columns, row_count)
        /\ name \notin Identifiers(columns, row_count)}

DateDimensions(columns) ==
    {name \in DOMAIN columns : IsDateDimension(columns[name].data_type)}

Recommend(columns, row_count) ==
    IF row_count = 0
    THEN [potential_primary_keys |-> {}, identifier_columns |-> {},
          categorical_columns |-> {}, numeric_measures |-> {}, date_dimensions |-> {}]
    ELSE [potential_primary_keys |-> PrimaryKeys(columns, row_count),
          identifier_columns     |-> Identifiers(columns, row_count),
          categorical_columns    |-> Categorical(columns, row_count),
          numeric_measures       |-> Measures(columns, row_count),
          date_dimensions        |-> DateDimensions(columns)]

ProfileOf(t) ==
    LET columns == ProfileColumns(t)
    IN  [row_count       |-> Height(t),
         columns         |-> columns,
         data_quality    |-> DataQuality(t, columns),
         recommendations |-> Recommend(columns, Height(t))]

-----------------------------------------------------------------------------
(* collect_evidence *)

(* Evidence on the table as a whole has no column name. *)
WholeTable == <<>>

Item(evidence_type, column_name, details) ==
    [evidence_type |-> evidence_type, column_name |-> <<column_name>>, details |-> details]

DuplicateItem(profile) ==
    [evidence_type |-> "DUPLICATE_PATTERN", column_name |-> WholeTable,
     details |-> <<profile.data_quality.duplicate_row_count,
                   profile.data_quality.duplicate_row_percentage>>]

ColumnItems(profile, name) ==
    LET column == profile.columns[name]
    IN  {Item("DATA_TYPE", name, <<column.data_type>>),
         Item("NULL_RATE", name,
              <<column.null_count, profile.row_count, column.null_percentage>>),
         Item("CARDINALITY", name,
              <<column.distinct_count, profile.row_count, column.distinct_percentage>>)}

(* Only the positive observation is stated, and none on an empty table. *)
UniquenessItems(profile, name) ==
    LET count == profile.columns[name].distinct_count
    IN  IF profile.row_count > 0 /\ count = profile.row_count
        THEN {Item("UNIQUENESS", name, <<count, profile.row_count>>)} ELSE {}

NamePatternItems(name) ==
    IF IdentifierPattern(name) # "none"
    THEN {Item("NAME_PATTERN", name, <<IdentifierPattern(name)>>)} ELSE {}

TemporalItems(profile, name) ==
    IF name \in profile.recommendations.date_dimensions
    THEN {Item("TEMPORAL_PATTERN", name, <<profile.columns[name].data_type>>)} ELSE {}

EvidenceOf(profile) ==
    {DuplicateItem(profile)} \cup
    UNION {    ColumnItems(profile, name)
          \cup UniquenessItems(profile, name)
          \cup NamePatternItems(name)
          \cup TemporalItems(profile, name) : name \in DOMAIN profile.columns}

-----------------------------------------------------------------------------
(* The caller profiles a table and later collects the evidence. *)

Init ==
    /\ table \in Tables
    /\ result = <<>>
    /\ evidence = {}

Profile ==
    /\ result = <<>>
    /\ result' = ProfileOf(table)
    /\ UNCHANGED <<table, evidence>>

CollectEvidence ==
    /\ result # <<>>
    /\ evidence = {}
    /\ evidence' = EvidenceOf(result)
    /\ UNCHANGED <<table, result>>

Next == Profile \/ CollectEvidence

Spec == Init /\ [][Next]_vars
-----------------------------------------------------------------------------
(* Properties. *)

(* Every variable has its type, and every statistic is in its range. *)
TypeOK ==
    /\ table \in Tables
    /\ result # <<>> =>
        /\ result.row_count \in 0 .. MaxRows
        /\ \A name \in Columns(table) :
              /\ result.columns[name].null_count \in 0 .. Height(table)
              /\ result.columns[name].distinct_count \in 0 .. Height(table)
              /\ result.columns[name].null_percentage \in 0 .. 100
              /\ result.columns[name].distinct_percentage \in 0 .. 100
        /\ result.data_quality.null_percentage \in 0 .. 100
        /\ result.data_quality.duplicate_row_percentage \in 0 .. 100

(* The statistics, computed column by column and as differences (lines     *)
(* 166-218), are the counts a reader of the table would make: null cells,  *)
(* rows equal to an earlier row, and columns that hold nothing but nulls.  *)
CountsAgree ==
    /\ TypeOK
    /\ result # <<>> =>
        LET rows == 1 .. Height(table)
        IN  /\ result.data_quality.null_cell_count =
                  Cardinality({cell \in rows \X Columns(table) :
                                  table.rows[cell[1]][cell[2]] = Null})
            /\ result.data_quality.duplicate_row_count =
                  Cardinality({r \in rows : \E q \in 1 .. r - 1 : table.rows[q] = table.rows[r]})
            /\ result.data_quality.empty_column_count =
                  Cardinality({name \in Columns(table) :
                      rows # {} /\ \A r \in rows : table.rows[r][name] = Null})

(* A column stated to be unique has no null, "which also implies zero      *)
(* nulls" (lines 128-130), though only distinct values are compared with   *)
(* the rows; and a table with such a column has no duplicate row.          *)
UniquenessMeansNoNulls ==
    \A unique \in evidence, item \in evidence :
        unique.evidence_type = "UNIQUENESS" =>
            /\ (item.evidence_type = "NULL_RATE" /\ item.column_name = unique.column_name)
                  => item.details[1] = 0
            /\ item.evidence_type = "DUPLICATE_PATTERN" => item.details[1] = 0

(* The roles recommended for a column do not contradict each other: an     *)
(* identifier is a primary key, a key is no measure, and a key is no       *)
(* category unless the table has a single row (lines 230-263).             *)
RolesAgree ==
    result # <<>> =>
        LET roles == result.recommendations
        IN  /\ roles.identifier_columns \subseteq roles.potential_primary_keys
            /\ roles.potential_primary_keys \cap roles.numeric_measures = {}
            /\ result.row_count # 1 =>
                  roles.potential_primary_keys \cap roles.categorical_columns = {}

Stated(evidence_type, name) ==
    \E item \in evidence :
        item.evidence_type = evidence_type /\ item.column_name = <<name>>

StatedInteger(name) ==
    \E item \in evidence :
        /\ item.evidence_type = "DATA_TYPE"
        /\ item.column_name = <<name>>
        /\ IsInteger(item.details[1])

(* The evidence alone explains the recommendations of the same profile:    *)
(* keys, identifiers and dates can be told from it, so that the two        *)
(* heuristics for names (lines 286-309) and the two tests for uniqueness   *)
(* (lines 130-131 and 233-245) cannot drift apart.                         *)
EvidenceExplainsRoles ==
    (evidence # {} /\ result.row_count > 0) =>
        LET roles == result.recommendations
        IN  \A name \in Columns(table) :
              /\ name \in roles.identifier_columns <=>
                    Stated("UNIQUENESS", name) /\ Stated("NAME_PATTERN", name)
              /\ name \in roles.potential_primary_keys <=>
                    /\ Stated("UNIQUENESS", name)
                    /\ Stated("NAME_PATTERN", name) \/ StatedInteger(name)
              /\ name \in roles.date_dimensions <=> Stated("TEMPORAL_PATTERN", name)
=============================================================================
