------------------------ MODULE DatasetProfilerProofs ------------------------
(***************************************************************************)
(* What DatasetProfiler guarantees for tables of any size.  Roles and      *)
(* evidence rest on one counting lemma, UniqueColumn: a column with as     *)
(* many distinct values as the table has rows has no null and never        *)
(* repeats a value.  The statistics rest on two more: the sum over the     *)
(* columns is the number of null cells (NullsAddUp), by induction over the *)
(* sets of columns, and the rows that are left when each content is kept   *)
(* once are the rows that repeat an earlier one (DuplicatesAreRepetitions).*)
(***************************************************************************)
EXTENDS DatasetProfiler, FiniteSetTheorems, SequenceTheorems, TLAPS

(* The result is the profile of the table and the evidence is its own. *)
ProfilerInv ==
    /\ table \in Tables
    /\ result \in {<<>>, ProfileOf(table)}
    /\ evidence \in {{}, EvidenceOf(ProfileOf(table))}
    /\ evidence # {} => result = ProfileOf(table)

(* The rows of a table are functions on its columns. *)
LEMMA TableShape ==
    ASSUME NEW t \in Tables
    PROVE  /\ Height(t) \in Nat
           /\ t.rows \in [1 .. Height(t) -> [Columns(t) -> Values \cup {Null}]]
<1>1. PICK columns \in SUBSET Names, height \in 0 .. MaxRows :
         t \in [schema : [columns -> Types],
                rows : [1 .. height -> [columns -> Values \cup {Null}]]]
  BY DEF Tables
<1>2. height \in Nat
  BY BoundsAssumption
<1>3. t.rows \in Seq([columns -> Values \cup {Null}])
  BY <1>1, <1>2, SeqDef
<1>4. DOMAIN t.rows = 1 .. height /\ DOMAIN t.rows = 1 .. Len(t.rows) /\ Len(t.rows) \in Nat
  BY <1>1, <1>3, LenProperties
<1>5. Len(t.rows) = height
  BY <1>2, <1>4
<1> QED
  BY <1>1, <1>2, <1>5 DEF Height, Columns

(* A column with as many distinct values as rows has no null, and no two   *)
(* rows of its table are equal.                                            *)
LEMMA UniqueColumn ==
    ASSUME NEW t \in Tables, NEW name \in Columns(t),
           DistinctCount(t, name) = Height(t)
    PROVE  NullCount(t, name) = 0 /\ DuplicateRowCount(t) = 0
<1> DEFINE rows     == 1 .. Height(t)
           present  == PresentRows(t, name)
           distinct == {t.rows[r][name] : r \in present}
           cell     == [r \in present |-> t.rows[r][name]]
<1>1. /\ Height(t) \in Nat
      /\ t.rows \in [rows -> [Columns(t) -> Values \cup {Null}]]
  BY TableShape
<1>2. IsFiniteSet(rows) /\ Cardinality(rows) = Height(t)
  BY <1>1, FS_Interval
<1>3. /\ IsFiniteSet(present) /\ Cardinality(present) <= Cardinality(rows)
      /\ Cardinality(present) = Cardinality(rows) => present = rows
  <2>1. present \in SUBSET rows
    BY DEF PresentRows
  <2> QED
    BY <1>2, <2>1, FS_Subset
<1>4. /\ IsFiniteSet(distinct) /\ Cardinality(distinct) <= Cardinality(present)
      /\ Cardinality(distinct) = Cardinality(present) => cell \in Injection(present, distinct)
  <2>1. cell \in Surjection(present, distinct)
    BY DEF Surjection
  <2> QED
    BY <1>3, <2>1, FS_Surjection
<1>5. Cardinality(present) \in Nat
  BY <1>3, FS_CardinalityType
<1>6. Cardinality(distinct) = Height(t)
  BY DEF DistinctCount
<1>7. present = rows /\ cell \in Injection(rows, distinct)
  BY <1>1, <1>2, <1>3, <1>4, <1>5, <1>6
<1>8. NullCount(t, name) = 0
  <2>1. {r \in rows : t.rows[r][name] = Null} = {}
    BY <1>7 DEF PresentRows
  <2> QED
    BY <2>1, FS_EmptySet DEF NullCount
<1>9. DuplicateRowCount(t) = 0
  <2> DEFINE image == {t.rows[r] : r \in rows}
  <2>1. ASSUME NEW q \in rows, NEW r \in rows, t.rows[q] = t.rows[r]
        PROVE  q = r
    <3>1. cell[q] = cell[r]
      BY <1>7, <2>1
    <3> QED
      BY <1>7, <3>1 DEF Injection, IsInjective
  <2>2. t.rows \in Surjection(rows, image)
    BY <1>1 DEF Surjection
  <2>3. t.rows \in Injection(rows, image)
    BY <2>1, <2>2 DEF Injection, IsInjective, Surjection
  <2>4. Cardinality(image) = Cardinality(rows)
    BY <1>2, <2>2, <2>3, FS_Surjection
  <2> QED
    BY <1>1, <1>2, <2>4 DEF DuplicateRowCount
<1> QED
  BY <1>8, <1>9

-----------------------------------------------------------------------------
(* Each item of the evidence on a table restates one fact of its profile.  *)
Restates(item, t, name) ==
    /\ item.column_name = <<name>>
    /\ item.evidence_type \in {"DATA_TYPE", "NULL_RATE", "CARDINALITY", "UNIQUENESS",
                               "NAME_PATTERN", "TEMPORAL_PATTERN"}
    /\ item.evidence_type = "DATA_TYPE" => item.details[1] = t.schema[name]
    /\ item.evidence_type = "NULL_RATE" => item.details[1] = NullCount(t, name)
    /\ item.evidence_type = "UNIQUENESS" =>
          Height(t) > 0 /\ DistinctCount(t, name) = Height(t)
    /\ item.evidence_type = "NAME_PATTERN" => IdentifierPattern(name) # "none"
    /\ item.evidence_type = "TEMPORAL_PATTERN" =>
          name \in ProfileOf(t).recommendations.date_dimensions

(* The fields of a profile that evidence is made from. *)
LEMMA ProfileFields ==
    ASSUME NEW t
    PROVE  /\ DOMAIN ProfileOf(t).columns = Columns(t)
           /\ ProfileOf(t).row_count = Height(t)
           /\ ProfileOf(t).data_quality.duplicate_row_count = DuplicateRowCount(t)
           /\ \A name \in Columns(t) :
                /\ ProfileOf(t).columns[name].data_type = t.schema[name]
                /\ ProfileOf(t).columns[name].null_count = NullCount(t, name)
                /\ ProfileOf(t).columns[name].distinct_count = DistinctCount(t, name)
  BY DEF ProfileOf, ProfileColumns, DataQuality

(* Evidence is about the whole table or restates a fact about one column. *)
LEMMA EvidenceItems ==
    ASSUME NEW t, NEW item \in EvidenceOf(ProfileOf(t))
    PROVE  \/ /\ item.evidence_type = "DUPLICATE_PATTERN"
              /\ item.details[1] = DuplicateRowCount(t)
           \/ \E name \in Columns(t) : Restates(item, t, name)
<1> DEFINE profile == ProfileOf(t)
<1>1. CASE item = DuplicateItem(profile)
  BY <1>1, ProfileFields DEF DuplicateItem
<1>2. ASSUME NEW name \in Columns(t), item \in ColumnItems(profile, name)
      PROVE  Restates(item, t, name)
  BY <1>2, ProfileFields DEF ColumnItems, Item, Restates
<1>3. ASSUME NEW name \in Columns(t), item \in UniquenessItems(profile, name)
      PROVE  Restates(item, t, name)
  BY <1>3, ProfileFields DEF UniquenessItems, Item, Restates
<1>4. ASSUME NEW name \in Columns(t), item \in NamePatternItems(name)
      PROVE  Restates(item, t, name)
  BY <1>4 DEF NamePatternItems, Item, Restates
<1>5. ASSUME NEW name \in Columns(t), item \in TemporalItems(profile, name)
      PROVE  Restates(item, t, name)
  BY <1>5 DEF TemporalItems, Item, Restates
<1> QED
  BY <1>1, <1>2, <1>3, <1>4, <1>5, ProfileFields DEF EvidenceOf

(* The other way round: what the profile holds of a column is stated.      *)
LEMMA StatedItems ==
    ASSUME NEW name \in Columns(table), evidence = EvidenceOf(ProfileOf(table))
    PROVE  /\ Stated("UNIQUENESS", name) <=>
                 Height(table) > 0 /\ DistinctCount(table, name) = Height(table)
           /\ Stated("NAME_PATTERN", name) <=> IdentifierPattern(name) # "none"
           /\ Stated("TEMPORAL_PATTERN", name) <=>
                 name \in ProfileOf(table).recommendations.date_dimensions
           /\ StatedInteger(name) <=> IsInteger(table.schema[name])
<1> DEFINE profile == ProfileOf(table)
<1>1. ASSUME NEW item \in evidence, item.column_name = <<name>>
      PROVE  item.evidence_type = "DUPLICATE_PATTERN" \/ Restates(item, table, name)
  BY <1>1, EvidenceItems DEF Restates
<1>2. UNION {ColumnItems(profile, name), UniquenessItems(profile, name),
             NamePatternItems(name), TemporalItems(profile, name)} \subseteq evidence
  BY ProfileFields DEF EvidenceOf
<1>3. /\ Height(table) > 0 /\ DistinctCount(table, name) = Height(table)
            => Stated("UNIQUENESS", name)
      /\ IdentifierPattern(name) # "none" => Stated("NAME_PATTERN", name)
      /\ name \in profile.recommendations.date_dimensions
            => Stated("TEMPORAL_PATTERN", name)
      /\ IsInteger(table.schema[name]) => StatedInteger(name)
  <2>1. ASSUME NEW type, NEW details, Item(type, name, details) \in evidence
        PROVE  Stated(type, name)
    BY <2>1 DEF Stated, Item
  <2>2. Height(table) > 0 /\ DistinctCount(table, name) = Height(table)
          => Item("UNIQUENESS", name, <<Height(table), Height(table)>>) \in evidence
    BY <1>2, ProfileFields DEF UniquenessItems
  <2>3. IdentifierPattern(name) # "none"
          => Item("NAME_PATTERN", name, <<IdentifierPattern(name)>>) \in evidence
    BY <1>2 DEF NamePatternItems
  <2>4. name \in profile.recommendations.date_dimensions
          => Item("TEMPORAL_PATTERN", name, <<profile.columns[name].data_type>>) \in evidence
    BY <1>2 DEF TemporalItems
  <2>5. Item("DATA_TYPE", name, <<table.schema[name]>>) \in evidence
    BY <1>2, ProfileFields DEF ColumnItems
  <2>6. IsInteger(table.schema[name]) => StatedInteger(name)
    BY <2>5 DEF StatedInteger, Item
  <2> QED
    BY <2>1, <2>2, <2>3, <2>4, <2>6
<1>4. /\ Stated("UNIQUENESS", name) =>
            Height(table) > 0 /\ DistinctCount(table, name) = Height(table)
      /\ Stated("NAME_PATTERN", name) => IdentifierPattern(name) # "none"
      /\ Stated("TEMPORAL_PATTERN", name) =>
            name \in profile.recommendations.date_dimensions
      /\ StatedInteger(name) => IsInteger(table.schema[name])
  BY <1>1 DEF Stated, StatedInteger, Restates
<1> QED
  BY <1>3, <1>4

(* What the caller holds was computed from the table. *)
LEMMA ProfilerInvariance == Spec => []ProfilerInv
<1>1. Init => ProfilerInv
  BY DEF Init, ProfilerInv
<1>2. ProfilerInv /\ [Next]_vars => ProfilerInv'
  <2> SUFFICES ASSUME ProfilerInv, [Next]_vars PROVE ProfilerInv'
    OBVIOUS
  <2>1. CASE Profile
    BY <2>1 DEF Profile, ProfilerInv
  <2>2. CASE CollectEvidence
    BY <2>2 DEF CollectEvidence, ProfilerInv
  <2>3. CASE UNCHANGED vars
    BY <2>3 DEF vars, ProfilerInv
  <2> QED
    BY <2>1, <2>2, <2>3 DEF Next
<1> QED
  BY <1>1, <1>2, PTL DEF Spec

-----------------------------------------------------------------------------
(* A column stated to be unique has no null, and no row of its table is    *)
(* duplicated (profiler.py, lines 128-141).                                *)
THEOREM Uniqueness == Spec => []UniquenessMeansNoNulls
<1>1. ProfilerInv => UniquenessMeansNoNulls
  <2> SUFFICES ASSUME ProfilerInv, NEW unique \in evidence, NEW item \in evidence,
                      unique.evidence_type = "UNIQUENESS"
               PROVE  /\ (/\ item.evidence_type = "NULL_RATE"
                          /\ item.column_name = unique.column_name)
                            => item.details[1] = 0
                      /\ item.evidence_type = "DUPLICATE_PATTERN" => item.details[1] = 0
    BY DEF UniquenessMeansNoNulls
  <2> DEFINE profile == ProfileOf(table)
  <2>1. evidence = EvidenceOf(profile)
    BY DEF ProfilerInv
  <2>2. PICK name \in Columns(table) : Restates(unique, table, name)
    BY <2>1, EvidenceItems
  <2>3. NullCount(table, name) = 0 /\ DuplicateRowCount(table) = 0
    BY <2>2, UniqueColumn DEF ProfilerInv, Restates
  <2>4. ASSUME item.evidence_type = "NULL_RATE", item.column_name = unique.column_name
        PROVE  item.details[1] = NullCount(table, name)
    <3>1. PICK other \in Columns(table) : Restates(item, table, other)
      BY <2>1, <2>4, EvidenceItems
    <3>2. other = name
      BY <2>2, <2>4, <3>1 DEF Restates
    <3> QED
      BY <2>4, <3>1, <3>2 DEF Restates
  <2>5. ASSUME item.evidence_type = "DUPLICATE_PATTERN"
        PROVE  item.details[1] = DuplicateRowCount(table)
    BY <2>1, <2>5, EvidenceItems DEF Restates
  <2> QED
    BY <2>2, <2>3, <2>4, <2>5
<1> QED
  BY <1>1, ProfilerInvariance, PTL

(* The roles recommended for a column do not contradict each other         *)
(* (profiler.py, lines 230-263).                                           *)
THEOREM Roles == Spec => []RolesAgree
<1>1. ProfilerInv => RolesAgree
  <2> SUFFICES ASSUME ProfilerInv, result # <<>> PROVE RolesAgree
    BY DEF RolesAgree
  <2> DEFINE columns == ProfileColumns(table)
             height  == Height(table)
             roles   == result.recommendations
  <2>1. /\ height \in Nat
        /\ result.row_count = height
        /\ roles = Recommend(columns, height)
    BY TableShape DEF ProfilerInv, ProfileOf
  <2>2. CASE height = 0
    BY <2>1, <2>2 DEF RolesAgree, Recommend
  <2>3. CASE height > 0
    <3>1. /\ roles.identifier_columns = Identifiers(columns, height)
          /\ roles.potential_primary_keys = PrimaryKeys(columns, height)
          /\ roles.numeric_measures = Measures(columns, height)
          /\ roles.categorical_columns = Categorical(columns, height)
      BY <2>1, <2>3 DEF Recommend
    <3>2. height # 1 => CategoricalLimit(height) < height
      BY <2>1, <2>3, LimitAssumption DEF CategoricalLimit
    <3>3. ASSUME NEW name \in PrimaryKeys(columns, height), height # 1
          PROVE  name \notin Categorical(columns, height)
      <4>1. columns[name].distinct_count = height
        BY DEF PrimaryKeys, IsUnique
      <4>2. ~ (height <= CategoricalLimit(height))
        BY <2>1, <3>2, <3>3, LimitAssumption DEF CategoricalLimit
      <4> QED
        BY <4>1, <4>2 DEF Categorical
    <3>4. Identifiers(columns, height) \subseteq PrimaryKeys(columns, height)
      BY DEF Identifiers, PrimaryKeys
    <3>5. PrimaryKeys(columns, height) \cap Measures(columns, height) = {}
      BY DEF Measures
    <3> HIDE DEF columns, height
    <3> QED
      BY <2>1, <3>1, <3>3, <3>4, <3>5 DEF RolesAgree
  <2> QED
    BY <2>1, <2>2, <2>3
<1> QED
  BY <1>1, ProfilerInvariance, PTL

(* The evidence alone explains the recommendations (profiler.py, lines     *)
(* 101-162 against lines 230-268).                                         *)
THEOREM EvidenceExplains == Spec => []EvidenceExplainsRoles
<1>1. ProfilerInv => EvidenceExplainsRoles
  <2> SUFFICES ASSUME ProfilerInv, evidence # {}, result.row_count > 0,
                      NEW name \in Columns(table)
               PROVE  LET roles == result.recommendations
                      IN  /\ name \in roles.identifier_columns <=>
                                Stated("UNIQUENESS", name) /\ Stated("NAME_PATTERN", name)
                          /\ name \in roles.potential_primary_keys <=>
                                /\ Stated("UNIQUENESS", name)
                                /\ Stated("NAME_PATTERN", name) \/ StatedInteger(name)
                          /\ name \in roles.date_dimensions <=>
                                Stated("TEMPORAL_PATTERN", name)
    BY DEF EvidenceExplainsRoles
  <2> DEFINE columns == ProfileColumns(table)
             height  == Height(table)
             unique  == DistinctCount(table, name) = height
  <2>1. /\ result = ProfileOf(table)
        /\ evidence = EvidenceOf(ProfileOf(table))
    BY DEF ProfilerInv
  <2>2. /\ height \in Nat /\ height > 0
        /\ result.recommendations = Recommend(columns, height)
    BY <2>1, TableShape DEF ProfilerInv, ProfileOf
  <2>3. IsUnique(columns[name], height) <=> unique
    BY UniqueColumn DEF ProfilerInv, IsUnique, ProfileColumns
  <2>4. IsIdentifierName(name) <=> IdentifierPattern(name) # "none"
    BY DEF IsIdentifierName, IdentifierPattern
  <2>5. name \in DOMAIN columns /\ columns[name].data_type = table.schema[name]
    BY DEF ProfileColumns
  <2>6. /\ name \in result.recommendations.identifier_columns
              <=> unique /\ IdentifierPattern(name) # "none"
        /\ name \in result.recommendations.potential_primary_keys
              <=> /\ unique
                  /\ IdentifierPattern(name) # "none" \/ IsInteger(table.schema[name])
    <3>1. /\ name \in Identifiers(columns, height) <=>
                IsIdentifierName(name) /\ IsUnique(columns[name], height)
          /\ name \in PrimaryKeys(columns, height) <=>
                /\ IsUnique(columns[name], height)
                /\ IsIdentifierName(name) \/ IsInteger(columns[name].data_type)
      BY <2>5 DEF Identifiers, PrimaryKeys
    <3>2. /\ result.recommendations.identifier_columns = Identifiers(columns, height)
          /\ result.recommendations.potential_primary_keys = PrimaryKeys(columns, height)
      BY <2>2 DEF Recommend
    <3> QED
      BY <2>3, <2>4, <2>5, <3>1, <3>2
  <2> QED
    BY <2>1, <2>2, <2>6, StatedItems
<1> QED
  BY <1>1, ProfilerInvariance, PTL

-----------------------------------------------------------------------------
(* The statistics are the counts that a reader of the table would make.    *)

(* A table has finitely many rows and columns. *)
LEMMA TableSize ==
    ASSUME NEW t \in Tables
    PROVE  /\ Height(t) \in 0 .. MaxRows
           /\ IsFiniteSet(1 .. Height(t)) /\ Cardinality(1 .. Height(t)) = Height(t)
           /\ IsFiniteSet(Columns(t)) /\ Width(t) \in Nat
<1>1. PICK columns \in SUBSET Names, height \in 0 .. MaxRows :
         /\ IsFiniteSet(columns)
         /\ t \in [schema : [columns -> Types],
                   rows : [1 .. height -> [columns -> Values \cup {Null}]]]
  BY DEF Tables
<1>2. height \in Nat /\ Height(t) \in Nat
  BY TableShape, BoundsAssumption
<1>3. DOMAIN t.rows = 1 .. height /\ DOMAIN t.rows = 1 .. Height(t)
  BY <1>1, TableShape
<1>4. Height(t) = height
  BY <1>2, <1>3
<1>5. Columns(t) = columns
  BY <1>1 DEF Columns
<1> QED
  BY <1>1, <1>2, <1>4, <1>5, FS_Interval, FS_CardinalityType DEF Width

(* A fold over finitely many columns is the sum it stands for, whichever   *)
(* column it chooses first: any g that loses the null_count of a column    *)
(* when it loses the column gives the same sum.                            *)
LEMMA SumOfNullCounts ==
    ASSUME NEW columns, IsFiniteSet(DOMAIN columns),
           NEW g \in [SUBSET DOMAIN columns -> Nat], g[{}] = 0,
           \A s \in SUBSET DOMAIN columns : \A name \in s :
               g[s] = columns[name].null_count + g[s \ {name}]
    PROVE  NullCellCount(columns) = g[DOMAIN columns]
<1> DEFINE S         == DOMAIN columns
           chosen(s) == CHOOSE name \in s : TRUE
           Body(f)   == [s \in SUBSET S |->
                            IF s = {} THEN 0
                            ELSE columns[chosen(s)].null_count + f[s \ {chosen(s)}]]
           fold      == CHOOSE f : f = Body(f)
<1>1. NullCellCount(columns) = fold[S]
  BY DEF NullCellCount, MapThenSumSet, MapThenFoldSet
<1>2. g = Body(g)
  <2>1. ASSUME NEW s \in SUBSET S, s # {}
        PROVE  g[s] = columns[chosen(s)].null_count + g[s \ {chosen(s)}]
    <3>1. chosen(s) \in s
      BY <2>1
    <3> QED
      BY <3>1
  <2> QED
    BY <2>1
<1>3. fold = Body(fold)
  <2> HIDE DEF Body
  <2>1. \E f : f = Body(f)
    BY <1>2
  <2> QED
    BY <2>1, Zenon
<1> HIDE DEF fold, Body
<1>4. \A s \in SUBSET S : fold[s] = g[s]
  <2> DEFINE differ == {s \in SUBSET S : fold[s] # g[s]}
  <2>1. SUFFICES ASSUME differ # {} PROVE FALSE
    OBVIOUS
  <2>2. PICK s \in differ : \A u \in differ : <<u, s>> \notin StrictSubsetOrdering(S)
    <3>1. IsWellFoundedOn(StrictSubsetOrdering(S), SUBSET S)
      BY FS_StrictSubsetOrderingWellFounded, FS_FiniteSubsetsOfFinite
    <3>2. differ \subseteq SUBSET S
      OBVIOUS
    <3> HIDE DEF differ
    <3> QED
      BY <2>1, <3>1, <3>2, WFMin
  <2> DEFINE u == s \ {chosen(s)}
  <2>3. /\ fold[s] = IF s = {} THEN 0 ELSE columns[chosen(s)].null_count + fold[u]
        /\ g[s] = IF s = {} THEN 0 ELSE columns[chosen(s)].null_count + g[u]
    BY <1>2, <1>3 DEF Body
  <2>4. s # {}
    BY <2>3
  <2>5. chosen(s) \in s
    BY <2>4
  <2>6. u \in SUBSET S /\ <<u, s>> \in StrictSubsetOrdering(S)
    BY <2>5 DEF StrictSubsetOrdering
  <2>7. fold[u] = g[u]
    BY <2>2, <2>6
  <2> QED
    BY <2>3, <2>4, <2>7
<1> QED
  BY <1>1, <1>4

(* The null cells of the table in some of its columns. *)
NullCells(t, columns) ==
    {cell \in (1 .. Height(t)) \X columns : t.rows[cell[1]][cell[2]] = Null}

(* The nulls counted column by column are the null cells of the table.     *)
LEMMA NullsAddUp ==
    ASSUME NEW t \in Tables
    PROVE  NullCellCount(ProfileColumns(t)) = Cardinality(NullCells(t, Columns(t)))
<1> DEFINE rows    == 1 .. Height(t)
           columns == ProfileColumns(t)
           g       == [s \in SUBSET Columns(t) |-> Cardinality(NullCells(t, s))]
<1>1. ASSUME NEW s \in SUBSET Columns(t)
      PROVE  IsFiniteSet(NullCells(t, s)) /\ Cardinality(NullCells(t, s)) \in Nat
  <2>1. IsFiniteSet(rows \X s)
    BY TableSize, FS_Subset, FS_Product
  <2> QED
    BY <2>1, FS_Subset, FS_CardinalityType DEF NullCells
<1>2. Cardinality(NullCells(t, {})) = 0
  <2>1. NullCells(t, {}) = {}
    BY DEF NullCells
  <2> QED
    BY <2>1, FS_EmptySet
<1>3. ASSUME NEW s \in SUBSET Columns(t), NEW name \in s
      PROVE  Cardinality(NullCells(t, s)) =
                NullCount(t, name) + Cardinality(NullCells(t, s \ {name}))
  <2> DEFINE null == {r \in rows : t.rows[r][name] = Null}
             here == NullCells(t, {name})
             rest == NullCells(t, s \ {name})
             pair == [r \in null |-> <<r, name>>]
  <2>1. /\ NullCells(t, s) = here \cup rest
        /\ here \cap rest = {}
    BY DEF NullCells
  <2>2. IsFiniteSet(here) /\ IsFiniteSet(rest)
    BY <1>1
  <2>3. pair \in Bijection(null, here)
    <3>1. pair \in Injection(null, here)
      BY DEF Injection, IsInjective, NullCells
    <3>2. pair \in Surjection(null, here)
      BY DEF Surjection, NullCells
    <3> QED
      BY <3>1, <3>2 DEF Bijection
  <2>4. IsFiniteSet(null)
    BY TableSize, FS_Subset
  <2>5. Cardinality(here) = NullCount(t, name)
    BY <2>3, <2>4, FS_Bijection DEF ExistsBijection, NullCount
  <2>6. Cardinality({}) = 0
    BY FS_EmptySet
  <2>7. Cardinality(NullCells(t, s)) = Cardinality(here) + Cardinality(rest) - 0
    <3> HIDE DEF here, rest
    <3> QED
      BY <2>1, <2>2, <2>6, FS_Union
  <2>8. Cardinality(here) \in Nat /\ Cardinality(rest) \in Nat
    BY <1>1
  <2> QED
    BY <2>5, <2>7, <2>8
<1>4. DOMAIN columns = Columns(t)
  BY DEF ProfileColumns
<1>5. /\ g \in [SUBSET DOMAIN columns -> Nat] /\ g[{}] = 0
      /\ \A s \in SUBSET DOMAIN columns : \A name \in s :
            g[s] = columns[name].null_count + g[s \ {name}]
  BY <1>1, <1>2, <1>3, <1>4 DEF ProfileColumns
<1> HIDE DEF g, columns
<1>6. NullCellCount(columns) = g[DOMAIN columns]
  BY <1>4, <1>5, TableSize, SumOfNullCounts
<1> QED
  BY <1>4, <1>6 DEF g, columns

(* Every set of rows that is not empty has a first one.                    *)
LEMMA FirstRow ==
    ASSUME NEW T \in SUBSET Nat, T # {}
    PROVE  \E first \in T : \A r \in T : first <= r
<1> DEFINE R == OpToRel(<, Nat)
<1>1. PICK first \in T : \A r \in T : <<r, first>> \notin R
  BY NatLessThanWellFounded, WFMin
<1>2. ASSUME NEW r \in T PROVE first <= r
  <2>1. R = {ss \in Nat \X Nat : ss[1] < ss[2]}
    BY DEF OpToRel
  <2>2. r \in Nat /\ first \in Nat /\ <<r, first>> \notin R
    BY <1>1
  <2> HIDE DEF R
  <2>3. r < first => <<r, first>> \in R
    BY <2>1, <2>2
  <2> QED
    BY <2>2, <2>3
<1> QED
  BY <1>2

(* The rows that do not differ from all others are as many as the rows     *)
(* that repeat an earlier one.                                             *)
LEMMA DuplicatesAreRepetitions ==
    ASSUME NEW t \in Tables
    PROVE  LET rows == 1 .. Height(t)
           IN  /\ DuplicateRowCount(t) = Cardinality({r \in rows :
                       \E q \in 1 .. r - 1 : t.rows[q] = t.rows[r]})
               /\ DuplicateRowCount(t) \in 0 .. Height(t)
<1> DEFINE rows     == 1 .. Height(t)
           repeated == {r \in rows : \E q \in 1 .. r - 1 : t.rows[q] = t.rows[r]}
           first    == rows \ repeated
           image    == {t.rows[r] : r \in rows}
           content  == [r \in first |-> t.rows[r]]
<1>1. /\ Height(t) \in Nat
      /\ IsFiniteSet(rows) /\ Cardinality(rows) = Height(t)
  BY TableShape, TableSize
<1>2. /\ IsFiniteSet(repeated) /\ Cardinality(repeated) \in Nat
      /\ Cardinality(repeated) <= Height(t)
      /\ IsFiniteSet(first)
      /\ Cardinality(first) = Height(t) - Cardinality(repeated)
  <2>1. repeated \in SUBSET rows /\ rows \cap repeated = repeated
    OBVIOUS
  <2> HIDE DEF rows, repeated
  <2>2. /\ IsFiniteSet(repeated) /\ Cardinality(repeated) <= Height(t)
        /\ IsFiniteSet(first)
        /\ Cardinality(first) = Cardinality(rows) - Cardinality(rows \cap repeated)
    BY <1>1, <2>1, FS_Subset, FS_Difference
  <2> QED
    BY <1>1, <2>1, <2>2, FS_CardinalityType
<1>3. content \in Injection(first, image)
  <2>1. ASSUME NEW q \in first, NEW r \in first, t.rows[q] = t.rows[r], q < r
        PROVE  FALSE
    <3>1. q \in 1 .. r - 1
      BY <1>1, <2>1
    <3> QED
      BY <2>1, <3>1
  <2>2. ASSUME NEW q \in first, NEW r \in first, content[q] = content[r]
        PROVE  q = r
    BY <1>1, <2>1, <2>2
  <2> QED
    BY <2>2 DEF Injection, IsInjective
<1>4. content \in Surjection(first, image)
  <2>1. ASSUME NEW row \in image
        PROVE  \E r \in first : content[r] = row
    <3> DEFINE same == {r \in rows : t.rows[r] = row}
    <3>1. same \in SUBSET Nat /\ same # {}
      BY <1>1
    <3>2. PICK r \in same : \A q \in same : r <= q
      <4> HIDE DEF same
      <4> QED
        BY <3>1, FirstRow
    <3>3. ASSUME NEW q \in 1 .. r - 1, t.rows[q] = t.rows[r]
          PROVE  FALSE
      <4>1. q \in rows /\ ~(r <= q)
        BY <1>1
      <4> QED
        BY <3>2, <3>3, <4>1
    <3> QED
      BY <3>3
  <2> QED
    BY <2>1 DEF Surjection
<1>5. Cardinality(image) = Cardinality(first)
  BY <1>2, <1>3, <1>4, FS_Surjection
<1>6. DuplicateRowCount(t) = Height(t) - Cardinality(image)
  BY DEF DuplicateRowCount
<1> QED
  BY <1>1, <1>2, <1>5, <1>6

(* A part of a whole is between 0 and 100 percent of it. *)
LEMMA PercentageRange ==
    ASSUME NEW part \in Nat, NEW whole \in Nat, part <= whole
    PROVE  Percentage(part, whole) \in 0 .. 100
<1>1. CASE whole = 0
  BY <1>1 DEF Percentage
<1>2. CASE whole > 0
  <2> DEFINE quotient == (100 * part) \div whole
  <2>1. /\ quotient \in Int
        /\ whole * quotient <= 100 * part
        /\ 100 * part < whole * quotient + whole
    BY <1>2
  <2>2. quotient >= 0
    <3>1. SUFFICES ASSUME quotient <= -1 PROVE FALSE
      BY <2>1
    <3>2. whole * quotient <= whole * (-1)
      BY <1>2, <2>1, <3>1
    <3> QED
      BY <1>2, <2>1, <3>2
  <2>3. quotient <= 100
    <3>1. SUFFICES ASSUME quotient >= 101 PROVE FALSE
      BY <2>1
    <3>2. whole * quotient >= whole * 101
      BY <1>2, <2>1, <3>1
    <3> QED
      BY <1>2, <2>1, <3>2
  <2> QED
    BY <1>2, <2>1, <2>2, <2>3 DEF Percentage
<1> QED
  BY <1>1, <1>2

(* The counts of a column are counts of rows; a column is empty if all its *)
(* rows are null.                                                          *)
LEMMA ColumnCounts ==
    ASSUME NEW t \in Tables, NEW name \in Columns(t)
    PROVE  /\ NullCount(t, name) \in 0 .. Height(t)
           /\ DistinctCount(t, name) \in 0 .. Height(t)
           /\ NullCount(t, name) = Height(t) <=>
                 \A r \in 1 .. Height(t) : t.rows[r][name] = Null
<1> DEFINE rows     == 1 .. Height(t)
           null     == {r \in rows : t.rows[r][name] = Null}
           present  == PresentRows(t, name)
           distinct == {t.rows[r][name] : r \in present}
           cell     == [r \in present |-> t.rows[r][name]]
<1>1. Height(t) \in Nat /\ IsFiniteSet(rows) /\ Cardinality(rows) = Height(t)
  BY TableShape, TableSize
<1>2. /\ IsFiniteSet(null) /\ Cardinality(null) \in Nat
      /\ Cardinality(null) <= Height(t)
      /\ Cardinality(null) = Height(t) <=> null = rows
  <2>1. null \in SUBSET rows
    OBVIOUS
  <2> HIDE DEF null, rows
  <2> QED
    BY <1>1, <2>1, FS_Subset, FS_CardinalityType
<1>3. /\ IsFiniteSet(present) /\ Cardinality(present) \in Nat
      /\ Cardinality(present) <= Height(t)
  <2>1. present \in SUBSET rows
    BY DEF PresentRows
  <2> HIDE DEF present, rows
  <2> QED
    BY <1>1, <2>1, FS_Subset, FS_CardinalityType
<1>4. Cardinality(distinct) \in Nat /\ Cardinality(distinct) <= Cardinality(present)
  <2>1. cell \in Surjection(present, distinct)
    BY DEF Surjection
  <2> HIDE DEF cell, present, distinct
  <2> QED
    BY <1>3, <2>1, FS_Surjection, FS_CardinalityType
<1>5. null = rows <=> \A r \in rows : t.rows[r][name] = Null
  OBVIOUS
<1>6. NullCount(t, name) = Cardinality(null) /\ DistinctCount(t, name) = Cardinality(distinct)
  BY DEF NullCount, DistinctCount
<1> HIDE DEF rows, null, present, distinct
<1> QED
  BY <1>1, <1>2, <1>3, <1>4, <1>5, <1>6 DEF rows

(* No table has more null cells than cells. *)
LEMMA NullCellsFit ==
    ASSUME NEW t \in Tables
    PROVE  /\ Cardinality(NullCells(t, Columns(t))) \in Nat
           /\ Height(t) * Width(t) \in Nat
           /\ Cardinality(NullCells(t, Columns(t))) <= Height(t) * Width(t)
<1> DEFINE rows  == 1 .. Height(t)
           cells == rows \X Columns(t)
<1>1. /\ IsFiniteSet(rows) /\ Cardinality(rows) = Height(t)
      /\ IsFiniteSet(Columns(t)) /\ Cardinality(Columns(t)) = Width(t)
      /\ Height(t) \in Nat /\ Width(t) \in Nat
  BY TableShape, TableSize DEF Width
<1>2. NullCells(t, Columns(t)) \in SUBSET cells
  BY DEF NullCells
<1> HIDE DEF rows
<1>3. IsFiniteSet(cells) /\ Cardinality(cells) = Height(t) * Width(t)
  BY <1>1, FS_Product
<1> HIDE DEF cells
<1> QED
  BY <1>1, <1>2, <1>3, FS_Subset, FS_CardinalityType

(* The statistics of a profile, one by one. *)
LEMMA ProfileStatistics ==
    ASSUME NEW t
    PROVE  LET profile == ProfileOf(t)
               columns == ProfileColumns(t)
           IN  /\ profile.row_count = Height(t)
               /\ profile.columns = columns
               /\ DOMAIN columns = Columns(t)
               /\ \A name \in Columns(t) :
                     /\ columns[name].null_count = NullCount(t, name)
                     /\ columns[name].distinct_count = DistinctCount(t, name)
                     /\ columns[name].null_percentage =
                           Percentage(NullCount(t, name), Height(t))
                     /\ columns[name].distinct_percentage =
                           Percentage(DistinctCount(t, name), Height(t))
               /\ profile.data_quality.null_cell_count = NullCellCount(columns)
               /\ profile.data_quality.null_percentage =
                     Percentage(NullCellCount(columns), Height(t) * Width(t))
               /\ profile.data_quality.duplicate_row_count = DuplicateRowCount(t)
               /\ profile.data_quality.duplicate_row_percentage =
                     Percentage(DuplicateRowCount(t), Height(t))
               /\ profile.data_quality.empty_column_count =
                     EmptyColumnCount(columns, Height(t))
  BY DEF ProfileOf, ProfileColumns, DataQuality

(* Every statistic is in its range, whatever the table (profiler.py, lines *)
(* 166-218).                                                               *)
THEOREM TypeCorrectness == Spec => []TypeOK
<1>1. ProfilerInv => TypeOK
  <2> SUFFICES ASSUME ProfilerInv PROVE TypeOK
    OBVIOUS
  <2>1. table \in Tables /\ (result # <<>> => result = ProfileOf(table))
    BY DEF ProfilerInv
  <2>2. CASE result = <<>>
    BY <2>1, <2>2 DEF TypeOK
  <2>3. CASE result = ProfileOf(table)
    <3> DEFINE nulls == NullCellCount(ProfileColumns(table))
    <3>1. Height(table) \in Nat /\ Height(table) \in 0 .. MaxRows
      BY <2>1, TableShape, TableSize
    <3>2. ASSUME NEW name \in Columns(table)
          PROVE  /\ NullCount(table, name) \in 0 .. Height(table)
                 /\ DistinctCount(table, name) \in 0 .. Height(table)
                 /\ Percentage(NullCount(table, name), Height(table)) \in 0 .. 100
                 /\ Percentage(DistinctCount(table, name), Height(table)) \in 0 .. 100
      BY <2>1, <3>1, ColumnCounts, PercentageRange
    <3>3. Percentage(nulls, Height(table) * Width(table)) \in 0 .. 100
      BY <2>1, NullsAddUp, NullCellsFit, PercentageRange
    <3>4. Percentage(DuplicateRowCount(table), Height(table)) \in 0 .. 100
      <4>1. /\ DuplicateRowCount(table) \in Nat
            /\ DuplicateRowCount(table) <= Height(table)
        <5>1. DuplicateRowCount(table) \in 0 .. Height(table)
          BY <2>1, DuplicatesAreRepetitions, Zenon
        <5> QED
          BY <3>1, <5>1
      <4> QED
        BY <3>1, <4>1, PercentageRange
    <3> QED
      BY <2>1, <2>3, <3>1, <3>2, <3>3, <3>4, ProfileStatistics DEF TypeOK
  <2> QED
    BY <2>1, <2>2, <2>3
<1> QED
  BY <1>1, ProfilerInvariance, PTL

(* Nulls, duplicates and empty columns are counted as a reader of the      *)
(* table would count them (profiler.py, lines 166-218).                    *)
THEOREM Counts == Spec => []CountsAgree
<1>1. ProfilerInv /\ TypeOK => CountsAgree
  <2> SUFFICES ASSUME ProfilerInv, TypeOK, result # <<>> PROVE CountsAgree
    BY DEF CountsAgree
  <2> DEFINE rows    == 1 .. Height(table)
             columns == ProfileColumns(table)
             quality == result.data_quality
  <2>1. table \in Tables /\ result = ProfileOf(table)
    BY DEF ProfilerInv
  <2>2. quality.null_cell_count =
           Cardinality({cell \in rows \X Columns(table) :
                           table.rows[cell[1]][cell[2]] = Null})
    BY <2>1, NullsAddUp, ProfileStatistics DEF NullCells
  <2>3. quality.duplicate_row_count =
           Cardinality({r \in rows : \E q \in 1 .. r - 1 : table.rows[q] = table.rows[r]})
    BY <2>1, DuplicatesAreRepetitions, ProfileStatistics
  <2>4. quality.empty_column_count =
           Cardinality({name \in Columns(table) :
               rows # {} /\ \A r \in rows : table.rows[r][name] = Null})
    <3> DEFINE empty == {name \in Columns(table) :
                            rows # {} /\ \A r \in rows : table.rows[r][name] = Null}
    <3>1. quality.empty_column_count = EmptyColumnCount(columns, Height(table))
      BY <2>1, ProfileStatistics
    <3>2. Height(table) \in Nat
      BY <2>1, TableShape
    <3>3. CASE Height(table) = 0
      <4>1. empty = {}
        BY <3>3
      <4> QED
        BY <3>1, <3>3, <4>1, FS_EmptySet DEF EmptyColumnCount
    <3>4. CASE Height(table) # 0
      <4>1. rows # {}
        BY <3>2, <3>4
      <4>2. {name \in DOMAIN columns : columns[name].null_count = Height(table)} = empty
        BY <2>1, <4>1, ColumnCounts, ProfileStatistics
      <4> QED
        BY <3>1, <3>4, <4>2 DEF EmptyColumnCount
    <3> QED
      BY <3>3, <3>4
  <2> QED
    BY <2>2, <2>3, <2>4 DEF CountsAgree
<1> QED
  BY <1>1, ProfilerInvariance, TypeCorrectness, PTL
=============================================================================
