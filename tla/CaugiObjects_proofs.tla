--------------------------- MODULE CaugiObjects_proofs ---------------------------
(***************************************************************************)
(* For every set of names, glyphs, edge tables and verbs: the objects R    *)
(* holds compile and are in their class, a verb changes the rows it names  *)
(* and no other, whatever was registered since the object was made.        *)
(***************************************************************************)
EXTENDS CaugiObjects, SharedFacts_proofs

Object == ObjectOver(Name)

(* The snapshot of an object is the registry as it was: a prefix of it.    *)
SeesRegistry(o, glyphs) ==
    \E k \in 0 .. Len(glyphs) : o.snapshot = [c \in 0 .. (k - 1) |-> SpecOfGlyph[glyphs[c + 1]]]

WellMade(o, glyphs) ==
    /\ o \in Object
    /\ IsInjective(o.names)
    /\ IsFiniteSet(DOMAIN o.edges)
    /\ ValidEdges(Len(o.names), o.simple, o.snapshot, o.edges)
    /\ SeesRegistry(o, glyphs)

OInv ==
    /\ registry \in Seq(Glyph) /\ IsInjective(registry)
    /\ WellMade(cg, registry)
    /\ ObjectsAreInTheirClass

--------------------------------------------------------------------------------
(* Codes and rows *)

LEMMA CodesFacts ==
    ASSUME registry \in Seq(Glyph), IsInjective(registry)
    PROVE  /\ DOMAIN Codes = ToSet(registry)
           /\ \A g \in ToSet(registry) : /\ Codes[g] \in 0 .. (Len(registry) - 1)
                                         /\ registry[Codes[g] + 1] = g
           /\ \A i \in 1 .. Len(registry) : Codes[registry[i]] = i - 1
<1>1. DOMAIN Codes = ToSet(registry) /\ \A g \in ToSet(registry) : Codes[g] = IdOf(registry, g)
  BY DEF Codes, IdOf
<1>2. \A i \in 1 .. Len(registry) : registry[i] \in ToSet(registry)
  BY LenProperties DEF ToSet
<1> QED
  BY <1>1, <1>2, IdFacts

LEMMA SnapshotFacts ==
    ASSUME registry \in Seq(Glyph), NEW o, SeesRegistry(o, registry)
    PROVE  /\ o.snapshot \in Snapshots
           /\ \A c \in DOMAIN o.snapshot :
                  /\ c \in Nat /\ c + 1 \in 1 .. Len(registry)
                  /\ registry[c + 1] \in Glyph /\ o.snapshot[c].glyph = registry[c + 1]
<1>1. Len(registry) \in Nat
  BY LenProperties
<1>2. PICK k \in 0 .. Len(registry) :
          o.snapshot = [c \in 0 .. (k - 1) |-> SpecOfGlyph[registry[c + 1]]]
  BY DEF SeesRegistry
<1>3. ASSUME NEW c \in 0 .. (k - 1)
      PROVE  /\ c \in Nat /\ c + 1 \in 1 .. Len(registry) /\ registry[c + 1] \in Glyph
             /\ SpecOfGlyph[registry[c + 1]] \in EdgeSpec
             /\ SpecOfGlyph[registry[c + 1]].glyph = registry[c + 1]
  <2>1. c \in Nat /\ c + 1 \in 1 .. Len(registry)
    BY <1>1
  <2>2. registry[c + 1] \in Glyph
    BY <2>1, ElementOfSeq
  <2> QED
    BY <2>1, <2>2, ObjectsAssumption
<1>4. o.snapshot \in [0 .. (k - 1) -> EdgeSpec]
  BY <1>2, <1>3
<1>5. k \in Nat
  BY <1>1
<1> QED
  BY <1>2, <1>3, <1>4, <1>5 DEF Snapshots

LEMMA EdgesTyped ==
    ASSUME registry \in Seq(Glyph), NEW o, WellMade(o, registry), NEW e \in DOMAIN o.edges
    PROVE  /\ e \in Edge /\ e = <<e[1], e[2], e[3]>>
           /\ e[1] + 1 \in 1 .. Len(o.names) /\ e[2] + 1 \in 1 .. Len(o.names)
           /\ e[3] + 1 \in 1 .. Len(registry) /\ e[3] \in DOMAIN o.snapshot
           /\ o.snapshot[e[3]].glyph = registry[e[3] + 1]
<1>1. e \in Edge
  BY DEF WellMade, Object, ObjectOver, EdgeBags
<1>2. ValidEdge(Len(o.names), o.simple, o.snapshot, e)
  BY DEF WellMade, ValidEdges
<1>3. o.names \in Seq(Name)
  BY DEF WellMade, Object, ObjectOver
<1>4. Len(o.names) \in Nat
  BY <1>3, LenProperties
<1>5. e[3] + 1 \in 1 .. Len(registry) /\ o.snapshot[e[3]].glyph = registry[e[3] + 1]
  BY <1>2, SnapshotFacts DEF WellMade, ValidEdge
<1> QED
  BY <1>1, <1>2, <1>4, <1>5 DEF ValidEdge, Edge

(* The rows R sees of an object are rows, over its names. *)
LEMMA RowsTyped ==
    ASSUME registry \in Seq(Glyph), NEW o, WellMade(o, registry)
    PROVE  /\ RowsOf(o) \in SUBSET Row
           /\ IsFiniteSet(RowsOf(o))
           /\ \A r \in RowsOf(o) : r[1] \in ToSet(o.names) /\ r[3] \in ToSet(o.names)
<1> DEFINE row == [e \in DOMAIN o.edges |->
                      <<o.names[e[1] + 1], o.snapshot[e[3]].glyph, o.names[e[2] + 1]>>]
<1>1. o.names \in Seq(Name) /\ DOMAIN o.names = 1 .. Len(o.names)
  BY LenProperties DEF WellMade, Object, ObjectOver
<1>2. ASSUME NEW e \in DOMAIN o.edges
      PROVE  /\ o.names[e[1] + 1] \in ToSet(o.names) /\ o.names[e[2] + 1] \in ToSet(o.names)
             /\ o.names[e[1] + 1] \in Name /\ o.names[e[2] + 1] \in Name
             /\ o.snapshot[e[3]].glyph \in Glyph
  <2>1. /\ e[1] + 1 \in 1 .. Len(o.names) /\ e[2] + 1 \in 1 .. Len(o.names)
        /\ e[3] + 1 \in 1 .. Len(registry)
        /\ o.snapshot[e[3]].glyph = registry[e[3] + 1]
    BY EdgesTyped
  <2>2. registry[e[3] + 1] \in Glyph
    BY <2>1, ElementOfSeq
  <2>3. o.names[e[1] + 1] \in Name /\ o.names[e[2] + 1] \in Name
    BY <1>1, <2>1, ElementOfSeq
  <2> QED
    BY <1>1, <2>1, <2>2, <2>3 DEF ToSet
<1>3. RowsOf(o) = {row[e] : e \in DOMAIN o.edges}
  BY DEF RowsOf
<1>4. \A e \in DOMAIN o.edges :
          row[e] = <<o.names[e[1] + 1], o.snapshot[e[3]].glyph, o.names[e[2] + 1]>>
  OBVIOUS
<1>5. DOMAIN row = DOMAIN o.edges /\ row = [e \in DOMAIN o.edges |-> row[e]]
  OBVIOUS
<1> HIDE DEF row
<1>6. IsFiniteSet(RowsOf(o))
  BY <1>3, <1>5, FiniteImage DEF WellMade
<1>7. ASSUME NEW r \in RowsOf(o)
      PROVE  r \in Row /\ r[1] \in ToSet(o.names) /\ r[3] \in ToSet(o.names)
  <2>1. PICK e \in DOMAIN o.edges :
            r = <<o.names[e[1] + 1], o.snapshot[e[3]].glyph, o.names[e[2] + 1]>>
    BY DEF RowsOf
  <2> QED
    BY <1>2, <2>1 DEF Row
<1> QED
  BY <1>6, <1>7

(* What R passes down for rows over its names. *)
LEMMA BufferFacts ==
    ASSUME registry \in Seq(Glyph), IsInjective(registry),
           NEW names \in Seq(Name), IsInjective(names),
           NEW table \in Seq(Row), Known(Codes, ToSet(table)),
           \A r \in ToSet(table) : r[1] \in ToSet(names) /\ r[3] \in ToSet(names)
    PROVE  /\ BufferOf(names, Codes, table) \in EdgeBags
           /\ IsFiniteSet(DOMAIN BufferOf(names, Codes, table))
           /\ DOMAIN BufferOf(names, Codes, table) = {Coded(names, Codes, r) : r \in ToSet(table)}
<1>1. \A g \in DOMAIN Codes : Codes[g] \in Nat
  BY CodesFacts, LenProperties
<1> QED
  BY <1>1, BufferIsTyped

(* Glyphs become codes by the registry of the moment and glyphs again by   *)
(* the snapshot: what was passed down is read back.                        *)
LEMMA RowsAreReadBack ==
    ASSUME registry \in Seq(Glyph), IsInjective(registry),
           NEW o, o.names \in Seq(Name), IsInjective(o.names), SeesRegistry(o, registry),
           NEW rows \in SUBSET Row, Known(Codes, rows),
           \A r \in rows : r[1] \in ToSet(o.names) /\ r[3] \in ToSet(o.names),
           DOMAIN o.edges = {Coded(o.names, Codes, r) : r \in rows},
           ValidEdges(Len(o.names), o.simple, o.snapshot, o.edges)
    PROVE  RowsOf(o) = rows
<1> DEFINE back(e) == <<o.names[e[1] + 1], o.snapshot[e[3]].glyph, o.names[e[2] + 1]>>
<1>1. ASSUME NEW r \in rows PROVE back(Coded(o.names, Codes, r)) = r
  <2>1. /\ o.names[IdOf(o.names, r[1]) + 1] = r[1]
        /\ o.names[IdOf(o.names, r[3]) + 1] = r[3]
    BY IdFacts
  <2>2. Coded(o.names, Codes, r)[3] \in DOMAIN o.snapshot
    BY DEF ValidEdges, ValidEdge
  <2>3. Codes[r[2]] \in DOMAIN o.snapshot
    BY <2>2 DEF Coded
  <2>4. o.snapshot[Codes[r[2]]].glyph = r[2]
    BY <2>3, SnapshotFacts, CodesFacts DEF Known
  <2>5. r = <<r[1], r[2], r[3]>>
    BY DEF Row
  <2> QED
    BY <2>1, <2>4, <2>5 DEF Coded
<1>2. RowsOf(o) = {back(Coded(o.names, Codes, r)) : r \in rows}
  BY DEF RowsOf
<1> HIDE DEF back
<1> QED
  BY <1>1, <1>2
--------------------------------------------------------------------------------
(* The verbs that pass all rows down again *)

(* What a verb returns is well made, of its class, and has the given rows. *)
Rebuilt(o, names, rows) ==
    /\ WellMade(o, registry)
    /\ o.names = names
    /\ RowsOf(o) = rows
    /\ o.class # "AUTO" /\ SimpleFitsClass(o)
    /\ \A g \in CoreOf(o) : InClass(g, o.class)

LEMMA RebuiltFromTable ==
    ASSUME registry \in Seq(Glyph), IsInjective(registry),
           NEW o \in Object, IsInjective(o.names), SeesRegistry(o, registry),
           NEW table \in Seq(Row), Known(Codes, ToSet(table)),
           \A r \in ToSet(table) : r[1] \in ToSet(o.names) /\ r[3] \in ToSet(o.names),
           o.edges = BufferOf(o.names, Codes, table),
           NEW r \in Returned(o)
    PROVE  Rebuilt(r, o.names, ToSet(table)) /\ r.simple = o.simple
<1>1. o.names \in Seq(Name)
  BY DEF Object, ObjectOver
<1>2. /\ IsFiniteSet(DOMAIN o.edges)
      /\ DOMAIN o.edges = {Coded(o.names, Codes, x) : x \in ToSet(table)}
  BY <1>1, BufferFacts
<1>3. /\ r \in Object /\ r.names = o.names /\ r.simple = o.simple
      /\ r.snapshot = o.snapshot /\ r.edges = o.edges
      /\ ValidEdges(Len(r.names), r.simple, r.snapshot, r.edges)
      /\ r.class # "AUTO" /\ SimpleFitsClass(r)
      /\ \A g \in CoreOf(r) : InClass(g, r.class)
  BY ReturnedFacts DEF Object
<1>4. SeesRegistry(r, registry)
  BY <1>3 DEF SeesRegistry
<1>5. WellMade(r, registry)
  BY <1>2, <1>3, <1>4 DEF WellMade
<1>6. ToSet(table) \in SUBSET Row
  <2>1. \A i \in DOMAIN table : table[i] \in Row
    BY LenProperties, ElementOfSeq
  <2> QED
    BY <2>1 DEF ToSet
<1>7. RowsOf(r) = ToSet(table)
  BY <1>1, <1>2, <1>3, <1>4, <1>6, RowsAreReadBack
<1> QED
  BY <1>3, <1>5, <1>7 DEF Rebuilt

LEMMA SyncFacts ==
    ASSUME OInv, NEW names \in Seq(Name), IsInjective(names),
           NEW rows \in SUBSET Row, IsFiniteSet(rows),
           \A r \in rows : r[1] \in ToSet(names) /\ r[3] \in ToSet(names),
           Sync(names, rows)
    PROVE  Rebuilt(cg', names, rows) /\ cg'.simple = cg.simple /\ registry' = registry
<1> DEFINE table == SetToSeq(rows)
           o == [cg EXCEPT !.names = names, !.edges = BufferOf(names, Codes, table)]
<1>1. table \in Seq(Row) /\ ToSet(table) = rows
  <2>1. table \in Seq(rows) /\ ToSet(table) = rows
    BY SetToSeqFacts
  <2> QED
    BY <2>1, SeqMonotonic
<1> HIDE DEF table
<1>2. registry \in Seq(Glyph) /\ IsInjective(registry) /\ Known(Codes, ToSet(table))
  BY <1>1 DEF OInv, Sync
<1>3. BufferOf(names, Codes, table) \in EdgeBags
  BY <1>1, <1>2, BufferFacts
<1>4. /\ o \in Object /\ o.names = names /\ o.simple = cg.simple
      /\ o.snapshot = cg.snapshot /\ o.edges = BufferOf(names, Codes, table)
  BY <1>3 DEF OInv, WellMade, Object, ObjectOver
<1>5. SeesRegistry(o, registry)
  BY <1>4 DEF OInv, WellMade, SeesRegistry
<1>6. cg' \in Returned(o) /\ registry' = registry
  BY DEF Sync, Returns, table
<1> HIDE DEF o
<1> QED
  BY <1>1, <1>2, <1>4, <1>5, <1>6, RebuiltFromTable

LEMMA AppendNewFacts ==
    ASSUME NEW names \in Seq(Name), IsInjective(names), NEW x \in Name
    PROVE  /\ AppendNew(names, x) \in Seq(Name) /\ IsInjective(AppendNew(names, x))
           /\ ToSet(AppendNew(names, x)) = ToSet(names) \cup {x}
<1>1. CASE x \in ToSet(names)
  BY <1>1 DEF AppendNew
<1>2. CASE x \notin ToSet(names)
  BY <1>2, AppendFacts DEF AppendNew
<1> QED
  BY <1>1, <1>2

LEMMA RowEnds ==
    ASSUME NEW rows \in Seq(Row)
    PROVE  /\ EndsOf(rows) \in Seq(Name)
           /\ ToSet(EndsOf(rows)) = {r[1] : r \in ToSet(rows)} \cup {r[3] : r \in ToSet(rows)}
  BY EndsFacts DEF Row, RowOver

LEMMA RowsOfObject ==
    ASSUME OInv
    PROVE  /\ RowsOf(cg) \in SUBSET Row /\ IsFiniteSet(RowsOf(cg))
           /\ cg.names \in Seq(Name) /\ IsInjective(cg.names)
           /\ \A r \in RowsOf(cg) : r[1] \in ToSet(cg.names) /\ r[3] \in ToSet(cg.names)
  BY RowsTyped DEF OInv, WellMade, Object, ObjectOver

LEMMA AddNodeFacts ==
    ASSUME OInv, NEW x \in Name, Sync(AppendNew(cg.names, x), RowsOf(cg))
    PROVE  Rebuilt(cg', AppendNew(cg.names, x), RowsOf(cg)) /\ registry' = registry
  BY RowsOfObject, AppendNewFacts, SyncFacts

(* The names after the ends of a row have been added. *)
LEMMA NamesWithRow ==
    ASSUME OInv, NEW row \in Row
    PROVE  LET names == Unique(cg.names \o EndsOf(<<row>>)) IN
           /\ names \in Seq(Name) /\ IsInjective(names)
           /\ ToSet(names) = ToSet(cg.names) \cup {row[1], row[3]}
           /\ Len(cg.names) <= Len(names)
           /\ \A k \in 1 .. Len(cg.names) : names[k] = cg.names[k]
<1>1. <<row>> \in Seq(Row) /\ ToSet(<<row>>) = {row}
  BY DEF ToSet
<1>2. EndsOf(<<row>>) \in Seq(Name) /\ ToSet(EndsOf(<<row>>)) = {row[1], row[3]}
  BY <1>1, RowEnds
<1>3. cg.names \in Seq(Name) /\ IsInjective(cg.names)
  BY RowsOfObject
<1>4. /\ cg.names \o EndsOf(<<row>>) \in Seq(Name)
      /\ ToSet(cg.names \o EndsOf(<<row>>)) = ToSet(cg.names) \cup {row[1], row[3]}
  BY <1>2, <1>3, ConcatSet
<1> QED
  BY <1>2, <1>3, <1>4, UniqueFacts, UniqueExtends

LEMMA AddEdgeFacts ==
    ASSUME OInv, NEW row \in Row,
           Sync(Unique(cg.names \o EndsOf(<<row>>)), RowsOf(cg) \cup {row})
    PROVE  /\ Rebuilt(cg', Unique(cg.names \o EndsOf(<<row>>)), RowsOf(cg) \cup {row})
           /\ registry' = registry
<1> DEFINE names == Unique(cg.names \o EndsOf(<<row>>))
           rows == RowsOf(cg) \cup {row}
<1>1. rows \in SUBSET Row /\ IsFiniteSet(rows)
  BY RowsOfObject, FS_AddElement
<1>2. names \in Seq(Name) /\ IsInjective(names) /\ ToSet(names) = ToSet(cg.names) \cup {row[1], row[3]}
  BY NamesWithRow
<1>3. \A r \in rows : r[1] \in ToSet(names) /\ r[3] \in ToSet(names)
  BY <1>2, RowsOfObject
<1> HIDE DEF names, rows
<1>4. Sync(names, rows)
  BY DEF names, rows
<1>5. Rebuilt(cg', names, rows) /\ registry' = registry
  BY <1>1, <1>2, <1>3, <1>4, SyncFacts
<1> QED
  BY <1>5 DEF names, rows

LEMMA RemoveRowsFacts ==
    ASSUME OInv, NEW rows \in SUBSET RowsOf(cg), Sync(cg.names, rows)
    PROVE  Rebuilt(cg', cg.names, rows) /\ registry' = registry
<1>1. rows \in SUBSET Row /\ IsFiniteSet(rows)
  BY RowsOfObject, FS_Subset
<1> QED
  BY <1>1, RowsOfObject, SyncFacts

LEMMA RemoveNodeFacts ==
    ASSUME OInv, NEW x \in Name, RemoveNode(x)
    PROVE  /\ Rebuilt(cg', Picked(cg.names, {i \in DOMAIN cg.names : cg.names[i] # x}),
                      {r \in RowsOf(cg) : x \notin {r[1], r[3]}})
           /\ registry' = registry
<1> DEFINE I == {i \in DOMAIN cg.names : cg.names[i] # x}
           names == Picked(cg.names, I)
           rows == {r \in RowsOf(cg) : x \notin {r[1], r[3]}}
<1>1. I \in SUBSET DOMAIN cg.names /\ cg.names \in Seq(Name) /\ IsInjective(cg.names)
  BY RowsOfObject
<1>2. \A i, j \in I : cg.names[i] = cg.names[j] => i = j
  BY <1>1 DEF IsInjective
<1>3. {cg.names[i] : i \in I} = ToSet(cg.names) \ {x}
  BY DEF ToSet
<1> HIDE DEF I
<1>4. names \in Seq(Name) /\ IsInjective(names) /\ ToSet(names) = ToSet(cg.names) \ {x}
  BY <1>1, <1>2, <1>3, PickedFacts
<1>5. rows \in SUBSET Row /\ IsFiniteSet(rows)
  BY RowsOfObject, FS_Subset
<1>6. \A r \in rows : r[1] \in ToSet(names) /\ r[3] \in ToSet(names)
  BY <1>4, RowsOfObject
<1>7. Sync(names, rows)
  BY DEF RemoveNode, I
<1> HIDE DEF names, rows
<1>8. Rebuilt(cg', names, rows) /\ registry' = registry
  BY <1>4, <1>5, <1>6, <1>7, SyncFacts
<1> QED
  BY <1>8 DEF names, rows, I

LEMMA ConstructFacts ==
    ASSUME OInv, NEW simple \in Simples, NEW class \in Classes, NEW declared \in Declared,
           NEW rowTable \in Tables, Construct(simple, class, declared, rowTable)
    PROVE  Rebuilt(cg', NodeOrder(rowTable, declared), ToSet(rowTable)) /\ registry' = registry
<1> DEFINE names == NodeOrder(rowTable, declared)
           all == IF ToSet(EndsOf(rowTable)) \subseteq ToSet(declared)
                  THEN declared ELSE EndsOf(rowTable) \o declared
           o == [names |-> names, simple |-> simple, class |-> class,
                 snapshot |-> SnapshotOf(registry), edges |-> BufferOf(names, Codes, rowTable)]
<1>1. /\ simple \in BOOLEAN /\ class \in GraphClass /\ declared \in Seq(Name)
      /\ rowTable \in Seq(Row)
      /\ registry \in Seq(Glyph) /\ IsInjective(registry)
  BY ObjectsAssumption DEF OInv
<1>2. cg' \in Returned(o) /\ Known(Codes, ToSet(rowTable)) /\ registry' = registry
  BY DEF Construct, Constructed
<1>3. all \in Seq(Name) /\ ToSet(EndsOf(rowTable)) \subseteq ToSet(all)
  BY <1>1, RowEnds, ConcatSet
<1>4. names = Unique(all)
  BY DEF NodeOrder
<1> HIDE DEF names, all
<1>5. names \in Seq(Name) /\ IsInjective(names) /\ ToSet(names) = ToSet(all)
  BY <1>3, <1>4, UniqueFacts
<1>6. \A r \in ToSet(rowTable) : r[1] \in ToSet(names) /\ r[3] \in ToSet(names)
  BY <1>1, <1>3, <1>5, RowEnds
<1>7. SeesRegistry(o, registry)
  <2>1. Len(registry) \in 0 .. Len(registry)
    BY <1>1, LenProperties
  <2>2. o.snapshot = [c \in 0 .. (Len(registry) - 1) |-> SpecOfGlyph[registry[c + 1]]]
    BY DEF SnapshotOf
  <2> QED
    BY <2>1, <2>2 DEF SeesRegistry
<1>8. o.snapshot \in Snapshots
  BY <1>1, <1>7, SnapshotFacts
<1>9. BufferOf(names, Codes, rowTable) \in EdgeBags
  BY <1>1, <1>2, <1>5, <1>6, BufferFacts
<1>10. o \in Object /\ o.names = names /\ o.edges = BufferOf(names, Codes, rowTable)
  BY <1>1, <1>5, <1>8, <1>9 DEF Object, ObjectOver
<1> HIDE DEF o
<1>11. Rebuilt(cg', names, ToSet(rowTable))
  BY <1>1, <1>2, <1>5, <1>6, <1>7, <1>10, RebuiltFromTable
<1> QED
  BY <1>2, <1>11 DEF names
--------------------------------------------------------------------------------
(* set_edges(): the old rows keep their codes *)

LEMMA SetEdgeFacts ==
    ASSUME OInv, NEW row \in Row, SetEdge(row)
    PROVE  LET names == Unique(cg.names \o EndsOf(<<row>>))
               f == Coded(names, Codes, row)
               kept == {d \in DOMAIN cg.edges :
                           ~ (IF cg.simple THEN SamePair(d, f) ELSE d[1] = f[1] /\ d[2] = f[2])}
           IN  /\ Rebuilt(cg', names, RowsOf([cg EXCEPT !.edges = [e \in kept |-> 1]]) \cup {row})
               /\ registry' = registry
<1> DEFINE names == Unique(cg.names \o EndsOf(<<row>>))
           buffer == BufferOf(names, Codes, <<row>>)
           f == Coded(names, Codes, row)
           kept == {d \in DOMAIN cg.edges :
                       ~ (IF cg.simple THEN SamePair(d, f) ELSE d[1] = f[1] /\ d[2] = f[2])}
           merged == ReplacePairs(cg.simple, cg.edges, buffer)
           o == [cg EXCEPT !.names = names, !.edges = merged]
           back(e) == <<cg.names[e[1] + 1], cg.snapshot[e[3]].glyph, cg.names[e[2] + 1]>>
<1>1. /\ registry \in Seq(Glyph) /\ IsInjective(registry)
      /\ <<row>> \in Seq(Row) /\ ToSet(<<row>>) = {row} /\ Known(Codes, ToSet(<<row>>))
  <2>1. <<row>> \in Seq(Row) /\ ToSet(<<row>>) = {row}
    BY DEF ToSet
  <2>2. Known(Codes, {row})
    BY DEF SetEdge
  <2> QED
    BY <2>1, <2>2 DEF OInv
<1>2. /\ names \in Seq(Name) /\ IsInjective(names)
      /\ row[1] \in ToSet(names) /\ row[3] \in ToSet(names)
      /\ Len(cg.names) <= Len(names)
      /\ \A k \in 1 .. Len(cg.names) : names[k] = cg.names[k]
  BY NamesWithRow
<1> HIDE DEF names
<1>3. buffer \in EdgeBags /\ IsFiniteSet(DOMAIN buffer) /\ DOMAIN buffer = {f}
  <2>1. /\ buffer \in EdgeBags /\ IsFiniteSet(DOMAIN buffer)
        /\ DOMAIN buffer = {Coded(names, Codes, r) : r \in ToSet(<<row>>)}
    BY <1>1, <1>2, BufferFacts
  <2> QED
    BY <1>1, <2>1
<1>4. f \in Edge
  BY <1>3 DEF EdgeBags
<1> HIDE DEF f
<1>5. merged = [e \in kept \cup {f} |-> 1]
  BY <1>3 DEF ReplacePairs, Displaced
<1>6. IsFiniteSet(DOMAIN cg.edges) /\ DOMAIN cg.edges \in SUBSET Edge
  BY DEF OInv, WellMade, Object, ObjectOver, EdgeBags
<1>7. IsFiniteSet(kept) /\ IsFiniteSet(kept \cup {f})
  <2>1. kept \in SUBSET DOMAIN cg.edges
    OBVIOUS
  <2> HIDE DEF kept
  <2>2. IsFiniteSet(kept)
    BY <1>6, <2>1, FS_Subset
  <2> QED
    BY <2>2, FS_AddElement
<1>8. merged \in EdgeBags /\ DOMAIN merged = kept \cup {f}
  <2>1. kept \in SUBSET Edge
    BY <1>6
  <2> HIDE DEF kept, merged
  <2>2. merged \in [kept \cup {f} -> Nat]
    BY <1>5
  <2> QED
    BY <1>4, <2>1, <2>2 DEF EdgeBags
<1> HIDE DEF merged
<1>9. /\ o \in Object /\ o.names = names /\ o.simple = cg.simple
      /\ o.snapshot = cg.snapshot /\ o.edges = merged
  BY <1>2, <1>8 DEF OInv, WellMade, Object, ObjectOver
<1>10. cg' \in Returned(o) /\ registry' = registry
  BY DEF SetEdge, Returns, names, merged
<1> HIDE DEF o
<1>11. /\ cg' \in Object /\ cg'.names = names /\ cg'.simple = cg.simple
       /\ cg'.snapshot = cg.snapshot /\ cg'.edges = merged
       /\ ValidEdges(Len(cg'.names), cg'.simple, cg'.snapshot, cg'.edges)
       /\ cg'.class # "AUTO" /\ SimpleFitsClass(cg')
       /\ \A g \in CoreOf(cg') : InClass(g, cg'.class)
  BY <1>9, <1>10, ReturnedFacts DEF Object
<1>12. SeesRegistry(cg', registry)
  BY <1>11 DEF OInv, WellMade, SeesRegistry
<1>13. WellMade(cg', registry)
  BY <1>2, <1>7, <1>8, <1>11, <1>12 DEF WellMade
<1>14. ASSUME NEW e \in kept
       PROVE  <<cg'.names[e[1] + 1], cg'.snapshot[e[3]].glyph, cg'.names[e[2] + 1]>> = back(e)
  <2>1. e[1] + 1 \in 1 .. Len(cg.names) /\ e[2] + 1 \in 1 .. Len(cg.names)
    BY EdgesTyped DEF OInv
  <2> QED
    BY <1>2, <1>11, <2>1
<1>15. <<cg'.names[f[1] + 1], cg'.snapshot[f[3]].glyph, cg'.names[f[2] + 1]>> = row
  <2>1. /\ names[IdOf(names, row[1]) + 1] = row[1]
        /\ names[IdOf(names, row[3]) + 1] = row[3]
    BY <1>2, IdFacts
  <2>2. f[3] \in DOMAIN cg'.snapshot
    BY <1>8, <1>11 DEF ValidEdges, ValidEdge
  <2>3. f = <<IdOf(names, row[1]), IdOf(names, row[3]), Codes[row[2]]>>
    BY DEF f, Coded
  <2>4. row[2] \in ToSet(registry) /\ registry[Codes[row[2]] + 1] = row[2]
    BY <1>1, CodesFacts DEF Known
  <2>5. cg'.snapshot[f[3]].glyph = row[2]
    BY <1>1, <1>12, <2>2, <2>3, <2>4, SnapshotFacts
  <2>6. row = <<row[1], row[2], row[3]>>
    BY DEF Row
  <2> QED
    BY <1>11, <2>1, <2>3, <2>5, <2>6
<1>16. RowsOf([cg EXCEPT !.edges = [e \in kept |-> 1]]) = {back(e) : e \in kept}
  <2> DEFINE c == [cg EXCEPT !.edges = [e \in kept |-> 1]]
  <2>1. c.names = cg.names /\ c.snapshot = cg.snapshot /\ DOMAIN c.edges = kept
    BY DEF OInv, WellMade, Object, ObjectOver
  <2> HIDE DEF c
  <2> QED
    BY <2>1 DEF RowsOf, c
<1>17. RowsOf(cg') = {back(e) : e \in kept} \cup {row}
  <2>1. RowsOf(cg') = {<<cg'.names[e[1] + 1], cg'.snapshot[e[3]].glyph, cg'.names[e[2] + 1]>> :
                          e \in kept \cup {f}}
    BY <1>8, <1>11 DEF RowsOf
  <2> HIDE DEF kept
  <2> QED
    BY <1>14, <1>15, <2>1
<1> HIDE DEF back
<1> QED
  BY <1>10, <1>11, <1>13, <1>16, <1>17 DEF Rebuilt, names, f
--------------------------------------------------------------------------------
(* Induced subgraphs *)

LEMMA InducedFacts ==
    ASSUME NEW m \in Nat, NEW keep \in Seq(Nat), KeepIsOk(keep, m),
           NEW edges, DOMAIN edges \in SUBSET Edge
    PROVE  /\ DOMAIN Induced(keep, edges) \in SUBSET Edge
           /\ \A d \in DOMAIN Induced(keep, edges) :
                  /\ d[1] + 1 \in DOMAIN keep /\ d[2] + 1 \in DOMAIN keep
                  /\ d = <<d[1], d[2], d[3]>>
                  /\ Original(keep, d) \in DOMAIN edges
                  /\ Induced(keep, edges)[d] = edges[Original(keep, d)]
           /\ \A d, e \in DOMAIN Induced(keep, edges) :
                  Original(keep, d) = Original(keep, e) => d = e
<1> DEFINE D == {d \in Kept(keep) \X Kept(keep) \X {f[3] : f \in DOMAIN edges} :
                    Original(keep, d) \in DOMAIN edges}
<1>1. DOMAIN keep = 1 .. Len(keep) /\ Len(keep) \in Nat
  BY LenProperties
<1>2. \A f \in DOMAIN edges : f[3] \in Nat
  BY DEF Edge
<1>3. \A k \in Kept(keep) : k \in Nat /\ k + 1 \in DOMAIN keep
  BY <1>1 DEF Kept
<1>4. DOMAIN Induced(keep, edges) = D /\ \A d \in D : Induced(keep, edges)[d] = edges[Original(keep, d)]
  BY DEF Induced
<1>5. ASSUME NEW d \in D
      PROVE  /\ d \in Edge /\ d = <<d[1], d[2], d[3]>>
             /\ d[1] + 1 \in DOMAIN keep /\ d[2] + 1 \in DOMAIN keep
             /\ Original(keep, d) \in DOMAIN edges
  BY <1>2, <1>3 DEF Edge
<1>6. ASSUME NEW d \in D, NEW e \in D, Original(keep, d) = Original(keep, e) PROVE d = e
  <2>1. keep[d[1] + 1] = keep[e[1] + 1] /\ keep[d[2] + 1] = keep[e[2] + 1] /\ d[3] = e[3]
    BY <1>6 DEF Original
  <2>2. d[1] + 1 = e[1] + 1 /\ d[2] + 1 = e[2] + 1
    BY <1>5, <2>1 DEF KeepIsOk
  <2>3. d[1] \in Int /\ d[2] \in Int /\ e[1] \in Int /\ e[2] \in Int
    <3>1. d \in Edge /\ e \in Edge
      BY <1>5
    <3> QED
      BY <3>1 DEF Edge
  <2>4. d = <<d[1], d[2], d[3]>> /\ e = <<e[1], e[2], e[3]>>
    BY <1>5
  <2> QED
    BY <2>1, <2>2, <2>3, <2>4
<1> HIDE DEF D
<1> QED
  BY <1>4, <1>5, <1>6

(* A subgraph trusts its edges: they are valid because the graph's were.   *)
LEMMA InducedIsValid ==
    ASSUME NEW m \in Nat, NEW keep \in Seq(Nat), KeepIsOk(keep, m),
           NEW edges, DOMAIN edges \in SUBSET Edge,
           NEW simple, NEW specs, ValidEdges(m, simple, specs, edges)
    PROVE  ValidEdges(Len(keep), simple, specs, Induced(keep, edges))
<1> DEFINE D == DOMAIN Induced(keep, edges)
<1>1. DOMAIN keep = 1 .. Len(keep) /\ Len(keep) \in Nat
  BY LenProperties
<1>2. \A d \in D : d \in Edge /\ d[1] + 1 \in DOMAIN keep /\ d[2] + 1 \in DOMAIN keep
  BY InducedFacts
<1>3. \A d \in D : Original(keep, d) \in DOMAIN edges /\ Induced(keep, edges)[d] = edges[Original(keep, d)]
  BY InducedFacts
<1>4. \A d, e \in D : Original(keep, d) = Original(keep, e) => d = e
  BY InducedFacts
<1> HIDE DEF D
<1>5. ASSUME NEW d \in D
      PROVE  ValidEdge(Len(keep), simple, specs, d) /\ Induced(keep, edges)[d] = 1
  <2>1. ValidEdge(m, simple, specs, Original(keep, d)) /\ edges[Original(keep, d)] = 1
    BY <1>3 DEF ValidEdges
  <2>2. d[1] < Len(keep) /\ d[2] < Len(keep)
    BY <1>1, <1>2 DEF Edge
  <2> QED
    BY <1>3, <2>1, <2>2 DEF ValidEdge, Original
<1>6. ASSUME NEW d \in D, NEW e \in D, d # e PROVE ~ SameKey(simple, specs, d, e)
  <2>1. ~ SameKey(simple, specs, Original(keep, d), Original(keep, e))
    BY <1>3, <1>4, <1>6 DEF ValidEdges
  <2>2. SamePair(d, e) => SamePair(Original(keep, d), Original(keep, e))
    BY DEF SamePair, Original
  <2>3. Original(keep, d)[3] = d[3] /\ Original(keep, e)[3] = e[3]
    BY DEF Original
  <2> QED
    BY <1>6, <2>1, <2>2, <2>3 DEF SameKey
<1> QED
  BY <1>5, <1>6 DEF ValidEdges, D

LEMMA AcyclicIsHereditary ==
    ASSUME NEW V, NEW A, Acyclic(V, A), NEW W, NEW B, NEW phi \in [W -> V],
           \A i, j \in W : <<i, j>> \in B => <<phi[i], phi[j]>> \in A
    PROVE  Acyclic(W, B)
<1> SUFFICES ASSUME NEW S \in (SUBSET W) \ {{}}
             PROVE  \E x \in S : \A y \in S : <<y, x>> \notin B
  BY DEF Acyclic
<1> DEFINE T == {phi[i] : i \in S}
<1>1. T \in (SUBSET V) \ {{}}
  OBVIOUS
<1>2. PICK u \in T : \A v \in T : <<v, u>> \notin A
  BY <1>1 DEF Acyclic
<1>3. PICK x \in S : u = phi[x]
  OBVIOUS
<1> QED
  BY <1>2, <1>3

LEMMA ReachesIsHereditary ==
    ASSUME NEW V, NEW A, NEW W, NEW B, NEW phi \in [W -> V],
           \A i, j \in W : <<i, j>> \in B => <<phi[i], phi[j]>> \in A,
           NEW i \in W, NEW j \in W, Reaches(W, B, i, j)
    PROVE  Reaches(V, A, phi[i], phi[j])
<1> SUFFICES ASSUME NEW S \in SUBSET V, phi[i] \in S,
                    \A x \in S, y \in V : <<x, y>> \in A => y \in S
             PROVE  phi[j] \in S
  BY DEF Reaches
<1> DEFINE T == {k \in W : phi[k] \in S}
<1>1. T \in SUBSET W /\ i \in T /\ \A x \in T, y \in W : <<x, y>> \in B => y \in T
  OBVIOUS
<1>2. j \in T
  BY <1>1 DEF Reaches
<1> QED
  BY <1>2
(* The edges of a subgraph are edges of the graph under the old numbers.   *)
LEMMA InducedEdges ==
    ASSUME NEW g, g.n \in Nat, EdgeSet(g) \in SUBSET Edge,
           NEW keep \in Seq(Nat), KeepIsOk(keep, g.n)
    PROVE  LET h == InducedCore(keep, g)
               old == [i \in Nodes(h) |-> keep[i + 1]]
           IN  /\ old \in [Nodes(h) -> Nodes(g)]
               /\ \A i, j \in Nodes(h) : old[i] = old[j] => i = j
               /\ \A i, j \in Nodes(h) : <<i, j>> \in Arcs(h) => <<old[i], old[j]>> \in Arcs(g)
               /\ \A class : \A i, j \in Nodes(h) :
                      <<i, j>> \in Pairs(h, class) => <<old[i], old[j]>> \in Pairs(g, class)
               /\ \A classes : OnlyClasses(g, classes) => OnlyClasses(h, classes)
<1> DEFINE h == InducedCore(keep, g)
           old == [i \in Nodes(h) |-> keep[i + 1]]
<1>1. DOMAIN keep = 1 .. Len(keep) /\ Len(keep) \in Nat
  BY LenProperties
<1>2. /\ h.n = Len(keep) /\ h.registry = g.registry /\ h.links = Induced(keep, g.links)
  BY DEF InducedCore, Reordered, Compile
<1>3. Nodes(h) = 0 .. (Len(keep) - 1) /\ Nodes(g) = 0 .. (g.n - 1)
  BY <1>2 DEF Nodes
<1> HIDE DEF h
<1>4. \A i \in Nodes(h) : /\ i \in Int /\ i + 1 \in DOMAIN keep /\ old[i] = keep[i + 1]
                          /\ keep[i + 1] \in Nodes(g)
  <2> SUFFICES ASSUME NEW i \in Nodes(h)
               PROVE  i \in Int /\ i + 1 \in DOMAIN keep /\ keep[i + 1] \in Nodes(g)
    OBVIOUS
  <2>1. i \in Int /\ i + 1 \in DOMAIN keep
    BY <1>1, <1>3
  <2>2. keep[i + 1] \in Nat
    BY <1>1, <2>1, ElementOfSeq
  <2>3. keep[i + 1] < g.n
    BY <2>1 DEF KeepIsOk
  <2> QED
    BY <1>3, <2>1, <2>2, <2>3
<1>5. old \in [Nodes(h) -> Nodes(g)]
  BY <1>4
<1>6. ASSUME NEW i \in Nodes(h), NEW j \in Nodes(h), old[i] = old[j] PROVE i = j
  <2>1. i + 1 = j + 1
    BY <1>4, <1>6 DEF KeepIsOk
  <2> QED
    BY <1>4, <2>1
<1> HIDE DEF old
<1>7. ASSUME NEW d \in EdgeSet(h)
      PROVE  /\ d[1] \in Nodes(h) /\ d[2] \in Nodes(h)
             /\ \E e \in EdgeSet(g) : /\ e[1] = old[d[1]] /\ e[2] = old[d[2]]
                                      /\ SpecOf(h, d) = SpecOf(g, e)
  <2>1. /\ d \in Edge /\ d[1] + 1 \in DOMAIN keep /\ d[2] + 1 \in DOMAIN keep
        /\ Original(keep, d) \in EdgeSet(g)
    <3>1. d \in DOMAIN Induced(keep, g.links)
      BY <1>2 DEF EdgeSet
    <3> QED
      BY <3>1, InducedFacts DEF EdgeSet
  <2>2. d[1] \in Nodes(h) /\ d[2] \in Nodes(h)
    <3>1. d[1] \in Nat /\ d[2] \in Nat
      BY <2>1 DEF Edge
    <3>2. d[1] + 1 \in 1 .. Len(keep) /\ d[2] + 1 \in 1 .. Len(keep)
      BY <1>1, <2>1
    <3> QED
      BY <1>1, <1>3, <3>1, <3>2
  <2>3. Original(keep, d)[1] = old[d[1]] /\ Original(keep, d)[2] = old[d[2]]
    BY <1>4, <2>2 DEF Original
  <2>4. SpecOf(h, d) = SpecOf(g, Original(keep, d))
    BY <1>2 DEF SpecOf, Original
  <2> QED
    BY <2>1, <2>2, <2>3, <2>4
<1>8. ASSUME NEW i \in Nodes(h), NEW j \in Nodes(h), <<i, j>> \in Arcs(h)
      PROVE  <<old[i], old[j]>> \in Arcs(g)
  <2>1. PICK d \in EdgeSet(h) :
            /\ SpecOf(h, d).class = "directed"
            /\ \/ SpecOf(h, d).head = "arrow" /\ <<i, j>> = <<d[1], d[2]>>
               \/ SpecOf(h, d).tail = "arrow" /\ <<i, j>> = <<d[2], d[1]>>
    BY <1>8 DEF Arcs
  <2>2. PICK e \in EdgeSet(g) : /\ e[1] = old[d[1]] /\ e[2] = old[d[2]]
                                /\ SpecOf(h, d) = SpecOf(g, e)
    BY <1>7
  <2>3. <<old[i], old[j]>> \in Nodes(g) \X Nodes(g)
    BY <1>5
  <2>4. /\ SpecOf(g, e).class = "directed"
        /\ \/ SpecOf(g, e).head = "arrow" /\ <<old[i], old[j]>> = <<e[1], e[2]>>
           \/ SpecOf(g, e).tail = "arrow" /\ <<old[i], old[j]>> = <<e[2], e[1]>>
    BY <2>1, <2>2
  <2> QED
    BY <2>3, <2>4 DEF Arcs
<1>9. ASSUME NEW class, NEW i \in Nodes(h), NEW j \in Nodes(h), <<i, j>> \in Pairs(h, class)
      PROVE  <<old[i], old[j]>> \in Pairs(g, class)
  <2>1. PICK d \in EdgeSet(h) : SpecOf(h, d).class = class /\ {i, j} = {d[1], d[2]}
    BY <1>9 DEF Pairs
  <2>2. PICK e \in EdgeSet(g) : /\ e[1] = old[d[1]] /\ e[2] = old[d[2]]
                                /\ SpecOf(h, d) = SpecOf(g, e)
    BY <1>7
  <2>3. <<old[i], old[j]>> \in Nodes(g) \X Nodes(g)
    BY <1>5
  <2>4. {old[i], old[j]} = {e[1], e[2]}
    BY <2>1, <2>2
  <2>5. SpecOf(g, e).class = class
    BY <2>1, <2>2
  <2> QED
    BY <2>3, <2>4, <2>5 DEF Pairs
<1>10. ASSUME NEW classes, OnlyClasses(g, classes) PROVE OnlyClasses(h, classes)
  BY <1>7, <1>10 DEF OnlyClasses
<1> QED
  BY <1>5, <1>6, <1>8, <1>9, <1>10 DEF h, old

LEMMA AncestralIsHereditary ==
    ASSUME NEW V, NEW A \in SUBSET (V \X V), NEW B \in SUBSET (V \X V), NEW U \in SUBSET (V \X V),
           Ancestral(V, A, B, U),
           NEW W, NEW A2 \in SUBSET (W \X W), NEW B2 \in SUBSET (W \X W),
           NEW U2 \in SUBSET (W \X W), NEW phi \in [W -> V],
           \A i, j \in W : phi[i] = phi[j] => i = j,
           \A i, j \in W : <<i, j>> \in A2 => <<phi[i], phi[j]>> \in A,
           \A i, j \in W : <<i, j>> \in B2 => <<phi[i], phi[j]>> \in B,
           \A i, j \in W : <<i, j>> \in U2 => <<phi[i], phi[j]>> \in U
    PROVE  Ancestral(W, A2, B2, U2)
<1>1. Acyclic(W, A2)
  <2>1. Acyclic(V, A)
    BY DEF Ancestral
  <2> QED
    BY <2>1, AcyclicIsHereditary
<1>2. ASSUME NEW v \in W, Children(U2, v) # {} PROVE Parents(A2 \cup B2, v) = {}
  <2> SUFFICES ASSUME NEW u \in Parents(A2 \cup B2, v) PROVE FALSE
    OBVIOUS
  <2>1. u \in W /\ <<u, v>> \in A2 \cup B2
    BY DEF Parents
  <2>0. PICK e \in U2 : e[1] = v
    BY <1>2 DEF Children
  <2>2. PICK w \in W : <<v, w>> \in U2
    <3>1. e = <<e[1], e[2]>> /\ e[2] \in W
      OBVIOUS
    <3> QED
      BY <2>0, <3>1
  <2>3. phi[w] \in Children(U, phi[v]) /\ phi[u] \in Parents(A \cup B, phi[v])
    <3>1. <<phi[v], phi[w]>> \in U /\ <<phi[u], phi[v]>> \in A \cup B
      BY <2>1, <2>2
    <3> QED
      BY <3>1 DEF Children, Parents
  <2> QED
    BY <2>3 DEF Ancestral
<1>3. \A i, j \in W : Reaches(W, A2 \cup U2, i, j) => Reaches(V, A \cup U, phi[i], phi[j])
  <2>1. \A i, j \in W : <<i, j>> \in A2 \cup U2 => <<phi[i], phi[j]>> \in A \cup U
    OBVIOUS
  <2> DEFINE R == A2 \cup U2
             S == A \cup U
  <2>2. \A i, j \in W : <<i, j>> \in R => <<phi[i], phi[j]>> \in S
    BY <2>1
  <2> HIDE DEF R, S
  <2>3. \A i, j \in W : Reaches(W, R, i, j) => Reaches(V, S, phi[i], phi[j])
    BY <2>2, ReachesIsHereditary
  <2> QED
    BY <2>3 DEF R, S
<1>4. ASSUME NEW a \in A2 PROVE ~ Reaches(W, A2 \cup U2, a[2], a[1])
  <2>1. a = <<a[1], a[2]>> /\ a[1] \in W /\ a[2] \in W
    OBVIOUS
  <2>2. <<phi[a[1]], phi[a[2]]>> \in A
    BY <2>1
  <2>3. ~ Reaches(V, A \cup U, phi[a[2]], phi[a[1]])
    BY <2>2 DEF Ancestral
  <2> QED
    BY <1>3, <2>1, <2>3
<1>5. ASSUME NEW b \in B2, b[1] # b[2] PROVE ~ Reaches(W, A2 \cup U2, b[1], b[2])
  <2>1. b = <<b[1], b[2]>> /\ b[1] \in W /\ b[2] \in W
    OBVIOUS
  <2>2. <<phi[b[1]], phi[b[2]]>> \in B /\ phi[b[1]] # phi[b[2]]
    BY <1>5, <2>1
  <2>3. ~ Reaches(V, A \cup U, phi[b[1]], phi[b[2]])
    BY <2>2 DEF Ancestral
  <2> QED
    BY <1>3, <2>1, <2>3
<1> QED
  BY <1>1, <1>2, <1>4, <1>5 DEF Ancestral

(* What a class promises of every induced subgraph. *)
LEMMA ClassIsHereditary ==
    ASSUME NEW g, g.n \in Nat, EdgeSet(g) \in SUBSET Edge,
           NEW keep \in Seq(Nat), KeepIsOk(keep, g.n),
           NEW class \in GraphClass, InClass(g, HereditaryClass(class))
    PROVE  InClass(InducedCore(keep, g), HereditaryClass(class))
<1> DEFINE h == InducedCore(keep, g)
           old == [i \in Nodes(h) |-> keep[i + 1]]
<1>1. /\ old \in [Nodes(h) -> Nodes(g)]
      /\ \A i, j \in Nodes(h) : old[i] = old[j] => i = j
      /\ \A i, j \in Nodes(h) : <<i, j>> \in Arcs(h) => <<old[i], old[j]>> \in Arcs(g)
      /\ \A c : \A i, j \in Nodes(h) :
             <<i, j>> \in Pairs(h, c) => <<old[i], old[j]>> \in Pairs(g, c)
      /\ \A classes : OnlyClasses(g, classes) => OnlyClasses(h, classes)
  BY InducedEdges
<1> HIDE DEF h, old
<1>2. Acyclic(Nodes(g), Arcs(g)) => Acyclic(Nodes(h), Arcs(h))
  BY <1>1, AcyclicIsHereditary
<1>3. Ancestral(Nodes(g), Arcs(g), Spouses(g), Lines(g)) =>
          Ancestral(Nodes(h), Arcs(h), Spouses(h), Lines(h))
  <2>1. \A G : /\ Arcs(G) \in SUBSET (Nodes(G) \X Nodes(G))
               /\ Spouses(G) \in SUBSET (Nodes(G) \X Nodes(G))
               /\ Lines(G) \in SUBSET (Nodes(G) \X Nodes(G))
    BY DEF Arcs, Spouses, Lines, Pairs
  <2>2. \A i, j \in Nodes(h) : /\ <<i, j>> \in Spouses(h) => <<old[i], old[j]>> \in Spouses(g)
                               /\ <<i, j>> \in Lines(h) => <<old[i], old[j]>> \in Lines(g)
    BY <1>1 DEF Spouses, Lines
  <2> QED
    BY <1>1, <2>1, <2>2, AncestralIsHereditary
<1>4. IsDag(g) => IsDag(h)
  BY <1>1, <1>2 DEF IsDag
<1>5. IsUg(g) => IsUg(h)
  BY <1>1 DEF IsUg
<1>6. IsPdag(g) => IsPdag(h)
  BY <1>1, <1>2 DEF IsPdag
<1>7. IsAdmg(g) => IsAdmg(h)
  BY <1>1, <1>2 DEF IsAdmg
<1>8. IsAg(g) => IsAg(h)
  BY <1>1, <1>3 DEF IsAg
<1> DEFINE H == HereditaryClass(class)
<1>9. H \in {"DAG", "PDAG", "UG", "ADMG", "AG", "UNKNOWN", "AUTO"}
  BY DEF HereditaryClass, GraphClass
<1> HIDE DEF H
<1>10. InClass(g, H) => InClass(h, H)
  BY <1>4, <1>5, <1>6, <1>7, <1>8, <1>9 DEF InClass
<1> QED
  BY <1>10 DEF h, H
LEMMA SubgraphFacts ==
    ASSUME OInv, NEW keep \in KeepLists, Subgraph(keep)
    PROVE  /\ WellMade(cg', registry)
           /\ cg'.class = cg.class /\ cg'.simple = cg.simple /\ cg'.names = keep
           /\ RowsOf(cg') = {r \in RowsOf(cg) : {r[1], r[3]} \subseteq ToSet(keep)}
           /\ \A g \in CoreOf(cg') : InClass(g, HereditaryClass(cg.class))
           /\ registry' = registry
<1> DEFINE ids == [i \in DOMAIN keep |-> IdOf(cg.names, keep[i])]
           m == Len(cg.names)
           back(e) == <<cg.names[e[1] + 1], cg.snapshot[e[3]].glyph, cg.names[e[2] + 1]>>
           new(e) == <<keep[e[1] + 1], cg.snapshot[e[3]].glyph, keep[e[2] + 1]>>
<1>1. /\ registry \in Seq(Glyph) /\ cg \in Object /\ WellMade(cg, registry)
      /\ cg.names \in Seq(Name) /\ IsInjective(cg.names)
      /\ DOMAIN cg.edges \in SUBSET Edge /\ IsFiniteSet(DOMAIN cg.edges)
      /\ ValidEdges(m, cg.simple, cg.snapshot, cg.edges)
      /\ SeesRegistry(cg, registry)
  BY DEF OInv, WellMade, Object, ObjectOver, EdgeBags
<1>2. /\ ToSet(keep) \subseteq ToSet(cg.names) /\ KeepIsOk(ids, m)
      /\ cg' = [cg EXCEPT !.names = keep, !.edges = Induced(ids, cg.edges)]
      /\ registry' = registry
  BY DEF Subgraph
<1>3. keep \in Seq(Name) /\ m \in Nat /\ DOMAIN cg.names = 1 .. m
  <2>1. PICK k \in 0 .. Cardinality(Name) : keep \in [1 .. k -> Name]
    BY DEF KeepLists
  <2>2. k \in Nat
    BY <2>1
  <2> QED
    BY <1>1, <2>1, <2>2, LenProperties
<1>4. DOMAIN keep = 1 .. Len(keep) /\ Len(keep) \in Nat
  BY <1>3, LenProperties
<1>5. \A i \in DOMAIN keep : ids[i] \in Nat /\ ids[i] + 1 \in 1 .. m /\ cg.names[ids[i] + 1] = keep[i]
  <2> SUFFICES ASSUME NEW i \in DOMAIN keep
               PROVE  ids[i] \in Nat /\ ids[i] + 1 \in 1 .. m /\ cg.names[ids[i] + 1] = keep[i]
    OBVIOUS
  <2>1. keep[i] \in ToSet(cg.names)
    BY <1>2 DEF ToSet
  <2>2. /\ IdOf(cg.names, keep[i]) \in 0 .. (Len(cg.names) - 1)
        /\ cg.names[IdOf(cg.names, keep[i]) + 1] = keep[i]
    BY <1>1, <2>1, IdFacts
  <2> QED
    BY <1>3, <2>2
<1>6. ids \in Seq(Nat) /\ Len(ids) = Len(keep) /\ DOMAIN ids = DOMAIN keep
  <2>1. ids \in [1 .. Len(keep) -> Nat]
    BY <1>4, <1>5
  <2> HIDE DEF ids
  <2> QED
    BY <1>4, <2>1
<1>7. IsInjective(keep)
  <2> SUFFICES ASSUME NEW i \in DOMAIN keep, NEW j \in DOMAIN keep, keep[i] = keep[j] PROVE i = j
    BY DEF IsInjective
  <2>1. ids[i] = ids[j]
    OBVIOUS
  <2> QED
    BY <1>2, <1>6, <2>1 DEF KeepIsOk
<1> DEFINE induced == Induced(ids, cg.edges)
           D == DOMAIN induced
<1>8. /\ D \in SUBSET Edge
      /\ \A d \in D : /\ d[1] + 1 \in DOMAIN keep /\ d[2] + 1 \in DOMAIN keep
                      /\ Original(ids, d) \in DOMAIN cg.edges
                      /\ induced[d] = cg.edges[Original(ids, d)]
      /\ \A d, e \in D : Original(ids, d) = Original(ids, e) => d = e
  <2> HIDE DEF ids, m
  <2>1. m \in Nat /\ ids \in Seq(Nat) /\ KeepIsOk(ids, m) /\ DOMAIN cg.edges \in SUBSET Edge
    BY <1>1, <1>2, <1>3, <1>6
  <2>2. D \in SUBSET Edge
    BY <2>1, InducedFacts
  <2>3. ASSUME NEW d \in D
        PROVE  /\ d[1] + 1 \in DOMAIN ids /\ d[2] + 1 \in DOMAIN ids
               /\ Original(ids, d) \in DOMAIN cg.edges
               /\ induced[d] = cg.edges[Original(ids, d)]
    BY <2>1, InducedFacts
  <2>4. \A d, e \in D : Original(ids, d) = Original(ids, e) => d = e
    BY <2>1, InducedFacts
  <2> HIDE DEF induced, D
  <2> QED
    BY <1>6, <2>2, <2>3, <2>4
<1>9. ValidEdges(Len(keep), cg.simple, cg.snapshot, induced)
  <2> HIDE DEF ids, m
  <2> QED
    BY <1>1, <1>2, <1>3, <1>6, InducedIsValid
<1>10. induced \in [D -> Nat]
  <2>1. \A d \in D : induced[d] = 1
    BY <1>9 DEF ValidEdges
  <2>2. induced = [d \in D |-> induced[d]]
    BY DEF Induced
  <2> HIDE DEF induced
  <2> QED
    BY <2>1, <2>2
<1> HIDE DEF ids, induced
<1>11. IsFiniteSet(D)
  <2> DEFINE f == [d \in D |-> Original(ids, d)]
  <2>1. f \in [D -> DOMAIN cg.edges] /\ \A d, e \in D : f[d] = f[e] => d = e
    BY <1>8
  <2>2. f \in Injection(D, DOMAIN cg.edges)
    BY <2>1 DEF Injection, IsInjective
  <2> QED
    BY <1>1, <2>2, FS_Injection
<1>12. /\ cg' \in Object /\ cg'.names = keep /\ cg'.simple = cg.simple /\ cg'.class = cg.class
       /\ cg'.snapshot = cg.snapshot /\ cg'.edges = induced
  <2>1. induced \in EdgeBags
    BY <1>8, <1>10 DEF EdgeBags
  <2> QED
    BY <1>1, <1>2, <1>3, <2>1 DEF Object, ObjectOver, induced
<1>13. SeesRegistry(cg', registry)
  BY <1>1, <1>12 DEF SeesRegistry
<1>14. WellMade(cg', registry)
  BY <1>7, <1>9, <1>11, <1>12, <1>13 DEF WellMade
<1>15. \A g \in CoreOf(cg') : InClass(g, HereditaryClass(cg.class))
  <2> DEFINE g == Compile(m, cg.simple, cg.snapshot, cg.edges)
  <2>1. CoreOf(cg) = {g}
    BY <1>1 DEF CoreOf, CheckedCore
  <2> DEFINE h == Compile(Len(ids), cg.simple, cg.snapshot, induced)
  <2>2. CoreOf(cg') = {h}
    BY <1>6, <1>9, <1>12 DEF CoreOf, CheckedCore
  <2>3. InClass(g, HereditaryClass(cg.class)) /\ cg.class \in GraphClass
    BY <1>1, <2>1 DEF OInv, ObjectsAreInTheirClass, Object, ObjectOver
  <2>4. g.n = m /\ EdgeSet(g) = DOMAIN cg.edges
    BY DEF Compile, EdgeSet
  <2> DEFINE cut == InducedCore(ids, g)
  <2>5. h.n = cut.n /\ h.registry = cut.registry /\ h.links = cut.links
    BY DEF InducedCore, Reordered, Compile, induced
  <2> HIDE DEF g, m, h
  <2>6. InClass(cut, HereditaryClass(cg.class))
    BY <1>1, <1>2, <1>3, <1>6, <2>3, <2>4, ClassIsHereditary
  <2> HIDE DEF cut
  <2>7. InClass(h, HereditaryClass(cg.class))
    BY <2>5, <2>6, SameButForRows
  <2> QED
    BY <2>2, <2>7
<1>16. RowsOf(cg) = {back(e) : e \in DOMAIN cg.edges} /\ RowsOf(cg') = {new(d) : d \in D}
  BY <1>12 DEF RowsOf
<1>17. ASSUME NEW d \in D
       PROVE  /\ new(d) = back(Original(ids, d))
              /\ new(d)[1] \in ToSet(keep) /\ new(d)[3] \in ToSet(keep)
  <2>1. d[1] + 1 \in DOMAIN keep /\ d[2] + 1 \in DOMAIN keep
    BY <1>8
  <2>2. /\ cg.names[ids[d[1] + 1] + 1] = keep[d[1] + 1]
        /\ cg.names[ids[d[2] + 1] + 1] = keep[d[2] + 1]
    BY <1>5, <2>1
  <2> QED
    BY <2>1, <2>2 DEF Original, ToSet
<1>18. ASSUME NEW e \in DOMAIN cg.edges,
              back(e)[1] \in ToSet(keep), back(e)[3] \in ToSet(keep)
       PROVE  \E d \in D : new(d) = back(e)
  <2>1. /\ e = <<e[1], e[2], e[3]>> /\ e[1] \in Nat /\ e[2] \in Nat
        /\ e[1] + 1 \in 1 .. m /\ e[2] + 1 \in 1 .. m
    <3>1. e \in Edge /\ e = <<e[1], e[2], e[3]>> /\ e[1] + 1 \in 1 .. m /\ e[2] + 1 \in 1 .. m
      BY <1>1, EdgesTyped
    <3> QED
      BY <3>1 DEF Edge
  <2>2. PICK i \in DOMAIN keep : keep[i] = cg.names[e[1] + 1]
    BY <1>18 DEF ToSet
  <2>3. PICK j \in DOMAIN keep : keep[j] = cg.names[e[2] + 1]
    BY <1>18 DEF ToSet
  <2>4. ids[i] + 1 = e[1] + 1 /\ ids[j] + 1 = e[2] + 1
    <3>1. \A k, l \in 1 .. m : cg.names[k] = cg.names[l] => k = l
      BY <1>1, <1>3 DEF IsInjective
    <3>2. /\ ids[i] + 1 \in 1 .. m /\ cg.names[ids[i] + 1] = cg.names[e[1] + 1]
          /\ ids[j] + 1 \in 1 .. m /\ cg.names[ids[j] + 1] = cg.names[e[2] + 1]
      BY <1>5, <2>2, <2>3
    <3> HIDE DEF m
    <3> QED
      BY <2>1, <3>1, <3>2
  <2>5. ids[i] = e[1] /\ ids[j] = e[2]
    <3>1. ids[i] \in Nat /\ ids[j] \in Nat
      BY <1>5
    <3> QED
      BY <2>1, <2>4, <3>1
  <2> DEFINE d == <<i - 1, j - 1, e[3]>>
  <2>6. /\ i - 1 \in Kept(ids) /\ j - 1 \in Kept(ids)
        /\ (i - 1) + 1 = i /\ (j - 1) + 1 = j
    BY <1>4, <1>6 DEF Kept
  <2>7. Original(ids, d) = e
    BY <2>1, <2>5, <2>6 DEF Original
  <2>8. d \in Kept(ids) \X Kept(ids) \X {x[3] : x \in DOMAIN cg.edges}
    BY <2>6
  <2>9. d \in D
    <3> HIDE DEF d
    <3> QED
      BY <2>7, <2>8 DEF induced, Induced
  <2> HIDE DEF d, back, new, D
  <2> QED
    BY <1>17, <2>7, <2>9
<1>19. \A e : back(e)[1] = cg.names[e[1] + 1] /\ back(e)[3] = cg.names[e[2] + 1]
  OBVIOUS
<1> HIDE DEF back, new
<1>20. RowsOf(cg') = {r \in RowsOf(cg) : {r[1], r[3]} \subseteq ToSet(keep)}
  <2>1. ASSUME NEW r \in RowsOf(cg')
        PROVE  r \in RowsOf(cg) /\ {r[1], r[3]} \subseteq ToSet(keep)
    <3>1. PICK d \in D : r = new(d)
      BY <1>16
    <3> QED
      BY <1>8, <1>16, <1>17, <3>1
  <2>2. ASSUME NEW r \in RowsOf(cg), {r[1], r[3]} \subseteq ToSet(keep)
        PROVE  r \in RowsOf(cg')
    <3>1. PICK e \in DOMAIN cg.edges : r = back(e)
      BY <1>16
    <3> QED
      BY <1>16, <1>18, <2>2, <3>1
  <2> QED
    BY <2>1, <2>2
<1> QED
  BY <1>2, <1>12, <1>14, <1>15, <1>20
--------------------------------------------------------------------------------
(* The invariant *)

LEMMA ClassImpliesItsHereditaryPart ==
    ASSUME NEW g, NEW class \in GraphClass, InClass(g, class)
    PROVE  InClass(g, HereditaryClass(class))
<1>1. CASE class \in {"MPDAG", "CPDAG"}
  BY <1>1 DEF HereditaryClass, InClass, IsMpdag, IsCpdag
<1>2. CASE class \notin {"MPDAG", "CPDAG"}
  BY <1>2 DEF HereditaryClass
<1> QED
  BY <1>1, <1>2

LEMMA InitHolds == Init => OInv
<1> SUFFICES ASSUME Init PROVE OInv
  OBVIOUS
<1>1. registry \in Seq(Glyph) /\ IsInjective(registry) /\ registry = BuiltinGlyphs
  BY ObjectsAssumption DEF Init
<1>2. /\ cg.names = <<>> /\ cg.simple = TRUE /\ cg.class = "UNKNOWN"
      /\ cg.snapshot = SnapshotOf(registry) /\ cg.edges = NoEdges
  BY <1>1 DEF Init, EmptyObject
<1>3. SeesRegistry(cg, registry)
  <2>1. Len(registry) \in 0 .. Len(registry)
    BY <1>1, LenProperties
  <2> QED
    BY <1>2, <2>1 DEF SeesRegistry, SnapshotOf
<1>4. cg.snapshot \in Snapshots
  BY <1>1, <1>3, SnapshotFacts
<1>5. DOMAIN NoEdges = {} /\ NoEdges \in EdgeBags
  <2>1. NoEdges \in [{} -> Nat] /\ {} \in SUBSET Edge
    BY DEF NoEdges
  <2> QED
    BY <2>1 DEF EdgeBags
<1>6. cg \in Object
  BY <1>2, <1>4, <1>5 DEF Init, EmptyObject, Object, ObjectOver, GraphClass
<1>7. WellMade(cg, registry)
  BY <1>2, <1>3, <1>5, <1>6, FS_EmptySet DEF WellMade, ValidEdges, IsInjective
<1>8. ObjectsAreInTheirClass
  <2>1. \A g \in CoreOf(cg) : EdgeSet(g) = {}
    BY <1>2, <1>5 DEF CoreOf, CheckedCore, Compile, EdgeSet
  <2> QED
    BY <1>2, <2>1, EmptyInClass DEF ObjectsAreInTheirClass, SimpleFitsClass
<1> QED
  BY <1>1, <1>7, <1>8 DEF OInv

LEMMA RebuiltHolds ==
    ASSUME OInv, NEW names, NEW rows, Rebuilt(cg', names, rows), registry' = registry
    PROVE  OInv'
<1>1. /\ WellMade(cg', registry') /\ cg'.class \in GraphClass
      /\ cg'.class # "AUTO" /\ SimpleFitsClass(cg')
      /\ \A g \in CoreOf(cg') : InClass(g, cg'.class)
  BY DEF Rebuilt, WellMade, Object, ObjectOver
<1>2. ObjectsAreInTheirClass'
  BY <1>1, ClassImpliesItsHereditaryPart DEF ObjectsAreInTheirClass
<1> QED
  BY <1>1, <1>2 DEF OInv

LEMMA SubgraphHolds == ASSUME OInv, NEW keep \in KeepLists, Subgraph(keep) PROVE OInv'
<1>1. /\ WellMade(cg', registry) /\ cg'.class = cg.class /\ cg'.simple = cg.simple
      /\ \A g \in CoreOf(cg') : InClass(g, HereditaryClass(cg.class))
      /\ registry' = registry
  BY SubgraphFacts
<1>2. did'[1] = "subgraph"
  BY DEF Subgraph
<1>3. ObjectsAreInTheirClass'
  BY <1>1, <1>2 DEF OInv, ObjectsAreInTheirClass, SimpleFitsClass
<1> QED
  BY <1>1, <1>3 DEF OInv

LEMMA RegisterHolds == ASSUME OInv, NEW g \in UserGlyphs, RegisterEdge(g) PROVE OInv'
<1>1. /\ registry \in Seq(Glyph) /\ IsInjective(registry) /\ g \in Glyph /\ g \notin ToSet(registry)
      /\ registry' = Append(registry, g) /\ cg' = cg /\ did' = did
  BY ObjectsAssumption DEF OInv, RegisterEdge
<1>2. registry' \in Seq(Glyph) /\ IsInjective(registry')
  BY <1>1, AppendFacts
<1>3. SeesRegistry(cg, registry')
  <2>1. PICK k \in 0 .. Len(registry) :
            cg.snapshot = [c \in 0 .. (k - 1) |-> SpecOfGlyph[registry[c + 1]]]
    BY DEF OInv, WellMade, SeesRegistry
  <2>2. Len(registry) \in Nat /\ Len(registry') = Len(registry) + 1
    BY <1>1, LenProperties, AppendProperties
  <2>3. \A c \in 0 .. (k - 1) : registry'[c + 1] = registry[c + 1]
    <3> SUFFICES ASSUME NEW c \in 0 .. (k - 1) PROVE registry'[c + 1] = registry[c + 1]
      OBVIOUS
    <3>1. c + 1 \in 1 .. Len(registry)
      BY <2>2
    <3> QED
      BY <1>1, <3>1, AppendProperties
  <2>4. k \in 0 .. Len(registry')
    BY <2>2
  <2>5. cg.snapshot = [c \in 0 .. (k - 1) |-> SpecOfGlyph[registry'[c + 1]]]
    BY <2>1, <2>3
  <2> QED
    BY <2>4, <2>5 DEF SeesRegistry
<1>4. WellMade(cg', registry') /\ ObjectsAreInTheirClass'
  BY <1>1, <1>3 DEF OInv, WellMade, ObjectsAreInTheirClass
<1> QED
  BY <1>2, <1>4 DEF OInv

LEMMA VerbHolds == ASSUME OInv, Verb PROVE OInv'
<1>1. ASSUME NEW s \in Simples, NEW c \in Classes, NEW d \in Declared, NEW t \in Tables,
             Construct(s, c, d, t)
      PROVE  OInv'
  BY <1>1, ConstructFacts, RebuiltHolds
<1>2. ASSUME NEW x \in Name, AddNode(x) PROVE OInv'
  BY <1>2, AddNodeFacts, RebuiltHolds DEF AddNode
<1>3. ASSUME NEW x \in Name, RemoveNode(x) PROVE OInv'
  BY <1>3, RemoveNodeFacts, RebuiltHolds
<1>4. ASSUME NEW row \in Row, AddEdge(row) PROVE OInv'
  BY <1>4, AddEdgeFacts, RebuiltHolds DEF AddEdge
<1>5. ASSUME NEW row \in Row, RemoveEdge(row) PROVE OInv'
  <2>1. RowsOf(cg) \ {row} \in SUBSET RowsOf(cg) /\ Sync(cg.names, RowsOf(cg) \ {row})
    BY <1>5 DEF RemoveEdge
  <2> QED
    BY <2>1, RemoveRowsFacts, RebuiltHolds
<1>6. ASSUME NEW row \in Row, SetEdge(row) PROVE OInv'
  BY <1>6, SetEdgeFacts, RebuiltHolds
<1>7. ASSUME NEW x \in Name, NEW y \in Name, RemoveBetween(x, y) PROVE OInv'
  <2> DEFINE rows == {r \in RowsOf(cg) : {r[1], r[3]} # {x, y}}
  <2>1. rows \in SUBSET RowsOf(cg) /\ Sync(cg.names, rows)
    BY <1>7 DEF RemoveBetween
  <2> HIDE DEF rows
  <2> QED
    BY <2>1, RemoveRowsFacts, RebuiltHolds
<1>8. ASSUME NEW keep \in KeepLists, Subgraph(keep) PROVE OInv'
  BY <1>8, SubgraphHolds
<1> QED
  BY <1>1, <1>2, <1>3, <1>4, <1>5, <1>6, <1>7, <1>8 DEF Verb

LEMMA StepHolds == OInv /\ [Next]_vars => OInv'
<1> SUFFICES ASSUME OInv, [Next]_vars PROVE OInv'
  OBVIOUS
<1>1. CASE Call
  BY <1>1, VerbHolds DEF Call
<1>2. CASE Grow
  BY <1>2, RegisterHolds DEF Grow
<1>3. CASE Settle
  <2>1. registry' = registry /\ cg' = cg /\ did'[1] = "none"
    BY <1>3 DEF Settle, Idle
  <2> QED
    BY <2>1 DEF OInv, WellMade, SeesRegistry, ObjectsAreInTheirClass
<1>4. CASE UNCHANGED vars
  BY <1>4 DEF vars, OInv, WellMade, SeesRegistry, ObjectsAreInTheirClass
<1> QED
  BY <1>1, <1>2, <1>3, <1>4 DEF Next

(* Whatever verbs are called and whatever is registered between them, the  *)
(* object at hand is well made and in its class.                           *)
THEOREM ObjectsInvariant == Spec => []OInv
  BY InitHolds, StepHolds, PTL DEF Spec

(* Names are distinct and the edges pass every check of the builder.       *)
THEOREM EveryObjectCompiles == Spec => []ObjectsCompile
<1>1. OInv => ObjectsCompile
  <2> SUFFICES ASSUME OInv PROVE ObjectsCompile
    OBVIOUS
  <2> QED
    BY DEF OInv, WellMade, ObjectsCompile, IsInjective
<1> QED
  BY <1>1, ObjectsInvariant, PTL

(* An object is in the class it carries, and a subgraph in as much of it   *)
(* as every induced subgraph keeps.                                        *)
THEOREM EveryObjectIsInItsClass == Spec => []ObjectsAreInTheirClass
<1>1. OInv => ObjectsAreInTheirClass
  BY DEF OInv
<1> QED
  BY <1>1, ObjectsInvariant, PTL
--------------------------------------------------------------------------------
(* What the verbs do to the rows *)

(* An object returned by the verb is read at its rows. *)
LEMMA VerbKeepsRows == ASSUME OInv, Verb PROVE OnlyTheNamedRowsChange
<1>1. ASSUME NEW s \in Simples, NEW c \in Classes, NEW d \in Declared, NEW t \in Tables,
             Construct(s, c, d, t)
      PROVE  OnlyTheNamedRowsChange
  BY <1>1 DEF Construct, OnlyTheNamedRowsChange
<1>2. ASSUME NEW x \in Name, AddNode(x) PROVE OnlyTheNamedRowsChange
  <2>1. RowsOf(cg') = RowsOf(cg)
    BY <1>2, AddNodeFacts DEF AddNode, Rebuilt
  <2> QED
    BY <1>2, <2>1 DEF AddNode, OnlyTheNamedRowsChange
<1>3. ASSUME NEW x \in Name, RemoveNode(x) PROVE OnlyTheNamedRowsChange
  <2>1. RowsOf(cg') = {r \in RowsOf(cg) : x \notin {r[1], r[3]}}
    BY <1>3, RemoveNodeFacts DEF Rebuilt
  <2>2. did' = <<"remove_node", x>>
    BY <1>3 DEF RemoveNode
  <2> QED
    BY <2>1, <2>2 DEF OnlyTheNamedRowsChange
<1>4. ASSUME NEW row \in Row, AddEdge(row) PROVE OnlyTheNamedRowsChange
  <2>1. RowsOf(cg') = RowsOf(cg) \cup {row}
    BY <1>4, AddEdgeFacts DEF AddEdge, Rebuilt
  <2>2. did' = <<"add_edge", row>>
    BY <1>4 DEF AddEdge
  <2> QED
    BY <2>1, <2>2 DEF OnlyTheNamedRowsChange
<1>5. ASSUME NEW row \in Row, RemoveEdge(row) PROVE OnlyTheNamedRowsChange
  <2>1. RowsOf(cg) \ {row} \in SUBSET RowsOf(cg) /\ Sync(cg.names, RowsOf(cg) \ {row})
    BY <1>5 DEF RemoveEdge
  <2>2. RowsOf(cg') = RowsOf(cg) \ {row}
    BY <2>1, RemoveRowsFacts DEF Rebuilt
  <2>3. did' = <<"remove_edge", row>>
    BY <1>5 DEF RemoveEdge
  <2> QED
    BY <2>2, <2>3 DEF OnlyTheNamedRowsChange
<1>6. ASSUME NEW row \in Row, SetEdge(row) PROVE OnlyTheNamedRowsChange
  <2>1. did'[1] = "set_edge"
    BY <1>6 DEF SetEdge
  <2> QED
    BY <2>1 DEF OnlyTheNamedRowsChange
<1>7. ASSUME NEW x \in Name, NEW y \in Name, RemoveBetween(x, y) PROVE OnlyTheNamedRowsChange
  <2> DEFINE rows == {r \in RowsOf(cg) : {r[1], r[3]} # {x, y}}
  <2>1. rows \in SUBSET RowsOf(cg) /\ Sync(cg.names, rows) /\ did' = <<"remove_between", {x, y}>>
    BY <1>7 DEF RemoveBetween
  <2>2. RowsOf(cg') = rows
    <3> HIDE DEF rows
    <3> QED
      BY <2>1, RemoveRowsFacts DEF Rebuilt
  <2> QED
    BY <2>1, <2>2 DEF OnlyTheNamedRowsChange
<1>8. ASSUME NEW keep \in KeepLists, Subgraph(keep) PROVE OnlyTheNamedRowsChange
  <2>1. RowsOf(cg') = {r \in RowsOf(cg) : {r[1], r[3]} \subseteq ToSet(keep)}
    BY <1>8, SubgraphFacts
  <2>2. did' = <<"subgraph", ToSet(keep)>>
    BY <1>8 DEF Subgraph
  <2> QED
    BY <2>1, <2>2 DEF OnlyTheNamedRowsChange
<1> QED
  BY <1>1, <1>2, <1>3, <1>4, <1>5, <1>6, <1>7, <1>8 DEF Verb

(* Rows a verb did not name stay, whichever codes they went through and     *)
(* whatever was registered since the object took its snapshot.              *)
THEOREM OtherRowsAreKept == Spec => VerbsKeepTheOtherRows
<1>1. OInv /\ [Next]_vars => [OnlyTheNamedRowsChange]_vars
  <2> SUFFICES ASSUME OInv, Next PROVE OnlyTheNamedRowsChange
    OBVIOUS
  <2>1. CASE Call
    BY <2>1, VerbKeepsRows DEF Call
  <2>2. CASE Settle
    BY <2>2 DEF Settle, OnlyTheNamedRowsChange
  <2>3. CASE Grow
    <3>1. did = Idle => did'[1] = "none"
      BY <2>3 DEF Grow, RegisterEdge, Idle
    <3> QED
      BY <3>1 DEF OnlyTheNamedRowsChange
  <2> QED
    BY <2>1, <2>2, <2>3 DEF Next
<1> QED
  BY <1>1, ObjectsInvariant, PTL DEF Spec, VerbsKeepTheOtherRows

(* The rows before and after set_edges(), edge by edge of the old buffer.  *)
LEMMA SetEdgeReplaces == ASSUME OInv, NEW row \in Row, SetEdge(row) PROVE ThePairIsReplaced(row)
<1> DEFINE names == Unique(cg.names \o EndsOf(<<row>>))
           f == Coded(names, Codes, row)
           displaced(d) == IF cg.simple THEN SamePair(d, f) ELSE d[1] = f[1] /\ d[2] = f[2]
           kept == {d \in DOMAIN cg.edges : ~ displaced(d)}
           back(e) == <<cg.names[e[1] + 1], cg.snapshot[e[3]].glyph, cg.names[e[2] + 1]>>
           ends == {row[1], row[3]}
<1>1. RowsOf(cg') = {back(e) : e \in kept} \cup {row}
  <2> DEFINE c == [cg EXCEPT !.edges = [e \in kept |-> 1]]
  <2>1. RowsOf(cg') = RowsOf(c) \cup {row}
    BY SetEdgeFacts DEF Rebuilt
  <2>2. c.names = cg.names /\ c.snapshot = cg.snapshot /\ DOMAIN c.edges = kept
    BY DEF OInv, WellMade, Object, ObjectOver
  <2> HIDE DEF c, kept
  <2> QED
    BY <2>1, <2>2 DEF RowsOf
<1>2. RowsOf(cg) = {back(e) : e \in DOMAIN cg.edges}
  BY DEF RowsOf
<1>3. /\ names \in Seq(Name) /\ IsInjective(names) /\ DOMAIN names = 1 .. Len(names)
      /\ row[1] \in ToSet(names) /\ row[3] \in ToSet(names)
      /\ Len(names) \in Nat /\ Len(cg.names) \in Nat /\ Len(cg.names) <= Len(names)
      /\ \A k \in 1 .. Len(cg.names) : names[k] = cg.names[k]
  <2>1. cg.names \in Seq(Name)
    BY RowsOfObject
  <2> HIDE DEF names
  <2>2. /\ names \in Seq(Name) /\ IsInjective(names)
        /\ row[1] \in ToSet(names) /\ row[3] \in ToSet(names)
        /\ Len(cg.names) <= Len(names)
        /\ \A k \in 1 .. Len(cg.names) : names[k] = cg.names[k]
    BY NamesWithRow DEF names
  <2> QED
    BY <2>1, <2>2, LenProperties
<1> HIDE DEF names
<1>4. /\ f[1] \in 0 .. (Len(names) - 1) /\ names[f[1] + 1] = row[1]
      /\ f[2] \in 0 .. (Len(names) - 1) /\ names[f[2] + 1] = row[3]
  BY <1>3, IdFacts DEF Coded
<1> HIDE DEF f
<1>5. \A k, l \in 0 .. (Len(names) - 1) : names[k + 1] = names[l + 1] => k = l
  <2> SUFFICES ASSUME NEW k \in 0 .. (Len(names) - 1), NEW l \in 0 .. (Len(names) - 1),
                      names[k + 1] = names[l + 1]
               PROVE  k = l
    OBVIOUS
  <2>1. k + 1 \in DOMAIN names /\ l + 1 \in DOMAIN names
    BY <1>3
  <2>2. k + 1 = l + 1
    BY <1>3, <2>1 DEF IsInjective
  <2> QED
    BY <2>2
(* An old edge and the new one share a node exactly if their rows do. *)
<1>6. ASSUME NEW e \in DOMAIN cg.edges
      PROVE  /\ e[1] = f[1] <=> back(e)[1] = row[1]
             /\ e[1] = f[2] <=> back(e)[1] = row[3]
             /\ e[2] = f[1] <=> back(e)[3] = row[1]
             /\ e[2] = f[2] <=> back(e)[3] = row[3]
  <2>1. e \in Edge /\ e[1] + 1 \in 1 .. Len(cg.names) /\ e[2] + 1 \in 1 .. Len(cg.names)
    BY EdgesTyped DEF OInv
  <2>2. e[1] \in 0 .. (Len(names) - 1) /\ e[2] \in 0 .. (Len(names) - 1)
    <3>1. e[1] \in Nat /\ e[2] \in Nat
      BY <2>1 DEF Edge
    <3> QED
      BY <1>3, <2>1, <3>1
  <2>3. back(e)[1] = names[e[1] + 1] /\ back(e)[3] = names[e[2] + 1]
    BY <1>3, <2>1
  <2> HIDE DEF back
  <2> QED
    BY <1>4, <1>5, <2>2, <2>3
<1>7. ASSUME NEW e \in DOMAIN cg.edges
      PROVE  displaced(e) <=> IF cg.simple THEN {back(e)[1], back(e)[3]} = ends
                              ELSE back(e)[1] = row[1] /\ back(e)[3] = row[3]
  <2> HIDE DEF back
  <2>1. SamePair(e, f) <=> {back(e)[1], back(e)[3]} = ends
    BY <1>6 DEF SamePair
  <2>2. e[1] = f[1] /\ e[2] = f[2] <=> back(e)[1] = row[1] /\ back(e)[3] = row[3]
    BY <1>6
  <2> QED
    BY <2>1, <2>2
<1> HIDE DEF back, displaced
<1> DEFINE onPair(rows) == {r \in rows : {r[1], r[3]} = ends}
<1>8. RowsOf(cg') \ onPair(RowsOf(cg')) = RowsOf(cg) \ onPair(RowsOf(cg))
  <2>1. ASSUME NEW r \in RowsOf(cg), {r[1], r[3]} # ends PROVE r \in RowsOf(cg')
    <3>1. PICK e \in DOMAIN cg.edges : r = back(e)
      BY <1>2
    <3>2. ~ displaced(e)
      BY <1>7, <2>1, <3>1
    <3> QED
      BY <1>1, <3>1, <3>2
  <2>2. ASSUME NEW r \in RowsOf(cg'), {r[1], r[3]} # ends PROVE r \in RowsOf(cg)
    BY <1>1, <1>2, <2>2
  <2> QED
    BY <2>1, <2>2
<1>9. ASSUME cg.simple PROVE onPair(RowsOf(cg')) = {row}
  <2>1. ASSUME NEW e \in kept PROVE {back(e)[1], back(e)[3]} # ends
    BY <1>7, <1>9
  <2> QED
    BY <1>1, <2>1
<1>10. ASSUME ~ cg.simple, NEW r \in RowsOf(cg), row[1] # row[3], r[1] = row[3], r[3] = row[1]
       PROVE  r \in RowsOf(cg')
  <2>1. PICK e \in DOMAIN cg.edges : r = back(e)
    BY <1>2
  <2>2. ~ displaced(e)
    BY <1>7, <1>10, <2>1
  <2> QED
    BY <1>1, <2>1, <2>2
<1> QED
  BY <1>1, <1>8, <1>9, <1>10 DEF ThePairIsReplaced

(* set_edges() leaves the named edge on the named pair, and touches no     *)
(* row of another pair, although old and new rows got their codes from     *)
(* different moments of the registry.                                      *)
THEOREM ThePairIsSet == Spec => SettingReplacesThePair
<1>1. OInv /\ [Next]_vars => [did = Idle /\ did'[1] = "set_edge" => ThePairIsReplaced(did'[2])]_vars
  <2> SUFFICES ASSUME OInv, Next, did = Idle, did'[1] = "set_edge"
               PROVE  ThePairIsReplaced(did'[2])
    OBVIOUS
  <2>1. Verb
    BY DEF Next, Call, Settle, Grow, RegisterEdge, Idle
  <2>2. PICK row \in Row : SetEdge(row)
    <3>1. \A s, c, d, t : ~ Construct(s, c, d, t)
      BY DEF Construct
    <3>2. \A x : ~ AddNode(x) /\ ~ RemoveNode(x)
      BY DEF AddNode, RemoveNode
    <3>3. \A row : ~ AddEdge(row) /\ ~ RemoveEdge(row)
      BY DEF AddEdge, RemoveEdge
    <3>4. \A x, y : ~ RemoveBetween(x, y)
      BY DEF RemoveBetween
    <3>5. \A keep : ~ Subgraph(keep)
      BY DEF Subgraph
    <3> QED
      BY <2>1, <3>1, <3>2, <3>3, <3>4, <3>5, Zenon DEF Verb
  <2>3. did'[2] = row
    BY <2>2 DEF SetEdge
  <2> QED
    BY <2>2, <2>3, SetEdgeReplaces
<1> QED
  BY <1>1, ObjectsInvariant, PTL DEF Spec, SettingReplacesThePair
================================================================================
