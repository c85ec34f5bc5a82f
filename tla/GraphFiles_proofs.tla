---------------------------- MODULE GraphFiles_proofs ----------------------------
(***************************************************************************)
(* The registry, for every limit on the number of types and every choice   *)
(* of types that are registered: codes and glyphs are inverse to each      *)
(* other, a snapshot stays a prefix of the table until a reset, and the     *)
(* operators of the DSL are the glyphs of the table.                        *)
(*                                                                         *)
(* Building, writing and reading graphs drives the registry only as        *)
(* EdgeRegistry.tla allows, whatever the graphs and the documents are, so  *)
(* what is proved of it holds here.  What is written is read back, and so  *)
(* is what another program wrote: the reader of GraphML is followed event  *)
(* by event (Leads), item by item, over lists of any length, and an        *)
(* invariant of objects and documents (FInv) says what lies in a file.     *)
(***************************************************************************)
EXTENDS GraphFiles, SharedFacts_proofs

(* The registry.  An edge is registered into the table that                *)
(* caugi_registry() hands out, so the three are stated for that table, and *)
(* RInv adds that without a registry there is no table.                    *)

(* codes is the inverse of specs. *)
Agree(codes, specs) ==
    /\ DOMAIN codes = Glyphs(specs)
    /\ \A i \in DOMAIN specs : codes[specs[i].glyph] = i - 1

(* The types a table can hold. *)
Registrable == UserSpecs \cup {Builtins[i] : i \in 1 .. 6}

RInv ==
    /\ code_to_spec \in Seq(Registrable)
    /\ Len(code_to_spec) <= MaxTypes
    /\ snapshot \in Seq(Registrable)
    /\ Agree(glyph_to_code, code_to_spec)
    /\ Agree(GlyphToCode, CodeToSpec)
    /\ edge_ops = Glyphs(CodeToSpec)
    /\ current => exists
    /\ SnapshotCodesStillHold

--------------------------------------------------------------------------------
(* The tables *)

LEMMA BuiltinsFacts ==
    /\ Builtins \in Seq(Registrable)
    /\ Len(Builtins) = 6
    /\ DOMAIN Builtins = 1 .. 6
    /\ \A i, j \in 1 .. 6 : Builtins[i].glyph = Builtins[j].glyph => i = j
<1>1. Len(Builtins) = 6 /\ DOMAIN Builtins = 1 .. 6
  BY DEF Builtins
<1>5. Builtins \in Seq(Registrable)
  BY <1>1 DEF Builtins, Registrable
<1>2. /\ Builtins[1].glyph = "-->" /\ Builtins[2].glyph = "---" /\ Builtins[3].glyph = "<->"
      /\ Builtins[4].glyph = "o-o" /\ Builtins[5].glyph = "--o" /\ Builtins[6].glyph = "o->"
  BY DEF Builtins, DirectedSpec, UndirectedSpec, BidirectedSpec, PartialSpec,
         PartiallyUndirectedSpec, PartiallyDirectedSpec
<1>3. \A i \in 1 .. 6 : i = 1 \/ i = 2 \/ i = 3 \/ i = 4 \/ i = 5 \/ i = 6
  OBVIOUS
<1>4. \A i, j \in 1 .. 6 : Builtins[i].glyph = Builtins[j].glyph => i = j
  BY <1>2, <1>3
<1> QED
  BY <1>1, <1>4, <1>5

(* A table built from specs with distinct glyphs is their inverse. *)
LEMMA CodeTableAgrees ==
    ASSUME NEW specs \in Seq(Registrable),
           \A i, j \in DOMAIN specs : specs[i].glyph = specs[j].glyph => i = j
    PROVE  Agree(CodeTable(specs), specs)
<1>1. ASSUME NEW i \in DOMAIN specs
      PROVE  CodeTable(specs)[specs[i].glyph] = i - 1
  <2>1. specs[i].glyph \in Glyphs(specs)
    BY DEF Glyphs
  <2>2. (CHOOSE j \in DOMAIN specs : specs[j].glyph = specs[i].glyph) = i
    OBVIOUS
  <2> QED
    BY <2>1, <2>2 DEF CodeTable
<1> QED
  BY <1>1 DEF Agree, CodeTable

LEMMA EmptyAgrees == Agree(CodeTable(<<>>), <<>>)
<1>1. <<>> \in Seq(Registrable) /\ DOMAIN (<<>>) = {}
  OBVIOUS
<1> QED
  BY <1>1, CodeTableAgrees

LEMMA BuiltinsAgree == Agree(CodeTable(Builtins), Builtins)
BY BuiltinsFacts, CodeTableAgrees

(* Registering a new glyph keeps a table and its inverse in step. *)
LEMMA AppendAgrees ==
    ASSUME NEW specs \in Seq(Registrable), NEW codes, Agree(codes, specs),
           NEW spec \in Registrable, spec.glyph \notin DOMAIN codes
    PROVE  Agree(Extended(codes, spec.glyph, Len(specs)), Append(specs, spec))
<1> DEFINE longer == Append(specs, spec)
           more == Extended(codes, spec.glyph, Len(specs))
<1>1. /\ DOMAIN longer = 1 .. (Len(specs) + 1)
      /\ DOMAIN specs = 1 .. Len(specs)
      /\ \A i \in DOMAIN specs : longer[i] = specs[i]
      /\ longer[Len(specs) + 1] = spec
  OBVIOUS
<1>2. Len(specs) \in Nat
  OBVIOUS
<1>3. Glyphs(longer) = Glyphs(specs) \cup {spec.glyph}
  <2>1. \A i \in DOMAIN longer : i \in DOMAIN specs \/ i = Len(specs) + 1
    BY <1>1, <1>2
  <2>2. DOMAIN specs \subseteq DOMAIN longer /\ Len(specs) + 1 \in DOMAIN longer
    BY <1>1, <1>2
  <2> QED
    BY <1>1, <2>1, <2>2 DEF Glyphs
<1>4. DOMAIN more = DOMAIN codes \cup {spec.glyph}
  BY DEF Extended
<1>5. more[spec.glyph] = Len(specs)
  BY <1>4 DEF Extended
<1>6. \A g \in DOMAIN codes : more[g] = codes[g]
  BY <1>4 DEF Extended
<1>7. ASSUME NEW i \in DOMAIN longer
      PROVE  more[longer[i].glyph] = i - 1
  <2>1. CASE i \in DOMAIN specs
    <3>1. specs[i].glyph \in DOMAIN codes /\ codes[specs[i].glyph] = i - 1
      BY <2>1 DEF Agree, Glyphs
    <3> QED
      BY <3>1, <2>1, <1>1, <1>6
  <2>2. CASE i = Len(specs) + 1
    BY <2>2, <1>1, <1>2, <1>5
  <2> QED
    BY <2>1, <2>2, <1>1, <1>2
<1> QED
  BY <1>3, <1>4, <1>7 DEF Agree

(* What caugi_registry() hands out has the type of a table. *)
LEMMA HandedOutIsTyped ==
    ASSUME RegistryAssumption, RInv
    PROVE  /\ CodeToSpec \in Seq(Registrable)
           /\ Len(CodeToSpec) \in 0 .. MaxTypes
<1>1. CASE exists
  <2>1. CodeToSpec = code_to_spec
    BY <1>1 DEF CodeToSpec
  <2>2. code_to_spec \in Seq(Registrable) /\ Len(code_to_spec) <= MaxTypes
    BY DEF RInv
  <2> QED
    BY <2>1, <2>2 DEF RegistryAssumption
<1>2. CASE ~ exists
  <2>1. CodeToSpec = Builtins
    BY <1>2 DEF CodeToSpec
  <2>2. MaxTypes \in Nat /\ Len(Builtins) <= MaxTypes
    BY DEF RegistryAssumption
  <2>3. Len(Builtins) \in 0 .. MaxTypes
    BY <2>2, BuiltinsFacts
  <2> QED
    BY <2>1, <2>3, BuiltinsFacts
<1> QED
  BY <1>1, <1>2

--------------------------------------------------------------------------------
(* The inductive invariant *)

LEMMA RegistryInit ==
    ASSUME RegistryAssumption, Init
    PROVE  RInv
<1> USE DEF Init
<1>1. /\ code_to_spec \in Seq(Registrable)
      /\ Len(code_to_spec) <= MaxTypes
      /\ snapshot \in Seq(Registrable)
  BY DEF RegistryAssumption
<1>2. Agree(glyph_to_code, code_to_spec)
  BY EmptyAgrees
<1>3. Agree(GlyphToCode, CodeToSpec) /\ edge_ops = Glyphs(CodeToSpec)
  BY BuiltinsAgree DEF GlyphToCode, CodeToSpec, DefaultOps
<1> QED
  BY <1>1, <1>2, <1>3 DEF RInv, SnapshotCodesStillHold

(* A prefix of a sequence is a prefix of what extends it. *)
LEMMA PrefixOfLonger ==
    ASSUME NEW s \in Seq(Registrable), NEW t \in Seq(Registrable), NEW x \in Registrable, IsPrefix(s, t)
    PROVE  IsPrefix(s, Append(t, x))
<1>1. Len(s) <= Len(t) /\ SubSeq(s, 1, Len(s)) = SubSeq(t, 1, Len(s))
  BY DEF IsPrefix
<1>2. Len(Append(t, x)) = Len(t) + 1
  OBVIOUS
<1>3. SubSeq(Append(t, x), 1, Len(s)) = SubSeq(t, 1, Len(s))
  BY <1>1
<1> QED
  BY <1>1, <1>2, <1>3 DEF IsPrefix

LEMMA RegisteringKeeps ==
    ASSUME RegistryAssumption, RInv, NEW spec \in UserSpecs, RegisterEdge(spec)
    PROVE  RInv'
<1>1. spec \in Registrable
  BY DEF Registrable
<1>2. exists' = TRUE /\ sealed' = Sealed /\ UNCHANGED <<snapshot, current>>
  BY DEF RegisterEdge
<1>3. GlyphToCode' = glyph_to_code' /\ CodeToSpec' = code_to_spec'
  BY <1>2 DEF GlyphToCode, CodeToSpec
<1>4. /\ snapshot' \in Seq(Registrable)
      /\ (current => exists)'
  BY <1>2 DEF RInv
<1>5. CASE IsNew(spec)
  <2>1. /\ code_to_spec' = Append(CodeToSpec, spec)
        /\ glyph_to_code' = Extended(GlyphToCode, spec.glyph, Code(spec))
        /\ edge_ops' = edge_ops \cup {spec.glyph}
    BY <1>5 DEF RegisterEdge, Accepts
  <2>2. Len(CodeToSpec) < MaxTypes /\ spec.glyph \notin DOMAIN GlyphToCode
    BY <1>5 DEF IsNew
  <2>3. Code(spec) = Len(CodeToSpec)
    BY <2>2, HandedOutIsTyped DEF Code, RegistryAssumption
  <2>4. Agree(glyph_to_code', code_to_spec')
    BY <2>1, <2>2, <2>3, <1>1, HandedOutIsTyped, AppendAgrees DEF RInv
  <2>5. edge_ops' = Glyphs(code_to_spec')
    <3>1. Agree(GlyphToCode, CodeToSpec) /\ edge_ops = Glyphs(CodeToSpec)
      BY DEF RInv
    <3>2. DOMAIN glyph_to_code' = DOMAIN GlyphToCode \cup {spec.glyph}
      BY <2>1 DEF Extended
    <3> QED
      BY <3>1, <3>2, <2>1, <2>4 DEF Agree
  <2>6. code_to_spec' \in Seq(Registrable) /\ Len(code_to_spec') <= MaxTypes
    BY <2>1, <2>2, <1>1, HandedOutIsTyped DEF RegistryAssumption
  <2>7. SnapshotCodesStillHold'
    <3> SUFFICES ASSUME current' PROVE IsPrefix(snapshot', code_to_spec')
      BY DEF SnapshotCodesStillHold
    <3>1. exists /\ IsPrefix(snapshot, code_to_spec) /\ CodeToSpec = code_to_spec
      BY <1>2 DEF RInv, SnapshotCodesStillHold, CodeToSpec
    <3>2. snapshot \in Seq(Registrable) /\ code_to_spec \in Seq(Registrable)
      BY DEF RInv
    <3> QED
      BY <3>1, <3>2, <2>1, <1>1, <1>2, PrefixOfLonger
  <2> QED
    BY <1>3, <1>4, <2>4, <2>5, <2>6, <2>7 DEF RInv
<1>6. CASE ~ IsNew(spec)
  <2>1. code_to_spec' = CodeToSpec /\ glyph_to_code' = GlyphToCode
    BY <1>6 DEF RegisterEdge
  <2>2. edge_ops' = edge_ops
    <3>1. CASE Accepts(spec)
      <4>1. spec.glyph \in DOMAIN GlyphToCode
        BY <3>1, <1>6 DEF Accepts
      <4>2. spec.glyph \in edge_ops
        BY <4>1 DEF RInv, Agree
      <4> QED
        BY <3>1, <4>2 DEF RegisterEdge
    <3>2. CASE ~ Accepts(spec)
      BY <3>2 DEF RegisterEdge
    <3> QED
      BY <3>1, <3>2
  <2>3. SnapshotCodesStillHold'
    BY <1>2, <2>1 DEF RInv, SnapshotCodesStillHold, CodeToSpec
  <2> QED
    BY <1>3, <1>4, <2>1, <2>2, <2>3, HandedOutIsTyped DEF RInv
<1> QED
  BY <1>5, <1>6

LEMMA SealingKeeps ==
    ASSUME RegistryAssumption, RInv, SealRegistry
    PROVE  RInv'
<1>1. /\ exists' = TRUE /\ sealed' = TRUE
      /\ glyph_to_code' = GlyphToCode /\ code_to_spec' = CodeToSpec
      /\ UNCHANGED <<edge_ops, snapshot, current>>
  BY DEF SealRegistry
<1>2. GlyphToCode' = GlyphToCode /\ CodeToSpec' = CodeToSpec
  BY <1>1 DEF GlyphToCode, CodeToSpec
<1>3. SnapshotCodesStillHold'
  BY <1>1 DEF RInv, SnapshotCodesStillHold, CodeToSpec
<1> QED
  BY <1>1, <1>2, <1>3, HandedOutIsTyped DEF RInv

LEMMA ResettingKeeps ==
    ASSUME RegistryAssumption, RInv, Reset
    PROVE  RInv'
<1>1. /\ exists' = FALSE /\ sealed' = FALSE /\ current' = FALSE /\ snapshot' = snapshot
      /\ glyph_to_code' = CodeTable(<<>>) /\ code_to_spec' = <<>>
      /\ edge_ops' = DefaultOps
  BY DEF Reset
<1>2. Agree(GlyphToCode', CodeToSpec') /\ edge_ops' = Glyphs(CodeToSpec')
  BY <1>1, BuiltinsAgree DEF GlyphToCode, CodeToSpec, DefaultOps
<1>3. Len(code_to_spec') <= MaxTypes
  BY <1>1 DEF RegistryAssumption
<1> QED
  BY <1>1, <1>2, <1>3, EmptyAgrees DEF RInv, SnapshotCodesStillHold

(* A snapshot is what the table holds, cut where the length wraps.         *)
LEMMA BuildingKeeps ==
    ASSUME RegistryAssumption, RInv, BuildGraph
    PROVE  RInv'
<1>1. /\ exists' = TRUE /\ sealed' = Sealed /\ current' = TRUE
      /\ glyph_to_code' = GlyphToCode /\ code_to_spec' = CodeToSpec
      /\ snapshot' = SubSeq(CodeToSpec, 1, SnapshotLength)
      /\ edge_ops' = edge_ops
  BY DEF BuildGraph
<1>2. GlyphToCode' = GlyphToCode /\ CodeToSpec' = CodeToSpec
  BY <1>1 DEF GlyphToCode, CodeToSpec
<1>3. SnapshotLength \in 0 .. Len(CodeToSpec)
  <2>1. MaxTypes \in Nat \ {0} /\ Len(CodeToSpec) \in 0 .. MaxTypes
    BY HandedOutIsTyped, BuiltinsFacts DEF RegistryAssumption
  <2>2. CASE Len(CodeToSpec) < MaxTypes
    BY <2>1, <2>2 DEF SnapshotLength
  <2>3. CASE Len(CodeToSpec) = MaxTypes
    <3>1. MaxTypes % MaxTypes = 0
      BY <2>1
    <3> QED
      BY <2>1, <2>3, <3>1 DEF SnapshotLength
  <2> QED
    BY <2>1, <2>2, <2>3
<1>4. snapshot' \in Seq(Registrable) /\ Len(snapshot') = SnapshotLength
  BY <1>1, <1>3, HandedOutIsTyped
<1>5. SubSeq(snapshot', 1, Len(snapshot')) = SubSeq(code_to_spec', 1, Len(snapshot'))
  BY <1>1, <1>3, <1>4, HandedOutIsTyped
<1>6. SnapshotCodesStillHold'
  BY <1>1, <1>3, <1>4, <1>5, HandedOutIsTyped DEF SnapshotCodesStillHold, IsPrefix
<1> QED
  BY <1>1, <1>2, <1>4, <1>6, HandedOutIsTyped DEF RInv

LEMMA RegistryStep ==
    ASSUME RegistryAssumption, RInv, [Next]_vars
    PROVE  RInv'
<1>1. CASE \E spec \in UserSpecs : RegisterEdge(spec)
  BY <1>1, RegisteringKeeps
<1>2. CASE SealRegistry
  BY <1>2, SealingKeeps
<1>3. CASE Reset
  BY <1>3, ResettingKeeps
<1>4. CASE BuildGraph
  BY <1>4, BuildingKeeps
<1>5. CASE UNCHANGED vars
  BY <1>5 DEF vars, table, RInv, GlyphToCode, CodeToSpec, SnapshotCodesStillHold
<1> QED
  BY <1>1, <1>2, <1>3, <1>4, <1>5 DEF Next

(* RInv holds in every state of the registry (edges/mod.rs, R/registry.R). *)
THEOREM RegistryInvariant == Spec => []RInv
<1>1. Init => RInv
  BY RegistryInit, RegistryAssumption
<1>2. RInv /\ [Next]_vars => RInv'
  BY RegistryStep, RegistryAssumption
<1> QED
  BY <1>1, <1>2, PTL DEF Spec

LEMMA WhatRInvSays ==
    ASSUME RegistryAssumption, RInv
    PROVE  GlyphsAndCodesAgree /\ OperatorsMatchTypes /\ SnapshotCodesStillHold
BY DEF RInv, Agree, GlyphsAndCodesAgree, OperatorsMatchTypes

(* code_of() and spec_of_code() (edges/mod.rs) are inverse to each other,  *)
(* whatever is registered, sealed and reset.                               *)
THEOREM RegistryAgrees == Spec => []GlyphsAndCodesAgree
BY RegistryInvariant, WhatRInvSays, RegistryAssumption, PTL

(* The operators of R/registry.R and the Rust table never drift apart.     *)
THEOREM OperatorsAgree == Spec => []OperatorsMatchTypes
BY RegistryInvariant, WhatRInvSays, RegistryAssumption, PTL

(* Until a reset, the codes of a compiled graph keep their meaning.        *)
THEOREM SnapshotsHold == Spec => []SnapshotCodesStillHold
BY RegistryInvariant, WhatRInvSays, RegistryAssumption, PTL

--------------------------------------------------------------------------------
(* Files. *)

(* Every step of GraphFiles is one of the registry, or leaves it alone. *)
LEMMA FilesStep ==
    ASSUME FilesNext
    PROVE  [Next]_vars
<1>1. CASE Registry
  BY <1>1 DEF Registry, Next
<1>2. ASSUME NEW t \in Tables, Construct(t)
      PROVE  Next
  BY <1>2 DEF Construct, Next
<1>3. CASE WriteCaugi \/ WriteGraphml
  <2>1. ASSUME NEW kind, Write(kind)
        PROVE  UNCHANGED vars
    BY <2>1 DEF Write
  <2> QED
    BY <1>3, <2>1 DEF WriteCaugi, WriteGraphml
<1>4. CASE ReadCaugi
  BY <1>4 DEF ReadCaugi, Next
<1>5. ASSUME NEW class, ReadGraphml(class)
      PROVE  Next
  BY <1>5 DEF ReadGraphml, Next
<1>6. ASSUME NEW d \in Foreign, Receive(EventsOf(d))
      PROVE  UNCHANGED vars
  BY <1>6 DEF Receive
<1> QED
  BY <1>1, <1>2, <1>3, <1>4, <1>5, <1>6 DEF FilesNext

(* The files implement the registry: R/registry.R is the only way to it.   *)
THEOREM FilesDriveTheRegistry == FilesSpec => Spec
<1>1. FilesInit => Init
  BY DEF FilesInit
<1>2. [FilesNext]_fileVars => [Next]_vars
  <2>1. UNCHANGED fileVars => UNCHANGED vars
    BY DEF fileVars
  <2> QED
    BY <2>1, FilesStep
<1> QED
  BY <1>1, <1>2, PTL DEF FilesSpec, Spec

(* code_of() and spec_of_code() stay inverse to each other while graphs    *)
(* are built, written and read.                                            *)
THEOREM FilesAgree == FilesSpec => []GlyphsAndCodesAgree
BY FilesDriveTheRegistry, RegistryAgrees, PTL

(* The operators of R/registry.R stay the glyphs of the Rust table while   *)
(* graphs are built, written and read.                                     *)
THEOREM FilesOperatorsAgree == FilesSpec => []OperatorsMatchTypes
BY FilesDriveTheRegistry, OperatorsAgree, PTL

(* A graph built or read keeps codes that mean the same in the registry    *)
(* until a reset, so rows can be added to it.                              *)
THEOREM FilesSnapshotsHold == FilesSpec => []SnapshotCodesStillHold
BY FilesDriveTheRegistry, SnapshotsHold, PTL

--------------------------------------------------------------------------------
(* The reader: a chain of states, one for each event *)

Leads(s, events, t) ==
    \E st :
        /\ st = [k \in 0 .. Len(events) |-> st[k]]
        /\ st[0] = s /\ st[Len(events)] = t
        /\ \A k \in 1 .. Len(events) : st[k] = HandleEvent(st[k - 1], events[k])

(* What FoldLeft() computes over the first k events, as a function of the  *)
(* set of their positions: it exists, since one for fewer events can be     *)
(* extended.                                                                *)
Folds(events, k, F) ==
    F = [S \in SUBSET (1 .. k) |->
            IF S = {} THEN ParserStart
            ELSE HandleEvent(F[S \ {Max(S)}], events[Max(S)])]

LEMMA FoldExists ==
    ASSUME NEW E, NEW events \in Seq(E)
    PROVE  \E F : Folds(events, Len(events), F)
<1> DEFINE bad == {k \in 0 .. Len(events) : ~ \E F : Folds(events, k, F)}
<1>1. Len(events) \in Nat
  BY LenProperties
<1> SUFFICES ASSUME bad # {} PROVE FALSE
  BY <1>1
<1>2. PICK k \in bad : \A j \in bad : k <= j
  <2>1. IsFiniteSet(0 .. Len(events)) /\ bad \in SUBSET (0 .. Len(events))
    BY <1>1, FS_Interval
  <2>2. bad \in SUBSET Nat /\ IsFiniteSet(bad)
    BY <1>1, <2>1, FS_Subset
  <2> HIDE DEF bad
  <2> QED
    BY <2>2, Least
<1>3. CASE k = 0
  <2> DEFINE F == [S \in SUBSET (1 .. 0) |-> ParserStart]
  <2>1. \A S \in SUBSET (1 .. 0) : S = {}
    OBVIOUS
  <2>2. Folds(events, 0, F)
    BY <2>1 DEF Folds
  <2> QED
    BY <1>2, <1>3, <2>2
<1>4. CASE k # 0
  <2>1. k \in Nat /\ k - 1 \in 0 .. Len(events) /\ k - 1 \notin bad
    BY <1>1, <1>2, <1>4
  <2>2. PICK F : Folds(events, k - 1, F)
    BY <2>1
  <2> DEFINE G == [S \in SUBSET (1 .. k) |->
                      IF k \in S THEN HandleEvent(F[S \ {k}], events[k]) ELSE F[S]]
  <2>3. ASSUME NEW S \in SUBSET (1 .. k), k \in S
        PROVE  /\ Max(S) = k
               /\ S \ {k} \in SUBSET (1 .. k) /\ k \notin S \ {k}
    <3>1. S \in SUBSET Int /\ \A x \in S : x <= k
      BY <2>1
    <3>2. Max(S) = k
      BY <2>3, <3>1, MaxIs
    <3> QED
      BY <2>3, <3>2
  <2>4. ASSUME NEW S \in SUBSET (1 .. k), k \notin S
        PROVE  S \in SUBSET (1 .. (k - 1))
    <3>1. \A x \in 1 .. k : x # k => x \in 1 .. (k - 1)
      BY <2>1
    <3> QED
      BY <2>4, <3>1
  <2>5. \A S \in SUBSET (1 .. (k - 1)) :
            F[S] = IF S = {} THEN ParserStart ELSE HandleEvent(F[S \ {Max(S)}], events[Max(S)])
    BY <2>2 DEF Folds
  <2>6. ASSUME NEW S \in SUBSET (1 .. k)
        PROVE  G[S] = IF S = {} THEN ParserStart
                      ELSE HandleEvent(G[S \ {Max(S)}], events[Max(S)])
    <3>1. CASE k \in S
      <4>1. G[S] = HandleEvent(F[S \ {k}], events[k]) /\ G[S \ {k}] = F[S \ {k}]
        BY <2>3, <3>1
      <4> HIDE DEF G
      <4> QED
        BY <2>3, <3>1, <4>1
    <3>2. CASE k \notin S
      <4>1. S \in SUBSET (1 .. (k - 1))
        BY <2>4, <3>2
      <4>2. G[S] = F[S] /\ G[S \ {Max(S)}] = F[S \ {Max(S)}]
        BY <3>2
      <4> HIDE DEF G
      <4> QED
        BY <2>5, <4>1, <4>2
    <3> QED
      BY <3>1, <3>2
  <2>7. G = [S \in SUBSET (1 .. k) |-> G[S]]
    OBVIOUS
  <2> HIDE DEF G
  <2>8. Folds(events, k, G)
    BY <2>6, <2>7 DEF Folds
  <2> QED
    BY <1>2, <2>8
<1> QED
  BY <1>3, <1>4

LEMMA FoldLeads ==
    ASSUME NEW E, NEW events \in Seq(E)
    PROVE  Leads(ParserStart, events, FoldLeft(HandleEvent, ParserStart, events))
<1> DEFINE n == Len(events)
           F == CHOOSE f : Folds(events, n, f)
           st == [k \in 0 .. n |-> F[1 .. k]]
<1>1. n \in Nat /\ DOMAIN events = 1 .. n
  BY LenProperties
<1>2. Folds(events, n, F)
  BY FoldExists
<1>3. FoldLeft(HandleEvent, ParserStart, events) = F[1 .. n]
  BY <1>1 DEF FoldLeft, MapThenFoldSet, Folds
<1>4. \A S \in SUBSET (1 .. n) :
          F[S] = IF S = {} THEN ParserStart ELSE HandleEvent(F[S \ {Max(S)}], events[Max(S)])
  BY <1>2 DEF Folds
<1> HIDE DEF F
<1>5. ASSUME NEW k \in 1 .. n PROVE st[k] = HandleEvent(st[k - 1], events[k])
  <2>1. k \in 1 .. k /\ 1 .. k \in SUBSET (1 .. n) /\ 1 .. k \in SUBSET Int
    BY <1>1
  <2>2. Max(1 .. k) = k
    <3>1. \A x \in 1 .. k : x <= k
      BY <1>1
    <3> QED
      BY <2>1, <3>1, MaxIs
  <2>3. (1 .. k) \ {k} = 1 .. (k - 1)
    BY <1>1
  <2>4. F[1 .. k] = HandleEvent(F[1 .. (k - 1)], events[k])
    BY <1>4, <2>1, <2>2, <2>3
  <2> QED
    BY <1>1, <2>4
<1>6. st[0] = ParserStart
  <2>1. 1 .. 0 = {} /\ {} \in SUBSET (1 .. n)
    OBVIOUS
  <2>2. F[{}] = ParserStart
    BY <1>4, <2>1
  <2> QED
    BY <1>1, <2>1, <2>2
<1>7. st[n] = F[1 .. n] /\ st = [k \in 0 .. n |-> st[k]]
  BY <1>1
<1> HIDE DEF st
<1> QED
  BY <1>3, <1>5, <1>6, <1>7 DEF Leads

(* A chain from one state ends in one state. *)
LEMMA LeadsToOne ==
    ASSUME NEW E, NEW events \in Seq(E), NEW s, NEW t, NEW u,
           Leads(s, events, t), Leads(s, events, u)
    PROVE  t = u
<1> DEFINE n == Len(events)
<1>1. n \in Nat
  BY LenProperties
<1>2. PICK f : /\ f[0] = s /\ f[n] = t
               /\ \A k \in 1 .. n : f[k] = HandleEvent(f[k - 1], events[k])
  BY DEF Leads
<1>3. PICK g : /\ g[0] = s /\ g[n] = u
               /\ \A k \in 1 .. n : g[k] = HandleEvent(g[k - 1], events[k])
  BY DEF Leads
<1> DEFINE bad == {k \in 0 .. n : f[k] # g[k]}
<1>4. SUFFICES ASSUME bad # {} PROVE FALSE
  BY <1>1, <1>2, <1>3
<1>5. PICK k \in bad : \A j \in bad : k <= j
  <2>1. IsFiniteSet(0 .. n) /\ bad \in SUBSET (0 .. n) /\ bad \in SUBSET Nat
    BY <1>1, FS_Interval
  <2>2. IsFiniteSet(bad)
    BY <2>1, FS_Subset
  <2> HIDE DEF bad
  <2> QED
    BY <1>4, <2>1, <2>2, Least
<1>6. k # 0 /\ k \in 1 .. n
  BY <1>1, <1>2, <1>3
<1>7. k - 1 \in 0 .. n /\ k - 1 \notin bad
  BY <1>1, <1>5, <1>6
<1> QED
  BY <1>2, <1>3, <1>6, <1>7

(* Reading goes on where it was. *)
LEMMA LeadsOn ==
    ASSUME NEW E, NEW a \in Seq(E), NEW b \in Seq(E), NEW s, NEW t, NEW u,
           Leads(s, a, t), Leads(t, b, u)
    PROVE  Leads(s, a \o b, u)
<1> DEFINE m == Len(a)
           n == Len(b)
<1>1. /\ m \in Nat /\ n \in Nat /\ Len(a \o b) = m + n
      /\ \A i \in 1 .. m + n : (a \o b)[i] = IF i <= m THEN a[i] ELSE b[i - m]
  BY LenProperties, ConcatProperties
<1>2. PICK f : /\ f[0] = s /\ f[m] = t
               /\ \A k \in 1 .. m : f[k] = HandleEvent(f[k - 1], a[k])
  BY DEF Leads
<1>3. PICK g : /\ g[0] = t /\ g[n] = u
               /\ \A k \in 1 .. n : g[k] = HandleEvent(g[k - 1], b[k])
  BY DEF Leads
<1> DEFINE h == [k \in 0 .. (m + n) |-> IF k <= m THEN f[k] ELSE g[k - m]]
<1>4. h[0] = s
  BY <1>1, <1>2
<1>5. h[m + n] = u
  <2>1. CASE n = 0
    BY <1>1, <1>2, <1>3, <2>1
  <2>2. CASE n # 0
    <3>1. ~ (m + n <= m) /\ (m + n) - m = n /\ m + n \in 0 .. (m + n)
      BY <1>1, <2>2
    <3> QED
      BY <1>3, <3>1
  <2> QED
    BY <2>1, <2>2
<1>6. ASSUME NEW k \in 1 .. (m + n) PROVE h[k] = HandleEvent(h[k - 1], (a \o b)[k])
  <2>1. CASE k <= m
    <3>1. k \in 1 .. m /\ k - 1 \in 0 .. (m + n) /\ k - 1 <= m /\ k \in 0 .. (m + n)
      BY <1>1, <2>1
    <3>2. h[k] = f[k] /\ h[k - 1] = f[k - 1] /\ (a \o b)[k] = a[k]
      BY <1>1, <2>1, <3>1
    <3> QED
      BY <1>2, <3>1, <3>2
  <2>2. CASE ~ (k <= m)
    <3>1. /\ k - m \in 1 .. n /\ k - 1 \in 0 .. (m + n) /\ k \in 0 .. (m + n)
          /\ (k - m) - 1 = (k - 1) - m
      BY <1>1, <2>2
    <3>2. h[k - 1] = g[(k - m) - 1]
      <4>1. CASE k - 1 = m
        BY <1>1, <1>2, <1>3, <3>1, <4>1
      <4>2. CASE k - 1 # m
        <5>1. ~ (k - 1 <= m)
          BY <1>1, <2>2, <4>2
        <5> QED
          BY <3>1, <5>1
      <4> QED
        BY <4>1, <4>2
    <3>3. h[k] = g[k - m] /\ (a \o b)[k] = b[k - m]
      BY <1>1, <2>2, <3>1
    <3>4. g[k - m] = HandleEvent(g[(k - m) - 1], b[k - m])
      BY <1>3, <3>1
    <3> QED
      BY <3>2, <3>3, <3>4
  <2> QED
    BY <2>1, <2>2
<1>7. h = [k \in 0 .. (m + n) |-> h[k]]
  OBVIOUS
<1> DEFINE c == a \o b
<1> HIDE DEF h
<1>8. /\ h = [k \in 0 .. Len(c) |-> h[k]] /\ h[0] = s /\ h[Len(c)] = u
      /\ \A k \in 1 .. Len(c) : h[k] = HandleEvent(h[k - 1], c[k])
  BY <1>1, <1>4, <1>5, <1>6, <1>7
<1> HIDE DEF c
<1>9. Leads(s, c, u)
  BY <1>8 DEF Leads
<1> QED
  BY <1>9 DEF c

LEMMA LeadsNowhere == ASSUME NEW s PROVE Leads(s, <<>>, s)
<1> DEFINE st == [k \in 0 .. 0 |-> s]
<1>1. Len(<<>>) = 0 /\ 1 .. 0 = {}
  OBVIOUS
<1>2. st = [k \in 0 .. 0 |-> st[k]] /\ st[0] = s
  OBVIOUS
<1> HIDE DEF st
<1> QED
  BY <1>1, <1>2 DEF Leads

LEMMA LeadsOne == ASSUME NEW s, NEW e PROVE Leads(s, <<e>>, HandleEvent(s, e))
<1> DEFINE st == [k \in 0 .. 1 |-> IF k = 0 THEN s ELSE HandleEvent(s, e)]
<1>1. Len(<<e>>) = 1 /\ <<e>>[1] = e
  OBVIOUS
<1>2. st = [k \in 0 .. 1 |-> st[k]] /\ st[0] = s /\ st[1] = HandleEvent(s, e)
  OBVIOUS
<1>3. \A k \in 1 .. 1 : k = 1 /\ k - 1 = 0
  OBVIOUS
<1> HIDE DEF st
<1> QED
  BY <1>1, <1>2, <1>3 DEF Leads

--------------------------------------------------------------------------------
(* Sequences put end to end *)

Appends(seqs, k, f) == f = [i \in 1 .. k |-> IF i = 1 THEN seqs[i] ELSE f[i - 1] \o seqs[i]]

LEMMA FlattenExists ==
    ASSUME NEW E, NEW seqs \in Seq(E)
    PROVE  \E f : Appends(seqs, Len(seqs), f)
<1> DEFINE bad == {k \in 0 .. Len(seqs) : ~ \E f : Appends(seqs, k, f)}
<1>1. Len(seqs) \in Nat
  BY LenProperties
<1> SUFFICES ASSUME bad # {} PROVE FALSE
  BY <1>1
<1>2. PICK k \in bad : \A j \in bad : k <= j
  <2>1. IsFiniteSet(0 .. Len(seqs)) /\ bad \in SUBSET (0 .. Len(seqs))
    BY <1>1, FS_Interval
  <2>2. bad \in SUBSET Nat /\ IsFiniteSet(bad)
    BY <1>1, <2>1, FS_Subset
  <2> HIDE DEF bad
  <2> QED
    BY <2>2, Least
<1>3. CASE k = 0
  <2> DEFINE f == [i \in 1 .. 0 |-> <<>>]
  <2>1. Appends(seqs, 0, f)
    BY DEF Appends
  <2> QED
    BY <1>2, <1>3, <2>1
<1>4. CASE k # 0
  <2>1. k \in Nat /\ k - 1 \in 0 .. Len(seqs) /\ k - 1 \notin bad
    BY <1>1, <1>2, <1>4
  <2>2. PICK f : Appends(seqs, k - 1, f)
    BY <2>1
  <2> DEFINE g == [i \in 1 .. k |-> IF i < k THEN f[i]
                                    ELSE IF i = 1 THEN seqs[i] ELSE f[i - 1] \o seqs[i]]
  <2>3. \A i \in 1 .. (k - 1) : f[i] = IF i = 1 THEN seqs[i] ELSE f[i - 1] \o seqs[i]
    BY <2>2 DEF Appends
  <2>4. ASSUME NEW i \in 1 .. k
        PROVE  g[i] = IF i = 1 THEN seqs[i] ELSE g[i - 1] \o seqs[i]
    <3>1. i # 1 => i - 1 \in 1 .. k /\ i - 1 < k
      BY <2>1
    <3>2. i # 1 => g[i - 1] = f[i - 1]
      BY <3>1
    <3>3. CASE i < k
      <4>1. i \in 1 .. (k - 1)
        BY <2>1, <3>3
      <4>2. g[i] = f[i]
        BY <3>3
      <4> HIDE DEF g
      <4> QED
        BY <2>3, <3>2, <4>1, <4>2
    <3>4. CASE i = k
      <4>1. g[i] = IF i = 1 THEN seqs[i] ELSE f[i - 1] \o seqs[i]
        BY <2>1, <3>4
      <4> HIDE DEF g
      <4> QED
        BY <3>2, <4>1
    <3> QED
      BY <2>1, <3>3, <3>4
  <2>5. g = [i \in 1 .. k |-> g[i]]
    OBVIOUS
  <2> HIDE DEF g
  <2>6. Appends(seqs, k, g)
    BY <2>4, <2>5 DEF Appends
  <2> QED
    BY <1>2, <2>6
<1> QED
  BY <1>3, <1>4

(* FlattenSeq() puts one sequence behind the other. *)
LEMMA FlattenFacts ==
    ASSUME NEW T, NEW seqs \in Seq(Seq(T))
    PROVE  \E f \in [0 .. Len(seqs) -> Seq(T)] :
               /\ f[0] = <<>> /\ f[Len(seqs)] = FlattenSeq(seqs)
               /\ \A i \in 1 .. Len(seqs) : f[i] = f[i - 1] \o seqs[i]
<1> DEFINE n == Len(seqs)
           g == CHOOSE f : Appends(seqs, n, f)
           f == [i \in 0 .. n |-> IF i = 0 THEN <<>> ELSE g[i]]
<1>1. n \in Nat /\ \A i \in 1 .. n : seqs[i] \in Seq(T)
  BY LenProperties, ElementOfSeq
<1>2. Appends(seqs, n, g)
  BY FlattenExists
<1>3. FlattenSeq(seqs) = IF n = 0 THEN seqs ELSE g[n]
  BY DEF FlattenSeq, Appends
<1>4. \A i \in 1 .. n : g[i] = IF i = 1 THEN seqs[i] ELSE g[i - 1] \o seqs[i]
  BY <1>2 DEF Appends
<1> HIDE DEF g
<1>5. f[0] = <<>> /\ f[n] = FlattenSeq(seqs)
  <2>1. n = 0 => seqs = <<>>
    BY EmptySeq
  <2> QED
    BY <1>1, <1>3, <2>1
<1>6. ASSUME NEW i \in 1 .. n PROVE f[i] = f[i - 1] \o seqs[i]
  <2>1. i - 1 \in 0 .. n /\ i \in 0 .. n /\ i # 0
    BY <1>1
  <2>2. f[i] = g[i] /\ (i # 1 => f[i - 1] = g[i - 1]) /\ (i = 1 => f[i - 1] = <<>>)
    BY <1>1, <2>1
  <2>3. <<>> \o seqs[i] = seqs[i]
    BY <1>1, ConcatEmptySeq
  <2> HIDE DEF f
  <2> QED
    BY <1>4, <2>2, <2>3
<1>7. f = [i \in 0 .. n |-> f[i]]
  OBVIOUS
<1> HIDE DEF f
<1>8. \A i \in 0 .. n : f[i] \in Seq(T)
  <2> DEFINE bad == {i \in 0 .. n : f[i] \notin Seq(T)}
  <2> SUFFICES ASSUME bad # {} PROVE FALSE
    OBVIOUS
  <2>1. PICK k \in bad : \A j \in bad : k <= j
    <3>1. IsFiniteSet(0 .. n) /\ bad \in SUBSET (0 .. n)
      BY <1>1, FS_Interval
    <3>2. bad \in SUBSET Nat /\ IsFiniteSet(bad)
      BY <1>1, <3>1, FS_Subset
    <3> HIDE DEF bad
    <3> QED
      BY <3>2, Least
  <2>2. <<>> \in Seq(T)
    OBVIOUS
  <2>3. k # 0 /\ k \in 1 .. n
    <3>1. f[k] \notin Seq(T) /\ k \in 0 .. n
      OBVIOUS
    <3>2. f[0] \in Seq(T)
      BY <1>5, <2>2
    <3>3. k # 0
      BY <3>1, <3>2
    <3> QED
      BY <1>1, <3>1, <3>3
  <2>4. k - 1 \in 0 .. n /\ k - 1 \notin bad
    BY <1>1, <2>1, <2>3
  <2>5. f[k - 1] \in Seq(T) /\ seqs[k] \in Seq(T)
    BY <1>1, <2>3, <2>4
  <2>6. f[k] \in Seq(T)
    BY <1>6, <2>3, <2>5, ConcatProperties
  <2> QED
    BY <2>6
<1> QED
  BY <1>5, <1>6, <1>7, <1>8

--------------------------------------------------------------------------------
(* Documents are sequences of events, of whatever kind *)

IsSeq(s) == \E T : s \in Seq(T)

LEMMA WiderSeq ==
    ASSUME NEW T, NEW s \in Seq(T), NEW U, T \subseteq U
    PROVE  s \in Seq(U)
<1>1. s \in [1 .. Len(s) -> T] /\ Len(s) \in Nat
  BY LenProperties
<1>2. s \in [1 .. Len(s) -> U]
  BY <1>1
<1> QED
  BY <1>1, <1>2

LEMMA OwnElements ==
    ASSUME NEW s, IsSeq(s)
    PROVE  s \in Seq(ToSet(s)) /\ Len(s) \in Nat /\ DOMAIN s = 1 .. Len(s)
<1>1. PICK T : s \in Seq(T)
  BY DEF IsSeq
<1>2. s \in [1 .. Len(s) -> T] /\ Len(s) \in Nat /\ DOMAIN s = 1 .. Len(s)
  BY <1>1, LenProperties
<1>3. s \in [1 .. Len(s) -> ToSet(s)]
  BY <1>2 DEF ToSet
<1> QED
  BY <1>2, <1>3

LEMMA Joined ==
    ASSUME NEW a, NEW b, IsSeq(a), IsSeq(b)
    PROVE  /\ \E T : a \in Seq(T) /\ b \in Seq(T)
           /\ IsSeq(a \o b)
<1>1. PICK T : a \in Seq(T)
  BY DEF IsSeq
<1>2. PICK U : b \in Seq(U)
  BY DEF IsSeq
<1> DEFINE TU == T \cup U
<1>3. T \subseteq TU /\ U \subseteq TU
  OBVIOUS
<1> HIDE DEF TU
<1>4. a \in Seq(TU) /\ b \in Seq(TU)
  BY <1>1, <1>2, <1>3, WiderSeq
<1>5. a \o b \in Seq(TU)
  BY <1>4, ConcatProperties
<1> QED
  BY <1>4, <1>5 DEF IsSeq

LEMMA LeadsJoined ==
    ASSUME NEW a, NEW b, IsSeq(a), IsSeq(b), NEW s, NEW t, NEW u,
           Leads(s, a, t), Leads(t, b, u)
    PROVE  IsSeq(a \o b) /\ Leads(s, a \o b, u)
<1>1. PICK T : a \in Seq(T) /\ b \in Seq(T)
  BY Joined
<1> QED
  BY <1>1, Joined, LeadsOn

LEMMA FlattenJoins ==
    ASSUME NEW n \in Nat, NEW seqs, seqs = [i \in 1 .. n |-> seqs[i]],
           \A i \in 1 .. n : IsSeq(seqs[i])
    PROVE  /\ IsSeq(FlattenSeq(seqs))
           /\ \E f : /\ f[0] = <<>> /\ f[n] = FlattenSeq(seqs)
                     /\ \A i \in 0 .. n : IsSeq(f[i])
                     /\ \A i \in 1 .. n : f[i] = f[i - 1] \o seqs[i]
<1> DEFINE T == UNION {ToSet(seqs[i]) : i \in 1 .. n}
<1>1. ASSUME NEW i \in 1 .. n PROVE seqs[i] \in Seq(T)
  <2>1. seqs[i] \in Seq(ToSet(seqs[i]))
    BY OwnElements
  <2>2. ToSet(seqs[i]) \subseteq T
    OBVIOUS
  <2> HIDE DEF T
  <2> QED
    BY <2>1, <2>2, WiderSeq
<1> HIDE DEF T
<1>2. seqs \in [1 .. n -> Seq(T)]
  BY <1>1
<1>3. seqs \in Seq(Seq(T)) /\ Len(seqs) = n
  BY <1>2
<1>4. PICK f \in [0 .. n -> Seq(T)] :
          /\ f[0] = <<>> /\ f[n] = FlattenSeq(seqs)
          /\ \A i \in 1 .. n : f[i] = f[i - 1] \o seqs[i]
  BY <1>3, FlattenFacts
<1>5. \A i \in 0 .. n : f[i] \in Seq(T)
  BY <1>4
<1>6. \A i \in 0 .. n : IsSeq(f[i])
  BY <1>5 DEF IsSeq
<1>7. n \in 0 .. n
  OBVIOUS
<1> QED
  BY <1>4, <1>6, <1>7

(* The pieces of a data element, as events. *)
TextOf(pieces) ==
    [i \in DOMAIN pieces |-> <<IF pieces[i] \in {"<", ">"} THEN "ref" ELSE "text", pieces[i], "">>]

LEMMA OneIsSeq == \A e : IsSeq(<<e>>)
<1> SUFFICES ASSUME NEW e PROVE IsSeq(<<e>>)
  OBVIOUS
<1>1. <<e>> \in Seq({e})
  OBVIOUS
<1> QED
  BY <1>1 DEF IsSeq

LEMMA TwoIsSeq == \A d, e : IsSeq(<<d, e>>)
<1> SUFFICES ASSUME NEW d, NEW e PROVE IsSeq(<<d, e>>)
  OBVIOUS
<1>1. <<d, e>> \in Seq({d, e})
  OBVIOUS
<1> QED
  BY <1>1 DEF IsSeq

LEMMA ListIsSeq ==
    ASSUME NEW n \in Nat, NEW s, s = [i \in 1 .. n |-> s[i]]
    PROVE  IsSeq(s) /\ Len(s) = n
<1> DEFINE T == {s[i] : i \in 1 .. n}
<1>1. s \in [1 .. n -> T]
  OBVIOUS
<1> HIDE DEF T
<1>2. s \in Seq(T) /\ Len(s) = n
  BY <1>1
<1> QED
  BY <1>2 DEF IsSeq

LEMMA DataIsSeq ==
    ASSUME NEW key, NEW pieces, IsSeq(pieces)
    PROVE  /\ IsSeq(TextOf(pieces)) /\ Len(TextOf(pieces)) = Len(pieces)
           /\ DOMAIN TextOf(pieces) = 1 .. Len(pieces)
           /\ Data(key, pieces) = (<<Start("data", key)>> \o TextOf(pieces)) \o <<End("data")>>
           /\ IsSeq(Data(key, pieces))
<1>1. DOMAIN pieces = 1 .. Len(pieces) /\ Len(pieces) \in Nat
  BY OwnElements
<1>2. DOMAIN TextOf(pieces) = 1 .. Len(pieces) /\ TextOf(pieces) = [i \in 1 .. Len(pieces) |-> TextOf(pieces)[i]]
  BY <1>1 DEF TextOf
<1>3. IsSeq(TextOf(pieces)) /\ Len(TextOf(pieces)) = Len(pieces)
  BY <1>1, <1>2, ListIsSeq
<1>4. Data(key, pieces) = (<<Start("data", key)>> \o TextOf(pieces)) \o <<End("data")>>
  BY DEF Data, TextOf
<1> QED
  BY <1>2, <1>3, <1>4, OneIsSeq, Joined

LEMMA EdgeElementIsSeq ==
    ASSUME NEW row, row[2] \in DOMAIN Pieces
    PROVE  /\ IsSeq(Pieces[row[2]])
           /\ IsSeq(Data("edge_type", Pieces[row[2]]))
           /\ IsSeq(EdgeElement(row))
<1>1. IsSeq(Pieces[row[2]])
  <2>1. Pieces[row[2]] \in Seq(STRING)
    BY FilesAssumption
  <2> QED
    BY <2>1 DEF IsSeq
<1>2. IsSeq(Data("edge_type", Pieces[row[2]]))
  BY <1>1, DataIsSeq
<1> QED
  BY <1>1, <1>2, OneIsSeq, Joined DEF EdgeElement

(* The elements of the nodes and of the edges of a written document. *)
NodeElements(names) == [i \in DOMAIN names |-> <<"empty", "node", names[i]>>]

EdgeElements(rows) == [i \in 1 .. Cardinality(rows) |-> EdgeElement(SetToSeq(rows)[i])]

Opening(default) == <<Start("graphml", ""), Start("graph", default)>>

Closing == <<End("graph"), End("graphml")>>

LEMMA WrittenIsSeq ==
    ASSUME NEW o, IsSeq(o.names),
           NEW rows, IsFiniteSet(rows), \A r \in rows : r[2] \in DOMAIN Pieces
    PROVE  /\ IsSeq(Opening("directed")) /\ IsSeq(Closing) /\ IsSeq(Data("graph_class", <<o.class>>))
           /\ IsSeq(NodeElements(o.names))
           /\ \A i \in 1 .. Cardinality(rows) : IsSeq(EdgeElements(rows)[i])
           /\ IsSeq(FlattenSeq(EdgeElements(rows)))
           /\ GraphmlDocument(o, rows) =
                  (((Opening("directed") \o Data("graph_class", <<o.class>>)) \o NodeElements(o.names))
                      \o FlattenSeq(EdgeElements(rows))) \o Closing
           /\ IsSeq(GraphmlDocument(o, rows))
<1>1. IsSeq(Opening("directed")) /\ IsSeq(Closing)
  BY TwoIsSeq DEF Opening, Closing
<1>2. IsSeq(Data("graph_class", <<o.class>>))
  BY OneIsSeq, DataIsSeq
<1>3. IsSeq(NodeElements(o.names))
  <2>1. DOMAIN o.names = 1 .. Len(o.names) /\ Len(o.names) \in Nat
    BY OwnElements
  <2>2. NodeElements(o.names) = [i \in 1 .. Len(o.names) |-> NodeElements(o.names)[i]]
    BY <2>1 DEF NodeElements
  <2> QED
    BY <2>1, <2>2, ListIsSeq
<1>4. \A i \in 1 .. Cardinality(rows) : IsSeq(EdgeElements(rows)[i])
  <2>1. \A i \in 1 .. Cardinality(rows) : SetToSeq(rows)[i] \in rows
    BY SetToSeqFacts, ElementOfSeq
  <2>2. \A i \in 1 .. Cardinality(rows) : IsSeq(EdgeElement(SetToSeq(rows)[i]))
    BY <2>1, EdgeElementIsSeq
  <2> QED
    BY <2>2 DEF EdgeElements
<1>5. IsSeq(FlattenSeq(EdgeElements(rows)))
  <2>1. Cardinality(rows) \in Nat
    BY FS_CardinalityType
  <2>2. EdgeElements(rows) = [i \in 1 .. Cardinality(rows) |-> EdgeElements(rows)[i]]
    BY DEF EdgeElements
  <2> QED
    BY <1>4, <2>1, <2>2, FlattenJoins
<1>6. GraphmlDocument(o, rows) =
          (((Opening("directed") \o Data("graph_class", <<o.class>>)) \o NodeElements(o.names))
              \o FlattenSeq(EdgeElements(rows))) \o Closing
  BY DEF GraphmlDocument, Opening, Closing, NodeElements, EdgeElements
<1>7. IsSeq(((Opening("directed") \o Data("graph_class", <<o.class>>)) \o NodeElements(o.names))
                \o FlattenSeq(EdgeElements(rows)))
  BY <1>1, <1>2, <1>3, <1>5, Joined
<1> QED
  BY <1>1, <1>2, <1>3, <1>4, <1>5, <1>6, <1>7, Joined

LEMMA ItemIsSeq == ASSUME NEW item \in Item PROVE IsSeq(ItemEvents(item))
<1>1. CASE item \in {"node", "class"} \X STRING
  <2>1. item[1] = "node" \/ item[1] = "class"
    BY <1>1
  <2>2. IsSeq(<<Start("node", item[2]), End("node")>>) /\ IsSeq(Data("graph_class", <<item[2]>>))
    BY OneIsSeq, TwoIsSeq, DataIsSeq
  <2> QED
    BY <2>1, <2>2 DEF ItemEvents
<1>2. CASE item \in {"edge"} \X STRING \X STRING \X Seq(DOMAIN Pieces)
  <2> DEFINE types == [i \in DOMAIN item[4] |->
                          Data("weight", <<"2">>) \o Data("edge_type", Pieces[item[4][i]])]
  <2>1. item[1] = "edge" /\ item[4] \in Seq(DOMAIN Pieces)
    BY <1>2
  <2>2. DOMAIN item[4] = 1 .. Len(item[4]) /\ Len(item[4]) \in Nat
    BY <2>1, LenProperties
  <2>3. ASSUME NEW i \in 1 .. Len(item[4])
        PROVE  IsSeq(Data("weight", <<"2">>) \o Data("edge_type", Pieces[item[4][i]]))
    <3>1. item[4][i] \in DOMAIN Pieces
      BY <2>1, ElementOfSeq
    <3>2. Pieces[item[4][i]] \in Seq(STRING)
      BY <3>1, FilesAssumption
    <3>3. IsSeq(Pieces[item[4][i]])
      BY <3>2 DEF IsSeq
    <3> QED
      BY <3>3, OneIsSeq, DataIsSeq, Joined
  <2>4. /\ types = [i \in 1 .. Len(item[4]) |-> types[i]]
        /\ \A i \in 1 .. Len(item[4]) : IsSeq(types[i])
    BY <2>2, <2>3
  <2> HIDE DEF types
  <2>5. IsSeq(FlattenSeq(types))
    BY <2>2, <2>4, FlattenJoins
  <2>6. ItemEvents(item) =
            (<<Start("edge", <<item[2], item[3]>>)>> \o FlattenSeq(types)) \o <<End("edge")>>
    BY <2>1 DEF ItemEvents, types
  <2> QED
    BY <2>5, <2>6, OneIsSeq, Joined
<1> QED
  BY <1>1, <1>2 DEF Item

LEMMA ItemsAreSeq == ASSUME NEW items \in Seq(Item) PROVE IsSeq(EventsIn(items))
<1> DEFINE elements == [i \in DOMAIN items |-> ItemEvents(items[i])]
<1>1. DOMAIN items = 1 .. Len(items) /\ Len(items) \in Nat
  BY LenProperties
<1>2. \A i \in 1 .. Len(items) : IsSeq(ItemEvents(items[i]))
  BY ItemIsSeq, ElementOfSeq
<1>3. /\ elements = [i \in 1 .. Len(items) |-> elements[i]]
      /\ \A i \in 1 .. Len(items) : IsSeq(elements[i])
  BY <1>1, <1>2
<1>4. EventsIn(items) = FlattenSeq(elements)
  BY DEF EventsIn
<1> HIDE DEF elements
<1> QED
  BY <1>1, <1>3, <1>4, FlattenJoins

(* What can lie on disk. *)
IsFile(d) ==
    \/ d[1] = "caugi" /\ IsSeq(d[2].nodes) /\ \E T, G : d[2].edges \in Seq(RowOver(T, G))
    \/ d[1] = "graphml" /\ IsSeq(d[2])

LEMMA ForeignIsFile == ASSUME NEW d \in Foreign PROVE IsFile(EventsOf(d))
<1>1. CASE d[1] = "caugi" /\ d[2].nodes \in Seq(STRING) /\ d[2].edges \in Seq(EdgeRow)
  <2>1. d[2].edges \in Seq(RowOver(STRING, STRING))
    BY <1>1 DEF EdgeRow, RowOver
  <2> QED
    BY <1>1, <2>1 DEF EventsOf, IsFile, IsSeq
<1>2. CASE d \in GraphmlItems
  <2>1. d[1] = "graphml" /\ d[2] \in Seq(Item) /\ d[4] \in Seq(Item)
    BY <1>2 DEF GraphmlItems
  <2>2. IsSeq(EventsIn(d[2])) /\ IsSeq(EventsIn(d[4]))
    BY <2>1, ItemsAreSeq
  <2> DEFINE inner == <<Start("node", d[3]), Start("graph", "")>>
             last == <<End("graph"), End("node"), End("graph"), End("graphml")>>
  <2>3. last = <<End("graph"), End("node")>> \o <<End("graph"), End("graphml")>>
    OBVIOUS
  <2>4. IsSeq(inner) /\ IsSeq(last) /\ IsSeq(<<Start("graphml", ""), Start("graph", d[5])>>)
    BY <2>3, TwoIsSeq, Joined
  <2>5. /\ EventsOf(d)[1] = "graphml"
        /\ EventsOf(d)[2] = <<Start("graphml", ""), Start("graph", d[5])>> \o EventsIn(d[2])
                                \o inner \o EventsIn(d[4]) \o last
    BY <2>1 DEF EventsOf
  <2> HIDE DEF inner, last
  <2>6. IsSeq(EventsOf(d)[2])
    <3>1. IsSeq(<<Start("graphml", ""), Start("graph", d[5])>> \o EventsIn(d[2]))
      BY <2>2, <2>4, Joined
    <3>2. IsSeq((<<Start("graphml", ""), Start("graph", d[5])>> \o EventsIn(d[2])) \o inner)
      BY <2>4, <3>1, Joined
    <3>3. IsSeq(((<<Start("graphml", ""), Start("graph", d[5])>> \o EventsIn(d[2])) \o inner) \o EventsIn(d[4]))
      BY <2>2, <3>2, Joined
    <3> QED
      BY <2>4, <2>5, <3>3, Joined
  <2> QED
    BY <2>5, <2>6 DEF IsFile
<1> QED
  BY <1>1, <1>2, FilesAssumption

--------------------------------------------------------------------------------
(* Whatever a document holds, the reader collects nodes and rows *)

Collects(s) ==
    /\ DOMAIN s = DOMAIN ParserStart
    /\ \E T, G : s.nodes \in Seq(T) /\ s.rows \in Seq(RowOver(T, G))

LEMMA AppendWider ==
    ASSUME NEW T, NEW s \in Seq(T), NEW x
    PROVE  Append(s, x) \in Seq(T \cup {x})
<1>1. T \subseteq T \cup {x} /\ x \in T \cup {x}
  OBVIOUS
<1>2. s \in Seq(T \cup {x})
  BY <1>1, WiderSeq
<1> QED
  BY <1>1, <1>2, AppendFacts

LEMMA WiderRows ==
    ASSUME NEW T, NEW G, NEW rows \in Seq(RowOver(T, G)), NEW U, NEW H
    PROVE  rows \in Seq(RowOver(T \cup U, G \cup H))
<1>1. RowOver(T, G) \subseteq RowOver(T \cup U, G \cup H)
  BY DEF RowOver
<1> QED
  BY <1>1, WiderSeq

LEMMA AddNodeCollects ==
    ASSUME NEW s, Collects(s), NEW x
    PROVE  Collects([s EXCEPT !.nodes = Append(@, x)])
<1>1. PICK T, G : s.nodes \in Seq(T) /\ s.rows \in Seq(RowOver(T, G))
  BY DEF Collects
<1> DEFINE U == T \cup {x}
           r == [s EXCEPT !.nodes = Append(@, x)]
<1>2. Append(s.nodes, x) \in Seq(U)
  BY <1>1, AppendWider
<1>3. G \cup {} = G
  OBVIOUS
<1>4. s.rows \in Seq(RowOver(U, G \cup {}))
  BY <1>1, WiderRows
<1>5. DOMAIN r = DOMAIN ParserStart /\ r.nodes = Append(s.nodes, x) /\ r.rows = s.rows
  BY DEF Collects, ParserStart
<1> HIDE DEF U, r
<1> QED
  BY <1>2, <1>3, <1>4, <1>5 DEF Collects, r

LEMMA AddRowCollects ==
    ASSUME NEW s, Collects(s), NEW g
    PROVE  Collects(AddRow(s, g))
<1>1. PICK T, G : s.nodes \in Seq(T) /\ s.rows \in Seq(RowOver(T, G))
  BY DEF Collects
<1> DEFINE row == <<s.ends[1], g, s.ends[2]>>
           U == T \cup {s.ends[1], s.ends[2]}
           H == G \cup {g}
<1>2. row \in RowOver(U, H)
  BY DEF RowOver
<1>3. s.rows \in Seq(RowOver(U, H)) /\ s.nodes \in Seq(U)
  BY <1>1, WiderRows, WiderSeq
<1>4. /\ DOMAIN AddRow(s, g) = DOMAIN ParserStart
      /\ AddRow(s, g).nodes = s.nodes /\ AddRow(s, g).rows = Append(s.rows, row)
  BY DEF Collects, ParserStart, AddRow
<1> HIDE DEF U, H, row
<1>5. Append(s.rows, row) \in Seq(RowOver(U, H))
  BY <1>2, <1>3, AppendFacts
<1> QED
  BY <1>3, <1>4, <1>5 DEF Collects

LEMMA CorrectRowCollects ==
    ASSUME NEW s, Collects(s), NEW g
    PROVE  Collects([s EXCEPT !.rows[Len(s.rows)][2] = g])
<1>1. PICK T, G : s.nodes \in Seq(T) /\ s.rows \in Seq(RowOver(T, G))
  BY DEF Collects
<1> DEFINE H == G \cup {g}
           n == Len(s.rows)
           r == [s EXCEPT !.rows[n][2] = g]
<1>2. T \cup {} = T
  OBVIOUS
<1>3. s.rows \in Seq(RowOver(T, H))
  BY <1>1, <1>2, WiderRows
<1>4. s.rows \in [1 .. n -> RowOver(T, H)] /\ n \in Nat
  BY <1>3, LenProperties
<1>5. /\ DOMAIN r = DOMAIN ParserStart
      /\ r.nodes = s.nodes /\ r.rows = [s.rows EXCEPT ![n][2] = g]
  BY DEF Collects, ParserStart
<1>6. [s.rows EXCEPT ![n][2] = g] \in [1 .. n -> RowOver(T, H)]
  <2>1. ASSUME NEW i \in 1 .. n PROVE [s.rows EXCEPT ![n][2] = g][i] \in RowOver(T, H)
    <3>1. s.rows[i] \in RowOver(T, H)
      BY <1>4
    <3>2. [s.rows[i] EXCEPT ![2] = g] \in RowOver(T, H)
      BY <3>1 DEF RowOver
    <3> QED
      BY <1>4, <3>1, <3>2
  <2> QED
    BY <1>4, <2>1
<1> HIDE DEF H, r
<1>7. r.rows \in Seq(RowOver(T, H))
  BY <1>4, <1>5, <1>6
<1> QED
  BY <1>1, <1>5, <1>7 DEF Collects, r

(* s and t differ in neither nodes nor rows. *)
SameTable(s, t) == DOMAIN t = DOMAIN s /\ t.nodes = s.nodes /\ t.rows = s.rows

LEMMA OthersCollect ==
    ASSUME NEW s, Collects(s), NEW t, SameTable(s, t)
    PROVE  Collects(t)
BY DEF Collects, SameTable

LEMMA OpenCollects ==
    ASSUME NEW s, Collects(s), NEW tag, NEW attributes
    PROVE  Collects(OpenElement(s, tag, attributes))
<1>1. CASE tag = "graph"
  <2>1. OpenElement(s, tag, attributes) = [s EXCEPT !.depth = @ + 1]
    BY <1>1 DEF OpenElement
  <2>2. SameTable(s, OpenElement(s, tag, attributes))
    BY <2>1 DEF SameTable
  <2> QED
    BY <2>2, OthersCollect
<1>2. CASE tag = "node" /\ s.depth = 1
  <2>1. OpenElement(s, tag, attributes) = [s EXCEPT !.nodes = Append(@, attributes)]
    BY <1>2 DEF OpenElement
  <2> QED
    BY <2>1, AddNodeCollects
<1>3. CASE tag = "edge" /\ s.depth = 1
  <2>1. OpenElement(s, tag, attributes) =
            [s EXCEPT !.in_edge = TRUE, !.edge_type_seen = FALSE, !.ends = attributes]
    BY <1>3 DEF OpenElement
  <2>2. SameTable(s, OpenElement(s, tag, attributes))
    BY <2>1 DEF SameTable
  <2> QED
    BY <2>2, OthersCollect
<1>4. CASE tag = "data" /\ s.depth = 1
  <2>1. OpenElement(s, tag, attributes) =
            [s EXCEPT !.in_data = TRUE, !.data_key = attributes, !.data_value = <<>>]
    BY <1>4 DEF OpenElement
  <2>2. SameTable(s, OpenElement(s, tag, attributes))
    BY <2>1 DEF SameTable
  <2> QED
    BY <2>2, OthersCollect
<1>5. CASE tag # "graph" /\ ~ (tag \in {"node", "edge", "data"} /\ s.depth = 1)
  BY <1>5 DEF OpenElement
<1> QED
  BY <1>1, <1>2, <1>3, <1>4, <1>5

LEMMA CloseDataCollects == ASSUME NEW s, Collects(s) PROVE Collects(CloseData(s))
<1> DEFINE closed == [s EXCEPT !.in_data = FALSE, !.data_key = "", !.data_value = <<>>]
<1>1. Collects(closed)
  <2>1. SameTable(s, closed)
    BY DEF SameTable
  <2> QED
    BY <2>1, OthersCollect
<1>2. ASSUME NEW c PROVE Collects([closed EXCEPT !.class = c])
  <2> HIDE DEF closed
  <2>1. SameTable(closed, [closed EXCEPT !.class = c])
    BY DEF SameTable
  <2> QED
    BY <1>1, <2>1, OthersCollect
<1>3. Collects([closed EXCEPT !.failed = TRUE])
  <2> HIDE DEF closed
  <2>1. SameTable(closed, [closed EXCEPT !.failed = TRUE])
    BY DEF SameTable
  <2> QED
    BY <1>1, <2>1, OthersCollect
<1>4. ASSUME NEW g PROVE Collects(EdgeType(closed, g))
  <2> HIDE DEF closed
  <2>1. Collects([closed EXCEPT !.rows[Len(closed.rows)][2] = g])
    BY <1>1, CorrectRowCollects
  <2>2. Collects(AddRow(closed, g))
    BY <1>1, AddRowCollects
  <2>3. Collects([AddRow(closed, g) EXCEPT !.edge_type_seen = TRUE])
    <3>1. SameTable(AddRow(closed, g), [AddRow(closed, g) EXCEPT !.edge_type_seen = TRUE])
      BY DEF SameTable
    <3> QED
      BY <2>2, <3>1, OthersCollect
  <2> QED
    BY <2>1, <2>3 DEF EdgeType
<1>5. \/ CloseData(s) = s
      \/ CloseData(s) = closed
      \/ CloseData(s) = [closed EXCEPT !.class = s.data_value[1]]
      \/ CloseData(s) = [closed EXCEPT !.failed = TRUE]
      \/ \E g : CloseData(s) = EdgeType(closed, g)
  <2> HIDE DEF closed
  <2>1. CASE ~ s.in_data
    BY <2>1 DEF CloseData
  <2>2. CASE s.in_data /\ s.data_key = "graph_class" /\ ~ s.in_edge
    BY <2>2 DEF CloseData, closed
  <2>3. CASE s.in_data /\ s.data_key = "edge_type" /\ s.in_edge
    BY <2>3 DEF CloseData, closed
  <2>4. CASE /\ s.in_data
             /\ ~ (s.data_key = "graph_class" /\ ~ s.in_edge)
             /\ ~ (s.data_key = "edge_type" /\ s.in_edge)
    BY <2>4 DEF CloseData, closed
  <2> QED
    BY <2>1, <2>2, <2>3, <2>4
<1> HIDE DEF closed
<1> QED
  BY <1>1, <1>2, <1>3, <1>4, <1>5

LEMMA CloseEdgeCollects == ASSUME NEW s, Collects(s) PROVE Collects(CloseEdge(s))
<1> DEFINE untyped == s.in_edge /\ ~ s.edge_type_seen
           done == IF untyped THEN AddRow(s, "-->") ELSE s
<1>1. Collects(done)
  BY AddRowCollects
<1>2. CloseEdge(s) =
          [done EXCEPT !.in_edge = FALSE, !.edge_type_seen = FALSE, !.ends = <<"", "">>,
                       !.failed = @ \/ (untyped /\ "-->" \notin DOMAIN GlyphToCode)]
  BY DEF CloseEdge
<1> HIDE DEF done, untyped
<1>3. SameTable(done, CloseEdge(s))
  BY <1>2 DEF SameTable
<1> QED
  BY <1>1, <1>3, OthersCollect

LEMMA EventCollects ==
    ASSUME NEW s, Collects(s), NEW e
    PROVE  Collects(HandleEvent(s, e))
<1>1. CASE s.failed
  BY <1>1 DEF HandleEvent
<1>2. CASE ~ s.failed /\ e[1] = "start"
  BY <1>2, OpenCollects DEF HandleEvent
<1>3. CASE ~ s.failed /\ e[1] = "empty"
  BY <1>3, OpenCollects DEF HandleEvent
<1>4. CASE ~ s.failed /\ e[1] \in {"text", "ref"}
  <2>1. HandleEvent(s, e) = AddPiece(s, e[2])
    BY <1>4 DEF HandleEvent
  <2>2. SameTable(s, AddPiece(s, e[2]))
    BY DEF SameTable, AddPiece
  <2> QED
    BY <2>1, <2>2, OthersCollect
<1>5. CASE ~ s.failed /\ e[1] = "end"
  <2>1. HandleEvent(s, e) = CloseElement(s, e[2])
    BY <1>5 DEF HandleEvent
  <2>2. CASE e[2] = "graph"
    <3>1. CloseElement(s, e[2]) = [s EXCEPT !.depth = IF @ > 0 THEN @ - 1 ELSE 0]
      BY <2>2 DEF CloseElement
    <3>2. SameTable(s, HandleEvent(s, e))
      BY <2>1, <3>1 DEF SameTable
    <3> QED
      BY <3>2, OthersCollect
  <2>3. CASE e[2] = "data"
    BY <2>1, <2>3, CloseDataCollects DEF CloseElement
  <2>4. CASE e[2] = "edge"
    BY <2>1, <2>4, CloseEdgeCollects DEF CloseElement
  <2>5. CASE e[2] \notin {"graph", "data", "edge"}
    BY <2>1, <2>5 DEF CloseElement
  <2> QED
    BY <2>2, <2>3, <2>4, <2>5
<1>6. CASE ~ s.failed /\ e[1] \notin {"start", "empty", "text", "ref", "end"}
  BY <1>6 DEF HandleEvent
<1> QED
  BY <1>1, <1>2, <1>3, <1>4, <1>5, <1>6

LEMMA CollectedAtTheEnd ==
    ASSUME NEW events, IsSeq(events)
    PROVE  Collects(FoldLeft(HandleEvent, ParserStart, events))
<1> DEFINE n == Len(events)
<1>1. PICK E : events \in Seq(E)
  BY DEF IsSeq
<1>2. n \in Nat
  BY OwnElements
<1>3. Leads(ParserStart, events, FoldLeft(HandleEvent, ParserStart, events))
  BY <1>1, FoldLeads
<1>4. PICK st : /\ st[0] = ParserStart
                /\ st[n] = FoldLeft(HandleEvent, ParserStart, events)
                /\ \A k \in 1 .. n : st[k] = HandleEvent(st[k - 1], events[k])
  BY <1>3, Zenon DEF Leads
<1> DEFINE bad == {k \in 0 .. n : ~ Collects(st[k])}
<1> SUFFICES ASSUME bad # {} PROVE FALSE
  <2>1. n \in 0 .. n
    BY <1>2
  <2> QED
    BY <1>4, <2>1
<1>5. PICK k \in bad : \A j \in bad : k <= j
  <2>1. IsFiniteSet(0 .. n) /\ bad \in SUBSET (0 .. n)
    BY <1>2, FS_Interval
  <2>2. bad \in SUBSET Nat /\ IsFiniteSet(bad)
    BY <1>2, <2>1, FS_Subset
  <2> HIDE DEF bad
  <2> QED
    BY <2>2, Least
<1>6. Collects(ParserStart)
  <2>1. <<>> \in Seq({}) /\ <<>> \in Seq(RowOver({}, {}))
    OBVIOUS
  <2>2. ParserStart.nodes = <<>> /\ ParserStart.rows = <<>>
    BY DEF ParserStart
  <2> QED
    BY <2>1, <2>2 DEF Collects
<1>7. k \in 0 .. n /\ ~ Collects(st[k])
  OBVIOUS
<1>8. k # 0
  BY <1>4, <1>6, <1>7
<1>9. k \in 1 .. n /\ k - 1 \in 0 .. n /\ k - 1 \notin bad
  BY <1>2, <1>5, <1>7, <1>8
<1>10. Collects(st[k - 1])
  BY <1>9
<1> QED
  BY <1>4, <1>7, <1>9, <1>10, EventCollects

(* What is read from a file: the nodes, and rows between them. *)
LEMMA DataTyped ==
    ASSUME NEW d, IsFile(d), NEW data \in ReadData(d)
    PROVE  \E T, G : /\ data[1] \in Seq(T) /\ data[2] \in Seq(RowOver(T, G))
                     /\ EndsDeclared(data[1], data[2])
<1>1. CASE d[1] = "caugi"
  <2>1. IsSeq(d[2].nodes) /\ \E T, G : d[2].edges \in Seq(RowOver(T, G))
    BY <1>1 DEF IsFile
  <2>2. PICK T, G : d[2].edges \in Seq(RowOver(T, G))
    BY <2>1
  <2>3. PICK U : d[2].nodes \in Seq(U)
    BY <2>1 DEF IsSeq
  <2>4. data = <<d[2].nodes, d[2].edges, d[2].class>> /\ EndsDeclared(d[2].nodes, d[2].edges)
    BY <1>1 DEF ReadData, DeserializeCaugi
  <2>5. d[2].edges \in Seq(RowOver(T \cup U, G \cup {}))
    BY <2>2, WiderRows
  <2>6. U \subseteq T \cup U
    OBVIOUS
  <2>7. d[2].nodes \in Seq(T \cup U)
    BY <2>3, <2>6, WiderSeq
  <2> QED
    BY <2>4, <2>5, <2>7
<1>2. CASE d[1] # "caugi"
  <2> DEFINE s == FoldLeft(HandleEvent, ParserStart, d[2])
  <2>1. IsSeq(d[2])
    BY <1>2 DEF IsFile
  <2>2. data = <<s.nodes, s.rows, s.class>> /\ EndsDeclared(s.nodes, s.rows)
    BY <1>2 DEF ReadData, DeserializeGraphml
  <2>3. Collects(s)
    BY <2>1, CollectedAtTheEnd
  <2> HIDE DEF s
  <2> QED
    BY <2>2, <2>3 DEF Collects
<1> QED
  BY <1>1, <1>2

--------------------------------------------------------------------------------
(* The objects a table or a file becomes *)

WellBuilt(o) ==
    /\ o \in ObjectOver(ToSet(o.names))
    /\ IsInjective(o.names)
    /\ IsFiniteSet(DOMAIN o.edges)
    /\ ValidEdges(Len(o.names), o.simple, o.snapshot, o.edges)
    /\ o.class # "AUTO"
    /\ \A g \in CoreOf(o) : InClass(g, o.class)
    /\ \A c \in DOMAIN o.snapshot : WellFormed(o.snapshot[c])

(* R's types, whose direction and symmetry agree. *)
TypesFit == \A i \in DOMAIN CodeToSpec : WellFormed(CodeToSpec[i])

LEMMA RegistryFacts ==
    ASSUME RInv
    PROVE  /\ CodeToSpec \in Seq(EdgeSpec) /\ Len(CodeToSpec) \in Nat
           /\ DOMAIN CodeToSpec = 1 .. Len(CodeToSpec)
           /\ SnapshotLength \in Nat /\ SnapshotLength <= Len(CodeToSpec)
           /\ Len(CodeToSpec) < MaxTypes => SnapshotLength = Len(CodeToSpec)
           /\ SnapshotNow \in [0 .. (SnapshotLength - 1) -> EdgeSpec]
           /\ SnapshotNow \in Snapshots
           /\ DOMAIN GlyphToCode = Glyphs(CodeToSpec)
           /\ \A g \in DOMAIN GlyphToCode :
                  /\ GlyphToCode[g] \in Nat /\ GlyphToCode[g] + 1 \in DOMAIN CodeToSpec
                  /\ CodeToSpec[GlyphToCode[g] + 1].glyph = g
           /\ \A i \in DOMAIN CodeToSpec : GlyphToCode[CodeToSpec[i].glyph] = i - 1
           /\ DOMAIN GlyphToCode \subseteq DOMAIN Pieces
<1>1. CodeToSpec \in Seq(Registrable) /\ Len(CodeToSpec) \in 0 .. MaxTypes
  BY HandedOutIsTyped, RegistryAssumption
<1>2. /\ MaxTypes \in Nat \ {0}
      /\ Registrable \subseteq EdgeSpec
  <2>1. MaxTypes \in Nat \ {0}
    BY BuiltinsFacts, RegistryAssumption DEF RegistryAssumption
  <2>2. \A i \in 1 .. 6 : Builtins[i] \in EdgeSpec
    <3>1. \A i \in 1 .. 6 : i = 1 \/ i = 2 \/ i = 3 \/ i = 4 \/ i = 5 \/ i = 6
      OBVIOUS
    <3>2. \A i \in 1 .. 6 : Builtins[i] \in ToSet(Builtins)
      BY BuiltinsFacts, LenProperties DEF ToSet
    <3>3. \A i \in 1 .. 6 : Builtins[i].glyph \in STRING
      BY <3>2, FilesAssumption
    <3>4. /\ DirectedSpec.glyph \in STRING /\ UndirectedSpec.glyph \in STRING
          /\ BidirectedSpec.glyph \in STRING /\ PartialSpec.glyph \in STRING
          /\ PartiallyUndirectedSpec.glyph \in STRING /\ PartiallyDirectedSpec.glyph \in STRING
      BY <3>3 DEF Builtins
    <3>5. DirectedSpec \in EdgeSpec
      BY <3>4 DEF EdgeSpec, Mark, EdgeClass, DirectedSpec
    <3>6. UndirectedSpec \in EdgeSpec
      BY <3>4 DEF EdgeSpec, Mark, EdgeClass, UndirectedSpec
    <3>7. BidirectedSpec \in EdgeSpec
      BY <3>4 DEF EdgeSpec, Mark, EdgeClass, BidirectedSpec
    <3>8. PartialSpec \in EdgeSpec
      BY <3>4 DEF EdgeSpec, Mark, EdgeClass, PartialSpec
    <3>9. PartiallyUndirectedSpec \in EdgeSpec
      BY <3>4 DEF EdgeSpec, Mark, EdgeClass, PartiallyUndirectedSpec
    <3>10. PartiallyDirectedSpec \in EdgeSpec
      BY <3>4 DEF EdgeSpec, Mark, EdgeClass, PartiallyDirectedSpec
    <3> QED
      BY <3>1, <3>5, <3>6, <3>7, <3>8, <3>9, <3>10 DEF Builtins
  <2> QED
    BY <2>1, <2>2, RegistryAssumption DEF RegistryAssumption, Registrable
<1>3. /\ CodeToSpec \in Seq(EdgeSpec) /\ Len(CodeToSpec) \in Nat
      /\ DOMAIN CodeToSpec = 1 .. Len(CodeToSpec)
  BY <1>1, <1>2, WiderSeq, LenProperties
<1>4. /\ SnapshotLength \in Nat /\ SnapshotLength <= Len(CodeToSpec)
      /\ Len(CodeToSpec) < MaxTypes => SnapshotLength = Len(CodeToSpec)
  <2>1. CASE Len(CodeToSpec) < MaxTypes
    <3>1. SnapshotLength = Len(CodeToSpec)
      BY <1>1, <1>2, <2>1 DEF SnapshotLength
    <3> QED
      BY <1>1, <3>1
  <2>2. CASE Len(CodeToSpec) = MaxTypes
    <3>1. MaxTypes % MaxTypes = 0
      BY <1>2
    <3>2. SnapshotLength = 0
      BY <2>2, <3>1 DEF SnapshotLength
    <3> QED
      BY <1>1, <1>2, <2>2, <3>2
  <2> QED
    BY <1>1, <1>2, <2>1, <2>2
<1>5. SnapshotNow \in [0 .. (SnapshotLength - 1) -> EdgeSpec]
  <2>1. \A c \in 0 .. (SnapshotLength - 1) : CodeToSpec[c + 1] \in EdgeSpec
    <3> SUFFICES ASSUME NEW c \in 0 .. (SnapshotLength - 1) PROVE CodeToSpec[c + 1] \in EdgeSpec
      OBVIOUS
    <3>1. c + 1 \in 1 .. Len(CodeToSpec)
      BY <1>1, <1>4
    <3> QED
      BY <1>3, <3>1, ElementOfSeq
  <2> QED
    BY <2>1 DEF SnapshotNow
<1>6. SnapshotNow \in Snapshots
  BY <1>4, <1>5 DEF Snapshots
<1>7. /\ DOMAIN GlyphToCode = Glyphs(CodeToSpec)
      /\ \A i \in DOMAIN CodeToSpec : GlyphToCode[CodeToSpec[i].glyph] = i - 1
  BY DEF RInv, Agree
<1>8. ASSUME NEW g \in DOMAIN GlyphToCode
      PROVE  /\ GlyphToCode[g] \in Nat /\ GlyphToCode[g] + 1 \in DOMAIN CodeToSpec
             /\ CodeToSpec[GlyphToCode[g] + 1].glyph = g
  <2>1. PICK i \in DOMAIN CodeToSpec : g = CodeToSpec[i].glyph
    BY <1>7 DEF Glyphs
  <2>2. GlyphToCode[g] = i - 1 /\ i \in 1 .. Len(CodeToSpec)
    BY <1>3, <1>7, <2>1
  <2> QED
    BY <1>3, <2>1, <2>2
<1>9. DOMAIN GlyphToCode \subseteq DOMAIN Pieces
  <2>1. \A spec \in Registrable : spec.glyph \in DOMAIN Pieces
    <3>1. ToSet(Builtins) = {Builtins[i] : i \in 1 .. 6}
      <4>1. DOMAIN Builtins = 1 .. 6
        BY BuiltinsFacts, LenProperties
      <4> QED
        BY <4>1 DEF ToSet
    <3> QED
      BY <3>1, FilesAssumption DEF Registrable
  <2>2. \A i \in DOMAIN CodeToSpec : CodeToSpec[i] \in Registrable
    BY <1>1, <1>3, ElementOfSeq
  <2> QED
    BY <1>7, <2>1, <2>2 DEF Glyphs
<1> QED
  BY <1>3, <1>4, <1>5, <1>6, <1>7, <1>8, <1>9

LEMMA ConstructedIsWellBuilt ==
    ASSUME RInv, TypesFit,
           NEW simple \in BOOLEAN, NEW class \in GraphClass,
           NEW T, NEW G, NEW declared \in Seq(T), NEW rowTable \in Seq(RowOver(T, G)),
           NEW o \in Constructed(simple, class, declared, rowTable, GlyphToCode, SnapshotNow)
    PROVE  WellBuilt(o) /\ o.snapshot = SnapshotNow
<1> DEFINE names == NodeOrder(rowTable, declared)
           all == IF ToSet(EndsOf(rowTable)) \subseteq ToSet(declared)
                  THEN declared ELSE EndsOf(rowTable) \o declared
           buffer == BufferOf(names, GlyphToCode, rowTable)
           built == [names |-> names, simple |-> simple, class |-> class,
                     snapshot |-> SnapshotNow, edges |-> buffer]
<1>1. o \in Returned(built) /\ Known(GlyphToCode, ToSet(rowTable))
  BY DEF Constructed
<1>2. /\ EndsOf(rowTable) \in Seq(T)
      /\ ToSet(EndsOf(rowTable)) = {r[1] : r \in ToSet(rowTable)} \cup {r[3] : r \in ToSet(rowTable)}
  BY EndsFacts
<1>3. all \in Seq(T) /\ ToSet(EndsOf(rowTable)) \subseteq ToSet(all)
  BY <1>2, ConcatSet
<1>4. names = Unique(all)
  BY DEF NodeOrder
<1> HIDE DEF names, all
<1>5. names \in Seq(T) /\ IsInjective(names) /\ ToSet(names) = ToSet(all)
  BY <1>3, <1>4, UniqueFacts
<1>6. \A r \in ToSet(rowTable) : r[1] \in ToSet(names) /\ r[3] \in ToSet(names)
  BY <1>2, <1>3, <1>5
<1>7. SnapshotNow \in Snapshots /\ \A g \in DOMAIN GlyphToCode : GlyphToCode[g] \in Nat
  BY RegistryFacts
<1>8. buffer \in EdgeBags /\ IsFiniteSet(DOMAIN buffer)
  BY <1>1, <1>5, <1>6, <1>7, BufferIsTyped
<1> HIDE DEF buffer
<1>9. IsSeq(names)
  BY <1>5 DEF IsSeq
<1>10. names \in Seq(ToSet(names))
  BY <1>9, OwnElements
<1>11. /\ built \in ObjectOver(ToSet(names)) /\ built.names = names
       /\ built.edges = buffer /\ built.snapshot = SnapshotNow
  BY <1>7, <1>8, <1>10 DEF ObjectOver
<1> HIDE DEF built
<1>12. /\ o \in ObjectOver(ToSet(names)) /\ o.names = names /\ o.snapshot = SnapshotNow
       /\ o.edges = buffer /\ ValidEdges(Len(o.names), o.simple, o.snapshot, o.edges)
       /\ o.class # "AUTO" /\ \A g \in CoreOf(o) : InClass(g, o.class)
  BY <1>1, <1>11, ReturnedFacts
<1>13. \A c \in DOMAIN o.snapshot : WellFormed(o.snapshot[c])
  <2> SUFFICES ASSUME NEW c \in DOMAIN SnapshotNow PROVE WellFormed(SnapshotNow[c])
    BY <1>12
  <2>1. c \in 0 .. (SnapshotLength - 1) /\ SnapshotNow[c] = CodeToSpec[c + 1]
    BY DEF SnapshotNow
  <2>2. c + 1 \in DOMAIN CodeToSpec
    BY <2>1, RegistryFacts
  <2> QED
    BY <2>1, <2>2 DEF TypesFit
<1> QED
  BY <1>5, <1>8, <1>12, <1>13 DEF WellBuilt

--------------------------------------------------------------------------------
(* What is written *)

(* The row of an edge: a symmetric one from its earlier node, another from *)
(* its tail.                                                               *)
Turned(o, e) == o.snapshot[e[3]].symmetric /\ e[2] < e[1]

RowOf(o, e) ==
    IF Turned(o, e)
    THEN <<o.names[e[2] + 1], o.snapshot[e[3]].glyph, o.names[e[1] + 1]>>
    ELSE <<o.names[e[1] + 1], o.snapshot[e[3]].glyph, o.names[e[2] + 1]>>

RowsWritten(o) == {RowOf(o, e) : e \in DOMAIN o.edges}

LEMMA EdgeFacts ==
    ASSUME NEW o, WellBuilt(o), NEW e \in DOMAIN o.edges
    PROVE  /\ e[1] \in Nat /\ e[2] \in Nat /\ e = <<e[1], e[2], e[3]>>
           /\ Len(o.names) \in Nat /\ DOMAIN o.names = 1 .. Len(o.names)
           /\ e[1] < Len(o.names) /\ e[2] < Len(o.names)
           /\ e[1] + 1 \in DOMAIN o.names /\ e[2] + 1 \in DOMAIN o.names
           /\ e[3] \in DOMAIN o.snapshot /\ o.snapshot[e[3]] \in EdgeSpec
           /\ o.edges[e] = 1 /\ (o.simple => e[1] # e[2])
<1>1. /\ o.names \in Seq(ToSet(o.names)) /\ o.edges \in EdgeBags /\ o.snapshot \in Snapshots
  BY DEF WellBuilt, ObjectOver
<1>2. Len(o.names) \in Nat /\ DOMAIN o.names = 1 .. Len(o.names)
  BY <1>1, LenProperties
<1>3. e \in Edge
  BY <1>1 DEF EdgeBags
<1>4. e[1] \in Nat /\ e[2] \in Nat /\ e = <<e[1], e[2], e[3]>>
  BY <1>3 DEF Edge
<1>5. ValidEdge(Len(o.names), o.simple, o.snapshot, e) /\ o.edges[e] = 1
  BY DEF WellBuilt, ValidEdges
<1>6. e[1] < Len(o.names) /\ e[2] < Len(o.names) /\ e[3] \in DOMAIN o.snapshot /\ (o.simple => e[1] # e[2])
  BY <1>5 DEF ValidEdge
<1>7. PICK k \in Nat : o.snapshot \in [0 .. (k - 1) -> EdgeSpec]
  BY <1>1 DEF Snapshots
<1>8. o.snapshot[e[3]] \in EdgeSpec
  BY <1>6, <1>7
<1> QED
  BY <1>2, <1>4, <1>5, <1>6, <1>8

(* Between two nodes of a simple graph there is one edge. *)
LEMMA OneEdgePerPair ==
    ASSUME NEW o, WellBuilt(o), o.simple, NEW e \in DOMAIN o.edges, NEW f \in DOMAIN o.edges,
           SamePair(e, f)
    PROVE  e = f
BY DEF WellBuilt, ValidEdges, SameKey

(* With the registry the graph was built from, or one that extends it, the *)
(* glyphs written are those the graph was built with.                      *)
LEMMA WrittenBySnapshot ==
    ASSUME NEW o, WellBuilt(o), o.simple,
           \A c \in DOMAIN o.snapshot : c + 1 \in DOMAIN CodeToSpec /\ CodeToSpec[c + 1] = o.snapshot[c],
           NEW rows \in WrittenRows(o)
    PROVE  rows = RowsWritten(o)
<1> DEFINE rowAlong(h) == <<o.names[h[1] + 1], CodeToSpec[h[3] + 1].glyph, o.names[h[2] + 1]>>
           tailHalf(e) == <<e[1], e[2], e[3], 0>>
           headHalf(e) == <<e[2], e[1], e[3], 1>>
<1>1. rows = {rowAlong(h) : h \in {k \in HalvesOf(o) : Written(k)}}
  BY DEF WrittenRows
<1>2. HalvesOf(o) = {tailHalf(e) : e \in DOMAIN o.edges} \cup {headHalf(e) : e \in DOMAIN o.edges}
  BY DEF HalvesOf, Halves
<1>3. ASSUME NEW e \in DOMAIN o.edges
      PROVE  /\ Written(tailHalf(e)) <=> ~ Turned(o, e)
             /\ Written(headHalf(e)) <=> Turned(o, e)
             /\ Written(tailHalf(e)) => rowAlong(tailHalf(e)) = RowOf(o, e)
             /\ Written(headHalf(e)) => rowAlong(headHalf(e)) = RowOf(o, e)
  <2>1. CodeToSpec[e[3] + 1] = o.snapshot[e[3]]
    BY EdgeFacts
  <2>2. e[1] \in Nat /\ e[2] \in Nat /\ e[1] # e[2]
    BY EdgeFacts
  <2>3. Written(tailHalf(e)) <=> ~ Turned(o, e)
    BY <2>1, <2>2 DEF Written, Turned
  <2>4. Written(headHalf(e)) <=> Turned(o, e)
    BY <2>1, <2>2 DEF Written, Turned
  <2>5. ~ Turned(o, e) => rowAlong(tailHalf(e)) = RowOf(o, e)
    BY <2>1 DEF RowOf
  <2>6. Turned(o, e) => rowAlong(headHalf(e)) = RowOf(o, e)
    BY <2>1 DEF RowOf
  <2> QED
    BY <2>3, <2>4, <2>5, <2>6
<1> HIDE DEF rowAlong, tailHalf, headHalf
<1>4. ASSUME NEW r \in rows PROVE r \in RowsWritten(o)
  <2>1. PICK h \in HalvesOf(o) : Written(h) /\ r = rowAlong(h)
    BY <1>1
  <2>2. PICK e \in DOMAIN o.edges : h = tailHalf(e) \/ h = headHalf(e)
    BY <1>2
  <2> QED
    BY <1>3, <2>1, <2>2 DEF RowsWritten
<1>5. ASSUME NEW r \in RowsWritten(o) PROVE r \in rows
  <2>1. PICK e \in DOMAIN o.edges : r = RowOf(o, e)
    BY DEF RowsWritten
  <2> QED
    BY <1>1, <1>2, <1>3, <2>1
<1> QED
  BY <1>4, <1>5

(* The rows written have known ends and as many glyphs as the snapshot.    *)
LEMMA RowsWrittenFacts ==
    ASSUME NEW o, WellBuilt(o)
    PROVE  /\ IsFiniteSet(RowsWritten(o))
           /\ \A r \in RowsWritten(o) :
                  /\ r[1] \in ToSet(o.names) /\ r[3] \in ToSet(o.names)
                  /\ r = <<r[1], r[2], r[3]>>
                  /\ \E e \in DOMAIN o.edges : r[2] = o.snapshot[e[3]].glyph
<1> DEFINE row == [e \in DOMAIN o.edges |-> RowOf(o, e)]
<1>1. RowsWritten(o) = {row[e] : e \in DOMAIN o.edges}
  BY DEF RowsWritten
<1>2. IsFiniteSet(DOMAIN o.edges) /\ DOMAIN row = DOMAIN o.edges /\ row = [e \in DOMAIN o.edges |-> row[e]]
  BY DEF WellBuilt
<1> HIDE DEF row
<1>3. IsFiniteSet(RowsWritten(o))
  BY <1>1, <1>2, FiniteImage
<1>4. ASSUME NEW r \in RowsWritten(o)
      PROVE  /\ r[1] \in ToSet(o.names) /\ r[3] \in ToSet(o.names)
             /\ r = <<r[1], r[2], r[3]>>
             /\ \E e \in DOMAIN o.edges : r[2] = o.snapshot[e[3]].glyph
  <2>1. PICK e \in DOMAIN o.edges : r = RowOf(o, e)
    BY DEF RowsWritten
  <2>2. o.names[e[1] + 1] \in ToSet(o.names) /\ o.names[e[2] + 1] \in ToSet(o.names)
    BY EdgeFacts DEF ToSet
  <2> QED
    BY <2>1, <2>2 DEF RowOf
<1> QED
  BY <1>3, <1>4

--------------------------------------------------------------------------------
(* Building a graph again from the rows written *)

NewCode(o, e) == GlyphToCode[o.snapshot[e[3]].glyph]

NewEdge(o, e) ==
    IF Turned(o, e) THEN <<e[2], e[1], NewCode(o, e)>> ELSE <<e[1], e[2], NewCode(o, e)>>

(* The types of the graph are still registered, and there is room.         *)
StillKnown(o) ==
    /\ \A e \in DOMAIN o.edges : o.snapshot[e[3]] \in ToSet(CodeToSpec)
    /\ Len(CodeToSpec) < MaxTypes

LEMMA NewCodeFacts ==
    ASSUME RInv, NEW o, WellBuilt(o), StillKnown(o), NEW e \in DOMAIN o.edges
    PROVE  /\ NewCode(o, e) \in DOMAIN SnapshotNow /\ NewCode(o, e) \in Nat
           /\ SnapshotNow[NewCode(o, e)] = o.snapshot[e[3]]
           /\ o.snapshot[e[3]].glyph \in DOMAIN GlyphToCode
           /\ Coded(o.names, GlyphToCode, RowOf(o, e)) = NewEdge(o, e)
<1>1. PICK i \in DOMAIN CodeToSpec : o.snapshot[e[3]] = CodeToSpec[i]
  BY DEF StillKnown, ToSet
<1>2. /\ DOMAIN CodeToSpec = 1 .. Len(CodeToSpec) /\ Len(CodeToSpec) \in Nat
      /\ GlyphToCode[CodeToSpec[i].glyph] = i - 1 /\ SnapshotLength = Len(CodeToSpec)
      /\ CodeToSpec[i].glyph \in DOMAIN GlyphToCode
  BY RegistryFacts DEF StillKnown, Glyphs
<1>3. i - 1 \in 0 .. (SnapshotLength - 1) /\ i - 1 \in Nat /\ (i - 1) + 1 = i
  BY <1>2
<1>4. SnapshotNow[i - 1] = CodeToSpec[i] /\ i - 1 \in DOMAIN SnapshotNow
  BY <1>3 DEF SnapshotNow
<1>5. NewCode(o, e) = i - 1
  BY <1>1, <1>2 DEF NewCode
<1>6. Coded(o.names, GlyphToCode, RowOf(o, e)) = NewEdge(o, e)
  <2>1. /\ e[1] \in Nat /\ e[2] \in Nat /\ e[1] + 1 \in 1 .. Len(o.names) /\ e[2] + 1 \in 1 .. Len(o.names)
    BY EdgeFacts
  <2>2. o.names \in Seq(ToSet(o.names)) /\ IsInjective(o.names)
    BY DEF WellBuilt, ObjectOver
  <2>3. IdOf(o.names, o.names[e[1] + 1]) = e[1] /\ IdOf(o.names, o.names[e[2] + 1]) = e[2]
    <3>1. /\ IdOf(o.names, o.names[e[1] + 1]) = (e[1] + 1) - 1
          /\ IdOf(o.names, o.names[e[2] + 1]) = (e[2] + 1) - 1
      BY <2>1, <2>2, IdFacts
    <3> QED
      BY <2>1, <3>1
  <2>4. CASE Turned(o, e)
    BY <2>3, <2>4 DEF Coded, RowOf, NewEdge, NewCode
  <2>5. CASE ~ Turned(o, e)
    BY <2>3, <2>5 DEF Coded, RowOf, NewEdge, NewCode
  <2> QED
    BY <2>4, <2>5
<1> QED
  BY <1>1, <1>2, <1>3, <1>4, <1>5, <1>6

(* Names that are distinct and cover the rows stay as they are. *)
LEMMA NamesStay ==
    ASSUME NEW names, IsSeq(names), IsInjective(names), NEW rowTable,
           ToSet(EndsOf(rowTable)) \subseteq ToSet(names)
    PROVE  NodeOrder(rowTable, names) = names
<1> DEFINE T == ToSet(names)
           u == Unique(names)
<1>1. names \in Seq(T) /\ Len(names) \in Nat /\ DOMAIN names = 1 .. Len(names)
  BY OwnElements
<1>2. NodeOrder(rowTable, names) = u
  BY DEF NodeOrder
<1>3. u \in Seq(T) /\ IsInjective(u) /\ ToSet(u) = T
  BY <1>1, UniqueFacts
<1>4. <<>> \in Seq(T) /\ names \o <<>> = names
  BY <1>1, ConcatEmptySeq
<1>5. Len(names) <= Len(Unique(names \o <<>>))
      /\ \A k \in 1 .. Len(names) : Unique(names \o <<>>)[k] = names[k]
  BY <1>1, <1>4, UniqueExtends
<1>6. Len(names) <= Len(u) /\ \A k \in 1 .. Len(names) : u[k] = names[k]
  BY <1>4, <1>5
<1> DEFINE m == Len(u)
           n == Len(names)
<1>7. m \in Nat /\ n \in Nat /\ n <= m /\ DOMAIN u = 1 .. m /\ DOMAIN names = 1 .. n
  BY <1>1, <1>3, <1>6, LenProperties
<1>8. \A k \in 1 .. n : u[k] = names[k]
  BY <1>6
<1> HIDE DEF u, m, n
<1>9. m = n
  <2> SUFFICES ASSUME m # n PROVE FALSE
    OBVIOUS
  <2>1. m \in 1 .. m /\ \A k \in 1 .. n : k \in 1 .. m /\ k # m
    BY <1>7
  <2>2. u[m] \in ToSet(u)
    BY <1>7, <2>1 DEF ToSet
  <2>3. PICK k \in 1 .. n : names[k] = u[m]
    BY <1>3, <1>7, <2>2 DEF ToSet
  <2>4. u[k] = u[m]
    BY <1>8, <2>3
  <2> QED
    BY <1>3, <1>7, <2>1, <2>4 DEF IsInjective
<1> QED
  BY <1>1, <1>2, <1>3, <1>6, <1>9, SeqEqual DEF m, n

(* The buffer of the rows written holds the edges, once each. *)
LEMMA NewBuffer ==
    ASSUME RInv, NEW o, WellBuilt(o), StillKnown(o), o.simple
    PROVE  LET written == SetToSeq(RowsWritten(o))
               buffer == BufferOf(o.names, GlyphToCode, written)
           IN  /\ Known(GlyphToCode, ToSet(written))
               /\ buffer \in EdgeBags /\ IsFiniteSet(DOMAIN buffer)
               /\ DOMAIN buffer = {NewEdge(o, e) : e \in DOMAIN o.edges}
               /\ \A e \in DOMAIN o.edges : buffer[NewEdge(o, e)] = 1
               /\ NodeOrder(written, o.names) = o.names
<1> DEFINE written == SetToSeq(RowsWritten(o))
           buffer == BufferOf(o.names, GlyphToCode, written)
<1>1. IsFiniteSet(RowsWritten(o))
  BY RowsWrittenFacts
<1>2. /\ written \in Seq(RowsWritten(o)) /\ IsInjective(written)
      /\ ToSet(written) = RowsWritten(o)
  BY <1>1, SetToSeqFacts
<1>3. /\ o.names \in Seq(ToSet(o.names)) /\ IsInjective(o.names)
  BY DEF WellBuilt, ObjectOver
<1>4. Known(GlyphToCode, RowsWritten(o))
  <2> SUFFICES ASSUME NEW r \in RowsWritten(o) PROVE r[2] \in DOMAIN GlyphToCode
    BY DEF Known
  <2>1. PICK e \in DOMAIN o.edges : r[2] = o.snapshot[e[3]].glyph
    BY RowsWrittenFacts
  <2> QED
    BY <2>1, NewCodeFacts
<1>5. \A r \in RowsWritten(o) : r[1] \in ToSet(o.names) /\ r[3] \in ToSet(o.names)
  BY RowsWrittenFacts
<1>6. \A g \in DOMAIN GlyphToCode : GlyphToCode[g] \in Nat
  BY RegistryFacts
<1> HIDE DEF written
<1>7. /\ buffer \in EdgeBags /\ IsFiniteSet(DOMAIN buffer)
      /\ DOMAIN buffer = {Coded(o.names, GlyphToCode, r) : r \in ToSet(written)}
  <2>1. /\ Known(GlyphToCode, ToSet(written))
        /\ \A r \in ToSet(written) : r[1] \in ToSet(o.names) /\ r[3] \in ToSet(o.names)
    BY <1>2, <1>4, <1>5
  <2> QED
    BY <1>2, <1>3, <1>6, <2>1, BufferIsTyped
<1>8. DOMAIN buffer = {NewEdge(o, e) : e \in DOMAIN o.edges}
  <2>1. {Coded(o.names, GlyphToCode, r) : r \in RowsWritten(o)}
            = {Coded(o.names, GlyphToCode, RowOf(o, e)) : e \in DOMAIN o.edges}
    BY DEF RowsWritten
  <2>2. \A e \in DOMAIN o.edges : Coded(o.names, GlyphToCode, RowOf(o, e)) = NewEdge(o, e)
    BY NewCodeFacts
  <2> QED
    BY <1>2, <1>7, <2>1, <2>2
<1>9. ASSUME NEW e \in DOMAIN o.edges PROVE buffer[NewEdge(o, e)] = 1
  <2> DEFINE at == {i \in DOMAIN written : Coded(o.names, GlyphToCode, written[i]) = NewEdge(o, e)}
  <2>1. buffer[NewEdge(o, e)] = Cardinality(at)
    <3>1. NewEdge(o, e) \in DOMAIN buffer
      BY <1>8
    <3> QED
      BY <3>1 DEF BufferOf
  <2>2. RowOf(o, e) \in ToSet(written)
    BY <1>2 DEF RowsWritten
  <2>3. PICK k \in DOMAIN written : written[k] = RowOf(o, e)
    BY <2>2 DEF ToSet
  <2>4. k \in at
    BY <2>3, NewCodeFacts
  <2>5. ASSUME NEW i \in at PROVE i = k
    <3>1. written[i] \in RowsWritten(o)
      BY <1>2 DEF ToSet
    <3>2. PICK f \in DOMAIN o.edges : written[i] = RowOf(o, f)
      BY <3>1 DEF RowsWritten
    <3>3. NewEdge(o, f) = NewEdge(o, e)
      BY <3>2, NewCodeFacts
    <3>4. SamePair(e, f)
      BY <3>3 DEF NewEdge, SamePair
    <3>5. e = f
      BY <3>4, OneEdgePerPair
    <3> QED
      BY <1>2, <2>3, <3>2, <3>5 DEF IsInjective
  <2>6. at = {k}
    BY <2>4, <2>5
  <2> QED
    BY <2>1, <2>6, FS_Singleton
<1>10. NodeOrder(written, o.names) = o.names
  <2>1. \A r \in RowsWritten(o) : r \in RowOver(ToSet(o.names), DOMAIN GlyphToCode)
    BY <1>4, RowsWrittenFacts DEF RowOver, Known
  <2>2. written \in Seq(RowOver(ToSet(o.names), DOMAIN GlyphToCode))
    <3>1. RowsWritten(o) \subseteq RowOver(ToSet(o.names), DOMAIN GlyphToCode)
      BY <2>1
    <3> QED
      BY <1>2, <3>1, WiderSeq
  <2>3. ToSet(EndsOf(written)) = {r[1] : r \in ToSet(written)} \cup {r[3] : r \in ToSet(written)}
    BY <2>2, EndsFacts
  <2>4. ToSet(EndsOf(written)) \subseteq ToSet(o.names)
    BY <1>2, <1>5, <2>3
  <2> QED
    BY <1>3, <2>4, NamesStay DEF IsSeq
<1> HIDE DEF buffer
<1>11. Known(GlyphToCode, ToSet(written))
  BY <1>2, <1>4
<1> QED
  BY <1>7, <1>8, <1>9, <1>10, <1>11 DEF buffer, written

LEMMA NewEdgeFacts ==
    ASSUME RInv, NEW o, WellBuilt(o), StillKnown(o), NEW e \in DOMAIN o.edges
    PROVE  /\ SamePair(NewEdge(o, e), e)
           /\ NewEdge(o, e)[3] = NewCode(o, e)
           /\ SnapshotNow[NewEdge(o, e)[3]] = o.snapshot[e[3]]
           /\ \/ NewEdge(o, e)[1] = e[1] /\ NewEdge(o, e)[2] = e[2]
              \/ /\ NewEdge(o, e)[1] = e[2] /\ NewEdge(o, e)[2] = e[1]
                 /\ o.snapshot[e[3]].symmetric
<1>1. CASE Turned(o, e)
  BY <1>1, NewCodeFacts DEF NewEdge, SamePair, Turned
<1>2. CASE ~ Turned(o, e)
  BY <1>2, NewCodeFacts DEF NewEdge, SamePair
<1> QED
  BY <1>1, <1>2

(* edges is what the edges of o become. *)
Renewed(o, edges) ==
    /\ DOMAIN edges = {NewEdge(o, e) : e \in DOMAIN o.edges}
    /\ \A e \in DOMAIN o.edges : edges[NewEdge(o, e)] = 1

LEMMA RenewedIsValid ==
    ASSUME RInv, NEW o, WellBuilt(o), StillKnown(o), o.simple, NEW edges, Renewed(o, edges)
    PROVE  ValidEdges(Len(o.names), TRUE, SnapshotNow, edges)
<1>1. ASSUME NEW e \in DOMAIN o.edges
      PROVE  ValidEdge(Len(o.names), TRUE, SnapshotNow, NewEdge(o, e))
  <2>1. e[1] < Len(o.names) /\ e[2] < Len(o.names) /\ e[1] # e[2]
    BY EdgeFacts
  <2>2. NewEdge(o, e)[3] \in DOMAIN SnapshotNow
    BY NewEdgeFacts, NewCodeFacts
  <2> QED
    BY <2>1, <2>2, NewEdgeFacts DEF ValidEdge
<1>2. ASSUME NEW e \in DOMAIN o.edges, NEW f \in DOMAIN o.edges,
             SameKey(TRUE, SnapshotNow, NewEdge(o, e), NewEdge(o, f))
      PROVE  NewEdge(o, e) = NewEdge(o, f)
  <2>1. CASE NewEdge(o, e) = NewEdge(o, f)
    BY <2>1
  <2>2. CASE SamePair(NewEdge(o, e), NewEdge(o, f))
    <3>1. SamePair(NewEdge(o, e), e) /\ SamePair(NewEdge(o, f), f)
      BY NewEdgeFacts
    <3>2. SamePair(e, f)
      BY <2>2, <3>1 DEF SamePair
    <3> QED
      BY <3>2, OneEdgePerPair
  <2> QED
    BY <1>2, <2>1, <2>2 DEF SameKey
<1>3. \A d \in DOMAIN edges : \E e \in DOMAIN o.edges : d = NewEdge(o, e) /\ edges[d] = 1
  BY DEF Renewed
<1>4. \A d \in DOMAIN edges : ValidEdge(Len(o.names), TRUE, SnapshotNow, d) /\ edges[d] = 1
  BY <1>1, <1>3
<1>5. \A c, d \in DOMAIN edges : c # d => ~ SameKey(TRUE, SnapshotNow, c, d)
  BY <1>2, <1>3
<1> QED
  BY <1>4, <1>5 DEF ValidEdges

(* Two cores of one shape show the same to every typed view. *)
SameShape(g, h) ==
    /\ g.n = h.n
    /\ Arcs(g) = Arcs(h) /\ Lines(g) = Lines(h) /\ Spouses(g) = Spouses(h)
    /\ \A classes : OnlyClasses(g, classes) <=> OnlyClasses(h, classes)

LEMMA ShapeDecidesClass ==
    ASSUME NEW g, NEW h, SameShape(g, h), NEW class, InClass(g, class)
    PROVE  InClass(h, class)
<1>1. Nodes(g) = Nodes(h)
  BY DEF SameShape, Nodes
<1>2. IsDag(g) => IsDag(h)
  BY <1>1 DEF SameShape, IsDag
<1>3. IsUg(g) => IsUg(h)
  BY DEF SameShape, IsUg
<1>4. IsPdag(g) => IsPdag(h)
  BY <1>1 DEF SameShape, IsPdag
<1>5. IsAdmg(g) => IsAdmg(h)
  BY <1>1 DEF SameShape, IsAdmg
<1>6. IsMpdag(g) => IsMpdag(h)
  BY <1>1, <1>4 DEF SameShape, IsMpdag
<1>7. IsCpdag(g) => IsCpdag(h)
  BY <1>1, <1>4 DEF SameShape, IsCpdag
<1>8. IsAg(g) => IsAg(h)
  BY <1>1 DEF SameShape, IsAg
<1> QED
  BY <1>2, <1>3, <1>4, <1>5, <1>6, <1>7, <1>8 DEF InClass

LEMMA RenewedHasTheShape ==
    ASSUME RInv, NEW o, WellBuilt(o), StillKnown(o), NEW edges, Renewed(o, edges)
    PROVE  SameShape(Compile(Len(o.names), TRUE, o.snapshot, o.edges),
                     Compile(Len(o.names), TRUE, SnapshotNow, edges))
<1> DEFINE g == Compile(Len(o.names), TRUE, o.snapshot, o.edges)
           h == Compile(Len(o.names), TRUE, SnapshotNow, edges)
<1>1. /\ g.n = h.n /\ Nodes(g) = Nodes(h)
      /\ EdgeSet(g) = DOMAIN o.edges /\ EdgeSet(h) = {NewEdge(o, e) : e \in DOMAIN o.edges}
  BY DEF Compile, Nodes, EdgeSet, Renewed
<1>2. ASSUME NEW e \in DOMAIN o.edges
      PROVE  /\ SpecOf(g, e) = o.snapshot[e[3]] /\ SpecOf(h, NewEdge(o, e)) = o.snapshot[e[3]]
             /\ {NewEdge(o, e)[1], NewEdge(o, e)[2]} = {e[1], e[2]}
             /\ SpecOf(g, e).class = "directed" => NewEdge(o, e)[1] = e[1] /\ NewEdge(o, e)[2] = e[2]
  <2>1. SpecOf(g, e) = o.snapshot[e[3]] /\ SpecOf(h, NewEdge(o, e)) = o.snapshot[e[3]]
    BY NewEdgeFacts DEF Compile, SpecOf
  <2>2. {NewEdge(o, e)[1], NewEdge(o, e)[2]} = {e[1], e[2]}
    BY NewEdgeFacts DEF SamePair
  <2>3. WellFormed(o.snapshot[e[3]])
    BY EdgeFacts DEF WellBuilt
  <2>4. o.snapshot[e[3]].class = "directed" => ~ o.snapshot[e[3]].symmetric
    BY <2>3 DEF WellFormed
  <2> QED
    BY <2>1, <2>2, <2>4, NewEdgeFacts
<1> HIDE DEF g, h
<1>3. Arcs(g) = Arcs(h)
  <2> DEFINE arc(k, e, a) ==
        /\ SpecOf(k, e).class = "directed"
        /\ \/ SpecOf(k, e).head = "arrow" /\ a = <<e[1], e[2]>>
           \/ SpecOf(k, e).tail = "arrow" /\ a = <<e[2], e[1]>>
  <2>1. \A e \in DOMAIN o.edges : \A a : arc(g, e, a) <=> arc(h, NewEdge(o, e), a)
    BY <1>2
  <2>2. /\ Arcs(g) = {a \in Nodes(g) \X Nodes(g) : \E e \in EdgeSet(g) : arc(g, e, a)}
        /\ Arcs(h) = {a \in Nodes(h) \X Nodes(h) : \E e \in EdgeSet(h) : arc(h, e, a)}
    BY DEF Arcs
  <2> HIDE DEF arc
  <2>3. \A a : (\E e \in EdgeSet(g) : arc(g, e, a)) <=> (\E e \in EdgeSet(h) : arc(h, e, a))
    BY <1>1, <2>1
  <2> QED
    BY <1>1, <2>2, <2>3
<1>4. ASSUME NEW class PROVE Pairs(g, class) = Pairs(h, class)
  <2> DEFINE joins(k, e, a) == SpecOf(k, e).class = class /\ {a[1], a[2]} = {e[1], e[2]}
  <2>1. \A e \in DOMAIN o.edges : \A a : joins(g, e, a) <=> joins(h, NewEdge(o, e), a)
    BY <1>2
  <2>2. /\ Pairs(g, class) = {a \in Nodes(g) \X Nodes(g) : \E e \in EdgeSet(g) : joins(g, e, a)}
        /\ Pairs(h, class) = {a \in Nodes(h) \X Nodes(h) : \E e \in EdgeSet(h) : joins(h, e, a)}
    BY DEF Pairs
  <2> HIDE DEF joins
  <2>3. \A a : (\E e \in EdgeSet(g) : joins(g, e, a)) <=> (\E e \in EdgeSet(h) : joins(h, e, a))
    BY <1>1, <2>1
  <2> QED
    BY <1>1, <2>2, <2>3
<1>5. ASSUME NEW classes PROVE OnlyClasses(g, classes) <=> OnlyClasses(h, classes)
  BY <1>1, <1>2 DEF OnlyClasses
<1> QED
  BY <1>1, <1>3, <1>4, <1>5 DEF SameShape, Lines, Spouses, g, h

(* The types of the edges, by the names of their ends, stay the same.      *)
LEMMA RenewedHasTheEdges ==
    ASSUME RInv, NEW o, WellBuilt(o), StillKnown(o), NEW back, Renewed(o, back.edges),
           back.names = o.names, back.snapshot = SnapshotNow
    PROVE  TypedEdges(back) = TypedEdges(o)
<1> DEFINE from(x, e) == <<x.names[e[1] + 1], x.snapshot[e[3]], x.names[e[2] + 1]>>
           to(x, e) == <<x.names[e[2] + 1], x.snapshot[e[3]], x.names[e[1] + 1]>>
           typed(x, t) == \E e \in DOMAIN x.edges :
                              t = from(x, e) \/ (x.snapshot[e[3]].symmetric /\ t = to(x, e))
<1>1. \A x : TypedEdges(x) = {from(x, e) : e \in DOMAIN x.edges}
                 \cup {to(x, e) : e \in {d \in DOMAIN x.edges : x.snapshot[d[3]].symmetric}}
  BY DEF TypedEdges
<1>2. ASSUME NEW e \in DOMAIN o.edges
      PROVE  /\ back.snapshot[NewEdge(o, e)[3]] = o.snapshot[e[3]]
             /\ \/ from(back, NewEdge(o, e)) = from(o, e) /\ to(back, NewEdge(o, e)) = to(o, e)
                \/ /\ from(back, NewEdge(o, e)) = to(o, e) /\ to(back, NewEdge(o, e)) = from(o, e)
                   /\ o.snapshot[e[3]].symmetric
  BY NewEdgeFacts
<1> HIDE DEF from, to
<1>3. ASSUME NEW t \in TypedEdges(o) PROVE t \in TypedEdges(back)
  <2>1. PICK e \in DOMAIN o.edges : t = from(o, e) \/ (o.snapshot[e[3]].symmetric /\ t = to(o, e))
    BY <1>1
  <2>2. NewEdge(o, e) \in DOMAIN back.edges
    BY DEF Renewed
  <2>3. \/ t = from(back, NewEdge(o, e))
        \/ back.snapshot[NewEdge(o, e)[3]].symmetric /\ t = to(back, NewEdge(o, e))
    BY <1>2, <2>1
  <2> QED
    BY <1>1, <2>2, <2>3
<1>4. ASSUME NEW t \in TypedEdges(back) PROVE t \in TypedEdges(o)
  <2>1. PICK d \in DOMAIN back.edges :
            t = from(back, d) \/ (back.snapshot[d[3]].symmetric /\ t = to(back, d))
    BY <1>1
  <2>2. PICK e \in DOMAIN o.edges : d = NewEdge(o, e)
    BY DEF Renewed
  <2>3. t = from(o, e) \/ (o.snapshot[e[3]].symmetric /\ t = to(o, e))
    BY <1>2, <2>1, <2>2
  <2> QED
    BY <1>1, <2>3
<1> QED
  BY <1>3, <1>4

(* What read_caugi() and read_graphml() make of the data of a file.        *)
LEMMA BuiltAgain ==
    ASSUME RInv, NEW o, WellBuilt(o), StillKnown(o), o.simple
    PROVE  LET backs == Constructed(TRUE, o.class, o.names, SetToSeq(RowsWritten(o)),
                                    GlyphToCode, SnapshotNow)
           IN  /\ backs # {}
               /\ \A back \in backs : /\ back.names = o.names
                                      /\ back.class = o.class
                                      /\ TypedEdges(back) = TypedEdges(o)
<1> DEFINE written == SetToSeq(RowsWritten(o))
           buffer == BufferOf(o.names, GlyphToCode, written)
           again == [names |-> o.names, simple |-> TRUE, class |-> o.class,
                     snapshot |-> SnapshotNow, edges |-> buffer]
           g == Compile(Len(o.names), TRUE, o.snapshot, o.edges)
           h == Compile(Len(o.names), TRUE, SnapshotNow, buffer)
<1>1. /\ Known(GlyphToCode, ToSet(written)) /\ NodeOrder(written, o.names) = o.names
      /\ buffer \in EdgeBags /\ Renewed(o, buffer)
  BY NewBuffer DEF Renewed
<1>2. Constructed(TRUE, o.class, o.names, written, GlyphToCode, SnapshotNow) = Returned(again)
  BY <1>1 DEF Constructed
<1> HIDE DEF buffer, written
<1>3. /\ again.names = o.names /\ again.simple = TRUE /\ again.class = o.class
      /\ again.snapshot = SnapshotNow /\ again.edges = buffer
  OBVIOUS
<1>4. o.class # "AUTO" /\ o.class \in GraphClass /\ o.names \in Seq(ToSet(o.names))
  BY DEF WellBuilt, ObjectOver
<1>5. [again EXCEPT !.class = o.class] = again
  <2>1. again \in ObjectOver(ToSet(o.names))
    BY <1>1, <1>4, RegistryFacts DEF ObjectOver
  <2> HIDE DEF again
  <2>2. again.class = o.class => [again EXCEPT !.class = o.class] = again
    BY <2>1 DEF ObjectOver
  <2> QED
    BY <1>3, <2>2
<1>6. CoreOf(again) = {h}
  <2>1. ValidEdges(Len(o.names), TRUE, SnapshotNow, buffer)
    BY <1>1, RenewedIsValid
  <2> QED
    BY <1>3, <2>1 DEF CoreOf, CheckedCore
<1>7. InClass(h, o.class)
  <2>1. InClass(g, o.class)
    <3>1. CoreOf(o) = {g}
      BY DEF CoreOf, CheckedCore, WellBuilt, Compile, ObjectOver
    <3> QED
      BY <3>1 DEF WellBuilt
  <2>2. SameShape(g, h)
    BY <1>1, RenewedHasTheShape
  <2> HIDE DEF g, h
  <2> QED
    BY <2>1, <2>2, ShapeDecidesClass
<1> HIDE DEF again, h
<1>8. Resolved(again) = {o.class}
  BY <1>3, <1>4, <1>6, <1>7 DEF Resolved, ResolveClass
<1>9. Returned(again) = {again}
  <2>1. SimpleFitsClass(again)
    BY <1>3 DEF SimpleFitsClass
  <2>2. (IF again.edges # NoEdges THEN Resolved(again)
         ELSE {IF again.class = "AUTO" THEN "UNKNOWN" ELSE again.class}) = {o.class}
    BY <1>3, <1>4, <1>8
  <2>3. {[again EXCEPT !.class = c] : c \in {o.class}} = {again}
    BY <1>5
  <2> QED
    BY <2>1, <2>2, <2>3 DEF Returned
<1>10. TypedEdges(again) = TypedEdges(o)
  BY <1>1, <1>3, RenewedHasTheEdges
<1> QED
  BY <1>2, <1>3, <1>9, <1>10 DEF written

--------------------------------------------------------------------------------
(* Parsing what was written *)

(* The reader without an error: what it has collected, how deep it is, the *)
(* edge it is in with its ends and whether its type was seen, and the data  *)
(* element it is in with its key and the pieces so far.                    *)
At(nodes, rows, class, depth, edge, ends, seen, data, key, value) ==
    [nodes |-> nodes, rows |-> rows, class |-> class, depth |-> depth, failed |-> FALSE,
     in_edge |-> edge, ends |-> ends, edge_type_seen |-> seen,
     in_data |-> data, data_key |-> key, data_value |-> value]

AtSet(nodes, rows, class, depth, edge, ends, seen, data, key, value) ==
    [nodes : {nodes}, rows : {rows}, class : {class}, depth : {depth}, failed : {FALSE},
     in_edge : {edge}, ends : {ends}, edge_type_seen : {seen},
     in_data : {data}, data_key : {key}, data_value : {value}]

LEMMA IsAt ==
    ASSUME NEW nodes, NEW rows, NEW class, NEW depth, NEW edge, NEW ends, NEW seen, NEW data,
           NEW key, NEW value,
           NEW s \in AtSet(nodes, rows, class, depth, edge, ends, seen, data, key, value)
    PROVE  s = At(nodes, rows, class, depth, edge, ends, seen, data, key, value)
BY DEF At, AtSet

(* Between the elements of a graph. *)
Outside(nodes, rows, class, depth) ==
    At(nodes, rows, class, depth, FALSE, <<"", "">>, FALSE, FALSE, "", <<>>)

LEMMA OpensTheGraph ==
    ASSUME NEW default
    PROVE  /\ HandleEvent(ParserStart, Start("graphml", "")) = ParserStart
           /\ HandleEvent(ParserStart, Start("graph", default)) = Outside(<<>>, <<>>, "UNKNOWN", 1)
<1>1. HandleEvent(ParserStart, Start("graphml", "")) = ParserStart
  BY DEF HandleEvent, ParserStart, Start, OpenElement
<1>2. HandleEvent(ParserStart, Start("graph", default)) = [ParserStart EXCEPT !.depth = @ + 1]
  BY DEF HandleEvent, ParserStart, Start, OpenElement
<1>3. ParserStart.depth + 1 = 1
  BY DEF ParserStart
<1>4. [ParserStart EXCEPT !.depth = 1]
          \in AtSet(<<>>, <<>>, "UNKNOWN", 1, FALSE, <<"", "">>, FALSE, FALSE, "", <<>>)
  BY DEF ParserStart, AtSet
<1>5. [ParserStart EXCEPT !.depth = @ + 1] = [ParserStart EXCEPT !.depth = 1]
  BY <1>3
<1> QED
  BY <1>1, <1>2, <1>4, <1>5, IsAt DEF Outside

LEMMA ReadsNode ==
    ASSUME NEW nodes, NEW rows, NEW class, NEW x
    PROVE  HandleEvent(Outside(nodes, rows, class, 1), <<"empty", "node", x>>)
               = Outside(Append(nodes, x), rows, class, 1)
<1> DEFINE s == Outside(nodes, rows, class, 1)
<1>1. HandleEvent(s, <<"empty", "node", x>>) = [s EXCEPT !.nodes = Append(@, x)]
  BY DEF HandleEvent, OpenElement, Outside, At
<1>2. [s EXCEPT !.nodes = Append(@, x)]
          \in AtSet(Append(nodes, x), rows, class, 1, FALSE, <<"", "">>, FALSE, FALSE, "", <<>>)
  BY DEF Outside, At, AtSet
<1> QED
  BY <1>1, <1>2, IsAt DEF Outside

LEMMA OpensData ==
    ASSUME NEW nodes, NEW rows, NEW class, NEW edge, NEW ends, NEW seen, NEW key
    PROVE  HandleEvent(At(nodes, rows, class, 1, edge, ends, seen, FALSE, "", <<>>), Start("data", key))
               = At(nodes, rows, class, 1, edge, ends, seen, TRUE, key, <<>>)
<1> DEFINE s == At(nodes, rows, class, 1, edge, ends, seen, FALSE, "", <<>>)
           t == [s EXCEPT !.in_data = TRUE, !.data_key = key, !.data_value = <<>>]
<1>1. HandleEvent(s, Start("data", key)) = t
  BY DEF HandleEvent, OpenElement, At, Start
<1>2. t \in AtSet(nodes, rows, class, 1, edge, ends, seen, TRUE, key, <<>>)
  BY DEF At, AtSet
<1> QED
  BY <1>1, <1>2, IsAt

(* The text between two tags arrives piece by piece. *)
LEMMA ReadsPieces ==
    ASSUME NEW nodes, NEW rows, NEW class, NEW edge, NEW ends, NEW seen, NEW key,
           NEW T, NEW pieces \in Seq(T)
    PROVE  Leads(At(nodes, rows, class, 1, edge, ends, seen, TRUE, key, <<>>),
                 TextOf(pieces),
                 At(nodes, rows, class, 1, edge, ends, seen, TRUE, key, pieces))
<1> DEFINE n == Len(pieces)
           state(v) == At(nodes, rows, class, 1, edge, ends, seen, TRUE, key, v)
           st == [k \in 0 .. n |-> state(SubSeq(pieces, 1, k))]
<1>1. n \in Nat /\ DOMAIN pieces = 1 .. n
  BY LenProperties
<1>2. IsSeq(pieces)
  BY DEF IsSeq
<1>3. Len(TextOf(pieces)) = n /\ DOMAIN TextOf(pieces) = 1 .. n
  BY <1>2, DataIsSeq
<1>4. /\ SubSeq(pieces, 1, 0) = <<>> /\ SubSeq(pieces, 1, n) = pieces
      /\ \A k \in 1 .. n : SubSeq(pieces, 1, k) = Append(SubSeq(pieces, 1, k - 1), pieces[k])
  BY <1>1
<1>5. ASSUME NEW v, NEW piece
      PROVE  /\ HandleEvent(state(v), <<"text", piece, "">>) = state(Append(v, piece))
             /\ HandleEvent(state(v), <<"ref", piece, "">>) = state(Append(v, piece))
  <2> DEFINE t == [state(v) EXCEPT !.data_value = Append(@, piece)]
  <2>1. /\ HandleEvent(state(v), <<"text", piece, "">>) = t
        /\ HandleEvent(state(v), <<"ref", piece, "">>) = t
    BY DEF HandleEvent, AddPiece, At
  <2>2. t \in AtSet(nodes, rows, class, 1, edge, ends, seen, TRUE, key, Append(v, piece))
    BY DEF At, AtSet
  <2>3. t = state(Append(v, piece))
    BY <2>2, IsAt
  <2> QED
    BY <2>1, <2>3
<1> HIDE DEF state, n
<1>6. 0 \in 0 .. n /\ n \in 0 .. n /\ \A k \in 1 .. n : k - 1 \in 0 .. n /\ k \in 0 .. n
  BY <1>1
<1>7. ASSUME NEW k \in 1 .. n
      PROVE  st[k] = HandleEvent(st[k - 1], TextOf(pieces)[k])
  <2>1. TextOf(pieces)[k] = <<"text", pieces[k], "">> \/ TextOf(pieces)[k] = <<"ref", pieces[k], "">>
    BY <1>1 DEF TextOf
  <2>2. st[k] = state(SubSeq(pieces, 1, k)) /\ st[k - 1] = state(SubSeq(pieces, 1, k - 1))
    BY <1>6
  <2>3. st[k] = state(Append(SubSeq(pieces, 1, k - 1), pieces[k]))
    BY <1>4, <2>2
  <2> HIDE DEF st
  <2>4. /\ HandleEvent(st[k - 1], <<"text", pieces[k], "">>) = st[k]
        /\ HandleEvent(st[k - 1], <<"ref", pieces[k], "">>) = st[k]
    BY <1>5, <2>2, <2>3
  <2> QED
    BY <2>1, <2>4
<1>8. st = [k \in 0 .. n |-> st[k]] /\ st[0] = state(<<>>) /\ st[n] = state(pieces)
  BY <1>4, <1>6
<1> HIDE DEF st
<1>9. Leads(state(<<>>), TextOf(pieces), state(pieces))
  BY <1>3, <1>7, <1>8 DEF Leads
<1> QED
  BY <1>9 DEF state

LEMMA ReadsClass ==
    ASSUME NEW nodes, NEW rows, NEW old, NEW class
    PROVE  HandleEvent(At(nodes, rows, old, 1, FALSE, <<"", "">>, FALSE, TRUE, "graph_class", <<class>>),
                       End("data"))
               = Outside(nodes, rows, class, 1)
<1> DEFINE s == At(nodes, rows, old, 1, FALSE, <<"", "">>, FALSE, TRUE, "graph_class", <<class>>)
           closed == [s EXCEPT !.in_data = FALSE, !.data_key = "", !.data_value = <<>>]
           t == [closed EXCEPT !.class = s.data_value[1]]
<1>1. HandleEvent(s, End("data")) = CloseData(s)
  BY DEF HandleEvent, CloseElement, At, End
<1>2. CloseData(s) = t
  BY DEF CloseData, At
<1>3. closed \in AtSet(nodes, rows, old, 1, FALSE, <<"", "">>, FALSE, FALSE, "", <<>>)
  BY DEF At, AtSet
<1>4. s.data_value[1] = class
  BY DEF At
<1> HIDE DEF closed
<1>5. t \in AtSet(nodes, rows, class, 1, FALSE, <<"", "">>, FALSE, FALSE, "", <<>>)
  BY <1>3, <1>4 DEF AtSet
<1> QED
  BY <1>1, <1>2, <1>5, IsAt DEF Outside

LEMMA OpensEdge ==
    ASSUME NEW nodes, NEW rows, NEW class, NEW ends
    PROVE  HandleEvent(Outside(nodes, rows, class, 1), Start("edge", ends))
               = At(nodes, rows, class, 1, TRUE, ends, FALSE, FALSE, "", <<>>)
<1> DEFINE s == Outside(nodes, rows, class, 1)
           t == [s EXCEPT !.in_edge = TRUE, !.edge_type_seen = FALSE, !.ends = ends]
<1>1. HandleEvent(s, Start("edge", ends)) = t
  BY DEF HandleEvent, OpenElement, Outside, At, Start
<1>2. t \in AtSet(nodes, rows, class, 1, TRUE, ends, FALSE, FALSE, "", <<>>)
  BY DEF Outside, At, AtSet
<1> QED
  BY <1>1, <1>2, IsAt

(* The pieces of a glyph are those of no other. *)
LEMMA OneGlyph ==
    ASSUME NEW glyph \in DOMAIN GlyphToCode, glyph \in DOMAIN Pieces
    PROVE  GlyphOf(Pieces[glyph]) # {} /\ (CHOOSE g \in GlyphOf(Pieces[glyph]) : TRUE) = glyph
<1>1. glyph \in GlyphOf(Pieces[glyph])
  BY DEF GlyphOf
<1>2. \A g \in GlyphOf(Pieces[glyph]) : g = glyph
  BY FilesAssumption DEF GlyphOf, IsInjective
<1> QED
  BY <1>1, <1>2

(* At the end of the type of an edge, and after it. *)
InType(nodes, rows, class, ends, glyph) ==
    At(nodes, rows, class, 1, TRUE, ends, FALSE, TRUE, "edge_type", Pieces[glyph])

WithRow(rows, ends, glyph) == Append(rows, <<ends[1], glyph, ends[2]>>)

Readable(glyph) == glyph \in DOMAIN GlyphToCode /\ glyph \in DOMAIN Pieces

Typed(nodes, rows, class, ends) ==
    At(nodes, rows, class, 1, TRUE, ends, TRUE, FALSE, "", <<>>)

LEMMA ReadsType ==
    ASSUME NEW nodes, NEW rows, NEW class, NEW ends, NEW glyph, Readable(glyph)
    PROVE  HandleEvent(InType(nodes, rows, class, ends, glyph), End("data"))
               = Typed(nodes, WithRow(rows, ends, glyph), class, ends)
<1> DEFINE more == WithRow(rows, ends, glyph)
           s == At(nodes, rows, class, 1, TRUE, ends, FALSE, TRUE, "edge_type", Pieces[glyph])
           closed == [s EXCEPT !.in_data = FALSE, !.data_key = "", !.data_value = <<>>]
           t == [[closed EXCEPT !.rows = Append(@, <<ends[1], glyph, ends[2]>>)]
                    EXCEPT !.edge_type_seen = TRUE]
<1>1. HandleEvent(s, End("data")) = CloseData(s)
  BY DEF HandleEvent, CloseElement, At, End
<1>2. GlyphOf(s.data_value) # {} /\ (CHOOSE g \in GlyphOf(s.data_value) : TRUE) = glyph
  BY OneGlyph DEF At, Readable
<1>3. CloseData(s) = EdgeType(closed, glyph)
  BY <1>2 DEF CloseData, At
<1>4. closed \in AtSet(nodes, rows, class, 1, TRUE, ends, FALSE, FALSE, "", <<>>)
  BY DEF At, AtSet
<1> HIDE DEF closed
<1>5. closed.edge_type_seen = FALSE /\ closed.ends = ends
  BY <1>4 DEF AtSet
<1>6. EdgeType(closed, glyph) = t
  BY <1>5 DEF EdgeType, AddRow
<1>7. t \in AtSet(nodes, more, class, 1, TRUE, ends, TRUE, FALSE, "", <<>>)
  BY <1>4 DEF AtSet, WithRow
<1> QED
  BY <1>1, <1>3, <1>6, <1>7, IsAt DEF InType, Typed

LEMMA ClosesEdge ==
    ASSUME NEW nodes, NEW rows, NEW class, NEW ends
    PROVE  HandleEvent(Typed(nodes, rows, class, ends), End("edge"))
               = Outside(nodes, rows, class, 1)
<1> DEFINE s == Typed(nodes, rows, class, ends)
           t == [s EXCEPT !.in_edge = FALSE, !.edge_type_seen = FALSE, !.ends = <<"", "">>,
                          !.failed = FALSE]
<1>1. HandleEvent(s, End("edge")) = CloseEdge(s)
  BY DEF HandleEvent, CloseElement, Typed, At, End
<1>2. CloseEdge(s) = t
  BY DEF CloseEdge, Typed, At
<1>3. t \in AtSet(nodes, rows, class, 1, FALSE, <<"", "">>, FALSE, FALSE, "", <<>>)
  BY DEF Typed, At, AtSet
<1> QED
  BY <1>1, <1>2, <1>3, IsAt DEF Outside

LEMMA ClosesTheGraph ==
    ASSUME NEW nodes, NEW rows, NEW class
    PROVE  /\ HandleEvent(Outside(nodes, rows, class, 1), End("graph")) = Outside(nodes, rows, class, 0)
           /\ HandleEvent(Outside(nodes, rows, class, 0), End("graphml")) = Outside(nodes, rows, class, 0)
<1> DEFINE s == Outside(nodes, rows, class, 1)
           t == [s EXCEPT !.depth = 0]
<1>1. HandleEvent(s, End("graph")) = t
  <2>1. HandleEvent(s, End("graph")) = [s EXCEPT !.depth = IF @ > 0 THEN @ - 1 ELSE 0]
    BY DEF HandleEvent, CloseElement, Outside, At, End
  <2>2. s.depth = 1
    BY DEF Outside, At
  <2> QED
    BY <2>1, <2>2
<1>2. t \in AtSet(nodes, rows, class, 0, FALSE, <<"", "">>, FALSE, FALSE, "", <<>>)
  BY DEF Outside, At, AtSet
<1>3. HandleEvent(Outside(nodes, rows, class, 0), End("graphml")) = Outside(nodes, rows, class, 0)
  BY DEF HandleEvent, CloseElement, Outside, At, End
<1> QED
  BY <1>1, <1>2, <1>3, IsAt DEF Outside

(* The elements one after the other. *)

(* A data element leads from its opening to what its end makes of its text. *)
LEMMA ReadsData ==
    ASSUME NEW nodes, NEW rows, NEW class, NEW edge, NEW ends, NEW seen, NEW key, NEW t,
           NEW pieces, IsSeq(pieces),
           HandleEvent(At(nodes, rows, class, 1, edge, ends, seen, TRUE, key, pieces), End("data")) = t
    PROVE  Leads(At(nodes, rows, class, 1, edge, ends, seen, FALSE, "", <<>>), Data(key, pieces), t)
<1> DEFINE s == At(nodes, rows, class, 1, edge, ends, seen, FALSE, "", <<>>)
           u == At(nodes, rows, class, 1, edge, ends, seen, TRUE, key, <<>>)
           v == At(nodes, rows, class, 1, edge, ends, seen, TRUE, key, pieces)
<1>1. Leads(s, <<Start("data", key)>>, u)
  <2>1. HandleEvent(s, Start("data", key)) = u
    BY OpensData
  <2> QED
    BY <2>1, LeadsOne
<1>2. Leads(u, TextOf(pieces), v)
  <2>1. PICK T : pieces \in Seq(T)
    BY DEF IsSeq
  <2> QED
    BY <2>1, ReadsPieces
<1>3. Leads(v, <<End("data")>>, t)
  BY LeadsOne
<1> HIDE DEF s, u, v
<1>4. IsSeq(<<Start("data", key)>>) /\ IsSeq(TextOf(pieces)) /\ IsSeq(<<End("data")>>)
  BY OneIsSeq, DataIsSeq
<1>5. /\ IsSeq(<<Start("data", key)>> \o TextOf(pieces))
      /\ Leads(s, <<Start("data", key)>> \o TextOf(pieces), v)
  BY <1>1, <1>2, <1>4, LeadsJoined
<1>6. Leads(s, (<<Start("data", key)>> \o TextOf(pieces)) \o <<End("data")>>, t)
  BY <1>3, <1>4, <1>5, LeadsJoined
<1>7. Data(key, pieces) = (<<Start("data", key)>> \o TextOf(pieces)) \o <<End("data")>>
  BY DataIsSeq
<1>8. Leads(s, Data(key, pieces), t)
  BY <1>6, <1>7
<1> QED
  BY <1>8 DEF s

(* An edge element adds its row. *)
LEMMA ReadsEdge ==
    ASSUME NEW nodes, NEW rows, NEW class, NEW row,
           row[2] \in DOMAIN GlyphToCode, row[2] \in DOMAIN Pieces
    PROVE  Leads(Outside(nodes, rows, class, 1), EdgeElement(row),
                 Outside(nodes, Append(rows, <<row[1], row[2], row[3]>>), class, 1))
<1> DEFINE ends == <<row[1], row[3]>>
           glyph == row[2]
           type == Data("edge_type", Pieces[glyph])
           more == Append(rows, <<row[1], row[2], row[3]>>)
           s == Outside(nodes, rows, class, 1)
           u == At(nodes, rows, class, 1, TRUE, ends, FALSE, FALSE, "", <<>>)
           v == Typed(nodes, more, class, ends)
           t == Outside(nodes, more, class, 1)
<1>1. EdgeElement(row) = (<<Start("edge", ends)>> \o type) \o <<End("edge")>>
  BY DEF EdgeElement
<1>2. more = WithRow(rows, ends, glyph)
  BY DEF WithRow
<1>3. IsSeq(<<Start("edge", ends)>>) /\ IsSeq(type) /\ IsSeq(<<End("edge")>>) /\ IsSeq(Pieces[glyph])
  BY OneIsSeq, EdgeElementIsSeq
<1>4. Readable(glyph)
  BY DEF Readable
<1> HIDE DEF ends, more, glyph
<1>5. Leads(s, <<Start("edge", ends)>>, u)
  <2>1. HandleEvent(s, Start("edge", ends)) = u
    BY OpensEdge
  <2> QED
    BY <2>1, LeadsOne
<1>6. Leads(u, type, v)
  <2>1. HandleEvent(InType(nodes, rows, class, ends, glyph), End("data")) = v
    BY <1>2, <1>4, ReadsType
  <2>2. HandleEvent(At(nodes, rows, class, 1, TRUE, ends, FALSE, TRUE, "edge_type", Pieces[glyph]),
                    End("data")) = v
    BY <2>1 DEF InType
  <2> QED
    BY <1>3, <2>2, ReadsData
<1>7. Leads(v, <<End("edge")>>, t)
  <2>1. HandleEvent(v, End("edge")) = t
    BY ClosesEdge
  <2> QED
    BY <2>1, LeadsOne
<1> HIDE DEF s, u, v, t, type
<1>8. /\ IsSeq(<<Start("edge", ends)>> \o type)
      /\ Leads(s, <<Start("edge", ends)>> \o type, v)
  BY <1>3, <1>5, <1>6, LeadsJoined
<1>9. Leads(s, (<<Start("edge", ends)>> \o type) \o <<End("edge")>>, t)
  BY <1>3, <1>7, <1>8, LeadsJoined
<1>10. Leads(s, EdgeElement(row), t)
  BY <1>1, <1>9
<1> QED
  BY <1>10 DEF s, t, more

(* The elements of the nodes add the nodes. *)
LEMMA ReadsNodes ==
    ASSUME NEW rows, NEW class, NEW names, IsSeq(names)
    PROVE  Leads(Outside(<<>>, rows, class, 1), NodeElements(names), Outside(names, rows, class, 1))
<1> DEFINE n == Len(names)
           state(v) == Outside(v, rows, class, 1)
           st == [k \in 0 .. n |-> state(SubSeq(names, 1, k))]
<1>1. n \in Nat /\ DOMAIN names = 1 .. n /\ names \in Seq(ToSet(names))
  BY OwnElements
<1>2. NodeElements(names) = [i \in 1 .. n |-> <<"empty", "node", names[i]>>]
  BY <1>1 DEF NodeElements
<1>3. Len(NodeElements(names)) = n
  BY <1>1, <1>2
<1>4. /\ SubSeq(names, 1, 0) = <<>> /\ SubSeq(names, 1, n) = names
      /\ \A k \in 1 .. n : SubSeq(names, 1, k) = Append(SubSeq(names, 1, k - 1), names[k])
  BY <1>1
<1>5. ASSUME NEW v, NEW x
      PROVE  HandleEvent(state(v), <<"empty", "node", x>>) = state(Append(v, x))
  BY ReadsNode
<1> HIDE DEF state, n
<1>6. 0 \in 0 .. n /\ n \in 0 .. n /\ \A k \in 1 .. n : k - 1 \in 0 .. n /\ k \in 0 .. n
  BY <1>1
<1>7. ASSUME NEW k \in 1 .. n
      PROVE  st[k] = HandleEvent(st[k - 1], NodeElements(names)[k])
  <2>1. NodeElements(names)[k] = <<"empty", "node", names[k]>>
    BY <1>2
  <2>2. st[k] = state(SubSeq(names, 1, k)) /\ st[k - 1] = state(SubSeq(names, 1, k - 1))
    BY <1>6
  <2>3. st[k] = state(Append(SubSeq(names, 1, k - 1), names[k]))
    BY <1>4, <2>2
  <2> HIDE DEF st
  <2> QED
    BY <1>5, <2>1, <2>2, <2>3
<1>8. st = [k \in 0 .. n |-> st[k]] /\ st[0] = state(<<>>) /\ st[n] = state(names)
  BY <1>4, <1>6
<1> HIDE DEF st
<1>9. Leads(state(<<>>), NodeElements(names), state(names))
  BY <1>3, <1>7, <1>8 DEF Leads
<1> QED
  BY <1>9 DEF state

(* Along a sequence of elements, one after the other. *)
LEMMA LeadsAlong ==
    ASSUME NEW n \in Nat, NEW seqs, seqs = [i \in 1 .. n |-> seqs[i]],
           \A i \in 1 .. n : IsSeq(seqs[i]),
           NEW st, \A i \in 1 .. n : Leads(st[i - 1], seqs[i], st[i])
    PROVE  IsSeq(FlattenSeq(seqs)) /\ Leads(st[0], FlattenSeq(seqs), st[n])
<1>1. PICK f : /\ f[0] = <<>> /\ f[n] = FlattenSeq(seqs)
               /\ \A i \in 0 .. n : IsSeq(f[i])
               /\ \A i \in 1 .. n : f[i] = f[i - 1] \o seqs[i]
  BY FlattenJoins
<1> DEFINE bad == {k \in 0 .. n : ~ Leads(st[0], f[k], st[k])}
<1>2. bad = {}
  <2> SUFFICES ASSUME bad # {} PROVE FALSE
    OBVIOUS
  <2>1. PICK k \in bad : \A j \in bad : k <= j
    <3>1. bad \in SUBSET (0 .. n) /\ (0 .. n) \subseteq Nat
      OBVIOUS
    <3> HIDE DEF bad
    <3>2. IsFiniteSet(0 .. n)
      <4>1. 0 \in Int /\ n \in Int
        OBVIOUS
      <4> QED
        BY <4>1, FS_Interval
    <3>3. bad \in SUBSET Nat /\ IsFiniteSet(bad)
      BY <3>1, <3>2, FS_Subset
    <3> QED
      BY <3>3, Least
  <2>2. k \in 0 .. n /\ ~ Leads(st[0], f[k], st[k])
    OBVIOUS
  <2>3. k # 0
    BY <1>1, <2>2, LeadsNowhere
  <2>4. k \in 1 .. n /\ k - 1 \in 0 .. n /\ ~ (k <= k - 1)
    BY <2>2, <2>3
  <2>5. Leads(st[0], f[k - 1], st[k - 1])
    BY <2>1, <2>4
  <2>6. Leads(st[k - 1], seqs[k], st[k])
    BY <2>4
  <2>7. IsSeq(f[k - 1]) /\ IsSeq(seqs[k]) /\ f[k] = f[k - 1] \o seqs[k]
    BY <1>1, <2>4
  <2> HIDE DEF bad
  <2>8. Leads(st[0], f[k], st[k])
    BY <2>5, <2>6, <2>7, LeadsJoined
  <2> QED
    BY <2>2, <2>8
<1>3. n \in 0 .. n
  OBVIOUS
<1>4. Leads(st[0], f[n], st[n])
  BY <1>2, <1>3
<1> QED
  BY <1>1, <1>4, FlattenJoins

(* The elements of the edges add their rows, in the order of the rows. *)
LEMMA ReadsEdges ==
    ASSUME NEW nodes, NEW class, NEW rows, IsFiniteSet(rows),
           \A r \in rows : r = <<r[1], r[2], r[3]>> /\ Readable(r[2])
    PROVE  Leads(Outside(nodes, <<>>, class, 1), FlattenSeq(EdgeElements(rows)),
                 Outside(nodes, SetToSeq(rows), class, 1))
<1> DEFINE n == Cardinality(rows)
           q == SetToSeq(rows)
           state(v) == Outside(nodes, v, class, 1)
<1>1. n \in Nat /\ q \in Seq(rows) /\ Len(q) = n
  BY FS_CardinalityType, SetToSeqFacts
<1>2. \A i \in 1 .. n : q[i] \in rows
  BY <1>1, ElementOfSeq
<1>3. /\ EdgeElements(rows) = [i \in 1 .. n |-> EdgeElements(rows)[i]]
      /\ \A i \in 1 .. n : EdgeElements(rows)[i] = EdgeElement(q[i])
  BY DEF EdgeElements
<1>4. ASSUME NEW i \in 1 .. n
      PROVE  IsSeq(EdgeElements(rows)[i])
  BY <1>2, <1>3, EdgeElementIsSeq DEF Readable
<1>5. /\ SubSeq(q, 1, 0) = <<>> /\ SubSeq(q, 1, n) = q
      /\ \A k \in 1 .. n : SubSeq(q, 1, k) = Append(SubSeq(q, 1, k - 1), q[k])
  <2> HIDE DEF q, n
  <2> QED
    BY <1>1
<1>6. ASSUME NEW v, NEW i \in 1 .. n
      PROVE  Leads(state(v), EdgeElements(rows)[i], state(Append(v, q[i])))
  <2>1. q[i] \in rows
    BY <1>2
  <2>2. q[i] = <<q[i][1], q[i][2], q[i][3]>> /\ Readable(q[i][2])
    BY <2>1
  <2> HIDE DEF q
  <2>3. Leads(state(v), EdgeElement(q[i]), state(Append(v, <<q[i][1], q[i][2], q[i][3]>>)))
    BY <2>2, ReadsEdge DEF Readable
  <2> QED
    BY <1>3, <2>2, <2>3
<1> DEFINE st == [k \in 0 .. n |-> state(SubSeq(q, 1, k))]
<1> HIDE DEF state, n, q
<1>7. 0 \in 0 .. n /\ n \in 0 .. n /\ \A k \in 1 .. n : k - 1 \in 0 .. n /\ k \in 0 .. n
  BY <1>1
<1>8. st[0] = state(<<>>) /\ st[n] = state(q)
  BY <1>5, <1>7
<1>9. ASSUME NEW k \in 1 .. n
      PROVE  Leads(st[k - 1], EdgeElements(rows)[k], st[k])
  <2>1. /\ st[k - 1] = state(SubSeq(q, 1, k - 1))
        /\ st[k] = state(Append(SubSeq(q, 1, k - 1), q[k]))
    BY <1>5, <1>7
  <2> QED
    BY <1>6, <2>1
<1> HIDE DEF st
<1>10. Leads(state(<<>>), FlattenSeq(EdgeElements(rows)), state(q))
  BY <1>1, <1>3, <1>4, <1>8, <1>9, LeadsAlong
<1> QED
  BY <1>10 DEF state, q

LEMMA PairIsJoined == ASSUME NEW a, NEW b PROVE <<a, b>> = <<a>> \o <<b>>
<1> DEFINE c == <<a>> \o <<b>>
<1>1. <<a>> \in Seq({a, b}) /\ <<b>> \in Seq({a, b}) /\ Len(<<a>>) = 1 /\ Len(<<b>>) = 1
  OBVIOUS
<1>2. /\ c \in Seq({a, b}) /\ Len(c) = 2
      /\ \A i \in 1 .. 2 : c[i] = IF i <= 1 THEN <<a>>[i] ELSE <<b>>[i - 1]
  BY <1>1, ConcatProperties
<1> HIDE DEF c
<1>3. c[1] = a /\ c[2] = b
  BY <1>2
<1>4. c = <<a, b>>
  BY <1>2, <1>3
<1> QED
  BY <1>4 DEF c

LEMMA EntersTheGraph ==
    ASSUME NEW default
    PROVE  Leads(ParserStart, Opening(default), Outside(<<>>, <<>>, "UNKNOWN", 1))
<1> DEFINE a == Start("graphml", "")
           b == Start("graph", default)
           opened == Outside(<<>>, <<>>, "UNKNOWN", 1)
<1>1. Opening(default) = <<a, b>>
  BY DEF Opening
<1>2. HandleEvent(ParserStart, a) = ParserStart /\ HandleEvent(ParserStart, b) = opened
  BY OpensTheGraph
<1> HIDE DEF a, b, opened
<1>3. Leads(ParserStart, <<a>>, ParserStart) /\ Leads(ParserStart, <<b>>, opened)
  BY <1>2, LeadsOne
<1>4. IsSeq(<<a>>) /\ IsSeq(<<b>>)
  BY OneIsSeq
<1>5. Leads(ParserStart, <<a>> \o <<b>>, opened)
  BY <1>3, <1>4, LeadsJoined
<1> QED
  BY <1>1, <1>5, PairIsJoined DEF opened

LEMMA LeavesTheGraph ==
    ASSUME NEW nodes, NEW rows, NEW class
    PROVE  Leads(Outside(nodes, rows, class, 1), Closing, Outside(nodes, rows, class, 0))
<1> DEFINE a == End("graph")
           b == End("graphml")
           s == Outside(nodes, rows, class, 1)
           t == Outside(nodes, rows, class, 0)
<1>1. Closing = <<a, b>>
  BY DEF Closing
<1>2. HandleEvent(s, a) = t /\ HandleEvent(t, b) = t
  BY ClosesTheGraph
<1> HIDE DEF a, b, s, t
<1>3. Leads(s, <<a>>, t) /\ Leads(t, <<b>>, t)
  BY <1>2, LeadsOne
<1>4. IsSeq(<<a>>) /\ IsSeq(<<b>>)
  BY OneIsSeq
<1>5. Leads(s, <<a>> \o <<b>>, t)
  BY <1>3, <1>4, LeadsJoined
<1> QED
  BY <1>1, <1>5, PairIsJoined DEF s, t

(* The whole document: read_graphml() finds in it what was written. *)
LEMMA GraphmlParsed ==
    ASSUME NEW o, IsSeq(o.names), NEW rows, IsFiniteSet(rows),
           \A r \in rows : /\ r = <<r[1], r[2], r[3]>> /\ Readable(r[2])
                           /\ r[1] \in ToSet(o.names) /\ r[3] \in ToSet(o.names)
    PROVE  DeserializeGraphml(GraphmlDocument(o, rows)) = {<<o.names, SetToSeq(rows), o.class>>}
<1> DEFINE q == SetToSeq(rows)
           document == GraphmlDocument(o, rows)
           opened == Outside(<<>>, <<>>, "UNKNOWN", 1)
           classed == Outside(<<>>, <<>>, o.class, 1)
           noded == Outside(o.names, <<>>, o.class, 1)
           edged == Outside(o.names, q, o.class, 1)
           closed == Outside(o.names, q, o.class, 0)
           s == FoldLeft(HandleEvent, ParserStart, document)
           class == Data("graph_class", <<o.class>>)
           nodes == NodeElements(o.names)
           edges == FlattenSeq(EdgeElements(rows))
<1>1. /\ IsSeq(Opening("directed")) /\ IsSeq(Closing) /\ IsSeq(class) /\ IsSeq(nodes) /\ IsSeq(edges)
      /\ document = (((Opening("directed") \o class) \o nodes) \o edges) \o Closing /\ IsSeq(document)
  BY WrittenIsSeq DEF Readable
<1>2. Leads(ParserStart, Opening("directed"), opened)
  BY EntersTheGraph
<1>3. Leads(opened, class, classed)
  <2>1. HandleEvent(At(<<>>, <<>>, "UNKNOWN", 1, FALSE, <<"", "">>, FALSE, TRUE, "graph_class", <<o.class>>),
                    End("data")) = classed
    BY ReadsClass
  <2>2. Leads(At(<<>>, <<>>, "UNKNOWN", 1, FALSE, <<"", "">>, FALSE, FALSE, "", <<>>), class, classed)
    BY <2>1, OneIsSeq, ReadsData
  <2> QED
    BY <2>2 DEF Outside
<1>4. Leads(classed, nodes, noded)
  BY ReadsNodes
<1>5. Leads(noded, edges, edged)
  BY ReadsEdges
<1>6. Leads(edged, Closing, closed)
  BY LeavesTheGraph
<1>7. closed.nodes = o.names /\ closed.rows = q /\ closed.class = o.class /\ closed.failed = FALSE
  BY DEF Outside, At
<1> HIDE DEF opened, classed, noded, edged, closed, class, nodes, edges, document
<1>8. IsSeq(Opening("directed") \o class) /\ Leads(ParserStart, Opening("directed") \o class, classed)
  BY <1>1, <1>2, <1>3, LeadsJoined
<1>9. IsSeq((Opening("directed") \o class) \o nodes) /\ Leads(ParserStart, (Opening("directed") \o class) \o nodes, noded)
  BY <1>1, <1>4, <1>8, LeadsJoined
<1>10. /\ IsSeq(((Opening("directed") \o class) \o nodes) \o edges)
       /\ Leads(ParserStart, ((Opening("directed") \o class) \o nodes) \o edges, edged)
  BY <1>1, <1>5, <1>9, LeadsJoined
<1>11. Leads(ParserStart, document, closed)
  BY <1>1, <1>6, <1>10, LeadsJoined
<1>12. s = closed
  <2>1. PICK T : document \in Seq(T)
    BY <1>1 DEF IsSeq
  <2>2. Leads(ParserStart, document, s)
    BY <2>1, FoldLeads
  <2> HIDE DEF s
  <2> QED
    BY <1>11, <2>1, <2>2, LeadsToOne
<1>13. EndsDeclared(o.names, q)
  <2>1. q \in Seq(rows)
    BY SetToSeqFacts
  <2>2. \A i \in DOMAIN q : q[i] \in rows
    BY <2>1
  <2> QED
    BY <2>2 DEF EndsDeclared
<1>14. DeserializeGraphml(document) =
           IF ~ s.failed /\ EndsDeclared(s.nodes, s.rows) THEN {<<s.nodes, s.rows, s.class>>} ELSE {}
  BY DEF DeserializeGraphml
<1> HIDE DEF s, q
<1>15. DeserializeGraphml(document) = {<<o.names, q, o.class>>}
  BY <1>7, <1>12, <1>13, <1>14
<1> QED
  BY <1>15 DEF document, q

(* read_caugi() likewise. *)
LEMMA CaugiParsed ==
    ASSUME NEW o, NEW rows, IsFiniteSet(rows),
           \A r \in rows : r[1] \in ToSet(o.names) /\ r[3] \in ToSet(o.names),
           Known(GlyphToCode, rows)
    PROVE  DeserializeCaugi(CaugiDocument(o, rows)) = {<<o.names, SetToSeq(rows), o.class>>}
<1> DEFINE q == SetToSeq(rows)
           d == CaugiDocument(o, rows)
<1>1. /\ d.format = "caugi" /\ d.major = 1 /\ d.nodes = o.names /\ d.edges = q /\ d.class = o.class
  BY DEF CaugiDocument
<1>2. q \in Seq(rows) /\ ToSet(q) = rows
  BY SetToSeqFacts
<1>3. EndsDeclared(o.names, q)
  <2>1. \A i \in DOMAIN q : q[i] \in rows
    BY <1>2
  <2> QED
    BY <2>1 DEF EndsDeclared
<1> HIDE DEF q, d
<1>4. DeserializeCaugi(d) = {<<o.names, q, o.class>>}
  BY <1>1, <1>2, <1>3 DEF DeserializeCaugi
<1> QED
  BY <1>4 DEF d, q

--------------------------------------------------------------------------------
(* The files *)

(* The snapshot the last graph was built with, by code. *)
TypesOf(specs) == [c \in 0 .. (Len(specs) - 1) |-> specs[c + 1]]

(* The documents a simple graph is written as. *)
DocumentsOf(o) ==
    {<<"caugi", CaugiDocument(o, RowsWritten(o))>>, <<"graphml", GraphmlDocument(o, RowsWritten(o))>>}

(* The built-in types stay registered.  Graphs hold what was checked when   *)
(* they were built, with the types of the last snapshot, and a file written *)
(* before a reset holds the graph's rows.                                   *)
FInv ==
    /\ RInv
    /\ TypesFit
    /\ DefaultOps \subseteq edge_ops
    /\ \A o \in cg : WellBuilt(o) /\ o.snapshot = TypesOf(snapshot)
    /\ \A d \in file : IsFile(d)
    /\ \A s \in saved : WellBuilt(s.object)
    /\ \A s \in saved : \A d \in file : s.current /\ s.object.simple => d \in DocumentsOf(s.object)

LEMMA BuiltinsFit == \A i \in DOMAIN Builtins : WellFormed(Builtins[i])
<1>1. DOMAIN Builtins = 1 .. 6
  BY BuiltinsFacts
<1>2. /\ WellFormed(Builtins[1]) /\ WellFormed(Builtins[2]) /\ WellFormed(Builtins[3])
      /\ WellFormed(Builtins[4]) /\ WellFormed(Builtins[5]) /\ WellFormed(Builtins[6])
  BY DEF WellFormed, Builtins, DirectedSpec, UndirectedSpec, BidirectedSpec, PartialSpec,
         PartiallyUndirectedSpec, PartiallyDirectedSpec
<1>3. \A i \in 1 .. 6 : i = 1 \/ i = 2 \/ i = 3 \/ i = 4 \/ i = 5 \/ i = 6
  OBVIOUS
<1> QED
  BY <1>1, <1>2, <1>3

LEMMA TypesStep ==
    ASSUME RInv, TypesFit, [Next]_vars
    PROVE  TypesFit'
<1>1. CodeToSpec \in Seq(EdgeSpec) /\ Len(CodeToSpec) \in Nat /\ DOMAIN CodeToSpec = 1 .. Len(CodeToSpec)
  BY RegistryFacts
<1>2. ASSUME NEW spec \in UserSpecs, RegisterEdge(spec)
      PROVE  TypesFit'
  <2>1. WellFormed(spec) /\ (CodeToSpec' = CodeToSpec \/ CodeToSpec' = Append(CodeToSpec, spec))
    BY <1>2 DEF RegisterEdge, CodeToSpec
  <2>2. CASE CodeToSpec' = CodeToSpec
    BY <2>2 DEF TypesFit
  <2>3. CASE CodeToSpec' = Append(CodeToSpec, spec)
    <3> DEFINE longer == Append(CodeToSpec, spec)
    <3>1. /\ DOMAIN longer = 1 .. Len(CodeToSpec) + 1
          /\ \A i \in 1 .. Len(CodeToSpec) : longer[i] = CodeToSpec[i]
          /\ longer[Len(CodeToSpec) + 1] = spec
      BY <1>1
    <3> HIDE DEF longer
    <3>2. \A i \in DOMAIN longer : i \in DOMAIN CodeToSpec \/ i = Len(CodeToSpec) + 1
      BY <1>1, <3>1
    <3>3. \A i \in DOMAIN longer : WellFormed(longer[i])
      BY <1>1, <2>1, <3>1, <3>2 DEF TypesFit
    <3> QED
      BY <2>3, <3>3 DEF longer, TypesFit
  <2> QED
    BY <2>1, <2>2, <2>3
<1>3. CASE SealRegistry \/ BuildGraph \/ UNCHANGED vars
  <2>1. CodeToSpec' = CodeToSpec
    BY <1>3 DEF SealRegistry, BuildGraph, CodeToSpec, vars, table
  <2> QED
    BY <2>1 DEF TypesFit
<1>4. CASE Reset
  <2>1. CodeToSpec' = Builtins
    BY <1>4 DEF Reset, CodeToSpec
  <2> QED
    BY <2>1, BuiltinsFit DEF TypesFit
<1> QED
  BY <1>2, <1>3, <1>4 DEF Next

LEMMA BuiltinsStay ==
    ASSUME DefaultOps \subseteq edge_ops, [Next]_vars
    PROVE  DefaultOps \subseteq edge_ops'
BY DEF Next, RegisterEdge, SealRegistry, Reset, BuildGraph, vars

LEMMA FilesStart == ASSUME FilesInit PROVE FInv
<1>1. RInv
  BY RegistryInit, RegistryAssumption DEF FilesInit
<1>2. TypesFit
  BY BuiltinsFit DEF FilesInit, Init, CodeToSpec, TypesFit
<1>3. edge_ops = DefaultOps
  BY DEF FilesInit, Init
<1> QED
  BY <1>1, <1>2, <1>3 DEF FilesInit, FInv

(* The registry changes, or nothing does. *)
LEMMA RegistryKeepsFiles ==
    ASSUME FInv, [Next]_vars, UNCHANGED <<snapshot, cg, file, saved>>
    PROVE  FInv'
<1>1. RInv' /\ TypesFit' /\ DefaultOps \subseteq edge_ops'
  BY RegistryStep, TypesStep, BuiltinsStay, RegistryAssumption DEF FInv
<1> QED
  BY <1>1 DEF FInv

(* A graph is built, from whatever table. *)
LEMMA BuildingKeepsFiles ==
    ASSUME FInv, BuildGraph, NEW T, NEW G, NEW declared \in Seq(T), NEW rowTable \in Seq(RowOver(T, G)),
           NEW simple \in BOOLEAN, NEW class \in GraphClass,
           NEW o \in Constructed(simple, class, declared, rowTable, GlyphToCode, SnapshotNow),
           cg' = {o}, UNCHANGED <<file, saved>>
    PROVE  FInv'
<1>1. RInv' /\ TypesFit' /\ DefaultOps \subseteq edge_ops'
  BY RegistryStep, TypesStep, BuiltinsStay, RegistryAssumption DEF FInv, Next
<1>2. WellBuilt(o) /\ o.snapshot = SnapshotNow
  BY ConstructedIsWellBuilt DEF FInv
<1>3. TypesOf(snapshot') = SnapshotNow
  <2>1. /\ CodeToSpec \in Seq(EdgeSpec) /\ SnapshotLength \in Nat /\ SnapshotLength <= Len(CodeToSpec)
        /\ Len(CodeToSpec) \in Nat
    BY RegistryFacts DEF FInv
  <2>2. snapshot' = SubSeq(CodeToSpec, 1, SnapshotLength)
    BY DEF BuildGraph
  <2> DEFINE n == SnapshotLength
  <2> HIDE DEF n
  <2>3. n \in Nat /\ n <= Len(CodeToSpec) /\ snapshot' = SubSeq(CodeToSpec, 1, n)
    BY <2>1, <2>2 DEF n
  <2>4. Len(snapshot') = n /\ \A i \in 1 .. n : snapshot'[i] = CodeToSpec[i]
    BY <2>1, <2>3
  <2>5. \A c \in 0 .. (n - 1) : snapshot'[c + 1] = CodeToSpec[c + 1]
    BY <2>3, <2>4
  <2>6. TypesOf(snapshot') = [c \in 0 .. (n - 1) |-> CodeToSpec[c + 1]]
    BY <2>4, <2>5 DEF TypesOf
  <2> QED
    BY <2>6 DEF SnapshotNow, n
<1>4. \A x \in cg' : WellBuilt(x) /\ x.snapshot = TypesOf(snapshot')
  BY <1>2, <1>3
<1> QED
  BY <1>1, <1>4 DEF FInv

LEMMA HalvesAreFinite ==
    ASSUME NEW o, WellBuilt(o)
    PROVE  IsFiniteSet(HalvesOf(o))
<1> DEFINE D == DOMAIN o.edges
           tails == [e \in D |-> <<e[1], e[2], e[3], 0>>]
           heads == [e \in D |-> <<e[2], e[1], e[3], 1>>]
<1>1. IsFiniteSet(D)
  BY DEF WellBuilt
<1>2. /\ tails = [e \in D |-> tails[e]] /\ heads = [e \in D |-> heads[e]]
      /\ DOMAIN tails = D /\ DOMAIN heads = D
  OBVIOUS
<1>3. HalvesOf(o) = {tails[e] : e \in D} \cup {heads[e] : e \in D}
  BY DEF HalvesOf, Halves
<1> HIDE DEF tails, heads, D
<1>4. IsFiniteSet({tails[e] : e \in D}) /\ IsFiniteSet({heads[e] : e \in D})
  BY <1>1, <1>2, FiniteImage
<1> QED
  BY <1>3, <1>4, FS_Union

(* Whatever the registry is by then, what is written is rows. *)
LEMMA RowsAreRows ==
    ASSUME RInv, NEW o, WellBuilt(o), NEW rows \in WrittenRows(o)
    PROVE  /\ IsFiniteSet(rows)
           /\ rows \subseteq RowOver(ToSet(o.names), DOMAIN Pieces)
<1> DEFINE H == {k \in HalvesOf(o) : Written(k)}
           row == [h \in H |-> <<o.names[h[1] + 1], CodeToSpec[h[3] + 1].glyph, o.names[h[2] + 1]>>]
<1>1. /\ rows = {row[h] : h \in H} /\ \A h \in HalvesOf(o) : h[3] < Len(CodeToSpec)
  BY DEF WrittenRows
<1>2. row = [h \in H |-> row[h]] /\ DOMAIN row = H
  OBVIOUS
<1>3. IsFiniteSet(H)
  BY HalvesAreFinite, FS_Subset
<1>4. ASSUME NEW h \in H PROVE row[h] \in RowOver(ToSet(o.names), DOMAIN Pieces)
  <2>1. PICK e \in DOMAIN o.edges : h = <<e[1], e[2], e[3], 0>> \/ h = <<e[2], e[1], e[3], 1>>
    BY DEF HalvesOf, Halves
  <2>2. o.names[e[1] + 1] \in ToSet(o.names) /\ o.names[e[2] + 1] \in ToSet(o.names)
    BY EdgeFacts DEF ToSet
  <2>3. h[3] \in Nat
    <3>1. e[3] \in DOMAIN o.snapshot /\ o.snapshot \in Snapshots
      BY EdgeFacts DEF WellBuilt, ObjectOver
    <3>2. e[3] \in Nat
      BY <3>1 DEF Snapshots
    <3> QED
      BY <2>1, <3>2
  <2>4. h[3] + 1 \in 1 .. Len(CodeToSpec) /\ DOMAIN CodeToSpec = 1 .. Len(CodeToSpec)
    BY <1>1, <2>3, RegistryFacts
  <2>5. CodeToSpec[h[3] + 1].glyph \in DOMAIN Pieces
    BY <2>4, RegistryFacts DEF Glyphs
  <2>6. o.names[h[1] + 1] \in ToSet(o.names) /\ o.names[h[2] + 1] \in ToSet(o.names)
    BY <2>1, <2>2
  <2> QED
    BY <2>5, <2>6 DEF RowOver
<1> HIDE DEF H, row
<1>5. IsFiniteSet(rows)
  BY <1>1, <1>2, <1>3, FiniteImage
<1> QED
  BY <1>1, <1>4, <1>5

LEMMA WhatIsWrittenIsAFile ==
    ASSUME RInv, NEW o, WellBuilt(o), NEW rows \in WrittenRows(o)
    PROVE  IsFile(<<"caugi", CaugiDocument(o, rows)>>) /\ IsFile(<<"graphml", GraphmlDocument(o, rows)>>)
<1>1. IsFiniteSet(rows) /\ rows \subseteq RowOver(ToSet(o.names), DOMAIN Pieces)
  BY RowsAreRows
<1>2. IsSeq(o.names)
  BY DEF WellBuilt, ObjectOver, IsSeq
<1>3. IsFile(<<"caugi", CaugiDocument(o, rows)>>)
  <2>1. SetToSeq(rows) \in Seq(rows)
    BY <1>1, SetToSeqFacts
  <2>2. SetToSeq(rows) \in Seq(RowOver(ToSet(o.names), DOMAIN Pieces))
    BY <1>1, <2>1, WiderSeq
  <2>3. CaugiDocument(o, rows).nodes = o.names /\ CaugiDocument(o, rows).edges = SetToSeq(rows)
    BY DEF CaugiDocument
  <2> QED
    BY <1>2, <2>2, <2>3 DEF IsFile
<1>4. IsFile(<<"graphml", GraphmlDocument(o, rows)>>)
  <2>1. \A r \in rows : r[2] \in DOMAIN Pieces
    BY <1>1 DEF RowOver
  <2>2. IsSeq(GraphmlDocument(o, rows))
    BY <1>1, <1>2, <2>1, WrittenIsSeq
  <2> QED
    BY <2>2 DEF IsFile
<1> QED
  BY <1>3, <1>4

(* Until a reset the registry still has the types of the last graph, under  *)
(* their codes.                                                            *)
LEMMA CurrentTypes ==
    ASSUME RInv, current, NEW o, o.snapshot = TypesOf(snapshot)
    PROVE  \A c \in DOMAIN o.snapshot : c + 1 \in DOMAIN CodeToSpec /\ CodeToSpec[c + 1] = o.snapshot[c]
<1> DEFINE n == Len(snapshot)
<1>1. /\ IsPrefix(snapshot, code_to_spec) /\ CodeToSpec = code_to_spec
      /\ snapshot \in Seq(Registrable) /\ code_to_spec \in Seq(Registrable)
  BY DEF RInv, SnapshotCodesStillHold, CodeToSpec
<1>2. n \in Nat /\ n <= Len(code_to_spec) /\ Len(code_to_spec) \in Nat
      /\ \A i \in 1 .. n : snapshot[i] = code_to_spec[i]
  BY <1>1 DEF IsPrefix
<1>3. DOMAIN o.snapshot = 0 .. (n - 1) /\ \A c \in 0 .. (n - 1) : o.snapshot[c] = snapshot[c + 1]
  BY DEF TypesOf
<1>4. DOMAIN code_to_spec = 1 .. Len(code_to_spec)
  BY <1>1
<1> HIDE DEF n
<1>5. \A c \in 0 .. (n - 1) : c + 1 \in 1 .. n /\ c + 1 \in 1 .. Len(code_to_spec)
  BY <1>2
<1> QED
  BY <1>1, <1>2, <1>3, <1>4, <1>5

LEMMA WritingKeepsFiles ==
    ASSUME FInv, WriteCaugi \/ WriteGraphml
    PROVE  FInv'
<1>1. PICK o \in cg : /\ \/ \E d \in SerializeCaugi(o) : file' = {<<"caugi", d>>}
                         \/ \E d \in SerializeGraphml(o) : file' = {<<"graphml", d>>}
                      /\ saved' = {[object |-> o, current |-> current]}
                      /\ UNCHANGED <<vars, cg>>
  <2>1. CASE WriteCaugi
    BY <2>1 DEF WriteCaugi, Write
  <2>2. CASE WriteGraphml
    BY <2>2 DEF WriteGraphml, Write
  <2> QED
    BY <2>1, <2>2
<1>2. PICK rows \in WrittenRows(o) :
          file' = {<<"caugi", CaugiDocument(o, rows)>>} \/ file' = {<<"graphml", GraphmlDocument(o, rows)>>}
  BY <1>1 DEF SerializeCaugi, SerializeGraphml
<1>3. RInv /\ WellBuilt(o) /\ o.snapshot = TypesOf(snapshot)
  BY DEF FInv
<1>4. RInv' /\ TypesFit' /\ DefaultOps \subseteq edge_ops' /\ UNCHANGED <<snapshot, cg>>
  BY <1>1, RegistryStep, TypesStep, BuiltinsStay, RegistryAssumption DEF FInv, vars
<1>5. \A x \in cg' : WellBuilt(x) /\ x.snapshot = TypesOf(snapshot')
  BY <1>4 DEF FInv
<1>6. \A d \in file' : IsFile(d)
  <2>1. IsFile(<<"caugi", CaugiDocument(o, rows)>>) /\ IsFile(<<"graphml", GraphmlDocument(o, rows)>>)
    BY <1>3, WhatIsWrittenIsAFile
  <2> QED
    BY <1>2, <2>1
<1>7. \A s \in saved' : s.object = o /\ s.current = current
  BY <1>1
<1>8. ASSUME current, o.simple
      PROVE  \A d \in file' : d \in DocumentsOf(o)
  <2>1. rows = RowsWritten(o)
    BY <1>3, <1>8, CurrentTypes, WrittenBySnapshot
  <2> QED
    BY <1>2, <2>1 DEF DocumentsOf
<1> QED
  BY <1>3, <1>4, <1>5, <1>6, <1>7, <1>8 DEF FInv

LEMMA ReadingKeepsFiles ==
    ASSUME FInv, BuildGraph, NEW d \in file, NEW class, class = {} \/ class = {"UNKNOWN"},
           NEW o \in Read(d, class), cg' = {o}, UNCHANGED <<file, saved>>
    PROVE  FInv'
<1>1. PICK data \in ReadData(d), c \in GraphClass :
          o \in Constructed(TRUE, c, data[1], data[2], GlyphToCode, SnapshotNow)
  BY DEF Read
<1>2. IsFile(d)
  BY DEF FInv
<1>3. PICK T, G : data[1] \in Seq(T) /\ data[2] \in Seq(RowOver(T, G))
  BY <1>2, DataTyped
<1> QED
  BY <1>1, <1>3, BuildingKeepsFiles

LEMMA FilesKeep ==
    ASSUME FInv, [FilesNext]_fileVars
    PROVE  FInv'
<1>1. CASE Registry
  <2>1. [Next]_vars /\ UNCHANGED <<snapshot, cg, file, saved>>
    BY <1>1 DEF Registry, Next, RegisterEdge, SealRegistry, Reset
  <2> QED
    BY <2>1, RegistryKeepsFiles
<1>2. ASSUME NEW t \in Tables, Construct(t)
      PROVE  FInv'
  <2>1. PICK o \in Constructed(t.simple, t.class, t.nodes, t.rows, GlyphToCode, SnapshotNow) : cg' = {o}
    BY <1>2 DEF Construct
  <2>2. BuildGraph /\ UNCHANGED <<file, saved>>
    BY <1>2 DEF Construct
  <2>3. /\ t.simple \in BOOLEAN /\ t.class \in GraphClass
        /\ t.nodes \in Seq(STRING) /\ t.rows \in Seq(RowOver(STRING, STRING))
    BY FilesAssumption DEF EdgeRow, RowOver
  <2> QED
    BY <2>1, <2>2, <2>3, BuildingKeepsFiles
<1>3. CASE WriteCaugi \/ WriteGraphml
  BY <1>3, WritingKeepsFiles
<1>4. CASE ReadCaugi
  <2>1. PICK d \in file : \E o \in Read(d, {}) : cg' = {o}
    BY <1>4 DEF ReadCaugi
  <2>2. BuildGraph /\ UNCHANGED <<file, saved>>
    BY <1>4 DEF ReadCaugi
  <2> QED
    BY <2>1, <2>2, ReadingKeepsFiles
<1>5. ASSUME NEW class \in {{}, {"UNKNOWN"}}, ReadGraphml(class)
      PROVE  FInv'
  <2>1. PICK d \in file : \E o \in Read(d, class) : cg' = {o}
    BY <1>5 DEF ReadGraphml
  <2>2. BuildGraph /\ UNCHANGED <<file, saved>>
    BY <1>5 DEF ReadGraphml
  <2> QED
    BY <2>1, <2>2, ReadingKeepsFiles
<1>6. ASSUME NEW d \in Foreign, Receive(EventsOf(d))
      PROVE  FInv'
  <2>1. /\ file' = {EventsOf(d)} /\ saved' = {} /\ UNCHANGED vars /\ UNCHANGED <<snapshot, cg>>
    BY <1>6 DEF Receive, vars
  <2>2. RInv' /\ TypesFit' /\ DefaultOps \subseteq edge_ops'
    BY <2>1, RegistryStep, TypesStep, BuiltinsStay, RegistryAssumption DEF FInv
  <2>3. \A x \in file' : IsFile(x)
    BY <2>1, ForeignIsFile
  <2> QED
    BY <2>1, <2>2, <2>3 DEF FInv
<1>7. CASE UNCHANGED fileVars
  <2>1. [Next]_vars /\ UNCHANGED <<snapshot, cg, file, saved>>
    BY <1>7 DEF fileVars, vars
  <2> QED
    BY <2>1, RegistryKeepsFiles
<1> QED
  BY <1>1, <1>2, <1>3, <1>4, <1>5, <1>6, <1>7 DEF FilesNext

(* Graphs, their types and their files stay as FInv says, whatever is      *)
(* built, registered, reset, written, received and read.                   *)
THEOREM FilesInvariant == FilesSpec => []FInv
<1>1. FilesInit => FInv
  BY FilesStart
<1>2. FInv /\ [FilesNext]_fileVars => FInv'
  BY FilesKeep
<1> QED
  BY <1>1, <1>2, PTL DEF FilesSpec

(* What a document of a graph says, to whom knows its types. *)
LEMMA DocumentSays ==
    ASSUME RInv, NEW o, WellBuilt(o), StillKnown(o), NEW d \in DocumentsOf(o)
    PROVE  ReadData(d) = {<<o.names, SetToSeq(RowsWritten(o)), o.class>>}
<1> DEFINE rows == RowsWritten(o)
<1>1. /\ IsFiniteSet(rows)
      /\ \A r \in rows : /\ r = <<r[1], r[2], r[3]>>
                         /\ r[1] \in ToSet(o.names) /\ r[3] \in ToSet(o.names)
                         /\ r[2] \in DOMAIN GlyphToCode /\ r[2] \in DOMAIN Pieces
  <2>1. \A e \in DOMAIN o.edges : /\ o.snapshot[e[3]].glyph \in DOMAIN GlyphToCode
                                  /\ o.snapshot[e[3]].glyph \in DOMAIN Pieces
    BY NewCodeFacts, RegistryFacts
  <2> QED
    BY <2>1, RowsWrittenFacts
<1>2. IsSeq(o.names)
  BY DEF WellBuilt, ObjectOver, IsSeq
<1> HIDE DEF rows
<1>3. CASE d = <<"caugi", CaugiDocument(o, rows)>>
  <2>1. Known(GlyphToCode, rows)
    BY <1>1 DEF Known
  <2>2. DeserializeCaugi(CaugiDocument(o, rows)) = {<<o.names, SetToSeq(rows), o.class>>}
    BY <1>1, <2>1, CaugiParsed
  <2> QED
    BY <1>3, <2>2 DEF ReadData, rows
<1>4. CASE d = <<"graphml", GraphmlDocument(o, rows)>>
  <2>1. DeserializeGraphml(GraphmlDocument(o, rows)) = {<<o.names, SetToSeq(rows), o.class>>}
    BY <1>1, <1>2, GraphmlParsed DEF Readable
  <2> QED
    BY <1>4, <2>1 DEF ReadData, rows
<1> QED
  BY <1>3, <1>4 DEF DocumentsOf, rows

LEMMA ReadTold ==
    ASSUME NEW d, NEW data, ReadData(d) = {data}, data[3] \in GraphClass
    PROVE  Read(d, {}) = Constructed(TRUE, data[3], data[1], data[2], GlyphToCode, SnapshotNow)
<1> DEFINE told(x) == IF x[3] \in GraphClass
                      THEN Constructed(TRUE, x[3], x[1], x[2], GlyphToCode, SnapshotNow) ELSE {}
<1>1. Read(d, {}) = UNION {told(x) : x \in ReadData(d)}
  BY DEF Read
<1>2. UNION {told(x) : x \in {data}} = told(data)
  OBVIOUS
<1> QED
  BY <1>1, <1>2

LEMMA ReadBack ==
    ASSUME FInv
    PROVE  FilesAreReadBack
<1> SUFFICES ASSUME NEW s \in saved, NEW d \in file,
                    s.current, s.object.simple,
                    \A c \in {e[3] : e \in DOMAIN s.object.edges} : s.object.snapshot[c] \in ToSet(CodeToSpec),
                    Len(CodeToSpec) < MaxTypes
             PROVE  /\ Read(d, {}) # {}
                    /\ \A back \in Read(d, {}) :
                           /\ back.names = s.object.names
                           /\ back.class = s.object.class
                           /\ TypedEdges(back) = TypedEdges(s.object)
  BY DEF FilesAreReadBack
<1> DEFINE o == s.object
           data == <<o.names, SetToSeq(RowsWritten(o)), o.class>>
<1>1. RInv /\ WellBuilt(o) /\ d \in DocumentsOf(o)
  BY DEF FInv
<1>2. StillKnown(o)
  BY DEF StillKnown
<1>3. o.class \in GraphClass
  BY <1>1 DEF WellBuilt, ObjectOver
<1> HIDE DEF o
<1>4. ReadData(d) = {data}
  BY <1>1, <1>2, DocumentSays
<1> DEFINE backs == Constructed(TRUE, o.class, o.names, SetToSeq(RowsWritten(o)), GlyphToCode, SnapshotNow)
<1>5. Read(d, {}) = backs
  <2>1. data[1] = o.names /\ data[2] = SetToSeq(RowsWritten(o)) /\ data[3] = o.class
    OBVIOUS
  <2> HIDE DEF data
  <2>2. Read(d, {}) = Constructed(TRUE, data[3], data[1], data[2], GlyphToCode, SnapshotNow)
    BY <1>3, <1>4, <2>1, ReadTold
  <2> QED
    BY <2>1, <2>2
<1>6. /\ backs # {}
      /\ \A back \in backs : /\ back.names = o.names
                             /\ back.class = o.class
                             /\ TypedEdges(back) = TypedEdges(o)
  BY <1>1, <1>2, BuiltAgain DEF o
<1> HIDE DEF backs
<1> QED
  BY <1>5, <1>6 DEF o

(* "Reads a file and returns a caugi object" (R/format-caugi.R,            *)
(* R/format-graphml.R): a simple graph whose types are registered comes     *)
(* back from either format as it was written, whatever its size, its types, *)
(* the limit on types and what happened to the registry in between.        *)
THEOREM EveryFileIsReadBack == FilesSpec => []FilesAreReadBack
BY FilesInvariant, ReadBack, PTL

--------------------------------------------------------------------------------
(* Documents of other programs *)

(* What is picked from a longer list. *)
LEMMA PickedOfLonger ==
    ASSUME NEW T, NEW s \in Seq(T), NEW x \in T, NEW I \in SUBSET DOMAIN s
    PROVE  /\ Picked(Append(s, x), I) = Picked(s, I)
           /\ Picked(Append(s, x), I \cup {Len(s) + 1}) = Append(Picked(s, I), x)
<1> DEFINE n == Len(s)
           m == Cardinality(I)
           longer == Append(s, x)
           J == I \cup {n + 1}
           below(K) == {p \in K \X K : p[1] < p[2]}
           at == InOrder(I, below(I))
           then == InOrder(J, below(J))
<1>1. /\ n \in Nat /\ DOMAIN s = 1 .. n /\ longer \in Seq(T) /\ DOMAIN longer = 1 .. (n + 1)
      /\ (\A i \in 1 .. n : longer[i] = s[i]) /\ longer[n + 1] = x
  BY LenProperties
<1> HIDE DEF longer, n
<1>2. /\ I \in SUBSET Nat /\ J \in SUBSET Nat /\ IsFiniteSet(I) /\ IsFiniteSet(J)
      /\ m \in Nat /\ Cardinality(J) = m + 1 /\ n + 1 \notin I /\ \A i \in I : i <= n
  <2>1. IsFiniteSet(1 .. n) /\ I \in SUBSET (1 .. n) /\ I \in SUBSET Nat
    BY <1>1, UpTo
  <2>2. IsFiniteSet(I) /\ n + 1 \notin I /\ \A i \in I : i <= n
    BY <1>1, <2>1, FS_Subset
  <2> QED
    BY <1>1, <2>1, <2>2, FS_AddElement, FS_CardinalityType
<1>3. StrictOrder(I, below(I)) /\ StrictOrder(J, below(J))
  BY <1>2, NumbersAreOrdered
<1>4. /\ at \in [1 .. m -> I]
      /\ \A k \in 1 .. m : Cardinality({y \in I : <<y, at[k]>> \in below(I)}) = k - 1
      /\ then \in [1 .. (m + 1) -> J]
  <2> HIDE DEF below, J
  <2> QED
    BY <1>2, <1>3, InOrderFacts
<1>5. ASSUME NEW k \in 1 .. m PROVE then[k] = at[k]
  <2>1. at[k] \in I /\ at[k] \in J /\ k \in 1 .. Cardinality(J)
    BY <1>2, <1>4
  <2> HIDE DEF at
  <2>2. {y \in J : <<y, at[k]>> \in below(J)} = {y \in I : <<y, at[k]>> \in below(I)}
    <3>1. \A y \in J : <<y, at[k]>> \in below(J) <=> y < at[k]
      BY <2>1
    <3>2. \A y \in I : <<y, at[k]>> \in below(I) <=> y < at[k]
      BY <2>1
    <3>3. at[k] <= n /\ at[k] \in Nat
      BY <1>2, <2>1
    <3>4. ~ (n + 1 < at[k])
      BY <1>1, <3>3
    <3> QED
      BY <3>1, <3>2, <3>4
  <2>3. Cardinality({y \in J : <<y, at[k]>> \in below(J)}) = k - 1
    BY <1>4, <2>2 DEF at
  <2> HIDE DEF below, J
  <2> QED
    BY <1>2, <1>3, <2>1, <2>3, InOrderByRank
<1>6. then[m + 1] = n + 1
  <2>1. {y \in J : <<y, n + 1>> \in below(J)} = I
    <3>1. \A y \in J : <<y, n + 1>> \in below(J) <=> y < n + 1
      OBVIOUS
    <3>2. \A y \in I : y < n + 1
      BY <1>1, <1>2
    <3>3. ~ (n + 1 < n + 1)
      BY <1>1
    <3> QED
      BY <3>1, <3>2, <3>3
  <2>2. n + 1 \in J /\ m + 1 \in 1 .. Cardinality(J) /\ m = (m + 1) - 1
    BY <1>2
  <2>3. Cardinality({y \in J : <<y, n + 1>> \in below(J)}) = (m + 1) - 1
    BY <2>1, <2>2
  <2> HIDE DEF below, J
  <2> QED
    BY <1>2, <1>3, <2>2, <2>3, InOrderByRank
<1>7. /\ Picked(longer, I) = [k \in DOMAIN at |-> longer[at[k]]]
      /\ Picked(s, I) = [k \in DOMAIN at |-> s[at[k]]]
      /\ Picked(longer, J) = [k \in DOMAIN then |-> longer[then[k]]]
  BY DEF Picked
<1> HIDE DEF at, then, below, J
<1>8. DOMAIN at = 1 .. m /\ DOMAIN then = 1 .. (m + 1) /\ \A k \in 1 .. m : at[k] \in 1 .. n
  BY <1>1, <1>4
<1>9. Picked(longer, I) = Picked(s, I)
  BY <1>1, <1>7, <1>8
<1> DEFINE p == Picked(s, I)
<1>10. p \in Seq(T) /\ Len(p) = m /\ p = [k \in 1 .. m |-> p[k]] /\ \A k \in 1 .. m : p[k] = s[at[k]]
  BY <1>7, <1>8, PickedFacts
<1> HIDE DEF p
<1>11. Append(p, x) = [k \in 1 .. (m + 1) |-> IF k = m + 1 THEN x ELSE p[k]]
  BY <1>2, <1>10
<1>12. ASSUME NEW k \in 1 .. (m + 1)
       PROVE  longer[then[k]] = IF k = m + 1 THEN x ELSE p[k]
  <2>1. CASE k = m + 1
    BY <1>1, <1>6, <2>1
  <2>2. CASE k # m + 1
    <3>1. k \in 1 .. m
      BY <1>2, <2>2
    <3> QED
      BY <1>1, <1>5, <1>8, <1>10, <2>2, <3>1
  <2> QED
    BY <2>1, <2>2
<1>13. Picked(longer, J) = Append(p, x)
  BY <1>7, <1>8, <1>11, <1>12
<1> QED
  BY <1>9, <1>13 DEF longer, J, p, n

LEMMA PickedNone == ASSUME NEW s PROVE Picked(s, {}) = <<>>
<1>1. Cardinality({}) = 0
  BY FS_EmptySet
<1>2. DOMAIN InOrder({}, {p \in {} \X {} : p[1] < p[2]}) = {}
  BY <1>1 DEF InOrder
<1> QED
  BY <1>2 DEF Picked

(* A function of the elements of a list, over a longer one. *)
Over(f, s) == [i \in DOMAIN s |-> f[s[i]]]

LEMMA OverLonger ==
    ASSUME NEW T, NEW s \in Seq(T), NEW x \in T, NEW f
    PROVE  /\ Over(f, Append(s, x)) = Append(Over(f, s), f[x])
           /\ IsSeq(Over(f, s)) /\ Len(Over(f, s)) = Len(s)
<1> DEFINE n == Len(s)
           o == Over(f, s)
<1>1. /\ n \in Nat /\ DOMAIN s = 1 .. n /\ DOMAIN Append(s, x) = 1 .. (n + 1)
      /\ \A i \in 1 .. (n + 1) : Append(s, x)[i] = IF i = n + 1 THEN x ELSE s[i]
  BY LenProperties
<1>2. o = [i \in 1 .. n |-> f[s[i]]]
  BY <1>1 DEF Over
<1> HIDE DEF n
<1>3. o = [i \in 1 .. n |-> o[i]] /\ \A i \in 1 .. n : o[i] = f[s[i]]
  BY <1>2
<1> HIDE DEF o
<1>4. IsSeq(o) /\ Len(o) = n
  BY <1>1, <1>3, ListIsSeq
<1>5. PICK U : o \in Seq(U)
  BY <1>4 DEF IsSeq
<1>6. Append(o, f[x]) = [i \in 1 .. (n + 1) |-> IF i = n + 1 THEN f[x] ELSE o[i]]
  BY <1>1, <1>4, <1>5
<1>7. Over(f, Append(s, x)) = [i \in 1 .. (n + 1) |-> f[Append(s, x)[i]]]
  BY <1>1 DEF Over
<1>8. ASSUME NEW i \in 1 .. (n + 1)
      PROVE  f[Append(s, x)[i]] = IF i = n + 1 THEN f[x] ELSE o[i]
  <2>1. CASE i = n + 1
    BY <1>1, <2>1
  <2>2. CASE i # n + 1
    <3>1. i \in 1 .. n
      BY <1>1, <2>2
    <3> QED
      BY <1>1, <1>3, <2>2, <3>1
  <2> QED
    BY <2>1, <2>2
<1>9. Over(f, Append(s, x)) = Append(o, f[x])
  BY <1>6, <1>7, <1>8
<1> QED
  BY <1>4, <1>9 DEF o, n

LEMMA OfKindLonger ==
    ASSUME NEW items \in Seq(Item), NEW item \in Item, NEW kind
    PROVE  /\ OfKind(items, kind) \in Seq(Item)
           /\ OfKind(Append(items, item), kind) = IF item[1] = kind THEN Append(OfKind(items, kind), item)
                                                  ELSE OfKind(items, kind)
<1> DEFINE n == Len(items)
           longer == Append(items, item)
           I == {i \in DOMAIN items : items[i][1] = kind}
<1>1. /\ n \in Nat /\ DOMAIN items = 1 .. n /\ DOMAIN longer = 1 .. (n + 1)
      /\ \A i \in 1 .. (n + 1) : longer[i] = IF i = n + 1 THEN item ELSE items[i]
  BY LenProperties
<1>2. OfKind(items, kind) = Picked(items, I) /\ I \in SUBSET DOMAIN items
  BY DEF OfKind
<1>3. OfKind(longer, kind) = Picked(longer, {i \in DOMAIN longer : longer[i][1] = kind})
  BY DEF OfKind
<1>4. {i \in DOMAIN longer : longer[i][1] = kind} = IF item[1] = kind THEN I \cup {n + 1} ELSE I
  <2>1. \A i \in 1 .. (n + 1) : i \in 1 .. n \/ i = n + 1
    BY <1>1
  <2>2. n + 1 \in 1 .. (n + 1) /\ n + 1 \notin 1 .. n /\ 1 .. n \subseteq 1 .. (n + 1)
    BY <1>1
  <2> HIDE DEF longer, n
  <2>3. \A i \in 1 .. n : longer[i] = items[i]
    BY <1>1, <2>2
  <2>4. longer[n + 1] = item
    BY <1>1, <2>2
  <2> QED
    BY <1>1, <2>1, <2>2, <2>3, <2>4
<1> HIDE DEF I
<1>5. /\ Picked(longer, I) = Picked(items, I)
      /\ Picked(longer, I \cup {n + 1}) = Append(Picked(items, I), item)
      /\ Picked(items, I) \in Seq(Item)
  <2>1. Picked(items, I) \in Seq(Item)
    BY <1>2, PickedFacts
  <2>2. I \in SUBSET DOMAIN items
    BY <1>2
  <2>3. /\ Picked(Append(items, item), I) = Picked(items, I)
        /\ Picked(Append(items, item), I \cup {Len(items) + 1}) = Append(Picked(items, I), item)
    BY <2>2, PickedOfLonger
  <2> QED
    BY <2>1, <2>3
<1> HIDE DEF longer, n
<1>6. OfKind(longer, kind) = IF item[1] = kind THEN Append(OfKind(items, kind), item)
                             ELSE OfKind(items, kind)
  BY <1>2, <1>3, <1>4, <1>5
<1> QED
  BY <1>2, <1>5, <1>6 DEF longer

LEMMA NothingOfAKind ==
    OuterNodes(<<>>) = <<>> /\ OuterRows(<<>>) = <<>> /\ OuterClass(<<>>) = "UNKNOWN"
<1>1. \A kind : OfKind(<<>>, kind) = <<>>
  <2>1. \A kind : {i \in DOMAIN <<>> : <<>>[i][1] = kind} = {}
    OBVIOUS
  <2> QED
    BY <2>1, PickedNone DEF OfKind
<1> QED
  BY <1>1 DEF OuterNodes, OuterRows, OuterClass

(* What one more item adds to a graph. *)
LEMMA OneMoreItem ==
    ASSUME NEW items \in Seq(Item), NEW item \in Item
    PROVE  LET more == Append(items, item) IN
           /\ OuterNodes(more) = IF item[1] = "node" THEN Append(OuterNodes(items), item[2])
                                                     ELSE OuterNodes(items)
           /\ OuterRows(more) = IF item[1] = "edge" THEN Append(OuterRows(items), RowOfItem(item))
                                                    ELSE OuterRows(items)
           /\ OuterClass(more) = IF item[1] = "class" THEN item[2] ELSE OuterClass(items)
           /\ IsSeq(OuterRows(items))
<1> DEFINE more == Append(items, item)
           second == [y \in Item |-> y[2]]
           row == [y \in Item |-> RowOfItem(y)]
<1>1. ASSUME NEW kind
      PROVE  /\ OfKind(items, kind) \in Seq(Item)
             /\ OfKind(more, kind) = IF item[1] = kind THEN Append(OfKind(items, kind), item)
                                     ELSE OfKind(items, kind)
             /\ OfKind(more, kind) \in Seq(Item)
  BY OfKindLonger
<1>2. ASSUME NEW s \in Seq(Item)
      PROVE  /\ [i \in DOMAIN s |-> s[i][2]] = Over(second, s)
             /\ [i \in DOMAIN s |-> RowOfItem(s[i])] = Over(row, s)
  <2>1. \A i \in DOMAIN s : s[i] \in Item
    OBVIOUS
  <2> QED
    BY <2>1 DEF Over
<1>3. /\ OuterNodes(items) = Over(second, OfKind(items, "node"))
      /\ OuterNodes(more) = Over(second, OfKind(more, "node"))
      /\ OuterRows(items) = Over(row, OfKind(items, "edge"))
      /\ OuterRows(more) = Over(row, OfKind(more, "edge"))
  BY <1>1, <1>2 DEF OuterNodes, OuterRows
<1>4. second[item] = item[2] /\ row[item] = RowOfItem(item)
  OBVIOUS
<1> HIDE DEF second, row, more
<1>5. /\ OuterNodes(more) = IF item[1] = "node" THEN Append(OuterNodes(items), item[2]) ELSE OuterNodes(items)
      /\ OuterRows(more) = IF item[1] = "edge" THEN Append(OuterRows(items), RowOfItem(item)) ELSE OuterRows(items)
      /\ IsSeq(OuterRows(items))
  <2> DEFINE named == OfKind(items, "node")
             linked == OfKind(items, "edge")
  <2>1. named \in Seq(Item) /\ linked \in Seq(Item)
    BY <1>1
  <2>2. Over(second, Append(named, item)) = Append(Over(second, named), item[2])
    BY <1>4, <2>1, OverLonger
  <2>3. Over(row, Append(linked, item)) = Append(Over(row, linked), RowOfItem(item)) /\ IsSeq(Over(row, linked))
    BY <1>4, <2>1, OverLonger
  <2>4. /\ OfKind(more, "node") = IF item[1] = "node" THEN Append(named, item) ELSE named
        /\ OfKind(more, "edge") = IF item[1] = "edge" THEN Append(linked, item) ELSE linked
    BY <1>1
  <2>5. OuterNodes(items) = Over(second, named) /\ OuterRows(items) = Over(row, linked)
    BY <1>3
  <2> HIDE DEF named, linked
  <2> QED
    BY <1>3, <2>2, <2>3, <2>4, <2>5
<1>6. OuterClass(more) = IF item[1] = "class" THEN item[2] ELSE OuterClass(items)
  <2> DEFINE classes == OfKind(items, "class")
  <2>1. classes \in Seq(Item)
    BY <1>1
  <2> HIDE DEF classes
  <2>2. Append(classes, item) # <<>> /\ Append(classes, item)[Len(Append(classes, item))] = item
    BY <2>1
  <2> QED
    BY <1>1, <2>2 DEF OuterClass, classes
<1> QED
  BY <1>5, <1>6 DEF more

(* Inside of an edge without a type so far. *)
Untyped(nodes, rows, class, ends) ==
    At(nodes, rows, class, 1, TRUE, ends, FALSE, FALSE, "", <<>>)

(* Data under another key is passed over. *)
LEMMA PassesData ==
    ASSUME NEW nodes, NEW rows, NEW class, NEW ends, NEW seen, NEW value
    PROVE  HandleEvent(At(nodes, rows, class, 1, TRUE, ends, seen, TRUE, "weight", value), End("data"))
               = At(nodes, rows, class, 1, TRUE, ends, seen, FALSE, "", <<>>)
<1> DEFINE s == At(nodes, rows, class, 1, TRUE, ends, seen, TRUE, "weight", value)
           closed == [s EXCEPT !.in_data = FALSE, !.data_key = "", !.data_value = <<>>]
<1>1. HandleEvent(s, End("data")) = CloseData(s)
  BY DEF HandleEvent, CloseElement, At, End
<1>2. CloseData(s) = closed
  BY DEF CloseData, At
<1>3. closed \in AtSet(nodes, rows, class, 1, TRUE, ends, seen, FALSE, "", <<>>)
  BY DEF At, AtSet
<1> QED
  BY <1>1, <1>2, <1>3, IsAt

(* At the end of a second type of an edge. *)
InSecondType(nodes, rows, class, ends, glyph) ==
    At(nodes, rows, class, 1, TRUE, ends, TRUE, TRUE, "edge_type", Pieces[glyph])

LEMMA AppendIs ==
    ASSUME NEW s, IsSeq(s), NEW n \in Nat, n = Len(s), NEW x
    PROVE  /\ Append(s, x) = [i \in 1 .. (n + 1) |-> IF i = n + 1 THEN x ELSE s[i]]
           /\ Len(Append(s, x)) = n + 1 /\ Append(s, x)[n + 1] = x
<1>1. PICK T : s \in Seq(T)
  BY DEF IsSeq
<1>2. Append(s, x) = [i \in 1 .. (n + 1) |-> IF i = n + 1 THEN x ELSE s[i]]
  <2> DEFINE f == [y \in {x} |-> x]
  <2>1. f[x] = x
    OBVIOUS
  <2> HIDE DEF f
  <2>2. Append(s, f[x]) = [i \in 1 .. (n + 1) |-> IF i = n + 1 THEN f[x] ELSE s[i]]
    BY <1>1
  <2> QED
    BY <2>1, <2>2
<1>3. n + 1 \in 1 .. (n + 1)
  OBVIOUS
<1>4. Len(Append(s, x)) = n + 1
  BY <1>1, AppendProperties
<1> QED
  BY <1>2, <1>3, <1>4

LEMMA RowCorrected ==
    ASSUME NEW rows, IsSeq(rows), NEW ends, NEW old, NEW glyph
    PROVE  LET before == WithRow(rows, ends, old) IN
           [before EXCEPT ![Len(before)][2] = glyph] = WithRow(rows, ends, glyph)
<1> DEFINE n == Len(rows)
           row == <<ends[1], old, ends[2]>>
           new == <<ends[1], glyph, ends[2]>>
           before == Append(rows, row)
<1>1. PICK T : rows \in Seq(T)
  BY DEF IsSeq
<1>2. n \in Nat /\ [row EXCEPT ![2] = glyph] = new
  BY <1>1, LenProperties
<1> HIDE DEF row, new
<1>3. /\ Len(before) = n + 1 /\ before[n + 1] = row
      /\ before = [i \in 1 .. (n + 1) |-> IF i = n + 1 THEN row ELSE rows[i]]
      /\ Append(rows, new) = [i \in 1 .. (n + 1) |-> IF i = n + 1 THEN new ELSE rows[i]]
  BY <1>2, AppendIs
<1> HIDE DEF n, before
<1>4. [before EXCEPT ![n + 1] = [before[n + 1] EXCEPT ![2] = glyph]] = Append(rows, new)
  BY <1>2, <1>3
<1>5. [before EXCEPT ![Len(before)][2] = glyph]
          = [before EXCEPT ![Len(before)] = [before[Len(before)] EXCEPT ![2] = glyph]]
  OBVIOUS
<1> QED
  BY <1>3, <1>4, <1>5 DEF WithRow, before, row, new

LEMMA CorrectsType ==
    ASSUME NEW nodes, NEW rows, NEW class, NEW ends, NEW old, NEW glyph, Readable(glyph), IsSeq(rows)
    PROVE  HandleEvent(InSecondType(nodes, WithRow(rows, ends, old), class, ends, glyph), End("data"))
               = Typed(nodes, WithRow(rows, ends, glyph), class, ends)
<1> DEFINE before == WithRow(rows, ends, old)
           more == WithRow(rows, ends, glyph)
           s == At(nodes, before, class, 1, TRUE, ends, TRUE, TRUE, "edge_type", Pieces[glyph])
           closed == [s EXCEPT !.in_data = FALSE, !.data_key = "", !.data_value = <<>>]
           t == [closed EXCEPT !.rows = more]
<1>1. HandleEvent(s, End("data")) = CloseData(s)
  BY DEF HandleEvent, CloseElement, At, End
<1>2. GlyphOf(s.data_value) # {} /\ (CHOOSE g \in GlyphOf(s.data_value) : TRUE) = glyph
  BY OneGlyph DEF At, Readable
<1>3. CloseData(s) = EdgeType(closed, glyph)
  BY <1>2 DEF CloseData, At
<1>4. closed \in AtSet(nodes, before, class, 1, TRUE, ends, TRUE, FALSE, "", <<>>)
  BY DEF At, AtSet
<1> HIDE DEF closed
<1>5. closed.edge_type_seen = TRUE /\ closed.rows = before
  BY <1>4 DEF AtSet
<1>6. EdgeType(closed, glyph) = [closed EXCEPT !.rows[Len(closed.rows)][2] = glyph]
  BY <1>5 DEF EdgeType
<1>7. [closed EXCEPT !.rows[Len(closed.rows)][2] = glyph]
          = [closed EXCEPT !.rows = [closed.rows EXCEPT ![Len(closed.rows)][2] = glyph]]
  OBVIOUS
<1>8. [before EXCEPT ![Len(before)][2] = glyph] = more
  BY RowCorrected
<1> HIDE DEF before, more
<1>9. EdgeType(closed, glyph) = t
  BY <1>5, <1>6, <1>7, <1>8
<1>10. t \in AtSet(nodes, more, class, 1, TRUE, ends, TRUE, FALSE, "", <<>>)
  BY <1>4 DEF AtSet
<1>11. HandleEvent(s, End("data")) = Typed(nodes, more, class, ends)
  BY <1>1, <1>3, <1>9, <1>10, IsAt DEF Typed
<1> QED
  BY <1>11 DEF InSecondType, before, more

(* What another program says of the type of an edge. *)
Typing(glyph) == Data("weight", <<"2">>) \o Data("edge_type", Pieces[glyph])

LEMMA ReadsTyping ==
    ASSUME NEW nodes, NEW rows, NEW class, NEW ends, NEW old, NEW glyph, Readable(glyph), IsSeq(rows)
    PROVE  /\ IsSeq(Typing(glyph))
           /\ Leads(Untyped(nodes, rows, class, ends), Typing(glyph),
                    Typed(nodes, WithRow(rows, ends, glyph), class, ends))
           /\ Leads(Typed(nodes, WithRow(rows, ends, old), class, ends), Typing(glyph),
                    Typed(nodes, WithRow(rows, ends, glyph), class, ends))
<1> DEFINE weight == Data("weight", <<"2">>)
           type == Data("edge_type", Pieces[glyph])
           before == WithRow(rows, ends, old)
           after == WithRow(rows, ends, glyph)
           s == Untyped(nodes, rows, class, ends)
           t == Typed(nodes, before, class, ends)
           u == Typed(nodes, after, class, ends)
<1>1. /\ IsSeq(<<"2">>) /\ IsSeq(Pieces[glyph])
      /\ IsSeq(weight) /\ IsSeq(type)
  <2>1. Pieces[glyph] \in Seq(STRING)
    BY FilesAssumption DEF Readable
  <2>2. IsSeq(Pieces[glyph]) /\ IsSeq(<<"2">>)
    BY <2>1, OneIsSeq DEF IsSeq
  <2> QED
    BY <2>2, DataIsSeq
<1>2. Leads(s, weight, s)
  <2>1. HandleEvent(At(nodes, rows, class, 1, TRUE, ends, FALSE, TRUE, "weight", <<"2">>), End("data"))
            = At(nodes, rows, class, 1, TRUE, ends, FALSE, FALSE, "", <<>>)
    BY PassesData
  <2>2. Leads(At(nodes, rows, class, 1, TRUE, ends, FALSE, FALSE, "", <<>>), weight,
              At(nodes, rows, class, 1, TRUE, ends, FALSE, FALSE, "", <<>>))
    BY <1>1, <2>1, ReadsData
  <2> QED
    BY <2>2 DEF Untyped
<1>3. Leads(t, weight, t)
  <2>1. HandleEvent(At(nodes, before, class, 1, TRUE, ends, TRUE, TRUE, "weight", <<"2">>), End("data"))
            = At(nodes, before, class, 1, TRUE, ends, TRUE, FALSE, "", <<>>)
    BY PassesData
  <2>2. Leads(At(nodes, before, class, 1, TRUE, ends, TRUE, FALSE, "", <<>>), weight,
              At(nodes, before, class, 1, TRUE, ends, TRUE, FALSE, "", <<>>))
    BY <1>1, <2>1, ReadsData
  <2> QED
    BY <2>2 DEF Typed
<1>4. Leads(s, type, u)
  <2>1. HandleEvent(InType(nodes, rows, class, ends, glyph), End("data")) = u
    BY ReadsType
  <2>2. HandleEvent(At(nodes, rows, class, 1, TRUE, ends, FALSE, TRUE, "edge_type", Pieces[glyph]),
                    End("data")) = u
    BY <2>1 DEF InType
  <2>3. Leads(At(nodes, rows, class, 1, TRUE, ends, FALSE, FALSE, "", <<>>), type, u)
    BY <1>1, <2>2, ReadsData
  <2> QED
    BY <2>3 DEF Untyped
<1>5. Leads(t, type, u)
  <2>1. HandleEvent(InSecondType(nodes, before, class, ends, glyph), End("data")) = u
    BY CorrectsType
  <2>2. HandleEvent(At(nodes, before, class, 1, TRUE, ends, TRUE, TRUE, "edge_type", Pieces[glyph]),
                    End("data")) = u
    BY <2>1 DEF InSecondType
  <2>3. Leads(At(nodes, before, class, 1, TRUE, ends, TRUE, FALSE, "", <<>>), type, u)
    BY <1>1, <2>2, ReadsData
  <2> QED
    BY <2>3 DEF Typed
<1> HIDE DEF s, t, u, weight, type
<1>6. Typing(glyph) = weight \o type
  BY DEF Typing, weight, type
<1>7. IsSeq(weight \o type) /\ Leads(s, weight \o type, u) /\ Leads(t, weight \o type, u)
  BY <1>1, <1>2, <1>3, <1>4, <1>5, LeadsJoined
<1> QED
  BY <1>6, <1>7 DEF s, t, u

(* Of the types an edge is given the last one counts. *)
LEMMA ReadsTypes ==
    ASSUME NEW nodes, NEW rows, NEW class, NEW ends, IsSeq(rows),
           NEW n \in Nat, NEW types, \A i \in 1 .. n : Readable(types[i]),
           NEW seqs, seqs = [i \in 1 .. n |-> Typing(types[i])]
    PROVE  /\ IsSeq(FlattenSeq(seqs))
           /\ Leads(Untyped(nodes, rows, class, ends), FlattenSeq(seqs),
                    IF n = 0 THEN Untyped(nodes, rows, class, ends)
                             ELSE Typed(nodes, WithRow(rows, ends, types[n]), class, ends))
<1> DEFINE untyped == Untyped(nodes, rows, class, ends)
           typed(g) == Typed(nodes, WithRow(rows, ends, g), class, ends)
           st == [k \in 0 .. n |-> IF k = 0 THEN untyped ELSE typed(types[k])]
<1>1. ASSUME NEW old, NEW glyph, Readable(glyph)
      PROVE  /\ IsSeq(Typing(glyph))
             /\ Leads(untyped, Typing(glyph), typed(glyph))
             /\ Leads(typed(old), Typing(glyph), typed(glyph))
  BY <1>1, ReadsTyping
<1> HIDE DEF untyped, typed
<1>2. ASSUME NEW i \in 1 .. n
      PROVE  /\ seqs[i] = Typing(types[i]) /\ Readable(types[i])
             /\ i - 1 \in 0 .. n /\ i \in 0 .. n /\ i # 0
  OBVIOUS
<1>3. ASSUME NEW i \in 1 .. n
      PROVE  IsSeq(seqs[i]) /\ Leads(st[i - 1], seqs[i], st[i])
  <2>1. st[i] = typed(types[i]) /\ (st[i - 1] = untyped \/ st[i - 1] = typed(types[i - 1]))
    BY <1>2
  <2> HIDE DEF st
  <2> QED
    BY <1>1, <1>2, <2>1
<1>4. st[0] = untyped /\ st[n] = IF n = 0 THEN untyped ELSE typed(types[n])
  <2>1. 0 \in 0 .. n /\ n \in 0 .. n
    OBVIOUS
  <2> QED
    BY <2>1
<1>5. seqs = [i \in 1 .. n |-> seqs[i]]
  OBVIOUS
<1> HIDE DEF st
<1>6. IsSeq(FlattenSeq(seqs)) /\ Leads(st[0], FlattenSeq(seqs), st[n])
  BY <1>3, <1>5, LeadsAlong
<1> QED
  BY <1>4, <1>6 DEF untyped, typed

LEMMA ClosesUntyped ==
    ASSUME NEW nodes, NEW rows, NEW class, NEW ends, "-->" \in DOMAIN GlyphToCode
    PROVE  HandleEvent(Untyped(nodes, rows, class, ends), End("edge"))
               = Outside(nodes, WithRow(rows, ends, "-->"), class, 1)
<1> DEFINE s == Untyped(nodes, rows, class, ends)
           more == WithRow(rows, ends, "-->")
           done == [s EXCEPT !.rows = more]
           t == [done EXCEPT !.in_edge = FALSE, !.edge_type_seen = FALSE, !.ends = <<"", "">>,
                             !.failed = FALSE]
<1>1. HandleEvent(s, End("edge")) = CloseEdge(s)
  BY DEF HandleEvent, CloseElement, Untyped, At, End
<1>2. AddRow(s, "-->") = done
  BY DEF AddRow, Untyped, At, WithRow
<1>3. s.in_edge /\ ~ s.edge_type_seen
  BY DEF Untyped, At
<1>4. done \in AtSet(nodes, more, class, 1, TRUE, ends, FALSE, FALSE, "", <<>>)
  BY DEF Untyped, At, AtSet
<1> HIDE DEF done
<1>5. CloseEdge(s) = [done EXCEPT !.in_edge = FALSE, !.edge_type_seen = FALSE, !.ends = <<"", "">>,
                                  !.failed = @ \/ FALSE]
  BY <1>2, <1>3 DEF CloseEdge
<1>6. (done.failed \/ FALSE) = FALSE
  BY <1>4 DEF AtSet
<1>7. CloseEdge(s) = t
  BY <1>5, <1>6
<1>8. t \in AtSet(nodes, more, class, 1, FALSE, <<"", "">>, FALSE, FALSE, "", <<>>)
  BY <1>4 DEF AtSet
<1> QED
  BY <1>1, <1>7, <1>8, IsAt DEF Outside

(* Every type an item names is registered. *)
KnownItem(item) == item[1] = "edge" => ToSet(item[4]) \subseteq DOMAIN GlyphToCode

LEMMA ReadsEdgeItem ==
    ASSUME NEW nodes, NEW rows, NEW class, IsSeq(rows), "-->" \in DOMAIN GlyphToCode,
           NEW item \in {"edge"} \X STRING \X STRING \X Seq(DOMAIN Pieces), KnownItem(item)
    PROVE  Leads(Outside(nodes, rows, class, 1), ItemEvents(item),
                 Outside(nodes, Append(rows, RowOfItem(item)), class, 1))
<1> DEFINE ends == <<item[2], item[3]>>
           types == item[4]
           n == Len(types)
           seqs == [i \in 1 .. n |-> Typing(types[i])]
           row == RowOfItem(item)
           s == Outside(nodes, rows, class, 1)
           u == Untyped(nodes, rows, class, ends)
           v == IF n = 0 THEN u ELSE Typed(nodes, WithRow(rows, ends, types[n]), class, ends)
           t == Outside(nodes, Append(rows, row), class, 1)
           open == Start("edge", ends)
<1>1. /\ item[1] = "edge" /\ types \in Seq(DOMAIN Pieces) /\ n \in Nat /\ DOMAIN types = 1 .. n
      /\ (types = <<>> <=> n = 0)
  BY LenProperties
<1>2. ASSUME NEW i \in 1 .. n PROVE Readable(types[i])
  <2>1. types[i] \in DOMAIN Pieces /\ types[i] \in ToSet(types)
    BY <1>1, ElementOfSeq DEF ToSet
  <2> QED
    BY <1>1, <2>1 DEF Readable, KnownItem
<1>3. ItemEvents(item) = (<<open>> \o FlattenSeq(seqs)) \o <<End("edge")>>
  BY <1>1 DEF ItemEvents, Typing
<1>4. Leads(s, <<open>>, u)
  <2>1. HandleEvent(s, open) = u
    BY OpensEdge DEF Untyped
  <2> QED
    BY <2>1, LeadsOne
<1>5. Append(rows, row) = WithRow(rows, ends, IF n = 0 THEN "-->" ELSE types[n])
  BY <1>1 DEF RowOfItem, WithRow
<1>6. Leads(v, <<End("edge")>>, t)
  <2>1. HandleEvent(u, End("edge")) = Outside(nodes, WithRow(rows, ends, "-->"), class, 1)
    BY ClosesUntyped
  <2>2. ASSUME NEW g
        PROVE  HandleEvent(Typed(nodes, WithRow(rows, ends, g), class, ends), End("edge"))
                   = Outside(nodes, WithRow(rows, ends, g), class, 1)
    BY ClosesEdge
  <2> HIDE DEF u, ends, row, types, n
  <2>3. HandleEvent(v, End("edge")) = t
    <3>1. CASE n = 0
      BY <1>5, <2>1, <3>1
    <3>2. CASE n # 0
      BY <1>5, <2>2, <3>2
    <3> QED
      BY <3>1, <3>2
  <2> HIDE DEF v, t
  <2> QED
    BY <2>3, LeadsOne
<1>7. IsSeq(FlattenSeq(seqs)) /\ Leads(u, FlattenSeq(seqs), v)
  <2> HIDE DEF ends, types, n
  <2> QED
    BY <1>1, <1>2, ReadsTypes
<1> HIDE DEF s, u, v, t, seqs, open, row
<1>8. IsSeq(<<open>>) /\ IsSeq(<<End("edge")>>)
  BY OneIsSeq
<1>9. IsSeq(<<open>> \o FlattenSeq(seqs)) /\ Leads(s, <<open>> \o FlattenSeq(seqs), v)
  BY <1>4, <1>7, <1>8, LeadsJoined
<1>10. Leads(s, (<<open>> \o FlattenSeq(seqs)) \o <<End("edge")>>, t)
  BY <1>6, <1>8, <1>9, LeadsJoined
<1> QED
  BY <1>3, <1>10 DEF s, t, row

LEMMA ReadsNodeItem ==
    ASSUME NEW nodes, NEW rows, NEW class, NEW x
    PROVE  /\ HandleEvent(Outside(nodes, rows, class, 1), Start("node", x))
                  = Outside(Append(nodes, x), rows, class, 1)
           /\ \A depth : HandleEvent(Outside(nodes, rows, class, depth), End("node"))
                             = Outside(nodes, rows, class, depth)
<1> DEFINE s == Outside(nodes, rows, class, 1)
<1>1. HandleEvent(s, Start("node", x)) = [s EXCEPT !.nodes = Append(@, x)]
  BY DEF HandleEvent, OpenElement, Outside, At, Start
<1>2. [s EXCEPT !.nodes = Append(@, x)]
          \in AtSet(Append(nodes, x), rows, class, 1, FALSE, <<"", "">>, FALSE, FALSE, "", <<>>)
  BY DEF Outside, At, AtSet
<1>3. ASSUME NEW depth
      PROVE  HandleEvent(Outside(nodes, rows, class, depth), End("node"))
                 = Outside(nodes, rows, class, depth)
  BY DEF HandleEvent, CloseElement, Outside, At, End
<1> QED
  BY <1>1, <1>2, <1>3, IsAt DEF Outside

(* What one item of the outer graph does to the reader. *)
LEMMA ReadsItem ==
    ASSUME NEW nodes, NEW rows, NEW class, IsSeq(rows), "-->" \in DOMAIN GlyphToCode,
           NEW item \in Item, KnownItem(item)
    PROVE  Leads(Outside(nodes, rows, class, 1), ItemEvents(item),
                 Outside(IF item[1] = "node" THEN Append(nodes, item[2]) ELSE nodes,
                         IF item[1] = "edge" THEN Append(rows, RowOfItem(item)) ELSE rows,
                         IF item[1] = "class" THEN item[2] ELSE class, 1))
<1>1. CASE item[1] = "node"
  <2> DEFINE x == item[2]
             s == Outside(nodes, rows, class, 1)
             t == Outside(Append(nodes, x), rows, class, 1)
             a == Start("node", x)
             b == End("node")
  <2>1. ItemEvents(item) = <<a, b>>
    BY <1>1 DEF ItemEvents
  <2>2. HandleEvent(s, a) = t /\ HandleEvent(t, b) = t
    BY ReadsNodeItem
  <2> HIDE DEF s, t, a, b
  <2>3. Leads(s, <<a>>, t) /\ Leads(t, <<b>>, t) /\ IsSeq(<<a>>) /\ IsSeq(<<b>>)
    BY <2>2, LeadsOne, OneIsSeq
  <2>4. Leads(s, <<a>> \o <<b>>, t)
    BY <2>3, LeadsJoined
  <2>5. Leads(s, ItemEvents(item), t)
    BY <2>1, <2>4, PairIsJoined
  <2> QED
    BY <1>1, <2>5 DEF s, t
<1>2. CASE item[1] = "class"
  <2> DEFINE c == item[2]
  <2>1. HandleEvent(At(nodes, rows, class, 1, FALSE, <<"", "">>, FALSE, TRUE, "graph_class", <<c>>),
                    End("data")) = Outside(nodes, rows, c, 1)
    BY ReadsClass
  <2>2. Leads(At(nodes, rows, class, 1, FALSE, <<"", "">>, FALSE, FALSE, "", <<>>),
              Data("graph_class", <<c>>), Outside(nodes, rows, c, 1))
    BY <2>1, OneIsSeq, ReadsData
  <2>3. Leads(Outside(nodes, rows, class, 1), Data("graph_class", <<c>>), Outside(nodes, rows, c, 1))
    BY <2>2 DEF Outside
  <2>4. ItemEvents(item) = Data("graph_class", <<c>>)
    BY <1>2 DEF ItemEvents
  <2> QED
    BY <1>2, <2>3, <2>4
<1>3. CASE item \in {"edge"} \X STRING \X STRING \X Seq(DOMAIN Pieces)
  <2>1. item[1] = "edge"
    BY <1>3
  <2> QED
    BY <1>3, <2>1, ReadsEdgeItem
<1>4. item[1] = "node" \/ item[1] = "class" \/ item \in {"edge"} \X STRING \X STRING \X Seq(DOMAIN Pieces)
  BY DEF Item
<1> QED
  BY <1>1, <1>2, <1>3, <1>4

(* The items of the outer graph, one after the other. *)
LEMMA ReadsItems ==
    ASSUME NEW items \in Seq(Item), "-->" \in DOMAIN GlyphToCode,
           \A item \in ToSet(items) : KnownItem(item)
    PROVE  Leads(Outside(<<>>, <<>>, "UNKNOWN", 1), EventsIn(items),
                 Outside(OuterNodes(items), OuterRows(items), OuterClass(items), 1))
<1> DEFINE n == Len(items)
           seqs == [i \in 1 .. n |-> ItemEvents(items[i])]
           state(s) == Outside(OuterNodes(s), OuterRows(s), OuterClass(s), 1)
           st == [k \in 0 .. n |-> state(SubSeq(items, 1, k))]
<1>1. n \in Nat /\ DOMAIN items = 1 .. n
  BY LenProperties
<1>2. EventsIn(items) = FlattenSeq(seqs)
  BY <1>1 DEF EventsIn
<1>3. /\ SubSeq(items, 1, 0) = <<>> /\ SubSeq(items, 1, n) = items
      /\ \A k \in 1 .. n : SubSeq(items, 1, k) = Append(SubSeq(items, 1, k - 1), items[k])
      /\ \A k \in 0 .. n : SubSeq(items, 1, k) \in Seq(Item)
  BY <1>1
<1>4. ASSUME NEW i \in 1 .. n
      PROVE  items[i] \in Item /\ KnownItem(items[i])
  BY <1>1, ElementOfSeq DEF ToSet
<1> HIDE DEF n
<1>5. 0 \in 0 .. n /\ n \in 0 .. n /\ \A k \in 1 .. n : k - 1 \in 0 .. n /\ k \in 0 .. n
  BY <1>1
<1>6. ASSUME NEW k \in 1 .. n
      PROVE  IsSeq(seqs[k]) /\ Leads(st[k - 1], seqs[k], st[k])
  <2> DEFINE s == SubSeq(items, 1, k - 1)
             item == items[k]
  <2>1. s \in Seq(Item) /\ item \in Item /\ KnownItem(item)
    BY <1>3, <1>4, <1>5
  <2>2. st[k - 1] = state(s) /\ st[k] = state(Append(s, item)) /\ seqs[k] = ItemEvents(item)
    BY <1>3, <1>5
  <2> HIDE DEF s, item
  <2>3. /\ OuterNodes(Append(s, item)) = IF item[1] = "node" THEN Append(OuterNodes(s), item[2]) ELSE OuterNodes(s)
        /\ OuterRows(Append(s, item)) = IF item[1] = "edge" THEN Append(OuterRows(s), RowOfItem(item)) ELSE OuterRows(s)
        /\ OuterClass(Append(s, item)) = IF item[1] = "class" THEN item[2] ELSE OuterClass(s)
        /\ IsSeq(OuterRows(s))
    BY <2>1, OneMoreItem
  <2>4. Leads(Outside(OuterNodes(s), OuterRows(s), OuterClass(s), 1), ItemEvents(item),
              Outside(IF item[1] = "node" THEN Append(OuterNodes(s), item[2]) ELSE OuterNodes(s),
                      IF item[1] = "edge" THEN Append(OuterRows(s), RowOfItem(item)) ELSE OuterRows(s),
                      IF item[1] = "class" THEN item[2] ELSE OuterClass(s), 1))
    BY <2>1, <2>3, ReadsItem
  <2>5. Leads(state(s), ItemEvents(item), state(Append(s, item)))
    BY <2>3, <2>4
  <2> HIDE DEF st, seqs, state
  <2> QED
    BY <2>1, <2>2, <2>5, ItemIsSeq
<1>7. st[0] = state(<<>>) /\ st[n] = state(items) /\ seqs = [i \in 1 .. n |-> seqs[i]]
  BY <1>3, <1>5
<1>8. state(<<>>) = Outside(<<>>, <<>>, "UNKNOWN", 1)
  BY NothingOfAKind
<1> HIDE DEF st, seqs, state
<1>9. Leads(st[0], FlattenSeq(seqs), st[n])
  BY <1>1, <1>6, <1>7, LeadsAlong
<1> QED
  BY <1>2, <1>7, <1>8, <1>9 DEF state

(* Inside of a node the reader passes over whatever it finds. *)
LEMMA Ignored ==
    ASSUME NEW nodes, NEW rows, NEW class
    PROVE  LET s == Outside(nodes, rows, class, 2) IN
           /\ \A tag \in {"node", "edge", "data"} : \A x : HandleEvent(s, Start(tag, x)) = s
           /\ \A tag \in {"node", "edge", "data"} : HandleEvent(s, End(tag)) = s
           /\ \A piece : HandleEvent(s, <<"text", piece, "">>) = s /\ HandleEvent(s, <<"ref", piece, "">>) = s
<1> DEFINE s == Outside(nodes, rows, class, 2)
           t == [s EXCEPT !.in_edge = FALSE, !.edge_type_seen = FALSE, !.ends = <<"", "">>,
                          !.failed = FALSE]
<1>1. s.depth # 1
  <2>1. s.depth = 2
    BY DEF Outside, At
  <2> QED
    BY <2>1
<1>2. s.failed = FALSE /\ s.in_edge = FALSE /\ s.in_data = FALSE
  BY DEF Outside, At
<1>3. t = s
  <2>1. t \in AtSet(nodes, rows, class, 2, FALSE, <<"", "">>, FALSE, FALSE, "", <<>>)
    BY DEF Outside, At, AtSet
  <2> QED
    BY <2>1, IsAt DEF Outside
<1>4. HandleEvent(s, End("edge")) = t
  <2>1. HandleEvent(s, End("edge")) = CloseEdge(s)
    BY <1>2 DEF HandleEvent, CloseElement, End
  <2>2. CloseEdge(s) = t
    BY DEF CloseEdge, Outside, At
  <2> QED
    BY <2>1, <2>2
<1> HIDE DEF s, t
<1>5. ASSUME NEW tag \in {"node", "edge", "data"}, NEW x
      PROVE  HandleEvent(s, Start(tag, x)) = s
  <2>1. HandleEvent(s, Start(tag, x)) = OpenElement(s, tag, x)
    BY <1>2 DEF HandleEvent, Start
  <2>2. OpenElement(s, tag, x) = s
    BY <1>1 DEF OpenElement
  <2> QED
    BY <2>1, <2>2
<1>6. HandleEvent(s, End("node")) = s /\ HandleEvent(s, End("data")) = s
  BY <1>2 DEF HandleEvent, CloseElement, CloseData, End
<1>7. ASSUME NEW piece
      PROVE  HandleEvent(s, <<"text", piece, "">>) = s /\ HandleEvent(s, <<"ref", piece, "">>) = s
  BY <1>2 DEF HandleEvent, AddPiece
<1>8. ASSUME NEW tag \in {"node", "edge", "data"} PROVE HandleEvent(s, End(tag)) = s
  BY <1>3, <1>4, <1>6
<1> QED
  BY <1>5, <1>7, <1>8 DEF s

LEMMA LeadsBack ==
    ASSUME NEW s, NEW events, IsSeq(events), \A k \in 1 .. Len(events) : HandleEvent(s, events[k]) = s
    PROVE  Leads(s, events, s)
<1> DEFINE n == Len(events)
           st == [k \in 0 .. n |-> s]
<1>1. n \in Nat
  BY OwnElements
<1> HIDE DEF n
<1>2. 0 \in 0 .. n /\ n \in 0 .. n /\ \A k \in 1 .. n : k - 1 \in 0 .. n /\ k \in 0 .. n
  BY <1>1
<1>3. /\ st = [k \in 0 .. n |-> st[k]] /\ st[0] = s /\ st[n] = s
      /\ \A k \in 1 .. n : st[k] = s /\ st[k - 1] = s
  BY <1>2
<1> HIDE DEF st
<1>4. \A k \in 1 .. n : st[k] = HandleEvent(st[k - 1], events[k])
  BY <1>3 DEF n
<1> QED
  BY <1>3, <1>4 DEF Leads, n

LEMMA PassesInnerData ==
    ASSUME NEW nodes, NEW rows, NEW class, NEW key, NEW pieces, IsSeq(pieces)
    PROVE  /\ IsSeq(Data(key, pieces))
           /\ Leads(Outside(nodes, rows, class, 2), Data(key, pieces), Outside(nodes, rows, class, 2))
<1> DEFINE s == Outside(nodes, rows, class, 2)
           a == Start("data", key)
           b == End("data")
           text == TextOf(pieces)
<1>1. HandleEvent(s, a) = s /\ HandleEvent(s, b) = s
  BY Ignored
<1>2. /\ IsSeq(text) /\ IsSeq(Data(key, pieces)) /\ IsSeq(<<a>>) /\ IsSeq(<<b>>)
      /\ Data(key, pieces) = (<<a>> \o text) \o <<b>> /\ Len(text) = Len(pieces)
      /\ DOMAIN text = 1 .. Len(pieces)
  BY DataIsSeq, OneIsSeq
<1>3. \A k \in 1 .. Len(text) : HandleEvent(s, text[k]) = s
  <2> SUFFICES ASSUME NEW k \in 1 .. Len(text) PROVE HandleEvent(s, text[k]) = s
    OBVIOUS
  <2>1. k \in DOMAIN pieces
    BY <1>2 DEF TextOf
  <2>2. text[k] = <<"text", pieces[k], "">> \/ text[k] = <<"ref", pieces[k], "">>
    BY <2>1 DEF TextOf
  <2> QED
    BY <2>2, Ignored
<1> HIDE DEF s, a, b, text
<1>4. Leads(s, <<a>>, s) /\ Leads(s, text, s) /\ Leads(s, <<b>>, s)
  BY <1>1, <1>2, <1>3, LeadsOne, LeadsBack
<1>5. IsSeq(<<a>> \o text) /\ Leads(s, <<a>> \o text, s)
  BY <1>2, <1>4, LeadsJoined
<1>6. Leads(s, (<<a>> \o text) \o <<b>>, s)
  BY <1>2, <1>4, <1>5, LeadsJoined
<1> QED
  BY <1>2, <1>6 DEF s

(* A sequence of elements each of which leaves the reader where it was. *)
LEMMA LeadsBackAlong ==
    ASSUME NEW n \in Nat, NEW seqs, seqs = [i \in 1 .. n |-> seqs[i]], NEW s,
           \A i \in 1 .. n : IsSeq(seqs[i]) /\ Leads(s, seqs[i], s)
    PROVE  IsSeq(FlattenSeq(seqs)) /\ Leads(s, FlattenSeq(seqs), s)
<1> DEFINE st == [k \in 0 .. n |-> s]
<1>1. 0 \in 0 .. n /\ n \in 0 .. n /\ \A k \in 1 .. n : k - 1 \in 0 .. n /\ k \in 0 .. n
  OBVIOUS
<1>2. st[0] = s /\ st[n] = s /\ \A k \in 1 .. n : st[k] = s /\ st[k - 1] = s
  BY <1>1
<1> HIDE DEF st
<1>3. \A i \in 1 .. n : IsSeq(seqs[i]) /\ Leads(st[i - 1], seqs[i], st[i])
  BY <1>2
<1>4. IsSeq(FlattenSeq(seqs)) /\ Leads(st[0], FlattenSeq(seqs), st[n])
  BY <1>3, LeadsAlong
<1> QED
  BY <1>2, <1>4

LEMMA PassesInnerItem ==
    ASSUME NEW nodes, NEW rows, NEW class, NEW item \in Item
    PROVE  Leads(Outside(nodes, rows, class, 2), ItemEvents(item), Outside(nodes, rows, class, 2))
<1> DEFINE s == Outside(nodes, rows, class, 2)
<1>1. CASE item[1] = "node"
  <2> DEFINE a == Start("node", item[2])
             b == End("node")
  <2>1. ItemEvents(item) = <<a, b>>
    BY <1>1 DEF ItemEvents
  <2>2. HandleEvent(s, a) = s /\ HandleEvent(s, b) = s
    BY Ignored
  <2> HIDE DEF s, a, b
  <2>3. Leads(s, <<a>>, s) /\ Leads(s, <<b>>, s) /\ IsSeq(<<a>>) /\ IsSeq(<<b>>)
    BY <2>2, LeadsOne, OneIsSeq
  <2>4. Leads(s, <<a>> \o <<b>>, s)
    BY <2>3, LeadsJoined
  <2> QED
    BY <2>1, <2>4, PairIsJoined DEF s
<1>2. CASE item[1] = "class"
  <2>1. ItemEvents(item) = Data("graph_class", <<item[2]>>)
    BY <1>2 DEF ItemEvents
  <2> QED
    BY <2>1, OneIsSeq, PassesInnerData
<1>3. CASE item \in {"edge"} \X STRING \X STRING \X Seq(DOMAIN Pieces)
  <2> DEFINE types == item[4]
             n == Len(types)
             seqs == [i \in 1 .. n |-> Typing(types[i])]
             a == Start("edge", <<item[2], item[3]>>)
             b == End("edge")
  <2>1. item[1] = "edge" /\ types \in Seq(DOMAIN Pieces) /\ n \in Nat /\ DOMAIN types = 1 .. n
    BY <1>3, LenProperties
  <2>2. ItemEvents(item) = (<<a>> \o FlattenSeq(seqs)) \o <<b>>
    BY <2>1 DEF ItemEvents, Typing
  <2>3. HandleEvent(s, a) = s /\ HandleEvent(s, b) = s
    BY Ignored
  <2>4. ASSUME NEW i \in 1 .. n
        PROVE  IsSeq(seqs[i]) /\ Leads(s, seqs[i], s)
    <3> DEFINE weight == Data("weight", <<"2">>)
               type == Data("edge_type", Pieces[types[i]])
    <3>1. types[i] \in DOMAIN Pieces
      BY <2>1, ElementOfSeq
    <3>2. Pieces[types[i]] \in Seq(STRING)
      BY <3>1, FilesAssumption
    <3>3. IsSeq(Pieces[types[i]]) /\ IsSeq(<<"2">>)
      BY <3>2, OneIsSeq DEF IsSeq
    <3>4. IsSeq(weight) /\ Leads(s, weight, s) /\ IsSeq(type) /\ Leads(s, type, s)
      BY <3>3, PassesInnerData
    <3>5. seqs[i] = weight \o type
      BY DEF Typing
    <3> HIDE DEF s, weight, type, seqs
    <3> QED
      BY <3>4, <3>5, LeadsJoined
  <2>5. seqs = [i \in 1 .. n |-> seqs[i]]
    OBVIOUS
  <2> HIDE DEF s, a, b, seqs, n
  <2>6. IsSeq(FlattenSeq(seqs)) /\ Leads(s, FlattenSeq(seqs), s)
    BY <2>1, <2>4, <2>5, LeadsBackAlong
  <2>7. Leads(s, <<a>>, s) /\ Leads(s, <<b>>, s) /\ IsSeq(<<a>>) /\ IsSeq(<<b>>)
    BY <2>3, LeadsOne, OneIsSeq
  <2>8. IsSeq(<<a>> \o FlattenSeq(seqs)) /\ Leads(s, <<a>> \o FlattenSeq(seqs), s)
    BY <2>6, <2>7, LeadsJoined
  <2>9. Leads(s, (<<a>> \o FlattenSeq(seqs)) \o <<b>>, s)
    BY <2>7, <2>8, LeadsJoined
  <2> QED
    BY <2>2, <2>9 DEF s
<1>4. item[1] = "node" \/ item[1] = "class" \/ item \in {"edge"} \X STRING \X STRING \X Seq(DOMAIN Pieces)
  BY DEF Item
<1> QED
  BY <1>1, <1>2, <1>3, <1>4

LEMMA PassesInnerItems ==
    ASSUME NEW nodes, NEW rows, NEW class, NEW items \in Seq(Item)
    PROVE  Leads(Outside(nodes, rows, class, 2), EventsIn(items), Outside(nodes, rows, class, 2))
<1> DEFINE n == Len(items)
           seqs == [i \in 1 .. n |-> ItemEvents(items[i])]
<1>1. n \in Nat /\ DOMAIN items = 1 .. n /\ seqs = [i \in 1 .. n |-> seqs[i]]
  BY LenProperties
<1>2. EventsIn(items) = FlattenSeq(seqs)
  BY <1>1 DEF EventsIn
<1>3. ASSUME NEW i \in 1 .. n
      PROVE  IsSeq(seqs[i]) /\ Leads(Outside(nodes, rows, class, 2), seqs[i], Outside(nodes, rows, class, 2))
  <2>1. items[i] \in Item /\ seqs[i] = ItemEvents(items[i])
    BY ElementOfSeq
  <2> QED
    BY <2>1, ItemIsSeq, PassesInnerItem
<1> HIDE DEF n, seqs
<1> QED
  BY <1>1, <1>2, <1>3, LeadsBackAlong

(* Into the graph inside of a node, and out of it. *)
LEMMA EntersInnerGraph ==
    ASSUME NEW nodes, NEW rows, NEW class, NEW x
    PROVE  Leads(Outside(nodes, rows, class, 1), <<Start("node", x), Start("graph", "")>>,
                 Outside(Append(nodes, x), rows, class, 2))
<1> DEFINE a == Start("node", x)
           b == Start("graph", "")
           s == Outside(nodes, rows, class, 1)
           t == Outside(Append(nodes, x), rows, class, 1)
           u == Outside(Append(nodes, x), rows, class, 2)
<1>1. HandleEvent(s, a) = t
  BY ReadsNodeItem
<1>2. HandleEvent(t, b) = u
  <2>1. HandleEvent(t, b) = [t EXCEPT !.depth = @ + 1]
    BY DEF HandleEvent, OpenElement, Outside, At, Start
  <2>2. t.depth + 1 = 2
    <3>1. t.depth = 1
      BY DEF Outside, At
    <3> HIDE DEF t
    <3> QED
      BY <3>1
  <2>3. [t EXCEPT !.depth = 2]
            \in AtSet(Append(nodes, x), rows, class, 2, FALSE, <<"", "">>, FALSE, FALSE, "", <<>>)
    BY DEF Outside, At, AtSet
  <2>4. [t EXCEPT !.depth = @ + 1] = [t EXCEPT !.depth = 2]
    BY <2>2
  <2>5. [t EXCEPT !.depth = 2] = u
    BY <2>3, IsAt DEF Outside
  <2> HIDE DEF t, u, b
  <2> QED
    BY <2>1, <2>4, <2>5
<1> HIDE DEF a, b, s, t, u
<1>3. Leads(s, <<a>>, t) /\ Leads(t, <<b>>, u) /\ IsSeq(<<a>>) /\ IsSeq(<<b>>)
  BY <1>1, <1>2, LeadsOne, OneIsSeq
<1>4. Leads(s, <<a>> \o <<b>>, u)
  BY <1>3, LeadsJoined
<1>5. Leads(s, <<a, b>>, u)
  BY <1>4, PairIsJoined
<1> QED
  BY <1>5 DEF a, b, s, u

LEMMA LeavesInnerGraph ==
    ASSUME NEW nodes, NEW rows, NEW class
    PROVE  Leads(Outside(nodes, rows, class, 2), <<End("graph"), End("node")>>,
                 Outside(nodes, rows, class, 1))
<1> DEFINE a == End("graph")
           b == End("node")
           s == Outside(nodes, rows, class, 2)
           t == Outside(nodes, rows, class, 1)
<1>1. HandleEvent(s, a) = t
  <2>1. HandleEvent(s, a) = [s EXCEPT !.depth = IF @ > 0 THEN @ - 1 ELSE 0]
    BY DEF HandleEvent, CloseElement, Outside, At, End
  <2>2. (IF s.depth > 0 THEN s.depth - 1 ELSE 0) = 1
    <3>1. s.depth = 2
      BY DEF Outside, At
    <3> HIDE DEF s
    <3> QED
      BY <3>1
  <2>3. [s EXCEPT !.depth = 1]
            \in AtSet(nodes, rows, class, 1, FALSE, <<"", "">>, FALSE, FALSE, "", <<>>)
    BY DEF Outside, At, AtSet
  <2>4. [s EXCEPT !.depth = IF @ > 0 THEN @ - 1 ELSE 0] = [s EXCEPT !.depth = 1]
    BY <2>2
  <2>5. [s EXCEPT !.depth = 1] = t
    BY <2>3, IsAt DEF Outside
  <2> HIDE DEF s, t, a
  <2> QED
    BY <2>1, <2>4, <2>5
<1>2. HandleEvent(t, b) = t
  BY ReadsNodeItem
<1> HIDE DEF a, b, s, t
<1>3. Leads(s, <<a>>, t) /\ Leads(t, <<b>>, t) /\ IsSeq(<<a>>) /\ IsSeq(<<b>>)
  BY <1>1, <1>2, LeadsOne, OneIsSeq
<1>4. Leads(s, <<a>> \o <<b>>, t)
  BY <1>3, LeadsJoined
<1>5. Leads(s, <<a, b>>, t)
  BY <1>4, PairIsJoined
<1> QED
  BY <1>5 DEF a, b, s, t

(* The arrow is built in, so an edge without a type can be read. *)
LEMMA ArrowIsKnown ==
    ASSUME FInv
    PROVE  "-->" \in DOMAIN GlyphToCode
<1>1. DOMAIN GlyphToCode = Glyphs(CodeToSpec) /\ edge_ops = Glyphs(CodeToSpec) /\ DefaultOps \subseteq edge_ops
  BY DEF FInv, RInv, Agree
<1>2. DOMAIN Builtins = 1 .. 6
  BY BuiltinsFacts
<1>3. 1 \in DOMAIN Builtins
  BY <1>2
<1>4. Builtins[1].glyph = "-->"
  BY DEF Builtins, DirectedSpec
<1>5. "-->" \in DefaultOps
  BY <1>3, <1>4 DEF DefaultOps, Glyphs
<1> QED
  BY <1>1, <1>5

LEMMA ForeignParsed ==
    ASSUME FInv, NEW d \in GraphmlItems,
           \A item \in ToSet(d[2]) : KnownItem(item)
    PROVE  LET nodes == Append(OuterNodes(d[2]), d[3])
               rows == OuterRows(d[2])
           IN  ReadData(EventsOf(d)) = IF EndsDeclared(nodes, rows)
                                       THEN {<<nodes, rows, OuterClass(d[2])>>} ELSE {}
<1> DEFINE items == d[2]
           inner == d[4]
           class == OuterClass(items)
           rows == OuterRows(items)
           nodes == Append(OuterNodes(items), d[3])
           events == EventsOf(d)[2]
           outerEvents == EventsIn(items)
           innerEvents == EventsIn(inner)
           down == <<Start("node", d[3]), Start("graph", "")>>
           up == <<End("graph"), End("node")>>
           s0 == Outside(<<>>, <<>>, "UNKNOWN", 1)
           s1 == Outside(OuterNodes(items), rows, class, 1)
           s2 == Outside(nodes, rows, class, 2)
           s3 == Outside(nodes, rows, class, 1)
           s4 == Outside(nodes, rows, class, 0)
           s == FoldLeft(HandleEvent, ParserStart, events)
<1>1. d[1] = "graphml" /\ items \in Seq(Item) /\ inner \in Seq(Item) /\ d[1] # "caugi"
  BY DEF GraphmlItems
<1>2. /\ IsSeq(Opening(d[5])) /\ IsSeq(outerEvents) /\ IsSeq(down) /\ IsSeq(innerEvents) /\ IsSeq(up)
      /\ IsSeq(Closing)
  BY <1>1, ItemsAreSeq, TwoIsSeq DEF Opening, Closing
<1>3. /\ EventsOf(d)[1] = "graphml"
      /\ events = (((((Opening(d[5]) \o outerEvents) \o down) \o innerEvents) \o (up \o Closing)))
  <2> DEFINE last == <<End("graph"), End("node"), End("graph"), End("graphml")>>
  <2>1. last = up \o Closing
    BY DEF Closing
  <2>2. EventsOf(d) = <<"graphml", Opening(d[5]) \o outerEvents \o down \o innerEvents \o last>>
    BY <1>1 DEF EventsOf, Opening
  <2> HIDE DEF last, up, down, outerEvents, innerEvents
  <2> QED
    BY <2>1, <2>2
<1>4. Leads(ParserStart, Opening(d[5]), s0)
  BY EntersTheGraph
<1>5. Leads(s0, outerEvents, s1)
  BY <1>1, ArrowIsKnown, ReadsItems
<1>6. Leads(s1, down, s2)
  BY EntersInnerGraph
<1>7. Leads(s2, innerEvents, s2)
  BY <1>1, PassesInnerItems
<1>8. Leads(s2, up, s3)
  BY LeavesInnerGraph
<1>9. Leads(s3, Closing, s4)
  BY LeavesTheGraph
<1>10. s4.nodes = nodes /\ s4.rows = rows /\ s4.class = class /\ s4.failed = FALSE
  BY DEF Outside, At
<1> HIDE DEF s0, s1, s2, s3, s4, outerEvents, innerEvents, down, up, events, nodes, rows, class
<1>11. IsSeq(up \o Closing) /\ Leads(s2, up \o Closing, s4)
  BY <1>2, <1>8, <1>9, LeadsJoined
<1>12. IsSeq(Opening(d[5]) \o outerEvents) /\ Leads(ParserStart, Opening(d[5]) \o outerEvents, s1)
  BY <1>2, <1>4, <1>5, LeadsJoined
<1>13. /\ IsSeq((Opening(d[5]) \o outerEvents) \o down)
       /\ Leads(ParserStart, (Opening(d[5]) \o outerEvents) \o down, s2)
  BY <1>2, <1>6, <1>12, LeadsJoined
<1>14. /\ IsSeq(((Opening(d[5]) \o outerEvents) \o down) \o innerEvents)
       /\ Leads(ParserStart, ((Opening(d[5]) \o outerEvents) \o down) \o innerEvents, s2)
  BY <1>2, <1>7, <1>13, LeadsJoined
<1>15. IsSeq(events) /\ Leads(ParserStart, events, s4)
  BY <1>3, <1>11, <1>14, LeadsJoined
<1>16. s = s4
  <2>1. PICK T : events \in Seq(T)
    BY <1>15 DEF IsSeq
  <2>2. Leads(ParserStart, events, s)
    BY <2>1, FoldLeads
  <2> HIDE DEF s
  <2> QED
    BY <1>15, <2>1, <2>2, LeadsToOne
<1>17. ReadData(EventsOf(d)) =
           IF ~ s.failed /\ EndsDeclared(s.nodes, s.rows) THEN {<<s.nodes, s.rows, s.class>>} ELSE {}
  <2>1. ReadData(EventsOf(d)) = DeserializeGraphml(events)
    BY <1>3 DEF ReadData, events
  <2> QED
    BY <2>1 DEF DeserializeGraphml
<1> HIDE DEF s
<1>18. ReadData(EventsOf(d)) = IF EndsDeclared(nodes, rows) THEN {<<nodes, rows, class>>} ELSE {}
  BY <1>10, <1>16, <1>17
<1> QED
  BY <1>18 DEF nodes, rows, class

LEMMA ForeignIsRead ==
    ASSUME FInv
    PROVE  ForeignDocumentsAreRead
<1> SUFFICES ASSUME NEW d \in Foreign, d[1] = "graphml",
                    \A item \in ToSet(d[2]) :
                        item[1] = "edge" => ToSet(item[4]) \subseteq DOMAIN GlyphToCode
             PROVE  ReadData(EventsOf(d)) =
                        IF EndsDeclared(Append(OuterNodes(d[2]), d[3]), OuterRows(d[2]))
                        THEN {<<Append(OuterNodes(d[2]), d[3]), OuterRows(d[2]), OuterClass(d[2])>>} ELSE {}
  BY DEF ForeignDocumentsAreRead
<1>1. d \in GraphmlItems
  BY FilesAssumption
<1>2. \A item \in ToSet(d[2]) : KnownItem(item)
  BY DEF KnownItem
<1> QED
  BY <1>1, <1>2, ForeignParsed

(* A GraphML document of another program, however long, with elements in    *)
(* any order and a graph inside of a node, is read as its outer graph says: *)
(* what the reader keeps from one event to the next does not leak.          *)
THEOREM EveryForeignDocumentIsRead == FilesSpec => []ForeignDocumentsAreRead
BY FilesInvariant, ForeignIsRead, PTL
================================================================================
