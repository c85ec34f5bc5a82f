------------------------------ MODULE CaugiObjects ------------------------------
(***************************************************************************)
(* caugi objects and the R verbs (R/caugi.R, R/verbs.R, subgraph() of      *)
(* src/rust/src/lib.rs) over the global edge registry (R/registry.R).      *)
(*                                                                         *)
(* An object is its session, and a session is its inputs: SessionContract  *)
(* says why no cache shows.  A verb clones the session of its object, so   *)
(* the object it was called on stays what it is; the model goes on with    *)
(* the object returned.  A verb that raises an error returns none, which   *)
(* leaves everything as it is.                                             *)
(*                                                                         *)
(* Glyphs turn into codes by the registry of the moment, codes into glyphs *)
(* by the snapshot the session took when it was created.                   *)
(***************************************************************************)
EXTENDS ObjectRows

CONSTANTS
    Name,            \* node names
    Declared,        \* the `nodes` vectors caugi() is called with
    Tables,          \* the edge tables caugi() is called with, as sequences of rows
    SpecOfGlyph,     \* the edge type a glyph is registered with
    BuiltinGlyphs,   \* the glyphs of a new registry, in the order of their codes
    UserGlyphs,      \* the glyphs register_caugi_edge() is called with
    Classes,         \* the classes caugi() is called with
    Simples,         \* the values of `simple`
    MaxEdges,        \* bound on the edges of a simple object
    MaxParallel      \* bound on the edges of any other object

Glyph == DOMAIN SpecOfGlyph

Row == Name \X Glyph \X Name

ASSUME ObjectsAssumption ==
    /\ Declared \subseteq Seq(Name)
    /\ Tables \subseteq Seq(Row)
    /\ \A g \in Glyph : SpecOfGlyph[g] \in EdgeSpec /\ SpecOfGlyph[g].glyph = g
    /\ BuiltinGlyphs \in Seq(Glyph) /\ IsInjective(BuiltinGlyphs)
    /\ UserGlyphs \subseteq Glyph
    /\ Classes \subseteq GraphClass
    /\ Simples \subseteq BOOLEAN
    /\ MaxEdges \in Nat /\ MaxParallel \in Nat

VARIABLES
    registry,    \* glyphs of the global registry, position code + 1
    cg,          \* the object at hand: the inputs of its session
    did          \* history: the verb that has just returned cg, and its argument

vars == <<registry, cg, did>>

--------------------------------------------------------------------------------
(* Codes and glyphs of the registry of the moment *)
SnapshotOf(glyphs) == [c \in 0 .. (Len(glyphs) - 1) |-> SpecOfGlyph[glyphs[c + 1]]]

Codes == [g \in ToSet(registry) |-> (CHOOSE i \in DOMAIN registry : registry[i] = g) - 1]

Returns(o) == cg' \in Returned(o)

EmptyObject ==
    [names |-> <<>>, simple |-> TRUE, class |-> "UNKNOWN",
     snapshot |-> SnapshotOf(BuiltinGlyphs), edges |-> NoEdges]

Idle == <<"none">>

Init ==
    /\ registry = BuiltinGlyphs
    /\ cg = EmptyObject
    /\ did = Idle

--------------------------------------------------------------------------------
Construct(simple, class, declared, table) ==
    /\ cg' \in Constructed(simple, class, declared, table, Codes, SnapshotOf(registry))
    /\ did' = <<"caugi">>
    /\ UNCHANGED registry

EdgeBound == IF cg.simple THEN MaxEdges ELSE MaxParallel

(* .sync_session_inplace() on a clone: all rows are passed down again,     *)
(* under the codes of the registry of the moment.                          *)
Sync(names, rows) ==
    /\ Known(Codes, rows)
    /\ Cardinality(rows) <= EdgeBound
    /\ Returns([cg EXCEPT !.names = names, !.edges = BufferOf(names, Codes, SetToSeq(rows))])
    /\ UNCHANGED registry

AddNode(x) == Sync(AppendNew(cg.names, x), RowsOf(cg)) /\ did' = <<"add_node", x>>

AddEdge(row) ==
    /\ Sync(Unique(cg.names \o EndsOf(<<row>>)), RowsOf(cg) \cup {row})
    /\ did' = <<"add_edge", row>>

(* The orientation has to match, for a symmetric glyph too. *)
RemoveEdge(row) == Sync(cg.names, RowsOf(cg) \ {row}) /\ did' = <<"remove_edge", row>>

(* Slip: the other direction is forgotten. *)
RemoveFromTo(x, y) ==
    /\ cg.simple
    /\ Sync(cg.names, {r \in RowsOf(cg) : <<r[1], r[3]>> # <<x, y>>})
    /\ did' = <<"remove_between", {x, y}>>

(* remove_edges() without `edge`: both directions, simple graphs only. *)
RemoveBetween(x, y) ==
    /\ cg.simple
    /\ Sync(cg.names, {r \in RowsOf(cg) : {r[1], r[3]} # {x, y}})
    /\ did' = <<"remove_between", {x, y}>>

RemoveNode(x) ==
    /\ Sync(Picked(cg.names, {i \in DOMAIN cg.names : cg.names[i] # x}),
            {r \in RowsOf(cg) : x \notin {r[1], r[3]}})
    /\ did' = <<"remove_node", x>>

(* set_edges(): the buffer of the clone is edited, the old rows keep their *)
(* codes.                                                                  *)
SetEdge(row) ==
    LET names == Unique(cg.names \o EndsOf(<<row>>)) IN
    /\ Known(Codes, {row})
    /\ LET merged == ReplacePairs(cg.simple, cg.edges, BufferOf(names, Codes, <<row>>))
       IN  /\ Cardinality(DOMAIN merged) <= EdgeBound
           /\ Returns([cg EXCEPT !.names = names, !.edges = merged])
    /\ did' = <<"set_edge", row>>
    /\ UNCHANGED registry

(* subgraph(): neither the class nor the validator is looked at again.     *)
Subgraph(keep) ==
    /\ ToSet(keep) \subseteq ToSet(cg.names)
    /\ LET ids == [i \in DOMAIN keep |-> IdOf(cg.names, keep[i])]
       IN  /\ KeepIsOk(ids, Len(cg.names))
           /\ cg' = [cg EXCEPT !.names = keep, !.edges = Induced(ids, cg.edges)]
    /\ did' = <<"subgraph", ToSet(keep)>>
    /\ UNCHANGED registry

--------------------------------------------------------------------------------
(* register_caugi_edge() for a glyph that is new *)
RegisterEdge(g) ==
    /\ g \notin ToSet(registry)
    /\ registry' = Append(registry, g)
    /\ UNCHANGED <<cg, did>>

KeepLists == UNION {[1 .. k -> Name] : k \in 0 .. Cardinality(Name)}

Verb ==
    \/ \E s \in Simples, c \in Classes, d \in Declared, t \in Tables : Construct(s, c, d, t)
    \/ \E x \in Name : AddNode(x) \/ RemoveNode(x)
    \/ \E row \in Row : AddEdge(row) \/ RemoveEdge(row) \/ SetEdge(row)
    \/ \E x, y \in Name : RemoveBetween(x, y)
    \/ \E keep \in KeepLists : Subgraph(keep)

(* The object is there; the next call starts afresh. *)
Settle == did # Idle /\ did' = Idle /\ UNCHANGED <<registry, cg>>

Call == did = Idle /\ Verb

(* The registry only grows: see README for what a reset does. *)
Grow == did = Idle /\ \E g \in UserGlyphs : RegisterEdge(g)

Next == Call \/ Settle \/ Grow

Spec == Init /\ [][Next]_vars

--------------------------------------------------------------------------------
(* Every object a user can hold compiles: its names are distinct and its   *)
(* edges pass every check of the builder.  subgraph() trusts its edges     *)
(* without a check because of this.                                        *)
ObjectsCompile ==
    /\ \A i, j \in DOMAIN cg.names : cg.names[i] = cg.names[j] => i = j
    /\ ValidEdges(Len(cg.names), cg.simple, cg.snapshot, cg.edges)

(* What a class promises of every induced subgraph: neither is_mpdag() nor *)
(* is_cpdag() stays true when nodes go.                                    *)
HereditaryClass(class) == IF class \in {"MPDAG", "CPDAG"} THEN "PDAG" ELSE class

(* Every object carries a class its `simple` allows, and is in the class   *)
(* it carries when a verb that looks at the class has returned it: no      *)
(* query on it fails for its class.  subgraph() looks at nothing: the      *)
(* object it returns is in the hereditary part of its class.               *)
ObjectsAreInTheirClass ==
    /\ cg.class # "AUTO"
    /\ SimpleFitsClass(cg)
    /\ \A g \in CoreOf(cg) :
        /\ InClass(g, HereditaryClass(cg.class))
        /\ did[1] \notin {"none", "subgraph"} => InClass(g, cg.class)

(* The rows a verb leaves, from those of the old object and its argument.  *)
OnlyTheNamedRowsChange ==
    LET old == RowsOf(cg)
        new == RowsOf(cg')
        arg == did'[2]
    IN  did = Idle =>
            CASE did'[1] = "add_node"       -> new = old
              [] did'[1] = "add_edge"       -> new = old \cup {arg}
              [] did'[1] = "remove_edge"    -> new = old \ {arg}
              [] did'[1] = "remove_between" -> new = {r \in old : {r[1], r[3]} # arg}
              [] did'[1] = "remove_node"    -> new = {r \in old : arg \notin {r[1], r[3]}}
              [] did'[1] = "subgraph"       -> new = {r \in old : {r[1], r[3]} \subseteq arg}
              [] OTHER                      -> TRUE

(* "We get current state from Rust, modify it": what a verb did not name   *)
(* is in the new object as it was in the old, whatever was registered      *)
(* meanwhile, whichever codes the rows went through.                       *)
VerbsKeepTheOtherRows == [][OnlyTheNamedRowsChange]_vars

(* Setting one row: what happens to the rows on its pair, and to others.   *)
ThePairIsReplaced(row) ==
    LET onPair(rows) == {r \in rows : {r[1], r[3]} = {row[1], row[3]}}
    IN  /\ row \in RowsOf(cg')
        /\ RowsOf(cg') \ onPair(RowsOf(cg')) = RowsOf(cg) \ onPair(RowsOf(cg))
        /\ IF cg.simple
           THEN onPair(RowsOf(cg')) = {row}
           ELSE {r \in RowsOf(cg) : row[1] # row[3] /\ r[1] = row[3] /\ r[3] = row[1]}
                    \subseteq RowsOf(cg')

(* set_edges() leaves the named pair with the named edge and no row of     *)
(* another pair changes.  In a simple graph the pair has no other edge; in *)
(* a graph that is not simple a pair is ordered, and what points the other *)
(* way stays.                                                              *)
SettingReplacesThePair ==
    [][did = Idle /\ did'[1] = "set_edge" => ThePairIsReplaced(did'[2])]_vars
================================================================================
