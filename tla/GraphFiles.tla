------------------------------- MODULE GraphFiles -------------------------------
(***************************************************************************)
(* Graphs written to files and read back (graph/serialization.rs,          *)
(* graph/graphml.rs, R/format-caugi.R, R/format-graphml.R) while the edge  *)
(* registry grows, is sealed and is reset.                                 *)
(*                                                                         *)
(* A writer takes the glyphs of a graph's codes from the registry of the   *)
(* moment, a reader the codes of the glyphs of a file.  The text of a JSON *)
(* document is its record; a GraphML document is the sequence of events    *)
(* the XML reader delivers, <<kind, tag, attributes>>.  The markup inside  *)
(* a <data> element arrives in pieces, since "<" and ">" are references.   *)
(***************************************************************************)
EXTENDS EdgeRegistry, ObjectRows, GraphMetrics

CONSTANTS
    Tables,     \* what caugi() is called with: records of simple, class, nodes, rows
    Foreign,    \* documents other programs wrote
    Pieces      \* the pieces a glyph is made of in XML

VARIABLES
    cg,      \* {}, or the object at hand
    file,    \* {}, or the document on disk
    saved    \* history: {}, or the object the document was written from and
             \* whether the registry had not been reset since it was built

fileVars == <<vars, cg, file, saved>>

EdgeRow == STRING \X STRING \X STRING

(* A GraphML document of another program, as the items of its outer graph,  *)
(* one more node, the items of the graph inside of that node, and the       *)
(* attribute edgedefault of the outer graph.                               *)
Item ==
    ({"node", "class"} \X STRING) \cup ({"edge"} \X STRING \X STRING \X Seq(DOMAIN Pieces))

GraphmlItems ==
    {"graphml"} \X Seq(Item) \X STRING \X Seq(Item) \X {"directed", "undirected"}

ASSUME FilesAssumption ==
    /\ \A t \in Tables :
        /\ t.simple \in BOOLEAN /\ t.class \in GraphClass
        /\ t.nodes \in Seq(STRING) /\ t.rows \in Seq(EdgeRow)
    /\ \A d \in Foreign :
        \/ d[1] = "caugi" /\ d[2].nodes \in Seq(STRING) /\ d[2].edges \in Seq(EdgeRow)
        \/ d \in GraphmlItems
    /\ Pieces \in [DOMAIN Pieces -> Seq(STRING)] /\ IsInjective(Pieces)
    /\ DOMAIN Pieces \subseteq STRING
    /\ {spec.glyph : spec \in UserSpecs \cup ToSet(Builtins)} \subseteq DOMAIN Pieces

SnapshotNow == [c \in 0 .. (SnapshotLength - 1) |-> CodeToSpec[c + 1]]

--------------------------------------------------------------------------------
(* Writing *)

HalvesOf(o) == Halves([links |-> o.edges])

(* Slip: an edge with a direction is written from its head. *)
WrittenFromHead(h) ==
    IF CodeToSpec[h[3] + 1].symmetric THEN h[1] <= h[2] ELSE h[4] = 1

(* Of the two half-edges of an edge one is written: for a symmetric type   *)
(* the one in the earlier row, otherwise the one at the tail.              *)
Written(h) ==
    IF CodeToSpec[h[3] + 1].symmetric THEN h[1] <= h[2] ELSE h[4] = 0

(* The rows in the document, or an error for a code unknown by now.        *)
WrittenRows(o) ==
    IF \A h \in HalvesOf(o) : h[3] < Len(CodeToSpec)
    THEN {{<<o.names[h[1] + 1], CodeToSpec[h[3] + 1].glyph, o.names[h[2] + 1]>> :
              h \in {k \in HalvesOf(o) : Written(k)}}}
    ELSE {}

(* The view is built before anything is written. *)
HasView(o) == \E g \in CoreOf(o) : TypedView(o.class, g) # {}

(* serialize_caugi() *)
CaugiDocument(o, rows) ==
    [format |-> "caugi", major |-> 1, class |-> o.class, nodes |-> o.names,
     edges |-> SetToSeq(rows)]

SerializeCaugi(o) == {CaugiDocument(o, rows) : rows \in WrittenRows(o)}

Start(tag, attributes) == <<"start", tag, attributes>>

End(tag) == <<"end", tag, "">>

Data(key, pieces) ==
    <<Start("data", key)>>
    \o [i \in DOMAIN pieces |->
            <<IF pieces[i] \in {"<", ">"} THEN "ref" ELSE "text", pieces[i], "">>]
    \o <<End("data")>>

EdgeElement(row) ==
    <<Start("edge", <<row[1], row[3]>>)>> \o Data("edge_type", Pieces[row[2]]) \o <<End("edge")>>

(* serialize_graphml() *)
GraphmlDocument(o, rows) ==
    <<Start("graphml", ""), Start("graph", "directed")>>
    \o Data("graph_class", <<o.class>>)
    \o [i \in DOMAIN o.names |-> <<"empty", "node", o.names[i]>>]
    \o FlattenSeq([i \in 1 .. Cardinality(rows) |-> EdgeElement(SetToSeq(rows)[i])])
    \o <<End("graph"), End("graphml")>>

SerializeGraphml(o) == {GraphmlDocument(o, rows) : rows \in WrittenRows(o)}

--------------------------------------------------------------------------------
(* Reading *)

EndsDeclared(nodes, rows) ==
    \A i \in DOMAIN rows : {rows[i][1], rows[i][3]} \subseteq ToSet(nodes)

(* deserialize_caugi(): <<nodes, rows, class>>, or an error. *)
DeserializeCaugi(doc) ==
    IF /\ doc.format = "caugi"
       /\ doc.major = 1
       /\ EndsDeclared(doc.nodes, doc.edges)
       /\ Known(GlyphToCode, ToSet(doc.edges))
    THEN {<<doc.nodes, doc.edges, doc.class>>}
    ELSE {}

(* What deserialize_graphml() keeps from one event to the next. *)
ParserStart ==
    [nodes |-> <<>>, rows |-> <<>>, class |-> "UNKNOWN", depth |-> 0, failed |-> FALSE,
     in_edge |-> FALSE, ends |-> <<"", "">>, edge_type_seen |-> FALSE,
     in_data |-> FALSE, data_key |-> "", data_value |-> <<>>]

(* Slip: the elements of inner graphs count. *)
OpenAtAnyDepth(s, tag, attributes) ==
    CASE tag = "graph" -> [s EXCEPT !.depth = @ + 1]
      [] tag = "node" -> [s EXCEPT !.nodes = Append(@, attributes)]
      [] tag = "edge" ->
            [s EXCEPT !.in_edge = TRUE, !.edge_type_seen = FALSE, !.ends = attributes]
      [] tag = "data" ->
            [s EXCEPT !.in_data = TRUE, !.data_key = attributes, !.data_value = <<>>]
      [] OTHER -> s

OpenElement(s, tag, attributes) ==
    CASE tag = "graph" -> [s EXCEPT !.depth = @ + 1]
      [] tag = "node" /\ s.depth = 1 -> [s EXCEPT !.nodes = Append(@, attributes)]
      [] tag = "edge" /\ s.depth = 1 ->
            [s EXCEPT !.in_edge = TRUE, !.edge_type_seen = FALSE, !.ends = attributes]
      [] tag = "data" /\ s.depth = 1 ->
            [s EXCEPT !.in_data = TRUE, !.data_key = attributes, !.data_value = <<>>]
      [] OTHER -> s

AddRow(s, glyph) == [s EXCEPT !.rows = Append(@, <<s.ends[1], glyph, s.ends[2]>>)]

GlyphOf(pieces) == {g \in DOMAIN GlyphToCode : g \in DOMAIN Pieces /\ Pieces[g] = pieces}

(* The first edge type adds the row of the edge, a later one corrects it.  *)
EdgeType(s, glyph) ==
    IF s.edge_type_seen
    THEN [s EXCEPT !.rows[Len(s.rows)][2] = glyph]
    ELSE [AddRow(s, glyph) EXCEPT !.edge_type_seen = TRUE]

CloseData(s) ==
    LET closed == [s EXCEPT !.in_data = FALSE, !.data_key = "", !.data_value = <<>>] IN
    CASE ~ s.in_data -> s
      [] s.in_data /\ s.data_key = "graph_class" /\ ~ s.in_edge ->
            [closed EXCEPT !.class = s.data_value[1]]
      [] s.in_data /\ s.data_key = "edge_type" /\ s.in_edge ->
            IF GlyphOf(s.data_value) = {}
            THEN [closed EXCEPT !.failed = TRUE]
            ELSE EdgeType(closed, CHOOSE g \in GlyphOf(s.data_value) : TRUE)
      [] OTHER -> closed

(* An edge without a type is an arrow. *)
CloseEdge(s) ==
    LET untyped == s.in_edge /\ ~ s.edge_type_seen
        done == IF untyped THEN AddRow(s, "-->") ELSE s
    IN  [done EXCEPT !.in_edge = FALSE, !.edge_type_seen = FALSE, !.ends = <<"", "">>,
                     !.failed = @ \/ (untyped /\ "-->" \notin DOMAIN GlyphToCode)]

CloseElement(s, tag) ==
    CASE tag = "graph" -> [s EXCEPT !.depth = IF @ > 0 THEN @ - 1 ELSE 0]
      [] tag = "data" -> CloseData(s)
      [] tag = "edge" -> CloseEdge(s)
      [] OTHER -> s

AddPiece(s, piece) == IF s.in_data THEN [s EXCEPT !.data_value = Append(@, piece)] ELSE s

(* One turn of the loop; an error ends it. *)
HandleEvent(s, event) ==
    CASE s.failed -> s
      [] ~ s.failed /\ event[1] = "start" -> OpenElement(s, event[2], event[3])
      [] ~ s.failed /\ event[1] = "empty" ->
            IF event[2] = "node" THEN OpenElement(s, "node", event[3]) ELSE s
      [] ~ s.failed /\ event[1] \in {"text", "ref"} -> AddPiece(s, event[2])
      [] ~ s.failed /\ event[1] = "end" -> CloseElement(s, event[2])
      [] OTHER -> s

DeserializeGraphml(events) ==
    LET s == FoldLeft(HandleEvent, ParserStart, events) IN
    IF ~ s.failed /\ EndsDeclared(s.nodes, s.rows) THEN {<<s.nodes, s.rows, s.class>>} ELSE {}

(* A GraphML document of another program, as its items, and its events:    *)
(* nodes, edges with any number of types, graphs inside of nodes.          *)
ItemEvents(item) ==
    CASE item[1] = "class" -> Data("graph_class", <<item[2]>>)
      [] item[1] = "node"  -> <<Start("node", item[2]), End("node")>>
      [] item[1] = "edge"  ->
            <<Start("edge", <<item[2], item[3]>>)>>
            \o FlattenSeq([i \in DOMAIN item[4] |->
                              Data("weight", <<"2">>) \o Data("edge_type", Pieces[item[4][i]])])
            \o <<End("edge")>>

EventsIn(items) == FlattenSeq([i \in DOMAIN items |-> ItemEvents(items[i])])

EventsOf(d) ==
    IF d[1] = "caugi" THEN d
    ELSE <<"graphml",
           <<Start("graphml", ""), Start("graph", d[5])>>
           \o EventsIn(d[2])
           \o <<Start("node", d[3]), Start("graph", "")>>
           \o EventsIn(d[4])
           \o <<End("graph"), End("node"), End("graph"), End("graphml")>>>>

(* read_caugi() and read_graphml(), which may be told the class *)
ReadData(document) ==
    IF document[1] = "caugi" THEN DeserializeCaugi(document[2])
                             ELSE DeserializeGraphml(document[2])

Read(document, class) ==
    UNION {LET c == IF class = {} THEN data[3] ELSE CHOOSE x \in class : TRUE IN
           IF c \in GraphClass
           THEN Constructed(TRUE, c, data[1], data[2], GlyphToCode, SnapshotNow)
           ELSE {} : data \in ReadData(document)}

--------------------------------------------------------------------------------
FilesInit ==
    /\ Init
    /\ cg = {}
    /\ file = {}
    /\ saved = {}

(* caugi(); a call that raises an error leaves no trace here. *)
Construct(t) ==
    /\ BuildGraph
    /\ \E o \in Constructed(t.simple, t.class, t.nodes, t.rows, GlyphToCode, SnapshotNow) :
            cg' = {o}
    /\ UNCHANGED <<file, saved>>

(* write_caugi() and write_graphml(): nothing is written on an error. *)
Write(kind) ==
    \E o \in cg :
        /\ HasView(o)
        /\ \E d \in IF kind = "caugi" THEN SerializeCaugi(o) ELSE SerializeGraphml(o) :
                file' = {<<kind, d>>}
        /\ saved' = {[object |-> o, current |-> current]}
        /\ UNCHANGED <<vars, cg>>

WriteCaugi == Write("caugi")

WriteGraphml == Write("graphml")

ReadCaugi ==
    /\ BuildGraph
    /\ \E d \in file : d[1] = "caugi" /\ \E o \in Read(d, {}) : cg' = {o}
    /\ UNCHANGED <<file, saved>>

ReadGraphml(class) ==
    /\ BuildGraph
    /\ \E d \in file : d[1] = "graphml" /\ \E o \in Read(d, class) : cg' = {o}
    /\ UNCHANGED <<file, saved>>

(* Another program leaves its own file. *)
Receive(document) ==
    /\ file' = {document}
    /\ saved' = {}
    /\ UNCHANGED <<vars, cg>>

Registry ==
    /\ \/ \E spec \in UserSpecs : RegisterEdge(spec)
       \/ SealRegistry
       \/ Reset
    /\ UNCHANGED <<cg, file, saved>>

FilesNext ==
    \/ Registry
    \/ \E t \in Tables : Construct(t)
    \/ WriteCaugi
    \/ WriteGraphml
    \/ ReadCaugi
    \/ \E class \in {{}, {"UNKNOWN"}} : ReadGraphml(class)
    \/ \E d \in Foreign : Receive(EventsOf(d))

FilesSpec == FilesInit /\ [][FilesNext]_fileVars

--------------------------------------------------------------------------------
(* The edges of an object by type, a symmetric one in both orientations. *)
TypedEdges(o) ==
    LET named(x, y, c) == <<o.names[x + 1], o.snapshot[c], o.names[y + 1]>> IN
    {named(e[1], e[2], e[3]) : e \in DOMAIN o.edges}
    \cup {named(e[2], e[1], e[3]) : e \in {d \in DOMAIN o.edges : o.snapshot[d[3]].symmetric}}

(* "Reads a file and returns a caugi object": a simple graph whose types    *)
(* the registry still knows, by whatever code, comes back from either       *)
(* format with its node order, its class and its edges, as long as the      *)
(* registry was not reset between building and writing it.                  *)
FilesAreReadBack ==
    \A s \in saved, d \in file :
        LET o == s.object IN
        /\ s.current /\ o.simple
        /\ \A c \in {e[3] : e \in DOMAIN o.edges} : o.snapshot[c] \in ToSet(CodeToSpec)
        /\ Len(CodeToSpec) < MaxTypes
        => /\ Read(d, {}) # {}
           /\ \A back \in Read(d, {}) :
                /\ back.names = o.names
                /\ back.class = o.class
                /\ TypedEdges(back) = TypedEdges(o)

(* The items of a document of one kind, in their order. *)
OfKind(items, kind) == Picked(items, {i \in DOMAIN items : items[i][1] = kind})

OuterNodes(items) == [i \in DOMAIN OfKind(items, "node") |-> OfKind(items, "node")[i][2]]

RowOfItem(item) ==
    <<item[2], IF item[4] = <<>> THEN "-->" ELSE item[4][Len(item[4])], item[3]>>

OuterRows(items) == [i \in DOMAIN OfKind(items, "edge") |-> RowOfItem(OfKind(items, "edge")[i])]

OuterClass(items) ==
    LET classes == OfKind(items, "class") IN
    IF classes = <<>> THEN "UNKNOWN" ELSE classes[Len(classes)][2]

(* Any GraphML document of known types reads as the nodes and edges of its  *)
(* outer graph and its last class, an edge with the last type it is given,  *)
(* or as an arrow: nested graphs, other data and the order of the elements  *)
(* do not interfere.  An edge between nodes that are not there is an error. *)
(* Nothing is said of an edge without a type in an undirected document,     *)
(* which "defaults to ---" by R/format-graphml.R and to --> in the reader.  *)
ForeignDocumentsAreRead ==
    \A d \in Foreign :
        LET nodes == Append(OuterNodes(d[2]), d[3])
            rows == OuterRows(d[2])
            typesKnown == \A item \in ToSet(d[2]) :
                item[1] = "edge" =>
                    /\ ToSet(item[4]) \subseteq DOMAIN GlyphToCode
                    /\ item[4] = <<>> => d[5] = "directed"
        IN  d[1] = "graphml" /\ file = {EventsOf(d)} /\ typesKnown =>
                ReadData(EventsOf(d)) = IF EndsDeclared(nodes, rows)
                                        THEN {<<nodes, rows, OuterClass(d[2])>>} ELSE {}

(* shd() and hd() between a graph and the one saved count the pairs of      *)
(* names whose edges differ in class or arrowheads, and the pairs joined    *)
(* in only one of the two, in whatever order each lists its nodes.  The     *)
(* matrices for the adjustment distances differ where the edges do.  The    *)
(* graphs here are compiled by a build: the cursor in the rows of the first *)
(* needs them sorted, and in subgraphs they need not be                     *)
(* (GraphSession!NoDistanceToItself).                                      *)
MetricsFollowNames ==
    \A s \in saved, o \in cg :
        s.object.simple /\ o.simple /\ Comparable(s.object.names, o.names) =>
            \A g1 \in CoreOf(s.object), g2 \in CoreOf(o) :
                /\ Shd(s.object.names, g1, o.names, g2)
                        = Cardinality(Differing(o.names, g2, s.object.names, g1))
                /\ Hd(s.object.names, g1, o.names, g2)
                        = Cardinality(DifferingSkeletons(o.names, g2, s.object.names, g1))
                /\ \A m \in AidMatrices(s.object.names, s.object.class, g1, o.names, o.class, g2) :
                        \A p \in AscendingPairs(g1.n) :
                            SameCell(s.object.names, g1, o.names, g2, m, p[1], p[2])
================================================================================
