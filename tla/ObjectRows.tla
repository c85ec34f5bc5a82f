------------------------------- MODULE ObjectRows -------------------------------
(***************************************************************************)
(* What R passes down for a table of edges, and the object it gets back    *)
(* (R/caugi.R).                                                            *)
(*                                                                         *)
(* A row is an edge as R sees it, <<from, glyph, to>>.  `codes` is the     *)
(* function from glyphs to codes of the registry of the moment, `snapshot` *)
(* the function from codes to specs a session takes when it is created.    *)
(* An object is the inputs of its session: SessionContract says why no     *)
(* cache shows.  It is a record of names, simple, class, snapshot and      *)
(* edges; a call that may raise an error yields a set, empty on error.     *)
(***************************************************************************)
EXTENDS CoreBuild

(* edge_registry_code_of(), an error for a glyph that is not registered.   *)
Known(codes, rows) == \A r \in rows : r[2] \in DOMAIN codes

(* id[name]: the row of a name in the node vector *)
IdOf(names, x) == (CHOOSE i \in DOMAIN names : names[i] = x) - 1

Coded(names, codes, r) == <<IdOf(names, r[1]), IdOf(names, r[3]), codes[r[2]]>>

(* The edge buffer R passes down for a table of rows. *)
BufferOf(names, codes, table) ==
    [e \in {Coded(names, codes, table[i]) : i \in DOMAIN table} |->
        Cardinality({i \in DOMAIN table : Coded(names, codes, table[i]) = e})]

(* cg@edges: rs_edges_df() and the session's own names and snapshot. *)
RowsOf(o) ==
    {<<o.names[e[1] + 1], o.snapshot[e[3]].glyph, o.names[e[2] + 1]>> : e \in DOMAIN o.edges}

--------------------------------------------------------------------------------
(* Slip: repeated names stay. *)
NotUnique(names) == names

AppendNew(names, x) == IF x \in ToSet(names) THEN names ELSE Append(names, x)

(* unique(c(...)): of equal names the first stays. *)
Unique(names) ==
    Picked(names, {i \in DOMAIN names : \A j \in 1 .. (i - 1) : names[j] # names[i]})

(* c(edges$from, edges$to) *)
EndsOf(table) ==
    [i \in DOMAIN table |-> table[i][1]] \o [i \in DOMAIN table |-> table[i][3]]

(* caugi(): declared nodes come first if they cover the edges, else the    *)
(* ends of the edges do.                                                   *)
NodeOrder(table, declared) ==
    Unique(IF ToSet(EndsOf(table)) \subseteq ToSet(declared)
           THEN declared
           ELSE EndsOf(table) \o declared)

--------------------------------------------------------------------------------
CoreOf(o) == CheckedCore(Len(o.names), o.simple, o.snapshot, o.edges)

(* rs_resolve_class(): the class, or an error. *)
Resolved(o) == UNION {ResolveClass(o.class, g) : g \in CoreOf(o)}

(* The validator every call but subgraph() ends in. *)
SimpleFitsClass(o) == o.simple \/ o.class \in {"UNKNOWN", "ADMG", "AG"}

(* Slip: the class is kept unresolved. *)
Unresolved(o) ==
    {o2 \in {[o EXCEPT !.class = IF o.class = "AUTO" THEN "UNKNOWN" ELSE o.class]} :
        SimpleFitsClass(o2)}

(* The session o becomes the object returned, its class resolved; without  *)
(* an edge a class is taken as it comes, and AUTO is UNKNOWN.              *)
Returned(o) ==
    LET classes == IF o.edges # NoEdges THEN Resolved(o)
                   ELSE {IF o.class = "AUTO" THEN "UNKNOWN" ELSE o.class}
    IN  {o2 \in {[o EXCEPT !.class = c] : c \in classes} : SimpleFitsClass(o2)}

(* caugi(from, edge, to, nodes, simple, class) *)
Constructed(simple, class, declared, table, codes, snapshot) ==
    IF /\ simple \/ class \in {"UNKNOWN", "ADMG", "AG"}
       /\ Known(codes, ToSet(table))
    THEN LET names == NodeOrder(table, declared) IN
         Returned([names |-> names, simple |-> simple, class |-> class,
                   snapshot |-> snapshot, edges |-> BufferOf(names, codes, table)])
    ELSE {}
================================================================================
