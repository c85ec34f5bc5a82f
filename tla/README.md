# A verification model of caugi

caugi is an R package for causal graphs with a Rust core. R holds immutable-looking `caugi`
objects and verbs that return new ones; Rust holds the mutable `GraphSession` behind each object,
a compiled core (`CaugiGraph`, CSR arrays), typed views of it (`Dag`, `Pdag`, `Admg`, ...) and the
graph algorithms. The TLA+ modules in this directory model the session, the builder, the edge
registry, the verbs, the class tests, the queries and transforms of the typed views, the closure
under Meek's rules, separation and adjustment, and the files graphs are written to. TLC checks them
on small instances; TLAPS proves the session, the builder, the registry, the objects, the files, the
closure, the CPDAG test and the questions about paths and order correct for every value of their
parameters.

Everything runs in one thread, and nothing is persisted but files a user asks for. What is hard
here is not concurrency. It is

* **caches and flags kept by hand** over long sequences of legal calls (`GraphSession`),
* **codes that change meaning**: edges are stored as `u8` codes whose meaning is spread over a
  global registry, R environments and per-session snapshots,
* **checks that are skipped** because an earlier call is believed to have made them
  (`edges_trusted`, the class label an object carries, `from_closed_unchecked`),
* **calls that fail half-way** and leave state behind (batches of the builder, registration in
  two tables),
* **local tests that stand for global definitions** (CPDAG, chordality, Meek closure, separation).

## 1. Inventory

Paths are relative to the repository. "Hard" names what a unit test hardly reaches.

### GraphSession (`src/rust/src/graph/session.rs`, session FFI in `src/rust/src/lib.rs`)

State: the inputs `n`, `simple`, `graph_class`, `registry` (snapshot), `edges` (buffer), `names`;
the derived `name_to_index`; the caches `core`, `view`; the flags `core_valid`, `view_valid`,
`edges_trusted`. Operations: eight setters (`set_n`, `set_simple`, `set_edges`,
`replace_edges_for_pairs`, `set_class`, `set_names`, `set_registry`, `replace_spec`), lazy
accessors (`core()`, `view()` and every query that starts from them, `resolve_class()`,
`index_of()`), derived sessions (`clone_for_cow`, `from_prebuilt_core`, `from_snapshot_with_data`).
Interacts with the builder (to compile), the typed views (to check a class), the R verbs (its only
caller). Hard: stale caches after a setter; a view that fails after its core was built; trusted
edges that skip validation; cores cut from cores, whose rows no build has sorted. Correct when every
answer is that of a fresh build from the inputs of the moment.

### GraphBuilder and CaugiGraph (`graph/builder.rs`, `graph/mod.rs`)

State: rows of half-edges, the hash sets `seen` and `pair_seen`. Operations: `try_add_edge`,
`finalize_in_place` (sorts, checks, empties the builder), `build_from_edge_buffer` (no checks),
`CaugiGraph::induced_subgraph`. Hard: order of arrival against two hash sets; a batch that fails
half-way; two build paths that must agree; use after finalize. Correct when the verdict on a buffer
is independent of its order and both paths give the same CSR.

### Edge registry (`src/rust/src/edges/mod.rs`, `R/registry.R`, `R/aaa-env.R`)

State: `glyph_to_code`, `code_to_spec`, `sealed` in Rust; the pointer `reg`, `edge_ops` and
`glyph_map` in an R environment; a snapshot per session. Operations: `register_caugi_edge`,
`seal_caugi_registry`, `reset_caugi_registry`, `caugi_registry` (creates lazily). Hard: two tables
updated one after the other, a limit of 256 with 8-bit codes, a reset while graphs are alive.
Correct when glyphs, codes and operators agree and old codes keep their meaning until a reset.

### caugi objects and verbs (`R/caugi.R`, `R/verbs.R`, `subgraph` in `lib.rs`)

State: an object is its session. Operations: `caugi()`, `add_nodes`, `remove_nodes`, `add_edges`,
`remove_edges`, `set_edges`, `subgraph`, `build`. Every verb clones the session, translates names
and glyphs to numbers, passes the edges down, resolves the class and runs a validator. Hard: codes
from the registry of the moment meet snapshots of an earlier one; a class label that is carried
along; two representations (rows in R, bags of coded edges in Rust) of the same edges. Correct when
an object always compiles, is in its class, and a verb changes what it was given and nothing else.

### Typed views and class tests (`graph/{dag,pdag,mpdag,cpdag,admg,ag}/mod.rs`, `graph/ug.rs`, `graph/view.rs`)

A view packs the neighbours of each node in sorted buckets, one per kind of edge, in one array
(`graph/packed.rs`). Each `try_new` accepts or refuses a core; `resolve_class(AUTO)` takes the first
class of DAG, UG, MPDAG, PDAG, ADMG, AG that fits. `Pdag::is_cpdag` (`graph/pdag/cpdag.rs`) runs five
tests, among them a chordality test by maximum cardinality search. Hard: two passes that classify
each half-edge separately; local tests that stand for global definitions. Correct when the buckets
hold the neighbours of their kind and the tests decide the definitions they stand for.

### Graph algorithms (`graph/alg/*`, `graph/*/transforms.rs`, `separation.rs`, `msep.rs`, `adjustment.rs`, `districts.rs`)

Functions of one view: topological sort, ancestors and descendants, Meek closure, DAG to CPDAG,
moralization, d- and m-separation, minimal separators, adjustment sets, latent projection,
exogenization, normalization, districts. A transform returns a view; `lib.rs` makes a new session of
it, which stores the core and compiles it again later. `R/operations.R` builds two more graphs out of
such questions: `condition_marginalize()` and `dag_from_pdag()`. Hard: orders of rule application
(the neighbours of a node come out of hash sets), termination, equivalence of an algorithm with a
path-based definition, names that must follow renumbered nodes, results whose class nobody tests.
`graph/metrics.rs`: SHD, HD by a cursor over the rows of a core, which it takes to be sorted; AID by an
external crate.

### Serialization (`graph/serialization.rs`, `graph/graphml.rs`, `R/format-*.R`)

Functions between graphs and text. Hard: glyphs come from the registry of the moment rather
than the snapshot of the graph; each edge is stored twice and must be written once, from the right
end; the GraphML reader keeps state across XML events; `simple` is not written.

### The rest

DSL parser and edge operators (R expressions to edge tables), query and operation wrappers in R,
layout and plotting (floating point, graphics), conversion from and to other R classes, simulation,
options. `src/rust/src/reactive/mod.rs` is declared by no crate module. `PROJECT.json` lists each
with its status and reason.

## 2. Modules

| Module | Models | Kind |
|---|---|---|
| `GraphClasses` | what a core is, what each typed view accepts, Meek's rules, the CPDAG tests, `resolve_class` | operators |
| `CoreBuild` | what compiling a buffer yields, replacement by pairs, induced subgraphs and the order of their rows, the name index, sorting and picking from lists | operators |
| `MarkovEquivalence` | DAGs, v-structures, equivalence classes, essential graphs, consistent extensions | definitions to check against |
| `MeekRules` | what the closure's rules ask of a line, `try_orient()` | operators |
| `MixedGraphs` | what a view shows of its graph; paths, blocking, connection | operators and definitions to check against |
| `GraphBuilder` | the builder, edge by edge | state machine |
| `SessionContract` | what a session promises | abstract specification |
| `GraphSession` | the session with caches and flags | implements the contract |
| `EdgeRegistry` | registry, operators, snapshots | state machine |
| `ObjectRows` | what R passes down for a table of edges, and gets back | operators |
| `CaugiObjects` | objects and verbs over a registry that grows | state machine |
| `GraphMetrics` | SHD, HD with their cursor, matrices for AID | operators |
| `GraphFiles` | the registry while graphs are built, written, read and compared | state machine, implements `EdgeRegistry` |
| `ChordalityTest` | the chordality test, node by node | state machine |
| `CpdagCheck` | `is_cpdag`, test by test | state machine |
| `MeekClosure` | the closure, sweep by sweep and line by line | state machine with fairness |
| `Separation` | d- and m-separation, minimal separators, `is_mag` | operators |
| `Adjustment` | adjustment and backdoor sets of DAGs and ADMGs | operators |
| `CausalQueries` | the calls that ask for these | state machine |
| `ViewQueries` | neighbours, ancestors to posteriors, blankets, districts, order; arguments by name or index | operators |
| `PackedBuckets` | the two passes that fill the buckets of a view | operators |
| `ViewTransforms` | CPDAG, MPDAG, skeleton, moral graphs, projections, exogenized and normalized DAGs, subgraphs | operators |
| `DerivedGraphs` | `condition_marginalize()`, `dag_from_pdag()` of R | operators |
| `GraphViews` | sessions asked questions and turned into other sessions | state machine |
| `GraphSession_proofs`, `GraphBuilder_proofs`, `CaugiObjects_proofs`, `MeekClosure_proofs`, `GraphViews_proofs` | theorems of the module of that name | proofs |
| `GraphFiles_proofs` | theorems of `EdgeRegistry` and `GraphFiles` | proofs |
| `CpdagCheck_proofs` | theorems of `ChordalityTest` and `CpdagCheck` | proofs |
| `SharedFacts_proofs` | lemmas on registries and rows, orders of rows, sorted lists, picked sublists, least elements and maxima; on equivalent DAGs and closed patterns | proofs |
| `MC*` | constants for TLC; `MCCpdag` runs `CpdagCheck` or `ChordalityTest` | instances |

Which extends which (`A <- B`: B extends A):

```
GraphClasses <- CoreBuild <- GraphBuilder, ObjectRows, GraphMetrics
GraphMetrics <- GraphSession
CpdagCheck, ChordalityTest <- MCCpdag
GraphClasses <- MarkovEquivalence <- CpdagCheck, MeekClosure, ViewTransforms
GraphClasses <- MeekRules <- MeekClosure, ViewTransforms
GraphClasses <- ChordalityTest
GraphClasses <- MixedGraphs <- Separation <- Adjustment <- CausalQueries
MixedGraphs, CoreBuild <- ViewQueries <- PackedBuckets
ViewQueries, Adjustment <- ViewTransforms <- DerivedGraphs
DerivedGraphs, PackedBuckets <- GraphViews
ObjectRows <- CaugiObjects
EdgeRegistry, ObjectRows, GraphMetrics <- GraphFiles
M, TLAPS <- M_proofs
ObjectRows, MarkovEquivalence, TLAPS <- SharedFacts_proofs
SharedFacts_proofs <- GraphSession_proofs, GraphBuilder_proofs, CaugiObjects_proofs, GraphFiles_proofs,
                      MeekClosure_proofs, GraphViews_proofs
ChordalityTest, SharedFacts_proofs <- CpdagCheck_proofs
```

`GraphSession` instantiates `SessionContract`.

How they compose.

* `GraphBuilder` justifies, for one buffer, the operator `CheckedCore` that `GraphSession` uses as
  the result of a build (`AcceptedAsDeclared`, `FirstCore`).
* `GraphSession` implements `SessionContract`, which justifies that every other module represents an
  object by the inputs of its session alone.
* `GraphSession` lets a subgraph be cut from an unbuilt session only when its edges are acceptable;
  `CaugiObjects!ObjectsCompile` shows that the verbs keep to this.
* `PackedBuckets` justifies that `ViewQueries`, `Separation` and `Adjustment` read a view as
  relations on its nodes (`BucketsPackNeighbors`).
* `MeekClosure` justifies what `ViewTransforms` takes for the result of the closure: for a DAG the
  essential graph (`CpdagIsEssential`), for a PDAG any graph the rules lead to in some order
  (`MeekOutcomes`, by the same `MeekRules`).
* `GraphFiles` extends `EdgeRegistry` and drives it: every step of `FilesSpec` is a step of the
  registry or leaves it alone, so whatever is proved of the registry holds while files are written.

### Representation

* A core is a record of `n`, `simple`, `registry`, `links`, a bag of edges `<<u, v, code>>`, and `place`.
  The three CSR arrays hold each edge as two half-edges, in the rows of its ends; a row lists its
  neighbours `v` by ascending `place[v]`, parallel edges by code and side. A build sorts the rows, so
  that `place[v] = v` (`Compile`); `induced_subgraph()` renumbers neighbours and leaves them where they
  were (`KeptPlaces`), so that `place` is any order of the nodes. One order for all rows is enough,
  because every core is compiled or cut, in one or more steps, from a compiled one. `GraphBuilder` keeps
  the rows themselves and shows that the edges can be read back from them; `PackedBuckets` takes the
  half-edges apart again and sorts them, as the code does; `GraphMetrics` and the topological sort read
  the rows as they are.
* A view is a mixed graph: arcs, bidirected edges, lines. Lists that the code sorts, or of whose
  order it promises nothing, are sets: `neighbors()` of a node joined to another by two edges
  lists it twice in R, once here.
* A HashSet that the code walks is walked in every order (`MeekClosure`, the ready set of the sort).
* An edge buffer is a bag. Its order only reaches the choice among error messages and the row order
  of a data frame.
* `Option` and `Result` are sets, `{}` for `None` or `Err`, or, for answers, `Ok(value)` and `Err`.
  Messages are left out. A panic in `build_from_edge_buffer` is the empty result of `TrustedCore`;
  the invariants show it is never reached. A panic of the builder is a value of `result`.
* A verb that raises an R error returns no object and therefore has no step. A question or transform
  that is refused is the step `Refused` of `GraphViews`, or an answer `Err` of `CausalQueries`.
* R's external pointer to a session is the session: verbs never share one, because they clone
  first. The model follows the returned object; the old one is the state before the step.
* Names are strings, edge types are records with the fields of `EdgeSpec`. Registries are
  functions from codes `0..k-1`. 256 becomes the constant `MaxTypes`; codes are taken modulo it.
* A JSON document is its record. A GraphML document is the sequence of events the XML reader
  delivers; the reader is a fold over the events with the state of the code's loop. `<` and `>` in a
  glyph arrive as references, which is why the text of a `<data>` element comes in pieces.
* History variables: `did` (`CaugiObjects`), `offered`, `accepted` (`GraphBuilder`), `current`
  (`EdgeRegistry`), `saved` (`GraphFiles`), `source`, `call` (`GraphViews`), `call`
  (`CausalQueries`), `input` (`MeekClosure`). No guard that stands for code reads them, except that a
  question ends a behaviour and `offered` bounds the calls (`MaxOffered`).

Definitions whose comment begins with "Slip" are plausible mistakes in a definition of the model:
`PROJECT.json` pairs each property with one, and the property must fail when the slip takes the
place of the definition. No specification uses them.

## 3. Runs

| Run | Instance | States | What it shows |
|---|---|---|---|
| `chordality_wheel` | all connected graphs on 5 nodes | violation | non-chordal components pass (finding 1) |
| `cpdag` | all simple PDAGs on 4 nodes; all connected graphs on 5 nodes | 19,382 | `is_cpdag` refuses no essential graph; what it accepts is the essential graph of each DAG it can be completed to; the search orders chordal graphs perfectly and refuses no chordal component |
| `session` | 2 nodes, 2 registries, 3 classes | 110,322 | caches coherent up to the order of rows, trust justified, refinement of the contract |
| `subgraph_distance` | 3 nodes, one graph | violation | a subgraph of a cached core is at a distance from itself (finding 4) |
| `builder` | 2 nodes, 2 types, 3 edges offered | 153,601 | order does not matter; partial batches are harmless; one CSR |
| `objects` | 3 names, 4 classes, simple or not, a glyph registered between verbs | 330,933 | objects compile and are in their class, verbs touch only what they were given |
| `files` | limit 8: six built-ins and room for two; 8 graphs, 7 foreign documents | 91,025 | tables, operators and snapshots agree; files read back; metrics go by name |
| `meek` | every DAG and PDAG on 4 nodes, every order of the hash sets | 257,632 | the closure ends, closed and acyclic, and loses no extension |
| `causal` | DAGs, ADMGs, AGs on 4 nodes, every question | 326,574 | separation and adjustment agree with paths |
| `admg_separation` | ADMGs on 4 nodes | violation | ADMG separation misses paths (finding 2) |
| `views` | DAGs on 3 to 5 nodes, other classes on 3, AGs on 4; subgraphs with renumbered rows; two calls in a row from 3 nodes | 132,310 | queries follow paths, transforms keep separation and return sessions that open |
| `pdag_extension` | PDAGs on 3 nodes | violation | `dag_from_pdag()` makes a new collider (finding 3) |

### Bounds, and why they are enough

* Chordality: four nodes are too few for a non-chordal graph to pass; five are the first size with
  the wheel, and hold every chordless cycle of four or five nodes with every attachment of a fifth.
* CPDAG: with four nodes each of Meek's rules and of the four kinds of strong protection occurs, as
  the slips of the run witness. Components of fewer than five nodes are decided correctly by
  the chordality test, so the wheel does not disturb this run.
* Session: each invalidation rule concerns one setter and one cache, so sequences of a setter after
  a build matter, not sizes. Two nodes suffice for edges that become invalid by `n`, `simple` or
  `registry`; the buffers include duplicates, a self-loop, an edge out of range and an unknown code.
  What does not depend on the bound is proved (section 5). A subgraph that swaps the two nodes has its
  rows in another order; that the distances notice takes a row of two neighbours, hence the three
  nodes of `subgraph_distance`.
* Builder: three edges offered suffice for an accepted edge followed by any two of its duplicate,
  its reversal, an edge of another type on the same pair and an edge that fails a check; one node
  and one code too many are among the offers.
* Objects: three names are the least for a cycle, an unshielded collider and a subgraph that
  renumbers. `MaxEdges` = 3 bounds what verbs pass down for a simple object, `MaxParallel` = 2 for
  any other: an edge and a parallel one. Declared node orders differ from the order of mention.
  `ObjectsAreInTheirClass` asks of a subgraph only the part of its class that subgraphs keep: PDAG for
  an object that was an MPDAG. Three names are too few to tell the two apart, four are not (section 4).
* Files: `MaxTypes` = 8 with six built-ins leaves two free codes for two new user types; other calls
  repeat a built-in, contradict one, and carry a spec R turns away. The graphs hold each of the six
  types, a user type reversed and one symmetric, edges to the left and right, node orders that are
  not alphabetical, one whose permutation is not its own inverse, and parallel edges. Foreign
  documents have a wrong format or version, unknown nodes or glyphs, nested graphs, data before,
  inside and after edges, edges before nodes and an edge typed twice; one of them is undirected by
  default. All graphs compared by `MetricsFollowNames` are compiled by a build, with sorted rows.
* Meek: `Size` = 4 is the least on which R3 and R4 have their premises. `MixedPairs` = 3 bounds the
  pairs of a graph in which a pair may hold both an arc and a line. `NoExtensionIsLost` speaks only of
  graphs that have no such pair: the proof needs it, and from five joined pairs on the property is
  false without it (section 4).
* Causal: arcs go upwards, which loses no acyclic graph up to renaming. Four nodes allow a collider
  opened by a descendant and two colliders in a row. ADMGs have at most `AdmgEdges` = 3 edges, bows
  included, AGs three or five. At most three nodes are exposures or outcomes (`MaxEnds`),
  enumerations go to sets of one (`MaxSize`).
* Views: the three-node DAGs come compiled and as subgraphs under three renumberings, whose rows are not
  sorted. DAGs on four nodes come under two numberings, so that arcs run both ways and edge types
  with the arrow on the tail are among them. The five-node DAGs have latents above latents: two
  projected nodes of which one is a parent of the other. From three nodes two calls are made in a row,
  a transform and then any call on its result, for the sessions that only fail when asked.
  `MaxLatents`, `MaxSeeds` = 2; `MaxEssential` = 3 bounds the DAGs turned into CPDAGs, because the
  definition of an essential graph enumerates a class (`meek` has all of four nodes).

The check for deadlock is off where the system may stop: the class tests and the closure end with a
verdict, a question ends its behaviour, a sealed or full registry refuses everything, and an object
need not be edited.

### Fairness

The only fairness is `WF_vars(Next)` of `MeekClosure`, for `Terminates`. It says that a call that
has begun goes on: the loop runs inside one synchronous Rust call in one thread, without a callback,
lock or check for interrupts, so nothing but its own loop could keep it from ending. It is what rules
out that a sweep reports a change it did not make. The other components only react to calls, and the
library promises nothing about which calls come; they have no liveness properties.

## 4. Findings

1. **Chordality pivot** (`graph/pdag/cpdag.rs:199`). The clique test must compare the earlier
   neighbours of a node with the one numbered last; `higher.last()` is the one numbered first. The
   wheel over four nodes is accepted as chordal (`chordality_wheel`). A CPDAG whose chain component
   is a wheel is thus accepted.
2. **ADMG separation** (`graph/admg/msep.rs:122`). The moral graph marries the nodes with heads at
   one common node only. In `A --> B <-> C <-- D` given `B` and `C`, nothing joins `A` and `D`, so
   `m_separated()` answers TRUE though the path is open (`admg_separation`); `admg/msep.rs:206` says
   "Returns `true` iff". The code for AGs joins along whole collider paths and agrees with paths.
   `SeparationIsPathBlocking` therefore asks both directions of DAGs and AGs, and of ADMGs without
   such a chain; and of all ADMGs that what is reported as connected is so.
3. **Extension of a PDAG** (`R/operations.R:700`). The second condition on a sink compares its
   undirected neighbours with one another but not with its parents. `A --> B --- C` becomes
   `A --> B <-- C` (`pdag_extension`). `DerivedSessionsOpen` checks that the result is a DAG on the
   same skeleton that keeps the arcs.
4. **Order of rows in a subgraph** (`graph/mod.rs:206`). `induced_subgraph()` renumbers the neighbours
   in a row and does not sort them again. `find_edge_kind()` and `has_edge_to()` "Advance cursor through
   a sorted adjacency list" (`graph/metrics.rs:41`) and stop at the first neighbour that is too large
   (lines 57 and 80). Take `A --> B`, `A --> C`, ask anything that builds the core, then
   `subgraph(cg, c("A", "C", "B"))`: the row of `A` is `[2, 1]`, the search for node 1 stops at 2, and `shd()` and
   `hd()` are 1 against an identical graph compiled afresh, or against the subgraph itself
   (`subgraph_distance`). As the second argument, or after any setter has made the session build again,
   the same subgraph is at distance 0. The test `identical_zero_shd` (`graph/metrics.rs:322`) asserts 0 of
   this graph when it is compiled. The cached core is therefore not the core a build gives:
   `CacheCoherent` and the contract say that it is up to the order of its rows, and that rows out of
   order are found under trusted edges only. The other reader of raw rows, the topological sort, gives
   another order that is as topological (`TopologicalOrder`, checked and proved for every order of rows).

Seen while modelling, where the code or its documentation, not the model, deserves a second look:

* "For GraphML files not created by caugi, edge types default to "-->" for directed graphs and "---" for
  undirected graphs" (`R/format-graphml.R:123`). The reader never looks at the attribute `edgedefault`:
  an edge without a type is an arrow in every document (`graphml.rs:330`). `ForeignDocumentsAreRead` asks
  for the arrow where the outer graph is directed and says nothing of an edge without a type where it is
  undirected. The documents of the run carry `edgedefault`; the modelled reader ignores it as the code does.
* The forbidden set of ADMGs contains the descendants of the exposures themselves, since an exposure
  with a causal path is among its own causal nodes (`admg/adjustment.rs:29`). A set with a descendant of
  an exposure off every causal path, harmless by the adjustment criterion, is thus refused, and missing
  from what `all_adjustment_sets_admg()` returns, in spite of "Enumerates all valid adjustment sets"
  (`R/adjustment.R:525`). `AdmgCriterionIsSound` asks that what is accepted meets the criterion, and that
  nothing is refused among the sets without descendants of exposures; of the others it allows refusals.
* `shd()` of graphs with parallel edges compares the first edge the cursor meets between two nodes of the
  first graph with the last one of the second (`metrics.rs:121`), so such a graph can be at a distance from
  itself. `MetricsFollowNames` and `NoDistanceToItself` are about simple graphs.

* `0..registry.len() as u8` is empty for 256 types (`session.rs:180`, `builder.rs:68`): a session
  made then has an empty snapshot. `EdgeRegistry!SnapshotLength` has it.
* Verbs take codes from the registry of the moment, sessions read them by their snapshot
  (`R/verbs.R:360`, `R/verbs.R:440`). After `reset_caugi_registry()` and other registrations a code
  means another type. `objects` lets the registry grow but not reset between verbs: a glyph
  registered after an object was built is refused for that object.
* `subgraph()` keeps the class label it finds (`lib.rs:1737`); the same on views tests the rest anew and
  says why (`view.rs:524`). Neither CPDAGs nor MPDAGs are closed under subgraphs: in
  `u --> v --- w <-- p` the guard against new colliders keeps the line; without `p` rule R1 orients it,
  and the object that `subgraph()` returns, still labelled MPDAG, is a PDAG only. `objects` leaves
  CPDAG out of its classes and asks a subgraph of an MPDAG to be a PDAG.
* The closure of a PDAG with an arc and a line on one pair can lose consistent extensions: R3 takes two
  parents of a node that are joined to it by lines as well for two neighbours. R refuses
  `simple = FALSE` for a PDAG (`R/caugi.R:228`), so no such graph gets there.
* `max: self.n - 1` in the error of a node out of range (`builder.rs:123`) wraps, or panics in a debug
  build, when the builder has no nodes. It reaches only the text of the message.
* `edge_buffer_from_core()` keeps symmetric edges with `u < v` only and loses a symmetric self-loop
  (`lib.rs:397`).
* The fourth rule of the closure orients a line along a directed path; Meek's fourth rule is absent.
  The result is closed under the rules the code has, which is all `ClosedWhenDone` says; it need
  not have every orientation that all extensions share, which `R/operations.R:69` can be read to
  promise.
* `condition_marginalize()` refuses a result without edges (`R/operations.R:540`,
  `R/caugi.R:299`), and silently ignores names it does not know among `marg_vars`.
* Files do not record `simple`: a graph with parallel edges cannot be read back, in spite of
  "perfect round-trip" (`R/format-graphml.R:44`). `FilesAreReadBack` is about simple graphs.
* A self-closing `<edge/>` is skipped, and an edge element inside a graph nested in an edge ends the
  outer edge (`graphml.rs`).
* `ancestral_reduction()` of an AG keeps ancestors, not anteriors, so undirected connections can be
  lost; Markov blankets of ADMGs and AGs leave out nodes reached through children that have spouses.
  `MarginsKeepSeparation` and `BlanketShields` are stated for the graphs without these.
* The comments on parents as an adjustment set (`dag/adjustment.rs:67`, `85`) hold for one exposure,
  not for several: parents of one exposure can be descendants of another. `ProposedSetsAdjust`
  asks it of one.
* Nothing in `is_cpdag()` asks that a DAG with the colliders of the graph exists, in spite of "Returns
  true iff `self` is a CPDAG" (`graph/pdag/cpdag.rs:8`). With five nodes the five tests accept
  `a --> c <-- b`, `a --> d <-- e`, `c --- d`: either direction of the line makes a new collider, and the
  guard of the R1 test (lines 235 to 247), which skips a line where orienting it would make a collider,
  hides that the rule has both to say. Four nodes are too few. `AcceptedIsEssentialOfItsDags` is about
  graphs that can be completed, on which the tests are right.
* AID takes DAG and PDAG views only, so an object of class CPDAG is refused by an error that asks for
  a CPDAG. SHD takes `A --o B` and `B --o A` for equal.
* `parse_parent_index0()` reads index 0.5 as node 1, `subgraph()` refuses it.

## 5. Proofs

TLAPS checks 45 listed theorems in eight modules, each for all values of the constants that satisfy
the named assumptions, and the 528 lemmas they rest on. 27 of the runs' properties are among them.

**Session** (`GraphSession_proofs`, from `SessionAssumption`: bounds, names, buffers, registries and
batches have their types). `Spec => []IInv`, with `IInv == TypeOK /\ CacheCoherent /\
TrustedEdgesAreValid`, its conjuncts, and `Spec => ImplementsContract`, the refinement of
`SessionContract`. Coherence of the core alone is not inductive: `build_core()` takes the unchecked
path when `edges_trusted` is set, and its result is that of a checked build only because trusted
edges are valid. Trust alone is not inductive either: cutting a subgraph from a cached core sets
`edges_trusted` for edges read off that core, which are valid because a cached core is a checked
one. `InducedIsValid` is the key lemma: the edges a subgraph keeps, renumbered by a list of distinct
nodes, pass every check of the builder if the old ones did. `BuildIsChecked` says that under `IInv`
both build paths agree; the `...Implements` lemmas map each step to a step of the contract with the
same arguments, or to a stutter.

A valid core is a build with its rows in some order (`CachedCore`), and the order is the sorted one
unless the edges are trusted: a build sorts (`BuildIsOrdered`), a subgraph of a core in any order is
in an order again (`KeptPlacesIsOrder`), and every setter that drops the trust drops the core. The contract
answers a question for the core, alone or in a view, by a fresh build in some order of rows, and every
other question by a fresh build. That the class of a core, and so whether it has a view, does not
depend on the order of its rows is `SameButForRows`. So what the refinement says of the caches is
all that is true of the code; that the order can be observed is finding 4. The contract leaves the meaning of a build,
a view, a subgraph and an index to constant operators, so the refinement does not depend on what a
cycle is.

**Builder** (`GraphBuilder_proofs`, from `BuilderAssumption`: the bounds are numbers, the registry is
one). That the edges taken are acceptable together, and that an offer is refused exactly when the
offers so far are not acceptable, need to know what the two hash sets hold: `BInv` adds `SeenAreKeys`
(the sets are the keys and pairs of the edges taken, no more) and `RefusedForCause` (each refused edge
is wrong in itself or clashes with one that was taken). Without the second, a later offer could make
a refused edge look acceptable. `FirstCoreIsTrusted` needs the rows: `RowsHold` says that each row
holds the half-edges at its node, each once. Sorting makes a list determined by its set
(`SortedRow`: two sorted rows of the same half-edges are equal, whatever order they came in), so the row
of the checked build is that of the bulk build (`TrustedRows`), and the tail halves give the edges back
(`CsrOfAccepted`).

**Registry** (`GraphFiles_proofs`). `RegistryInvariant`: the two tables of Rust are inverse to each
other, R has an operator for exactly the registered types, and a snapshot is a prefix of the registry
until the next reset. The tables have to be inverse for the rest: that a new glyph is in neither
table, and that its code, the length of one table, is no code of the other, is what lets a
registration extend the operators by one and leave every snapshot a prefix.
`GlyphsAndCodesAgree`, `OperatorsMatchTypes` and `SnapshotCodesStillHold` follow.

**Objects** (`CaugiObjects_proofs`, from `ObjectsAssumption`: glyphs, tables and classes have their
types, glyphs name their specs). `OInv` is the invariant: the registry lists distinct glyphs; the object
has distinct names and edges that a build accepts by its snapshot; the snapshot is a prefix of the
registry (`WellMade`); the object is in its class (`ObjectsAreInTheirClass`). The prefix is what makes
the verbs work: they take codes from the registry of the moment and the session reads them by the
snapshot, so a code in range means the same type on both sides and one out of range is refused
(`RowsAreReadBack`: rows encoded and decoded again are the same rows). `EveryObjectCompiles` is the
justification of the trust in `subgraph()` across all verbs; `ClassIsHereditary` shows, class by class,
that a subgraph of an object is in the hereditary part of its class (directed paths, and for ancestral graphs
anterior ones, of the subgraph are paths of the graph). The two action properties,
`OtherRowsAreKept` and `ThePairIsSet`, follow from the invariant at the state before the step.

**Chordality** (`CpdagCheck_proofs`, from `ComponentSizeAssumption`). `SearchInv` records what the greedy
choice leaves behind: when a node was numbered, no node left had more numbered neighbours.
`EarlierNeighboursAreAClique` is the theorem of Tarjan and Yannakakis for components of any size: if
the component is chordal, the neighbours numbered before a node are pairwise adjacent. Suppose two are
not. They are the ends of a detour, a chordless path on which both ends are numbered before every node
between them. Among all detours take one whose later end was numbered first: that end has an earlier
neighbour that the node beside the other end has not (`EarlierHasANeighbour`), and this
neighbour gives a detour whose ends come earlier still, or closes a chordless cycle
(`DetourStartsEarlier`, `NoDetour`). `NoChordalIsTurnedDown`
follows whichever of the earlier neighbours is the pivot, so it holds of the code in spite of finding 1;
the other direction is what finding 1 refutes.

**Closure** (`MeekClosure_proofs`, from `SizeAssumption` and `PdagsAssumption`: the graphs
`to_mpdag()` is called with have acyclic arcs and symmetric lines). `MeekInvariant` is
`Spec => []IInv`; `MeekAcyclic`, `MeekSkeleton` and `MeekClosedWhenDone` are the properties of the
run. `OrientingKeepsAcyclic` is the key lemma for the first: an arc added from a to b closes a cycle
only if a directed path led from b to a, which `try_orient()` has just looked for. For
`ClosedWhenDone` the property is far from inductive, since it speaks of the end only. The
strengthening says what a sweep has established half-way: as long as it has changed nothing
(`changed = FALSE`), no rule fires on a line it has visited: lines of the rules and nodes left behind,
and of neighbours already taken off `todo` (`SweepSoFar`). A sweep that ends quietly thus ends closed
(`QuietSweepIsClosed`), and one that changed something starts again. A changed flag lost in any
branch breaks the induction.

`MeekArcsAreImplied` says that every arc of the closure is, at every moment, in each DAG that is a
consistent extension of the input with its colliders. `RuleIsSound` goes through the four rules: an
extension that oriented the line the other way would have a cycle (R2, R4) or a collider the input
has not (R1, R3). `NoExtensionIsLost` follows for simple graphs of any size (`MeekKeepsExtensions`).

**Essential graphs** (`SharedFacts_proofs`, used by both). `CpdagIsEssential` says more: what the
closure of the colliders of a DAG leaves as lines, the equivalent DAGs do not agree on. The two
halves rest on two notions. An arc is `Forced` if it is in a collider of the DAG or one of the rules,
with premises among arcs and lines drawn, leads to it: forced arcs are in all equivalent DAGs, since
the first one that an equivalent DAG turned round, in the order of that DAG, would give it a cycle or a
new collider (`FirstTurned`, `ReasonsAreSound`). A `ClosedPattern` of a DAG has the skeleton, the colliders
and only forced arcs, and no rule asks for anything (`ClosedIsExhausted` gets this from the code's
test). In a closed pattern every parent of one end of a line is a parent of the other
(`ParentOfLine`, Meek's first lemma), so the lines fall into components that arcs do not distinguish,
each of them chordal. A chordal component can be taken apart by simplicial nodes with any given line last, in
either direction; orienting it in that order makes no collider, and the arcs between components
keep theirs. That is the DAG that turns the line round (`ClosedPatternIsEssential`). With
`MeekArcsHaveReasons`, an invariant of the closure, and `MeekClosedWhenDone` this gives
`CpdagIsTheEssentialGraph`, for every size and every order of the hash sets.

**CPDAG test** (`CpdagCheck_proofs`, from `SizeAssumption`). `NoEssentialIsRefused`: the essential graph of a
DAG of any size passes the five tests. `EssentialIsClosed` takes a largest set of arcs each of which
has a reason; a rule that still asked would make it larger (`OneMoreArc`), so it is closed, and hence
the essential graph. A closed pattern passes: an arrow inside of a component would be a parent of
both ends of a line and, by `ParentOfLine`, of itself (`NoArrowInside`); a cycle of components would be a
cycle of the DAG (`ComponentsAreAcyclic`); the code's rules are among those that do not ask
(`ClosedPatternIsMeekClosed`); each reason is a way of being strongly protected (`ReasonsProtect`). For
chordality, the lines of a component oriented as in the DAG marry the parents of each node
(`MoralIsChordal`), and the theorem on the search below applies to the order the function `McsOrder`
computes (`SearchExists`, `McsOrderNumbers`). `AcceptedRepresentsItsDags` is the other direction, as far as it
goes: a graph that passes is the essential graph of each DAG that extends it. Strong protection gives
every arc a reason, the closure test the rest. That some DAG extends it is not true of every graph
that passes (section 4).

**Files** (`GraphFiles_proofs`). `FilesDriveTheRegistry` shows `FilesSpec => Spec` of the registry, by
a step simulation; the three theorems of the registry carry over to the specification that `files`
checks. `EveryFileIsReadBack` is `FilesAreReadBack` for graphs of any size, from `FilesAssumption`
(tables and foreign documents have their types; a glyph has its own XML pieces). The invariant is
`FInv`: the built-in types stay registered, an object has distinct names, valid edges and a class that holds (`WellBuilt`), its snapshot
is the one the registry took last, and a file saved before a reset is a document of its object. With a
registry that has grown since, the glyphs written are those the graph was built with
(`WrittenBySnapshot`); between two nodes of a simple graph there is one edge, so the rows are as many
as the edges; the graph built of these rows has the same nodes, and edges that differ at most in their
codes and, if symmetric, in their orientation (`Renewed`), so it is accepted (`RenewedIsValid`), in
the same class (`RenewedHasTheShape`) and of the same typed edges (`RenewedHasTheEdges`). That the
GraphML reader finds the rows in the document is `GraphmlParsed`. `Leads(s, events, t)` says that a
chain of states, one per event, leads the reader from s to t: it replaces the fold (`FoldLeads`),
composes over concatenation (`LeadsOn`), and `LeadsAlong` takes it along a list of elements of any length.
What a written element does to the reader is then a lemma per kind of element.

`EveryForeignDocumentIsRead` goes the same way through documents of other programs. An item of the
outer graph adds its node, its row or its class (`ReadsItem`), which is what one more item adds to the
three lists the property speaks of (`OneMoreItem`, by `PickedOfLonger`); of several types of an edge
each corrects the row the first one added (`ReadsTypes`), an edge without one needs the built-in arrow
(`ArrowIsKnown`); inside of the inner graph every event leaves the reader as it was (`Ignored`).

**Questions and transformations** (`GraphViews_proofs`, from `BoundsAssumption` and `StartsAssumption`:
the sessions to start from are sessions, that is a core as a builder compiles it or with its rows in another order, over a finite
registry whose directed types have an arrow at an end, one distinct name for each node, and the view
that the class has of that core). `SessionsAreSound` is the invariant: every transformation makes a
session again. Its lemmas go through the transformations one by one: projections and subgraphs
renumber the nodes and hand the names over beside the graph, so that the n-th node has the n-th name
is a fact about two sorted lists (`Remaining`); exogenization and the closure rebuild the edges in
loops whose states are followed from beginning to end (`ExogenizedBy`, `LoopsStay`).

`AnswersFollowPaths` rests on the same invariant. The traversals collect nodes until nothing is
added. The function of a set to the nodes reached from it solves the equation of that recursion, and
is the only one: a second would differ from it at a largest set, which asks only for larger ones
(`GrowsOnce`). `SortsAreTopological` follows the sort node by node. `SortInv` says that the stack
holds the nodes not listed yet of which no parent waits, that the count kept for a node is the
number of its incoming edges from nodes not listed yet, and that a listed node comes after its
parents. `NeverStuck`: with an empty stack no node is left over, since of the nodes left over in an
acyclic graph one has no parent among them. So the sort lists every node, and no arc points
backwards. The counts come from half-edges, so parallel edges and types whose arrow is at the tail
are in the argument.

`BucketsHoldTheNeighbors` is about the packed array under all views. The half-edges of a bucket are a
`Pile`; its base is the number of half-edges in the piles before it, node by node and bucket by bucket
(`Base`), and this is what the sums over the counted degrees come to (`RangesAre`, `BasesOf`).
`ScatterInv` follows the pass that fills the array: after any set of half-edges, each cursor is its
base and the number of its half-edges written so far, and the stretch between the two holds their
nodes. So a cursor ends where the next bucket starts, and never writes into it, in whatever order the
half-edges come (`ScatterStep`). Sorting permutes each stretch (`BySizeFacts`), and the accessors
that span buckets of a node read stretches side by side (`SlicesJoin`). An edge from a node to
itself is in the array twice, once for each of its ends.

The prover has no induction over data. Where an argument needs one, it takes a counterexample with the
least number instead (`Least` of `SharedFacts_proofs`), or compares cardinalities of finite sets.

Only model-checked:

* `Terminates`: liveness under fairness is out of the prover's reach.
* `MetricsFollowNames`, which compares counts over merged tables. It also does not hold of every
  type the registry accepts, whose marks may contradict its class; a theorem would need an assumption
  that the registry does not enforce.
* All of `CausalQueries`, and of `GraphViews` what is about separation: `BlanketShields`,
  `MoralGraphsShowSeparation`, `MarginsKeepSeparation`. They are equivalences of an algorithm on a
  derived graph with the blocking of every path of the original one, of any length: inductions over
  paths, nested in inductions over descendants of colliders.
* `LatentsCanBeNormalized`, which is about separation in the same way, and `DerivedSessionsOpen`, which
  says of each transformation what kind of graph it yields: for `dag_from_pdag()` and the closure this
  is a fact about all orders of a recursion over data.

## 6. Not modelled

* Resets of the registry between verbs, and objects of class CPDAG, in `CaugiObjects` (section 4).
* `mutate_caugi()` (the constructor on the rows of another object), comparison and printing.
* The counting of adjustment mistakes (crate gadjid); the matrices it is handed are modelled.
* The text of JSON and XML, numbers and escapes in it, and the disk.
* The DSL parser and edge operators: syntax to edge tables, without state.
* Layout and plotting: floating point and graphics.
* Conversion to and from other R classes, export of text formats, simulation, options: text, foreign
  classes, random numbers.
* `src/rust/src/reactive/mod.rs`: declared by no crate module.
* Error messages. Values R coerces before they reach a verb (`NA`, factors, negative numbers) are
  refused or converted at the boundary (`rint_to_u32`, `rint_to_u8`). The registry only compares the
  class of a type with its symmetry, so types whose marks contradict their class can be registered;
  the runs use types whose marks fit. The theorems on views need less: a directed type has an arrow
  at one end at least, without which it has no parent end. Memory and overflow of `u32` indices are
  out of scale; the 8-bit code is not.

## 7. What is left

1. Proofs about separation: that moralization of the ancestral graph decides d-separation, for graphs
   of any size.
2. `CaugiObjects` with resets of the registry, for the objects that are not edited after one.
3. The DSL as a function from expressions to rows, against the rows `ObjectRows` is given.
