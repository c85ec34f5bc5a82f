------------------------------ MODULE EdgeRegistry ------------------------------
(***************************************************************************)
(* The global edge registry: the Rust table of edge types (src/rust/src/   *)
(* edges/mod.rs), the R environment that holds it together with the        *)
(* operators the DSL understands (R/aaa-env.R, R/registry.R), and the      *)
(* snapshot of it a graph takes when it is built.                          *)
(*                                                                         *)
(* Codes are u8: MaxTypes stands for 2^8, and `len as u8` is len modulo    *)
(* MaxTypes.  An operator is the glyph between percent signs, so it is     *)
(* identified with its glyph and glyph_map with the set edge_ops.          *)
(***************************************************************************)
EXTENDS GraphClasses

CONSTANTS
    MaxTypes,    \* EdgeRegistry::MAX_TYPES
    UserSpecs    \* the edge types register_caugi_edge() is called with

PartiallyUndirectedSpec ==
    [glyph |-> "--o", tail |-> "tail", head |-> "circle", symmetric |-> FALSE,
     class |-> "partially undirected"]

PartiallyDirectedSpec ==
    [glyph |-> "o->", tail |-> "circle", head |-> "arrow", symmetric |-> FALSE,
     class |-> "partially directed"]

(* register_builtins(), in its order. *)
Builtins ==
    <<DirectedSpec, UndirectedSpec, BidirectedSpec, PartialSpec,
      PartiallyUndirectedSpec, PartiallyDirectedSpec>>

ASSUME RegistryAssumption ==
    /\ MaxTypes \in Nat /\ MaxTypes >= Len(Builtins)
    /\ UserSpecs \subseteq EdgeSpec

VARIABLES
    exists,          \* .caugi_env$reg is not NULL
    glyph_to_code,
    code_to_spec,    \* position code + 1 holds the spec of the code
    sealed,
    edge_ops,        \* .caugi_env$edge_ops
    snapshot,        \* RegistrySnapshot.specs of the last graph built
    current          \* no reset since that snapshot was taken

table == <<glyph_to_code, code_to_spec, sealed>>

vars == <<exists, table, edge_ops, snapshot, current>>

Glyphs(specs) == {specs[i].glyph : i \in DOMAIN specs}

CodeTable(specs) ==
    [g \in Glyphs(specs) |-> (CHOOSE i \in DOMAIN specs : specs[i].glyph = g) - 1]

DefaultOps == Glyphs(Builtins)

(* What caugi_registry() hands out: the registry, created if need be. *)
GlyphToCode == IF exists THEN glyph_to_code ELSE CodeTable(Builtins)

CodeToSpec == IF exists THEN code_to_spec ELSE Builtins

Sealed == IF exists THEN sealed ELSE FALSE

Init ==
    /\ exists = FALSE
    /\ glyph_to_code = CodeTable(<<>>)
    /\ code_to_spec = <<>>
    /\ sealed = FALSE
    /\ edge_ops = DefaultOps
    /\ snapshot = <<>>
    /\ current = FALSE

--------------------------------------------------------------------------------
(* A class that has a direction is not symmetric, and the others are. *)
WellFormed(spec) ==
    spec.symmetric <=> spec.class \in {"undirected", "bidirected", "partial"}

(* EdgeRegistry::register(): the registry changes only for a new glyph.    *)
IsNew(spec) ==
    /\ ~ Sealed
    /\ spec.glyph \notin DOMAIN GlyphToCode
    /\ Len(CodeToSpec) < MaxTypes

(* register() returns a code rather than an error. *)
Accepts(spec) ==
    \/ IsNew(spec)
    \/ /\ ~ Sealed
       /\ spec.glyph \in DOMAIN GlyphToCode
       /\ CodeToSpec[GlyphToCode[spec.glyph] + 1] = spec

(* Slip: the length is read after the push. *)
CodeAfterPush(spec) == (Len(CodeToSpec) + 1) % MaxTypes

Code(spec) == Len(CodeToSpec) % MaxTypes

Extended(codes, glyph, code) ==
    [g \in DOMAIN codes \cup {glyph} |-> IF g = glyph THEN code ELSE codes[g]]

(* Slip: the operator goes in before Rust has agreed. *)
RegisterOperatorFirst(spec) ==
    /\ WellFormed(spec)
    /\ exists' = TRUE
    /\ sealed' = Sealed
    /\ glyph_to_code' = IF IsNew(spec) THEN Extended(GlyphToCode, spec.glyph, Code(spec))
                                       ELSE GlyphToCode
    /\ code_to_spec' = IF IsNew(spec) THEN Append(CodeToSpec, spec) ELSE CodeToSpec
    /\ edge_ops' = edge_ops \cup {spec.glyph}
    /\ UNCHANGED <<snapshot, current>>

(* Slip: the last definition of a glyph wins. *)
RegisterOverwriting(spec) ==
    /\ WellFormed(spec)
    /\ spec.glyph \in DOMAIN GlyphToCode
    /\ exists' = TRUE
    /\ sealed' = Sealed
    /\ glyph_to_code' = GlyphToCode
    /\ code_to_spec' = [CodeToSpec EXCEPT ![GlyphToCode[spec.glyph] + 1] = spec]
    /\ UNCHANGED <<edge_ops, snapshot, current>>

(* register_caugi_edge(): the Rust table first, then the operator.  An     *)
(* error on the way stops it there.                                        *)
RegisterEdge(spec) ==
    /\ WellFormed(spec)
    /\ exists' = TRUE
    /\ sealed' = Sealed
    /\ glyph_to_code' = IF IsNew(spec) THEN Extended(GlyphToCode, spec.glyph, Code(spec))
                                       ELSE GlyphToCode
    /\ code_to_spec' = IF IsNew(spec) THEN Append(CodeToSpec, spec) ELSE CodeToSpec
    /\ edge_ops' = IF Accepts(spec) THEN edge_ops \cup {spec.glyph} ELSE edge_ops
    /\ UNCHANGED <<snapshot, current>>

SealRegistry ==
    /\ exists' = TRUE
    /\ glyph_to_code' = GlyphToCode
    /\ code_to_spec' = CodeToSpec
    /\ sealed' = TRUE
    /\ UNCHANGED <<edge_ops, snapshot, current>>

(* reset_caugi_registry(): the old table is gone, graphs keep their        *)
(* snapshots.                                                              *)
Reset ==
    /\ exists' = FALSE
    /\ glyph_to_code' = CodeTable(<<>>)
    /\ code_to_spec' = <<>>
    /\ sealed' = FALSE
    /\ edge_ops' = DefaultOps
    /\ current' = FALSE
    /\ UNCHANGED snapshot

(* GraphSession::new(), GraphBuilder::new(): the specs of the codes        *)
(* 0 .. len as u8.                                                         *)
SnapshotLength == Len(CodeToSpec) % MaxTypes

BuildGraph ==
    /\ exists' = TRUE
    /\ glyph_to_code' = GlyphToCode
    /\ code_to_spec' = CodeToSpec
    /\ sealed' = Sealed
    /\ snapshot' = SubSeq(CodeToSpec, 1, SnapshotLength)
    /\ current' = TRUE
    /\ UNCHANGED edge_ops

Next ==
    \/ \E spec \in UserSpecs : RegisterEdge(spec)
    \/ SealRegistry
    \/ Reset
    \/ BuildGraph

Spec == Init /\ [][Next]_vars

--------------------------------------------------------------------------------
(* glyph_to_code and code_to_spec are inverse to each other, up to a full  *)
(* table: code_of() and spec_of_code() give back the glyph one started     *)
(* from, so an edge is never compiled under the code of another type.      *)
GlyphsAndCodesAgree ==
    /\ DOMAIN glyph_to_code = Glyphs(code_to_spec)
    /\ \A i \in DOMAIN code_to_spec : glyph_to_code[code_to_spec[i].glyph] = i - 1

(* The DSL operators and the Rust table are kept in two places, and an     *)
(* error between the two updates, a seal, a conflict or a reset must not   *)
(* leave an operator without an edge type or a type without an operator.   *)
OperatorsMatchTypes == edge_ops = Glyphs(CodeToSpec)

(* As long as the registry is not reset, a code a graph has compiled means *)
(* the same edge type in the registry that new edges get their codes from  *)
(* (.update_caugi() relies on it when it adds edges to an old graph).      *)
SnapshotCodesStillHold == current => IsPrefix(snapshot, code_to_spec)
================================================================================
