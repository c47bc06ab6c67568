----------------------------- MODULE GraphEdges -----------------------------
(***************************************************************************)
(* Dependency edges (crates/core/src/graph/edges.rs): from depends_on, the *)
(* references in attributes and module inputs, and the dependency blocks   *)
(* of terragrunt.                                                          *)
(*                                                                         *)
(* Edges are kept in a set: the code sorts them by the key that makes them *)
(* distinct.  A symbol <<"sym", kind, s1, rest>> has the dotted source     *)
(* s1.rest, after `data.` or `module.` for those kinds.                    *)
(*                                                                         *)
(* A path is the sequence of its segments, "/" first when it is absolute.  *)
(* The address of a component is "component" and its path.                 *)
(***************************************************************************)
EXTENDS Expressions, WorkspaceIR, SequencesExt

CONSTANTS
  Refused,         \* segments that Address::new does not accept
  WorkspaceRoot    \* the absolute path of the workspace

VARIABLE edges     \* records of from, to, kind and attr

EdgesInit == edges = {}

ValidPath(segments) == \A k \in 1..Len(segments) : segments[k] \notin Refused

\* head_resource_address, and its None.
NoAddress == << >>
HeadAddress(sym) ==
  LET head == CASE sym[2] = "Module" -> <<"module", sym[3]>>
                [] sym[2] = "Data" /\ sym[4] # << >> -> <<"data", sym[3], sym[4][1]>>
                [] sym[2] = "Resource" /\ sym[4] # << >> -> <<sym[3], sym[4][1]>>
                [] OTHER -> NoAddress
  IN  IF ValidPath(head) THEN head ELSE NoAddress

\* Wrong: the keys of an object are taken for text.
WalkKey_Skipped(key, path, pos) == {}

RECURSIVE WalkExpression(_, _, _)
WalkKey(key, path, pos) == WalkExpression(key, path, pos)

KidsAt(e) == {<<k, Kids(e)[k]>> : k \in 1..Len(Kids(e))}
PairsAt(e) == {<<k, e[2][k][1], e[2][k][2]>> : k \in 1..Len(e[2])}

\* walk_expression: the symbols of an expression, with the attribute path to each
\* (a literal key of an object is one more segment) and the position at which
\* the walk meets it.
WalkExpression(e, path, pos) ==
  CASE e[1] = "sym" -> {[sym |-> e, path |-> path, pos |-> pos]}
    [] e[1] = "obj" ->
         UNION {WalkKey(pair[2], path, pos \o <<pair[1], 1>>)
                  \cup WalkExpression(pair[3],
                         IF IsLit(pair[2]) /\ Is("str", pair[2][2])
                           THEN Append(path, pair[2][2][2]) ELSE path,
                         pos \o <<pair[1], 2>>) : pair \in PairsAt(e)}
    [] OTHER -> UNION {WalkExpression(kid[2], path, Append(pos, kid[1])) : kid \in KidsAt(e)}

WalkAttributes(attrs, pos) ==
  UNION {WalkExpression(attrs[k][2], <<attrs[k][1]>>, Append(pos, k)) : k \in 1..Len(attrs)}

FoundEdge(from, to, kind, attr, pos) ==
  [edge |-> [from |-> from, to |-> to, kind |-> kind, attr |-> attr], pos |-> pos]

\* emit_symbol_edge: a variable, a local or an iteration makes no edge.
SymbolEdges(walked, from, kind) ==
  {FoundEdge(from, HeadAddress(w.sym), kind, w.path, w.pos) :
     w \in {w \in walked : HeadAddress(w.sym) # NoAddress}}

\* collect_resource_edges, collect_module_call_edges, collect_terragrunt_edges
ResourceEdges(r, n) ==
  {FoundEdge(r.addr, r.deps[k], "explicit", << >>, <<1, n, 1, k>>) : k \in 1..Len(r.deps)}
    \cup SymbolEdges(WalkAttributes(r.attrs, <<1, n, 2>>), r.addr, "attr")

ModuleCallEdges(m, n) == SymbolEdges(WalkAttributes(m.inputs, <<2, n>>), m.addr, "input")

ComponentAddress(path) == <<"component">> \o path

\* config_path as build_dependencies keeps it: joined to the directory of the
\* component, which an absolute path replaces.
ConfigPath(c, raw) ==
  IF raw # << >> /\ raw[1] = "/" THEN raw ELSE WorkspaceRoot \o c.path \o raw

\* strip_prefix
BelowRoot(path) ==
  IF IsPrefix(WorkspaceRoot, path) THEN SubSeq(path, Len(WorkspaceRoot) + 1, Len(path)) ELSE path

\* normalise_relative: the segments of the path but ".", which Path::components
\* leaves out.  It keeps "..".
DependencyPath(c, raw) == BelowRoot(SelectSeq(ConfigPath(c, raw), LAMBDA segment : segment # "."))

TerragruntEdges(c) ==
  IF ~IsSome(c.terragrunt) \/ ~ValidPath(ComponentAddress(c.path)) THEN {}
  ELSE LET deps  == c.terragrunt[1].deps
           to(k) == ComponentAddress(DependencyPath(c, deps[k]))
       IN  {FoundEdge(ComponentAddress(c.path), to(k), "terragrunt", << >>, <<3, k>>) :
              k \in {k \in 1..Len(deps) : ValidPath(to(k))}}

ComponentEdges(c) ==
  UNION {ResourceEdges(c.resources[k], k) : k \in 1..Len(c.resources)}
    \cup UNION {ModuleCallEdges(c.modules[k], k) : k \in 1..Len(c.modules)}
    \cup TerragruntEdges(c)

EdgeKey(e) == <<e.from, e.to, e.kind>>

\* push_edge: the first edge with a key stays.
PushEdges(known, found) ==
  known \cup {f.edge : f \in {f \in found :
                 /\ \A e \in known : EdgeKey(e) # EdgeKey(f.edge)
                 /\ \A g \in found : EdgeKey(g.edge) = EdgeKey(f.edge) => ~StrBelow(g.pos, f.pos)}}

\* One component of the loop of collect_edges_in_place.
CollectEdges ==
  /\ stage = "edges" /\ at \in Components
  /\ edges' = PushEdges(edges, ComponentEdges(ws.components[at]))
  /\ at' = at + 1
  /\ UNCHANGED <<ws, stage>>

EdgesDone ==
  /\ stage = "edges" /\ at \notin Components
  /\ Advance("resolve")
  /\ UNCHANGED <<ws, edges>>

-----------------------------------------------------------------------------
(* Properties.                                                              *)

\* What a component refers to, wherever in an expression the name stands.
ReferencesIn(attrs, from, kind) ==
  {<<from, HeadAddress(s), kind>> :
     s \in {s \in UNION {Symbols(attrs[k][2]) : k \in 1..Len(attrs)} : HeadAddress(s) # NoAddress}}

References(c) ==
  UNION {ReferencesIn(r.attrs, r.addr, "attr") \cup {<<r.addr, d, "explicit">> : d \in Elements(r.deps)} :
           r \in Elements(c.resources)}
    \cup UNION {ReferencesIn(m.inputs, m.addr, "input") : m \in Elements(c.modules)}
    \cup {<<ComponentAddress(c.path), to, "terragrunt">> :
            to \in {to \in {ComponentAddress(DependencyPath(c, d)) :
                             d \in UNION {Elements(t.deps) : t \in Elements(c.terragrunt)}} :
                     ValidPath(ComponentAddress(c.path)) /\ ValidPath(to)}}

EdgesFound == stage \notin {"edges", "failed"}

(* The edges are the references of the components as the source writes      *)
(* them, one edge for each pair of nodes and kind, however deep in an       *)
(* expression the name stands and however many components repeat it; of two *)
(* with one key one stays.  Whether there is anything at the other end is   *)
(* not said, and need not be so: a reference inside a module keeps its text *)
(* while what it names gets the prefix of the call, and the path of a       *)
(* dependency keeps its `..`.                                               *)
EdgesAreReferences ==
  EdgesFound =>
    /\ {EdgeKey(e) : e \in edges} = UNION {References(c) : c \in Elements(ws.components)}
    /\ \A e, o \in edges : EdgeKey(e) = EdgeKey(o) => e = o

=============================================================================
