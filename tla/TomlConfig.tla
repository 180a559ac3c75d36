----------------------------- MODULE TomlConfig -----------------------------
(***************************************************************************)
(* The nested configuration of a component and the operations the          *)
(* controllers build it with.  A table is a function from keys to nodes; a *)
(* node is a simple value, a table, or an array of tables:                 *)
(*   [kind |-> "value", v |-> any]                                         *)
(*   [kind |-> "table", v |-> table]                                       *)
(*   [kind |-> "array", v |-> a sequence of tables]                        *)
(***************************************************************************)
EXTENDS Naturals, Sequences, TLC, Optional

Seqs == INSTANCE SequencesExt
Sets == INSTANCE FiniteSetsExt

Val(x) == [kind |-> "value", v |-> x]
Table(t) == [kind |-> "table", v |-> t]
Array(s) == [kind |-> "array", v |-> s]
Empty == <<>>                         \* the table without a key

Has(t, key) == key \in DOMAIN t

\* The node at a path of keys, NONE if there is none.
get(t, path) ==
  Seqs!FoldLeft(LAMBDA node, key : IF node = NONE THEN NONE
                                   ELSE IF node.kind = "table" /\ Has(node.v, key) THEN node.v[key]
                                   ELSE NONE,
                Table(t), path)

\* Store a simple value at a path; a node on the way that is not a table is
\* replaced by one.
set(t, path, x) ==
  LET there(i) == get(t, SubSeq(path, 1, i - 1))
      tableAt(i) == IF there(i) # NONE /\ there(i).kind = "table" THEN there(i).v ELSE Empty
      above(i, node) == Table((path[i] :> node) @@ tableAt(i))
  IN IF path = <<>> THEN t
     ELSE Seqs!FoldRightDomain(above, path, Val(x)).v

\* An array of tables whose first table has a name is merged by name.
NamedArray(node) ==
  node.kind = "array" /\ node.v # <<>> /\ Has(node.v[1], "name")

NameOf(table) == IF Has(table, "name") THEN table["name"].v ELSE ""

\* Tables are merged key by key; otherwise the override wins.  The overrides the
\* controllers merge have three levels of tables (the file services, one of them,
\* its storage or its cache) and arrays in the first only, and so goes the
\* recursion of deepMergeMap: the tables below hold simple values,
mergeValues(base, override) == override @@ base

BothTables(base, override, key) ==
  Has(base, key) /\ base[key].kind = "table" /\ override[key].kind = "table"

\* those of an entry hold such tables,
mergeEntry(base, override) ==
  [key \in DOMAIN override |->
     IF BothTables(base, override, key) THEN Table(mergeValues(base[key].v, override[key].v))
     ELSE override[key]] @@ base

\* The entries of the override come first, each merged into the last entry of
\* the base with its name, then the entries of the base that none was merged
\* into.
mergeNamedMapSlice(base, override) ==
  LET baseOf(o) == {i \in DOMAIN base : NameOf(o) # "" /\ NameOf(base[i]) = NameOf(o)}
      idx(o) == Sets!Max(baseOf(o))
      known == {k \in DOMAIN override : baseOf(override[k]) # {}}
      left == Seqs!SetToSortSeq(DOMAIN base \ {idx(override[k]) : k \in known}, <)
  IN [k \in DOMAIN override |->
        IF k \in known THEN mergeEntry(base[idx(override[k])], override[k])
        ELSE override[k]]
     \o [n \in DOMAIN left |-> base[left[n]]]

\* and the outermost holds entries and arrays of them.
deepMergeMap(base, override) ==
  [key \in DOMAIN override |->
     CASE BothTables(base, override, key) -> Table(mergeEntry(base[key].v, override[key].v))
       [] Has(base, key) /\ NamedArray(base[key]) /\ NamedArray(override[key]) ->
            Array(mergeNamedMapSlice(base[key].v, override[key].v))
       [] OTHER -> override[key]] @@ base

\* spec.config is optional; the controllers start from an empty one.
NewTomlConfig(conf) == Default(conf, Empty)
MergeDeep(conf, override) == deepMergeMap(NewTomlConfig(conf), override)
Set(conf, path, x) == set(NewTomlConfig(conf), path, x)
=============================================================================
