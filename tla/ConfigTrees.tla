---------------------------- MODULE ConfigTrees -----------------------------
(***************************************************************************)
(* A configuration is a tree of dicts, lists and scalars.  A scalar is a   *)
(* literal, a reference "{key}" or an environment variable                 *)
(* "${VAR:-default}"; text around a reference, ${{ expressions }} and the  *)
(* conversion of relative paths are left out.                              *)
(***************************************************************************)
EXTENDS TLC

Lit(text) == [kind |-> "lit", text |-> text]
Ref(key) == [kind |-> "ref", key |-> key]
Env(name, default) == [kind |-> "env", name |-> name, default |-> default]

Scalar(v) == [type |-> "scalar", val |-> v]
Dict(f) == [type |-> "dict", kids |-> f]
List(s) == [type |-> "list", kids |-> s]
EmptyDict == Dict(<<>>)

Has(node, key) == key \in DOMAIN node.kids
Get(node, key, default) == IF Has(node, key) THEN node.kids[key] ELSE default
Put(node, key, value) == Dict((key :> value) @@ node.kids)
Without(node, keys) == Dict([k \in DOMAIN node.kids \ keys |-> node.kids[k]])
=============================================================================
