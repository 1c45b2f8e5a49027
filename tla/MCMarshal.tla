----------------------------- MODULE MCMarshal -----------------------------
(* Marshal with every list of parameters up to one more than are passed    *)
(* flat, on the export and then on the import.                             *)
EXTENDS Marshal

ParamLists == UNION {[1..n -> CoreTy] : n \in 0..MaxFlat + 1}
ResultLists ==
  {<<>>} \cup {<<ty>> : ty \in CoreTy}
    \cup {<<"i32", "i32">>, <<"i64", "f32">>, <<"f64", "i32", "i64">>}
Function(params, results) == [params |-> params, results |-> results]
MCFunctions == {Function(p, r) : p \in ParamLists, r \in ResultLists}
MCFew == {Function(<<"f32">>, <<"i64">>), Function(<<"i32", "i64", "i32">>, <<"f64", "i32">>)}
MCWorlds ==
  {[exp |-> e, imp |-> i] : e \in MCFunctions, i \in MCFew}
    \cup {[exp |-> e, imp |-> i] : e \in MCFew, i \in MCFunctions}
=============================================================================
