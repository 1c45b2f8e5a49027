----------------------------- MODULE MCLinking -----------------------------
(* Linking over all worlds with few imports and exports out of a list that  *)
(* has a partner for each way two names can meet.                           *)
EXTENDS Linking, FiniteSets

CONSTANT Items   \* most items of a world, but for RootItems

Of(kind, res, name, uses) ==
  [kind |-> kind, res |-> res, name |-> name, async |-> FALSE, uses |-> uses]
Free(name, uses) == Of("free", <<>>, name, uses)
Async(name) == [Free(name, {}) EXCEPT !.async = TRUE]
Iface(key, resources, funcs) == [is |-> "iface", key |-> key, resources |-> resources, funcs |-> funcs]
Func(name, f) == [is |-> "func", key |-> Plain(name), resources |-> <<>>, funcs |-> <<f>>]
RootResource(name) == [is |-> "resource", key |-> Plain(name), resources |-> <<name>>, funcs |-> <<>>]

Get == <<"get">>
Cell == <<"cell">>
Store1 == Id(<<"a">>, <<"b">>, <<"store">>, <<"1">>)
Store2 == Id(<<"a">>, <<"b">>, <<"store">>, <<"2">>)
OtherStore1 == Id(<<"x">>, <<"y">>, <<"store">>, <<"1">>)
OtherStore2 == Id(<<"x">>, <<"y">>, <<"store">>, <<"2">>)
Users == Id(<<"a">>, <<"b">>, <<"users">>, <<>>)
Dashed == Id(<<"a", "b">>, <<"c">>, <<"d">>, <<>>)
Colon == Id(<<"a">>, <<"b", "c">>, <<"d">>, <<>>)
Inline == Plain(<<"store">>)
Handler == Id(<<"wasi">>, <<"http">>, <<"handler">>, <<"2">>)

(* An interface with a function and a resource with every kind of function. *)
CellFuncs(key) ==
  LET cell == {Resource(key, Cell)} IN
  <<Of("constructor", Cell, Cell, cell), Of("method", Cell, Get, cell), Free(Get, {}),
    Of("static", Cell, Get, cell)>>

Thing == <<"thing">>
ThingBox == <<"thing", "box">>
RootFunc(res) == Func(res \o Get, Of("method", res, Get, {Resource(Root, res)}))

(* The function of users takes a cell of store: its own or the host's.     *)
UsersItem == Iface(Users, <<>>, <<Free(<<"use">>, {Resource(Store1, Cell)})>>)

Simple(key) == Iface(key, <<>>, <<Free(Get, {})>>)
WithCell(key) == Iface(key, <<Cell>>, CellFuncs(key))

(* The binding of its function is that of an intrinsic of inline exports.  *)
New == Iface(Plain(<<"new">>), <<>>, <<Free(Cell, {})>>)

Things == <<"things">>
MCLonger == {<<"things", "thing">>}
RootItems == <<RootFunc(Thing), RootResource(Thing), RootFunc(ThingBox), RootResource(ThingBox)>>

(* The name of one resource begins with the other's, but by no whole word. *)
Letters == <<RootFunc(Thing), RootResource(Thing), RootFunc(Things), RootResource(Things)>>

(* A function of a resource of the world uses another one of them.         *)
Box == <<"box">>
Opener == Func(Box \o Get, Of("method", Box, Get, {Resource(Root, Box), Resource(Root, Thing)}))
InOrder == <<RootResource(Thing), RootResource(Box), Opener>>
OutOfOrder == <<RootResource(Box), RootResource(Thing), Opener>>

MCImports ==
  <<WithCell(Store1), Simple(Store2), WithCell(OtherStore1), Simple(OtherStore2),
    Simple(Dashed), Simple(Colon), Func(Get, Free(Get, {}))>>
    \o RootItems

MCExports ==
  <<WithCell(Store1), UsersItem, Simple(Store2), WithCell(OtherStore1), Simple(OtherStore2),
    WithCell(Inline), Func(Get, Free(Get, {})), Simple(Dashed), Simple(Handler)>>

(* The items above, asynchronous functions, and exports whose variables are spelled like the *)
(* script's own names; one that is a global gets another variable.         *)
Later == <<"later">>
Bind == Plain(<<"bind">>)
Errors == Plain(<<"errors">>)
BindExportsFunc == <<"bind", "exports">>
BindingsError == <<"bindings", "error">>
TextDecoder == <<"text", "decoder">>
MCGlobals == {UpperCamel(TextDecoder)}
WithResource(key, res) ==
  Iface(key, <<res>>, <<Of("constructor", res, res, {Resource(key, res)})>>)

RareImports == <<New, Func(Later, Async(Later)), Iface(Plain(Later), <<>>, <<Async(Get)>>)>>
RareExports ==
  <<WithCell(Inline), Func(BindExportsFunc, Free(BindExportsFunc, {})), Iface(Bind, <<>>, <<Free(<<"exports">>, {})>>),
    WithResource(Errors, BindingsError), WithResource(Errors, TextDecoder),
    Func(Later, Async(Later)), Iface(Handler, <<>>, <<Async(Get)>>)>>

(* Functions of a resource of the world come with the resource, and the    *)
(* interface whose resources are used is imported or exported.             *)
Sane(w) ==
  LET on(side, is, res) == \E item \in ToSet(side) : item.is = is /\
        (IF is = "func" THEN item.funcs[1].res = res ELSE item.key.name = res)
  IN  /\ \A res \in {Thing, ThingBox} : on(w.imports, "func", res) <=> on(w.imports, "resource", res)
      /\ \A item \in ToSet(w.exports) : item.key = Users =>
           \E i \in ToSet(w.imports) \cup ToSet(w.exports) : i.key = Store1

Chosen(list, most) ==
  {[n \in 1..Cardinality(s) |-> list[CHOOSE k \in s : Cardinality({j \in s : j < k}) = n - 1]] :
     s \in {t \in SUBSET (1..Len(list)) : Cardinality(t) <= most}}

MCWorlds ==
  {w \in [imports : Chosen(MCImports, 2), exports : Chosen(MCExports, 3)] :
     Sane(w) /\ Len(w.imports) + Len(w.exports) <= Items}
    \cup {[imports |-> items, exports |-> <<>>] :
             items \in {RootItems, Letters, InOrder, OutOfOrder}}
    \cup [imports : Chosen(RareImports, 1), exports : {<<>>} \cup {<<item>> : item \in ToSet(RareExports)}]

(* The interface of requests, as in a build with fetch-event.              *)
MCEngineServes == {Handler}

MCNameOrder ==
  <<Dashed, Store1, Store2, Users, Plain(BindExportsFunc), Bind, Errors, Plain(Get), Plain(Later), Inline, Handler,
    OtherStore1, OtherStore2>>
MCTypeOrder ==
  <<Resource(Root, Thing), Resource(Root, ThingBox), Resource(Root, Things), Resource(Root, Box),
    Resource(OtherStore1, Cell), Resource(Store1, Cell), Resource(Inline, Cell),
    Resource(Errors, BindingsError), Resource(Errors, TextDecoder)>>

(* Two builds of the engine: the table index of the sample is a constant,   *)
(* or a global and a constant; one imports what a world may import too.    *)
MCEngines ==
  {[table |-> 3400, offset |-> 1, elements |-> 3399, sample |-> 3393, const |-> 3393, global |-> 0,
    imports |-> <<HostImport(FALSE, Store2, "free", NoName, Get)>>],
   [table |-> 3400, offset |-> 1, elements |-> 3399, sample |-> 3394, const |-> 3393, global |-> 1,
    imports |-> <<>>]}
=============================================================================
