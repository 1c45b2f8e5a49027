------------------------------- MODULE Names -------------------------------
(* How bindgen.rs derives names: of interfaces, of the functions the        *)
(* bindings declare, of the symbols they receive and of the host imports    *)
(* behind them.                                                             *)
(*                                                                          *)
(* A kebab name is a sequence of words.  Camel case keeps the words apart,  *)
(* so it is left out, but for the capital that distinguishes the class of a *)
(* resource.  An identifier is the sequence of its parts, "$" being a part; *)
(* where the code loses a boundary between words, so do the operators here. *)
EXTENDS Sequences

Dollar == <<"$">>
NoName == <<>>

(* World keys: the id ns:pkg/name@version of an interface, or the kebab    *)
(* name of a function or an inline interface.  The names a source module   *)
(* can export are keys too: ids, and kebab names in camel case.            *)
Id(ns, pkg, name, version) ==
  [ns |-> ns, pkg |-> pkg, name |-> name, version |-> version]
Plain(name) == Id(<<>>, <<>>, name, <<>>)
IsId(key) == key.ns # <<>>
Root == Plain(<<"$root">>)

UpperCamel(name) == <<"^">> \o name

(* interface_name: the package is dropped; inline interfaces have none.    *)
InterfaceName(key) ==
  IF ~IsId(key) THEN NoName
  ELSE IF key.version = <<>> THEN key.name
  ELSE key.name \o <<"_">> \o key.version

(* interface_name_from_string of an id without its version.                *)
AliasOf(key) == Plain(key.name)

(* Resource::func_name.                                                    *)
FuncName(f) ==
  CASE f.kind = "free" -> <<f.name>>
    [] f.kind = "constructor" -> <<f.res, Dollar, f.name>>
    [] f.kind = "method" -> <<f.res, Dollar, <<"method">>, Dollar, f.name>>
    [] f.kind = "static" -> <<f.res, Dollar, <<"static">>, Dollar, f.name>>

Prefix(iface) == IF iface = NoName THEN <<>> ELSE <<iface, Dollar>>

BindingName(func, iface) == Prefix(iface) \o func

(* Every character that is not alphanumeric becomes an underscore.         *)
Sanitised(key) == key.ns \o key.pkg \o key.name \o key.version

(* Mutant: an import is named like an export, by its interface. *)
UnqualifiedName(func, iface, specifier) == BindingName(func, iface)

(* generate_binding_name_import, for a valid import name.                  *)
ImportBindingName(func, iface, specifier) == <<Sanitised(specifier), Dollar>> \o func

(* The bindings of a resource's intrinsics.                                *)
NewBinding(iface, res) == Prefix(iface) \o <<<<"new">>, Dollar, res>>
RepBinding(iface, res) == Prefix(iface) \o <<<<"rep">>, Dollar, res>>
DropBinding(side, iface, res) ==
  <<<<side>>, Dollar>> \o Prefix(iface) \o <<<<"drop">>, Dollar, res>>

(* An import of the module: of the host's interface, or one of the         *)
(* functions the canonical ABI provides for an exported resource.          *)
HostImport(exported, module, kind, res, name) ==
  [exported |-> exported, module |-> module, kind |-> kind, res |-> res, name |-> name]
=============================================================================
