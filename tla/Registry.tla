------------------------------ MODULE Registry ------------------------------
(***************************************************************************)
(* ModelRegistry and CircuitRegistry, two classes of one text: a list of   *)
(* what has been named so far, in an array that does not grow.  remove,    *)
(* find and clear have no caller and are left out.                         *)
(***************************************************************************)
EXTENDS Sequences, Naturals

CONSTANT MAX_REGISTRY_ITEMS

RegistryItem(Name) == [uid : Nat, name : Name, active : BOOLEAN]

Item(uid, name) == [uid |-> uid, name |-> name, active |-> TRUE]

(* A full registry takes nothing, not even a new name for an item it has.  *)
add(items, uid, name) ==
  LET same == { i \in 1 .. Len(items) : items[i].uid = uid }
  IN IF Len(items) >= MAX_REGISTRY_ITEMS THEN items
     ELSE IF same = {} THEN Append(items, Item(uid, name))
     ELSE [items EXCEPT ![CHOOSE i \in same : \A j \in same : i <= j] = Item(uid, name)]

=============================================================================
