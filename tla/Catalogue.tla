------------------------------- MODULE Catalogue -------------------------------
(***************************************************************************)
(* internal/laundryitem and internal/clothingtype: what the laundry washes *)
(* and at which price.  An admin creates, changes and soft-deletes rows    *)
(* while orders are priced from them; a soft-deleted laundry item can be   *)
(* erased for good, unless an order lists it.  Names only decide whether   *)
(* an INSERT or UPDATE is refused (409), and are left out.                 *)
(***************************************************************************)
EXTENDS Naturals

CONSTANTS
  Items,         \* laundry_items rows that may ever be created
  ClothingTypes, \* clothing_types rows that may ever be created
  Prices,        \* base prices
  MaxCatalogueEdits   \* bound: changes of the catalogue

ASSUME PriceAssumption == Prices \subseteq Nat \ {0} /\ MaxCatalogueEdits \in Nat

VARIABLES
  item,        \* laundry_items: whether the row is there, its unit, price and is_active
  clothing,    \* clothing_types, the same
  catalogueEdits  \* changes made so far

catalogueVars == <<item, clothing, catalogueEdits>>

Units == {"pcs", "kg"}
defaultUnit == "pcs"

LaundryItems ==
  [row : {"none", "live", "deleted", "erased"}, unit : Units, price : Prices, active : BOOLEAN]

ClothingRows == [row : {"none", "live", "deleted"}, active : BOOLEAN]

CatalogueTypeOK ==
  /\ item \in [Items -> LaundryItems]
  /\ clothing \in [ClothingTypes -> ClothingRows]
  /\ catalogueEdits \in 0..MaxCatalogueEdits

\* All of it has been created, by the piece and on sale, or none of it yet.
CatalogueInit ==
  /\ \E row \in {"none", "live"}, price \in Prices :
       /\ item = [i \in Items |->
            [row |-> row, unit |-> defaultUnit, price |-> price, active |-> TRUE]]
       /\ clothing = [t \in ClothingTypes |-> [row |-> row, active |-> TRUE]]
  /\ catalogueEdits = 0

-----------------------------------------------------------------------------
(* The rows a request finds. *)

GetLaundryItemByID(i) == item[i].row = "live"

GetLaundryItemByIDAny(i) == item[i].row \in {"live", "deleted"}

GetClothingTypeByID(t) == clothing[t].row = "live"

-----------------------------------------------------------------------------
(* The admin's requests.  Each is one guarded statement, or a check and a  *)
(* statement whose guard cannot become false in between: a deletion is     *)
(* never undone.                                                           *)

CatalogueEdit == catalogueEdits < MaxCatalogueEdits /\ catalogueEdits' = catalogueEdits + 1

CreateLaundryItem(i, unit, price, active) ==
  /\ CatalogueEdit
  /\ item[i].row = "none"
  /\ item' = [item EXCEPT ![i] =
       [row |-> "live", unit |-> unit, price |-> price, active |-> active]]
  /\ UNCHANGED clothing

UpdateLaundryItem(i, unit, price, active) ==
  /\ CatalogueEdit
  /\ GetLaundryItemByID(i)
  /\ item' = [item EXCEPT ![i] =
       [row |-> "live", unit |-> unit, price |-> price, active |-> active]]
  /\ UNCHANGED clothing

SoftDeleteLaundryItem(i) ==
  /\ CatalogueEdit
  /\ GetLaundryItemByID(i)
  /\ item' = [item EXCEPT ![i].row = "deleted"]
  /\ UNCHANGED clothing

\* cited: the items order_items refers to.  The foreign key refuses to erase
\* those, and to insert a reference to an item that has been erased.
HardDeleteLaundryItem(i, cited) ==
  /\ CatalogueEdit
  /\ item[i].row = "deleted"
  /\ i \notin cited
  /\ item' = [item EXCEPT ![i].row = "erased"]
  /\ UNCHANGED clothing

CreateClothingType(t, active) ==
  /\ CatalogueEdit
  /\ clothing[t].row = "none"
  /\ clothing' = [clothing EXCEPT ![t] = [row |-> "live", active |-> active]]
  /\ UNCHANGED item

UpdateClothingType(t, active) ==
  /\ CatalogueEdit
  /\ GetClothingTypeByID(t)
  /\ clothing' = [clothing EXCEPT ![t].active = active]
  /\ UNCHANGED item

\* Clothing types are never erased.
SoftDeleteClothingType(t) ==
  /\ CatalogueEdit
  /\ GetClothingTypeByID(t)
  /\ clothing' = [clothing EXCEPT ![t].row = "deleted"]
  /\ UNCHANGED item

CatalogueNext(cited) ==
  \/ \E i \in Items :
       \/ \E unit \in Units, price \in Prices, active \in BOOLEAN :
            \/ CreateLaundryItem(i, unit, price, active)
            \/ UpdateLaundryItem(i, unit, price, active)
       \/ SoftDeleteLaundryItem(i)
       \/ HardDeleteLaundryItem(i, cited)
  \/ \E t \in ClothingTypes :
       \/ \E active \in BOOLEAN :
            \/ CreateClothingType(t, active)
            \/ UpdateClothingType(t, active)
       \/ SoftDeleteClothingType(t)
=============================================================================
