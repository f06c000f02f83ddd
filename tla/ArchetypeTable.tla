-------------------------- MODULE ArchetypeTable --------------------------
(***************************************************************************)
(* Where the entities are.  An archetype holds the entities of one         *)
(* component mask in a dense array (entities_ and, at the same index, the  *)
(* component data); EntityManager keeps, per id, the archetype and the     *)
(* index.  Every structural change moves rows and must keep the two sides  *)
(* in agreement.  Indices are 1-based here.                                *)
(***************************************************************************)
EXTENDS EntitySlots

CONSTANT Components

VARIABLES rows,   \* per mask: the archetype's entities_ with their components
          place   \* locations_[id].archetype and .index

tableVars == <<rows, place>>

Masks == SUBSET Components
NoPlace == [arch |-> {}, index |-> 0]     \* archetype nullptr, index null

Placed(id) == place[id] # NoPlace
RowOf(id) == rows[place[id].arch][place[id].index]

(* Mistaken variant: any handle of an id in use will do.                   *)
AliveUnversioned(e) == e.id < size /\ Placed(e.id)

(* An entity is alive for its users: valid, and stored in an archetype.    *)
Alive(e) == Valid(e) /\ Placed(e.id)

TableInit ==
    /\ rows = [m \in Masks |-> <<>>]
    /\ place = [id \in Ids |-> NoPlace]

(* entities_ after remove(): the last row takes the place of row i.        *)
SwapRemove(s, i) == [k \in 1..(Len(s) - 1) |-> IF k = i THEN s[Len(s)] ELSE s[k]]

(* Mistaken variant: the moved last row is not redirected.                 *)
PlaceUnredirected(m, i) == [place EXCEPT ![rows[m][i].ent.id] = NoPlace]

(* The location updates of remove() for row i of archetype m.              *)
PlaceAfterRemove(m, i) ==
    LET n == Len(rows[m])
    IN  [place EXCEPT ![rows[m][i].ent.id] = NoPlace,
                      ![rows[m][n].ent.id] = IF i = n THEN NoPlace
                                             ELSE [arch |-> m, index |-> i]]

(* Archetype::insert into archetype m.                                     *)
InsertRow(e, m, data) ==
    /\ rows' = [rows EXCEPT ![m] = Append(@, [ent |-> e, data |-> data])]
    /\ place' = [place EXCEPT ![e.id] = [arch |-> m, index |-> Len(rows[m]) + 1]]

(* Archetype::remove of the entity's row.                                  *)
RemoveRow(e) ==
    LET at == place[e.id]
    IN  /\ rows' = [rows EXCEPT ![at.arch] = SwapRemove(@, at.index)]
        /\ place' = PlaceAfterRemove(at.arch, at.index)

(* Archetype::externalMove to archetype m, which throws when the entity is *)
(* already there: push into m, remove from the old one, then set the place.*)
MoveRow(e, m, data) ==
    LET at == place[e.id]
    IN  /\ m # at.arch
        /\ rows' = [rows EXCEPT ![m] = Append(@, [ent |-> e, data |-> data]),
                                ![at.arch] = SwapRemove(@, at.index)]
        /\ place' = [PlaceAfterRemove(at.arch, at.index)
                        EXCEPT ![e.id] = [arch |-> m, index |-> Len(rows[m]) + 1]]

(* Writing components of an entity that stays where it is.                 *)
WriteRow(e, data) ==
    /\ rows' = [rows EXCEPT ![place[e.id].arch][place[e.id].index].data = data]
    /\ UNCHANGED place

(* Mistaken variant: the places still name the cleared rows.               *)
ClearRowsOnly(m) ==
    /\ rows' = [rows EXCEPT ![m] = <<>>]
    /\ UNCHANGED place

(* clearArchetype drops the places of its rows (only the archetype pointer *)
(* in the code: nothing reads the index without it).                       *)
ClearRows(m) ==
    /\ rows' = [rows EXCEPT ![m] = <<>>]
    /\ place' = [id \in Ids |-> IF \E k \in DOMAIN rows[m] : rows[m][k].ent.id = id
                                THEN NoPlace ELSE place[id]]

ClearTable ==
    /\ rows' = [m \in Masks |-> <<>>]
    /\ place' = [id \in Ids |-> NoPlace]

-----------------------------------------------------------------------------
(* Both directions agree: the place of an id leads to its row, and every   *)
(* row of every archetype is the one its id's place names.  So an entity   *)
(* is in one archetype at most, and swapping the last row into a hole      *)
(* redirects the right entity.                                             *)
PlacesAgree ==
    /\ \A id \in Ids : Placed(id) =>
          /\ place[id].index \in DOMAIN rows[place[id].arch]
          /\ RowOf(id).ent.id = id
    /\ \A m \in Masks : \A k \in DOMAIN rows[m] :
          place[rows[m][k].ent.id] = [arch |-> m, index |-> k]

(* A row carries a value for exactly the components of its archetype.      *)
RowsComplete == \A m \in Masks : \A k \in DOMAIN rows[m] : DOMAIN rows[m][k].data = m
=============================================================================
