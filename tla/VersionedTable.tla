--------------------------- MODULE VersionedTable ---------------------------
(***************************************************************************)
(* What a topic's authoritative memory promises: a table from ids to       *)
(* values, and a version that counts the mutations applied to it.  Every   *)
(* step writes or erases one id and moves the version by exactly one.      *)
(***************************************************************************)
EXTENDS Naturals

CONSTANTS
  Ids,     (* row ids of the topic            *)
  Vals,    (* the rows' contents              *)
  NoVal    (* the contents of an id with no row *)

VARIABLES contents, version

tableVars == <<contents, version>>

TableInit == /\ contents \in [Ids -> Vals \cup {NoVal}]
             /\ version = 0

Write(id, val) == /\ contents' = [contents EXCEPT ![id] = val]
                  /\ version' = version + 1

Erase(id) == /\ contents[id] # NoVal
             /\ contents' = [contents EXCEPT ![id] = NoVal]
             /\ version' = version + 1

TableNext == \E id \in Ids : Erase(id) \/ \E val \in Vals : Write(id, val)

TableSpec == TableInit /\ [][TableNext]_tableVars
=============================================================================
