---------------------------- MODULE ElementData ----------------------------
(***************************************************************************)
(* The data jQuery keeps for elements (js/jquery-1.10.1.js): an element     *)
(* carries the number of an entry of jQuery.cache; entries disappear when   *)
(* their last value is removed or with the element, and their numbers are   *)
(* used again.                                                             *)
(*                                                                         *)
(* A value is written as the element it was stored for.  The values of an   *)
(* entry are keyed by what they are: data of the page ("k"), data of        *)
(* jQuery ("parsedAttrs", "handle") and the handlers of events.             *)
(***************************************************************************)
EXTENDS Integers, Sequences, FiniteSets

CONSTANTS
  Elements,
  MaxWrites  \* bound: how often something is stored

VARIABLES
  expando,     \* the number of the entry of each element, 0 if it has none
  cache,       \* jQuery.cache: the values of each entry
  deletedIds,  \* core_deletedIds
  guid,        \* jQuery.guid
  writes,      \* how often something was stored
  reported,    \* the events the browser reports to jQuery for each element
  opened       \* history: the elements whose entry was made by a call that
               \* stores nothing, and that has held no value since

dataVars == <<expando, cache, deletedIds, guid, writes, reported, opened>>

UserKeys == {"k"}
DataEventTypes == {"keyup", "click"}
InternalKeys == {"parsedAttrs", "handle"}
DataKeys == UserKeys \cup DataEventTypes \cup InternalKeys

NoValue == "none"
ASSUME ElementsAssumption == NoValue \notin Elements

NoEntry == [key \in DataKeys |-> NoValue]

DataInit ==
  /\ expando = [e \in Elements |-> 0]
  /\ cache = [i \in {} |-> NoEntry]
  /\ deletedIds = <<>>
  /\ guid = 1
  /\ writes = 0
  /\ reported = [e \in Elements |-> {}]
  /\ opened = {}

Entry(e) == IF expando[e] \in DOMAIN cache THEN cache[expando[e]] ELSE NoEntry
CacheWithout(id) == [i \in DOMAIN cache \ {id} |-> cache[i]]
SetEntry(id, entry) == [i \in DOMAIN cache \cup {id} |-> IF i = id THEN entry ELSE cache[i]]

(* isEmptyDataObject: toJSON and an empty data object do not count. *)
IsEmptyDataObject(entry) == \A key \in DataKeys : entry[key] = NoValue

(* core_deletedIds.pop() || jQuery.guid++ *)
NewId == IF deletedIds = <<>> THEN [id |-> guid, deleted |-> <<>>, guid |-> guid + 1]
         ELSE [id |-> deletedIds[Len(deletedIds)], deleted |-> SubSeq(deletedIds, 1, Len(deletedIds) - 1),
               guid |-> guid]

(* internalData stores values for the keys, if any, after giving the       *)
(* element an entry if it has none.                                        *)
InternalData(e, keys) ==
  LET fresh == IF expando[e] = 0 THEN NewId ELSE [id |-> expando[e], deleted |-> deletedIds, guid |-> guid]
      entry == IF fresh.id \in DOMAIN cache THEN cache[fresh.id] ELSE NoEntry
  IN  /\ expando' = [expando EXCEPT ![e] = fresh.id]
      /\ deletedIds' = fresh.deleted
      /\ guid' = fresh.guid
      /\ cache' = SetEntry(fresh.id, [key \in DataKeys |-> IF key \in keys THEN e ELSE entry[key]])
      /\ opened' = IF keys # {} THEN opened \ {e}
                   ELSE IF expando[e] = 0 THEN opened \cup {e} ELSE opened

StoreData(e, keys) ==
  /\ writes < MaxWrites
  /\ writes' = writes + 1
  /\ InternalData(e, keys)

(* Entry id of e is deleted and can be used again. *)
FreeEntry(e, id, entries) ==
  /\ cache' = [i \in DOMAIN entries \ {id} |-> entries[i]]
  /\ expando' = [expando EXCEPT ![e] = 0]
  /\ deletedIds' = Append(deletedIds, id)
  /\ opened' = opened \ {e}

(* internalRemoveData: the entry goes with its last value. *)
InternalRemoveData(e, keys) ==
  LET entry == [key \in DataKeys |-> IF key \in keys THEN NoValue ELSE Entry(e)[key]]
  IN  IF expando[e] \notin DOMAIN cache THEN UNCHANGED <<cache, expando, deletedIds, opened>>
      ELSE IF IsEmptyDataObject(entry) THEN FreeEntry(e, expando[e], cache)
      ELSE cache' = SetEntry(expando[e], entry) /\ UNCHANGED <<expando, deletedIds, opened>>

(* jQuery.data without a name gives the element an entry for its caller to *)
(* fill, and stores nothing.                                               *)
OpenData(e) == InternalData(e, {}) /\ UNCHANGED <<writes, reported>>

SetData(e) == StoreData(e, UserKeys) /\ UNCHANGED reported
RemoveData(e) == InternalRemoveData(e, UserKeys) /\ UNCHANGED <<guid, writes, reported>>

(* data() with neither key nor value: data-* attributes are read once. *)
ReadAttributes(e) ==
  /\ Entry(e)["parsedAttrs"] = NoValue
  /\ \E found \in {{}, UserKeys} : StoreData(e, {"parsedAttrs"} \cup {key \in found : Entry(e)[key] = NoValue})
  /\ UNCHANGED reported

(* jQuery.event.add *)
AddEvent(e, type) ==
  /\ StoreData(e, {type, "handle"})
  /\ reported' = [reported EXCEPT ![e] = @ \cup {type}]

(* jQuery.event.remove without a handler: the last event takes the handle  *)
(* and perhaps the entry with it.                                          *)
EventKeysGone(e, type) ==
  IF \E other \in DataEventTypes \ {type} : Entry(e)[other] # NoValue THEN {type} ELSE {type, "handle"}

RemoveEvent(e, type) ==
  /\ Entry(e)[type] # NoValue
  /\ InternalRemoveData(e, EventKeysGone(e, type))
  /\ reported' = [reported EXCEPT ![e] = @ \ {type}]
  /\ UNCHANGED <<guid, writes>>

(* A mutant of cleanData that deletes the entry whether or not removing    *)
(* the events has done so.                                                 *)
CleanDataTwice(e) ==
  /\ expando[e] \in DOMAIN cache
  /\ LET rest == [key \in DataKeys |-> IF key \in {"click", "handle"} THEN NoValue ELSE Entry(e)[key]]
     IN  /\ cache' = CacheWithout(expando[e])
         /\ expando' = [expando EXCEPT ![e] = 0]
         /\ deletedIds' = IF Entry(e)["click"] # NoValue /\ IsEmptyDataObject(rest)
                          THEN deletedIds \o <<expando[e], expando[e]>>
                          ELSE Append(deletedIds, expando[e])
         /\ opened' = opened \ {e}
  /\ reported' = [reported EXCEPT ![e] = {}]
  /\ UNCHANGED <<guid, writes>>

(* cleanData, when an element is removed from the document: events of      *)
(* special types are removed one by one, which may delete the entry; the   *)
(* rest are only taken from the browser.  The entry is deleted unless that *)
(* has happened.                                                           *)
CleanData(e) ==
  /\ expando[e] \in DOMAIN cache
  /\ LET id == expando[e]
         gone == {key \in {"click"} \cup (IF Entry(e)["keyup"] = NoValue THEN {"handle"} ELSE {}) :
                    Entry(e)["click"] # NoValue}
         rest == [key \in DataKeys |-> IF key \in gone THEN NoValue ELSE Entry(e)[key]]
     IN  IF gone # {} /\ IsEmptyDataObject(rest) THEN FreeEntry(e, id, SetEntry(id, rest))
         ELSE FreeEntry(e, id, cache)
  /\ reported' = [reported EXCEPT ![e] = {}]
  /\ UNCHANGED <<guid, writes>>

DataNext ==
  \E e \in Elements :
    \/ OpenData(e) \/ SetData(e) \/ RemoveData(e) \/ ReadAttributes(e) \/ CleanData(e)
    \/ \E type \in DataEventTypes : AddEvent(e, type) \/ RemoveEvent(e, type)

DataSpec == DataInit /\ [][DataNext]_dataVars

-----------------------------------------------------------------------------
(* However often numbers of entries are given back and used again, every  *)
(* element finds only what was stored for it: each entry belongs to one    *)
(* element, and goes with its last value, so that only an entry that was   *)
(* opened by a call of jQuery.data without a name, and nothing stored in   *)
(* since, is empty; each number is in use, free once, or still unused; and *)
(* the browser reports events only to handlers that are there              *)
(* (jquery-1.10.1.js:3616-3634,3738-3771,6700-6731).                       *)
DataIsTheElements ==
  /\ \A e \in Elements : \A key \in DataKeys : Entry(e)[key] \in {e, NoValue}
  /\ DOMAIN cache = {expando[e] : e \in Elements} \ {0}
  /\ \A e \in Elements : e \in opened <=> expando[e] \in DOMAIN cache /\ IsEmptyDataObject(Entry(e))
  /\ \A i \in 1 .. guid - 1 :
       Cardinality({e \in Elements : expando[e] = i})
         + Cardinality({n \in DOMAIN deletedIds : deletedIds[n] = i}) = 1
  /\ \A e \in Elements : reported[e] = {type \in DataEventTypes : Entry(e)[type] # NoValue}

=============================================================================
