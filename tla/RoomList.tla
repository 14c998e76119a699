------------------------------ MODULE RoomList ------------------------------
(***************************************************************************)
(* The request of GET_ROOM_LIST and the page of rooms it asks for, as      *)
(* functions of the rooms there are.                                       *)
(*                                                                         *)
(* Left out: the JSON text.  A request is the function from the fields it  *)
(* has to their values, Bad for a value of the wrong type.  A text is part *)
(* of another when it is empty or the same.                                *)
(***************************************************************************)
EXTENDS Integers, Sequences

CONSTANTS
  Bad,        \* a value of the wrong JSON type
  IntMax      \* INT_MAX

\* The fields in the order fromJson reads them.
FieldOrder == <<"minPlayers", "maxPlayers", "nameContains", "extraInfoContains",
                "pageSize", "pageNumber">>
FieldNames == {FieldOrder[i] : i \in DOMAIN FieldOrder}

Default ==
  [minPlayers |-> 0, maxPlayers |-> IntMax, nameContains |-> "",
   extraInfoContains |-> "", pageSize |-> 20, pageNumber |-> 1]

\* The exception of the first bad value leaves it and the later fields alone.
FromJson(request) ==
  LET Read(i) == \A j \in 1..i : FieldOrder[j] \in DOMAIN request =>
                                   request[FieldOrder[j]] # Bad
      IsSet(f) == \E i \in DOMAIN FieldOrder :
                    FieldOrder[i] = f /\ Read(i) /\ f \in DOMAIN request
  IN [f \in FieldNames |-> IF IsSet(f) THEN request[f] ELSE Default[f]]

\* The values for which every index handleGetRoomList computes is that of a
\* room: pages count from 1.  (For others it would read outside the vector.)
SoundFilters(filters) == filters.pageSize > 0 => filters.pageNumber >= 1

Contains(text, part) == part \in {"", text}

Passes(room, protocol, players, filters) ==
  /\ room.protocol = protocol
  /\ players >= filters.minPlayers
  /\ players <= filters.maxPlayers
  /\ Contains(room.roomName, filters.nameContains)
  /\ Contains(room.extraInfo, filters.extraInfoContains)

\* The elements of s from startIndex up to, not including, endIndex, from 0.
\* Mutant: the page ends one room late.
PageLate(s, filters) ==
  LET startIndex == (filters.pageNumber - 1) * filters.pageSize
  IN SubSeq(s, startIndex + 1,
            IF startIndex + filters.pageSize + 1 < Len(s)
              THEN startIndex + filters.pageSize + 1 ELSE Len(s))

Page(s, filters) ==
  LET startIndex == (filters.pageNumber - 1) * filters.pageSize
      endIndex == IF startIndex + filters.pageSize < Len(s)
                    THEN startIndex + filters.pageSize ELSE Len(s)
  IN SubSeq(s, startIndex + 1, endIndex)
=============================================================================
