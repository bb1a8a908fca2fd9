------------------------------ MODULE TableWalks ------------------------------
(***************************************************************************)
(* Lua tables that leave Lua: a table route's answer and the body of an    *)
(* outgoing request (LuaRoutes::luaTableToJson), Response:json             *)
(* (LuaResponse::luaValueToJson), the headers of an outgoing request       *)
(* (LuaHttp::buildRequest), the parameters of a query (bindLuaParameters); *)
(* and JSON that comes back (LuaRequest::jsonToLua and                     *)
(* LuaHttpResult::jsonToLuaValue).                                         *)
(*                                                                         *)
(* lua_next visits the keys of a table in an order of its own and finds    *)
(* the next one by looking up the key that lies on the stack.              *)
(***************************************************************************)
EXTENDS Integers, Sequences, FiniteSets, Functions

CONSTANTS Number, \* keys that are numbers; those that are no positive integer,
                  \* floats among them, are represented by integers below 1
          Name,   \* strings that are no number's text
          Other,  \* keys that are neither numbers nor strings
          Tables  \* tables, each the sequence of its keys as lua_next visits them

Num(n) == <<"num", n>>
Key == ({"num"} \X Number) \cup ({"text"} \X (Number \cup Name)) \cup ({"other"} \X Other)

ASSUME TableAssumption ==
  /\ Number \subseteq Int
  /\ \A t \in Tables : t \in Seq(Key) /\ IsInjective(t)

(* The text that lua_tostring makes of a key; a string is its own text. *)
Text(k) == <<"text", k[2]>>
IsText(k) == k[1] = "text"
IsIndex(k) == k[1] = "num" /\ k[2] > 0

Absent == <<>>
Null == <<"null">>

VARIABLES
  by,       \* what walks: "route", "response", "headers" or "bind"
  order,    \* the table
  opaque,   \* keys whose values have no JSON form, are no strings (headers) or
            \* cannot be bound
  length,   \* what lua_rawlen and luaL_len give for the table
  phase,    \* "shape" and "fill" are the two passes
  pos,      \* position of the key on the stack, 0 for the initial nil
  isArray,
  count,    \* keys seen that are indexes
  maxIndex, \* the greatest of them; LuaResponse's expected, less one
  out       \* out[m]: the key whose value became member m, or Null, or Absent

walkVars == <<by, order, opaque, length, phase, pos, isArray, count, maxIndex, out>>

keys == Range(order)

(* The length of a table is any of its borders. *)
Borders(t) == LET ks == Range(t) IN
  {n \in 0..Len(t) \cup Number : /\ n = 0 \/ (n > 0 /\ Num(n) \in ks)
                                 /\ Num(n + 1) \notin ks}

TypeOK ==
  /\ by \in {"route", "response", "headers", "bind"}
  /\ order \in Seq(Key) /\ IsInjective(order)
  /\ opaque \subseteq keys
  /\ length \in Borders(order)
  /\ phase \in {"shape", "fill", "done", "raised"}
  /\ pos \in IF by = "bind" THEN 0..length ELSE 0..Len(order)
  /\ isArray \in BOOLEAN
  /\ count \in 0..Len(order)
  /\ maxIndex \in {0} \cup Number
  /\ out \in [Key -> Key \cup {Null, Absent}]

Init ==
  /\ by \in {"route", "response", "headers", "bind"}
  /\ order \in Tables
  /\ opaque \in SUBSET keys
  /\ length \in Borders(order)
  /\ phase = IF by \in {"route", "response"} THEN "shape" ELSE "fill"
  /\ pos = 0
  /\ isArray = TRUE
  /\ count = 0
  /\ maxIndex = 0
  /\ out = [m \in Key |-> Absent]
-----------------------------------------------------------------------------
KeepTable == UNCHANGED <<by, order, opaque, length>>
KeepShape == UNCHANGED <<isArray, count, maxIndex>>

Put(m, v) == out' = [out EXCEPT ![m] = v]
Raise == phase' = "raised" /\ UNCHANGED <<pos, out>>
Advance == pos' = pos + 1 /\ UNCHANGED phase

(* lua_next looks up a key: the walk goes on behind it, or ends with the    *)
(* error "invalid key to 'next'".                                           *)
GoOnBehind(k) ==
  \/ /\ k \in keys
     /\ pos' = CHOOSE i \in DOMAIN order : order[i] = k
     /\ UNCHANGED phase
  \/ k \notin keys /\ phase' = "raised" /\ UNCHANGED pos

(* A user visits the next key k in a pass. *)
Visits(user, pass, k) == /\ by = user /\ phase = pass
                         /\ pos < Len(order) /\ k = order[pos + 1]
-----------------------------------------------------------------------------
(* LuaRoutes::luaTableToJson counts the indexes of the table and finds the  *)
(* greatest one.                                                            *)
RouteCounts(k) ==
  /\ Visits("route", "shape", k)
  /\ \/ /\ IsIndex(k)
        /\ count' = count + 1
        /\ maxIndex' = IF k[2] > maxIndex THEN k[2] ELSE maxIndex
        /\ UNCHANGED isArray
     \/ /\ ~IsIndex(k)
        /\ isArray' = FALSE /\ UNCHANGED <<count, maxIndex>>
  /\ Advance /\ KeepTable /\ UNCHANGED out

(* Faulty: holes are not looked for. *)
RouteDecidesHoles ==
  /\ by = "route" /\ phase = "shape" /\ pos = Len(order)
  /\ phase' = "fill" /\ pos' = 0
  /\ KeepTable /\ UNCHANGED <<isArray, count, maxIndex, out>>

RouteDecides ==
  /\ by = "route" /\ phase = "shape" /\ pos = Len(order)
  /\ isArray' = (isArray /\ maxIndex = count)
  /\ phase' = "fill" /\ pos' = 0
  /\ KeepTable /\ UNCHANGED <<count, maxIndex, out>>

(* Faulty: the text of the key is taken before its type is looked at. *)
RouteFillsByText(k) ==
  /\ Visits("route", "fill", k)
  /\ IF ~isArray /\ k[1] \in {"num", "text"}
       THEN Put(Text(k), k) /\ GoOnBehind(Text(k))
       ELSE out' = [out EXCEPT ![k] = IF isArray THEN k ELSE @] /\ Advance
  /\ KeepTable /\ KeepShape

(* LuaRoutes::luaValueToJson makes null of a value that has no JSON form.   *)
RouteValue(k) == IF k \in opaque THEN Null ELSE k

(* The second pass: every entry of an array, the strings of an object.      *)
RouteFills(k) ==
  /\ Visits("route", "fill", k)
  /\ \/ /\ IF isArray THEN IsIndex(k) ELSE IsText(k)
        /\ Put(k, RouteValue(k))
     \/ ~(IF isArray THEN IsIndex(k) ELSE IsText(k)) /\ UNCHANGED out
  /\ Advance /\ KeepTable /\ KeepShape
-----------------------------------------------------------------------------
(* LuaResponse::luaValueToJson takes a table for an array when it visits    *)
(* 1, 2, 3 and so on in this order.                                         *)
ResponseExpects(k) ==
  /\ Visits("response", "shape", k)
  /\ isArray' = (isArray /\ k = Num(maxIndex + 1))
  /\ maxIndex' = IF IsIndex(k) /\ k[2] > maxIndex THEN k[2] ELSE maxIndex
  /\ Advance /\ KeepTable /\ UNCHANGED <<count, out>>

ResponseDecides ==
  /\ by = "response" /\ phase = "shape" /\ pos = Len(order)
  /\ phase' = "fill" /\ pos' = 0
  /\ KeepTable /\ KeepShape /\ UNCHANGED out

(* Faulty: the loop over the array runs once too often. *)
ResponseAppendsPastEnd ==
  /\ by = "response" /\ phase = "fill" /\ isArray /\ pos <= length
  /\ \/ Num(pos + 1) \in opaque /\ Raise
     \/ Num(pos + 1) \notin opaque /\ Put(Num(pos + 1), Num(pos + 1)) /\ Advance
  /\ KeepTable /\ KeepShape

(* An array is filled by index, up to the length of the table. *)
ResponseAppends ==
  /\ by = "response" /\ phase = "fill" /\ isArray /\ pos < length
  /\ \/ Num(pos + 1) \in opaque /\ Raise
     \/ Num(pos + 1) \notin opaque /\ Put(Num(pos + 1), Num(pos + 1)) /\ Advance
  /\ KeepTable /\ KeepShape

(* Faulty: numbers are not taken for keys of an object. *)
ResponseFillsStrings(k) ==
  /\ Visits("response", "fill", k)
  /\ ~isArray
  /\ \/ ~IsText(k) /\ Advance /\ UNCHANGED out
     \/ IsText(k) /\ k \in opaque /\ Raise
     \/ IsText(k) /\ k \notin opaque /\ Put(k, k) /\ Advance
  /\ KeepTable /\ KeepShape

(* An object gets the texts of strings and numbers: lua_isstring is true of *)
(* both, and lua_tostring turns the number on the stack into its text.      *)
ResponseFills(k) ==
  /\ Visits("response", "fill", k)
  /\ ~isArray
  /\ \/ k[1] = "other" /\ Advance /\ UNCHANGED out
     \/ k[1] # "other" /\ k \in opaque /\ Raise
     \/ k[1] # "other" /\ k \notin opaque /\ Put(Text(k), k) /\ GoOnBehind(Text(k))
  /\ KeepTable /\ KeepShape
-----------------------------------------------------------------------------
(* buildRequest adds a header for each key and value that are strings or    *)
(* numbers.                                                                 *)
HeaderAdds(k) ==
  /\ Visits("headers", "fill", k)
  /\ \/ (k[1] = "other" \/ k \in opaque) /\ Advance /\ UNCHANGED out
     \/ k[1] # "other" /\ k \notin opaque /\ Put(Text(k), k) /\ GoOnBehind(Text(k))
  /\ KeepTable /\ KeepShape

(* Faulty: no branch for nil. *)
BindRefusesNil ==
  /\ by = "bind" /\ phase = "fill" /\ pos < length
  /\ LET k == Num(pos + 1) IN
     \/ k \in keys \ opaque /\ Put(k, k) /\ Advance
     \/ k \notin keys \ opaque /\ Raise
  /\ KeepTable /\ KeepShape

(* Faulty: parameters are counted from 0. *)
BindFromZero ==
  /\ by = "bind" /\ phase = "fill" /\ pos < length
  /\ Put(Num(pos + 1), IF Num(pos) \in keys THEN Num(pos) ELSE Null)
  /\ Advance /\ KeepTable /\ KeepShape

(* bindLuaParameters binds the entries 1 to length, NULL for nil. *)
Bind ==
  /\ by = "bind" /\ phase = "fill" /\ pos < length
  /\ LET k == Num(pos + 1) IN
     \/ k \in keys \ opaque /\ Put(k, k) /\ Advance
     \/ k \notin keys /\ Put(k, Null) /\ Advance
     \/ k \in opaque /\ Raise
  /\ KeepTable /\ KeepShape

(* The end of the last loop. *)
FillEnds ==
  /\ phase = "fill"
  /\ pos = IF by = "bind" \/ (by = "response" /\ isArray) THEN length ELSE Len(order)
  /\ phase' = "done"
  /\ KeepTable /\ KeepShape /\ UNCHANGED <<pos, out>>

Rest == phase \in {"done", "raised"} /\ UNCHANGED walkVars

Next ==
  \/ \E k \in keys : \/ RouteCounts(k) \/ RouteFills(k)
                     \/ ResponseExpects(k) \/ ResponseFills(k) \/ HeaderAdds(k)
  \/ RouteDecides \/ ResponseDecides \/ ResponseAppends \/ Bind \/ FillEnds
  \/ Rest

Safety == Init /\ [][Next]_walkVars

(* A walk is a loop of one thread. *)
Spec == Safety /\ WF_walkVars(Next)
-----------------------------------------------------------------------------
(* JSON read back: an entry of an array gets its index, a member its name;  *)
(* null becomes nil, which is no entry.                                     *)

(* Faulty: indexes from 0. *)
ReadBackFromZero(json) ==
  [k \in Key |-> LET m == IF k[1] = "num" THEN Num(k[2] + 1) ELSE k IN
                 IF m \in Key /\ json[m] # Null THEN json[m] ELSE Absent]

(* jsonToLua and jsonToLuaValue. *)
JsonToLua(v) == IF v = Null THEN Absent ELSE v
ReadBack(json) == [k \in Key |-> JsonToLua(json[k])]
-----------------------------------------------------------------------------
(* Properties *)

(* A table is a sequence when its keys are 1 to n, in whatever order. *)
IsSequence == keys = {Num(n) : n \in 1..Len(order)}
InOrder == \A i \in DOMAIN order : order[i] = Num(i)
NoNumbers == \A k \in keys : k[1] # "num"

(* What a table should become: an array if it is a sequence, else the       *)
(* object of its strings.                                                   *)
Expected == [m \in Key |-> IF m \in keys /\ (IsSequence \/ IsText(m))
                             THEN IF m \in opaque THEN Null ELSE m
                             ELSE Absent]

(* A table route's converter finds the sequences in every order of the walk *)
(* and keeps their entries and the strings of all other tables; the one of  *)
(* Response:json gives the same for sequences that are walked in order and  *)
(* for tables without numbers.                                              *)
ConvertersAgree ==
  phase = "done" /\ (by = "route" \/ (by = "response" /\ (InOrder \/ NoNumbers)))
    => out = Expected

(* An object or a header that is left out although the walk ended lies      *)
(* between a number and the text of that number: the walk jumped over it.   *)
LostOnlyByJumps ==
  phase = "done" /\ (by = "headers" \/ (by = "response" /\ ~isArray)) =>
    \A j \in DOMAIN order : LET k == order[j] IN
      k[1] # "other" /\ k \notin opaque /\ out[Text(k)] = Absent =>
        \E i, n \in DOMAIN order : /\ i < j /\ j < n
                                   /\ order[i][1] = "num" /\ order[n] = Text(order[i])

(* Only a value that cannot be converted, or a number without its text,     *)
(* makes a conversion raise an error, and never for a table route.          *)
RaisesOnlyFor ==
  phase = "raised" =>
    \/ by \in {"response", "bind"} /\ opaque # {}
    \/ /\ by \in {"response", "headers"}
       /\ \E k \in keys : k[1] = "num" /\ Text(k) \notin keys

(* Each placeholder of a query gets the value listed at its own place, or   *)
(* NULL where the list has nil, and none is skipped in front of one that is *)
(* bound.  A value is left out only behind a nil.  A nil that ends the list *)
(* is not bound at all, since no length of the table counts it, although    *)
(* docs/database-transaction.md:121 lists one for the last placeholder.     *)
ParametersInPlace ==
  phase = "done" /\ by = "bind" => \A k \in Key :
    /\ out[k] # Absent => IsIndex(k) /\ out[k] = IF k \in keys THEN k ELSE Null
    /\ IsIndex(k) /\ out[k] = Absent =>
         /\ \A m \in Key : IsIndex(m) /\ m[2] > k[2] => out[m] = Absent
         /\ k \in keys => \E hole \in 1..(k[2] - 1) : Num(hole) \notin keys

(* A table that a route answers comes back as it was exactly if it is a     *)
(* sequence, or has only strings for keys, and every value has a JSON form. *)
SurvivesRoundTrip ==
  phase = "done" /\ by = "route" =>
    (ReadBack(out) = [k \in Key |-> IF k \in keys THEN k ELSE Absent]
       <=> opaque = {} /\ (IsSequence \/ \A k \in keys : IsText(k)))

(* Every conversion ends, but for the objects and headers with a number     *)
(* that follows its own text.                                               *)
Forward == \A i, n \in DOMAIN order :
  order[n][1] = "num" /\ order[i] = Text(order[n]) => n < i
AlwaysEnds == by \in {"route", "bind"} \/ Forward
Ends == AlwaysEnds ~> (phase \in {"done", "raised"})

(* No step of such a walk comes back to a place where it was: each ends a   *)
(* pass or gets further in the table, also when lua_next is given the text  *)
(* that lua_tostring has put in the place of a number (LuaResponse.cc:139). *)
GetsFurther ==
  [][AlwaysEnds => \/ phase = "shape" /\ phase' = "fill"
                   \/ phase' \in {"done", "raised"}
                   \/ phase' = phase /\ pos' > pos]_walkVars

(* docs/response.md:110: sequential Lua tables are converted to JSON arrays. *)
SequencesAreArrays ==
  by = "response" /\ IsSequence /\ opaque = {} =>
    phase # "raised" /\ (phase = "done" => isArray)
=============================================================================
