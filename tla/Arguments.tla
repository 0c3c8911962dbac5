----------------------------- MODULE Arguments ------------------------------
(***************************************************************************)
(* How the arguments of an event reach the parameters of its callback:     *)
(* Call of callback.go, and UnmarshalArgs of both parsers.                 *)
(*                                                                         *)
(* Parameters and arguments are of kind "json" or "bin" (Binary); a        *)
(* parameter may also be the Socket.  A value <<kind, event, k>> is the    *)
(* k-th of its kind in the event.  Values of one kind fit all parameters   *)
(* of that kind.                                                           *)
(***************************************************************************)
EXTENDS Integers, Sequences, FiniteSets

Fail == <<<<"fail">>>>      \* the arguments cannot be unmarshalled
TheSocket == <<"socket">>
ZeroValue == <<"zero">>

\* The number of the element i of s among those that are alike.
Rank(s, i) == Cardinality({j \in 1 .. i : s[j] = s[i]})
ItemOf(params, i) == Cardinality({j \in 1 .. i : params[j] # "socket"})

\* Mutant: every parameter counts, the Socket too.
UnmarshalDefaultAll(params, values, buffer) ==
  [i \in DOMAIN params |->
     LET from == IF params[i] = "bin" THEN buffer ELSE values
     IN  IF params[i] = "socket" THEN TheSocket
         ELSE IF i \in DOMAIN from THEN from[i] ELSE ZeroValue]

\* defaultDecoder.UnmarshalArgs: a binary takes the next buffer, another parameter
\* the next value of the JSON list; what is missing stays zero, what is left over is
\* ignored.
UnmarshalDefault(params, values, buffer) ==
  [i \in DOMAIN params |->
     LET from == IF params[i] = "bin" THEN buffer ELSE values
     IN  IF params[i] = "socket" THEN TheSocket
         ELSE IF Rank(params, i) \in DOMAIN from THEN from[Rank(params, i)] ELSE ZeroValue]

\* msgpUnmashalArg: the value k of the list, if there is one that fits the parameter.
Readable(param, values, k) == k \in DOMAIN values /\ values[k][1] = param

\* msgpackDecoder.UnmarshalArgs: the parameters take the values in order.
UnmarshalMsgpack(params, values) ==
  IF \A i \in DOMAIN params :
       params[i] # "socket" => Readable(params[i], values, ItemOf(params, i))
  THEN [i \in DOMAIN params |-> IF params[i] = "socket" THEN TheSocket
                                ELSE values[ItemOf(params, i)]]
  ELSE Fail
=============================================================================
