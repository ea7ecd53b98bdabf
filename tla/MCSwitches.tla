----------------------------- MODULE MCSwitches -----------------------------
(* Switches with a vector that changes its shape and one of numbers. *)
EXTENDS Switches

Sh(type, mem, rule, ro, range) ==
  [type |-> type, mem |-> mem, rule |-> rule, ro |-> ro, range |-> range]
MCProps == <<"OUTPUT_1", "OUTPUT_2">>
MCShapes ==
  [OUTPUT_1 |-> {Sh("Switch", <<"OFF", "ON">>, "AtMostOne", FALSE, Free),
                 Sh("Switch", <<"a", "b">>, "OneOfMany", FALSE, Free)},
   OUTPUT_2 |-> {Sh("Number", <<"a">>, None, FALSE, Declared(1, 3)),
                 Sh("Number", <<"a">>, None, FALSE, Declared(0, 0)),
                 Sh("Number", <<"a">>, None, FALSE, Free),
                 Sh("Switch", <<"a">>, "AnyOfMany", TRUE, Free),
                 Sh("Switch", <<"a">>, "AnyOfMany", FALSE, Free)}]
=============================================================================
