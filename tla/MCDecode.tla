------------------------------ MODULE MCDecode ------------------------------
(* Numbers for module Decode: every width, both signs, the digits 0 and 9  *)
(* in every place, leading zeros behind the point.  A number of foreign    *)
(* bytes is one value, which no message holds.                             *)
EXTENDS Decode

Samples ==
  {7, 1000, 10305, 99999, 100000, 999999, -1, -9080, -54321, -999999}

Foreign == {1000000}
=============================================================================
