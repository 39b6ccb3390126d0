------------------------------ MODULE MCDevice ------------------------------
(* Values a .cfg cannot write.                                             *)
EXTENDS Device

SourceOrder == <<"soc", "ble">>

(* Four arrays; the CRC of the second and the third are equal.             *)
Arrays ==
  {<<>>, << <<4660, 22136>> >>, << <<53647, 0>> >>,
   << <<4660, 22136>>, <<0, 1>> >>}

(* A user of both edges of p, and one of the rise of p and the fall of q.  *)
Masks == {<<{"p"}, {"p"}>>, <<{"p"}, {"q"}>>}
=============================================================================
