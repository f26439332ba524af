----------------------------- MODULE MCKeccak -----------------------------
(* Words without bits, with one, and with many; messages around the ends of words and blocks. *)
EXTENDS Keccak

MCWords == {{}, {0}, {3, 8, 17, 31, 32, 40, 41, 63}}
MCSizes == {0, 1, 7, 8, 71, 72, 135, 136}
=============================================================================
