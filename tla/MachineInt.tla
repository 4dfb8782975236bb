------------------------------ MODULE MachineInt -----------------------------
(***************************************************************************)
(* The int of the programs: a sum that is too large for it wraps, as the   *)
(* machine adds.                                                           *)
(***************************************************************************)
EXTENDS Integers

CONSTANT MaxInt     \* the largest int (2^31 - 1)

Ints == -MaxInt - 1 .. MaxInt

Wrapped(x) == ((x + (MaxInt + 1)) % (2 * (MaxInt + 1))) - (MaxInt + 1)
=============================================================================
