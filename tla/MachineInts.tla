---------------------------- MODULE MachineInts ----------------------------
(***************************************************************************)
(* The integers the program computes with: signed, in two's complement,    *)
(* from -MaxInt - 1 to MaxInt.  Go's int and time.Duration have 64 bits.   *)
(***************************************************************************)
EXTENDS Integers

CONSTANT MaxInt

ASSUME MaxIntAssumption == MaxInt \in Nat

Wrap(n) == ((n + MaxInt + 1) % (2 * (MaxInt + 1))) - (MaxInt + 1)
=============================================================================
