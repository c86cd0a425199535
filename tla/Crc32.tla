-------------------------------- MODULE Crc32 --------------------------------
(***************************************************************************)
(* The reflected, table-driven CRC of src/Crc32.cpp at a scaled width: the *)
(* code has a 32-bit register and 8-bit bytes, a model a few bits of each. *)
(* Initial value and final XOR are all ones, as in the source.             *)
(***************************************************************************)
EXTENDS Integers, Sequences, Bitwise
LOCAL INSTANCE SequencesExt

CONSTANTS
  RegisterBits,          \* 32 in the code
  SymbolBits,            \* 8 in the code
  ReflectedPolynomial

ASSUME WidthAssumption ==
  SymbolBits \in Nat \ {0} /\ RegisterBits \in Nat /\ RegisterBits >= SymbolBits
ASSUME PolynomialAssumption == ReflectedPolynomial \in 0..(2^RegisterBits - 1)

AllOnes == 2^RegisterBits - 1

\* One bit of makeTable's inner loop.
TableStep(crc) ==
  IF crc % 2 = 1 THEN (crc \div 2) ^^ ReflectedPolynomial ELSE crc \div 2

CrcTable ==
  [i \in 0..(2^SymbolBits - 1) |->
    LET after[bit \in 0..SymbolBits] == IF bit = 0 THEN i ELSE TableStep(after[bit - 1])
    IN  after[SymbolBits]]

\* Mutant of CrcStep: the table is indexed by the byte alone, so that what
\* came before reaches the result only through the shifted register.
CrcStepNoFeedback(crc, byte) == (crc \div 2^SymbolBits) ^^ CrcTable[byte]

CrcStep(crc, byte) ==
  (crc \div 2^SymbolBits) ^^ CrcTable[(crc ^^ byte) % 2^SymbolBits]

Crc32Of(bytes) == FoldLeft(CrcStep, AllOnes, bytes) ^^ AllOnes

=============================================================================
