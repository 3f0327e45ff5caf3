------------------------------- MODULE MCCpu -------------------------------
EXTENDS Cpu

\* An instruction that writes register 1 and reads none, its readers by rs1
\* and by rs2, one that reads and writes it, a write to register 0, and a
\* store whose rd field names register 1.
MCInstructions == {Encode(ADDI, 1, 0, 2), Encode(ADDI, 2, 1, 4), Encode(ADD, 0, 0, 1),
                   Encode(ADD, 1, 1, 1), Encode(LOAD, 1, 0, 4), Encode(STORE, 1, 2, 1)}

MCPrograms == UNION {[1 .. n -> MCInstructions] : n \in 0 .. 5}
=============================================================================
