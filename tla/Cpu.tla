-------------------------------- MODULE Cpu --------------------------------
(***************************************************************************)
(* The two processor simulators of src/kernel/cpu, run on one program as   *)
(* src/benchmarks/pipeline_vs_single.c does: first the five-stage          *)
(* pipeline, then the single-cycle machine.  The fields of an instruction  *)
(* keep their layout and shrink: an opcode of 8 values, REGS registers and *)
(* an immediate of IMMS values, whose low bits are rs2.                    *)
(* A program counter counts instructions, not bytes.                       *)
(***************************************************************************)
EXTENDS Integers, Sequences, FiniteSets, FiniteSetsExt

CONSTANTS REGS, IMMS,         \* powers of two, 32 and 4096 in the code
          NUM_INSTRUCTIONS,
          Programs            \* the initial contents of memory

Word == 0 .. 8 * REGS * REGS * IMMS - 1

ASSUME CpuAssumption == /\ REGS \in Nat \ {0} /\ IMMS \in Nat \ {0}
                        /\ NUM_INSTRUCTIONS \in Nat \ {0}
                        /\ Programs \subseteq Seq(Word)

VARIABLES cpu,                \* PipelineCPU
          single,             \* SingleCycleCPU
          phase,              \* which of the two runs
          memory,
          program             \* history: memory at the start

vars == <<cpu, single, phase, memory, program>>

Registers == 0 .. REGS - 1

LOAD == 0
ADDI == 1
STORE == 2
ADD == 3

mem_size == Len(memory)

\* The fields of a word, from the lowest: opcode, rd, rs1, immediate.
Fields(raw) ==
    LET imm == raw \div (8 * REGS * REGS)
    IN  [opcode |-> raw % 8, rd |-> (raw \div 8) % REGS,
         rs1 |-> (raw \div (8 * REGS)) % REGS,
         rs2 |-> imm % REGS, immediate |-> imm]

Encode(opcode, rd, rs1, imm) == opcode + 8 * (rd + REGS * (rs1 + REGS * imm))

-----------------------------------------------------------------------------
(* The pipeline.  A stage holds the pc of an instruction and its fields, or *)
(* is empty.  STAGE_IF is never used: a fetch fills STAGE_ID.               *)

Empty == [valid |-> FALSE]

Stage == {"ID", "EX", "MEM", "WB"}

fetch_instruction(pc) == [valid |-> TRUE, pc |-> pc, f |-> Fields(memory[pc + 1])]

pipeline_init == [stages |-> [s \in Stage |-> Empty], pc |-> 0,
                  registers |-> [r \in Registers |-> 0],
                  cycle_count |-> 0, instruction_count |-> 0, stall_count |-> 0,
                  running |-> TRUE]

\* first writes a register that second reads, or that bits of its immediate
\* happen to name.
Hazard(first, second) ==
    /\ first.rd # 0 /\ first.opcode # STORE
    /\ second.rs1 = first.rd \/ second.rs2 = first.rd

\* A bug: the instruction after the next is waited for too.
pipeline_detect_hazard_far(stages) ==
    /\ stages["ID"].valid
    /\ \E s \in {"EX", "MEM"} : stages[s].valid /\ Hazard(stages[s].f, stages["ID"].f)

pipeline_detect_hazard(stages) ==
    /\ stages["ID"].valid /\ stages["EX"].valid
    /\ Hazard(stages["EX"].f, stages["ID"].f)

\* A bug: a stalled instruction moves on all the same.
Moved_twice(stages, stall, fetches) ==
    [WB |-> stages["MEM"], MEM |-> stages["EX"],
     EX |-> stages["ID"],
     ID |-> IF stall THEN stages["ID"] ELSE IF fetches THEN fetch_instruction(cpu.pc) ELSE Empty]

\* Every stage moves on, except that a stall holds STAGE_ID back.
Moved(stages, stall, fetches) ==
    [WB |-> stages["MEM"], MEM |-> stages["EX"],
     EX |-> IF stall THEN Empty ELSE stages["ID"],
     ID |-> IF stall THEN stages["ID"] ELSE IF fetches THEN fetch_instruction(cpu.pc) ELSE Empty]

\* A bug: a register is written when its instruction leaves STAGE_MEM.
Written_early(registers, stages) ==
    LET done == stages["MEM"]
    IN  IF done.valid /\ done.f.rd # 0 /\ done.f.opcode # STORE
        THEN [registers EXCEPT ![done.f.rd] = done.f.immediate] ELSE registers

\* The immediate stands in for the result.
Written(registers, stages) ==
    LET done == stages["WB"]
    IN  IF done.valid /\ done.f.rd # 0 /\ done.f.opcode # STORE
        THEN [registers EXCEPT ![done.f.rd] = done.f.immediate] ELSE registers

pipeline_cycle ==
    LET stall == pipeline_detect_hazard(cpu.stages)
        fetches == ~ stall /\ cpu.pc < mem_size
    IN  cpu' = [stages |-> Moved(cpu.stages, stall, fetches),
                pc |-> IF fetches THEN cpu.pc + 1 ELSE cpu.pc,
                registers |-> Written(cpu.registers, cpu.stages),
                cycle_count |-> cpu.cycle_count + 1,
                instruction_count |-> IF cpu.stages["WB"].valid THEN cpu.instruction_count + 1
                                      ELSE cpu.instruction_count,
                stall_count |-> IF stall THEN cpu.stall_count + 1 ELSE cpu.stall_count,
                running |-> cpu.pc < mem_size \/ \E s \in Stage : cpu.stages[s].valid]

\* The test of the loop of pipeline_execute, with the break at its end.
SafetyBreak == cpu.cycle_count > NUM_INSTRUCTIONS * 10

Executes == cpu.running /\ cpu.instruction_count < NUM_INSTRUCTIONS /\ ~ SafetyBreak

pipeline_execute ==
    /\ phase = "pipeline" /\ Executes /\ pipeline_cycle
    /\ UNCHANGED <<single, phase, memory, program>>

-----------------------------------------------------------------------------
(* The single-cycle machine. *)

single_cycle_init == [pc |-> 0, registers |-> [r \in Registers |-> 0],
                      cycle_count |-> 0, instruction_count |-> 0, running |-> TRUE]

\* A bug: the sum does not wrap.
Plus_wide(a, b) == a + b

\* Addition of 32-bit words, in the width of the model.
Plus(a, b) == (a + b) % (8 * REGS * REGS * IMMS)

Result(f) ==
    LET at == Plus(single.registers[f.rs1], f.immediate) \div 4
    IN  CASE f.opcode = ADD -> Plus(single.registers[f.rs1], single.registers[f.rs2])
          [] f.opcode = ADDI -> Plus(single.registers[f.rs1], f.immediate)
          [] f.opcode = LOAD /\ at < mem_size -> memory[at + 1]
          [] OTHER -> 0

\* A store changes memory, which may be an instruction still to be run.
Stored(f) ==
    LET at == Plus(single.registers[f.rs1], f.immediate) \div 4
    IN  IF f.opcode = STORE /\ at < mem_size
        THEN [memory EXCEPT ![at + 1] = single.registers[f.rs2]] ELSE memory

\* Execute, write back and count.
Instruction(f) ==
    /\ single' = [pc |-> single.pc + 1, running |-> TRUE,
                  registers |-> IF f.rd # 0 /\ f.opcode # STORE
                                THEN [single.registers EXCEPT ![f.rd] = Result(f)]
                                ELSE single.registers,
                  cycle_count |-> single.cycle_count + 1,
                  instruction_count |-> single.instruction_count + 1]
    /\ memory' = Stored(f)

single_cycle_execute_one ==
    IF single.pc >= mem_size
    THEN single' = [single EXCEPT !.running = FALSE] /\ UNCHANGED memory
    ELSE \E f \in {Fields(memory[single.pc + 1])} : Instruction(f)

\* The counter of the loop of single_cycle_execute is instruction_count while
\* the machine runs.
single_cycle_execute ==
    /\ phase = "single" /\ single.running /\ single.instruction_count < NUM_INSTRUCTIONS
    /\ single_cycle_execute_one
    /\ UNCHANGED <<cpu, phase, program>>

-----------------------------------------------------------------------------
\* benchmark_pipeline returns and benchmark_single_cycle starts.
benchmark_single_cycle ==
    /\ phase = "pipeline" /\ ~ Executes
    /\ phase' = "single"
    /\ UNCHANGED <<cpu, single, memory, program>>

Init == /\ program \in Programs /\ memory = program
        /\ cpu = pipeline_init /\ single = single_cycle_init /\ phase = "pipeline"

Next == pipeline_execute \/ benchmark_single_cycle \/ single_cycle_execute

Spec == Init /\ [][Next]_vars

(* Properties *)

TypeOK ==
    /\ memory \in Seq(Word) /\ phase \in {"pipeline", "single"}
    /\ cpu.registers \in [Registers -> Word] /\ single.registers \in [Registers -> Word]
    /\ cpu.pc \in 0 .. mem_size /\ single.pc \in 0 .. mem_size

Held(s) == IF cpu.stages[s].valid THEN 1 ELSE 0

\* How many instructions in flight are older than the one of a stage.
Older == [WB |-> 0, MEM |-> Held("WB"), EX |-> Held("WB") + Held("MEM"),
          ID |-> Held("WB") + Held("MEM") + Held("EX")]

\* The instruction with n before it in the program, as a stage holds it.
Fetched(n) == [valid |-> TRUE, pc |-> n, f |-> Fields(program[n + 1])]

\* The pipeline neither loses nor repeats nor reorders an instruction, however
\* stalls and an empty stage between them fall: those in flight are exactly
\* the ones fetched and not yet completed, in program order.
InOrder ==
    /\ cpu.pc = cpu.instruction_count + Older["ID"] + Held("ID")
    /\ \A s \in Stage : cpu.stages[s].valid =>
          cpu.stages[s] = Fetched(cpu.instruction_count + Older[s])

\* The instructions of the program, of the first n, that write r.
Writers(r, n) == {k \in 1 .. n : Fields(program[k]).rd = r /\ r # 0
                                 /\ Fields(program[k]).opcode # STORE}

\* A register holds what the last completed instruction that writes it left:
\* nothing of an instruction that is still in flight shows.
RegistersAsCompleted ==
    \A r \in Registers :
        LET w == Writers(r, cpu.instruction_count)
        IN  cpu.registers[r] = IF w = {} THEN 0 ELSE Fields(program[Max(w)]).immediate

\* The registers an instruction reads when it is executed (single_cycle.c:52-67).
Reads(f) == CASE f.opcode \in {ADD, STORE} -> {f.rs1, f.rs2}
              [] f.opcode \in {ADDI, LOAD} -> {f.rs1}
              [] OTHER -> {}

\* first writes a register that second reads.
TrueDependency(first, second) ==
    first.rd # 0 /\ first.opcode # STORE /\ first.rd \in Reads(second)

\* first writes a register that second does not read, but that bits of its
\* encoding happen to name: those of an immediate, or of an unknown opcode.
FalseAlarm(first, second) ==
    /\ first.rd # 0 /\ first.opcode # STORE
    /\ first.rd \in {second.rs1, second.rs2} \ Reads(second)

\* The instructions of the program that depend on the one before.
Dependent == {k \in 2 .. mem_size : TrueDependency(Fields(program[k - 1]), Fields(program[k]))}

Mistaken == {k \in 2 .. mem_size : FalseAlarm(Fields(program[k - 1]), Fields(program[k]))}

\* The counters the benchmark prints.  At the end of a program every
\* instruction has cost a cycle, every true dependency on the instruction
\* before one more, and filling and emptying the pipeline five.  The comment
\* "Only stall if there's a true dependency" (pipeline.c:72) is not kept: an
\* immediate whose low bits name the register just written costs a cycle too,
\* and nothing else does.
CyclesAccounted ==
    ~ cpu.running => /\ cpu.instruction_count = mem_size
                     /\ cpu.stall_count = Cardinality(Dependent) + Cardinality(Mistaken)
                     /\ cpu.cycle_count = mem_size + cpu.stall_count
                                          + IF mem_size = 0 THEN 1 ELSE 5

\* The two machines are compared over the same number of instructions: the
\* break "to prevent infinite loop" (pipeline.c:162) does not cut the pipeline
\* short, and a program that changes itself does not cut the other one short.
SameWork ==
    phase = "single" =>
        /\ cpu.instruction_count = Min({NUM_INSTRUCTIONS, mem_size})
        /\ ~ (single.running /\ single.instruction_count < NUM_INSTRUCTIONS) =>
              single.instruction_count = cpu.instruction_count
=============================================================================
