----------------------------- MODULE CpuProofs -----------------------------
(***************************************************************************)
(* For every program, every number of registers and of immediates and      *)
(* every NUM_INSTRUCTIONS: the pipeline completes the instructions of the  *)
(* program in order, its counters are exact, and the two machines do the   *)
(* same work.                                                              *)
(***************************************************************************)
EXTENDS Cpu, FiniteSetTheorems, TLAPS

(* The default prover and its time limit; the leaves that are pure logic   *)
(* name Zenon instead.                                                     *)
USE SMTT(30)

Full(s) == cpu.stages[s].valid

(* What a stage may hold. *)
Slot == {Empty} \cup [valid : {TRUE}, pc : Nat, f : {Fields(w) : w \in Word}]

Shape ==
    /\ cpu \in [stages : [Stage -> Slot], pc : Nat, registers : [Registers -> Word],
                cycle_count : Nat, instruction_count : Nat, stall_count : Nat,
                running : BOOLEAN]
    /\ single \in [pc : Nat, registers : [Registers -> Word], cycle_count : Nat,
                   instruction_count : Nat, running : BOOLEAN]
    /\ phase \in {"pipeline", "single"}
    /\ program \in Seq(Word) /\ memory \in Seq(Word)
    /\ Len(memory) = Len(program) /\ (phase = "pipeline" => memory = program)
    /\ cpu.pc <= Len(program)

(* The cycles in which no instruction was fetched and none held back. *)
Drained == cpu.cycle_count - cpu.pc - cpu.stall_count

(* How far the pipeline has filled or emptied shows in its stages. *)
Draining ==
    /\ Drained \in 0 .. 5
    /\ cpu.cycle_count = 0 => /\ cpu.pc = 0 /\ cpu.stall_count = 0
                              /\ \A s \in Stage : ~Full(s)
    /\ cpu.cycle_count # 0 /\ Drained = 0 => Full("ID")
    /\ Drained >= 1 => cpu.pc = Len(program) /\ ~Full("ID")
    /\ Drained = 1 /\ Len(program) # 0 => Full("EX")
    /\ Drained >= 2 => Len(program) # 0 /\ ~Full("EX")
    /\ Drained = 2 => Full("MEM")
    /\ Drained >= 3 => ~Full("MEM")
    /\ Drained = 3 => Full("WB")
    /\ Drained >= 4 => ~Full("WB")
    /\ ~cpu.running <=> Drained = 5 \/ (Drained = 1 /\ Len(program) = 0)

(* The neighbours with a hazard, and RegistersAsCompleted, of a program p. *)
Waits(p, n) == {k \in 2 .. n : Hazard(Fields(p[k - 1]), Fields(p[k]))}
Writes(p, r, k) == Fields(p[k]).rd = r /\ r # 0 /\ Fields(p[k]).opcode # STORE
WritersOf(p, r, n) == {k \in 1 .. n : Writes(p, r, k)}
ValueOf(p, w) == IF w = {} THEN 0 ELSE Fields(p[Max(w)]).immediate

Completed == \A r \in Registers :
    cpu.registers[r] = ValueOf(program, WritersOf(program, r, cpu.instruction_count))

(* STAGE_ID holds an instruction back, or did in the cycle before. *)
Again == Full("ID") /\ ~Full("EX") /\ cpu.pc >= 2

(* Every stall is one of an instruction that waits for the one before it.  *)
Stalls ==
    /\ Again => cpu.stall_count = Cardinality(Waits(program, cpu.pc - Held("ID"))) + 1
    /\ ~Again => cpu.stall_count = Cardinality(Waits(program, cpu.pc - Held("ID")))
    /\ Again => Hazard(Fields(program[cpu.pc - 1]), Fields(program[cpu.pc]))

(* The first instruction completes in the fifth cycle. *)
FirstOne ==
    cpu.instruction_count = 0 /\ Len(program) # 0 =>
        \/ cpu.cycle_count = 0
        \/ cpu.cycle_count = 1 /\ Full("ID") /\ ~Full("EX") /\ ~Full("MEM") /\ ~Full("WB")
        \/ cpu.cycle_count = 2 /\ Full("EX") /\ ~Full("MEM") /\ ~Full("WB")
        \/ cpu.cycle_count = 3 /\ Full("MEM") /\ ~Full("WB")
        \/ cpu.cycle_count = 4 /\ Full("WB")

(* The single-cycle machine counts its instructions in its pc. *)
SingleSteps ==
    /\ single.instruction_count = single.pc
    /\ single.pc <= Len(program) /\ single.pc <= NUM_INSTRUCTIONS
    /\ ~single.running => single.pc = Len(program)

IInv ==
    /\ Shape /\ InOrder /\ Draining /\ Stalls /\ FirstOne
    /\ Completed /\ SingleSteps
    /\ cpu.instruction_count <= NUM_INSTRUCTIONS
    /\ phase = "single" => cpu.instruction_count = NUM_INSTRUCTIONS \/ ~cpu.running

-----------------------------------------------------------------------------
(* The fields of a word. *)

LEMMA WordTyped == Word \subseteq Nat /\ 0 \in Word /\ 8 * REGS * REGS * IMMS \in Nat \ {0}
  BY CpuAssumption DEF Word

(* The fields of an instruction fit: a register number names a register and *)
(* an immediate fits in a register.                                        *)
LEMMA FieldsTyped ==
  ASSUME NEW w \in Word
  PROVE  /\ Fields(w).rd \in Registers /\ Fields(w).rs1 \in Registers
         /\ Fields(w).rs2 \in Registers /\ Fields(w).immediate \in Word
         /\ Fields(w).opcode \in Nat
<1> DEFINE b == 8 * REGS * REGS
<1> DEFINE c == 8 * REGS
<1>1. b \in Nat \ {0} /\ c \in Nat \ {0}  BY CpuAssumption
<1>2. w \in Nat  BY WordTyped
<1> HIDE DEF b, c
<1>3. w \div b \in Nat /\ w \div b <= w /\ w \div c \in Nat /\ w \div 8 \in Nat /\ w % 8 \in Nat
  BY <1>1, <1>2
<1>4. w \div b \in Word  BY <1>3, <1>2, CpuAssumption DEF Word
<1>5. \A x \in Nat : x % REGS \in Registers  BY CpuAssumption DEF Registers
<1>6. Fields(w) = [opcode |-> w % 8, rd |-> (w \div 8) % REGS, rs1 |-> (w \div c) % REGS,
                   rs2 |-> (w \div b) % REGS, immediate |-> w \div b]
  BY DEF Fields, b, c
<1> QED  BY <1>3, <1>4, <1>5, <1>6

LEMMA PlusTyped ==
  ASSUME NEW a \in Word, NEW b \in Word
  PROVE  Plus(a, b) \in Word /\ Plus(a, b) \div 4 \in Nat
<1> DEFINE m == 8 * REGS * REGS * IMMS
<1>1. m \in Nat \ {0} /\ a \in Nat /\ b \in Nat /\ Word = 0 .. m - 1  BY WordTyped DEF Word
<1> HIDE DEF m
<1>2. (a + b) % m \in 0 .. m - 1  BY <1>1
<1>3. (a + b) % m \in Nat  BY <1>1
<1>4. Plus(a, b) = (a + b) % m  BY DEF Plus, m
<1>5. Plus(a, b) \in Nat  BY <1>3, <1>4
<1> QED  BY <1>1, <1>2, <1>4, <1>5

-----------------------------------------------------------------------------
(* One cycle of the pipeline. *)

Cycle == /\ phase = "pipeline" /\ Executes /\ pipeline_cycle
         /\ UNCHANGED <<single, phase, memory, program>>

(* Whether STAGE_ID is held back, and whether an instruction is fetched.   *)
Stall == pipeline_detect_hazard(cpu.stages)
Fetches == ~Stall /\ cpu.pc < Len(program)

(* What the stages hold, in the order of the program. *)
LEMMA InFlight ==
  ASSUME Shape, InOrder
  PROVE  /\ \A s \in Stage : cpu.stages[s] \in Slot /\ Full(s) \in BOOLEAN
         /\ \A s \in Stage : ~Full(s) => cpu.stages[s] = Empty
         /\ \A s \in Stage : Held(s) \in 0 .. 1 /\ (Held(s) = 1 <=> Full(s))
         /\ Full("WB") => cpu.stages["WB"] = Fetched(cpu.instruction_count)
         /\ Full("MEM") => cpu.stages["MEM"] = Fetched(cpu.instruction_count + Held("WB"))
         /\ Full("EX") => cpu.stages["EX"] =
                Fetched(cpu.instruction_count + Held("WB") + Held("MEM"))
         /\ Full("ID") => cpu.stages["ID"] =
                Fetched(cpu.instruction_count + Held("WB") + Held("MEM") + Held("EX"))
         /\ cpu.pc = cpu.instruction_count + Held("WB") + Held("MEM") + Held("EX") + Held("ID")
         /\ cpu.instruction_count \in Nat /\ cpu.pc \in Nat /\ Len(program) \in Nat
<1>1. \A s \in Stage : cpu.stages[s] \in Slot  BY DEF Shape
<1>2. \A x \in Slot : x.valid \in BOOLEAN /\ (~x.valid => x = Empty)
  <2> SUFFICES ASSUME NEW x \in Slot  PROVE x.valid \in BOOLEAN /\ (~x.valid => x = Empty)
    OBVIOUS
  <2>1. CASE x = Empty  BY <2>1 DEF Empty
  <2>2. CASE x # Empty
    <3>1. x.valid = TRUE  BY <2>2, Zenon DEF Slot
    <3> QED  BY <3>1, Zenon
  <2> QED  BY <2>1, <2>2
<1>3. \A s \in Stage : Full(s) \in BOOLEAN /\ (~Full(s) => cpu.stages[s] = Empty)
  BY <1>1, <1>2 DEF Full
<1>4. \A s \in Stage : Held(s) \in 0 .. 1 /\ (Held(s) = 1 <=> Full(s))  BY <1>3 DEF Held, Full
<1>5. cpu.instruction_count \in Nat /\ cpu.pc \in Nat /\ Len(program) \in Nat  BY DEF Shape
<1>6. /\ "WB" \in Stage /\ "MEM" \in Stage /\ "EX" \in Stage /\ "ID" \in Stage
      /\ Older["WB"] = 0 /\ Older["MEM"] = Held("WB") /\ Older["EX"] = Held("WB") + Held("MEM")
      /\ Older["ID"] = Held("WB") + Held("MEM") + Held("EX")
  BY DEF Stage, Older
<1>7. \A s \in Stage : Full(s) => cpu.stages[s] = Fetched(cpu.instruction_count + Older[s])
  BY DEF InOrder, Full
<1>8. /\ Full("WB") => cpu.stages["WB"] = Fetched(cpu.instruction_count + 0)
      /\ Full("MEM") => cpu.stages["MEM"] = Fetched(cpu.instruction_count + Held("WB"))
      /\ Full("EX") => cpu.stages["EX"] =
                Fetched(cpu.instruction_count + (Held("WB") + Held("MEM")))
      /\ Full("ID") => cpu.stages["ID"] =
                Fetched(cpu.instruction_count + (Held("WB") + Held("MEM") + Held("EX")))
  BY <1>6, <1>7
<1>9. /\ cpu.instruction_count + 0 = cpu.instruction_count
      /\ cpu.instruction_count + (Held("WB") + Held("MEM"))
           = cpu.instruction_count + Held("WB") + Held("MEM")
      /\ cpu.instruction_count + (Held("WB") + Held("MEM") + Held("EX"))
           = cpu.instruction_count + Held("WB") + Held("MEM") + Held("EX")
      /\ cpu.instruction_count + Older["ID"] + Held("ID")
           = cpu.instruction_count + Held("WB") + Held("MEM") + Held("EX") + Held("ID")
  BY <1>4, <1>5, <1>6
<1>10. cpu.pc = cpu.instruction_count + Older["ID"] + Held("ID")  BY DEF InOrder
<1> QED  BY <1>1, <1>3, <1>4, <1>5, <1>8, <1>9, <1>10

LEMMA SlotOf ==
  ASSUME NEW p \in Nat, NEW w \in Word
  PROVE  [valid |-> TRUE, pc |-> p, f |-> Fields(w)] \in Slot
  BY DEF Slot

LEMMA FourStages ==
  ASSUME NEW S, NEW a \in S, NEW b \in S, NEW c \in S, NEW d \in S
  PROVE  [WB |-> a, MEM |-> b, EX |-> c, ID |-> d] \in [Stage -> S]
  BY SMT DEF Stage

(* What a cycle does to the stages and to the counters. *)
LEMMA CycleMoves ==
  ASSUME Shape, InOrder, Cycle
  PROVE  /\ cpu'.stages \in [Stage -> Slot]
         /\ cpu'.stages["WB"] = cpu.stages["MEM"]
         /\ cpu'.stages["MEM"] = cpu.stages["EX"]
         /\ cpu'.stages["EX"] = IF Stall THEN Empty ELSE cpu.stages["ID"]
         /\ cpu'.stages["ID"] = IF Stall THEN cpu.stages["ID"]
                                ELSE IF Fetches THEN Fetched(cpu.pc) ELSE Empty
         /\ (Fetches => cpu'.pc = cpu.pc + 1) /\ (~Fetches => cpu'.pc = cpu.pc)
         /\ cpu'.cycle_count = cpu.cycle_count + 1
         /\ cpu'.instruction_count = cpu.instruction_count + Held("WB")
         /\ Stall => cpu'.stall_count = cpu.stall_count + 1
         /\ ~Stall => cpu'.stall_count = cpu.stall_count
         /\ cpu'.registers = Written(cpu.registers, cpu.stages)
         /\ cpu'.running \in BOOLEAN
         /\ cpu'.running <=> cpu.pc < Len(program) \/ \E s \in Stage : Full(s)
         /\ program' = program /\ memory' = memory /\ phase' = phase /\ single' = single
         /\ Stall \in BOOLEAN /\ Fetches \in BOOLEAN
         /\ Fetches => cpu.pc < Len(program)
         /\ Stall => Full("ID") /\ Full("EX")
         /\ cpu' = [stages |-> cpu'.stages, pc |-> cpu'.pc, registers |-> cpu'.registers,
                    cycle_count |-> cpu'.cycle_count,
                    instruction_count |-> cpu'.instruction_count,
                    stall_count |-> cpu'.stall_count, running |-> cpu'.running]
<1>1. memory = program /\ Len(program) \in Nat /\ cpu.pc \in Nat /\ cpu.instruction_count \in Nat
      /\ cpu.stall_count \in Nat
  BY DEF Shape, Cycle
<1>2. cpu' = [stages |-> Moved(cpu.stages, Stall, Fetches),
              pc |-> IF Fetches THEN cpu.pc + 1 ELSE cpu.pc,
              registers |-> Written(cpu.registers, cpu.stages),
              cycle_count |-> cpu.cycle_count + 1,
              instruction_count |-> IF cpu.stages["WB"].valid THEN cpu.instruction_count + 1
                                    ELSE cpu.instruction_count,
              stall_count |-> IF Stall THEN cpu.stall_count + 1 ELSE cpu.stall_count,
              running |-> cpu.pc < Len(program) \/ \E s \in Stage : Full(s)]
  BY <1>1 DEF Cycle, pipeline_cycle, Stall, Fetches, mem_size, Full
<1>3. Fetches \in BOOLEAN /\ (Fetches => cpu.pc < Len(program))  BY DEF Fetches
<1>4. Stall \in BOOLEAN /\ (Stall => Full("ID") /\ Full("EX"))
  BY DEF Stall, pipeline_detect_hazard, Full
<1>5. /\ cpu'.stages = Moved(cpu.stages, Stall, Fetches)
      /\ (Fetches => cpu'.pc = cpu.pc + 1) /\ (~Fetches => cpu'.pc = cpu.pc)
      /\ cpu'.cycle_count = cpu.cycle_count + 1
      /\ Stall => cpu'.stall_count = cpu.stall_count + 1
      /\ ~Stall => cpu'.stall_count = cpu.stall_count
      /\ cpu'.registers = Written(cpu.registers, cpu.stages)
  BY <1>1, <1>2
<1>6. cpu'.instruction_count = cpu.instruction_count + Held("WB")  BY <1>1, <1>2 DEF Held
<1>7. cpu'.running = (cpu.pc < Len(program) \/ \E s \in Stage : Full(s))  BY <1>2
<1>8. (cpu.pc < Len(program) \/ \E s \in Stage : Full(s)) \in BOOLEAN  OBVIOUS
<1>9. fetch_instruction(cpu.pc) = Fetched(cpu.pc)  BY <1>1 DEF fetch_instruction, Fetched
<1>10. /\ Moved(cpu.stages, Stall, Fetches)["WB"] = cpu.stages["MEM"]
       /\ Moved(cpu.stages, Stall, Fetches)["MEM"] = cpu.stages["EX"]
       /\ Moved(cpu.stages, Stall, Fetches)["EX"] = IF Stall THEN Empty ELSE cpu.stages["ID"]
       /\ Moved(cpu.stages, Stall, Fetches)["ID"] = IF Stall THEN cpu.stages["ID"]
                                ELSE IF Fetches THEN Fetched(cpu.pc) ELSE Empty
  BY <1>9 DEF Moved
<1>11. Fetches => Fetched(cpu.pc) \in Slot
  <2> SUFFICES ASSUME Fetches  PROVE Fetched(cpu.pc) \in Slot  OBVIOUS
  <2>1. cpu.pc + 1 \in 1 .. Len(program)  BY <1>1, <1>3
  <2>2. program[cpu.pc + 1] \in Word  BY <2>1 DEF Shape
  <2>3. Fetched(cpu.pc) = [valid |-> TRUE, pc |-> cpu.pc, f |-> Fields(program[cpu.pc + 1])]
    BY DEF Fetched
  <2> QED  BY <1>1, <2>2, <2>3, SlotOf
<1>12. /\ cpu.stages["MEM"] \in Slot /\ cpu.stages["EX"] \in Slot
       /\ (IF Stall THEN Empty ELSE cpu.stages["ID"]) \in Slot
       /\ (IF Stall THEN cpu.stages["ID"] ELSE IF Fetches THEN Fetched(cpu.pc) ELSE Empty) \in Slot
  BY <1>11, <1>3, <1>4, InFlight, Zenon DEF Stage, Slot
<1>13. Moved(cpu.stages, Stall, Fetches) =
         [WB |-> cpu.stages["MEM"], MEM |-> cpu.stages["EX"],
          EX |-> IF Stall THEN Empty ELSE cpu.stages["ID"],
          ID |-> IF Stall THEN cpu.stages["ID"] ELSE IF Fetches THEN Fetched(cpu.pc) ELSE Empty]
  BY <1>9, Zenon DEF Moved
<1>14. Moved(cpu.stages, Stall, Fetches) \in [Stage -> Slot]  BY <1>12, <1>13, FourStages
<1>15. cpu'.stages \in [Stage -> Slot]  BY <1>5, <1>14
<1>16. program' = program /\ memory' = memory /\ phase' = phase /\ single' = single  BY DEF Cycle
<1>17. cpu' = [stages |-> cpu'.stages, pc |-> cpu'.pc, registers |-> cpu'.registers,
                    cycle_count |-> cpu'.cycle_count,
                    instruction_count |-> cpu'.instruction_count,
                    stall_count |-> cpu'.stall_count, running |-> cpu'.running]
  BY <1>2
<1>18. cpu'.running \in BOOLEAN
       /\ (cpu'.running <=> cpu.pc < Len(program) \/ \E s \in Stage : Full(s))
  BY <1>7, <1>8, Zenon
<1> QED  BY <1>3, <1>4, <1>5, <1>6, <1>10, <1>15, <1>16, <1>17, <1>18

(* The stages of the next state, filled or not. *)
LEMMA CycleFills ==
  ASSUME Shape, InOrder, Cycle
  PROVE  /\ \A s \in Stage : Full(s) \in BOOLEAN /\ Full(s)' \in BOOLEAN
         /\ Full("WB")' <=> Full("MEM")
         /\ Full("MEM")' <=> Full("EX")
         /\ Full("EX")' <=> ~Stall /\ Full("ID")
         /\ Full("ID")' <=> Stall \/ Fetches
         /\ Held("WB")' = Held("MEM") /\ Held("MEM")' = Held("EX")
         /\ Held("EX")' = (IF Stall THEN 0 ELSE Held("ID"))
         /\ Held("ID")' = IF Stall \/ Fetches THEN 1 ELSE 0
<1>1. /\ cpu'.stages["WB"] = cpu.stages["MEM"]
      /\ cpu'.stages["MEM"] = cpu.stages["EX"]
      /\ cpu'.stages["EX"] = IF Stall THEN Empty ELSE cpu.stages["ID"]
      /\ cpu'.stages["ID"] = IF Stall THEN cpu.stages["ID"]
                             ELSE IF Fetches THEN Fetched(cpu.pc) ELSE Empty
      /\ Stall \in BOOLEAN /\ Fetches \in BOOLEAN /\ (Stall => Full("ID"))
  BY CycleMoves
<1>2. \A s \in Stage : Full(s) \in BOOLEAN  BY InFlight
<1>3. Empty.valid = FALSE /\ Fetched(cpu.pc).valid = TRUE  BY DEF Empty, Fetched
<1>4. \A s : Full(s)' <=> cpu'.stages[s].valid  BY DEF Full
<1>5. /\ cpu'.stages["WB"].valid = Full("MEM") /\ cpu'.stages["MEM"].valid = Full("EX")
      /\ cpu'.stages["EX"].valid = (~Stall /\ Full("ID"))
      /\ cpu'.stages["ID"].valid = (Stall \/ Fetches)
  BY <1>1, <1>2, <1>3, Zenon DEF Full, Stage
<1>6. \A s \in Stage : Full(s)' \in BOOLEAN  BY <1>2, <1>5, <1>1, Zenon DEF Full, Stage
<1> QED  BY <1>1, <1>2, <1>5, <1>6 DEF Full, Held, Stage

(* No instruction is lost, repeated or overtaken in a cycle. *)
LEMMA CycleInOrder ==
  ASSUME Shape, InOrder, Cycle
  PROVE  InOrder'
<1> DEFINE n == cpu.instruction_count
           w == Held("WB")
           m == Held("MEM")
           e == Held("EX")
           i == Held("ID")
<1>1. /\ n \in Nat /\ w \in 0 .. 1 /\ m \in 0 .. 1 /\ e \in 0 .. 1 /\ i \in 0 .. 1
      /\ cpu.pc = n + w + m + e + i
      /\ (i = 1 <=> Full("ID")) /\ (e = 1 <=> Full("EX"))
  BY InFlight DEF Stage
<1>2. /\ Full("MEM") => cpu.stages["MEM"] = Fetched(n + w)
      /\ Full("EX") => cpu.stages["EX"] = Fetched(n + w + m)
      /\ Full("ID") => cpu.stages["ID"] = Fetched(n + w + m + e)
  BY InFlight
<1>3. /\ cpu'.instruction_count = n + w
      /\ (Fetches => cpu'.pc = cpu.pc + 1) /\ (~Fetches => cpu'.pc = cpu.pc)
      /\ program' = program /\ Stall \in BOOLEAN /\ Fetches \in BOOLEAN
      /\ (Stall => Full("ID") /\ Full("EX")) /\ (Stall => ~Fetches)
  BY CycleMoves DEF Fetches
<1>4. /\ Held("WB")' = m /\ Held("MEM")' = e /\ Held("EX")' = (IF Stall THEN 0 ELSE i)
      /\ Held("ID")' = IF Stall \/ Fetches THEN 1 ELSE 0
  BY CycleFills
<1>5. /\ Older["WB"]' = 0 /\ Older["MEM"]' = m /\ Older["EX"]' = m + e
      /\ Older["ID"]' = m + e + IF Stall THEN 0 ELSE i
  BY <1>4 DEF Older
<1>6. /\ Full("WB")' => cpu'.stages["WB"] = Fetched(n + w)
      /\ Full("MEM")' => cpu'.stages["MEM"] = Fetched(n + w + m)
      /\ Full("EX")' => cpu'.stages["EX"] = Fetched(n + w + m + e)
      /\ Full("ID")' => cpu'.stages["ID"] = Fetched(n + w + m + e + IF Stall THEN 0 ELSE i)
  <2>1. /\ Full("WB")' <=> Full("MEM")
        /\ Full("MEM")' <=> Full("EX")
        /\ Full("EX")' <=> ~Stall /\ Full("ID")
        /\ Full("ID")' <=> Stall \/ Fetches
    BY CycleFills
  <2>2. /\ cpu'.stages["WB"] = cpu.stages["MEM"]
        /\ cpu'.stages["MEM"] = cpu.stages["EX"]
        /\ cpu'.stages["EX"] = IF Stall THEN Empty ELSE cpu.stages["ID"]
        /\ cpu'.stages["ID"] = IF Stall THEN cpu.stages["ID"]
                               ELSE IF Fetches THEN Fetched(cpu.pc) ELSE Empty
    BY CycleMoves
  <2>3. n + w + m + e + 0 = n + w + m + e  BY <1>1
  <2> HIDE DEF n, w, m, e, i
  <2> QED  BY <1>1, <1>2, <1>3, <2>1, <2>2, <2>3
<1>7. cpu'.pc = cpu'.instruction_count + Older["ID"]' + Held("ID")'
  <2> HIDE DEF n, w, m, e, i
  <2> QED  BY <1>1, <1>3, <1>4, <1>5
<1>8. /\ cpu'.instruction_count + Older["WB"]' = n + w
      /\ cpu'.instruction_count + Older["MEM"]' = n + w + m
      /\ cpu'.instruction_count + Older["EX"]' = n + w + m + e
      /\ cpu'.instruction_count + Older["ID"]' = n + w + m + e + IF Stall THEN 0 ELSE i
  <2> HIDE DEF n, w, m, e, i
  <2> QED  BY <1>1, <1>3, <1>5
<1>10. \A s \in Stage : cpu'.stages[s].valid =>
          cpu'.stages[s] = Fetched(cpu'.instruction_count + Older[s]')
  <2> HIDE DEF n, w, m, e, i
  <2> QED  BY <1>6, <1>8 DEF Full, Stage
<1>11. \A s \in Stage : cpu'.stages[s].valid =>
          cpu'.stages[s] = (Fetched(cpu.instruction_count + Older[s]))'
  BY <1>3, <1>10 DEF Fetched
<1> QED  BY <1>7, <1>11 DEF InOrder

(* An instruction that completes leaves its result, and no other does. *)
LEMMA CycleWrites ==
  ASSUME Shape, InOrder, Cycle
  PROVE  /\ cpu'.registers \in [Registers -> Word]
         /\ Full("WB") => /\ cpu.instruction_count + 1 \in 1 .. Len(program)
                          /\ \A r \in Registers : cpu'.registers[r] =
                                IF Writes(program, r, cpu.instruction_count + 1)
                                THEN Fields(program[cpu.instruction_count + 1]).immediate
                                ELSE cpu.registers[r]
         /\ ~Full("WB") => cpu'.registers = cpu.registers
<1> DEFINE k == cpu.instruction_count + 1
           g == Fields(program[k])
<1>1. cpu'.registers = Written(cpu.registers, cpu.stages)  BY CycleMoves
<1>2. cpu.registers \in [Registers -> Word]  BY DEF Shape
<1>3. CASE ~Full("WB")
  <2>1. cpu'.registers = cpu.registers  BY <1>1, <1>3 DEF Written, Full
  <2> QED  BY <1>2, <1>3, <2>1
<1>4. CASE Full("WB")
  <2>1. /\ cpu.stages["WB"] = Fetched(cpu.instruction_count) /\ Held("WB") = 1
        /\ cpu.instruction_count \in Nat /\ Len(program) \in Nat
        /\ cpu.pc = cpu.instruction_count + Held("WB") + Held("MEM") + Held("EX") + Held("ID")
        /\ Held("MEM") \in 0 .. 1 /\ Held("EX") \in 0 .. 1 /\ Held("ID") \in 0 .. 1
    BY <1>4, InFlight DEF Stage
  <2>2. k \in 1 .. Len(program)  BY <2>1 DEF Shape
  <2>3. program[k] \in Word  BY <2>2 DEF Shape
  <2>4. cpu.stages["WB"].f = g  BY <2>1 DEF Fetched
  <2>5. g.rd \in Registers /\ g.immediate \in Word  BY <2>3, FieldsTyped
  <2> HIDE DEF g, k
  <2>6. cpu'.registers = IF g.rd # 0 /\ g.opcode # STORE
                         THEN [cpu.registers EXCEPT ![g.rd] = g.immediate] ELSE cpu.registers
    BY <1>1, <1>4, <2>4 DEF Written, Full
  <2>7. cpu'.registers \in [Registers -> Word]  BY <1>2, <2>5, <2>6
  <2>8. \A r \in Registers : cpu'.registers[r] =
           IF g.rd = r /\ r # 0 /\ g.opcode # STORE THEN g.immediate ELSE cpu.registers[r]
    BY <1>2, <2>5, <2>6
  <2>9. \A r \in Registers : cpu'.registers[r] =
           IF Writes(program, r, k) THEN Fields(program[k]).immediate ELSE cpu.registers[r]
    BY <2>8 DEF g, Writes
  <2> QED  BY <1>4, <2>2, <2>7, <2>9 DEF k
<1> QED  BY <1>3, <1>4, InFlight DEF Stage

(* The last of the first n + 1 instructions to write a register. *)
LEMMA ValueNext ==
  ASSUME NEW p, NEW r, NEW n \in Nat, NEW k \in Nat, k = n + 1
  PROVE  ValueOf(p, WritersOf(p, r, k)) =
            IF Writes(p, r, k) THEN Fields(p[k]).immediate ELSE ValueOf(p, WritersOf(p, r, n))
<1>1. CASE ~Writes(p, r, k)
  <2>1. WritersOf(p, r, k) = WritersOf(p, r, n)  BY <1>1 DEF WritersOf
  <2> QED  BY <1>1, <2>1
<1>2. CASE Writes(p, r, k)
  <2>1. k \in WritersOf(p, r, k)  BY <1>2 DEF WritersOf
  <2>2. \A j \in WritersOf(p, r, k) : j \in Nat /\ k >= j  BY DEF WritersOf
  <2>3. \A j \in WritersOf(p, r, k) : (\A i \in WritersOf(p, r, k) : j >= i) => j = k
    BY <2>1, <2>2
  <2>4. Max(WritersOf(p, r, k)) = k  BY <2>1, <2>2, <2>3 DEF Max
  <2> QED  BY <1>2, <2>1, <2>4 DEF ValueOf
<1> QED  BY <1>1, <1>2

LEMMA CycleCompletes ==
  ASSUME Shape, InOrder, Completed, Cycle
  PROVE  Completed'
<1>1. program' = program /\ cpu'.instruction_count = cpu.instruction_count + Held("WB")
  BY CycleMoves
<1>2. SUFFICES \A r \in Registers : cpu'.registers[r] =
                  ValueOf(program, WritersOf(program, r, cpu'.instruction_count))
  BY <1>1 DEF Completed
<1>3. cpu.instruction_count \in Nat  BY DEF Shape
<1>4. CASE ~Full("WB")
  <2>1. cpu'.instruction_count = cpu.instruction_count  BY <1>1, <1>3, <1>4, InFlight DEF Stage
  <2> QED  BY <1>4, <2>1, CycleWrites DEF Completed
<1>5. CASE Full("WB")
  <2> DEFINE k == cpu.instruction_count + 1
  <2>1. cpu'.instruction_count = k /\ k \in Nat  BY <1>1, <1>3, <1>5, InFlight DEF Stage
  <2>2. \A r \in Registers : cpu'.registers[r] =
           IF Writes(program, r, k) THEN Fields(program[k]).immediate ELSE cpu.registers[r]
    BY <1>5, CycleWrites
  <2>3. k = cpu.instruction_count + 1  OBVIOUS
  <2> HIDE DEF k
  <2>4. \A r \in Registers : ValueOf(program, WritersOf(program, r, k)) =
           IF Writes(program, r, k) THEN Fields(program[k]).immediate
           ELSE ValueOf(program, WritersOf(program, r, cpu.instruction_count))
    BY <1>3, <2>1, <2>3, ValueNext
  <2> QED  BY <2>1, <2>2, <2>4 DEF Completed
<1> QED  BY <1>4, <1>5

LEMMA CycleShape ==
  ASSUME Shape, InOrder, Cycle
  PROVE  Shape'
<1>1. cpu'.stages \in [Stage -> Slot] /\ cpu'.registers \in [Registers -> Word]
  BY CycleMoves, CycleWrites
<1>2. /\ cpu'.pc \in Nat /\ cpu'.cycle_count \in Nat /\ cpu'.instruction_count \in Nat
      /\ cpu'.stall_count \in Nat /\ cpu'.running \in BOOLEAN /\ cpu'.pc <= Len(program)
  <2>1. cpu.pc \in Nat /\ cpu.cycle_count \in Nat /\ cpu.instruction_count \in Nat
        /\ cpu.stall_count \in Nat /\ Len(program) \in Nat /\ cpu.pc <= Len(program)
    BY DEF Shape
  <2>2. Held("WB") \in 0 .. 1  BY InFlight DEF Stage
  <2>3. /\ (Fetches => cpu'.pc = cpu.pc + 1) /\ (~Fetches => cpu'.pc = cpu.pc)
        /\ cpu'.cycle_count = cpu.cycle_count + 1
        /\ cpu'.instruction_count = cpu.instruction_count + Held("WB")
        /\ Stall => cpu'.stall_count = cpu.stall_count + 1
        /\ ~Stall => cpu'.stall_count = cpu.stall_count
        /\ Fetches \in BOOLEAN /\ Stall \in BOOLEAN /\ (Fetches => cpu.pc < Len(program))
        /\ cpu'.running \in BOOLEAN
    BY CycleMoves
  <2> QED  BY <2>1, <2>2, <2>3
<1>3. /\ cpu' = [stages |-> cpu'.stages, pc |-> cpu'.pc, registers |-> cpu'.registers,
                cycle_count |-> cpu'.cycle_count,
                instruction_count |-> cpu'.instruction_count,
                stall_count |-> cpu'.stall_count, running |-> cpu'.running]
      /\ program' = program /\ memory' = memory /\ phase' = phase /\ single' = single
  BY CycleMoves
<1>4. cpu' \in [stages : [Stage -> Slot], pc : Nat, registers : [Registers -> Word],
                cycle_count : Nat, instruction_count : Nat, stall_count : Nat,
                running : BOOLEAN]
  BY <1>1, <1>2, <1>3
<1>5. /\ single' \in [pc : Nat, registers : [Registers -> Word], cycle_count : Nat,
                      instruction_count : Nat, running : BOOLEAN]
      /\ phase' \in {"pipeline", "single"} /\ program' \in Seq(Word) /\ memory' \in Seq(Word)
      /\ Len(memory') = Len(program') /\ (phase' = "pipeline" => memory' = program')
  BY <1>3 DEF Shape
<1>6. cpu'.pc <= Len(program')  BY <1>2, <1>3
<1> QED  BY <1>4, <1>5, <1>6, Zenon DEF Shape

(* A cycle fetches, stalls, or empties the pipeline by one more stage. *)
LEMMA CycleDrains ==
  ASSUME Shape, InOrder, Draining, Cycle
  PROVE  Draining'
<1> DEFINE L == Len(program)
<1>1. /\ cpu.cycle_count \in Nat /\ cpu.pc \in Nat /\ cpu.stall_count \in Nat /\ L \in Nat
      /\ cpu.pc <= L /\ cpu.running
  BY DEF Shape, Cycle, Executes
<1>2. /\ (Fetches => cpu'.pc = cpu.pc + 1) /\ (~Fetches => cpu'.pc = cpu.pc)
      /\ cpu'.cycle_count = cpu.cycle_count + 1
      /\ Stall => cpu'.stall_count = cpu.stall_count + 1
      /\ ~Stall => cpu'.stall_count = cpu.stall_count
      /\ cpu'.running \in BOOLEAN /\ Stall \in BOOLEAN /\ Fetches \in BOOLEAN
      /\ (Stall => Full("ID") /\ Full("EX"))
      /\ Len(program)' = L
  BY CycleMoves
<1>3. cpu'.running <=> cpu.pc < L \/ Full("ID") \/ Full("EX") \/ Full("MEM") \/ Full("WB")
  BY CycleMoves DEF Stage
<1>4. Fetches <=> ~Stall /\ cpu.pc < L  BY DEF Fetches
<1>5. /\ Full("WB") \in BOOLEAN /\ Full("MEM") \in BOOLEAN /\ Full("EX") \in BOOLEAN
      /\ Full("ID") \in BOOLEAN
      /\ Full("WB")' \in BOOLEAN /\ Full("MEM")' \in BOOLEAN /\ Full("EX")' \in BOOLEAN
      /\ Full("ID")' \in BOOLEAN
      /\ Full("WB")' <=> Full("MEM")
      /\ Full("MEM")' <=> Full("EX")
      /\ Full("EX")' <=> ~Stall /\ Full("ID")
      /\ Full("ID")' <=> Stall \/ Fetches
  BY CycleFills DEF Stage
<1>6. /\ Drained \in 0 .. 5
      /\ cpu.cycle_count = 0 => /\ cpu.pc = 0 /\ cpu.stall_count = 0
                                /\ ~Full("ID") /\ ~Full("EX") /\ ~Full("MEM") /\ ~Full("WB")
      /\ cpu.cycle_count # 0 /\ Drained = 0 => Full("ID")
      /\ Drained >= 1 => cpu.pc = L /\ ~Full("ID")
      /\ Drained = 1 /\ L # 0 => Full("EX")
      /\ Drained >= 2 => L # 0 /\ ~Full("EX")
      /\ Drained = 2 => Full("MEM")
      /\ Drained >= 3 => ~Full("MEM")
      /\ Drained = 3 => Full("WB")
      /\ Drained >= 4 => ~Full("WB")
      /\ ~cpu.running <=> Drained = 5 \/ (Drained = 1 /\ L = 0)
  BY DEF Draining, Stage
<1>7. Drained = cpu.cycle_count - cpu.pc - cpu.stall_count  BY DEF Drained
<1>8. Drained' = cpu'.cycle_count - cpu'.pc - cpu'.stall_count  BY DEF Drained
<1> HIDE DEF L
<1>9. /\ Stall \/ Fetches => Drained' = Drained
      /\ ~Stall /\ ~Fetches => Drained' = Drained + 1
  <2> DEFINE c == cpu.cycle_count
             q == cpu.pc
             t == cpu.stall_count
             q2 == cpu'.pc
             t2 == cpu'.stall_count
  <2>1. c \in Nat /\ q \in Nat /\ t \in Nat /\ Drained = c - q - t /\ Drained' = c + 1 - q2 - t2
    <3>1. cpu'.cycle_count = cpu.cycle_count + 1  BY <1>2
    <3>2. q2 \in Nat /\ t2 \in Nat  BY CycleShape DEF Shape
    <3> QED  BY <1>1, <1>7, <1>8, <3>1, <3>2
  <2>2. CASE Stall
    <3>1. t2 = t + 1 /\ q2 = q  BY <1>2, <1>4, <2>2
    <3> HIDE DEF c, q, t, q2, t2
    <3>2. Drained' = Drained  BY <2>1, <3>1
    <3> QED  BY <2>2, <3>2
  <2>3. CASE Fetches
    <3>1. t2 = t /\ q2 = q + 1  BY <1>2, <1>4, <2>3
    <3> HIDE DEF c, q, t, q2, t2
    <3>2. Drained' = Drained  BY <2>1, <3>1
    <3> QED  BY <2>3, <3>2
  <2>4. CASE ~Stall /\ ~Fetches
    <3>1. t2 = t /\ q2 = q  BY <1>2, <2>4
    <3> HIDE DEF c, q, t, q2, t2
    <3>2. Drained' = Drained + 1  BY <2>1, <3>1
    <3> QED  BY <2>4, <3>2
  <2> QED  BY <2>2, <2>3, <2>4
<1>10. Drained \in 0 .. 4 /\ ~(Drained = 1 /\ L = 0)  BY <1>1, <1>6
<1>11. Stall \/ Fetches => Drained = 0  BY <1>1, <1>2, <1>4, <1>6, <1>10
<1>12. Drained' \in 0 .. 5 /\ cpu'.cycle_count # 0  BY <1>1, <1>2, <1>9, <1>10
<1>13. Drained' = 0 => Full("ID")'  BY <1>5, <1>9, <1>10
<1>14. Drained' >= 1 => cpu'.pc = L /\ ~Full("ID")'
  BY <1>1, <1>2, <1>4, <1>5, <1>9, <1>10, <1>11
<1>15. Drained' = 1 /\ L # 0 => Full("EX")'
  BY <1>1, <1>2, <1>4, <1>5, <1>6, <1>9, <1>10, <1>11
<1>16. Drained' >= 2 => L # 0 /\ ~Full("EX")'
  BY <1>5, <1>6, <1>9, <1>10, <1>11
<1>17. Drained' = 2 => Full("MEM")'  BY <1>5, <1>6, <1>9, <1>10, <1>11
<1>18. Drained' >= 3 => ~Full("MEM")'  BY <1>5, <1>6, <1>9, <1>10, <1>11
<1>19. Drained' = 3 => Full("WB")'  BY <1>5, <1>6, <1>9, <1>10, <1>11
<1>20. Drained' >= 4 => ~Full("WB")'  BY <1>5, <1>6, <1>9, <1>10, <1>11
<1>21. ~cpu'.running <=> Drained' = 5 \/ (Drained' = 1 /\ L = 0)
  <2>1. CASE Drained = 0 /\ L = 0
    <3>1. cpu.pc = 0 /\ ~(cpu.pc < L)  BY <1>1, <2>1
    <3>2. cpu.cycle_count = 0 \/ Full("ID")  BY <1>6, <2>1
    <3>3. Full("ID") => cpu.pc # 0
      <4>1. /\ cpu.pc = cpu.instruction_count + Held("WB") + Held("MEM") + Held("EX") + Held("ID")
            /\ cpu.instruction_count \in Nat /\ Held("WB") \in 0 .. 1 /\ Held("MEM") \in 0 .. 1
            /\ Held("EX") \in 0 .. 1 /\ Held("ID") \in 0 .. 1 /\ (Full("ID") => Held("ID") = 1)
        BY InFlight DEF Stage
      <4> QED  BY <4>1
    <3>4. ~cpu'.running /\ ~Stall /\ ~Fetches  BY <1>2, <1>3, <1>4, <1>6, <3>1, <3>2, <3>3
    <3>5. Drained' = 1  BY <1>9, <2>1, <3>4
    <3> QED  BY <2>1, <3>4, <3>5
  <2>2. CASE Drained = 0 /\ L # 0
    <3>1. cpu.cycle_count = 0 => cpu.pc < L  BY <1>1, <1>6, <2>2
    <3>2. cpu'.running  BY <1>3, <1>6, <2>2, <3>1
    <3>3. Drained' = 0 \/ Drained' = 1  BY <1>9, <2>2
    <3> QED  BY <2>2, <3>2, <3>3
  <2>3. CASE Drained \in 1 .. 3
    <3>1. cpu'.running  BY <1>3, <1>6, <1>10, <2>3
    <3>2. L # 0 /\ Drained' = Drained + 1  BY <1>6, <1>9, <1>10, <1>11, <2>3
    <3>3. Drained' # 5  BY <2>3, <3>2
    <3> QED  BY <3>1, <3>2, <3>3
  <2>4. CASE Drained = 4
    <3>1. ~(cpu.pc < L)  BY <1>1, <1>6, <2>4
    <3>2. ~cpu'.running  BY <1>3, <1>6, <2>4, <3>1
    <3>3. Drained' = 5  BY <1>9, <1>11, <2>4
    <3> QED  BY <3>2, <3>3
  <2> QED  BY <1>10, <2>1, <2>2, <2>3, <2>4
<1>22. Draining' <=>
      /\ Drained' \in 0 .. 5
      /\ cpu'.cycle_count = 0 => /\ cpu'.pc = 0 /\ cpu'.stall_count = 0
                                 /\ \A s \in Stage : ~Full(s)'
      /\ cpu'.cycle_count # 0 /\ Drained' = 0 => Full("ID")'
      /\ Drained' >= 1 => cpu'.pc = L /\ ~Full("ID")'
      /\ Drained' = 1 /\ L # 0 => Full("EX")'
      /\ Drained' >= 2 => L # 0 /\ ~Full("EX")'
      /\ Drained' = 2 => Full("MEM")'
      /\ Drained' >= 3 => ~Full("MEM")'
      /\ Drained' = 3 => Full("WB")'
      /\ Drained' >= 4 => ~Full("WB")'
      /\ ~cpu'.running <=> Drained' = 5 \/ (Drained' = 1 /\ L = 0)
  BY <1>2, Zenon DEF Draining
<1> QED  BY <1>12, <1>13, <1>14, <1>15, <1>16, <1>17, <1>18, <1>19, <1>20, <1>21, <1>22, Zenon

(* The neighbours with a hazard, of one instruction more. *)
LEMMA WaitsNext ==
  ASSUME NEW p, NEW n \in Nat, NEW k \in Nat, k = n + 1
  PROVE  /\ Cardinality(Waits(p, n)) \in Nat /\ Cardinality(Waits(p, n)) <= n
         /\ k >= 2 /\ Hazard(Fields(p[n]), Fields(p[k]))
               => Cardinality(Waits(p, k)) = Cardinality(Waits(p, n)) + 1
         /\ ~(k >= 2 /\ Hazard(Fields(p[n]), Fields(p[k]))) => Waits(p, k) = Waits(p, n)
<1>1. IsFiniteSet(1 .. n) /\ Cardinality(1 .. n) = n
  <2>1. 1 \in Int /\ n \in Int  OBVIOUS
  <2>2. IsFiniteSet(1 .. n) /\ Cardinality(1 .. n) = IF 1 > n THEN 0 ELSE n - 1 + 1
    BY <2>1, FS_Interval
  <2> QED  BY <2>2
<1>2. Waits(p, n) \subseteq 1 .. n  BY DEF Waits
<1>3. IsFiniteSet(Waits(p, n)) /\ Cardinality(Waits(p, n)) <= n
  BY <1>1, <1>2, FS_Subset
<1>4. Cardinality(Waits(p, n)) \in Nat  BY <1>3, FS_CardinalityType
<1>5. k - 1 = n  OBVIOUS
<1>6. CASE k >= 2 /\ Hazard(Fields(p[n]), Fields(p[k]))
  <2>1. Waits(p, k) = Waits(p, n) \cup {k}  BY <1>5, <1>6 DEF Waits
  <2>2. k \notin Waits(p, n)  BY DEF Waits
  <2>3. Cardinality(Waits(p, n) \cup {k}) = Cardinality(Waits(p, n)) + 1
    BY <1>3, <2>2, FS_AddElement
  <2> QED  BY <1>3, <1>4, <1>6, <2>1, <2>3, Zenon
<1>7. CASE ~(k >= 2 /\ Hazard(Fields(p[n]), Fields(p[k])))
  <2>1. Waits(p, k) = Waits(p, n)  BY <1>5, <1>7 DEF Waits
  <2> QED  BY <1>3, <1>4, <1>7, <2>1
<1> QED  BY <1>6, <1>7

(* STAGE_ID is held back for the instruction just before its own. *)
LEMMA StallMeans ==
  ASSUME Shape, InOrder
  PROVE  /\ Full("ID") => cpu.pc - 1 \in Nat
         /\ Full("ID") /\ Full("EX") => cpu.pc >= 2
         /\ Full("ID") /\ Full("EX") =>
               (Stall <=> Hazard(Fields(program[cpu.pc - 1]), Fields(program[cpu.pc])))
<1>1. /\ cpu.pc = cpu.instruction_count + Held("WB") + Held("MEM") + Held("EX") + Held("ID")
      /\ cpu.instruction_count \in Nat /\ Held("WB") \in 0 .. 1 /\ Held("MEM") \in 0 .. 1
      /\ Held("EX") \in 0 .. 1 /\ Held("ID") \in 0 .. 1 /\ (Full("ID") => Held("ID") = 1)
      /\ (Full("EX") => Held("EX") = 1)
  BY InFlight DEF Stage
<1>2. (Full("ID") => cpu.pc - 1 \in Nat) /\ (Full("ID") /\ Full("EX") => cpu.pc >= 2)  BY <1>1
<1>3. ASSUME Full("ID"), Full("EX")
      PROVE  Stall <=> Hazard(Fields(program[cpu.pc - 1]), Fields(program[cpu.pc]))
  <2>1. /\ cpu.stages["EX"] = Fetched(cpu.instruction_count + Held("WB") + Held("MEM"))
        /\ cpu.stages["ID"] = Fetched(cpu.instruction_count + Held("WB") + Held("MEM") + Held("EX"))
    BY <1>3, InFlight
  <2>2. /\ (cpu.instruction_count + Held("WB") + Held("MEM")) + 1 = cpu.pc - 1
        /\ (cpu.instruction_count + Held("WB") + Held("MEM") + Held("EX")) + 1 = cpu.pc
    BY <1>1, <1>3
  <2>3. /\ cpu.stages["EX"].f = Fields(program[cpu.pc - 1])
        /\ cpu.stages["ID"].f = Fields(program[cpu.pc])
    BY <2>1, <2>2 DEF Fetched
  <2> QED  BY <1>3, <2>3, Zenon DEF Stall, pipeline_detect_hazard, Full
<1> QED  BY <1>2, <1>3

(* An instruction is held back for one cycle at most, and for a reason. *)
LEMMA CycleStalls ==
  ASSUME Shape, InOrder, Draining, Stalls, Cycle
  PROVE  Stalls'
<1> DEFINE W(n) == Cardinality(Waits(program, n))
           q == cpu.pc
           q2 == cpu'.pc
<1>1. /\ cpu.cycle_count \in Nat /\ q \in Nat /\ cpu.stall_count \in Nat
      /\ Len(program) \in Nat /\ q <= Len(program)
  BY DEF Shape
<1>2. /\ (Fetches => q2 = q + 1) /\ (~Fetches => q2 = q)
      /\ Stall => cpu'.stall_count = cpu.stall_count + 1
      /\ ~Stall => cpu'.stall_count = cpu.stall_count
      /\ Fetches => q < Len(program)
      /\ Stall => Full("ID") /\ Full("EX")
      /\ program' = program /\ Stall \in BOOLEAN /\ Fetches \in BOOLEAN
  BY CycleMoves
<1>3. /\ Full("EX")' <=> ~Stall /\ Full("ID")
      /\ Full("ID")' <=> Stall \/ Fetches
      /\ Held("ID")' = IF Stall \/ Fetches THEN 1 ELSE 0
  BY CycleFills
<1>4. Again' <=> Full("ID")' /\ ~Full("EX")' /\ q2 >= 2  BY DEF Again
<1>5. Stalls' <=>
        /\ Again' => cpu'.stall_count = W(q2 - Held("ID")') + 1
        /\ ~Again' => cpu'.stall_count = W(q2 - Held("ID")')
        /\ Again' => Hazard(Fields(program[q2 - 1]), Fields(program[q2]))
  BY <1>2 DEF Stalls
<1>6. /\ Again => cpu.stall_count = W(q - Held("ID")) + 1
      /\ ~Again => cpu.stall_count = W(q - Held("ID"))
      /\ Again => Hazard(Fields(program[q - 1]), Fields(program[q]))
      /\ Again <=> Full("ID") /\ ~Full("EX") /\ q >= 2
  BY DEF Stalls, Again
<1>7. (Full("ID") => Held("ID") = 1) /\ (~Full("ID") => Held("ID") = 0) /\ Full("ID") \in BOOLEAN
      /\ Full("EX") \in BOOLEAN
  BY InFlight DEF Stage
<1>8. CASE Stall
  <2>1. q2 = q /\ Held("ID")' = 1 /\ Held("ID") = 1 /\ ~Again /\ q >= 2
    BY <1>2, <1>3, <1>6, <1>7, <1>8, StallMeans DEF Fetches
  <2>2. Again'  BY <1>3, <1>4, <1>8, <2>1
  <2>3. cpu'.stall_count = W(q2 - Held("ID")') + 1  BY <1>2, <1>6, <1>8, <2>1
  <2>4. Hazard(Fields(program[q2 - 1]), Fields(program[q2]))  BY <1>2, <1>8, <2>1, StallMeans
  <2> HIDE DEF W, q2
  <2> QED  BY <1>5, <2>2, <2>3, <2>4
<1>9. CASE ~Stall /\ ~Full("ID")
  <2>1. q2 - Held("ID")' = q /\ q - Held("ID") = q  BY <1>1, <1>2, <1>3, <1>7, <1>9
  <2>2. Fetches => q = 0
    <3> SUFFICES ASSUME Fetches  PROVE q = 0  OBVIOUS
    <3>1. q < Len(program)  BY <1>2
    <3>2. ~(Drained >= 1) /\ Drained \in 0 .. 5  BY <1>1, <3>1 DEF Draining
    <3>3. Drained = 0  BY <3>2
    <3>4. cpu.cycle_count = 0  BY <1>9, <3>3 DEF Draining
    <3> QED  BY <3>4 DEF Draining
  <2>3. ~Again'  BY <1>1, <1>2, <1>3, <1>4, <1>9, <2>2
  <2>4. cpu'.stall_count = W(q2 - Held("ID")')  BY <1>2, <1>6, <1>9, <2>1
  <2> HIDE DEF W, q2
  <2> QED  BY <1>5, <2>3, <2>4
<1>10. CASE ~Stall /\ Full("ID")
  <2> DEFINE j == q - 1
  <2>1. q2 - Held("ID")' = q /\ q - Held("ID") = j /\ j \in Nat /\ q = j + 1
    BY <1>1, <1>2, <1>3, <1>7, <1>10, StallMeans
  <2>2. ~Again'  BY <1>3, <1>4, <1>10
  <2>3. /\ W(j) \in Nat
        /\ q >= 2 /\ Hazard(Fields(program[j]), Fields(program[q])) => W(q) = W(j) + 1
        /\ ~(q >= 2 /\ Hazard(Fields(program[j]), Fields(program[q]))) => W(q) = W(j)
    <3> HIDE DEF j, q
    <3> QED  BY <1>1, <2>1, WaitsNext
  <2>4. Again <=> q >= 2 /\ Hazard(Fields(program[j]), Fields(program[q]))
    BY <1>6, <1>7, <1>10, StallMeans
  <2>5. cpu'.stall_count = W(q)
    <3> HIDE DEF W, j, q
    <3> QED  BY <1>2, <1>6, <1>10, <2>1, <2>3, <2>4
  <2>6. cpu'.stall_count = W(q2 - Held("ID")')  BY <2>1, <2>5
  <2> HIDE DEF W, q2
  <2> QED  BY <1>5, <2>2, <2>6
<1> QED  BY <1>2, <1>7, <1>8, <1>9, <1>10

(* The first instruction is never held back. *)
LEMMA CycleFirst ==
  ASSUME Shape, InOrder, Draining, FirstOne, Cycle
  PROVE  FirstOne'
<1>1. /\ cpu'.instruction_count = cpu.instruction_count + Held("WB")
      /\ cpu'.cycle_count = cpu.cycle_count + 1 /\ Len(program)' = Len(program)
      /\ Stall => Full("ID") /\ Full("EX")
      /\ Stall \in BOOLEAN /\ Fetches \in BOOLEAN
  BY CycleMoves
<1>2. /\ Full("WB")' <=> Full("MEM")
      /\ Full("MEM")' <=> Full("EX")
      /\ Full("EX")' <=> ~Stall /\ Full("ID")
      /\ Full("ID")' <=> Stall \/ Fetches
  BY CycleFills
<1>3. /\ Held("WB") \in 0 .. 1 /\ (Full("WB") => Held("WB") = 1) /\ cpu.instruction_count \in Nat
      /\ Full("WB") \in BOOLEAN /\ Full("MEM") \in BOOLEAN /\ Full("EX") \in BOOLEAN
      /\ Full("ID") \in BOOLEAN /\ Len(program) \in Nat
  BY InFlight DEF Stage
<1>4. SUFFICES ASSUME cpu'.instruction_count = 0, Len(program) # 0
      PROVE  \/ cpu'.cycle_count = 1 /\ Full("ID")' /\ ~Full("EX")' /\ ~Full("MEM")' /\ ~Full("WB")'
             \/ cpu'.cycle_count = 2 /\ Full("EX")' /\ ~Full("MEM")' /\ ~Full("WB")'
             \/ cpu'.cycle_count = 3 /\ Full("MEM")' /\ ~Full("WB")'
             \/ cpu'.cycle_count = 4 /\ Full("WB")'
  BY <1>1, Zenon DEF FirstOne
<1>5. cpu.instruction_count = 0 /\ ~Full("WB")  BY <1>1, <1>3, <1>4
<1>6. CASE cpu.cycle_count = 0
  <2>1. cpu.pc = 0 /\ ~Full("ID") /\ ~Full("EX") /\ ~Full("MEM")  BY <1>6 DEF Draining, Stage
  <2>2. Fetches /\ ~Stall  BY <1>1, <1>3, <1>4, <2>1 DEF Fetches
  <2>3. cpu'.cycle_count = 1  BY <1>1, <1>6
  <2> QED  BY <1>2, <2>1, <2>2, <2>3, Zenon
<1>7. CASE cpu.cycle_count = 1 /\ Full("ID") /\ ~Full("EX") /\ ~Full("MEM") /\ ~Full("WB")
  <2>1. cpu'.cycle_count = 2  BY <1>1, <1>7
  <2> QED  BY <1>1, <1>2, <1>7, <2>1, Zenon
<1>8. CASE cpu.cycle_count = 2 /\ Full("EX") /\ ~Full("MEM") /\ ~Full("WB")
  <2>1. cpu'.cycle_count = 3  BY <1>1, <1>8
  <2> QED  BY <1>2, <1>8, <2>1, Zenon
<1>9. CASE cpu.cycle_count = 3 /\ Full("MEM") /\ ~Full("WB")
  <2>1. cpu'.cycle_count = 4  BY <1>1, <1>9
  <2> QED  BY <1>2, <1>9, <2>1, Zenon
<1>10. CASE cpu.cycle_count = 4 /\ Full("WB")  BY <1>5, <1>10
<1> QED  BY <1>4, <1>5, <1>6, <1>7, <1>8, <1>9, <1>10, Zenon DEF FirstOne

LEMMA CycleInv ==
  ASSUME IInv, Cycle
  PROVE  IInv'
<1>1. Shape /\ InOrder /\ Draining /\ Stalls /\ FirstOne /\ Completed /\ SingleSteps  BY DEF IInv
<1>2. Shape' /\ InOrder' /\ Draining' /\ Stalls' /\ FirstOne' /\ Completed'
  BY <1>1, CycleShape, CycleInOrder, CycleDrains, CycleStalls, CycleFirst, CycleCompletes
<1>3. program' = program /\ single' = single /\ phase' = "pipeline"
      /\ cpu'.instruction_count = cpu.instruction_count + Held("WB")
  BY <1>1, CycleMoves DEF Cycle
<1>4. SingleSteps'  BY <1>1, <1>3 DEF SingleSteps
<1>5. cpu'.instruction_count <= NUM_INSTRUCTIONS
  <2>1. cpu.instruction_count < NUM_INSTRUCTIONS  BY DEF Cycle, Executes
  <2>2. cpu.instruction_count \in Nat /\ Held("WB") \in 0 .. 1  BY <1>1, InFlight DEF Stage
  <2> QED  BY <1>3, <2>1, <2>2, CpuAssumption
<1> QED  BY <1>2, <1>3, <1>4, <1>5 DEF IInv

(* The break "to prevent infinite loop" of pipeline_execute stays away: an *)
(* instruction costs two cycles at most.                                   *)
LEMMA NeverBreaks ==
  ASSUME IInv, cpu.running, cpu.instruction_count < NUM_INSTRUCTIONS
  PROVE  ~SafetyBreak
<1>1. Shape /\ InOrder /\ Draining /\ Stalls /\ FirstOne  BY DEF IInv
<1> DEFINE n == cpu.instruction_count
           c == cpu.cycle_count
           m == cpu.pc - Held("ID")
           N == NUM_INSTRUCTIONS
           k == m + 1
<1>2. /\ n \in Nat /\ c \in Nat /\ cpu.pc \in Nat /\ cpu.stall_count \in Nat /\ N \in Nat \ {0}
      /\ Len(program) \in Nat /\ n < N
  BY <1>1, CpuAssumption DEF Shape
<1>3. /\ cpu.pc = n + Held("WB") + Held("MEM") + Held("EX") + Held("ID")
      /\ Held("WB") \in 0 .. 1 /\ Held("MEM") \in 0 .. 1
      /\ Held("EX") \in 0 .. 1 /\ Held("ID") \in 0 .. 1 /\ (Full("ID") => Held("ID") = 1)
  BY <1>1, InFlight DEF Stage
<1>4. m \in Nat /\ k \in Nat /\ k = m + 1  BY <1>2, <1>3
<1>5. /\ Cardinality(Waits(program, m)) \in Nat /\ Cardinality(Waits(program, m)) <= m
  <2> HIDE DEF m, k
  <2> QED  BY <1>4, WaitsNext
<1>6. cpu.stall_count <= m + 1
  <2>1. \/ cpu.stall_count = Cardinality(Waits(program, m)) + 1
        \/ cpu.stall_count = Cardinality(Waits(program, m))
    BY <1>1, Zenon DEF Stalls
  <2> HIDE DEF m
  <2> QED  BY <1>2, <1>4, <1>5, <2>1
<1>7. c - cpu.pc - cpu.stall_count \in 0 .. 5  BY <1>1 DEF Draining, Drained
<1>8. c <= 2 * n + 14
  <2>1. cpu.pc <= n + 4 /\ m <= n + 3  BY <1>2, <1>3
  <2> HIDE DEF n, c, m
  <2> QED  BY <1>2, <1>4, <1>6, <1>7, <2>1
<1>9. CASE n # 0
  <2>1. N >= 2  BY <1>2, <1>9
  <2>2. c <= 10 * N  BY <1>2, <1>8, <2>1
  <2> QED  BY <1>2, <2>2 DEF SafetyBreak
<1>10. CASE n = 0 /\ Len(program) # 0
  <2>1. c = 0 \/ c = 1 \/ c = 2 \/ c = 3 \/ c = 4  BY <1>1, <1>10 DEF FirstOne
  <2>2. c <= 10 * N  BY <1>2, <2>1
  <2> QED  BY <1>2, <2>2 DEF SafetyBreak
<1>11. CASE n = 0 /\ Len(program) = 0
  <2>1. cpu.pc = 0  BY <1>1, <1>2, <1>11 DEF Shape
  <2>2. ~Full("ID")  BY <1>2, <1>3, <2>1
  <2>3. Drained \in 0 .. 5 /\ Drained # 1 /\ ~(Drained >= 2)  BY <1>1, <1>11 DEF Draining
  <2>4. Drained = 0  BY <2>3
  <2>5. c = 0  BY <1>1, <2>2, <2>4 DEF Draining
  <2> QED  BY <1>2, <2>5 DEF SafetyBreak
<1> QED  BY <1>9, <1>10, <1>11

-----------------------------------------------------------------------------
(* The single-cycle machine. *)

(* What execute, write back and store leave, in their types. *)
LEMMA InstructionTyped ==
  ASSUME Shape, SingleSteps, phase = "single", single.instruction_count < NUM_INSTRUCTIONS,
         single.pc < mem_size, NEW w \in Word, Instruction(Fields(w))
  PROVE  /\ single' \in [pc : Nat, registers : [Registers -> Word], cycle_count : Nat,
                         instruction_count : Nat, running : BOOLEAN]
         /\ single'.pc = single.pc + 1 /\ single'.instruction_count = single.instruction_count + 1
         /\ single'.running
         /\ memory' \in Seq(Word) /\ Len(memory') = Len(memory)
<1> DEFINE f == Fields(w)
           at == Plus(single.registers[f.rs1], f.immediate) \div 4
<1>1. /\ f.rd \in Registers /\ f.rs1 \in Registers /\ f.rs2 \in Registers
      /\ f.immediate \in Word /\ f.opcode \in Nat
  BY FieldsTyped
<1>2. /\ single.registers \in [Registers -> Word] /\ single.pc \in Nat
      /\ single.cycle_count \in Nat /\ single.instruction_count \in Nat
      /\ memory \in Seq(Word) /\ Len(memory) \in Nat
  BY DEF Shape
<1>3. Instruction(f)  OBVIOUS
<1>4. single.registers[f.rs1] \in Word /\ single.registers[f.rs2] \in Word  BY <1>1, <1>2
<1> HIDE DEF f
<1>5. at \in Nat  BY <1>1, <1>4, PlusTyped
<1>6. at < Len(memory) => at + 1 \in 1 .. Len(memory)  BY <1>2, <1>5
<1>7. Result(f) \in Word
  <2>1. Result(f) = CASE f.opcode = ADD -> Plus(single.registers[f.rs1], single.registers[f.rs2])
          [] f.opcode = ADDI -> Plus(single.registers[f.rs1], f.immediate)
          [] f.opcode = LOAD /\ at < mem_size -> memory[at + 1]
          [] OTHER -> 0
    BY DEF Result
  <2>2. Plus(single.registers[f.rs1], single.registers[f.rs2]) \in Word
        /\ Plus(single.registers[f.rs1], f.immediate) \in Word
    BY <1>1, <1>4, PlusTyped
  <2>3. at < mem_size => memory[at + 1] \in Word  BY <1>2, <1>6 DEF mem_size
  <2> HIDE DEF at
  <2> QED  BY <2>1, <2>2, <2>3, WordTyped DEF ADD, ADDI, LOAD
<1>8. Stored(f) \in Seq(Word) /\ Len(Stored(f)) = Len(memory)
  <2>1. Stored(f) = IF f.opcode = STORE /\ at < mem_size
                    THEN [memory EXCEPT ![at + 1] = single.registers[f.rs2]] ELSE memory
    BY DEF Stored
  <2> DEFINE v == single.registers[f.rs2]
             a == at + 1
  <2>2. v \in Word /\ (at < mem_size => a \in 1 .. Len(memory))  BY <1>4, <1>6 DEF mem_size
  <2> HIDE DEF at, v
  <2>3. CASE f.opcode = STORE /\ at < mem_size
    <3>1. a \in 1 .. Len(memory)  BY <2>2, <2>3
    <3> HIDE DEF a
    <3>2. [memory EXCEPT ![a] = v] \in Seq(Word) /\ Len([memory EXCEPT ![a] = v]) = Len(memory)
      BY <1>2, <2>2, <3>1
    <3> QED  BY <2>1, <2>3, <3>2 DEF a, v
  <2>4. CASE ~(f.opcode = STORE /\ at < mem_size)  BY <1>2, <2>1, <2>4
  <2> QED  BY <2>3, <2>4
<1> DEFINE g == IF f.rd # 0 /\ f.opcode # STORE
                THEN [single.registers EXCEPT ![f.rd] = Result(f)] ELSE single.registers
<1>9. g \in [Registers -> Word]  BY <1>1, <1>2, <1>7
<1>10. /\ single' = [pc |-> single.pc + 1, running |-> TRUE, registers |-> g,
                     cycle_count |-> single.cycle_count + 1,
                     instruction_count |-> single.instruction_count + 1]
       /\ memory' = Stored(f)
  BY <1>3, Zenon DEF Instruction
<1> HIDE DEF g
<1> QED  BY <1>2, <1>8, <1>9, <1>10

(* A state in which the pipeline and the program are as before. *)
LEMMA PipelineFrozen ==
  ASSUME InOrder, Draining, Stalls, FirstOne, Completed, cpu' = cpu, program' = program
  PROVE  InOrder' /\ Draining' /\ Stalls' /\ FirstOne' /\ Completed'
<1>1. InOrder'  BY Zenon DEF InOrder, Older, Held, Fetched
<1>2. Draining'  BY Zenon DEF Draining, Drained, Full
<1>3. Stalls'  BY Zenon DEF Stalls, Again, Full, Held
<1>4. FirstOne'  BY Zenon DEF FirstOne, Full
<1>5. Completed'  BY Zenon DEF Completed
<1> QED  BY <1>1, <1>2, <1>3, <1>4, <1>5

LEMMA SingleInv ==
  ASSUME IInv, single_cycle_execute
  PROVE  IInv'
<1>1. Shape /\ InOrder /\ Draining /\ Stalls /\ FirstOne /\ Completed /\ SingleSteps  BY DEF IInv
<1>2. /\ cpu' = cpu /\ phase' = phase /\ program' = program /\ phase = "single"
      /\ single.running /\ single.instruction_count < NUM_INSTRUCTIONS
      /\ single_cycle_execute_one
  BY DEF single_cycle_execute
<1>3. /\ single.pc \in Nat /\ Len(program) \in Nat /\ mem_size = Len(program)
      /\ NUM_INSTRUCTIONS \in Nat /\ single.instruction_count = single.pc
      /\ single.pc <= Len(program)
  BY <1>1, CpuAssumption DEF Shape, SingleSteps, mem_size
<1>4. /\ single' \in [pc : Nat, registers : [Registers -> Word], cycle_count : Nat,
                      instruction_count : Nat, running : BOOLEAN]
      /\ memory' \in Seq(Word) /\ Len(memory') = Len(memory)
      /\ SingleSteps'
  <2>1. CASE single.pc >= mem_size
    <3>1. single' = [single EXCEPT !.running = FALSE] /\ memory' = memory
      BY <1>2, <2>1 DEF single_cycle_execute_one
    <3>2. single \in [pc : Nat, registers : [Registers -> Word], cycle_count : Nat,
                      instruction_count : Nat, running : BOOLEAN]
      BY <1>1 DEF Shape
    <3>3. /\ single' \in [pc : Nat, registers : [Registers -> Word], cycle_count : Nat,
                          instruction_count : Nat, running : BOOLEAN]
          /\ single'.pc = single.pc /\ single'.instruction_count = single.instruction_count
      BY <3>1, <3>2, Zenon
    <3>4. SingleSteps'  BY <1>1, <1>2, <1>3, <2>1, <3>3 DEF SingleSteps
    <3> QED  BY <1>1, <3>1, <3>3, <3>4, Zenon DEF Shape
  <2>2. CASE ~(single.pc >= mem_size)
    <3> DEFINE w == memory[single.pc + 1]
    <3>1. single.pc < mem_size /\ single.pc + 1 \in 1 .. Len(memory)
      BY <1>1, <1>3, <2>2 DEF Shape, mem_size
    <3>2. w \in Word  BY <1>1, <3>1 DEF Shape
    <3>3. Instruction(Fields(w))  BY <1>2, <2>2 DEF single_cycle_execute_one
    <3> HIDE DEF w
    <3>4. /\ single' \in [pc : Nat, registers : [Registers -> Word], cycle_count : Nat,
                          instruction_count : Nat, running : BOOLEAN]
          /\ single'.pc = single.pc + 1
          /\ single'.instruction_count = single.instruction_count + 1
          /\ single'.running
          /\ memory' \in Seq(Word) /\ Len(memory') = Len(memory)
      BY <1>1, <1>2, <3>1, <3>2, <3>3, InstructionTyped
    <3>5. SingleSteps'  BY <1>2, <1>3, <3>1, <3>4 DEF SingleSteps
    <3> QED  BY <3>4, <3>5
  <2> QED  BY <2>1, <2>2
<1>5. Shape'  BY <1>1, <1>2, <1>4 DEF Shape
<1> QED  BY <1>1, <1>2, <1>4, <1>5, PipelineFrozen DEF IInv

(* The pipeline is left only when it is done. *)
LEMMA SwitchInv ==
  ASSUME IInv, benchmark_single_cycle
  PROVE  IInv'
<1>1. Shape /\ InOrder /\ Draining /\ Stalls /\ FirstOne /\ Completed /\ SingleSteps  BY DEF IInv
<1>2. /\ cpu' = cpu /\ single' = single /\ memory' = memory /\ program' = program
      /\ phase' = "single" /\ ~Executes
  BY DEF benchmark_single_cycle
<1>3. Shape'  BY <1>1, <1>2 DEF Shape
<1>4. SingleSteps'  BY <1>1, <1>2 DEF SingleSteps
<1>5. cpu.instruction_count \in Nat /\ cpu.instruction_count <= NUM_INSTRUCTIONS
      /\ NUM_INSTRUCTIONS \in Nat
  BY <1>1, CpuAssumption DEF Shape, IInv
<1>6. cpu.running => cpu.instruction_count = NUM_INSTRUCTIONS
  <2> SUFFICES ASSUME cpu.running, cpu.instruction_count # NUM_INSTRUCTIONS  PROVE FALSE
    OBVIOUS
  <2>1. cpu.instruction_count < NUM_INSTRUCTIONS  BY <1>5
  <2> QED  BY <1>2, <2>1, NeverBreaks DEF Executes
<1>7. cpu'.instruction_count = NUM_INSTRUCTIONS \/ ~cpu'.running  BY <1>2, <1>6
<1> QED  BY <1>1, <1>2, <1>3, <1>4, <1>5, <1>7, PipelineFrozen DEF IInv

-----------------------------------------------------------------------------
(* The theorems. *)

LEMMA InitInv ==
  ASSUME Init
  PROVE  IInv
<1>1. /\ program \in Seq(Word) /\ memory = program /\ cpu = pipeline_init
      /\ single = single_cycle_init /\ phase = "pipeline" /\ Len(program) \in Nat
  BY CpuAssumption DEF Init
<1>2. /\ cpu.stages = [s \in Stage |-> Empty] /\ cpu.pc = 0
      /\ cpu.registers = [r \in Registers |-> 0] /\ cpu.cycle_count = 0
      /\ cpu.instruction_count = 0 /\ cpu.stall_count = 0 /\ cpu.running = TRUE
  BY <1>1 DEF pipeline_init
<1>3. \A s \in Stage : ~Full(s) /\ Held(s) = 0  BY <1>2 DEF Full, Held, Empty
<1>4. Shape
  <2>1. Empty \in Slot  BY DEF Slot
  <2>2. [s \in Stage |-> Empty] \in [Stage -> Slot]  BY <2>1
  <2>3. [r \in Registers |-> 0] \in [Registers -> Word]  BY WordTyped
  <2>4. cpu \in [stages : [Stage -> Slot], pc : Nat, registers : [Registers -> Word],
                cycle_count : Nat, instruction_count : Nat, stall_count : Nat,
                running : BOOLEAN]
    BY <1>1, <2>2, <2>3 DEF pipeline_init
  <2>5. single \in [pc : Nat, registers : [Registers -> Word], cycle_count : Nat,
                   instruction_count : Nat, running : BOOLEAN]
    BY <1>1, <2>3 DEF single_cycle_init
  <2> QED  BY <1>1, <1>2, <2>4, <2>5 DEF Shape
<1>5. InOrder
  <2>1. Older["ID"] = 0  BY <1>3 DEF Older, Stage
  <2> QED  BY <1>2, <1>3, <2>1 DEF InOrder, Full, Stage
<1>6. Draining
  <2>1. Drained = 0  BY <1>2 DEF Drained
  <2> QED  BY <1>2, <1>3, <2>1 DEF Draining
<1>7. Stalls
  <2>1. ~Again  BY <1>2 DEF Again
  <2>2. cpu.pc - Held("ID") = 0  BY <1>2, <1>3 DEF Stage
  <2>3. Waits(program, 0) = {}  BY DEF Waits
  <2>4. Cardinality(Waits(program, cpu.pc - Held("ID"))) = 0  BY <2>2, <2>3, FS_EmptySet
  <2> QED  BY <1>2, <2>1, <2>4 DEF Stalls
<1>8. FirstOne  BY <1>2 DEF FirstOne
<1>9. Completed
  <2>1. \A r : WritersOf(program, r, 0) = {}  BY DEF WritersOf
  <2> QED  BY <1>2, <2>1 DEF Completed, ValueOf
<1>10. SingleSteps  BY <1>1, CpuAssumption DEF SingleSteps, single_cycle_init
<1> QED  BY <1>1, <1>2, <1>4, <1>5, <1>6, <1>7, <1>8, <1>9, <1>10, CpuAssumption DEF IInv

LEMMA StepInv ==
  ASSUME IInv, [Next]_vars
  PROVE  IInv'
<1>1. CASE pipeline_execute  BY <1>1, CycleInv DEF pipeline_execute, Cycle
<1>2. CASE benchmark_single_cycle  BY <1>2, SwitchInv
<1>3. CASE single_cycle_execute  BY <1>3, SingleInv
<1>4. CASE UNCHANGED vars
  <2>1. /\ cpu' = cpu /\ single' = single /\ memory' = memory /\ program' = program
        /\ phase' = phase
    BY <1>4 DEF vars
  <2>2. InOrder' /\ Draining' /\ Stalls' /\ FirstOne' /\ Completed'
    BY <2>1, PipelineFrozen DEF IInv
  <2>3. Shape' /\ SingleSteps'  BY <2>1 DEF IInv, Shape, SingleSteps
  <2> QED  BY <2>1, <2>2, <2>3 DEF IInv
<1> QED  BY <1>1, <1>2, <1>3, <1>4 DEF Next

(* What a stopped pipeline has behind it: every instruction. *)
LEMMA StoppedMeans ==
  ASSUME IInv, ~cpu.running
  PROVE  /\ cpu.instruction_count = Len(program) /\ cpu.pc = Len(program)
         /\ Held("ID") = 0
         /\ Len(program) = 0 => Drained = 1
         /\ Len(program) # 0 => Drained = 5
<1>1. Shape /\ InOrder /\ Draining  BY DEF IInv
<1>2. /\ cpu.pc = cpu.instruction_count + Held("WB") + Held("MEM") + Held("EX") + Held("ID")
      /\ \A s \in Stage : Held(s) \in 0 .. 1 /\ (Held(s) = 1 <=> Full(s))
      /\ cpu.instruction_count \in Nat /\ cpu.pc \in Nat /\ Len(program) \in Nat
  BY <1>1, InFlight
<1>3. CASE Drained = 5
  <2>1. ~Full("ID") /\ ~Full("EX") /\ ~Full("MEM") /\ ~Full("WB") /\ cpu.pc = Len(program)
        /\ Len(program) # 0
    BY <1>1, <1>3 DEF Draining
  <2>2. Held("WB") = 0 /\ Held("MEM") = 0 /\ Held("EX") = 0 /\ Held("ID") = 0
    BY <1>2, <2>1 DEF Stage
  <2> QED  BY <1>2, <1>3, <2>1, <2>2
<1>4. CASE Drained = 1 /\ Len(program) = 0
  <2>1. cpu.pc = Len(program)  BY <1>1, <1>4 DEF Draining
  <2>2. Held("WB") \in 0 .. 1 /\ Held("MEM") \in 0 .. 1 /\ Held("EX") \in 0 .. 1
        /\ Held("ID") \in 0 .. 1
    BY <1>2 DEF Stage
  <2> QED  BY <1>2, <1>4, <2>1, <2>2
<1> QED  BY <1>1, <1>3, <1>4 DEF Draining

(* A hazard is a true dependency or a false alarm, and never both. *)
LEMMA HazardParts ==
  ASSUME NEW f, NEW g
  PROVE  /\ Hazard(f, g) <=> TrueDependency(f, g) \/ FalseAlarm(f, g)
         /\ ~(TrueDependency(f, g) /\ FalseAlarm(f, g))
<1>1. Reads(g) \subseteq {g.rs1, g.rs2}
  BY DEF Reads, ADD, ADDI, LOAD, STORE
<1> QED  BY <1>1 DEF Hazard, TrueDependency, FalseAlarm

(* So the neighbours with a hazard are counted by the two sets. *)
LEMMA HazardsCounted ==
  ASSUME mem_size \in Nat
  PROVE  Cardinality(Waits(program, mem_size)) =
            Cardinality(Dependent) + Cardinality(Mistaken)
<1>1. Dependent \subseteq 2 .. mem_size /\ Mistaken \subseteq 2 .. mem_size
  BY DEF Dependent, Mistaken
<1>2. IsFiniteSet(2 .. mem_size)
  BY FS_Interval
<1>3. IsFiniteSet(Dependent) /\ IsFiniteSet(Mistaken)
  <2>1. Dependent \in SUBSET (2 .. mem_size) /\ Mistaken \in SUBSET (2 .. mem_size)
    BY <1>1
  <2> QED  BY <1>2, <2>1, FS_Subset, Zenon
<1>4. Waits(program, mem_size) = Dependent \cup Mistaken
  BY HazardParts DEF Waits, Dependent, Mistaken
<1>5. Dependent \cap Mistaken = {}
  BY HazardParts DEF Dependent, Mistaken
<1>6. /\ Cardinality(Dependent \cup Mistaken) =
            Cardinality(Dependent) + Cardinality(Mistaken) - Cardinality({})
      /\ Cardinality({}) = 0
      /\ Cardinality(Dependent) \in Nat /\ Cardinality(Mistaken) \in Nat
  BY <1>3, <1>5, FS_Union, FS_EmptySet, FS_CardinalityType
<1> HIDE DEF Dependent, Mistaken
<1> QED  BY <1>4, <1>6

(* What the invariant says of the counters and the registers. *)
LEMMA InvMeans ==
  ASSUME IInv
  PROVE  TypeOK /\ RegistersAsCompleted /\ CyclesAccounted /\ SameWork
<1> DEFINE L == Len(program)
           n == cpu.instruction_count
           N == NUM_INSTRUCTIONS
<1>1. Shape /\ InOrder /\ Draining /\ Stalls /\ Completed /\ SingleSteps  BY DEF IInv
<1>2. /\ mem_size = L /\ L \in Nat /\ n \in Nat /\ cpu.pc \in Nat /\ cpu.pc <= L
      /\ cpu.cycle_count \in Nat /\ cpu.stall_count \in Nat /\ N \in Nat /\ n <= N
      /\ single.pc \in Nat /\ single.pc <= L /\ single.pc <= N
      /\ single.instruction_count = single.pc
  BY <1>1, CpuAssumption DEF Shape, mem_size, SingleSteps, IInv
<1>3. n <= L
  <2>1. /\ cpu.pc = n + Held("WB") + Held("MEM") + Held("EX") + Held("ID")
        /\ Held("WB") \in 0 .. 1 /\ Held("MEM") \in 0 .. 1 /\ Held("EX") \in 0 .. 1
        /\ Held("ID") \in 0 .. 1
    BY <1>1, InFlight DEF Stage
  <2> QED  BY <1>2, <2>1
<1>4. TypeOK  BY <1>1, <1>2 DEF TypeOK, Shape
<1>5. RegistersAsCompleted
  <2>1. \A r : Writers(r, n) = WritersOf(program, r, n)
    BY Zenon DEF Writers, WritersOf, Writes
  <2> QED  BY <1>1, <2>1 DEF RegistersAsCompleted, Completed, ValueOf
<1>6. CyclesAccounted
  <2>1. SUFFICES ASSUME ~cpu.running
        PROVE  /\ n = L
               /\ cpu.stall_count = Cardinality(Dependent) + Cardinality(Mistaken)
               /\ cpu.cycle_count = L + cpu.stall_count + IF L = 0 THEN 1 ELSE 5
    BY <1>2 DEF CyclesAccounted
  <2>2. /\ n = L /\ cpu.pc = L /\ Held("ID") = 0 /\ (L = 0 => Drained = 1)
        /\ (L # 0 => Drained = 5)
    BY <2>1, StoppedMeans
  <2>3. cpu.pc - Held("ID") = L /\ ~Again  BY <1>1, <1>2, <2>2, InFlight DEF Again, Stage
  <2>4. Cardinality(Waits(program, L)) = Cardinality(Dependent) + Cardinality(Mistaken)
    BY <1>2, HazardsCounted
  <2>5. cpu.stall_count = Cardinality(Dependent) + Cardinality(Mistaken)
    BY <1>1, <2>3, <2>4 DEF Stalls
  <2>6. Drained = cpu.cycle_count - L - cpu.stall_count  BY <2>2 DEF Drained
  <2> HIDE DEF L, n
  <2>7. cpu.cycle_count = L + cpu.stall_count + IF L = 0 THEN 1 ELSE 5
    BY <1>2, <2>2, <2>6
  <2> QED  BY <2>2, <2>5, <2>7
<1>7. SameWork
  <2>1. SUFFICES ASSUME phase = "single"
        PROVE  /\ n = Min({N, L})
               /\ ~ (single.running /\ single.instruction_count < N) =>
                      single.instruction_count = n
    BY <1>2 DEF SameWork
  <2>2. n = N \/ n = L  BY <2>1, StoppedMeans DEF IInv
  <2> HIDE DEF n, N, L
  <2>3. \A x \in {N, L} : (\A y \in {N, L} : x <= y) => x = n  BY <1>2, <1>3, <2>2
  <2>4. n \in {N, L} /\ \A y \in {N, L} : n <= y  BY <1>2, <1>3, <2>2
  <2>5. Min({N, L}) = n  BY <2>3, <2>4 DEF Min
  <2>6. ~single.running => single.pc = L  BY <1>1 DEF SingleSteps, L
  <2>7. ~(single.running /\ single.instruction_count < N) => single.instruction_count = n
    BY <1>2, <1>3, <2>2, <2>6
  <2> QED  BY <2>5, <2>7
<1> QED  BY <1>4, <1>5, <1>6, <1>7

(* The inductive invariant: the stages hold the instructions fetched and   *)
(* not completed, the counters tell how far the pipeline has filled or     *)
(* emptied, and every stall has its hazard.                                *)
THEOREM CpuInvariance == Spec => []IInv
<1>1. Init => IInv  BY InitInv
<1>2. IInv /\ [Next]_vars => IInv'  BY StepInv
<1> QED  BY <1>1, <1>2, PTL DEF Spec

(* Registers and memory keep the width of a word and no program counter    *)
(* passes the end of memory, in either machine (pipeline.c, single_cycle.c). *)
THEOREM MachinesTyped == Spec => []TypeOK
<1>1. IInv => TypeOK  BY InvMeans
<1> QED  BY <1>1, CpuInvariance, PTL

(* pipeline_cycle neither loses nor repeats nor reorders an instruction.   *)
THEOREM InstructionsInOrder == Spec => []InOrder
<1>1. IInv => InOrder  BY DEF IInv
<1> QED  BY <1>1, CpuInvariance, PTL

(* A register shows the last completed instruction that writes it, and     *)
(* nothing of one in flight (the write-back of pipeline_cycle).            *)
THEOREM RegistersExact == Spec => []RegistersAsCompleted
<1>1. IInv => RegistersAsCompleted  BY InvMeans
<1> QED  BY <1>1, CpuInvariance, PTL

(* The cycles and stalls benchmark_pipeline prints: one cycle for each     *)
(* instruction, one for each true dependency on the instruction before,    *)
(* one for each immediate whose bits name the register just written, and   *)
(* five for filling and emptying the pipeline.                             *)
THEOREM CountersExact == Spec => []CyclesAccounted
<1>1. IInv => CyclesAccounted  BY InvMeans
<1> QED  BY <1>1, CpuInvariance, PTL

(* The benchmark compares the two machines over the same number of         *)
(* instructions: the safety break of pipeline_execute never cuts short.    *)
THEOREM MachinesDoSameWork == Spec => []SameWork
<1>1. IInv => SameWork  BY InvMeans
<1> QED  BY <1>1, CpuInvariance, PTL
=============================================================================
