------------------------------ MODULE Machine ------------------------------
(***************************************************************************)
(* The MIPS simulator: machine/mipssim.cc, translate.cc and machine.cc, in *)
(* the build with SIM_FIX on a little-endian host, and IncreasePC of       *)
(* userprog/exception.cc.                                                  *)
(*                                                                         *)
(* A byte has ByteBits bits and a word four bytes; words are kept as the   *)
(* numbers 0..2^W - 1.  The program is left open: once the fetch of an     *)
(* instruction has been translated, the word that is fetched is any of     *)
(* Program, given by its fields.  After any instruction an interrupt may   *)
(* be due, and the switches that it causes give the registers back as they *)
(* were.                                                                   *)
(***************************************************************************)
EXTENDS Integers, Sequences, FiniteSets

CONSTANTS
  ByteBits, PageSize, NumPhysPages,
  TargetBits,    \* bits of the target field of a jump
  PageTable,     \* the table that is loaded, a sequence of translation entries
  Program,       \* the instruction words: [op, funct, rs, rt, rd, shamt, imm, target]
  Start,         \* values of the general registers
  Counters,      \* values of PC and NextPC, for a program that is under way
  Loading,       \* values of LoadReg and LoadValueReg, likewise
  Results,       \* what system calls return
  MaxSteps       \* bound: the instructions that are executed

W == 4 * ByteBits

\* Powers of two, as a function that a proof can unfold.
Pow2[n \in Nat] == IF n = 0 THEN 1 ELSE 2 * Pow2[n - 1]

Modulus == Pow2[W]
SignBit == Pow2[W - 1]

Word == 0..(Modulus - 1)
Wrap(x) == x % Modulus
Signed(x) == IF x >= SignBit THEN x - Modulus ELSE x
Complement(x) == (Modulus - 1) - x
Sign(x) == x \div SignBit

\* The number of values that n bytes have.
Bytes(n) == Pow2[n * ByteBits]
LowHalf(x) == x % Bytes(2)

NumGPRegs == 4         \* R0 and R2 are special; R31 is the last one
R31 == NumGPRegs - 1
HiReg == NumGPRegs
LoReg == NumGPRegs + 1
PCReg == NumGPRegs + 2
NextPCReg == NumGPRegs + 3
PrevPCReg == NumGPRegs + 4
LoadReg == NumGPRegs + 5
LoadValueReg == NumGPRegs + 6
BadVAddrReg == NumGPRegs + 7
GPRegs == 0..(NumGPRegs - 1)

\* The instructions with op SPECIAL.
RFmt == {"ADD", "ADDU", "AND", "DIV", "DIVU", "JALR", "JR", "MFHI", "MFLO", "MTHI", "MTLO",
         "MULT", "MULTU", "NOR", "OR", "SLL", "SLLV", "SLT", "SLTU", "SRA", "SRAV", "SRL",
         "SRLV", "SUB", "SUBU", "XOR", "SYSCALL", "RES", "UNIMP"}

Entry == [physicalPage : Nat, valid : BOOLEAN, readOnly : BOOLEAN, use : BOOLEAN, dirty : BOOLEAN]

\* The fields of an instruction word have their widths; the rt field of BCOND
\* is no register.  AddrSpace gives every page a frame of its own.
ASSUME MachineAssumption ==
  /\ ByteBits \in Nat \ {0} /\ TargetBits \in 0..(W - 2)
  /\ PageSize \in Nat \ {0} /\ PageSize % 4 = 0
  /\ NumPhysPages \in Nat /\ MaxSteps \in Nat
  /\ Start \subseteq [GPRegs -> Word] /\ \A r \in Start : r[0] = 0
  /\ Counters \subseteq Word \X Word /\ Loading \subseteq GPRegs \X Word /\ Results \subseteq Word
  /\ PageTable \in Seq(Entry)
  /\ \A u \in 1..Len(PageTable) : ~PageTable[u].use /\ ~PageTable[u].dirty
  /\ \A u, v \in 1..Len(PageTable) :
       PageTable[u].valid /\ PageTable[v].valid
         /\ PageTable[u].physicalPage = PageTable[v].physicalPage => u = v
  /\ \A w \in Program :
       /\ w.rs \in GPRegs /\ w.rd \in GPRegs /\ (w.op # "BCOND" => w.rt \in GPRegs)
       /\ w.shamt \in 0..(W - 1) /\ w.imm \in 0..(Bytes(2) - 1)
       /\ w.target \in 0..(Pow2[TargetBits] - 1)
       /\ w.op = "SPECIAL" => w.funct \in RFmt

VARIABLES
  registers,   \* Machine::registers
  mainMemory,  \* Machine::mainMemory, by bytes
  pageTable,   \* Machine::pageTable
  trap,        \* the exception that the last instruction raised
  steps,       \* how many instructions were executed
  last         \* the last two steps: [instr, registers, mainMemory] before each, and its trap

vars == <<registers, mainMemory, pageTable, trap, steps, last>>

\* The contents of memory at first: bytes that differ from their neighbours.
FirstByte(a) == (a + 1) % Bytes(1)

\* Machine::Machine, and a program that has come somewhere.
Init ==
  /\ \E g \in Start, pc \in Counters, load \in Loading :
       registers = [r \in 0..BadVAddrReg |->
                      CASE r \in GPRegs -> g[r] [] r = PCReg -> pc[1] [] r = NextPCReg -> pc[2]
                        [] r = LoadReg -> load[1] [] r = LoadValueReg -> load[2] [] OTHER -> 0]
  /\ mainMemory = [a \in 0..(NumPhysPages * PageSize - 1) |-> FirstByte(a)]
  /\ pageTable = PageTable
  /\ trap = "NoException"
  /\ steps = 0
  /\ last = <<>>

-----------------------------------------------------------------------------
(* Instruction::Decode.                                                    *)

JFmt == {"J", "JAL"}

BCond(rt) == CASE rt = 0 -> "BLTZ" [] rt = 1 -> "BGEZ" [] rt = 16 -> "BLTZAL"
               [] rt = 17 -> "BGEZAL" [] OTHER -> "UNIMP"

\* Immediates are sign-extended.
Decode(w) ==
  [op |-> CASE w.op = "SPECIAL" -> w.funct [] w.op = "BCOND" -> BCond(w.rt) [] OTHER -> w.op,
   rs |-> w.rs, rt |-> w.rt, rd |-> w.rd,
   extra |-> CASE w.op = "SPECIAL" -> w.shamt
               [] w.op \in JFmt -> w.target
               [] OTHER -> IF w.imm >= Bytes(2) \div 2
                           THEN w.imm + (Modulus - Bytes(2)) ELSE w.imm]

-----------------------------------------------------------------------------
(* Translation and memory.                                                 *)

Aligned(addr, size) == addr % size = 0

\* Machine::Translate: the exception it returns.
Exception(addr, size, writing) ==
  LET vpn == addr \div PageSize
  IN  IF ~Aligned(addr, size) \/ vpn >= Len(pageTable) THEN "AddressErrorException"
      ELSE LET entry == pageTable[vpn + 1]
           IN  CASE ~entry.valid -> "PageFaultException"
                 [] entry.valid /\ entry.readOnly /\ writing -> "ReadOnlyException"
                 [] entry.valid /\ ~(entry.readOnly /\ writing)
                      /\ entry.physicalPage >= NumPhysPages -> "BusErrorException"
                 [] OTHER -> "NoException"

PhysAddr(addr) == pageTable[addr \div PageSize + 1].physicalPage * PageSize + (addr % PageSize)

\* The use and dirty bits, after the accesses that succeeded.
Used(table, addr, writing) ==
  [table EXCEPT ![addr \div PageSize + 1].use = TRUE,
                ![addr \div PageSize + 1].dirty = @ \/ writing]

\* ReadMem and WriteMem of size bytes, once the address is translated.
ReadMem(mem, addr, size) ==
  LET b(k) == IF k < size THEN mem[PhysAddr(addr) + k] * Bytes(k) ELSE 0
  IN  b(0) + b(1) + b(2) + b(3)

WriteMem(addr, size, value) ==
  [a \in DOMAIN mainMemory |->
     IF a \in PhysAddr(addr)..(PhysAddr(addr) + size - 1)
     THEN (value \div Bytes(a - PhysAddr(addr))) % Bytes(1) ELSE mainMemory[a]]

-----------------------------------------------------------------------------
(* The end of an instruction.                                              *)

\* Mutant of DelayedLoad: a pending load is dropped when another one begins.
DelayedLoadDrop(regs, nextReg, nextValue) ==
  [regs EXCEPT ![regs[LoadReg]] = IF nextReg = 0 THEN regs[LoadValueReg] ELSE @,
               ![LoadReg] = nextReg, ![LoadValueReg] = nextValue, ![0] = 0]

\* Machine::DelayedLoad.
DelayedLoad(regs, nextReg, nextValue) ==
  [[regs EXCEPT ![regs[LoadReg]] = regs[LoadValueReg]] EXCEPT
     ![LoadReg] = nextReg, ![LoadValueReg] = nextValue, ![0] = 0]

Record(i) ==
  /\ steps' = steps + 1
  /\ last' = (IF Len(last) = 2 THEN <<last[2]>> ELSE last)
               \o <<[instr |-> i, registers |-> registers, mainMemory |-> mainMemory,
                     trap |-> trap']>>

\* The instruction succeeded: delayed loads are done, the counters move on.
Complete(i, regs, load, pcAfter) ==
  LET r == DelayedLoad(regs, load[1], load[2])
  IN  /\ registers' = [r EXCEPT ![PrevPCReg] = r[PCReg], ![PCReg] = r[NextPCReg],
                                ![NextPCReg] = pcAfter]
      /\ trap' = "NoException"
      /\ Record(i)

\* Mutant of RaiseException: the counters move on as they do for a system call.
RaiseExceptionAdvance(i, which, badVAddr) ==
  /\ registers' = [DelayedLoad([registers EXCEPT ![BadVAddrReg] = badVAddr], 0, 0)
                     EXCEPT ![PCReg] = registers[NextPCReg]]
  /\ trap' = which
  /\ Record(i)

\* Machine::RaiseException; every exception but a system call ends the process.
RaiseException(i, which, badVAddr) ==
  /\ registers' = DelayedLoad([registers EXCEPT ![BadVAddrReg] = badVAddr], 0, 0)
  /\ trap' = which
  /\ Record(i)

PcAfter == Wrap(registers[NextPCReg] + 4)
NoLoad == <<0, 0>>

Running == trap \in {"NoException", "SyscallException"} /\ steps < MaxSteps

\* The fetch fails.
FetchFault ==
  LET e == Exception(registers[PCReg], 4, FALSE)
  IN  /\ Running
      /\ e # "NoException"
      /\ RaiseException([op |-> "fetch"], e, registers[PCReg])
      /\ UNCHANGED <<mainMemory, pageTable>>

\* An instruction was fetched; table is the page table after that.
Fetched == Running /\ Exception(registers[PCReg], 4, FALSE) = "NoException"
FetchTable == Used(pageTable, registers[PCReg], FALSE)

-----------------------------------------------------------------------------
(* Instructions that write a register.                                     *)

Rs(i) == registers[i.rs]
Rt(i) == registers[i.rt]

\* The tests of ADD, ADDI and SUB, on the sign bits.
Overflow(i) ==
  CASE i.op = "ADD" -> /\ Sign(Rs(i)) = Sign(Rt(i))
                       /\ Sign(Rs(i)) # Sign(Wrap(Rs(i) + Rt(i)))
    [] i.op = "ADDI" -> /\ Sign(Rs(i)) = Sign(i.extra)
                        /\ Sign(i.extra) # Sign(Wrap(Rs(i) + i.extra))
    [] i.op = "SUB" -> /\ Sign(Rs(i)) # Sign(Rt(i))
                       /\ Sign(Rs(i)) # Sign(Wrap(Rs(i) - Rt(i)))
    [] OTHER -> FALSE

Truth(b) == IF b THEN 1 ELSE 0

\* A word by its bits, and the operations on each pair of bits.
Bit(x, k) == (x \div Pow2[k]) % 2
FromBits(bits) ==
  LET sum[n \in 0..W] == IF n = 0 THEN 0 ELSE sum[n - 1] + bits[n - 1] * Pow2[n - 1]
  IN  sum[W]
BitAnd(x, y) == FromBits([k \in 0..(W - 1) |-> Bit(x, k) * Bit(y, k)])
BitOr(x, y) == FromBits([k \in 0..(W - 1) |-> Truth(Bit(x, k) + Bit(y, k) > 0)])
BitXor(x, y) == FromBits([k \in 0..(W - 1) |-> (Bit(x, k) + Bit(y, k)) % 2])

ShiftLeft(x, n) == Wrap(x * Pow2[n])
\* Of an int, which SRL and SRLV use too: the sign is shifted in.
ShiftRight(x, n) == Wrap(Signed(x) \div Pow2[n])

ToRd == {"ADD", "ADDU", "AND", "MFHI", "MFLO", "NOR", "OR", "SLL", "SLLV", "SLT", "SLTU",
         "SRA", "SRAV", "SRL", "SRLV", "SUB", "SUBU", "XOR"}
ToRt == {"ADDI", "ADDIU", "ANDI", "LUI", "ORI", "SLTI", "SLTIU", "XORI"}

Value(i) ==
  CASE i.op \in {"ADD", "ADDU"} -> Wrap(Rs(i) + Rt(i))
    [] i.op \in {"ADDI", "ADDIU"} -> Wrap(Rs(i) + i.extra)
    [] i.op \in {"SUB", "SUBU"} -> Wrap(Rs(i) - Rt(i))
    [] i.op = "AND" -> BitAnd(Rs(i), Rt(i))
    [] i.op = "ANDI" -> BitAnd(Rs(i), LowHalf(i.extra))
    [] i.op = "OR" -> BitOr(Rs(i), Rt(i))
    [] i.op = "ORI" -> BitOr(Rs(i), LowHalf(i.extra))
    [] i.op = "XOR" -> BitXor(Rs(i), Rt(i))
    [] i.op = "XORI" -> BitXor(Rs(i), LowHalf(i.extra))
    [] i.op = "NOR" -> Complement(BitOr(Rs(i), Rt(i)))
    [] i.op = "LUI" -> ShiftLeft(i.extra, 2 * ByteBits)
    [] i.op = "MFHI" -> registers[HiReg]
    [] i.op = "MFLO" -> registers[LoReg]
    [] i.op = "SLL" -> ShiftLeft(Rt(i), i.extra)
    [] i.op = "SLLV" -> ShiftLeft(Rt(i), Rs(i) % W)
    [] i.op \in {"SRA", "SRL"} -> ShiftRight(Rt(i), i.extra)
    [] i.op \in {"SRAV", "SRLV"} -> ShiftRight(Rt(i), Rs(i) % W)
    [] i.op = "SLT" -> Truth(Signed(Rs(i)) < Signed(Rt(i)))
    [] i.op = "SLTI" -> Truth(Signed(Rs(i)) < Signed(i.extra))
    [] i.op = "SLTU" -> Truth(Rs(i) < Rt(i))
    [] i.op = "SLTIU" -> Truth(Rs(i) < i.extra)

Compute(i) ==
  /\ i.op \in ToRd \cup ToRt
  /\ IF Overflow(i) THEN RaiseException(i, "OverflowException", 0)
     ELSE Complete(i, [registers EXCEPT ![IF i.op \in ToRd THEN i.rd ELSE i.rt] = Value(i)],
                   NoLoad, PcAfter)
  /\ pageTable' = FetchTable
  /\ UNCHANGED mainMemory

-----------------------------------------------------------------------------
(* Multiplication and division.                                            *)

\* Mutant of MultStep: the carry out of the low word is forgotten.
MultStepNoCarry(s) ==
  LET lo == IF s.a % 2 = 1 THEN Wrap(s.lo + s.bLo) ELSE s.lo
      hi == IF s.a % 2 = 1 THEN Wrap(s.hi + s.bHi) ELSE s.hi
  IN  [a |-> ShiftRight(s.a, 1), lo |-> lo, hi |-> hi,
       bLo |-> Wrap(2 * s.bLo), bHi |-> Wrap(2 * s.bHi + Sign(s.bLo))]

\* One turn of the loop of Mult: a bit of a, and b shifted to it.
MultStep(s) ==
  LET lo == IF s.a % 2 = 1 THEN Wrap(s.lo + s.bLo) ELSE s.lo
      hi == IF s.a % 2 = 1 THEN Wrap(s.hi + s.bHi + Truth(lo < s.bLo)) ELSE s.hi
  IN  [a |-> ShiftRight(s.a, 1), lo |-> lo, hi |-> hi,
       bLo |-> Wrap(2 * s.bLo), bHi |-> Wrap(2 * s.bHi + Sign(s.bLo))]

\* The loop of Mult.  It stops early when no bit of a is left, which changes
\* nothing.
MultLoop(a, b) ==
  LET loop[n \in 0..W] == IF n = 0 THEN [a |-> a, lo |-> 0, hi |-> 0, bLo |-> b, bHi |-> 0]
                          ELSE MultStep(loop[n - 1])
  IN  loop[W]

\* Mult: <<hi, lo>>.
Mult(a, b, signedArith) ==
  LET Abs(x) == IF signedArith /\ Sign(x) = 1 THEN Wrap(-x) ELSE x
      negative == signedArith /\ Sign(a) # Sign(b)
      product == MultLoop(Abs(a), Abs(b))
      lo == Wrap(Complement(product.lo) + 1)
  IN  CASE a = 0 \/ b = 0 -> <<0, 0>>
        [] a # 0 /\ b # 0 /\ ~negative -> <<product.hi, product.lo>>
        [] OTHER -> <<Wrap(Complement(product.hi) + Truth(lo = 0)), lo>>

\* Division of ints, which truncates.
Quotient(a, b) ==
  LET Abs(x) == IF x < 0 THEN -x ELSE x
      q == Abs(a) \div Abs(b)
  IN  IF (a < 0) = (b < 0) THEN q ELSE -q

HiLo(i) ==
  CASE i.op \in {"DIV", "DIVU"} /\ Rt(i) = 0 -> <<0, 0>>
    [] i.op = "DIV" /\ Rt(i) # 0 ->
         LET q == Quotient(Signed(Rs(i)), Signed(Rt(i)))
         IN  <<Wrap(Signed(Rs(i)) - q * Signed(Rt(i))), Wrap(q)>>
    [] i.op = "DIVU" /\ Rt(i) # 0 -> <<Rs(i) % Rt(i), Rs(i) \div Rt(i)>>
    [] i.op = "MULT" -> Mult(Rs(i), Rt(i), TRUE)
    [] i.op = "MULTU" -> Mult(Rs(i), Rt(i), FALSE)
    [] i.op = "MTHI" -> <<Rs(i), registers[LoReg]>>
    [] i.op = "MTLO" -> <<registers[HiReg], Rs(i)>>

\* The least integer divided by -1 is undefined in C; the x86 host traps.
HostFault(i) == i.op = "DIV" /\ Rs(i) = SignBit /\ Rt(i) = Modulus - 1

MultDiv(i) ==
  /\ i.op \in {"DIV", "DIVU", "MULT", "MULTU", "MTHI", "MTLO"}
  /\ IF HostFault(i)
     THEN trap' = "HostFault" /\ Record(i) /\ UNCHANGED registers
     ELSE Complete(i, [registers EXCEPT ![HiReg] = HiLo(i)[1], ![LoReg] = HiLo(i)[2]],
                   NoLoad, PcAfter)
  /\ pageTable' = FetchTable
  /\ UNCHANGED mainMemory

-----------------------------------------------------------------------------
(* Branches and jumps.                                                     *)

Branches == {"BEQ", "BNE", "BGEZ", "BGTZ", "BLEZ", "BLTZ", "BGEZAL", "BLTZAL"}
Jumps == {"J", "JAL", "JR", "JALR"}

\* The registers after the return address was written.
Linked(i) ==
  CASE i.op \in {"BGEZAL", "BLTZAL", "JAL"} -> [registers EXCEPT ![R31] = PcAfter]
    [] i.op = "JALR" -> [registers EXCEPT ![i.rd] = PcAfter]
    [] OTHER -> registers

\* Is the branch taken?  The return address is in its register by now.
Taken(i) ==
  LET rs == Linked(i)[i.rs]
      rt == registers[i.rt]
  IN  CASE i.op = "BEQ" -> rs = rt
        [] i.op = "BNE" -> rs # rt
        [] i.op \in {"BGEZ", "BGEZAL"} -> Sign(rs) = 0
        [] i.op = "BGTZ" -> Signed(rs) > 0
        [] i.op = "BLEZ" -> Signed(rs) <= 0
        [] i.op \in {"BLTZ", "BLTZAL"} -> Sign(rs) = 1

Target(i) ==
  CASE i.op \in Branches /\ Taken(i) -> Wrap(registers[NextPCReg] + 4 * i.extra)
    [] i.op \in Branches /\ ~Taken(i) -> PcAfter
    [] i.op \in {"J", "JAL"} ->
         (PcAfter \div Pow2[TargetBits + 2]) * Pow2[TargetBits + 2] + 4 * i.extra
    [] i.op \in {"JR", "JALR"} -> Linked(i)[i.rs]

Jump(i) ==
  /\ i.op \in Branches \cup Jumps
  /\ Complete(i, Linked(i), NoLoad, Target(i))
  /\ pageTable' = FetchTable
  /\ UNCHANGED mainMemory

-----------------------------------------------------------------------------
(* Loads and stores.                                                       *)

Loads == {"LB", "LBU", "LH", "LHU", "LW", "LWL", "LWR"}
Stores == {"SB", "SH", "SW", "SWL", "SWR"}

SizeOf(op) == CASE op \in {"LB", "LBU", "SB"} -> 1 [] op \in {"LH", "LHU", "SH"} -> 2
                [] OTHER -> 4

Address(i) == Wrap(Rs(i) + i.extra)

\* LWL, LWR, SWL and SWR access the word that holds the byte.
ByteOf(i) == Address(i) % 4
Accessed(i) == IF i.op \in {"LWL", "LWR", "SWL", "SWR"} THEN Address(i) - ByteOf(i)
               ELSE Address(i)

\* The register that LWL and LWR merge with, a pending load included.
Pending(i) == IF registers[LoadReg] = i.rt THEN registers[LoadValueReg] ELSE Rt(i)

\* Mutant of LoadValue: LWL and LWR merge with the register as it is.
LoadValueStale(i, value) ==
  CASE i.op = "LWL" -> Wrap(value * Bytes(3 - ByteOf(i))) + (Rt(i) % Bytes(3 - ByteOf(i)))
    [] i.op = "LWR" -> (Rt(i) \div Bytes(4 - ByteOf(i))) * Bytes(4 - ByteOf(i))
                         + value \div Bytes(ByteOf(i))
    [] OTHER -> value

\* What is loaded, given the value read.
LoadValue(i, value) ==
  CASE i.op = "LB" /\ value >= Bytes(1) \div 2 -> value + (Modulus - Bytes(1))
    [] i.op = "LH" /\ value >= Bytes(2) \div 2 -> value + (Modulus - Bytes(2))
    [] i.op = "LWL" -> Wrap(value * Bytes(3 - ByteOf(i))) + (Pending(i) % Bytes(3 - ByteOf(i)))
    [] i.op = "LWR" -> (Pending(i) \div Bytes(4 - ByteOf(i))) * Bytes(4 - ByteOf(i))
                         + value \div Bytes(ByteOf(i))
    [] OTHER -> value

LoadInstr(i) ==
  LET addr == Accessed(i)
      e == Exception(addr, SizeOf(i.op), FALSE)
  IN  /\ i.op \in Loads
      /\ IF e # "NoException"
         THEN RaiseException(i, e, addr) /\ pageTable' = FetchTable
         ELSE /\ Complete(i, registers,
                          <<i.rt, LoadValue(i, ReadMem(mainMemory, addr, SizeOf(i.op)))>>, PcAfter)
              /\ pageTable' = Used(FetchTable, addr, FALSE)
      /\ UNCHANGED mainMemory

\* What is stored; SWL and SWR merge with the word that is read first.
StoreValue(i, value) ==
  CASE i.op = "SWL" -> (value \div Bytes(ByteOf(i) + 1)) * Bytes(ByteOf(i) + 1)
                         + Rt(i) \div Bytes(3 - ByteOf(i))
    [] i.op = "SWR" -> (value % Bytes(ByteOf(i))) + Wrap(Rt(i) * Bytes(ByteOf(i)))
    [] OTHER -> Rt(i)

\* Mutant of StoreFault: SWL and SWR write where they could read.
StoreFaultMerge(i) ==
  Exception(Accessed(i), SizeOf(i.op), i.op \notin {"SWL", "SWR"})

\* The exception of a store; SWL and SWR read before they write.
StoreFault(i) ==
  LET read == Exception(Accessed(i), 4, FALSE)
  IN  IF i.op \in {"SWL", "SWR"} /\ read # "NoException" THEN read
      ELSE Exception(Accessed(i), SizeOf(i.op), TRUE)

StoreInstr(i) ==
  LET addr == Accessed(i)
      merges == i.op \in {"SWL", "SWR"}
      e == StoreFault(i)
      reads == merges /\ Exception(addr, 4, FALSE) = "NoException"
      value == IF merges THEN ReadMem(mainMemory, addr, 4) ELSE 0
      table == IF reads THEN Used(FetchTable, addr, FALSE) ELSE FetchTable
  IN  /\ i.op \in Stores
      /\ IF e # "NoException"
         THEN /\ RaiseException(i, e, addr)
              /\ pageTable' = table
              /\ UNCHANGED mainMemory
         ELSE /\ mainMemory' = WriteMem(addr, SizeOf(i.op), StoreValue(i, value))
              /\ pageTable' = Used(table, addr, TRUE)
              /\ Complete(i, registers, NoLoad, PcAfter)

-----------------------------------------------------------------------------
(* System calls and illegal instructions.                                  *)

\* IncreasePC: the next instruction is the one behind the system call, also
\* when the call is in the delay slot of a jump.
IncreasePC(regs) ==
  [regs EXCEPT ![PrevPCReg] = regs[PCReg], ![PCReg] = Wrap(regs[PCReg] + 4),
               ![NextPCReg] = Wrap(regs[PCReg] + 8)]

\* A system call that returns: its result is in R2.
SystemCall(i) ==
  /\ i.op = "SYSCALL"
  /\ \E result \in Results :
       registers' = IncreasePC([DelayedLoad([registers EXCEPT ![BadVAddrReg] = 0], 0, 0)
                                  EXCEPT ![2] = result])
  /\ trap' = "SyscallException"
  /\ Record(i)
  /\ pageTable' = FetchTable
  /\ UNCHANGED mainMemory

IllegalInstr(i) ==
  /\ i.op \in {"RES", "UNIMP"}
  /\ RaiseException(i, "IllegalInstrException", 0)
  /\ pageTable' = FetchTable
  /\ UNCHANGED mainMemory

\* Machine::OneInstruction.
OneInstruction(w) ==
  /\ Fetched
  /\ LET i == Decode(w)
     IN  \/ Compute(i) \/ MultDiv(i) \/ Jump(i) \/ LoadInstr(i) \/ StoreInstr(i)
         \/ SystemCall(i) \/ IllegalInstr(i)

\* Machine::Run calls Interrupt::OneTick after each instruction; when an
\* interrupt is due, CheckIfDue lets the pending load arrive before it calls the
\* handlers.
OneTick ==
  /\ steps > 0
  /\ trap \in {"NoException", "SyscallException"}
  /\ registers' = DelayedLoad(registers, 0, 0)
  /\ UNCHANGED <<mainMemory, pageTable, trap, steps, last>>

Next == FetchFault \/ OneTick \/ \E w \in Program : OneInstruction(w)

Spec == Init /\ [][Next]_vars

-----------------------------------------------------------------------------
(* Properties, of the last one or two steps.                               *)

\* Each variable has its type.
TypeOK ==
  /\ registers \in [0..BadVAddrReg -> Word]
  /\ registers[LoadReg] \in GPRegs /\ registers[0] = 0
  /\ mainMemory \in [0..(NumPhysPages * PageSize - 1) -> 0..(Bytes(1) - 1)]
  /\ steps \in 0..MaxSteps /\ Len(last) <= 2

Done == last[Len(last)]                  \* the last step
Op(s) == s.instr.op
Faults == {"AddressErrorException", "PageFaultException", "ReadOnlyException",
           "BusErrorException", "OverflowException", "IllegalInstrException"}

\* "This allows us to re-start the instruction execution from the beginning":
\* an instruction that raised an exception has changed nothing that the program
\* can read, except that the load before it has arrived (OneInstruction).
Restartable ==
  /\ TypeOK
  /\ last # <<>> /\ trap \in Faults =>
       /\ mainMemory = Done.mainMemory
       /\ \A r \in (GPRegs \ {Done.registers[LoadReg]}) \cup {HiReg, LoReg, PCReg, NextPCReg} :
            registers[r] = Done.registers[r]

\* A load and a jump take effect one instruction late: after the next instruction
\* the register holds what was in memory when the load was executed, even if that
\* instruction stored there, wrote the register or raised an exception (other
\* than one of the host), or loaded the register again, until that load arrives;
\* and the program is at the target of the jump (DelayedLoad).  Only an interrupt
\* in between brings the load early, and then all of it: the next instruction
\* begins with the value in the register (CheckIfDue).
DelaysKept ==
  Len(last) = 2 =>
    LET first == last[1]
        then == last[2]
        i == first.instr
        addr == Wrap(first.registers[i.rs] + i.extra)
    IN  /\ Op(first) \in {"LW", "LBU", "LHU"} /\ first.trap = "NoException" /\ i.rt # 0
             /\ ~(trap = "SyscallException" /\ i.rt = 2) /\ trap # "HostFault"
             /\ (Op(then) \in Loads /\ then.trap = "NoException" /\ then.instr.rt = i.rt
                   => registers[LoadReg] = i.rt)
           => (IF then.registers[LoadReg] = i.rt THEN registers ELSE then.registers)[i.rt]
                = ReadMem(first.mainMemory, addr, SizeOf(i.op))
        /\ Op(first) = "JR" /\ trap = "NoException"
           => registers[PCReg] = first.registers[i.rs] /\ then.registers[PCReg] = first.registers[NextPCReg]

\* The counterparts in the integers of the arithmetic on words: an exception is
\* raised exactly when a sum or difference does not fit, a product has its two
\* words, and a remainder has the sign of the dividend (OneInstruction, Mult).
ArithmeticExact ==
  last # <<>> /\ Op(Done) # "fetch" =>
    LET i == Done.instr
        a == Done.registers[i.rs]
        b == Done.registers[i.rt]
        n == Signed(a)
        d == Signed(b)
        hi == registers[HiReg]
        lo == registers[LoReg]
        Fits(x) == x \in (-SignBit)..(SignBit - 1)
        Sum(x, r) == IF Fits(x) THEN trap = "NoException" /\ Signed(registers[r]) = x
                     ELSE trap = "OverflowException" /\ registers[r] = Done.registers[r]
        noLoad == Done.registers[LoadReg] = 0
    IN  /\ i.op = "ADD" /\ noLoad /\ i.rd # 0 => Sum(n + d, i.rd)
        /\ i.op = "SUB" /\ noLoad /\ i.rd # 0 => Sum(n - d, i.rd)
        /\ i.op = "ADDI" /\ noLoad /\ i.rt # 0 => Sum(n + Signed(i.extra), i.rt)
        /\ i.op = "MULT" => Signed(hi) * Modulus + lo = n * d
        /\ i.op = "MULTU" => hi * Modulus + lo = a * b
        /\ i.op = "DIVU" /\ b # 0 => lo * b + hi = a /\ hi < b
        /\ i.op = "DIV" /\ b # 0 /\ trap # "HostFault" =>
             /\ Signed(lo) * d + Signed(hi) = n
             /\ Signed(hi) * n >= 0 /\ Signed(hi) * Signed(hi) < d * d

\* The bytes at four addresses, which may be in two pages, as a word.
UnalignedWord(mem, x) ==
  LET byte(k) == mem[PhysAddr(x + k)] * Bytes(k)
  IN  byte(0) + byte(1) + byte(2) + byte(3)

\* LWR x and LWL x + 3 together load the word at x, and SWR x and SWL x + 3
\* store it and no other byte, wherever x is and whether or not an interrupt is
\* due between them or behind them, unless a load before them changes a register
\* that both read, or LWR loads the register that gives the address, which an
\* interrupt would change for LWL: "This is the whole purpose of LWL and LWR etc."
UnalignedPairs ==
  Len(last) = 2 /\ trap = "NoException" =>
    LET i == last[1].instr
        j == last[2].instr
        x == Wrap(last[1].registers[i.rs] + i.extra)
        arriving == last[1].registers[LoadReg]
    IN  i.op \in {"LWR", "SWR"} /\ j.op = (IF i.op = "LWR" THEN "LWL" ELSE "SWL")
          /\ i.rs = j.rs /\ i.rt = j.rt /\ j.extra = i.extra + 3 /\ x + 3 \in Word
          /\ (arriving # 0 => arriving # i.rs /\ (i.op = "SWR" => arriving # i.rt))
          /\ (i.op = "LWR" => i.rt \notin {0, i.rs})
        => IF i.op = "LWR"
           THEN registers[IF registers[LoadReg] = i.rt THEN LoadValueReg ELSE i.rt]
                  = UnalignedWord(mainMemory, x)
           ELSE /\ UnalignedWord(mainMemory, x) = last[1].registers[i.rt]
                /\ \A a \in DOMAIN mainMemory \ {PhysAddr(x + k) : k \in 0..3} :
                     mainMemory[a] = last[1].mainMemory[a]

\* A page that is marked read-only never changes, and a page has changed only if
\* its dirty bit says so (Translate, WriteMem).
PagesKept ==
  \A v \in 1..Len(pageTable) :
    LET e == pageTable[v]
    IN  /\ e.dirty => e.use /\ ~e.readOnly
        /\ e.valid /\ e.physicalPage < NumPhysPages /\ ~e.dirty =>
             \A o \in 0..(PageSize - 1) :
               mainMemory[e.physicalPage * PageSize + o] = FirstByte(e.physicalPage * PageSize + o)
=============================================================================
