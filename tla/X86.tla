-------------------------------- MODULE X86 --------------------------------
(***************************************************************************)
(* The processor that runs the code of the custom JIT, as far as that code *)
(* uses it: instructions are decoded from bytes, prefixes and register     *)
(* extensions included.  It is not part of the repository; it is modelled  *)
(* from the encodings that emit.rs writes down.                            *)
(*                                                                         *)
(* A value in a general register is a pair: a number, the table of input   *)
(* pointers, a buffer (number 0 is the output), or what the caller had     *)
(* there.  A lane of four or eight bytes of memory is Single or Double     *)
(* wide; a double in an xmm register is exact.                             *)
(***************************************************************************)
EXTENDS PackedLoop

Single == Float32
Double == [kind |-> "Float", bits |-> WordBits, exp |-> 0]
NoType == [kind |-> "none", bits |-> 0, exp |-> 0]

VARIABLES
    code,     \* the bytes of the kernel, in an executable page
    pc,       \* the next byte, counted from 0; -1 behind the final return
    gpr,      \* general registers
    xmm,      \* vector registers: the type of the number in one and its value
    stack,    \* what was pushed; the return address is its first element
    less      \* the last comparison found its left operand to be less

machineVars == <<code, pc, gpr, xmm, stack, less>>

Registers == 0..15
RAX == 0
RBX == 3
RSP == 4
R10 == 10
R14 == 14
R15 == 15

Num(n) == <<"number", n>>
Table == <<"table", 0>>
BufferAt(s) == <<"buffer", s>>
CallersOwn(r) == <<"caller", r>>
ReturnAddress == <<"return", 0>>
Slack == <<"slack", 0>>

-----------------------------------------------------------------------------
\* Decoding: a mandatory prefix, REX, the opcode (256 up behind 0F), ModRM.
Byte(k) == IF k \in 0..(Len(code) - 1) THEN code[k + 1] ELSE 0

Prefix == IF Byte(pc) \in {102, 242, 243} THEN Byte(pc) ELSE 0
RexAt == IF Prefix = 0 THEN pc ELSE pc + 1
Rex == IF Byte(RexAt) \in 64..79 THEN Byte(RexAt) - 64 ELSE 0
OpAt == IF Byte(RexAt) \in 64..79 THEN RexAt + 1 ELSE RexAt
Opcode == IF Byte(OpAt) = 15 THEN 256 + Byte(OpAt + 1) ELSE Byte(OpAt)
ModAt == IF Byte(OpAt) = 15 THEN OpAt + 2 ELSE OpAt + 1

RexW == (Rex \div 8) % 2 = 1
Extended(bit, r) == IF (Rex \div bit) % 2 = 1 THEN r + 8 ELSE r
Mod == Byte(ModAt) \div 64
Reg == Extended(4, (Byte(ModAt) \div 8) % 8)
Rm == Extended(1, Byte(ModAt) % 8)
InOpcode(first) == Extended(1, Opcode - first)

\* A memory operand [base + index * scale] takes ModRM and SIB.
HasSib == Mod = 0 /\ Byte(ModAt) % 8 = 4
Sib == Byte(ModAt + 1)
SibBase == gpr[Extended(1, Sib % 8)]
SibIndex == gpr[Extended(2, (Sib \div 8) % 8)]
SibLane == IF Sib \div 64 = 3 THEN Double ELSE Single

\* A signed number of four bytes, least significant first.
Immediate(k) ==
    LET top == Byte(k + 3)
    IN Byte(k) + 256 * Byte(k + 1) + 65536 * Byte(k + 2)
         + 16777216 * (IF top >= 128 THEN top - 256 ELSE top)

Is(prefix, opcode) == Prefix = prefix /\ Opcode = opcode

Goto(next) == pc' = next
SetReg(r, v) == gpr' = [gpr EXCEPT ![r] = v]
SetXmm(r, type, p) == xmm' = [xmm EXCEPT ![r] = [type |-> type, val |-> p]]

Memory(s) == IF s = 0 THEN out ELSE InputSlots(graph)[s].packed_data

\* The lane an operand names, and whether all of it is in the buffer.
LaneOffset == SibIndex[2] * SibLane.bits
LaneInside == Field(LaneOffset, SibLane.bits, 0) \subseteq DOMAIN Memory(SibBase[2])
ReadLane == LoadWord(Memory(SibBase[2]), LaneOffset, SibLane.bits, 0)
WriteLane(w) == out' = StoreWord(out, LaneOffset, SibLane.bits, 0, w)
NoteLane == wild' = (wild \/ ~LaneInside)

AsFloat(type, w) == ToDouble(<<w>>, type, 0, FALSE)
AsBits(type, p) == ToLimbs(type, 0, p, FALSE)[1]

-----------------------------------------------------------------------------
Push ==
    /\ Prefix = 0 /\ Opcode \in 80..87
    /\ stack' = Append(stack, gpr[InOpcode(80)])
    /\ Goto(ModAt)
    /\ UNCHANGED <<gpr, xmm, less, out, wild>>

Pop ==
    /\ Prefix = 0 /\ Opcode \in 88..95
    /\ SetReg(InOpcode(88), Last(stack))
    /\ stack' = Front(stack)
    /\ Goto(ModAt)
    /\ UNCHANGED <<xmm, less, out, wild>>

MovReg ==
    /\ Is(0, 137) /\ Mod = 3
    /\ SetReg(Rm, IF Reg = RSP THEN Num(Len(stack)) ELSE gpr[Reg])
    /\ Goto(ModAt + 1)
    /\ UNCHANGED <<xmm, stack, less, out, wild>>

\* add and sub of rsp and a byte, the stack's slots being eight bytes.
MoveStack ==
    /\ Is(0, 131) /\ Mod = 3 /\ Rm = RSP /\ Byte(ModAt + 1) = 8
    /\ stack' = IF Reg = 5 THEN Append(stack, Slack) ELSE Front(stack)
    /\ Goto(ModAt + 2)
    /\ UNCHANGED <<gpr, xmm, less, out, wild>>

Xor ==
    /\ Is(0, 49) /\ Mod = 3 /\ Reg = Rm
    /\ SetReg(Rm, Num(0))
    /\ Goto(ModAt + 1)
    /\ UNCHANGED <<xmm, stack, less, out, wild>>

Cmp ==
    /\ Is(0, 59) /\ Mod = 3
    /\ less' = (gpr[Reg][2] < gpr[Rm][2])
    /\ Goto(ModAt + 1)
    /\ UNCHANGED <<gpr, xmm, stack, out, wild>>

Jge ==
    /\ Is(0, 256 + 141)
    /\ Goto(IF less THEN ModAt + 4 ELSE ModAt + 4 + Immediate(ModAt))
    /\ UNCHANGED <<gpr, xmm, stack, less, out, wild>>

Jmp ==
    /\ Is(0, 233)
    /\ Goto(ModAt + 4 + Immediate(ModAt))
    /\ UNCHANGED <<gpr, xmm, stack, less, out, wild>>

Inc ==
    /\ Is(0, 255) /\ Mod = 3
    /\ SetReg(Rm, Num(gpr[Rm][2] + 1))
    /\ Goto(ModAt + 1)
    /\ UNCHANGED <<xmm, stack, less, out, wild>>

\* ret with anything but the return address on top of the stack goes astray.
Ret ==
    /\ Is(0, 195) /\ stack = <<ReturnAddress>>
    /\ stack' = <<>>
    /\ Goto(-1)
    /\ UNCHANGED <<gpr, xmm, less, out, wild>>

\* mov of a pointer out of the table, at a displacement.
LoadPointer ==
    /\ Is(0, 139) /\ Mod = 2 /\ gpr[Rm] = Table
    /\ SetReg(Reg, BufferAt(Immediate(ModAt + 1) \div 8 + 1))
    /\ Goto(ModAt + 5)
    /\ UNCHANGED <<xmm, stack, less, out, wild>>

MovImmediate ==
    /\ Prefix = 0 /\ Opcode \in 184..191
    /\ SetReg(InOpcode(184), Num(Immediate(ModAt)))
    /\ Goto(IF RexW THEN ModAt + 8 ELSE ModAt + 4)
    /\ UNCHANGED <<xmm, stack, less, out, wild>>

\* mov of four bytes between memory and a register.
Load32 ==
    /\ Is(0, 139) /\ HasSib
    /\ SetReg(Reg, Num(ReadLane)) /\ NoteLane
    /\ Goto(ModAt + 2)
    /\ UNCHANGED <<xmm, stack, less, out>>

Store32 ==
    /\ Is(0, 137) /\ HasSib
    /\ WriteLane(gpr[Reg][2]) /\ NoteLane
    /\ Goto(ModAt + 2)
    /\ UNCHANGED <<gpr, xmm, stack, less>>

\* movd and movq from a register.
MovToXmm ==
    /\ Is(102, 256 + 110) /\ Mod = 3
    /\ LET type == IF RexW THEN Double ELSE Single
       IN SetXmm(Reg, type, AsFloat(type, gpr[Rm][2]))
    /\ Goto(ModAt + 1)
    /\ UNCHANGED <<gpr, stack, less, out, wild>>

MovFromXmm ==
    /\ Is(102, 256 + 126) /\ Mod = 3
    /\ SetReg(Rm, Num(AsBits(Single, xmm[Reg].val)))
    /\ Goto(ModAt + 1)
    /\ UNCHANGED <<xmm, stack, less, out, wild>>

\* movsd
MovXmm ==
    /\ Is(242, 256 + 16) /\ Mod = 3
    /\ xmm' = [xmm EXCEPT ![Reg] = xmm[Rm]]
    /\ Goto(ModAt + 1)
    /\ UNCHANGED <<gpr, stack, less, out, wild>>

LoadXmm ==
    /\ Is(242, 256 + 16) /\ HasSib
    /\ SetXmm(Reg, Double, AsFloat(Double, ReadLane)) /\ NoteLane
    /\ Goto(ModAt + 2)
    /\ UNCHANGED <<gpr, stack, less, out>>

StoreXmm ==
    /\ Is(242, 256 + 17) /\ HasSib
    /\ WriteLane(AsBits(Double, xmm[Reg].val)) /\ NoteLane
    /\ Goto(ModAt + 2)
    /\ UNCHANGED <<gpr, xmm, stack, less>>

\* addsd, mulsd, subsd and divsd.
ArithmeticOp == [o \in {344, 345, 348, 350} |->
                   CASE o = 344 -> "Add" [] o = 345 -> "Mul"
                     [] o = 348 -> "Sub" [] o = 350 -> "Div"]
Arithmetic ==
    /\ Prefix = 242 /\ Opcode \in DOMAIN ArithmeticOp /\ Mod = 3
    /\ SetXmm(Reg, Double, FloatOp(ArithmeticOp[Opcode], xmm[Reg].val, xmm[Rm].val))
    /\ Goto(ModAt + 1)
    /\ UNCHANGED <<gpr, stack, less, out, wild>>

\* cvtss2sd widens, cvtsd2ss rounds; of a register of the other type nothing
\* sensible comes out.
Convert ==
    /\ Prefix \in {242, 243} /\ Opcode = 256 + 90 /\ Mod = 3
    /\ LET from == IF Prefix = 243 THEN Single ELSE Double
           to == IF Prefix = 243 THEN Double ELSE Single
           p == xmm[Rm].val
       IN SetXmm(Reg, to, CASE xmm[Rm].type # from -> <<0, 0>>
                            [] xmm[Rm].type = from /\ to = Double -> p
                            [] OTHER -> AsFloat(Single, AsBits(Single, p)))
    /\ Goto(ModAt + 1)
    /\ UNCHANGED <<gpr, stack, less, out, wild>>

Instruction ==
    /\ pc >= 0
    /\ \/ Push \/ Pop \/ MovReg \/ MoveStack \/ Xor \/ Cmp \/ Jge \/ Jmp \/ Inc \/ Ret
       \/ LoadPointer \/ MovImmediate \/ Load32 \/ Store32 \/ MovToXmm \/ MovFromXmm
       \/ MovXmm \/ LoadXmm \/ StoreXmm \/ Arithmetic \/ Convert
    /\ UNCHANGED code

\* A call, with its arguments in rcx, rdx and r8 on Windows and in rdi, rsi
\* and rdx elsewhere.
CallKernel(bytes, windows) ==
    /\ code' = bytes
    /\ pc' = 0
    /\ gpr' = [r \in Registers |->
                 LET args == IF windows THEN <<1, 2, 8>> ELSE <<7, 6, 2>>
                 IN CASE r = args[1] -> Table
                      [] r = args[2] -> BufferAt(0)
                      [] r = args[3] -> Num(count)
                      [] OTHER -> CallersOwn(r)]
    /\ xmm' = [r \in Registers |-> [type |-> NoType, val |-> <<0, 0>>]]
    /\ stack' = <<ReturnAddress>>
    /\ less' = FALSE

=============================================================================
