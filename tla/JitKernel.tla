----------------------------- MODULE JitKernel -----------------------------
(***************************************************************************)
(* The custom JIT (jit/): graphs of 32- and 64-bit floats are lowered to   *)
(* one instruction per node, given registers, checked, emitted as x86-64   *)
(* code and run; anything else is left to PackedLoop.                      *)
(***************************************************************************)
EXTENDS X86, LinearScan

CONSTANTS MaxInsts, MaxInputs    \* MAX_INSTS and MAX_INPUTS

\* The quick checks of try_lower, and those that lower_node makes on its way.
Lowerable(nodes, type) ==
    /\ type \in {Single, Double}
    /\ \A k \in DOMAIN nodes :
          nodes[k].op = "Var" =>
              nodes[k].dtype \in {Single, Double} /\ ~nodes[k].steal_sign

(***************************************************************************)
(* lower_node from the root: operands first, so the nodes of a tree become *)
(* instructions in arena order and each value has the number of its        *)
(* instruction.  The width of the result goes to every load and constant.  *)
(***************************************************************************)
Lower(nodes, bits) ==
    [k \in DOMAIN nodes |->
        LET n == nodes[k] IN
        CASE n.op = "Var" -> [op |-> "Load", slot |-> SlotOf(nodes, n.id), bits |-> bits]
          [] n.op = "Const" -> [op |-> "Const", val |-> n.val, bits |-> bits]
          [] n.op \in BinOps -> [op |-> n.op, lhs |-> n.left, rhs |-> n.right]]
    \o <<[op |-> "Store", src |-> Len(nodes), bits |-> bits]>>

Reads(inst) ==
    CASE inst.op \in BinOps -> {inst.lhs, inst.rhs}
      [] inst.op = "Store" -> {inst.src}
      [] OTHER -> {}

\* compute_intervals
Intervals(insts) ==
    [v \in 1..(Len(insts) - 1) |->
        [start |-> v,
         end |-> Max({v} \cup {k \in DOMAIN insts : v \in Reads(insts[k])})]]

\* check_program: what it rejects.  The registers a program refers to are in
\* range by construction.
StructurallyValid(insts, numInputs) ==
    /\ insts # <<>>
    /\ Len(insts) <= MaxInsts
    /\ numInputs <= MaxInputs

-----------------------------------------------------------------------------
\* The assembler.  Numbers are little-endian.
LE32(v) == [k \in 1..4 |-> (v \div 256^(k - 1)) % 256]
LE64(v) == LE32(v) \o <<0, 0, 0, 0>>

Flag(b, v) == IF b THEN v ELSE 0
RexByte(w, r, b) == 64 + Flag(w, 8) + Flag(r >= 8, 4) + Flag(b >= 8, 1)
RexIndexed(r, b) == RexByte(FALSE, r, b) + 2
ModRR(r, rm) == 192 + 8 * (r % 8) + (rm % 8)
SibOf(scaleBits, base) == 64 * scaleBits + 8 * (R10 % 8) + (base % 8)

PushRegs == <<85, 72, 137, 229, 83, 65, 86, 65, 87, 72, 131, 236, 8>>
TakeArgs(windows) ==
    IF windows THEN <<72, 137, 203, 73, 137, 214, 77, 137, 199>>
               ELSE <<72, 137, 251, 73, 137, 246, 73, 137, 215>>
Prologue(windows) == PushRegs \o TakeArgs(windows) \o <<77, 49, 210>>

\* Slip: r14 and r15 are restored in the order they were saved.
EpilogueSwapped == <<72, 131, 196, 8, 65, 94, 65, 95, 91, 93, 195>>

Epilogue == <<72, 131, 196, 8, 65, 95, 65, 94, 91, 93, 195>>

CmpR64(l, r) == <<RexByte(TRUE, l, r), 59, ModRR(l, r)>>
JgeRel32(rel) == <<15, 141>> \o LE32(rel)
JmpRel32(rel) == <<233>> \o LE32(rel)
IncR64(r) == <<RexByte(TRUE, 0, r), 255, 192 + (r % 8)>>

LoadInputPtr(dst, base, slot) ==
    <<RexByte(TRUE, dst, base), 139, 128 + 8 * (dst % 8) + (base % 8)>> \o LE32((slot - 1) * 8)

\* A two-register instruction of the F2 and F3 groups; REX only if needed.
Sse(prefix, opcode, dst, src) ==
    <<prefix>>
    \o (IF dst >= 8 \/ src >= 8 THEN <<RexByte(FALSE, dst, src)>> ELSE <<>>)
    \o <<15, opcode, ModRR(dst, src)>>

CvtSs2Sd(x) == Sse(243, 90, x, x)
CvtSd2Ss(x) == Sse(242, 90, x, x)

MovsdLane(opcode, x, base) ==
    <<242, RexIndexed(x, base), 15, opcode, 8 * (x % 8) + 4, SibOf(3, base)>>
MovEaxLane(opcode, base) == <<RexIndexed(RAX, base), opcode, 4, SibOf(2, base)>>

MovdEax(opcode, x) ==
    <<102>> \o (IF x >= 8 THEN <<68>> ELSE <<>>) \o <<15, opcode, ModRR(x, RAX)>>

LoadF32(x, base) == MovEaxLane(139, base) \o MovdEax(110, x) \o CvtSs2Sd(x)
StoreF32(base, x) == CvtSd2Ss(x) \o MovdEax(126, x) \o MovEaxLane(137, base)

MovsdXX(dst, src) == <<242, RexByte(FALSE, dst, src), 15, 16, ModRR(dst, src)>>

MovqImm64(x, bits) ==
    <<72, 184>> \o LE64(bits) \o <<102, RexByte(TRUE, x, 0), 15, 110, ModRR(x, RAX)>>
MovdImm32(x, bits) == <<184>> \o LE32(bits) \o MovdEax(110, x)

SseOpcode == [op \in BinOps |-> CASE op = "Add" -> 88 [] op = "Sub" -> 92
                                  [] op = "Mul" -> 89 [] op = "Div" -> 94]

EmitInst(insts, regs, k) ==
    LET i == insts[k]
        narrow == i.bits = Single.bits
    IN CASE i.op = "Load" ->
              LoadInputPtr(RAX, RBX, i.slot)
                \o (IF narrow THEN LoadF32(regs[k], RAX) ELSE MovsdLane(16, regs[k], RAX))
         [] i.op = "Const" ->
              IF narrow THEN MovdImm32(regs[k], AsBits(Single, i.val)) \o CvtSs2Sd(regs[k])
              ELSE MovqImm64(regs[k], AsBits(Double, i.val))
         [] i.op \in BinOps ->
              (IF regs[k] # regs[i.lhs] THEN MovsdXX(regs[k], regs[i.lhs]) ELSE <<>>)
                \o Sse(242, SseOpcode[i.op], regs[k], regs[i.rhs])
         [] i.op = "Store" ->
              IF narrow THEN StoreF32(R14, regs[i.src]) ELSE MovsdLane(17, regs[i.src], R14)

\* emit_kernel_x86_64: the loop over all elements around the instructions.
\* The two jumps are relative to the byte behind them.
Emit(insts, regs, windows) ==
    LET compare == CmpR64(R10, R15)
        body == FlattenSeq([k \in DOMAIN insts |-> EmitInst(insts, regs, k)]) \o IncR64(R10)
        jumps == Len(JgeRel32(0)) + Len(JmpRel32(0))
    IN Prologue(windows) \o compare \o JgeRel32(Len(body) + Len(JmpRel32(0))) \o body
         \o JmpRel32(-(Len(compare) + jumps + Len(body))) \o Epilogue

=============================================================================
