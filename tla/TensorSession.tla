--------------------------- MODULE TensorSession ---------------------------
(***************************************************************************)
(* A session with the tensor API: tensors are made, viewed, combined,      *)
(* differentiated and executed, and every execution compiles a kernel and  *)
(* runs it, by the custom JIT where it can (fuser.rs, compile_packed_kernel*)
(* and array.rs, execute_expr_on_device).  Cached kernels and the threads  *)
(* that compile are the business of KernelPool; here every call runs the   *)
(* code its own graph compiles to.                                         *)
(*                                                                         *)
(* Beside each tensor stands what it should be: its exact elements, row by *)
(* row, with their derivatives in the variable of id 1 (dual numbers), and *)
(* the reasons the code has, if any, for it to hold something else.        *)
(***************************************************************************)
EXTENDS JitKernel, GpuDevice

CONSTANT Scenarios
(***************************************************************************)
(* A scenario is what a user has at hand: items, the arguments of          *)
(* from_values or the leaves of a nested expression; the slices, shapes    *)
(* and operations used; api, "tensor", "expr" or "c"; wrt and gpu, whether *)
(* derivatives are taken and a GPU is there; limit, how many tensors there *)
(* may be.                                                                 *)
(***************************************************************************)

VARIABLES
    scenario,
    windows,     \* the calling convention of the build
    tensors,     \* the tensors so far: array, truth and excuses
    nextId,      \* BROADCAST_ID_CTR
    phase,       \* "idle", or how far a call is
    native,      \* the custom JIT compiled the kernel of the call
    todo         \* what the call is for, and which operand is executed

sessionVars == <<scenario, windows, tensors, nextId, phase, native, todo>>
vars == <<sessionVars, loopVars, scanVars, machineVars>>

-----------------------------------------------------------------------------
\* Exact tensors.
Gather(t, shape, source(_)) ==
    LET from(k) == Position(t.shape, source(Coordinates(shape, k - 1))) + 1
    IN [shape |-> shape,
        val |-> [k \in 1..Product(shape) |-> t.val[from(k)]],
        slope |-> [k \in 1..Product(shape) |-> t.slope[from(k)]]]

ExactSlice(t, ranges, shape) ==
    Gather(t, shape, LAMBDA c :
        [d \in DOMAIN c |-> IF d \in DOMAIN ranges
                            THEN ranges[d].start + c[d] * ranges[d].step ELSE c[d]])

ExactTranspose(t) == Gather(t, Reverse(t.shape), LAMBDA c : Reverse(c))

ExactSpread(t, shape) ==
    Gather(t, shape, LAMBDA c :
        [d \in DOMAIN t.shape |->
            IF t.shape[d] = 1 THEN 0 ELSE c[d + Len(shape) - Len(t.shape)]])

ExactSlope(op, a, da, b, db) ==
    CASE op \in {"Add", "Sub"} -> FloatOp(op, da, db)
      [] op = "Mul" -> Plus(Times(da, b), Times(a, db))
      [] op = "Div" -> Over(Minus(Times(da, b), Times(a, db)), Times(b, b))

\* A quotient of integers is cut off.
ExactOp(op, s, t, integers) ==
    LET n == IF Len(s.val) > Len(t.val) THEN Len(s.val) ELSE Len(t.val)
        at(q, k) == q[Least(k, Len(q))]
        cut(p) == IF integers /\ op = "Div" /\ p[2] # 0 THEN Whole(Truncate(p)) ELSE p
    IN [shape |-> IF Len(s.val) = n THEN s.shape ELSE t.shape,
        val |-> [k \in 1..n |-> cut(FloatOp(op, at(s.val, k), at(t.val, k)))],
        slope |-> [k \in 1..n |-> ExactSlope(op, at(s.val, k), at(s.slope, k),
                                                 at(t.val, k), at(t.slope, k))]]

\* What the type of a result leaves of an exact number: so many significant
\* bits, never a power of two that the number itself does not reach, nothing
\* outside of the range of the exponents, and integers modulo their width.
Nearest(p, bits, e, flag) ==
    LET m == MantissaBits(bits, e, flag)
        x == Exponent(<<Abs(p[1]), p[2]>>)
        steps == Round(Times(p, Power2(m - x)))
        kept == IF Abs(steps) < 2^(m + 1) THEN steps
                ELSE IF steps < 0 THEN steps + 1 ELSE steps - 1
    IN CASE x + Bias(e) <= 0 -> Whole(0)
         [] x + Bias(e) >= 2^e - 1 -> Inf
         [] OTHER -> Times(Whole(kept), Power2(x - m))

Wrapped(n, bits) == ((n + 2^(bits - 1)) % 2^bits) - 2^(bits - 1)

Rounded(type, p, flag) ==
    CASE p[1] = 0 \/ p[2] = 0 \/ type.kind = "FloatingInt" -> p
      [] p[1] # 0 /\ p[2] # 0 /\ FloatMode(type) ->
           Nearest(p, BitWidth(type), ExponentBits(type), flag)
      [] OTHER -> Whole(Wrapped(Round(p), type.bits))

-----------------------------------------------------------------------------
\* Where an element of a view is, by its shape and strides alone.
Offset(shape, strides, offset, k) == Place(strides, offset, Coordinates(shape, k))

ViewOffset(v, k) == Offset(v.shape, v.bit_strides, v.bit_offset, k)

\* The element of a variable at a position of its view.
ElementOf(v, k) ==
    LET bits == BitWidth(v.dtype)
        left(j) == Least(WordBits, bits - j * WordBits)
        limb(j) == Number(left(j), [b \in 0..(left(j) - 1) |->
                                       v.packed_data[ViewOffset(v, k) + j * WordBits + b]])
    IN ToDouble([j \in 1..LimbsPerElement(bits) |-> limb(j - 1)],
                v.dtype, v.scale, v.steal_sign)

Dense(v) == \A k \in 0..(Product(v.shape) - 1) : ViewOffset(v, k) = k * BitWidth(v.dtype)

\* The strides of an array are those of its variable, for its own shape.
StridesFit(a) ==
    \A k \in 0..(Product(a.shape) - 1) :
        Offset(a.shape, a.bit_strides, a.expr.bit_offset, k) = ViewOffset(a.expr, k)

Vars(nodes) == {nodes[k] : k \in {j \in DOMAIN nodes : nodes[j].op = "Var"}}
Ops(nodes) == {nodes[k].op : k \in DOMAIN nodes}
Consts(nodes) == {nodes[k] : k \in {j \in DOMAIN nodes : nodes[j].op = "Const"}}
Layout(v) == <<v.shape, v.bit_strides, v.bit_offset>>

(***************************************************************************)
(* Why the result of the current call may not be the exact one: what the   *)
(* code leaves out, stated about the graph alone.                          *)
(***************************************************************************)
\* Cranelift counts the rest of the index once for every trailing dimension
\* of size one.
UnitDimension == /\ ~native /\ count > 1
                 /\ \E v \in Vars(graph) : Len(v.shape) > 1 /\ Last(v.shape) = 1

\* Cranelift compiles one layout for each variable.
TwoViews == ~native /\ \E v, w \in Vars(graph) : v.id = w.id /\ Layout(v) # Layout(w)

\* The custom JIT reads a variable as a list of elements as wide as the
\* result, from the start of its buffer.
NotAList == native /\ \E v \in Vars(graph) : v.dtype # target \/ ~Dense(v)

\* The caller is asked for ids, and results of the GPU have none of their own:
\* of two operands with the same one, a kernel only gets the first.
SameId == \E v, w \in Vars(graph) : v.id = w.id /\ v.packed_data # w.packed_data

\* Less was mapped than the variable's size says.
ShortFile == \E v \in Vars(graph) :
                v.size * BitWidth(v.dtype) > Cardinality(DOMAIN v.packed_data)

\* PyExpr combines variables of any two sizes, and arrays of one shape may
\* have variables of two.
ShortOperand == \E v \in Vars(graph) : v.size < count

\* Two limbs are computed on without the sign of a narrower operand, and
\* divided without any.
WideOperands ==
    Wide(target) /\ \/ "Div" \in Ops(graph)
                    \/ \E v \in Vars(graph) : BitWidth(v.dtype) # BitWidth(target)

\* Fixed-point numbers are combined without regard to their scale.
FixedPoint ==
    /\ ~FloatMode(target)
    /\ \E v \in Vars(graph) : v.dtype.kind = "FloatingInt"
    /\ \/ Ops(graph) \cap {"Mul", "Div", "Const"} # {}
       \/ \E v, w \in Vars(graph) : v.scale # w.scale \/ v.dtype.kind # w.dtype.kind

\* An integer kernel takes the bits of a float, and the whole part of a constant.
FloatInInteger ==
    /\ ~FloatMode(target)
    /\ \/ \E v \in Vars(graph) : IsFloat(v.dtype)
       \/ \E c \in Consts(graph) : c.val[2] # 1

Excuses(truth) ==
    {name \in {"unit dimension", "two views", "not a list", "short operand", "same id",
               "wide operands", "fixed point", "float in integer", "stolen sign"} :
        CASE name = "unit dimension" -> UnitDimension
          [] name = "two views" -> TwoViews
          [] name = "not a list" -> NotAList
          [] name = "short operand" -> ShortOperand
          [] name = "same id" -> SameId
          [] name = "wide operands" -> WideOperands
          [] name = "fixed point" -> FixedPoint
          [] name = "float in integer" -> FloatInInteger
          [] name = "stolen sign" -> steal /\ ~NonNegative(truth.val)}

(***************************************************************************)
(* The same for the GPU, which takes every operand for a list as long as   *)
(* the result, computes in 32 bits, and rounds the quotient of integers.   *)
(***************************************************************************)
GpuExcuses(e, truth) ==
    LET nodes == FromExpr(e)
    IN {name \in {"not a list", "short operand", "32 bits", "rounded quotient", "stolen sign"} :
        CASE name = "not a list" -> \E v \in Vars(nodes) : ~Dense(v)
          [] name = "short operand" -> \E v \in Vars(nodes) : v.size < Size(e)
          [] name = "32 bits" -> ~SinglesSuffice(nodes, Size(e))
          [] name = "rounded quotient" -> ~FloatMode(DataType(e)) /\ "Div" \in Ops(nodes)
          [] name = "stolen sign" -> StealSign(e) /\ ~NonNegative(truth.val)}

-----------------------------------------------------------------------------
Idle == phase = "idle"
Room == Len(tensors) < scenario.limit
Tensor(a, truth, excuses) == [array |-> a, truth |-> truth, excuses |-> excuses]
Keep(t) == tensors' = Append(tensors, t)

Zero == [r \in Registers |-> [type |-> NoType, val |-> <<0, 0>>]]
Owned == [r \in Registers |-> CallersOwn(r)]

\* No call is under way.
AtRest ==
    /\ graph = <<>> /\ target = NoType /\ scale = NoScale /\ steal = FALSE
    /\ count = 0 /\ idx = 0 /\ lane = 0 /\ out = <<>> /\ wild = FALSE /\ trapped = FALSE
    /\ intervals = <<>> /\ turn = 1 /\ free = Regs /\ active = {} /\ alloc = <<>>
    /\ spilled = FALSE
    /\ code = <<>> /\ pc = -1 /\ gpr = Owned /\ xmm = Zero /\ stack = <<>> /\ less = FALSE
    /\ native = FALSE

Rest ==
    /\ graph' = <<>> /\ target' = NoType /\ scale' = NoScale /\ steal' = FALSE
    /\ count' = 0 /\ idx' = 0 /\ lane' = 0 /\ out' = <<>> /\ wild' = FALSE /\ trapped' = FALSE
    /\ intervals' = <<>> /\ turn' = 1 /\ free' = Regs /\ active' = {} /\ alloc' = <<>>
    /\ spilled' = FALSE
    /\ code' = <<>> /\ pc' = -1 /\ gpr' = Owned /\ xmm' = Zero /\ stack' = <<>> /\ less' = FALSE
    /\ native' = FALSE

Init ==
    /\ scenario \in Scenarios
    /\ windows \in BOOLEAN
    /\ tensors = <<>>
    /\ nextId = 10000
    /\ phase = "idle"
    /\ todo = <<>>
    /\ AtRest

CallUnchanged == UNCHANGED <<loopVars, scanVars, machineVars, native>>

\* from_values of the next item, or differences of the tensors' expressions,
\* nested to the right: x - (y - (x - ...)).
Listed(v) == Array(v, v.shape, v.bit_strides)

\* A file that another program wrote holds the first item.stored values; the
\* shape may have fewer elements than are mapped (the Python class lets it).
File(item) ==
    Packed(FileType(item.kind, item.bits), item.scale,
           SubSeq(item.values, 1, item.stored), FALSE)

\* The caller chooses the id.
Made(item, id) ==
    LET v == item.values
        mapped == "stored" \in DOMAIN item
        shows == SubSeq(v, 1, Product(item.shape))
        a == CASE mapped -> FromMmap(id, File(item), Len(v), item.shape, item.kind, item.bits,
                                     item.scale)
               [] scenario.api = "tensor" /\ ~mapped ->
                    FromValues(id, v, item.shape, item.kind, item.bits, item.scale)
               [] scenario.api = "expr" ->
                    Listed(ExprVar(id, v, item.kind, item.bits, item.scale))
               [] scenario.api = "c" ->
                    Listed(CExprVar(id, v, item.kind, item.bits, item.scale))
        slope == Whole(IF id = 1 THEN 1 ELSE 0)
    IN Tensor(a, [shape |-> item.shape, val |-> shows,
                  slope |-> [k \in DOMAIN shows |-> slope]],
              IF mapped /\ item.stored < Len(v) THEN {"short file"} ELSE {})

Nested(over) ==
    LET x == tensors[over[1]]
        last == tensors[Last(over)]
        e == FoldRight(LAMBDA k, r : Binary("Sub", tensors[k].array.expr, r),
                       Front(over), last.array.expr)
        truth == FoldRight(LAMBDA k, r : ExactOp("Sub", tensors[k].truth, r, FALSE),
                           Front(over), last.truth)
    IN Tensor(Array(e, x.array.shape, x.array.bit_strides), truth, {})

NewTensor ==
    /\ Idle /\ Len(tensors) < Len(scenario.items)
    /\ LET item == scenario.items[Len(tensors) + 1]
           id == IF "id" \in DOMAIN item THEN item.id ELSE Len(tensors) + 1
       IN Keep(IF item.kind = "chain" THEN Nested(item.over) ELSE Made(item, id))
    /\ UNCHANGED <<scenario, windows, nextId, phase, todo>> /\ CallUnchanged

AllMade == Idle /\ Len(tensors) >= Len(scenario.items) /\ Room

\* Views of what is materialised.  One that is taken with strides that are
\* not those of the variable goes astray.
StaleStrides(t) == IF StridesFit(t.array) THEN {} ELSE {"stale strides"}

Slice(t) ==
    \E ranges \in scenario.slices :
        /\ Len(ranges) <= Len(t.array.shape)
        /\ LET a == SliceAndDice(t.array, ranges)
           IN Keep(Tensor(a, ExactSlice(t.truth, ranges, a.shape),
                          t.excuses \cup StaleStrides(t)))

Turn(t) ==
    /\ scenario.turns
    /\ Keep(Tensor(Transpose(t.array), ExactTranspose(t.truth),
                   t.excuses \cup StaleStrides(t)))

Reshaped(t) ==
    \E shape \in scenario.shapes :
        /\ Product(shape) = Product(t.array.shape) /\ shape # t.array.shape
        /\ Keep(Tensor(Reshape(t.array, shape, ElementBits(t.array)), [t.truth EXCEPT !.shape = shape],
                       t.excuses))

View ==
    /\ AllMade
    /\ \E k \in DOMAIN tensors :
          LET t == tensors[k] IN \/ IsVar(t.array) /\ (Slice(t) \/ Turn(t))
                                 \/ Reshaped(t)
    /\ UNCHANGED <<scenario, windows, nextId, phase, todo>> /\ CallUnchanged

\* grad: the same shape around the derivative.  Second derivatives are not
\* followed.
TakeGrad ==
    /\ AllMade /\ scenario.wrt
    /\ \E k \in DOMAIN tensors :
          LET t == tensors[k]
          IN /\ t.array.expr.op \in BinOps
             /\ \A j \in DOMAIN FromExpr(t.array.expr) :
                    FromExpr(t.array.expr)[j].op # "Const"
             /\ Keep(Tensor(Array(GradOf(t.array.expr, 1), t.array.shape, t.array.bit_strides),
                            [t.truth EXCEPT !.val = t.truth.slope], t.excuses))
    /\ UNCHANGED <<scenario, windows, nextId, phase, todo>> /\ CallUnchanged

\* broadcast_to
Spread(t, shape, id) ==
    Tensor(BroadcastTo(t.array, shape, id), ExactSpread(t.truth, shape),
           t.excuses \cup (IF Dense(t.array.expr) THEN {} ELSE {"spread view"}))

Broadcast ==
    /\ AllMade
    /\ \E k \in DOMAIN tensors, shape \in scenario.shapes :
          /\ IsVar(tensors[k].array)
          /\ Spreadable(tensors[k].array.shape, shape) /\ shape # tensors[k].array.shape
          /\ Keep(Spread(tensors[k], shape, nextId))
    /\ nextId' = nextId + 1
    /\ UNCHANGED <<scenario, windows, phase, todo>> /\ CallUnchanged

-----------------------------------------------------------------------------
\* align_broadcast: each operand is spread to the common shape.  The values
\* are read from the start of the buffer; of an expression that was not
\* executed there are none, and the call panics.
SpreadTo(t, shape, id) ==
    IF t.array.shape = shape THEN t ELSE Spread(t, shape, id)

Spreads(t, shape) == t.array.shape # shape

TensorOp(op, s, t) ==
    LET shape == BroadcastShape(s.array.shape, t.array.shape)
    IN /\ Compatible(s.array.shape, t.array.shape)
       /\ Spreads(s, shape) => IsVar(s.array)
       /\ Spreads(t, shape) => IsVar(t.array)
       /\ LET later == nextId + (IF Spreads(s, shape) THEN 1 ELSE 0)
          IN /\ todo' = [op |-> op, operand |-> 0,
                         args |-> <<SpreadTo(s, shape, nextId), SpreadTo(t, shape, later)>>]
             /\ nextId' = later + (IF Spreads(t, shape) THEN 1 ELSE 0)
       /\ phase' = "align"

Arithmetics ==
    /\ AllMade /\ scenario.api = "tensor"
    /\ \E op \in scenario.ops, j, k \in DOMAIN tensors : TensorOp(op, tensors[j], tensors[k])
    /\ UNCHANGED <<scenario, windows, tensors>> /\ CallUnchanged

Integers2(e) == ~FloatMode(TargetType(e))

Together(op, s, t, a) ==
    Tensor(a, ExactOp(op, s.truth, t.truth, Integers2(a.expr)), s.excuses \cup t.excuses)

\* Both operands are materialised.
Aligned ==
    /\ phase = "align" /\ todo.op \in BinOps
    /\ IsVar(todo.args[1].array) /\ IsVar(todo.args[2].array)
    /\ LET s == todo.args[1]
           t == todo.args[2]
       IN Keep(Together(todo.op, s, t, Combined(todo.op, s.array, t.array)))
    /\ phase' = "idle" /\ todo' = <<>>
    /\ UNCHANGED <<scenario, windows, nextId>> /\ CallUnchanged

\* PyExpr::add and its siblings, and constants.
ExprOp ==
    /\ AllMade /\ scenario.api \in {"expr", "c"}
    /\ \/ \E op \in scenario.ops, j, k \in DOMAIN tensors :
             LET s == tensors[j]
                 t == tensors[k]
                 e == Binary(op, s.array.expr, t.array.expr)
             IN Keep(Together(op, s, t, Array(e, <<Size(e)>>, <<>>)))
       \/ \E p \in scenario.consts :
             Keep(Tensor(Array(ConstExpr(p), <<1>>, <<>>),
                         [shape |-> <<1>>, val |-> <<p>>, slope |-> <<Whole(0)>>], {}))
    /\ UNCHANGED <<scenario, windows, nextId, phase, todo>> /\ CallUnchanged

-----------------------------------------------------------------------------
\* execute_expr_on_device, up to the kernel's compilation.
Call(e) ==
    /\ StartCall(e)
    /\ phase' = "compile"
    /\ UNCHANGED <<scenario, windows, tensors, nextId, scanVars, machineVars, native>>

Execute ==
    /\ AllMade
    /\ \E k \in DOMAIN tensors :
          /\ tensors[k].array.expr.op \in BinOps
          /\ todo' = [op |-> "Execute", operand |-> 1, args |-> <<tensors[k]>>]
          /\ Call(tensors[k].array.expr)

\* align_broadcast executes what is not materialised, the left one first.
ExecuteOperand ==
    /\ phase = "align" /\ todo.op \in BinOps
    /\ \E k \in {1, 2} :
          /\ ~IsVar(todo.args[k].array)
          /\ k = 2 => IsVar(todo.args[1].array)
          /\ todo' = [todo EXCEPT !.operand = k]
          /\ Call(todo.args[k].array.expr)

CallParams == <<graph, target, scale, steal, count>>
Session == <<scenario, windows, tensors, nextId, todo>>

Bits == BitWidth(target)
Program == Lower(graph, Bits)

Compile ==
    /\ phase = "compile"
    /\ IF Lowerable(graph, target)
       THEN StartScan(Intervals(Program)) /\ phase' = "scan"
       ELSE UNCHANGED scanVars /\ phase' = "loop"
    /\ UNCHANGED <<Session, native, loopVars, machineVars>>

AllocateRegister ==
    /\ phase = "scan" /\ ScanNext
    /\ UNCHANGED <<Session, phase, native, loopVars, machineVars>>

Accepted ==
    /\ phase = "scan" /\ ~Scanning /\ ~spilled
    /\ StructurallyValid(Program, Len(InputSlots(graph)))

\* The code is written to a page that is made executable.
SealAndRun ==
    /\ Accepted
    /\ CallKernel(Emit(Program, alloc, windows), windows)
    /\ phase' = "native" /\ native' = TRUE
    /\ UNCHANGED <<Session, loopVars, scanVars>>

\* No registers left, a program too large, or no page: Cranelift compiles.
FallBack ==
    /\ phase = "scan" /\ ~Scanning
    /\ phase' = "loop"
    /\ UNCHANGED <<Session, native, loopVars, scanVars, machineVars>>

RunNative ==
    /\ phase = "native" /\ Instruction
    /\ phase' = IF pc' = -1 THEN "done" ELSE "native"
    /\ UNCHANGED <<Session, native, CallParams, idx, lane, trapped, scanVars>>

RunLoop ==
    /\ phase = "loop" /\ ~trapped
    /\ \/ UnrolledBody /\ UNCHANGED phase
       \/ CleanupBody /\ UNCHANGED phase
       \/ LoopDone /\ phase' = "done" /\ UNCHANGED loopVars
    /\ UNCHANGED <<Session, native, scanVars, machineVars>>

\* What is left of exact elements in the type of the result.
Stored(truth, type, flag) ==
    [truth EXCEPT !.val = [k \in DOMAIN @ |-> Rounded(type, @[k], flag)],
                  !.slope = [k \in DOMAIN @ |-> Whole(0)]]

ExecuteOnGpu ==
    /\ AllMade /\ scenario.gpu
    /\ \E k \in DOMAIN tensors :
          LET t == tensors[k]
              e == t.array.expr
          IN /\ e.op \in BinOps
             /\ Keep(Tensor(Array(GpuResult(e), t.array.shape, t.array.bit_strides),
                            Stored(t.truth, DataType(e), StealSign(e)),
                            t.excuses \cup GpuExcuses(e, t.truth)))
    /\ UNCHANGED <<scenario, windows, nextId, phase, todo>> /\ CallUnchanged

\* The output becomes a variable of its own, in the shape of the array.
Result ==
    LET arg == todo.args[todo.operand]
        v == NewVar(nextId, target, Bits, out, <<count>>, scale, steal)
    IN Tensor(Array(v, arg.array.shape, arg.array.bit_strides),
              Stored(arg.truth, target, steal), arg.excuses \cup Excuses(arg.truth))

Finish ==
    /\ phase = "done"
    /\ IF todo.op = "Execute"
       THEN Keep(Result) /\ todo' = <<>> /\ phase' = "idle"
       ELSE /\ todo' = [todo EXCEPT !.args[todo.operand] = Result]
            /\ phase' = "align" /\ UNCHANGED tensors
    /\ nextId' = nextId + 1
    /\ Rest
    /\ UNCHANGED <<scenario, windows>>

\* Between two calls the user may stop; behind a trap there is no process.  In
\* any other state something must be able to go on: TLC looks for deadlocks.
Stop == (Idle \/ trapped) /\ UNCHANGED vars

Next == \/ NewTensor \/ View \/ Broadcast \/ TakeGrad \/ Arithmetics \/ Aligned \/ ExprOp
        \/ Execute \/ ExecuteOperand \/ ExecuteOnGpu
        \/ Compile \/ AllocateRegister \/ SealAndRun \/ FallBack
        \/ RunNative \/ RunLoop \/ Finish
        \/ Stop

Spec == Init /\ [][Next]_vars

-----------------------------------------------------------------------------
\* Only what tells a well-formed state: every tensor wraps a variable, a
\* constant or an expression and should have as many elements as its shape
\* says, and a call's words stay in the range the code's types give them
\* (array.rs, NumToyArray; jit/ir.rs, NtProgram).
SessionTypeOK ==
    /\ scenario \in Scenarios /\ windows \in BOOLEAN /\ nextId \in Nat
    /\ phase \in {"idle", "align", "compile", "scan", "native", "loop", "done"}
    /\ Idle <=> todo = <<>>
    /\ Idle => \A t \in {tensors[k] : k \in DOMAIN tensors} :
                  /\ Len(t.truth.val) = Product(t.truth.shape)
                  /\ IsVar(t.array) =>
                       Len(t.array.expr.bit_strides) = Len(t.array.expr.shape)
    /\ count \in Nat /\ idx \in 0..count /\ lane \in 0..(Unroll - 1)
    /\ \A b \in DOMAIN out : out[b] \in {0, 1}
    /\ pc \in -1..(Len(code) - 1)
    /\ code \in Seq(0..255)
    /\ ScanTypeOK

(***************************************************************************)
(* An array that was executed, spread or viewed, and for which the code has*)
(* none of the named reasons, holds the elements it should hold, in its own*)
(* layout; and reading it as a list (to_flat_f64, array.rs) gives the same *)
(* elements where its layout is that of a list.  The paths it relates: the *)
(* codecs, the packing, both compilers, views, broadcasting and gradients. *)
(***************************************************************************)
ResultsExplained ==
    Idle => \A t \in {tensors[k] : k \in DOMAIN tensors} :
        IsVar(t.array) /\ t.excuses = {} =>
            \A k \in DOMAIN t.truth.val :
                t.truth.val[k][2] # 0 =>
                    /\ ElementOf(t.array.expr, k - 1) = t.truth.val[k]
                    /\ Dense(t.array.expr) => ToFlat(t.array)[k] = t.truth.val[k]

(***************************************************************************)
(* No kernel touches a byte outside of its operands and its output         *)
(* (execute_expr_on_device hands it raw pointers, array.rs), unless its    *)
(* operands are of different lengths or of one id, less of a file is there *)
(* than was said, or Cranelift's index arithmetic or the JIT's idea of a   *)
(* list is wrong about one of them.                                        *)
(***************************************************************************)
InBounds == wild => \/ UnitDimension \/ ShortOperand \/ NotAList
                    \/ SameId \/ ShortFile

(***************************************************************************)
(* What an array shows to other libraries in place (__array_interface__)   *)
(* is inside of its buffer, if all of the file behind it is there; and     *)
(* where the array's strides are its variable's, it is what the array      *)
(* should hold.                                                            *)
(***************************************************************************)
ExportsHonest ==
    Idle /\ scenario.api = "tensor" =>
        \A t \in {tensors[k] : k \in DOMAIN tensors} :
            LET a == t.array
                bits == BitWidth(a.expr.dtype)
                at(k) == ExportedAt(a, Coordinates(a.shape, k - 1))
                element(k) == Number(bits, [b \in 0..(bits - 1) |->
                                               a.expr.packed_data[at(k) + b]])
            IN Exportable(a) /\ "short file" \notin t.excuses =>
                 \A k \in DOMAIN t.truth.val :
                    /\ at(k)..(at(k) + bits - 1) \subseteq DOMAIN a.expr.packed_data
                    /\ t.excuses = {} /\ t.truth.val[k][2] # 0 /\ StridesFit(a) =>
                         ToDouble(<<element(k)>>, a.expr.dtype, a.expr.scale, FALSE)
                             = t.truth.val[k]

(***************************************************************************)
(* A kernel of the custom JIT returns to its caller with every general     *)
(* register that its prologue saves as the caller left it, and the stack   *)
(* empty (emit.rs, prologue and epilogue).                                 *)
(***************************************************************************)
CalleeSaved == {RBX, 5, 12, 13, R14, R15}
CallerKeeps ==
    native /\ pc = -1 =>
        /\ stack = <<>>
        /\ \A r \in CalleeSaved : gpr[r] = CallersOwn(r)

=============================================================================
