----------------------------- MODULE GpuDevice -----------------------------
(***************************************************************************)
(* execute_gpu (gpu.rs): the operands are unpacked to 32-bit floats on the *)
(* processor, a shader computes one element per invocation, and the result *)
(* is packed again.  The device itself is external: it rounds every        *)
(* operation to a 32-bit float.                                            *)
(***************************************************************************)
EXTENDS PackedLoop

\* "as f32"
ToSingle(p) == ToDouble(ToLimbs(Float32, 0, p, FALSE), Float32, 0, FALSE)

\* The first elements of the variable's buffer, as many as the result has.
GpuInput(v, size) ==
    LET k == LimbsPerElement(BitWidth(v.dtype))
        raw == UnpackBits(v.packed_data, size, BitWidth(v.dtype))
    IN [n \in 1..size |->
          ToDouble(SubSeq(raw, (n - 1) * k + 1, n * k), v.dtype, v.scale, v.steal_sign)]

\* A constant is printed into the shader with five digits behind the point.
FiveDigits(p) == Fraction(Round(Times(p, Whole(10^5))), 10^5)

\* The shader's expression for every node, each variable a binding of its
\* own: what the shader is given and what it computes is rounded, if single.
Shader(nodes, size, n, single) ==
    LET rounded(p) == IF single THEN ToSingle(p) ELSE p
        eval[k \in DOMAIN nodes] ==
            LET node == nodes[k] IN
            CASE node.op = "Var" -> rounded(GpuInput(node, size)[n])
              [] node.op = "Const" -> rounded(FiveDigits(node.val))
              [] node.op \in BinOps ->
                   rounded(FloatOp(node.op, eval[node.left], eval[node.right]))
    IN eval

RunCompute(nodes, size) ==
    [n \in 1..size |-> Shader(nodes, size, n, TRUE)[Len(nodes)]]

\* Nothing is lost on the way through 32-bit floats.
SinglesSuffice(nodes, size) ==
    \A n \in 1..size :
        LET exact == Shader(nodes, size, n, FALSE)
        IN \A k \in DOMAIN nodes : ToSingle(exact[k]) = exact[k]

\* execute_gpu of an expression.  The type of the result is not widened, and
\* every result has id 0.
GpuResult(e) ==
    LET size == Size(e)
        dtype == DataType(e)
        results == RunCompute(FromExpr(e), size)
    IN IF size = 0 THEN e
       ELSE NewVar(0, dtype, BitWidth(dtype),
                   Packed(dtype, GetScale(e), results, StealSign(e)), <<size>>,
                   GetScale(e), StealSign(e))

=============================================================================
