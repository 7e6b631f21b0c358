------------------------------ MODULE MCSession ------------------------------
(***************************************************************************)
(* Sessions for TensorSession, with bytes of three bits and words of 15:   *)
(* the native widths are 3, 6, 12 and 15.  A float of 12 bits stands for   *)
(* Float(32) and one of 15 for Float(64).                                  *)
(***************************************************************************)
EXTENDS TensorSession

Wholes(s) == [k \in DOMAIN s |-> Whole(s[k])]
Item(kind, bits, values, shape) ==
    [kind |-> kind, bits |-> bits, values |-> values, shape |-> shape, scale |-> NoScale]
List(kind, bits, s) == Item(kind, bits, Wholes(s), <<Len(s)>>)
Floats(bits, s) == List("Float", bits, s)
Ints(bits, s) == List("Int", bits, s)
Nest(over) == [kind |-> "chain", over |-> over]
Alternating(leaves) == Nest([k \in 1..leaves |-> 1 + (k % 2)])
Part(start, stop, step) == [start |-> start, stop |-> stop, step |-> step]

\* A session that combines the items and executes what it gets.
Plain(items, ops, more) ==
    [items |-> items, ops |-> ops, limit |-> Len(items) + more, slices |-> {}, shapes |-> {},
     turns |-> FALSE, api |-> "tensor", consts |-> {}, wrt |-> FALSE, gpu |-> FALSE]
Exprs(items, ops, consts, more) ==
    [Plain(items, ops, more) EXCEPT !.api = "expr", !.consts = consts]
Views(items, ops, slices, shapes, more) ==
    [Plain(items, ops, more) EXCEPT !.turns = TRUE, !.slices = slices, !.shapes = shapes]

OnGpu(s) == [s EXCEPT !.gpu = TRUE]

\* A file with the first n of three integers.
File3(n) == Ints(6, <<-5, 3, 7>>) @@ [stored |-> n]

\* Integers in a file of which the shape shows the first ones only.
Longer(bits, s, shape) == Item("Int", bits, Wholes(s), shape) @@ [stored |-> Len(s)]

\* Floats of both native widths go through the custom JIT; programs that need
\* more than the eight low registers, all of them, too many inputs or too
\* many instructions; constants and derivatives.
JitScenarios ==
    {Plain(<<Floats(12, <<-3, 5>>), Floats(12, <<2, -4>>)>>, {"Sub", "Div"}, 2),
     [Plain(<<Floats(12, <<-4>>), Floats(12, <<6>>)>>, {"Mul"}, 3) EXCEPT !.wrt = TRUE],
     [Plain(<<Floats(12, <<-4>>), Floats(12, <<2>>)>>, {"Div"}, 3) EXCEPT !.wrt = TRUE],
     [Plain(<<Floats(15, <<-4>>)>>, {"Mul"}, 3) EXCEPT !.wrt = TRUE],
     Plain(<<Floats(15, <<-3, 5>>), Floats(15, <<2, -4>>)>>, {"Add"}, 2),
     Plain(<<Floats(12, <<-3, 5>>), Floats(12, <<2, -4>>), Floats(12, <<-1, 6>>),
                Nest(<<1, 2, 3>>), Alternating(9), Alternating(13), Alternating(14),
                Alternating(15)>>, {}, 1),
     Exprs(<<Floats(12, <<-3, 5>>)>>, {"Mul"}, {<<1, 2>>}, 3),
     Exprs(<<Floats(15, <<-3, 5>>)>>, {"Sub"}, {<<3, 1>>}, 3),
     Plain(<<Floats(12, <<-1>>), Floats(15, <<2>>)>>, {"Add"}, 2)}

PackedScenarios ==
    {Plain(<<Ints(4, <<-5, 3, 7>>), Ints(4, <<2, -3, 0>>)>>, BinOps, 2),
     Plain(<<Ints(3, <<-4, 3, 1>>), Ints(6, <<2, -3, 9>>)>>, BinOps, 2),
     Plain(<<Ints(20, <<-70, 30>>), Ints(20, <<20, -3>>)>>, BinOps, 2),
     Plain(<<Ints(30, <<-70, 30>>), Ints(4, <<2, -3>>)>>, {"Add", "Mul"}, 2),
     Plain(<<Ints(12, [k \in 1..7 |-> (k * k) - 20])>>, {"Mul", "Sub"}, 2),
     Plain(<<Floats(10, [k \in 1..10 |-> k - 4]), Floats(10, <<2>>)>>, {"Mul", "Add"}, 2),
     Plain(<<List("ScalableInt", 0, <<5, -3, 1>>), List("ScalableInt", 0, <<1, 2, 1>>)>>,
              {"Sub", "Mul"}, 2),
     Plain(<<Item("ScalableFloat", 0, <<<<3, 2>>, <<-5, 4>>>>, <<2>>),
                Item("ScalableFloat", 0, <<<<1, 2>>, <<3, 1>>>>, <<2>>)>>, BinOps, 2),
     Plain(<<List("FloatingInt", 0, <<12, -7>>), List("FloatingInt", 0, <<3, 4>>)>>,
              {"Add", "Mul"}, 2),
     Plain(<<Ints(4, <<-5, 3>>), Floats(12, <<2, -3>>)>>, {"Add"}, 2),
     Exprs(<<Ints(4, <<-5, 3, 7>>), Ints(4, <<2, 1>>)>>, {"Sub"}, {<<3, 1>>, <<1, 2>>}, 2)}

ViewScenarios ==
    {Views(<<Item("Int", 4, Wholes(<<-5, 3, 7, 1, -2, 4>>), <<2, 3>>)>>, {"Sub"},
           {<<Part(1, 2, 1)>>, <<Part(0, 2, 1), Part(0, 3, 2)>>}, {<<3, 2>>}, 3),
     Views(<<Item("Float", 12, Wholes(<<-5, 3, 7, 1>>), <<2, 2>>)>>, {"Sub"},
           {<<Part(1, 2, 1)>>}, {<<4>>}, 3),
     Plain(<<Item("Int", 4, Wholes(<<-5, 3, 7>>), <<3, 1>>),
                Item("Int", 4, Wholes(<<1, -2>>), <<1, 2>>),
                Item("Int", 4, Wholes(<<1>>), <<1, 1>>)>>, {"Add"}, 2)}

\* The GPU, the C interface, files that were mapped, and arrays that other
\* libraries may look at.
EdgeScenarios ==
    {OnGpu(Plain(<<Floats(12, <<-3, 5>>), Floats(12, <<2, -4>>)>>, {"Div"}, 2)),
     Plain(<<Ints(6, <<1, -2>>), Ints(6, <<3, 4>>) @@ [id |-> 1]>>, {"Add"}, 2),
     Plain(<<Ints(3, <<1, -2>>), Ints(12, <<3, 4>>) @@ [id |-> 1]>>, {"Add"}, 2),
     OnGpu(Plain(<<Ints(4, <<-5, 3>>), Ints(4, <<2, -3>>)>>, {"Mul", "Div"}, 2)),
     OnGpu(Plain(<<Floats(15, <<-129, 3>>), Floats(15, <<1, 2>>)>>, {"Add"}, 2)),
     OnGpu(Exprs(<<Floats(12, <<-3, 5>>), Floats(12, <<2>>)>>, {"Mul"}, {<<1, 2>>, <<1, 3>>}, 2)),
     [Exprs(<<Ints(4, <<-5, 3>>), List("FloatingInt", 0, <<3, -4>>)>>, {"Add"}, {}, 1)
        EXCEPT !.api = "c"],
     Plain(<<File3(3), Ints(6, <<1, -2, 3>>)>>, {"Add"}, 2),
     Plain(<<File3(2), Ints(6, <<1, -2, 3>>)>>, {"Add"}, 2),
     Views(<<Longer(6, <<-5, 3, 7, 1, -2>>, <<2, 2>>),
             Item("Int", 6, Wholes(<<1, -2, 3, 4>>), <<2, 2>>)>>,
           {"Sub"}, {<<Part(1, 2, 1)>>}, {<<4>>}, 2),
     Views(<<Item("Int", 6, Wholes(<<-5, 3, 7, 1>>), <<2, 2>>)>>, {"Sub"},
           {<<Part(1, 2, 1)>>}, {<<4>>, <<2, 2, 2>>}, 2),
     OnGpu(Views(<<Item("Int", 6, Wholes(<<-5, 3, 7, 1>>), <<2, 2>>)>>, {"Sub"},
           {}, {}, 3)),
     Views(<<List("ScalableInt", 0, <<1, -2>>)>>, {"Mul"}, {<<Part(1, 2, 1)>>}, {}, 2)}

TestScenarios == JitScenarios \cup PackedScenarios \cup ViewScenarios \cup EdgeScenarios

=============================================================================
