------------------------------ MODULE FgslCode -------------------------------
(***************************************************************************)
(* Code generation of the FGSL shader compiler (fglsl.h): the values it    *)
(* passes around instead of registers, temporaries, the pool of constants, *)
(* jumps, stores and expressions; and the machine that runs its code       *)
(* (fgpu_abi.h).                                                           *)
(*                                                                         *)
(* A vector has Lanes components (4 in the code) and they hold integers:   *)
(* rounding, and the functions that need more than integers, are left out. *)
(* The operand of an instruction is a record, and a program counter the    *)
(* number of instructions before.                                          *)
(***************************************************************************)
EXTENDS Integers, Sequences, FiniteSets, SequencesExt

CONSTANTS
    None,
    Lanes,      \* components of a vector
    MaxTemps,   \* FGPU_SHADER_MAX_TEMPS
    MaxCode,    \* FGPU_SHADER_MAX_INSTRUCTIONS
    MaxPool     \* FGPU_SHADER_MAX_CONSTANTS

Lane == 1..Lanes
Identity == [l \in Lane |-> l]
Count == [l \in Lane |-> l]

\* Types: Void, 1 to Lanes for a float and vectors, Mat, Sampler.
Void == 0
Mat == Lanes * Lanes
Sampler == 32
Vectors == 1..Lanes
Regs(type) == IF type = Mat THEN Lanes ELSE 1

-----------------------------------------------------------------------------
(* The machine: what an instruction does.                                  *)

Pending == 0 - 1       \* the target of a jump that is not placed yet
Jumps == {"jmp", "jz"}
NoWrite == Jumps \cup {"kill", "nop"}

IntAbs(x) == IF x < 0 THEN 0 - x ELSE x
IntMin(x, y) == IF x < y THEN x ELSE y
IntMax(x, y) == IF x < y THEN y ELSE x
Truth(b) == IF b THEN 1 ELSE 0
Quotient(x, y) == IF y = 0 THEN 0 ELSE IF (x < 0) = (y < 0) THEN IntAbs(x) \div IntAbs(y)
                                       ELSE 0 - (IntAbs(x) \div IntAbs(y))
Dot(n, x, y) == FoldLeft(LAMBDA sum, l : sum + x[l] * y[l], 0, SubSeq(Count, 1, n))

Operation(op, n, x, y, z, l) ==
    CASE op = "mov" -> x[l]
      [] op = "add" -> x[l] + y[l]
      [] op = "sub" -> x[l] - y[l]
      [] op = "mul" -> x[l] * y[l]
      [] op = "div" -> Quotient(x[l], y[l])
      [] op = "mad" -> x[l] * y[l] + z[l]
      [] op = "min" -> IntMin(x[l], y[l])
      [] op = "max" -> IntMax(x[l], y[l])
      [] op = "dp" -> Dot(n, x, y)
      [] op = "floor" -> x[l]
      [] op = "sign" -> IF x[l] < 0 THEN 0 - 1 ELSE Truth(x[l] > 0)
      [] op = "clamp" -> IntMin(IntMax(x[l], y[l]), z[l])
      [] op = "slt" -> Truth(x[l] < y[l])
      [] op = "sle" -> Truth(x[l] <= y[l])
      [] op = "seq" -> Truth(x[l] = y[l])
      [] op = "sne" -> Truth(x[l] # y[l])
      [] op = "sel" -> IF x[l] # 0 THEN y[l] ELSE z[l]
      [] op = "tex" -> n + x[1]   \* texture n, at x

\* A source operand: a register, its swizzle, abs, negate.
Fetch(m, s) ==
    IF s.file = "none" THEN [l \in Lane |-> 0]
    ELSE LET Of(l) == LET x == m[s.file][s.index][s.sw[l]]
                          y == IF s.abs THEN IntAbs(x) ELSE x
                      IN IF s.neg THEN 0 - y ELSE y
         IN [l \in Lane |-> Of(l)]

\* One instruction; m.resume is where a jump that was taken lands, and a
\* jump that is not placed yet leaves the code.
Instruction(m, in) ==
    LET at == [m EXCEPT !.pc = @ + 1]
        far == IF in.dst = Pending THEN MaxCode + 1 ELSE in.dst
        n == IF in.op = "tex" THEN m.unit[in.n] ELSE in.n
        x == Fetch(m, in.a)
        y == Fetch(m, in.b)
        z == Fetch(m, in.c)
    IN CASE m.killed \/ m.pc < m.resume \/ in.op = "nop" -> at
         [] ~(m.killed \/ m.pc < m.resume) /\ in.op = "kill" -> [at EXCEPT !.killed = x[1] # 0]
         [] ~(m.killed \/ m.pc < m.resume) /\ in.op = "jmp" -> [at EXCEPT !.resume = far]
         [] ~(m.killed \/ m.pc < m.resume) /\ in.op = "jz" ->
                [at EXCEPT !.resume = IF x[1] = 0 THEN far ELSE @]
         [] OTHER ->
                [at EXCEPT ![in.dst.file][in.dst.index] =
                    [l \in Lane |-> IF l \in in.dst.mask THEN Operation(in.op, n, x, y, z, l)
                                    ELSE @[l]]]

Run(m, code) == FoldLeft(Instruction, m, code)

-----------------------------------------------------------------------------
(* Values, temporaries, instructions.                                      *)

\* fglsl_program_t: what of it the compilation of a stage changes.
\* The pool and the most temporaries used are common to both stages; rets,
\* brk and cont are the jumps that wait for the end of the function and of
\* the loop around (None: there is none).
Empty(fragment, pool, max) ==
    [code |-> <<>>, label |-> 0 - 1, pool |-> pool, ntemp |-> 0, max |-> max,
     syms |-> <<>>, scope |-> 0, err |-> FALSE, fragment |-> fragment, depth |-> 0,
     rets |-> {}, rettype |-> 0, retval |-> None, brk |-> None, cont |-> None]

Fail(c) == [c EXCEPT !.err = TRUE]

MkVal(file, index, type) ==
    [file |-> file, index |-> index, type |-> type, count |-> 0, sw |-> Identity,
     neg |-> FALSE, abs |-> FALSE, lvalue |-> FALSE, fresh |-> FALSE]
NoVal == MkVal("none", 0, 1)
WithVal(c, v) == [c |-> c, v |-> v]
Then(r, Rest(_, _)) == Rest(r.c, r.v)

\* A number of consecutive temporaries, counted from the next free one.
Temp(c, regs) ==
    LET n == c.ntemp + regs
    IN IF n > MaxTemps THEN Fail([c EXCEPT !.ntemp = 0])
                       ELSE [c EXCEPT !.ntemp = n, !.max = IntMax(@, n)]

NewTemp(c, type) ==
    WithVal(Temp(c, Regs(type)), [MkVal("temp", c.ntemp, type) EXCEPT !.fresh = TRUE])

\* Repeats the last component in the lanes a shorter vector does not have.
Bcast(v) ==
    IF v.type \in Vectors
    THEN [v EXCEPT !.sw = [l \in Lane |-> @[IntMin(l, v.type)]]] ELSE v

Src(v) == LET w == Bcast(v)
          IN [file |-> v.file, index |-> v.index, sw |-> w.sw, abs |-> v.abs, neg |-> v.neg]
Dst(file, index, mask) == [file |-> file, index |-> index, mask |-> mask]

EmitN(c, op, n, dst, x, y, z) ==
    IF c.err \/ Len(c.code) >= MaxCode THEN Fail(c)
    ELSE [c EXCEPT !.code = Append(@,
            [op |-> op, n |-> n, dst |-> dst, a |-> Src(x), b |-> Src(y), c |-> Src(z)])]
Emit(c, op, dst, x, y, z) == EmitN(c, op, 0, dst, x, y, z)

\* Bug: the last jump is dropped even when another one lands behind it.
PatchDropsLanding(c, list) ==
    LET Goes(k) == \A j \in (Len(c.code) - k + 1)..Len(c.code) :
                       j - 1 \in list /\ c.code[j].op = "jmp"
        gone == CHOOSE k \in 0..Len(c.code) : Goes(k) /\ ~(k < Len(c.code) /\ Goes(k + 1))
        end == Len(c.code) - gone
    IN [c EXCEPT !.label = end,
                 !.code = [i \in 1..end |-> IF i - 1 \in list THEN [@[i] EXCEPT !.dst = end]
                                                              ELSE @[i]]]

\* Places pending jumps here.  Those at the very end of the code only jump
\* to what follows and go, unless another jump lands behind them.
Patch(c, list) ==
    LET Goes(k) == \A j \in (Len(c.code) - k + 1)..Len(c.code) :
                       j - 1 \in list /\ c.code[j].op = "jmp" /\ c.label # j
        gone == CHOOSE k \in 0..Len(c.code) : Goes(k) /\ ~(k < Len(c.code) /\ Goes(k + 1))
        end == Len(c.code) - gone
    IN [c EXCEPT !.label = end,
                 !.code = [i \in 1..end |-> IF i - 1 \in list THEN [@[i] EXCEPT !.dst = end]
                                                              ELSE @[i]]]

-----------------------------------------------------------------------------
(* The pool of constants: rows of up to Lanes numbers.                     *)

InPool(r, k) == [MkVal("const", r - 1, 1) EXCEPT !.sw = [l \in Lane |-> k]]
NewRow(c, vals) ==
    IF Len(c.pool) >= MaxPool THEN WithVal(Fail(c), NoVal)
    ELSE WithVal([c EXCEPT !.pool = Append(@, vals)],
                 IF Len(vals) = 1 THEN InPool(Len(c.pool) + 1, 1)
                                  ELSE MkVal("const", Len(c.pool), Len(vals)))

\* One number is looked for anywhere and put into a row that has room.
ScalarConst(c, x) ==
    LET last == Len(c.pool)
        hits == {h \in (1..last) \X Lane : h[2] <= Len(c.pool[h[1]]) /\ c.pool[h[1]][h[2]] = x}
    IN IF hits # {} THEN LET h == CHOOSE h \in hits : \A g \in hits :
                                      h[1] < g[1] \/ (h[1] = g[1] /\ h[2] <= g[2])
                         IN WithVal(c, InPool(h[1], h[2]))
       ELSE IF last > 0 /\ Len(c.pool[last]) < Lanes
       THEN WithVal([c EXCEPT !.pool[last] = Append(@, x)], InPool(last, Len(c.pool[last]) + 1))
       ELSE NewRow(c, <<x>>)

\* A vector only at the start of a row.
Const(c, vals) ==
    IF Len(vals) = 1 THEN ScalarConst(c, vals[1])
    ELSE LET hits == {r \in DOMAIN c.pool : Len(c.pool[r]) >= Len(vals)
                                            /\ SubSeq(c.pool[r], 1, Len(vals)) = vals}
         IN IF hits = {} THEN NewRow(c, vals)
            ELSE WithVal(c, MkVal("const", (CHOOSE r \in hits : \A q \in hits : r <= q) - 1, Len(vals)))

Scalar(c, x) == Const(c, <<x>>)
IsConst(v) == v.file = "const" /\ v.type \in Vectors

\* The components of a constant, as many as its type has.
ConstValue(c, v) ==
    LET Of(l) == LET x == c.pool[v.index + 1][v.sw[l]]
                     y == IF v.abs THEN IntAbs(x) ELSE x
                 IN IF v.neg THEN 0 - y ELSE y
    IN [l \in 1..v.type |-> Of(l)]

-----------------------------------------------------------------------------
(* Symbols.                                                                *)

SelectLast(s, Test(_)) == LET I == {i \in DOMAIN s : Test(s[i])}
                          IN IF I = {} THEN 0 ELSE CHOOSE i \in I : \A j \in I : j <= i
Find(c, name) == SelectLast(c.syms, LAMBDA s : s.name = name)

Declare(c, name, v) ==
    IF \E s \in Range(c.syms) : s.name = name /\ s.scope = c.scope THEN Fail(c)
    ELSE [c EXCEPT !.syms = Append(@, [name |-> name, scope |-> c.scope,
                                       v |-> [v EXCEPT !.fresh = FALSE]])]

-----------------------------------------------------------------------------
(* Stores and operations.                                                  *)

\* Column or register i (from 0) of a matrix.
Column(v, i) == [v EXCEPT !.index = @ + i, !.type = Lanes]
Writable(v) == [v EXCEPT !.lvalue = TRUE]
Stale(v) == [v EXCEPT !.fresh = FALSE]

\* Bug: the last instruction is taken over although it wrote a variable.
CanRetargetVariable(c, lv, v, needed) ==
    /\ v.file = "temp" /\ ~v.neg /\ ~v.abs
    /\ \A i \in 1..lv.type : v.sw[i] = lv.sw[i]
    /\ c.code # <<>> /\ c.label # Len(c.code)
    /\ LET last == Last(c.code)
       IN /\ last.op \notin NoWrite
          /\ last.dst.file = "temp" /\ last.dst.index = v.index /\ needed \subseteq last.dst.mask

\* The last instruction may write lv itself instead of the temporary v.
CanRetarget(c, lv, v, needed) ==
    /\ v.fresh /\ v.file = "temp" /\ ~v.neg /\ ~v.abs
    /\ \A i \in 1..lv.type : v.sw[i] = lv.sw[i]
    /\ c.code # <<>> /\ c.label # Len(c.code)
    /\ LET last == Last(c.code)
       IN /\ last.op \notin NoWrite
          /\ last.dst.file = "temp" /\ last.dst.index = v.index /\ needed \subseteq last.dst.mask

\* fglsl__store, component by component through the swizzles of both.
Store(c, lv, value) ==
    LET v == IF value.type = 1 /\ lv.type \in Vectors THEN Bcast(value) ELSE value
        lanes == 1..lv.type
        mask == {lv.sw[i] : i \in lanes}
        needed == {v.sw[i] : i \in lanes}
        From(l) == IF \E i \in lanes : lv.sw[i] = l THEN v.sw[CHOOSE i \in lanes : lv.sw[i] = l] ELSE 1
        moved == [v EXCEPT !.sw = [l \in Lane |-> From(l)], !.type = Lanes]
    IN CASE c.err \/ ~lv.lvalue -> Fail(c)
         [] ~c.err /\ lv.lvalue /\ ~(value.type = 1 /\ lv.type \in Vectors) /\ value.type # lv.type -> Fail(c)
         [] ~c.err /\ lv.lvalue /\ lv.type = Mat /\ value.type = Mat ->
                FoldLeft(LAMBDA d, i : Emit(d, "mov", Dst(lv.file, lv.index + i - 1, Lane),
                                            Column(v, i - 1), NoVal, NoVal), c, Count)
         [] OTHER ->
                IF Cardinality(mask) < lv.type THEN Fail(c)
                ELSE IF CanRetarget(c, lv, v, needed)
                THEN [c EXCEPT !.code[Len(c.code)].dst = Dst(lv.file, lv.index, mask)]
                ELSE Emit(c, "mov", Dst(lv.file, lv.index, mask), moved, NoVal, NoVal)

\* fglsl__op1 to fglsl__op3: an operation into a new temporary.
Op(c, op, x, y, z, type) ==
    Then(NewTemp(c, type),
         LAMBDA d, r : WithVal(Emit(d, op, Dst("temp", r.index, 1..type), x, y, z), r))
Op2(c, op, x, y, type) == Op(c, op, x, y, NoVal, type)
DotProduct(c, n, x, y) ==
    IF n = 1 THEN Op2(c, "mul", x, y, 1)
    ELSE Then(NewTemp(c, 1),
              LAMBDA d, r : WithVal(EmitN(d, "dp", n, Dst("temp", r.index, {1}), x, y, NoVal), r))

OneLane(v, i) == [v EXCEPT !.type = 1, !.sw = [l \in Lane |-> v.sw[i]]]

\* Sum of the columns of m, each times a component of v.
MatVec(c, m, v) ==
    Then(NewTemp(c, Lanes), LAMBDA e, r : WithVal(
        FoldLeft(LAMBDA d, i : Emit(d, IF i = 1 THEN "mul" ELSE "mad", Dst("temp", r.index, Lane),
                                    Column(m, i - 1), OneLane(v, i), IF i = 1 THEN NoVal ELSE r), e, Count),
        r))

MatMat(c, m, k) ==
    Then(NewTemp(c, Mat), LAMBDA e, r : WithVal(
        FoldLeft(LAMBDA d, j : [Then(MatVec(d, m, Column(k, j - 1)),
                                     LAMBDA f, v : Store(f, Writable(Column(r, j - 1)), v))
                                EXCEPT !.ntemp = d.ntemp], e, Count),
        Stale(r)))

VecMat(c, v, m) ==
    Then(NewTemp(c, Lanes), LAMBDA e, r : WithVal(
        FoldLeft(LAMBDA d, i : EmitN(d, "dp", Lanes, Dst("temp", r.index, {i}), v, Column(m, i - 1), NoVal),
                 e, Count),
        r))

\* The type of a component by component operation; 0 if there is none.
Wide(x, y) == IF x.type = 1 THEN y.type ELSE IF y.type = 1 \/ x.type = y.type THEN x.type ELSE 0
VecOnly(v) == v.type \in Vectors /\ v.count = 0

Arithmetic == [t \in {"+", "-", "*", "/"} |->
    CASE t = "+" -> "add" [] t = "-" -> "sub" [] t = "*" -> "mul" [] t = "/" -> "div"]
Logic == [t \in {"<", ">", "<=", ">=", "==", "!=", "&&", "||"} |->
    CASE t \in {"<", ">"} -> "slt" [] t \in {"<=", ">="} -> "sle" [] t = "==" -> "seq"
      [] t = "!=" -> "sne" [] t = "&&" -> "mul" [] t = "||" -> "max"]

Folded(c, tok, x, y) ==
    LET n == Wide(x, y)
        Wider(v) == ConstValue(c, [Bcast(v) EXCEPT !.type = n])
        Folds(p, q) == [l \in 1..n |-> Operation(Arithmetic[tok], 0, p, q, p, l)]
    IN Const(c, Folds(Wider(x), Wider(y)))

Binary(c, tok, x, y) ==
    LET type == Wide(x, y)
        swap == tok \in {">", ">="}
    IN CASE c.err \/ x.count # 0 \/ y.count # 0 -> WithVal(Fail(c), x)
         [] ~c.err /\ x.count = 0 /\ y.count = 0 /\ tok = "*" /\ Mat \in {x.type, y.type} ->
                IF x.type = Mat /\ y.type = Lanes THEN MatVec(c, x, y)
                ELSE IF x.type = Mat /\ y.type = Mat THEN MatMat(c, x, y)
                ELSE IF x.type = Lanes THEN VecMat(c, x, y) ELSE WithVal(Fail(c), x)
         [] OTHER ->
                IF ~VecOnly(x) \/ ~VecOnly(y) \/ type = 0 THEN WithVal(Fail(c), x)
                ELSE IF tok \in DOMAIN Arithmetic
                THEN IF IsConst(x) /\ IsConst(y) THEN Folded(c, tok, x, y)
                                                 ELSE Op2(c, Arithmetic[tok], x, y, type)
                ELSE IF type # 1 THEN WithVal(Fail(c), x)
                ELSE Op2(c, Logic[tok], IF swap THEN y ELSE x, IF swap THEN x ELSE y, 1)

-----------------------------------------------------------------------------
(* Index, swizzle, constructors and functions.                             *)

Index(c, v, ix) ==
    IF ~(IsConst(ix) /\ ix.type = 1) THEN WithVal(Fail(c), v)
    ELSE LET i == ConstValue(c, ix)[1]
             size == IF v.count > 0 THEN v.count ELSE IF v.type = Mat THEN Lanes ELSE v.type
         IN IF i < 0 \/ i >= size \/ (v.count = 0 /\ v.type \notin (2..Lanes) \cup {Mat})
            THEN WithVal(Fail(c), v)
            ELSE WithVal(c, CASE v.count > 0 -> [v EXCEPT !.index = @ + i * Regs(v.type), !.count = 0]
                              [] v.count = 0 /\ v.type = Mat -> Column(v, i)
                              [] OTHER -> OneLane(v, i + 1))

Swizzle(c, v, lanes) ==
    IF ~VecOnly(v) \/ ~(Range(lanes) \subseteq 1..v.type) THEN WithVal(Fail(c), v)
    ELSE WithVal(c, [v EXCEPT !.type = Len(lanes),
                              !.sw = [l \in Lane |-> IF l <= Len(lanes) THEN v.sw[lanes[l]] ELSE @[l]],
                              !.lvalue = @ /\ IsInjective(lanes)])

\* Columns, or a diagonal.
Diagonal(c, r, zero, x) ==
    FoldLeft(LAMBDA d, i : Store(Store(d, Writable(Column(r, i - 1)), zero),
                                 [Writable(Column(r, i - 1)) EXCEPT !.type = 1, !.sw[1] = i], x),
             c, Count)
MatConstructor(c, args) ==
    IF Len(args) = Lanes /\ \A i \in Lane : args[i].type = Lanes
    THEN Then(NewTemp(c, Mat), LAMBDA e, r :
            WithVal(FoldLeft(LAMBDA d, i : Store(d, Writable(Column(r, i - 1)), args[i]), e, Count), Stale(r)))
    ELSE IF Len(args) = 1 /\ args[1].type = 1
    THEN Then(NewTemp(c, Mat), LAMBDA e, r : Then(Scalar(e, 0), LAMBDA d, zero :
            WithVal(Diagonal(d, r, zero, args[1]), Stale(r))))
    ELSE WithVal(Fail(c), NoVal)

\* The components of several arguments, one after the other.
Concatenation(c, type, args) ==
    LET Start(i) == FoldLeft(LAMBDA sum, v : sum + v.type, 0, SubSeq(args, 1, i - 1))
        Taken(i) == IntMin(args[i].type, type - Start(i))
        used == SelectSeq([i \in DOMAIN args |-> i], LAMBDA i : Taken(i) > 0)
        r == NewTemp(c, type)
        Part(i) == [Writable(r.v) EXCEPT !.type = Taken(i),
                      !.sw = [l \in Lane |-> IF l <= Taken(i) THEN Start(i) + l ELSE @[l]]]
        Put(d, i) == Store(d, Part(i), [Stale(args[i]) EXCEPT !.type = Taken(i)])
    IN IF Start(Len(args) + 1) < type \/ \E i \in DOMAIN args : ~VecOnly(args[i])
       THEN WithVal(Fail(c), NoVal)
       ELSE IF \A i \in DOMAIN args : IsConst(args[i])
       THEN Const(c, SubSeq(FlattenSeq([i \in DOMAIN args |-> ConstValue(c, args[i])]), 1, type))
       ELSE WithVal(FoldLeft(Put, r.c, used), Stale(r.v))

Constructor(c, type, args) ==
    IF type = Mat THEN MatConstructor(c, args)
    ELSE IF Len(args) = 1 /\ args[1].type \in Vectors /\ args[1].type >= type
    THEN WithVal(c, [args[1] EXCEPT !.type = type, !.lvalue = FALSE])
    ELSE IF Len(args) = 1 /\ args[1].type = 1
    THEN WithVal(c, [Bcast(args[1]) EXCEPT !.type = type, !.lvalue = FALSE])
    ELSE Concatenation(c, type, args)

Types == [n \in {"float", "vec2", "vec3", "vec4", "mat4"} |->
    CASE n = "float" -> 1 [] n = "vec2" -> 2 [] n = "vec3" -> 3 [] n = "vec4" -> Lanes [] n = "mat4" -> Mat]

Arity == [n \in {"abs", "sign", "ceil", "min", "max", "clamp", "dot", "reflect", "int", "bool", "texture"} |->
    CASE n \in {"abs", "sign", "ceil", "int", "bool"} -> 1 [] n = "clamp" -> 3 [] OTHER -> 2]

Negated(v) == [v EXCEPT !.neg = ~@, !.lvalue = FALSE, !.fresh = FALSE]
Absolute(v) == [v EXCEPT !.neg = FALSE, !.abs = TRUE, !.lvalue = FALSE, !.fresh = FALSE]

Builtin(c, name, a) ==
    LET t == a[1].type
        w == IF Len(a) > 1 THEN Wide(a[1], a[2]) ELSE t
        wide == IF Len(a) > 2 THEN Wide([NoVal EXCEPT !.type = w], a[3]) ELSE w
    IN IF Len(a) # Arity[name] \/ \E i \in DOMAIN a : a[i].type # Sampler /\ ~VecOnly(a[i])
       THEN WithVal(Fail(c), NoVal)
       ELSE CASE name = "texture" ->
                   IF t # Sampler \/ a[2].type \notin 2..Lanes THEN WithVal(Fail(c), NoVal)
                   ELSE Then(NewTemp(c, Lanes), LAMBDA d, r : WithVal(
                            EmitN(d, "tex", a[1].index, Dst("temp", r.index, Lane), a[2], NoVal, NoVal), r))
              [] name # "texture" /\ Sampler \in {a[i].type : i \in DOMAIN a} -> WithVal(Fail(c), NoVal)
              [] name = "abs" /\ t # Sampler -> WithVal(c, Absolute(a[1]))
              [] name = "sign" /\ t # Sampler -> Op(c, "sign", a[1], NoVal, NoVal, t)
              [] name = "ceil" /\ t # Sampler ->
                   Then(Op(c, "floor", [a[1] EXCEPT !.neg = ~@], NoVal, NoVal, t),
                        LAMBDA d, r : WithVal(d, [Stale(r) EXCEPT !.neg = TRUE]))
              [] name \in {"min", "max", "clamp"} /\ wide = 0 -> WithVal(Fail(c), NoVal)
              [] name \in {"min", "max"} /\ wide # 0 -> Op2(c, name, a[1], a[2], wide)
              [] name = "clamp" /\ wide # 0 -> Op(c, "clamp", a[1], a[2], a[3], wide)
              [] name = "dot" -> IF a[1].type # a[2].type THEN WithVal(Fail(c), NoVal)
                                 ELSE IF t = 1 THEN Binary(c, "*", a[1], a[2])
                                 ELSE DotProduct(c, t, a[1], a[2])
              [] name = "reflect" ->
                   Then(DotProduct(c, t, a[2], a[1]), LAMBDA d, x :
                   Then(Op2(d, "add", x, x, 1), LAMBDA e, xx :
                        Op(e, "mad", a[2], [xx EXCEPT !.neg = TRUE], a[1], t)))
              [] name = "int" ->
                   Then(Op(c, "floor", [a[1] EXCEPT !.abs = TRUE, !.neg = FALSE], NoVal, NoVal, t), LAMBDA d, f :
                   Then(Op(d, "sign", a[1], NoVal, NoVal, t), LAMBDA e, s : Op2(e, "mul", f, s, t)))
              [] name = "bool" -> Then(Scalar(c, 0), LAMBDA d, zero : Op2(d, "sne", a[1], zero, t))

\* A variable, or what the stage has of its own.
Variable(c, name) ==
    LET at == Find(c, name)
    IN CASE at # 0 -> WithVal(c, c.syms[at].v)
         [] at = 0 /\ name \in {"true", "false"} -> Scalar(c, Truth(name = "true"))
         [] at = 0 /\ name = (IF c.fragment THEN "gl_FragColor" ELSE "gl_Position") ->
                WithVal(c, Writable(MkVal("output", 0, Lanes)))
         [] at = 0 /\ name = "gl_FrontFacing" /\ c.fragment -> WithVal(c, MkVal("special", 1, 1))
         [] OTHER -> WithVal(Fail(c), NoVal)
=============================================================================
