---------------------------- MODULE FgslCompiler ----------------------------
(***************************************************************************)
(* The FGSL compiler (fglsl.h): expressions, statements, functions and     *)
(* global declarations, over the syntax tree instead of the characters.    *)
(* Every operator takes the state of the compiler and returns it as it is  *)
(* after the code has been emitted.                                        *)
(***************************************************************************)
EXTENDS FgslCode

CONSTANTS
    Functions,      \* name -> [ret, params, body], the user functions
    MaxDepth,       \* calls inlined in each other
    MaxPatch,       \* FGLSL__MAX_PATCH
    MaxIterations,  \* of an unrolled loop
    DefaultLocation, \* name -> location of the attribute names that have one
    MaxUniforms, MaxUnits, MaxAttribs, MaxVaryings

Pc(c) == Len(c.code)        \* of the next instruction

JumpTo(c, op, v) == Emit(c, op, Pending, v, NoVal, NoVal)

\* fglsl__add_jump: a jump of the list, which has a limit.
AddJump(c, list) ==
    LET d == JumpTo(c, "jmp", NoVal)
    IN IF Cardinality(c[list]) >= MaxPatch THEN Fail(c)
       ELSE [d EXCEPT ![list] = @ \cup {Pc(c)}]

\* What a block leaves: its names and temporaries.
Close(c, outer) == [c EXCEPT !.syms = outer.syms, !.ntemp = outer.ntemp, !.scope = outer.scope]
Opened(c) == [c EXCEPT !.scope = @ + 1]

\* A call keeps its result, and no temporary behind it.
CallKeeps(c, outer, ntemp) ==
    [Close(c, outer) EXCEPT !.ntemp = ntemp, !.depth = outer.depth,
        !.rets = outer.rets, !.rettype = outer.rettype, !.retval = outer.retval,
        !.brk = outer.brk, !.cont = outer.cont]
\* The end of a function: its returns land here.
Returned(c) == Patch(c, c.rets)

Elements(h) == IF h.count = 0 THEN 1 ELSE h.count
Registers(h) == Regs(h.type) * Elements(h)
Zeroed(c, first, regs) ==
    Then(Scalar(c, 0), LAMBDA d, zero :
        FoldLeft(LAMBDA e, r : Emit(e, "mov", Dst("temp", first + r - 1, Lane), zero, NoVal, NoVal),
                 d, [r \in 1..regs |-> r]))

ConstInt(v) == IsConst(v) /\ v.type = 1
Reaches(rel, i, end) ==
    CASE rel = "<" -> i < end [] rel = ">" -> i > end [] rel = "<=" -> i <= end
      [] rel = ">=" -> i >= end [] rel = "!=" -> i # end

RECURSIVE Expr(_, _), Args(_, _), CallUser(_, _, _), Statement(_, _), Body(_, _), Iterate(_, _, _, _)

\* An expression, with its operands from left to right.
Expr(c, e) ==
    IF c.err THEN WithVal(c, NoVal)
    ELSE CASE e.k = "num" -> Scalar(c, e.x)
           [] e.k = "var" -> Variable(c, e.name)
           [] e.k = "neg" ->
                Then(Expr(c, e.a), LAMBDA d, x :
                    IF x.type = Mat \/ x.count # 0 THEN WithVal(Fail(d), x) ELSE WithVal(d, Negated(x)))
           [] e.k = "not" ->
                Then(Expr(c, e.a), LAMBDA d, x : Then(Scalar(d, 0), LAMBDA f, zero :
                    IF x.type # 1 THEN WithVal(Fail(d), x) ELSE Op2(f, "seq", x, zero, 1)))
           [] e.k = "sw" -> Then(Expr(c, e.a), LAMBDA d, x : Swizzle(d, x, e.lanes))
           [] e.k = "at" ->
                Then(Args(c, <<e.a, e.i>>), LAMBDA d, v : IF d.err THEN WithVal(d, NoVal) ELSE Index(d, v[1], v[2]))
           [] e.k = "bin" ->
                Then(Args(c, <<e.a, e.b>>), LAMBDA d, v :
                    IF d.err THEN WithVal(d, NoVal) ELSE Binary(d, e.tok, v[1], v[2]))
           [] e.k = "sel" ->
                Then(Args(c, <<e.p, e.a, e.b>>), LAMBDA d, v :
                    IF d.err \/ v[1].type # 1 \/ ~VecOnly(v[2]) \/ ~VecOnly(v[3]) \/ Wide(v[2], v[3]) = 0
                    THEN WithVal(Fail(d), NoVal)
                    ELSE Op(d, "sel", v[1], v[2], v[3], Wide(v[2], v[3])))
           [] e.k = "fn" ->
                Then(Args(c, e.args), LAMBDA d, v :
                    IF d.err THEN WithVal(d, NoVal)
                    ELSE IF e.name \in DOMAIN Functions THEN CallUser(d, Functions[e.name], v)
                    ELSE IF e.name \in DOMAIN Types THEN Constructor(d, Types[e.name], v)
                    ELSE Builtin(d, e.name, v))

Args(c, es) ==
    IF es = <<>> THEN WithVal(c, <<>>)
    ELSE Then(Expr(c, Head(es)), LAMBDA d, x :
         Then(Args(d, Tail(es)), LAMBDA f, xs : WithVal(f, <<x>> \o xs)))

\* A function is compiled where it is called.  Its parameters are copies.
Parameter(c, p, x) ==
    IF p.type = Sampler THEN Declare(c, p.name, x)
    ELSE Then(NewTemp(c, p.type), LAMBDA d, v :
            Declare(Store(d, Writable(Stale(v)), Stale(x)), p.name, Writable(Stale(v))))
Entered(c, f, args, ret) ==
    [FoldLeft(LAMBDA d, i : Parameter(d, f.params[i], args[i]), Opened(c), [i \in DOMAIN args |-> i])
        EXCEPT !.rets = {}, !.rettype = f.ret, !.retval = ret, !.brk = None, !.cont = None, !.depth = @ + 1]

CallUser(c, f, args) ==
    LET Fits(i) == \/ args[i].type = f.params[i].type
                   \/ args[i].type = 1 /\ f.params[i].type \in Vectors
    IN IF Len(args) # Len(f.params) \/ c.depth >= MaxDepth \/ \E i \in DOMAIN args : ~Fits(i)
       THEN WithVal(Fail(c), NoVal)
       ELSE Then(IF f.ret = Void THEN WithVal(c, NoVal) ELSE NewTemp(c, f.ret), LAMBDA d, ret :
                WithVal(CallKeeps(Returned(Statement(Entered(d, f, args, ret), [k |-> "block", body |-> f.body])),
                                  c, d.ntemp),
                        Stale(ret)))

\* Locals: a constant that is known needs no register; anything else starts
\* with its value or with zero.
LocalConst(c, s) ==
    Then(Expr(c, s.init), LAMBDA d, v :
        IF IsConst(v) /\ v.type \in {s.type, 1}
        THEN Declare(d, s.name, [Bcast(v) EXCEPT !.type = s.type])
        ELSE Then(NewTemp(d, s.type), LAMBDA e, copy :
                Declare(Store(e, Writable(Stale(copy)), v), s.name, Stale(copy))))

Var(c, s) == [MkVal("temp", c.ntemp, s.type) EXCEPT !.count = s.count]
LocalVar(c, room, s) ==
    LET set == IF s.count = 0 /\ s.init # None
               THEN Then(Expr(room, s.init), LAMBDA d, v : Store(d, Writable(Var(c, s)), v))
               ELSE Zeroed(room, c.ntemp, Registers(s))
    IN Declare([set EXCEPT !.ntemp = room.ntemp], s.name, [Var(c, s) EXCEPT !.lvalue = ~s.const])

DeclareLocal(c, s) ==
    IF s.type \in {Sampler, Void} THEN Fail(c)
    ELSE IF s.const /\ s.count = 0 /\ s.init # None THEN LocalConst(c, s)
    ELSE LocalVar(c, Temp(c, Registers(s)), s)

\* return: the value goes to the temporary of the call.
Return(c, e) ==
    IF e = None THEN IF c.rettype = Void THEN AddJump(c, "rets") ELSE Fail(c)
    ELSE Then(Expr(c, e), LAMBDA d, v :
            IF c.rettype = Void THEN Fail(d)
            ELSE AddJump([Store(d, Writable(Stale(c.retval)), v) EXCEPT !.ntemp = c.ntemp], "rets"))

\* then: the state behind the first branch; jz: its jump over that branch.
Else(then, jz, s) ==
    IF s = None THEN Patch(then, {jz})
    ELSE Patch(Statement(Patch(JumpTo(then, "jmp", NoVal), {jz}), s), {Pc(then)})
If(c, s) ==
    Then(Expr(c, s.cond), LAMBDA d, p :
        IF d.err \/ p.type # 1 THEN Fail(d)
        ELSE Else(Statement([JumpTo(d, "jz", p) EXCEPT !.ntemp = c.ntemp], s.then), Pc(d), s.else))

\* Loops are unrolled, so that the counter is a constant in the body.  The
\* step of i++ and i-- is no constant of the program.
Unrolled(c, outer) == [Patch(c, c.brk) EXCEPT !.brk = outer.brk, !.cont = outer.cont]
Numbers(s) == <<s.from, s.to>> \o IF s.by = None THEN <<>> ELSE <<s.by>>
For(c, s) ==
    Then(Args(c, Numbers(s)), LAMBDA d, v :
        LET Bound(i) == ConstValue(d, v[i])[1]
            step == s.sign * (IF s.by = None THEN 1 ELSE Bound(3))
        IN IF d.err \/ \E i \in DOMAIN Numbers(s) : ~ConstInt(v[i]) THEN Fail(d)
           ELSE IF step = 0 THEN Fail(d)
           ELSE Unrolled(Iterate([d EXCEPT !.brk = {}], s, [at |-> Bound(1), end |-> Bound(2), by |-> step], 0), c))

Turned(c, outer) == Patch(Close(c, outer), c.cont)
Iterate(c, s, b, n) ==
    IF c.err \/ ~Reaches(s.rel, b.at, b.end) THEN c
    ELSE IF n >= MaxIterations THEN Fail(c)
    ELSE Then(Scalar([Opened(c) EXCEPT !.cont = {}], b.at), LAMBDA d, i :
            Iterate(Turned(Statement(Declare(d, s.name, i), s.body), c), s, [b EXCEPT !.at = @ + b.by], n + 1))

\* Assignment, ++ and --, and a call for its effects.
NewValue(c, s, lhs) ==
    IF s.k = "inc" THEN Then(Scalar(c, 1), LAMBDA d, one : Binary(d, s.op, lhs, one))
    ELSE Then(Expr(c, s.e), LAMBDA d, x : IF s.op = "=" THEN WithVal(d, x) ELSE Binary(d, s.op, Stale(lhs), x))
Assignment(c, s) ==
    Then(Expr(c, s.lv), LAMBDA d, lhs : Then(NewValue(d, s, lhs), LAMBDA e, v :
        IF d.err \/ e.err THEN Fail(c) ELSE [Store(e, lhs, v) EXCEPT !.ntemp = c.ntemp]))

Statement(c, s) ==
    IF c.err THEN c
    ELSE CASE s.k = "block" -> Close(Body(Opened(c), s.body), c)
           [] s.k = "decl" -> DeclareLocal(c, s)
           [] s.k \in {"set", "inc"} -> Assignment(c, s)
           [] s.k = "do" -> [Expr(c, s.e).c EXCEPT !.ntemp = c.ntemp]
           [] s.k = "if" -> If(c, s)
           [] s.k = "for" -> For(c, s)
           [] s.k = "return" -> Return(c, s.e)
           [] s.k \in {"brk", "cont"} -> IF c[s.k] = None THEN Fail(c) ELSE AddJump(c, s.k)
           [] s.k = "discard" ->
                IF ~c.fragment THEN Fail(c)
                ELSE Then(Scalar(c, 1), LAMBDA d, one : Emit(d, "kill", Pending, one, NoVal, NoVal))

Body(c, ss) == FoldLeft(Statement, c, ss)

-----------------------------------------------------------------------------
(* Global declarations.  t has the tables of the program: what each name   *)
(* is bound to, for the application (uniforms, attribs) and for the other  *)
(* stage (varyings).                                                       *)

NoTables == [uniforms |-> <<>>, attribs |-> <<>>, varyings |-> <<>>, reg |-> 0, unit |-> 0]
Named(table, name) == SelectLast(table, LAMBDA x : x.name = name)
Both(c, t) == [c |-> c, t |-> t]
Refused(c, t) == Both(Fail(c), t)

Bind(c, h, file, index) == Declare(c, h.name, [MkVal(file, index, h.type) EXCEPT !.count = h.count])

NewUniform(t, h) ==
    LET Entry(reg) == [name |-> h.name, type |-> h.type, count |-> h.count, reg |-> reg]
    IN IF h.type = Sampler
       THEN [t EXCEPT !.uniforms = Append(@, Entry(t.unit)), !.unit = @ + 1]
       ELSE [t EXCEPT !.uniforms = Append(@, Entry(t.reg)), !.reg = @ + Registers(h)]

\* The same name in both shaders is one uniform.
Uniform(c, t, h) ==
    LET at == Named(t.uniforms, h.name)
        u == NewUniform(t, h)
        file == IF h.type = Sampler THEN "none" ELSE "uniform"
    IN IF at # 0
       THEN IF t.uniforms[at].type # h.type \/ t.uniforms[at].count # h.count THEN Refused(c, t)
            ELSE Both(Bind(c, h, file, t.uniforms[at].reg), t)
       ELSE IF (h.type = Sampler /\ h.count # 0) \/ u.unit > MaxUnits \/ u.reg > MaxUniforms
       THEN Refused(c, t)
       ELSE Both(Bind(c, h, file, Last(u.uniforms).reg), u)

Attribute(c, t, h) ==
    LET used == {a.loc : a \in Range(t.attribs)}
        free == (IF MaxAttribs > 4 THEN 4..(MaxAttribs - 1) ELSE {}) \ used
        loc == IF h.loc >= 0 THEN h.loc
               ELSE IF h.name \in DOMAIN DefaultLocation THEN DefaultLocation[h.name]
               ELSE IF free = {} THEN MaxAttribs ELSE CHOOSE l \in free : \A k \in free : l <= k
    IN IF h.count # 0 \/ h.type \notin Vectors \/ loc >= MaxAttribs \/ loc \in used THEN Refused(c, t)
       ELSE Both(Bind(c, h, "input", loc),
                 [t EXCEPT !.attribs = Append(@, [name |-> h.name, type |-> h.type, loc |-> loc])])

FragmentOutput(c, t, h) ==
    IF h.type # Lanes \/ h.count # 0 THEN Refused(c, t)
    ELSE Both(Declare(c, h.name, Writable(MkVal("output", 0, Lanes))), t)

\* The vertex shader numbers them, the fragment shader finds them by name.
Varying(c, t, h) ==
    LET slot == Named(t.varyings, h.name)
        next == Len(t.varyings)
    IN IF h.count # 0 \/ h.type \notin Vectors THEN Refused(c, t)
       ELSE IF c.fragment
       THEN IF slot = 0 THEN Refused(c, t)
            ELSE IF t.varyings[slot].type # h.type THEN Refused(c, t)
            ELSE Both(Bind(c, h, "input", slot - 1), t)
       ELSE IF slot # 0 \/ next >= MaxVaryings THEN Refused(c, t)
       ELSE Both(Declare(c, h.name, Writable(MkVal("output", 1 + next, h.type))),
                 [t EXCEPT !.varyings = Append(@, [name |-> h.name, type |-> h.type])])

\* A variable or a constant of the stage: zero first, then its value.
StageVar(c, room, clean, h) ==
    LET set == IF h.count # 0 \/ h.init = None THEN clean
               ELSE Then(Expr(clean, h.init), LAMBDA d, v : Store(d, Writable(Var(c, h)), v))
    IN Declare([set EXCEPT !.ntemp = room.ntemp], h.name, [Var(c, h) EXCEPT !.lvalue = ~h.const])
GlobalVar(c, h) ==
    IF h.type = Sampler THEN Fail(c)
    ELSE IF h.const /\ h.count = 0 /\ h.init # None THEN DeclareLocal(c, h)
    ELSE LET room == Temp(c, Registers(h)) IN StageVar(c, room, Zeroed(room, c.ntemp, Registers(h)), h)

Global(c, t, h) ==
    CASE h.k = "uniform" -> Uniform(c, t, h)
      [] h.k = "in" /\ ~c.fragment -> Attribute(c, t, h)
      [] h.k = "out" /\ c.fragment -> FragmentOutput(c, t, h)
      [] h.k = "varying" \/ (h.k = "in" /\ c.fragment) \/ (h.k = "out" /\ ~c.fragment) -> Varying(c, t, h)
      [] h.k = "global" -> Both(GlobalVar(c, h), t)
=============================================================================
