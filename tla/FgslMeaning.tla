---------------------------- MODULE FgslMeaning -----------------------------
(***************************************************************************)
(* What an FGSL shader means: an interpreter of the syntax tree, after     *)
(* docs/fgsl.md and the GLSL rules it refers to, with no registers and no  *)
(* code.  It is the reference the compiler (FgslCompiler) is compared      *)
(* with.                                                                   *)
(*                                                                         *)
(* A value has a type, a number of elements (0 if it is no array) and x:   *)
(* the components of a vector, the columns of a matrix or the elements of  *)
(* an array.  The names of a function are looked for in the function, then *)
(* among the globals: never in its caller.                                 *)
(***************************************************************************)
EXTENDS FgslCompiler

Val(type, x) == [type |-> type, count |-> 0, x |-> x]
Num(x) == Val(1, <<x>>)
Zeros(type) == IF type = Mat THEN [i \in Lane |-> [l \in Lane |-> 0]] ELSE [l \in 1..type |-> 0]
ZeroOf(h) == [type |-> h.type, count |-> h.count,
              x |-> IF h.count = 0 THEN Zeros(h.type) ELSE [i \in 1..h.count |-> Zeros(h.type)]]

\* A scalar goes with any vector.
Spread(v, n) == IF v.type = 1 /\ v.count = 0 /\ n \in Vectors THEN [l \in 1..n |-> v.x[1]] ELSE v.x
As(v, type) == Val(type, Spread(v, type))

\* The names of a run: those of the stage, and those of the function.
Fresh == [globals |-> <<>>, locals |-> <<>>, ctl |-> "go", ret |-> None, killed |-> FALSE]
Has(names, name) == \E i \in DOMAIN names : names[i].name = name
Known(st, name) == Has(st.locals, name) \/ Has(st.globals, name)
Lookup(st, name) ==
    LET names == IF Has(st.locals, name) THEN st.locals ELSE st.globals
    IN names[SelectLast(names, LAMBDA x : x.name = name)].val
SetName(st, name, x) ==
    LET where == IF Has(st.locals, name) THEN "locals" ELSE "globals"
        i == SelectLast(st[where], LAMBDA n : n.name = name)
    IN [st EXCEPT ![where][i].val.x = x]
AddLocal(st, name, v) == [st EXCEPT !.locals = Append(@, [name |-> name, val |-> v])]
AddGlobal(st, name, v) == [st EXCEPT !.globals = Append(@, [name |-> name, val |-> v])]

Running(st) == st.ctl = "go" /\ ~st.killed

Componentwise(F(_, _), x, y) ==
    LET n == Wide(x, y)
    IN Val(n, [l \in 1..n |-> F(Spread(x, n)[l], Spread(y, n)[l])])
SumOf(n, F(_)) == FoldLeft(LAMBDA s, l : s + F(l), 0, SubSeq(Count, 1, n))

Product(x, y) ==
    CASE x.type = Mat /\ y.type = Mat ->
            Val(Mat, [j \in Lane |-> [i \in Lane |-> SumOf(Lanes, LAMBDA k : x.x[k][i] * y.x[j][k])]])
      [] x.type = Mat /\ y.type # Mat ->
            Val(Lanes, [i \in Lane |-> SumOf(Lanes, LAMBDA k : x.x[k][i] * y.x[k])])
      [] x.type # Mat /\ y.type = Mat ->
            Val(Lanes, [i \in Lane |-> SumOf(Lanes, LAMBDA k : x.x[k] * y.x[i][k])])
      [] OTHER -> Componentwise(LAMBDA a, b : a * b, x, y)

Combined(tok, x, y) ==
    CASE tok = "*" -> Product(x, y)
      [] tok = "+" -> Componentwise(LAMBDA a, b : a + b, x, y)
      [] tok = "-" -> Componentwise(LAMBDA a, b : a - b, x, y)
      [] tok = "/" -> Componentwise(Quotient, x, y)
      [] tok = "<" -> Num(Truth(x.x[1] < y.x[1]))
      [] tok = ">" -> Num(Truth(x.x[1] > y.x[1]))
      [] tok = "<=" -> Num(Truth(x.x[1] <= y.x[1]))
      [] tok = ">=" -> Num(Truth(x.x[1] >= y.x[1]))
      [] tok = "==" -> Num(Truth(x.x[1] = y.x[1]))
      [] tok = "!=" -> Num(Truth(x.x[1] # y.x[1]))
      [] tok = "&&" -> Num(Truth(x.x[1] # 0 /\ y.x[1] # 0))
      [] tok = "||" -> Num(Truth(x.x[1] # 0 \/ y.x[1] # 0))

Mapped(F(_), v) == Val(v.type, [l \in DOMAIN v.x |-> F(v.x[l])])
Element(v, i) ==
    IF v.count > 0 THEN Val(v.type, v.x[i + 1])
    ELSE IF v.type = Mat THEN Val(Lanes, v.x[i + 1]) ELSE Num(v.x[i + 1])

Constructed(type, args) ==
    IF type = Mat
    THEN Val(Mat, IF Len(args) = Lanes THEN [i \in Lane |-> args[i].x]
                  ELSE [i \in Lane |-> [l \in Lane |-> IF i = l THEN args[1].x[1] ELSE 0]])
    ELSE IF Len(args) = 1 /\ args[1].type = 1 THEN As(args[1], type)
    ELSE Val(type, SubSeq(FlattenSeq([i \in DOMAIN args |-> args[i].x]), 1, type))

Applied(name, a) ==
    CASE name = "abs" -> Mapped(IntAbs, a[1])
      [] name = "sign" -> Mapped(LAMBDA x : Operation("sign", 0, <<x>>, <<>>, <<>>, 1), a[1])
      [] name \in {"ceil", "int"} -> a[1]
      [] name = "bool" -> Mapped(LAMBDA x : Truth(x # 0), a[1])
      [] name = "min" -> Componentwise(IntMin, a[1], a[2])
      [] name = "max" -> Componentwise(IntMax, a[1], a[2])
      [] name = "clamp" -> Componentwise(IntMin, Componentwise(IntMax, a[1], a[2]), a[3])
      [] name = "dot" -> Num(SumOf(a[1].type, LAMBDA l : a[1].x[l] * a[2].x[l]))
      [] name = "reflect" ->
            LET d == SumOf(a[1].type, LAMBDA l : a[1].x[l] * a[2].x[l])
            IN Val(a[1].type, [l \in DOMAIN a[1].x |-> a[1].x[l] - 2 * d * a[2].x[l]])
      [] name = "texture" -> Val(Lanes, [l \in Lane |-> a[1].x[1] + a[2].x[1]])

After(r, Rest(_, _)) == Rest(r.st, r.v)

RECURSIVE Eval(_, _), EvalAll(_, _), Called(_, _, _), Exec(_, _), ExecAll(_, _), Loop(_, _, _), PutAt(_, _, _)

\* The value of an expression, and what its calls did.
Eval(st, e) ==
    LET In(s, v) == [st |-> s, v |-> v]
    IN CASE e.k = "num" -> In(st, Num(e.x))
         [] e.k = "var" -> In(st, IF Known(st, e.name) THEN Lookup(st, e.name)
                                                       ELSE Num(Truth(e.name = "true")))
         [] e.k = "neg" -> After(Eval(st, e.a), LAMBDA s, v : In(s, Mapped(LAMBDA x : 0 - x, v)))
         [] e.k = "not" -> After(Eval(st, e.a), LAMBDA s, v : In(s, Num(Truth(v.x[1] = 0))))
         [] e.k = "sw" -> After(Eval(st, e.a), LAMBDA s, v :
                              In(s, Val(Len(e.lanes), [l \in DOMAIN e.lanes |-> v.x[e.lanes[l]]])))
         [] e.k = "at" -> After(EvalAll(st, <<e.a, e.i>>), LAMBDA s, v : In(s, Element(v[1], v[2].x[1])))
         [] e.k = "bin" -> After(EvalAll(st, <<e.a, e.b>>), LAMBDA s, v : In(s, Combined(e.tok, v[1], v[2])))
         [] e.k = "sel" -> After(EvalAll(st, <<e.p, e.a, e.b>>), LAMBDA s, v :
                               In(s, As(v[IF v[1].x[1] # 0 THEN 2 ELSE 3], Wide(v[2], v[3]))))
         [] e.k = "fn" -> After(EvalAll(st, e.args), LAMBDA s, v :
                              IF e.name \in DOMAIN Functions THEN Called(s, Functions[e.name], v)
                              ELSE In(s, IF e.name \in DOMAIN Types THEN Constructed(Types[e.name], v)
                                                                    ELSE Applied(e.name, v)))

EvalAll(st, es) ==
    IF es = <<>> THEN [st |-> st, v |-> <<>>]
    ELSE After(Eval(st, Head(es)), LAMBDA s, v :
         After(EvalAll(s, Tail(es)), LAMBDA z, vs : [st |-> z, v |-> <<v>> \o vs]))

\* A function sees its parameters and the globals.
Leave(done, st) == [st |-> [done EXCEPT !.locals = st.locals, !.ctl = "go", !.ret = st.ret], v |-> done.ret]
Called(st, f, v) ==
    LET Param(i) == [name |-> f.params[i].name, val |-> As(v[i], f.params[i].type)]
    IN Leave(ExecAll([st EXCEPT !.locals = [i \in DOMAIN f.params |-> Param(i)]], f.body), st)

\* Assigns to a name, or to components or an element of one.
WithLanes(old, lanes, x) ==
    LET Of(l) == LET js == {j \in DOMAIN lanes : lanes[j] = l}
                 IN IF js = {} THEN old.x[l] ELSE x[CHOOSE j \in js : TRUE]
    IN Val(old.type, [l \in DOMAIN old.x |-> Of(l)])
WithElement(old, i, v) ==
    [old EXCEPT !.x[i + 1] = IF old.count = 0 /\ old.type # Mat THEN v.x[1]
                             ELSE Spread(v, Element(old, i).type)]
PutAt(st, lv, v) ==
    CASE lv.k = "var" -> SetName(st, lv.name, Spread(v, Lookup(st, lv.name).type))
      [] lv.k = "sw" -> PutAt(st, lv.a, WithLanes(Eval(st, lv.a).v, lv.lanes, Spread(v, Len(lv.lanes))))
      [] lv.k = "at" -> PutAt(st, lv.a, WithElement(Eval(st, lv.a).v, Eval(st, lv.i).v.x[1], v))

\* The names of a block end with it.
Closes(st, outer) == [st EXCEPT !.locals = SubSeq(@, 1, Len(outer.locals))]

Exec(st, s) ==
    IF ~Running(st) THEN st
    ELSE CASE s.k = "block" -> Closes(ExecAll(st, s.body), st)
           [] s.k = "decl" ->
                IF s.init = None \/ s.count # 0 THEN AddLocal(st, s.name, ZeroOf(s))
                ELSE After(Eval(st, s.init), LAMBDA z, v : AddLocal(z, s.name, As(v, s.type)))
           [] s.k = "inc" -> PutAt(st, s.lv, Combined(s.op, Eval(st, s.lv).v, Num(1)))
           [] s.k = "set" -> After(Eval(st, s.e), LAMBDA z, v :
                PutAt(z, s.lv, IF s.op = "=" THEN v ELSE Combined(s.op, Eval(z, s.lv).v, v)))
           [] s.k = "do" -> Eval(st, s.e).st
           [] s.k = "if" -> After(Eval(st, s.cond), LAMBDA z, v :
                IF v.x[1] # 0 THEN Exec(z, s.then) ELSE IF s.else = None THEN z ELSE Exec(z, s.else))
           [] s.k = "for" -> After(EvalAll(st, <<s.from, s.to, IF s.by = None THEN [k |-> "num", x |-> 1] ELSE s.by>>),
                LAMBDA z, v : Loop(st, s, [at |-> v[1].x[1], end |-> v[2].x[1], by |-> s.sign * v[3].x[1]]))
           [] s.k = "return" /\ s.e = None -> [st EXCEPT !.ctl = "return"]
           [] s.k = "return" /\ s.e # None -> After(Eval(st, s.e), LAMBDA z, v :
                [z EXCEPT !.ctl = "return", !.ret = v])
           [] s.k \in {"brk", "cont"} -> [st EXCEPT !.ctl = s.k]
           [] s.k = "discard" -> [st EXCEPT !.killed = TRUE]

ExecAll(st, ss) == FoldLeft(Exec, st, ss)

Left(st, s, b) ==
    IF st.ctl = "brk" THEN [st EXCEPT !.ctl = "go"]
    ELSE Loop(IF st.ctl = "cont" THEN [st EXCEPT !.ctl = "go"] ELSE st, s, [b EXCEPT !.at = @ + b.by])
Loop(st, s, b) ==
    IF ~Running(st) \/ ~Reaches(s.rel, b.at, b.end) THEN st
    ELSE Left(Closes(Exec(AddLocal(st, s.name, Num(b.at)), s.body), st), s, b)
=============================================================================
