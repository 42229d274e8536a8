------------------------------- MODULE MCFgsl -------------------------------
(* Small shaders for Fgsl: what each line is in FGSL stands beside it.     *)
EXTENDS Fgsl

N(x) == [k |-> "num", x |-> x]
V(name) == [k |-> "var", name |-> name]
Sw(e, lanes) == [k |-> "sw", a |-> e, lanes |-> lanes]
At(e, i) == [k |-> "at", a |-> e, i |-> i]
Bin(x, tok, y) == [k |-> "bin", tok |-> tok, a |-> x, b |-> y]
Fn(name, args) == [k |-> "fn", name |-> name, args |-> args]
Sel(p, x, y) == [k |-> "sel", p |-> p, a |-> x, b |-> y]
Minus(x) == [k |-> "neg", a |-> x]
Not(x) == [k |-> "not", a |-> x]

Decl(type, name, e) == [k |-> "decl", type |-> type, name |-> name, const |-> FALSE, count |-> 0, init |-> e]
Set(lv, op, e) == [k |-> "set", lv |-> lv, op |-> op, e |-> e]
Inc(lv, op) == [k |-> "inc", lv |-> lv, op |-> op]
Do(e) == [k |-> "do", e |-> e]
IfElse(p, s, z) == [k |-> "if", cond |-> p, then |-> s, else |-> z]
ForTo(name, from, rel, to, sign, by, s) ==
    [k |-> "for", name |-> name, from |-> N(from), rel |-> rel, to |-> N(to), sign |-> sign, by |-> by, body |-> s]
Block(ss) == [k |-> "block", body |-> ss]
Ret(e) == [k |-> "return", e |-> e]
Break == [k |-> "brk"]
Continue == [k |-> "cont"]
Discard == [k |-> "discard"]
Param(type, name) == [type |-> type, name |-> name]
Head1(k, type, name) == [k |-> k, type |-> type, name |-> name, const |-> FALSE, count |-> 0, init |-> None, loc |-> 0 - 1]

X(e) == Sw(e, <<1>>)
Y(e) == Sw(e, <<2>>)
YX(e) == Sw(e, <<2, 1>>)

MCFunctions == [
    \* float twice(float x) { return x + x; }
    twice |-> [ret |-> 1, params |-> <<Param(1, "x")>>, body |-> <<Ret(Bin(V("x"), "+", V("x")))>>],
    \* float pick(vec2 q) { if (q.x < 1) return q.y; q.x -= 1; return twice(q.x); }
    pick |-> [ret |-> 1, params |-> <<Param(2, "q")>>,
              body |-> <<IfElse(Bin(X(V("q")), "<", N(1)), Ret(Y(V("q"))), None),
                         Set(X(V("q")), "-", N(1)), Ret(Fn("twice", <<X(V("q"))>>))>>],
    \* vec2 turn(vec2 q) { for (i = 0; i < 2; i++) { if (q.y < 2) break; q = q.yx - 1; } return q; }
    turn |-> [ret |-> 2, params |-> <<Param(2, "q")>>,
              body |-> <<ForTo("i", 0, "<", 2, 1, None, Block(<<IfElse(Bin(Y(V("q")), "<", N(2)), Break, None),
                            Set(V("q"), "=", Bin(YX(V("q")), "-", N(1)))>>)), Ret(V("q"))>>],
    \* void bump() { g += 1; }
    bump |-> [ret |-> Void, params |-> <<>>, body |-> <<Set(V("g"), "+", N(1))>>],
    \* float again(float x) { return again(x); }
    again |-> [ret |-> 1, params |-> <<Param(1, "x")>>, body |-> <<Ret(Fn("again", <<V("x")>>))>>]]

Arr == [Head1("uniform", 2, "arr") EXCEPT !.count = 2]
MCHeads == [vertex |->
    <<Head1("uniform", Mat, "M"), Arr, Head1("in", 2, "pos"), Head1("in", 1, "tag"),
      Head1("varying", 1, "w"), Head1("varying", 2, "v"),
      [Head1("global", 1, "g") EXCEPT !.init = N(2)],
      [Head1("global", 2, "K") EXCEPT !.const = TRUE, !.init = Fn("vec2", <<N(1), N(3)>>)]>>,
            fragment |->
    <<Head1("uniform", Sampler, "map"), Arr, Head1("in", 2, "v"), Head1("varying", 1, "w"),
      [Head1("global", 2, "h") EXCEPT !.init = Fn("vec2", <<N(2)>>)], Head1("out", 3, "color")>>]

VertexLines == <<
    \* vec2 a = pos.yx + arr[1];
    Decl(2, "a", Bin(YX(V("pos")), "+", At(V("arr"), N(1)))),
    \* gl_Position = M * vec3(pos, 1);
    Set(V("gl_Position"), "=", Bin(V("M"), "*", Fn("vec4", <<V("pos"), N(1)>>))),
    \* v.y = twice(pos.x) - tag;
    Set(Y(V("v")), "=", Bin(Fn("twice", <<X(V("pos"))>>), "-", V("tag"))),
    \* if (pos.x < pos.y) { w = 1; v = pos + K; } else v.x += g;
    IfElse(Bin(X(V("pos")), "<", Y(V("pos"))), Block(<<Set(V("w"), "=", N(1)), Set(V("v"), "=", Bin(V("pos"), "+", V("K")))>>),
           Set(X(V("v")), "+", V("g"))),
    \* for (i = 0; i < 2; i++) { if (tag < arr[i].x) continue; w += arr[i].y; if (3 < w) break; g++; }
    ForTo("i", 0, "<", 2, 1, None, Block(<<IfElse(Bin(V("tag"), "<", X(At(V("arr"), V("i")))), Continue, None),
        Set(V("w"), "+", Y(At(V("arr"), V("i")))), IfElse(Bin(N(3), "<", V("w")), Break, None), Inc(V("g"), "+")>>)),
    \* bump();
    Do(Fn("bump", <<>>)),
    \* w = pick(pos) * g;
    Set(V("w"), "=", Bin(Fn("pick", <<V("pos")>>), "*", V("g"))),
    \* { mat4 m = M * M; m[1].yx = pos; gl_Position = vec3(pos, 2) * m; }
    Block(<<Decl(Mat, "m", Bin(V("M"), "*", V("M"))), Set(YX(At(V("m"), N(1))), "=", V("pos")),
            Set(V("gl_Position"), "=", Bin(Fn("vec4", <<V("pos"), N(2)>>), "*", V("m")))>>),
    \* if (2 < g) return;
    IfElse(Bin(N(2), "<", V("g")), Ret(None), None),
    \* { float b = pos.x < 1 ? abs(-tag) : max(pos.x, 2); w = b; }
    Block(<<Decl(1, "b", Sel(Bin(X(V("pos")), "<", N(1)), Fn("abs", <<Minus(V("tag"))>>), Fn("max", <<X(V("pos")), N(2)>>))),
            Set(V("w"), "=", V("b"))>>),
    \* v = turn(pos);
    Set(V("v"), "=", Fn("turn", <<V("pos")>>)),
    \* { float z[2]; z[1] = tag; w = z[0] - z[1]; for (i = 3; i > 3; i -= 1) w = 9; }
    Block(<<[Decl(1, "z", None) EXCEPT !.count = 2], Set(At(V("z"), N(1)), "=", V("tag")),
            Set(V("w"), "=", Bin(At(V("z"), N(0)), "-", At(V("z"), N(1)))),
            ForTo("i", 3, ">", 3, 0 - 1, N(1), Set(V("w"), "=", N(9)))>>),
    \* w = again(1);
    Set(V("w"), "=", Fn("again", <<N(1)>>))>>

FragmentLines == <<
    \* color = texture(map, v);
    Set(V("color"), "=", Fn("texture", <<V("map"), V("v")>>)),
    \* if (!(v.x < 2 && w < 2)) discard;
    IfElse(Not(Bin(Bin(X(V("v")), "<", N(2)), "&&", Bin(V("w"), "<", N(2)))), Discard, None),
    \* color = vec4(v, w) * float(gl_FrontFacing);
    Set(V("color"), "=", Bin(Fn("vec4", <<V("v"), V("w")>>), "*", V("gl_FrontFacing"))),
    \* { vec2 n = reflect(v, arr[0]); h = n; color.zx = n; }
    Block(<<Decl(2, "n", Fn("reflect", <<V("v"), At(V("arr"), N(0))>>)), Set(V("h"), "=", V("n")),
            Set(Sw(V("color"), <<3, 1>>), "=", V("n"))>>),
    \* h = clamp(v, 0, w) + ceil(arr[1]);
    Set(V("h"), "=", Bin(Fn("clamp", <<V("v"), N(0), V("w")>>), "+", Fn("ceil", <<At(V("arr"), N(1))>>)))>>

MCLines == [vertex |-> VertexLines, fragment |-> FragmentLines]
MCMaxLines == [vertex |-> 2, fragment |-> 2]
MCDefaultLocation == [pos |-> 0]

MCGiven == <<
    [M |-> <<<<1, 2, 0>>, <<0, 1, 3>>, <<2, 0, 1>>>>, arr |-> <<<<1, 2>>, <<5, 3>>>>, pos |-> <<0, 2>>,
     tag |-> <<1>>, map |-> <<50>>, front |-> <<1>>],
    [M |-> <<<<0, 1, 1>>, <<4, 1, 0>>, <<0, 2, 1>>>>, arr |-> <<<<0, 4>>, <<2, 1>>>>, pos |-> <<3, 1>>,
     tag |-> <<2>>, map |-> <<60>>, front |-> <<0>>]>>
=============================================================================
