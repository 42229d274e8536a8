-------------------------------- MODULE Fgsl --------------------------------
(***************************************************************************)
(* fglsl_compile: the vertex shader, then the fragment shader, become one  *)
(* program.  A shader is read from its start to its end, and what comes    *)
(* next in it is chosen: a global declaration, or a statement of main.     *)
(* After each, the code so far is run and compared with what the shader    *)
(* read so far means.                                                      *)
(***************************************************************************)
EXTENDS FgslMeaning

CONSTANTS
    Heads,      \* stage -> sequence of global declarations, each may be there
    Lines,      \* stage -> sequence of the statements main is made of
    MaxLines,   \* stage -> statements in main
    MaxSkips,   \* declarations of Heads that are not there
    Inputs,     \* vertices the program is run for
    Given       \* input -> name -> the value of an attribute or a uniform

VARIABLES
    stage,      \* "vertex", "fragment", "done"
    c, t,       \* the compiler, the tables of the program
    next,       \* the next declaration of Heads to look at
    skips,      \* how many were left out
    lines,      \* statements of main so far
    vertex,     \* code of the vertex stage
    passed,     \* input -> what the vertex stage put out: by slot, by name
    ref         \* input -> what the stage means so far

vars == <<stage, c, t, next, skips, lines, vertex, passed, ref>>

-----------------------------------------------------------------------------
(* Running the code: FarcadeGL loads uniforms and attributes by the tables *)
(* of the program; a register nobody has written holds anything.           *)

Garbage == [l \in Lane |-> 0 - 7]
Padded(x) == [l \in Lane |-> IF l <= Len(x) THEN x[l] ELSE 0 - 7]

Rows(u, x) == LET flat == IF u.count = 0 THEN IF u.type = Mat THEN x ELSE <<x>>
                          ELSE IF u.type = Mat THEN FlattenSeq(x) ELSE x
              IN [r \in DOMAIN flat |-> Padded(flat[r])]

UniformRow(i, r) ==
    LET us == {u \in Range(t.uniforms) : u.type # Sampler /\ r \in u.reg..(u.reg + Regs(u.type) * Elements(u) - 1)}
    IN IF us = {} THEN Garbage
       ELSE LET u == Last(SelectSeq(t.uniforms, LAMBDA x : x \in us))
            IN Rows(u, Given[i][u.name])[r - u.reg + 1]
UnitTexture(i, n) ==
    LET us == {u \in Range(t.uniforms) : u.type = Sampler /\ u.reg = n}
    IN IF us = {} THEN 0 - 7 ELSE Given[i][(CHOOSE u \in us : TRUE).name][1]
InputRow(i, n) ==
    IF c.fragment THEN passed[i].slots[n + 1]
    ELSE LET as == {a \in Range(t.attribs) : a.loc = n}
         IN IF as = {} THEN Garbage ELSE Padded(Given[i][(CHOOSE a \in as : TRUE).name])

Machine(i) ==
    [pc |-> 0, resume |-> 0, killed |-> FALSE,
     temp |-> [n \in 0..(MaxTemps - 1) |-> Garbage],
     input |-> [n \in 0..(MaxAttribs - 1) |-> InputRow(i, n)],
     output |-> [n \in 0..MaxVaryings |-> Zeros(Lanes)],
     uniform |-> [n \in 0..(MaxUniforms - 1) |-> UniformRow(i, n)],
     unit |-> [n \in 0..(MaxUnits - 1) |-> UnitTexture(i, n)],
     const |-> [n \in 0..(MaxPool - 1) |-> IF n < Len(c.pool) THEN Padded(c.pool[n + 1]) ELSE Garbage],
     special |-> [n \in 0..1 |-> [l \in Lane |-> Truth(Given[i]["front"][1] = 1)]]]

\* The value of a symbol in the registers.
Read(m, v) == LET x == Fetch(m, Src(v)) IN [l \in 1..v.type |-> x[l]]
Whole(m, v) == IF v.type = Mat THEN [j \in Lane |-> Read(m, Column(v, j - 1))] ELSE Read(m, v)
SymValue(m, v) ==
    IF v.count = 0 THEN Whole(m, v)
    ELSE [i \in 1..v.count |-> Whole(m, [v EXCEPT !.index = @ + (i - 1) * Regs(v.type), !.count = 0])]

-----------------------------------------------------------------------------
(* The meaning of a global declaration.                                    *)

BuiltinOut(fragment) == IF fragment THEN "gl_FragColor" ELSE "gl_Position"
Start(i, fragment) ==
    LET out == AddGlobal(Fresh, BuiltinOut(fragment), Val(Lanes, Zeros(Lanes)))
    IN IF fragment THEN AddGlobal(out, "gl_FrontFacing", Num(Given[i]["front"][1])) ELSE out

Introduced(st, i, h) ==
    LET comes == [type |-> h.type, count |-> h.count, x |-> Given[i][h.name]]
    IN CASE h.k = "uniform" \/ (h.k = "in" /\ ~c.fragment) -> AddGlobal(st, h.name, comes)
         [] h.k \in {"in", "varying"} /\ c.fragment -> AddGlobal(st, h.name, passed[i].names[h.name])
         [] h.k \in {"out", "varying"} /\ ~c.fragment -> AddGlobal(st, h.name, Val(h.type, Zeros(h.type)))
         [] h.k = "out" /\ c.fragment -> [st EXCEPT !.globals[1].name = h.name]
         [] h.k = "global" -> IF h.init = None THEN AddGlobal(st, h.name, ZeroOf(h))
                              ELSE After(Eval(st, h.init), LAMBDA z, v : AddGlobal(z, h.name, As(v, h.type)))

-----------------------------------------------------------------------------

Init ==
    /\ stage = "vertex" /\ next = 1 /\ skips = 0 /\ lines = 0 /\ vertex = <<>>
    /\ c = Empty(FALSE, <<>>, 0) /\ t = NoTables
    /\ passed = [i \in Inputs |-> None]
    /\ ref = [i \in Inputs |-> Start(i, FALSE)]

Reading == stage # "done" /\ ~c.err

\* One of the global declarations, in the order of the shader.
Declaration ==
    /\ Reading /\ lines = 0
    /\ \E n \in next..Len(Heads[stage]) :
         /\ skips + n - next <= MaxSkips
         /\ next' = n + 1 /\ skips' = skips + n - next
         /\ \E g \in {Global(c, t, Heads[stage][n])} :
              /\ c' = g.c /\ t' = g.t
              /\ ref' = IF g.c.err THEN ref ELSE [i \in Inputs |-> Introduced(ref[i], i, Heads[stage][n])]
    /\ UNCHANGED <<stage, lines, vertex, passed>>

\* The block of main: its names are one scope below the globals.
MainLine ==
    /\ Reading /\ lines < MaxLines[stage]
    /\ skips + Len(Heads[stage]) + 1 - next <= MaxSkips
    /\ \E n \in DOMAIN Lines[stage] :
         /\ c' = Statement(IF lines = 0 THEN Opened(c) ELSE c, Lines[stage][n])
         /\ ref' = IF c'.err THEN ref ELSE [i \in Inputs |-> Exec(ref[i], Lines[stage][n])]
    /\ lines' = lines + 1
    /\ skips' = skips + Len(Heads[stage]) + 1 - next
    /\ next' = Len(Heads[stage]) + 1
    /\ UNCHANGED <<stage, t, vertex, passed>>

\* The end of main.  A stage has at least one instruction.
Closed ==
    LET d == Returned(c)
    IN IF d.code = <<>> THEN Emit(d, "nop", Dst("none", 0, {}), NoVal, NoVal, NoVal) ELSE d

EndVertex ==
    /\ Reading /\ stage = "vertex" /\ lines > 0
    /\ stage' = "fragment" /\ next' = 1 /\ lines' = 0
    /\ vertex' = Closed.code
    /\ c' = Empty(TRUE, Closed.pool, Closed.max)
    /\ passed' = [i \in Inputs |->
                    LET m == Run(Machine(i), Closed.code)
                    IN [slots |-> [n \in 1..MaxAttribs |-> IF n <= MaxVaryings THEN m.output[n] ELSE Garbage],
                        names |-> [name \in {v.name : v \in Range(t.varyings)} |-> Lookup(ref[i], name)]]]
    /\ ref' = [i \in Inputs |-> Start(i, TRUE)]
    /\ UNCHANGED <<t, skips>>

EndFragment ==
    /\ Reading /\ stage = "fragment" /\ lines > 0
    /\ stage' = "done" /\ c' = Closed
    /\ UNCHANGED <<t, next, skips, lines, vertex, passed, ref>>

Next == Declaration \/ MainLine \/ EndVertex \/ EndFragment

Spec == Init /\ [][Next]_vars

-----------------------------------------------------------------------------
(* Properties.                                                             *)

Same(i) ==
    LET m == Run(Machine(i), c.code)
        names == {s.name : s \in {s \in Range(c.syms) : s.v.type # Sampler}}
        color == ref[i].globals[1].val.x
    IN /\ m.killed = ref[i].killed
       /\ ~m.killed => m.output[0] = color
       /\ Running(ref[i]) => \A n \in names : SymValue(m, c.syms[Find(c, n)].v) = Lookup(ref[i], n).x

(* The code does what the shader means: after every declaration and        *)
(* statement, and at the end of the program, running it leaves in the      *)
(* registers of every name the value the name has, the same colour or      *)
(* position, and the pixel is discarded if and only if the shader says so. *)
(* A store that takes over the instruction before it, a register given     *)
(* away too early, a jump that lands one instruction off and a varying     *)
(* in the wrong slot all show here.                                        *)
Agrees == ~c.err => \A i \in Inputs : Same(i)

SourceOk(s, temps, inputs) ==
    CASE s.file = "none" -> TRUE
      [] s.file = "temp" -> s.index < temps
      [] s.file = "input" -> s.index < inputs
      [] s.file = "output" -> s.index <= Len(t.varyings)
      [] s.file = "uniform" -> s.index < t.reg
      [] s.file = "const" -> s.index < Len(c.pool) /\ \A l \in Lane : s.sw[l] <= Lanes
      [] s.file = "special" -> s.index \in 0..1

CodeOk(code, inputs) ==
    /\ code # <<>> /\ Len(code) <= MaxCode
    /\ \A p \in DOMAIN code :
         LET in == code[p]
         IN /\ \A s \in {in.a, in.b, in.c} : SourceOk(s, c.max, inputs)
            /\ in.op \in Jumps => in.dst \in p..Len(code)
            /\ in.op \notin NoWrite =>
                  /\ in.dst.mask # {}
                  /\ \/ in.dst.file = "temp" /\ in.dst.index < c.max
                     \/ in.dst.file = "output" /\ in.dst.index <= Len(t.varyings)

(* A program that compiles is one the kernel takes: no jump of any break,  *)
(* continue, return or if is left without its target, all go forward, and  *)
(* every operand is a register the header of the program counts.           *)
FinishedIsSound ==
    stage = "done" /\ ~c.err => CodeOk(vertex, MaxAttribs) /\ CodeOk(c.code, Len(t.varyings))
=============================================================================
