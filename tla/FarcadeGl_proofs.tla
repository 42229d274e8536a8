--------------------------- MODULE FarcadeGl_proofs ---------------------------
(***************************************************************************)
(* Proofs about FarcadeGl: what is not marked dirty is already on the GPU, *)
(* group by group, and so a draw finds everything as it was set.           *)
(***************************************************************************)
EXTENDS FarcadeGl, TLAPS

\* What a clean flag promises about the GPU, while no command was lost.
OnTheGpu ==
    /\ gpu.target = Surface
    /\ ~stateDirty => gpu.caps = enabled /\ gpu.program = program /\ gpu.shader = shader
    /\ layoutDirty \/ layout = None \/ gpu.layout = layout
    /\ \A u \in Units : textures[u] = None \/ ~texturesDirty => gpu.textures[u] = textures[u]
    /\ ~uniformsDirty => gpu.uniforms = matrices
    /\ uploaded # None /\ uploaded \notin Plain /\ ~shDirty[uploaded]
       => gpu.constants = <<user[uploaded], auto[uploaded]>>

\* The shader in use exists, and its fgl_* values follow the matrices.
Following ==
    /\ shader # None => shader \in live
    /\ HasRegisters /\ ~uniformsDirty => auto[shader] = matrices

Inv == TypeOK /\ Following /\ (empty => ~intact) /\ (intact => OnTheGpu)

\* Textures in use exist.
Bound == \A u \in Units : textures[u] # None => textures[u] \in live

\* What an empty buffer refers to.
Recorded == Bound /\ RecordedStays /\ (empty => uses = {})

\* The surface drawn to is the one due, and not the one on the screen.
Frames ==
    /\ gpu.target \in {Surface, None}
    /\ flip /\ ~torn => screen # Surface

USE PlainAssumption, InitialAssumption, NoneAssumption

-----------------------------------------------------------------------------
(* A new command buffer.                                                   *)

LEMMA DefaultsType == Defaults \in States
  BY DEF Defaults, States

LEMMA BindType ==
  ASSUME NEW x \in {"color", "color2", None}, Bind(x)
  PROVE  /\ gpu' \in States /\ intact' \in BOOLEAN /\ empty' \in BOOLEAN
         /\ (empty' => ~intact')
         /\ stateDirty' \in BOOLEAN /\ layoutDirty' \in BOOLEAN
         /\ texturesDirty' \in BOOLEAN /\ uniformsDirty' \in BOOLEAN
         /\ uploaded' \in Shaders \cup {None}
  BY DefaultsType DEF Bind, States

LEMMA BindStartsOver ==
  ASSUME TypeOK, NEW x \in {"color", "color2", None}, Bind(x), x = Surface',
         textures' \in [Units -> Textures \cup {None}]
  PROVE  intact' => OnTheGpu'
  <1> SUFFICES ASSUME intact' PROVE OnTheGpu'
    OBVIOUS
  <1>1. gpu' = [Defaults EXCEPT !.target = x]
    BY DEF Bind
  <1>2. gpu'.target = x /\ gpu'.textures = [u \in Units |-> None]
    BY <1>1 DEF Defaults
  <1> QED BY <1>2 DEF Bind, OnTheGpu

-----------------------------------------------------------------------------
(* A draw.                                                                 *)

LEMMA FlushedType ==
  ASSUME TypeOK, NEW lost
  PROVE  Flushed(lost) \in States
  <1>1. AutoNow \in [Shaders -> Values]
    BY DEF AutoNow, TypeOK
  <1>2. Uploads => shader \in Shaders
    BY DEF Uploads, HasRegisters, TypeOK
  <1>3. [u \in Units |-> IF textures[u] = None THEN gpu.textures[u] ELSE textures[u]]
        \in [Units -> Textures \cup {None}]
    BY DEF TypeOK, States
  <1>4. Uploads => <<user[shader], AutoNow[shader]>> \in Values \X Values
    BY <1>1, <1>2 DEF TypeOK
  <1>5. Sends("constants") = Uploads
    BY DEF Sends
  <1>6. /\ enabled \in SUBSET Caps /\ program \in Programs /\ shader \in Shaders \cup {None}
        /\ matrices \in Values /\ gpu \in States /\ layout \in Layouts \cup {None}
    BY DEF TypeOK
  <1> DEFINE
    caps == IF Sends("state") /\ "state" \notin lost THEN enabled ELSE gpu.caps
    prog == IF Sends("program") /\ "program" \notin lost THEN program ELSE gpu.program
    shad == IF Sends("shader") /\ "shader" \notin lost THEN shader ELSE gpu.shader
    layo == IF Sends("layout") /\ "layout" \notin lost THEN layout ELSE gpu.layout
    text == IF Sends("textures") /\ "textures" \notin lost
            THEN [u \in Units |-> IF textures[u] = None THEN gpu.textures[u] ELSE textures[u]]
            ELSE gpu.textures
    unif == IF Sends("uniforms") /\ "uniforms" \notin lost THEN matrices ELSE gpu.uniforms
    cons == IF Sends("constants") /\ "constants" \notin lost
            THEN <<user[shader], AutoNow[shader]>> ELSE gpu.constants
  <1>7. /\ caps \in SUBSET Caps /\ prog \in Programs /\ shad \in Shaders \cup {None}
        /\ layo \in Layouts \cup {None} /\ unif \in Values
    BY <1>6 DEF States
  <1>8. text \in [Units -> Textures \cup {None}]
    BY <1>3, <1>6 DEF States
  <1>9. cons \in Values \X Values
    BY <1>4, <1>5, <1>6 DEF States
  <1>10. Flushed(lost) = [gpu EXCEPT !.caps = caps, !.program = prog, !.shader = shad,
                             !.layout = layo, !.textures = text, !.uniforms = unif,
                             !.constants = cons]
    BY <1>6 DEF Flushed, States
  <1>11. Flushed(lost) = [target |-> gpu.target, caps |-> caps, program |-> prog, shader |-> shad,
            layout |-> layo, textures |-> text, uniforms |-> unif, constants |-> cons,
            area |-> gpu.area]
    <2> HIDE DEF caps, prog, shad, layo, text, unif, cons
    <2> QED BY <1>6, <1>10 DEF States
  <1>12. gpu.target \in {"color", "color2", None} /\ gpu.area \in Viewports \cup {None}
    BY <1>6 DEF States
  <1> HIDE DEF caps, prog, shad, layo, text, unif, cons
  <1> QED BY <1>7, <1>8, <1>9, <1>11, <1>12 DEF States

\* The parts of the GPU's state after a flush that lost nothing.
LEMMA FlushedParts ==
  ASSUME TypeOK
  PROVE  /\ Flushed({}).target = gpu.target
         /\ Flushed({}).caps = IF stateDirty THEN enabled ELSE gpu.caps
         /\ Flushed({}).program = IF stateDirty THEN program ELSE gpu.program
         /\ Flushed({}).shader = IF stateDirty THEN shader ELSE gpu.shader
         /\ Flushed({}).layout =
              IF layoutDirty /\ layout # None THEN layout ELSE gpu.layout
         /\ Flushed({}).textures =
              IF texturesDirty
              THEN [u \in Units |-> IF textures[u] = None THEN gpu.textures[u] ELSE textures[u]]
              ELSE gpu.textures
         /\ Flushed({}).uniforms = IF uniformsDirty THEN matrices ELSE gpu.uniforms
         /\ Flushed({}).constants =
              IF Uploads THEN <<user[shader], AutoNow[shader]>> ELSE gpu.constants
  BY DEF Flushed, Sends, TypeOK, States

\* After it everything is as set, whatever was dirty.
LEMMA FlushSendsAll ==
  ASSUME Inv, intact
  PROVE  /\ Flushed({}).target = Surface
         /\ Flushed({}).caps = enabled /\ Flushed({}).program = program
         /\ Flushed({}).shader = shader
         /\ layout # None => Flushed({}).layout = layout
         /\ Flushed({}).textures = textures
         /\ Flushed({}).uniforms = matrices
         /\ HasRegisters => Flushed({}).constants = <<user[shader], AutoNow[shader]>>
  <1>1. /\ Flushed({}).target = Surface
        /\ Flushed({}).caps = enabled /\ Flushed({}).program = program
        /\ Flushed({}).shader = shader
        /\ layout # None => Flushed({}).layout = layout
        /\ Flushed({}).uniforms = matrices
    BY FlushedParts DEF Inv, OnTheGpu
  <1>2. Flushed({}).textures = textures
    <2>1. Flushed({}).textures \in [Units -> Textures \cup {None}]
      BY FlushedType DEF States, Inv
    <2>2. ASSUME NEW u \in Units PROVE Flushed({}).textures[u] = textures[u]
      BY FlushedParts DEF Inv, OnTheGpu, TypeOK
    <2> QED BY <2>1, <2>2 DEF Inv, TypeOK
  <1>3. ASSUME HasRegisters PROVE Flushed({}).constants = <<user[shader], AutoNow[shader]>>
    <2>1. CASE Uploads
      BY <2>1, FlushedParts DEF Inv
    <2>2. CASE ~Uploads
      <3>1. ~shDirty[shader] /\ ~Refreshes /\ uploaded = shader
        BY <1>3, <2>2 DEF Uploads
      <3>2. gpu.constants = <<user[shader], auto[shader]>>
        BY <1>3, <3>1 DEF Inv, OnTheGpu, HasRegisters
      <3> QED BY <2>2, <3>1, <3>2, FlushedParts DEF AutoNow, Inv
    <2> QED BY <2>1, <2>2
  <1> QED BY <1>1, <1>2, <1>3

\* The fgl_* values a flush leaves are those of the matrices.
LEMMA AutoFollows ==
  ASSUME Inv, HasRegisters
  PROVE  AutoNow[shader] = matrices
  BY DEF AutoNow, Refreshes, HasRegisters, Inv, Following, TypeOK

LEMMA DrawKeepsType ==
  ASSUME TypeOK, Draw
  PROVE  TypeOK'
  <1>1. gpu' \in States
    BY FlushedType DEF Draw
  <1>2. AutoNow \in [Shaders -> Values]
    BY DEF AutoNow, TypeOK
  <1>3. intact' \in BOOLEAN /\ empty' \in BOOLEAN
    BY DEF Draw
  <1>4. shDirty' \in [Shaders -> BOOLEAN]
    BY DEF Draw, TypeOK
  <1> QED BY <1>1, <1>2, <1>3, <1>4 DEF Draw, TypeOK, setVars, frameVars

LEMMA DrawKeepsInv ==
  ASSUME Inv, Draw
  PROVE  Inv'
  <1>1. TypeOK'
    BY DrawKeepsType DEF Inv
  <1>2. Following'
    BY AutoFollows DEF Draw, Following, HasRegisters, Inv, setVars
  <1>3. ASSUME intact' PROVE OnTheGpu'
    <2>1. gpu' = Flushed({}) /\ intact
      BY <1>3 DEF Draw
    <2>2. gpu'.target = Surface'
      BY <2>1, FlushSendsAll DEF Draw, frameVars, Surface
    <2>3. gpu'.caps = enabled' /\ gpu'.program = program' /\ gpu'.shader = shader'
      BY <2>1, FlushSendsAll DEF Draw, setVars
    <2>4. layout' = None \/ gpu'.layout = layout'
      BY <2>1, FlushSendsAll DEF Draw, setVars
    <2>5. gpu'.textures = textures' /\ gpu'.uniforms = matrices'
      BY <2>1, FlushSendsAll DEF Draw, setVars
    <2>6. ASSUME uploaded' # None, uploaded' \notin Plain, ~shDirty'[uploaded']
          PROVE  gpu'.constants = <<user'[uploaded'], auto'[uploaded']>>
      <3>1. CASE shader # None
        <4>1. HasRegisters /\ uploaded' = shader
          BY <2>6, <3>1 DEF Draw, HasRegisters
        <4> QED BY <2>1, <4>1, FlushSendsAll DEF Draw
      <3>2. CASE shader = None
        <4>1. ~Uploads /\ ~Refreshes /\ uploaded' = uploaded
          BY <3>2 DEF Uploads, Refreshes, HasRegisters, Draw
        <4>2. gpu'.constants = gpu.constants /\ auto' = auto /\ shDirty' = shDirty /\ user' = user
          BY <2>1, <4>1, FlushedParts DEF Draw, AutoNow, Inv
        <4> QED BY <2>1, <2>6, <4>1, <4>2 DEF Inv, OnTheGpu
      <3> QED BY <3>1, <3>2
    <2> QED BY <2>2, <2>3, <2>4, <2>5, <2>6 DEF OnTheGpu
  <1>4. empty' => ~intact'
    BY DEF Draw, Inv
  <1> QED BY <1>1, <1>2, <1>3, <1>4 DEF Inv

-----------------------------------------------------------------------------
(* The other actions.                                                      *)

\* Setting state: the flag of its group is up, the rest is as before.
LEMMA SettersKeepInv ==
  ASSUME Inv,
         \/ \E c \in Caps : Enable(c)
         \/ \E p \in Programs : UseProgram(p)
         \/ \E s \in Shaders \cup {None} : UseShader(s)
         \/ \E v \in Values : SetMatrices(v)
         \/ \E l \in Layouts \cup {None} : SetLayout(l)
         \/ \E t \in Textures, u \in Units : BindTexture(u, t)
  PROVE  Inv'
  <1> USE DEF Inv, shaderVars, frameVars, bufferVars
  <1>1. TypeOK'
    <2>1. CASE \E c \in Caps : Enable(c) BY <2>1 DEF Enable, TypeOK
    <2>2. CASE \E p \in Programs : UseProgram(p) BY <2>2 DEF UseProgram, TypeOK
    <2>3. CASE \E s \in Shaders \cup {None} : UseShader(s) BY <2>3 DEF UseShader, TypeOK
    <2>4. CASE \E v \in Values : SetMatrices(v) BY <2>4 DEF SetMatrices, TypeOK
    <2>5. CASE \E l \in Layouts \cup {None} : SetLayout(l) BY <2>5 DEF SetLayout, TypeOK
    <2>6. CASE \E t \in Textures, u \in Units : BindTexture(u, t) BY <2>6 DEF BindTexture, TypeOK
    <2> QED BY <2>1, <2>2, <2>3, <2>4, <2>5, <2>6
  <1>2. Following'
    <2>1. CASE \E c \in Caps : Enable(c) BY <2>1 DEF Enable, Following, HasRegisters
    <2>2. CASE \E p \in Programs : UseProgram(p) BY <2>2 DEF UseProgram, Following, HasRegisters
    <2>3. CASE \E s \in Shaders \cup {None} : UseShader(s) BY <2>3 DEF UseShader, Following, HasRegisters
    <2>4. CASE \E v \in Values : SetMatrices(v) BY <2>4 DEF SetMatrices, Following, HasRegisters
    <2>5. CASE \E l \in Layouts \cup {None} : SetLayout(l) BY <2>5 DEF SetLayout, Following, HasRegisters
    <2>6. CASE \E t \in Textures, u \in Units : BindTexture(u, t) BY <2>6 DEF BindTexture, Following, HasRegisters
    <2> QED BY <2>1, <2>2, <2>3, <2>4, <2>5, <2>6
  <1>3. ASSUME intact' PROVE OnTheGpu'
    <2> USE <1>3
    <2>1. CASE \E c \in Caps : Enable(c) BY <2>1 DEF Enable, OnTheGpu, Surface
    <2>2. CASE \E p \in Programs : UseProgram(p) BY <2>2 DEF UseProgram, OnTheGpu, Surface
    <2>3. CASE \E s \in Shaders \cup {None} : UseShader(s) BY <2>3 DEF UseShader, OnTheGpu, Surface
    <2>4. CASE \E v \in Values : SetMatrices(v) BY <2>4 DEF SetMatrices, OnTheGpu, Surface
    <2>5. CASE \E l \in Layouts \cup {None} : SetLayout(l) BY <2>5 DEF SetLayout, OnTheGpu, Surface
    <2>6. CASE \E t \in Textures, u \in Units : BindTexture(u, t)
      <3>1. \A w \in Units : textures'[w] = None => gpu'.textures[w] = textures'[w]
        BY <2>6 DEF BindTexture, OnTheGpu, TypeOK
      <3> QED BY <2>6, <3>1 DEF BindTexture, OnTheGpu, Surface
    <2> QED BY <2>1, <2>2, <2>3, <2>4, <2>5, <2>6
  <1>9. empty' => ~intact'
    BY DEF Enable, UseProgram, UseShader, SetMatrices, SetLayout, BindTexture
  <1> QED BY <1>1, <1>2, <1>3, <1>9

LEMMA UnbindKeepsInv ==
  ASSUME Inv, NEW u \in Units, UnbindTexture(u)
  PROVE  Inv'
  <1> USE DEF Inv, shaderVars, frameVars
  <1>1. [gpu EXCEPT !.textures[u] = None] \in States
    BY DEF TypeOK, States
  <1>2. TypeOK'
    <2>1. gpu' \in States /\ intact' \in BOOLEAN /\ empty' \in BOOLEAN /\ (empty' => ~intact')
      BY <1>1 DEF UnbindTexture, Emit, TypeOK
    <2>2. textures' \in [Units -> Textures \cup {None}]
      BY DEF UnbindTexture, TypeOK
    <2> QED BY <2>1, <2>2 DEF UnbindTexture, TypeOK
  <1>3. Following'
    BY DEF UnbindTexture, Following, HasRegisters
  <1>4. ASSUME intact' PROVE OnTheGpu'
    <2>1. gpu' = [gpu EXCEPT !.textures[u] = None] /\ intact
      BY <1>4 DEF UnbindTexture, Emit
    <2>2. /\ gpu'.target = gpu.target /\ gpu'.caps = gpu.caps /\ gpu'.program = gpu.program
          /\ gpu'.shader = gpu.shader /\ gpu'.layout = gpu.layout
          /\ gpu'.uniforms = gpu.uniforms /\ gpu'.constants = gpu.constants
          /\ gpu'.textures = [gpu.textures EXCEPT ![u] = None]
      BY <2>1 DEF TypeOK, States
    <2>3. \A w \in Units : textures'[w] = None \/ ~texturesDirty' => gpu'.textures[w] = textures'[w]
      BY <2>1, <2>2 DEF UnbindTexture, OnTheGpu, TypeOK, States
    <2> QED BY <2>1, <2>2, <2>3 DEF UnbindTexture, OnTheGpu, Surface
  <1>9. empty' => ~intact'
    BY DEF UnbindTexture, Emit
  <1> QED BY <1>2, <1>3, <1>4, <1>9

LEMMA ViewportKeepsInv ==
  ASSUME Inv, NEW v \in Viewports, SetViewport(v)
  PROVE  Inv'
  <1> USE DEF Inv, shaderVars, frameVars, dirtyVars
  <1>1. [gpu EXCEPT !.area = v] \in States
    BY DEF TypeOK, States
  <1>2. TypeOK'
    <2>1. gpu' \in States /\ intact' \in BOOLEAN /\ empty' \in BOOLEAN /\ (empty' => ~intact')
      BY <1>1 DEF SetViewport, Emit, TypeOK
    <2> QED BY <2>1 DEF SetViewport, TypeOK
  <1>3. Following'
    BY DEF SetViewport, Following, HasRegisters
  <1>4. ASSUME intact' PROVE OnTheGpu'
    <2>1. gpu' = [gpu EXCEPT !.area = v] /\ intact
      BY <1>4 DEF SetViewport, Emit
    <2>2. /\ gpu'.target = gpu.target /\ gpu'.caps = gpu.caps /\ gpu'.program = gpu.program
          /\ gpu'.shader = gpu.shader /\ gpu'.layout = gpu.layout
          /\ gpu'.uniforms = gpu.uniforms /\ gpu'.constants = gpu.constants
          /\ gpu'.textures = gpu.textures
      BY <2>1 DEF TypeOK, States
    <2> QED BY <2>1, <2>2 DEF SetViewport, OnTheGpu, Surface
  <1>9. empty' => ~intact'
    BY DEF SetViewport, Emit
  <1> QED BY <1>2, <1>3, <1>4, <1>9

LEMMA UniformKeepsInv ==
  ASSUME Inv, NEW s \in Shaders, NEW v \in Values, SetUniform(s, v)
  PROVE  Inv'
  <1> USE DEF Inv, setVars, frameVars, bufferVars, dirtyVars
  <1>1. TypeOK'
    BY DEF SetUniform, TypeOK
  <1>2. Following'
    BY DEF SetUniform, Following, HasRegisters
  <1>3. ASSUME intact' PROVE OnTheGpu'
    <2>1. \A r \in Shaders : ~shDirty'[r] => ~shDirty[r] /\ user'[r] = user[r]
      BY DEF SetUniform, TypeOK
    <2>2. uploaded # None => uploaded \in Shaders
      BY DEF TypeOK
    <2> QED BY <1>3, <2>1, <2>2 DEF SetUniform, OnTheGpu, Surface
  <1>9. empty' => ~intact'
    BY DEF SetUniform
  <1> QED BY <1>1, <1>2, <1>3, <1>9

\* A shader made at an address that was used before must be sent again.
LEMMA CreateKeepsInv ==
  ASSUME Inv, (\E s \in Shaders : CreateShader(s)) \/ \E t \in Textures : CreateTexture(t)
  PROVE  Inv'
  <1> USE DEF Inv, setVars, frameVars, bufferVars, dirtyVars, shaderVars
  <1>1. TypeOK'
    <2>1. CASE \E s \in Shaders : CreateShader(s) BY <2>1 DEF CreateShader, TypeOK
    <2>2. CASE \E t \in Textures : CreateTexture(t) BY <2>2 DEF CreateTexture, TypeOK
    <2> QED BY <2>1, <2>2
  <1>2. Following'
    <2>1. CASE \E s \in Shaders : CreateShader(s) BY <2>1 DEF CreateShader, Following, HasRegisters, TypeOK
    <2>2. CASE \E t \in Textures : CreateTexture(t) BY <2>2 DEF CreateTexture, Following, HasRegisters
    <2> QED BY <2>1, <2>2
  <1>3. ASSUME intact' PROVE OnTheGpu'
    <2>1. CASE \E s \in Shaders : CreateShader(s)
      <3>1. \A r \in Shaders : ~shDirty'[r] => ~shDirty[r] /\ user'[r] = user[r] /\ auto'[r] = auto[r]
        BY <2>1 DEF CreateShader, TypeOK
      <3>2. uploaded # None => uploaded \in Shaders
        BY DEF TypeOK
      <3> QED BY <1>3, <2>1, <3>1, <3>2 DEF CreateShader, OnTheGpu, Surface
    <2>2. CASE \E t \in Textures : CreateTexture(t) BY <1>3, <2>2 DEF CreateTexture, OnTheGpu, Surface
    <2> QED BY <2>1, <2>2
  <1>9. empty' => ~intact'
    BY DEF CreateShader, CreateTexture
  <1> QED BY <1>1, <1>2, <1>3, <1>9

\* Everything that ends a command buffer.
Submits ==
    \/ Submit \/ PresentRefused \/ Present
    \/ \E s \in Shaders : DestroyShader(s)
    \/ \E t \in Textures : TextureData(t) \/ DestroyTexture(t)

LEMMA SurfaceRange ==
  ASSUME TypeOK
  PROVE  Surface \in {"color", "color2", None}
  BY DEF Surface, TypeOK

\* Without recorded commands they leave the command buffer as it is.
Leaves ==
    /\ gpu' = gpu /\ intact' = intact /\ empty' = empty /\ uses' = uses /\ empty
    /\ stateDirty' \in BOOLEAN /\ (~stateDirty' => ~stateDirty)
    /\ layoutDirty' = layoutDirty /\ texturesDirty' = texturesDirty
    /\ uniformsDirty' = uniformsDirty
    /\ uploaded' \in {uploaded, None}

LEMMA SubmitsOrLeaves ==
  ASSUME Inv, Submits
  PROVE  (\E x \in {"color", "color2", None} : Bind(x) /\ x = Surface') \/ Leaves
  <1> USE DEF setVars, frameVars, bufferVars, dirtyVars
  <1>1. CASE Present
    <2>1. CASE flip
      BY <1>1, <2>1 DEF Present, Surface, Inv, TypeOK
    <2>2. CASE ~flip
      <3>1. back' = back
        BY <1>1, <2>2 DEF Present, Inv, TypeOK
      <3> QED BY <1>1, <2>2, <3>1, SurfaceRange DEF Present, Flush, Leaves, Surface, Inv, TypeOK
    <2> QED BY <2>1, <2>2
  <1>2. CASE Submits /\ ~Present
    <2>1. back' = back /\ second' = second /\ (Bind(Surface) \/ Leaves)
      BY <1>2 DEF Submits, Submit, PresentRefused, DestroyShader, TextureData, DestroyTexture,
                  Flush, Leaves, Inv, TypeOK
    <2> QED BY <2>1, SurfaceRange DEF Surface, Inv
  <1> QED BY <1>1, <1>2

LEMMA SubmittersKeepInv ==
  ASSUME Inv, Submits
  PROVE  Inv'
  <1> USE DEF Inv, shaderVars, setVars, frameVars
  <1>2. textures' \in [Units -> Textures \cup {None}]
    BY DEF Submits, Submit, PresentRefused, Present, DestroyShader, TextureData, DestroyTexture, TypeOK
  <1>3. /\ enabled' = enabled /\ program' = program /\ layout' = layout /\ matrices' = matrices
        /\ area' \in {area, None} /\ calls' = calls /\ flip' = flip /\ second' = second
        /\ user' = user /\ auto' = auto /\ shDirty' = shDirty
        /\ shader' = shader \/ shader' = None
    BY DEF Submits, Submit, PresentRefused, Present, DestroyShader, TextureData, DestroyTexture
  <1>4. back' \in BOOLEAN /\ torn' \in BOOLEAN /\ screen' \in {"color", "color2", None}
    <2>1. CASE Present
      <3>1. back' = (back # flip)
        BY <2>1 DEF Present
      <3>2. torn' \in BOOLEAN
        BY <2>1 DEF Present
      <3>3. screen' \in {"color", "color2", None}
        BY <2>1, SurfaceRange DEF Present, TypeOK
      <3> QED BY <3>1, <3>2, <3>3
    <2>2. CASE Submits /\ ~Present
      BY <2>2 DEF Submits, Submit, PresentRefused, DestroyShader, TextureData, DestroyTexture, TypeOK
    <2> QED BY <2>1, <2>2
  <1>5. live' \subseteq live /\ pixels' \in [Textures -> Values]
    BY DEF Submits, Submit, PresentRefused, Present, DestroyShader, TextureData, DestroyTexture, TypeOK
  <1>6. shader' # None => shader' \in live'
    BY DEF Submits, Submit, PresentRefused, Present, DestroyShader, TextureData, DestroyTexture,
           Following, TypeOK
  <1>7. CASE \E x \in {"color", "color2", None} : Bind(x) /\ x = Surface'
    <2>1. PICK x \in {"color", "color2", None} : Bind(x) /\ x = Surface'
      BY <1>7
    <2>2. /\ gpu' \in States /\ intact' \in BOOLEAN /\ empty' \in BOOLEAN
          /\ (empty' => ~intact')
          /\ stateDirty' \in BOOLEAN /\ layoutDirty' \in BOOLEAN
          /\ texturesDirty' \in BOOLEAN /\ uniformsDirty' \in BOOLEAN
          /\ uploaded' \in Shaders \cup {None}
      BY <2>1, BindType
    <2>3. TypeOK'
      BY <1>2, <1>3, <1>4, <1>5, <2>2 DEF TypeOK
    <2>4. Following'
      BY <1>6, <2>1 DEF Bind, Following
    <2>5. intact' => OnTheGpu'
      BY <1>2, <2>1, BindStartsOver
    <2> QED BY <2>2, <2>3, <2>4, <2>5
  <1>8. CASE Leaves
    <2>1. TypeOK'
      BY <1>2, <1>3, <1>4, <1>5, <1>8 DEF TypeOK, Leaves
    <2>2. Following'
      BY <1>3, <1>6, <1>8 DEF Following, Leaves, HasRegisters
    <2> QED BY <1>8, <2>1, <2>2 DEF Leaves
  <1> QED BY <1>7, <1>8, SubmitsOrLeaves

LEMMA InitInv ==
  ASSUME Init
  PROVE  Inv
  <1>1. gpu \in States
    BY DefaultsType DEF Init, States
  <1>2. TypeOK
    <2>1. flip \in BOOLEAN
      BY DEF Init
    <2>2. intact \in BOOLEAN /\ empty \in BOOLEAN
      BY DEF Init
    <2>4. second \in {"color2", None}
      BY DEF Init
    <2>3. screen \in {"color", "color2", None}
      BY DEF Init
    <2> QED BY <1>1, <2>1, <2>2, <2>3, <2>4 DEF Init, TypeOK
  <1>3. Following
    BY DEF Init, Following, HasRegisters
  <1>4. intact => OnTheGpu
    BY DEF Init, OnTheGpu, Defaults, Surface
  <1>5. empty => ~intact
    BY DEF Init
  <1> QED BY <1>2, <1>3, <1>4, <1>5 DEF Inv

LEMMA NextKeepsInv ==
  ASSUME Inv, [Next]_vars
  PROVE  Inv'
  <1>1. CASE UNCHANGED vars
    BY <1>1 DEF vars, setVars, dirtyVars, shaderVars, frameVars, bufferVars, Inv, TypeOK,
                Following, HasRegisters, OnTheGpu, Surface
  <1>2. CASE Draw
    BY <1>2, DrawKeepsInv
  <1>3. CASE Submits
    BY <1>3, SubmittersKeepInv
  <1>4. CASE \/ \E c \in Caps : Enable(c)
             \/ \E p \in Programs : UseProgram(p)
             \/ \E s \in Shaders \cup {None} : UseShader(s)
             \/ \E v \in Values : SetMatrices(v)
             \/ \E l \in Layouts \cup {None} : SetLayout(l)
             \/ \E t \in Textures, u \in Units : BindTexture(u, t)
    BY <1>4, SettersKeepInv
  <1>5. CASE \E u \in Units : UnbindTexture(u)
    BY <1>5, UnbindKeepsInv
  <1>6. CASE \E v \in Viewports : SetViewport(v)
    BY <1>6, ViewportKeepsInv
  <1>7. CASE \E s \in Shaders, v \in Values : SetUniform(s, v)
    BY <1>7, UniformKeepsInv
  <1>8. CASE (\E s \in Shaders : CreateShader(s)) \/ \E t \in Textures : CreateTexture(t)
    BY <1>8, CreateKeepsInv
  <1> QED BY <1>1, <1>2, <1>3, <1>4, <1>5, <1>6, <1>7, <1>8 DEF Next, Submits

LEMMA SpecInv == Spec => []Inv
  BY InitInv, NextKeepsInv, PTL DEF Spec

-----------------------------------------------------------------------------
(* The theorems.                                                           *)

\* Every reachable state of a context is well typed.
THEOREM TypeCorrect == Spec => []TypeOK
  BY SpecInv, PTL DEF Inv

\* A draw is drawn with everything as the program has set it, for any
\* numbers of shaders, textures and units and any order of calls.
THEOREM DrawsWhatWasSet == Spec => []DrawsAsSet
  <1>1. ASSUME Inv, intact PROVE Seen(Flushed({})) = Wanted
    <2> DEFINE g == Flushed({})
    <2>1. /\ g.target = Surface /\ g.caps = enabled /\ g.program = program
          /\ g.shader = shader /\ (layout # None => g.layout = layout)
          /\ g.textures = textures /\ g.uniforms = matrices
          /\ HasRegisters => g.constants = <<user[shader], AutoNow[shader]>>
      BY <1>1, FlushSendsAll
    <2>2. HasRegisters => g.constants = <<user[shader], matrices>>
      BY <1>1, <2>1, AutoFollows
    <2> HIDE DEF g
    <2>3. (CASE g.shader = None -> <<g.uniforms>>
             [] g.shader \in Plain -> <<>>
             [] OTHER -> g.constants)
          = (CASE shader = None -> <<matrices>>
             [] shader \in Plain -> <<>>
             [] OTHER -> <<user[shader], matrices>>)
      BY <2>1, <2>2 DEF HasRegisters
    <2>4. Seen(g) = Wanted
      BY <2>1, <2>3 DEF Seen, Wanted
    <2> QED BY <2>4 DEF g
  <1>2. Inv => DrawsAsSet
    BY <1>1 DEF DrawsAsSet
  <1> QED BY <1>2, SpecInv, PTL

\* What was recorded runs with the shaders and the pixels it had.
THEOREM RecordedDrawsStay == Spec => []RecordedStays
  <1>1. Init => Recorded
    BY DEF Init, Recorded, Bound, RecordedStays
  <1>2. ASSUME Inv, Recorded, [Next]_vars PROVE Recorded'
    <2>1. CASE Draw
      <3>1. \A r \in UsesNow : r[1] \in live /\ (r[1] \in Textures => pixels[r[1]] = r[2])
        BY <1>2 DEF UsesNow, Inv, TypeOK, Following, Recorded, Bound
      <3>2. empty' => uses' = {}
        <4>1. Sends("draw") /\ "draw" \in Groups
          BY DEF Sends, Groups
        <4> QED BY <1>2, <2>1, <4>1 DEF Draw, Recorded
      <3>3. uses' \subseteq uses \cup UsesNow
        BY <2>1 DEF Draw
      <3> QED BY <1>2, <2>1, <3>1, <3>2, <3>3 DEF Draw, Recorded, Bound, RecordedStays, setVars
    <2>2. CASE Submits
      <3>1. uses' = {}
        BY <1>2, <2>2, SubmitsOrLeaves DEF Recorded, Leaves, Bind
      <3>2. Bound'
        BY <1>2, <2>2 DEF Submits, Submit, PresentRefused, Present, DestroyShader, TextureData,
                    DestroyTexture, Recorded, Bound, setVars, Inv, TypeOK
      <3> QED BY <3>1, <3>2 DEF Recorded, RecordedStays
    <2>3. CASE \E s \in Shaders : CreateShader(s)
      BY <1>2, <2>3 DEF CreateShader, Recorded, Bound, RecordedStays, setVars, bufferVars
    <2>4. CASE \E t \in Textures : CreateTexture(t)
      <3>1. \A r \in uses : r[1] \in Textures => pixels'[r[1]] = pixels[r[1]]
        BY <1>2, <2>4 DEF CreateTexture, Recorded, RecordedStays, Inv, TypeOK
      <3> QED BY <1>2, <2>4, <3>1 DEF CreateTexture, Recorded, Bound, RecordedStays, setVars, bufferVars
    <2>5. CASE \E t \in Textures, u \in Units : BindTexture(u, t)
      BY <1>2, <2>5 DEF BindTexture, Recorded, Bound, RecordedStays, bufferVars, Inv, TypeOK
    <2>6. CASE \E u \in Units : UnbindTexture(u)
      BY <1>2, <2>6 DEF UnbindTexture, Emit, Recorded, Bound, RecordedStays, Inv, TypeOK
    <2>7. CASE /\ textures' = textures /\ live' = live /\ pixels' = pixels /\ uses' = uses
               /\ (empty' => empty)
      BY <1>2, <2>7 DEF Recorded, Bound, RecordedStays
    <2> QED BY <1>2, <2>1, <2>2, <2>3, <2>4, <2>5, <2>6, <2>7
            DEF Next, Submits, Enable, UseProgram, UseShader, SetMatrices, SetLayout, SetViewport,
                SetUniform, Emit, vars, setVars, bufferVars
  <1>3. Recorded => RecordedStays
    BY DEF Recorded
  <1> QED BY <1>1, <1>2, <1>3, SpecInv, PTL DEF Spec

\* No frame is drawn into the surface that is on the screen.
THEOREM NeverDrawsOnScreen == Spec => []DrawsOffScreen
  <1>1. Init => Frames
    BY DEF Init, Frames, Defaults, Surface
  <1>2. ASSUME Inv, Frames, [Next]_vars PROVE Frames'
    <2>1. CASE Present
      <3>1. gpu'.target \in {Surface', None}
        <4>1. CASE flip
          <5>1. Bind(Surface')
            BY <2>1, <4>1 DEF Present, Surface
          <5> QED BY <5>1 DEF Bind, Defaults
        <4>2. CASE ~flip
          <5>1. back' = back
            BY <1>2, <2>1, <4>2 DEF Present, Inv, TypeOK
          <5> QED BY <1>2, <2>1, <4>2, <5>1 DEF Present, Flush, Bind, Defaults, Surface, Frames, bufferVars
        <4> QED BY <4>1, <4>2
      <3>2. ASSUME flip', ~torn' PROVE screen' # Surface'
        <4>1. flip /\ screen' = Surface /\ back' = ~back
          BY <1>2, <2>1, <3>2 DEF Present, Inv, TypeOK
        <4>2. Surface # None /\ second' = second
          BY <2>1, <3>2 DEF Present
        <4> QED BY <1>2, <4>1, <4>2 DEF Surface, Inv, TypeOK
      <3> QED BY <3>1, <3>2 DEF Frames
    <2>2. CASE Submits /\ ~Present
      <3>1. /\ gpu'.target \in {Surface, None} /\ back' = back
            /\ flip' = flip /\ second' = second /\ torn' = torn /\ screen' = screen
        BY <1>2, <2>2 DEF Submits, Submit, PresentRefused, DestroyShader, TextureData,
                    DestroyTexture, Flush, Bind, Defaults, Frames, frameVars, bufferVars
      <3> QED BY <1>2, <3>1 DEF Frames, Surface
    <2>3. CASE ~Submits
      <3>1. gpu'.target = gpu.target
        <4>1. CASE Draw
          <5>1. \A lost : Flushed(lost).target = gpu.target
            BY <1>2 DEF Flushed, Inv, TypeOK, States
          <5> QED BY <4>1, <5>1 DEF Draw
        <4>2. CASE ~Draw
          BY <1>2, <2>3, <4>2 DEF Next, Submits, Enable, UseProgram, UseShader, SetMatrices, SetLayout,
                SetViewport, SetUniform, CreateShader, CreateTexture, BindTexture, UnbindTexture,
                Emit, Inv, TypeOK, States, vars, setVars, bufferVars
        <4> QED BY <4>1, <4>2
      <3>2. back' = back /\ flip' = flip /\ second' = second /\ torn' = torn /\ screen' = screen
        BY <1>2, <2>3 DEF Next, Submits, Enable, UseProgram, UseShader, SetMatrices, SetLayout,
                SetViewport, SetUniform, CreateShader, CreateTexture, BindTexture, UnbindTexture, Draw,
                vars, frameVars
      <3> QED BY <1>2, <3>1, <3>2 DEF Frames, Surface
    <2> QED BY <2>1, <2>2, <2>3
  <1>3. Inv /\ Frames => DrawsOffScreen
    BY DEF Inv, Frames, DrawsOffScreen
  <1> QED BY <1>1, <1>2, <1>3, SpecInv, PTL DEF Spec

=============================================================================
