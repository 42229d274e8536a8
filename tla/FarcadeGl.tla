------------------------------ MODULE FarcadeGl ------------------------------
(***************************************************************************)
(* farcadegl.h: a context that records commands for the GPU.               *)
(*                                                                         *)
(* Setting state only marks it dirty; a draw sends what is dirty before it *)
(* (fgl__flush_state), and every submit starts the GPU from its defaults   *)
(* (fgl__bind).  The model keeps, next to what the context remembers, the  *)
(* state the GPU will be in once it has run the commands recorded so far.  *)
(***************************************************************************)
EXTENDS FiniteSets

CONSTANTS
    None,        \* handle 0, and no shader
    Caps,        \* what fglEnable takes
    Programs,    \* the built-in programs; BuiltIn is the first one used
    BuiltIn,
    Shaders,     \* addresses that shaders can have
    Plain,       \* those whose shaders have no uniforms; the others have one that
                 \* is set by name and one of the fgl_* ones
    Textures,    \* handles
    Units,       \* texture units
    Layouts,     \* vertex layouts a program describes
    Viewports,   \* what fglViewport is called with
    Values,      \* matrices, lights, uniforms, pixels: only their difference matters
    Initial,     \* the first of them
    Applications \* for each program, the kinds of calls it makes and the faults it
                 \* meets: "memory", the buffer cannot grow; "gpu", a call fails

ASSUME PlainAssumption == Plain \subseteq Shaders
ASSUME InitialAssumption == Initial \in Values /\ BuiltIn \in Programs
ASSUME NoneAssumption ==
    /\ None \notin Shaders \cup Textures \cup Layouts \cup {"color", "color2"}
    /\ Shaders \cap Textures = {}

VARIABLES
    calls,         \* of Applications, what this program does
    flip,          \* desc.page_flip, as the context could keep it
    second,        \* color2, None in a window, which keeps page_flip without it
    back,          \* which of the two colour surfaces is drawn to
    enabled, program, shader, layout, textures, matrices,   \* what was set
    area,          \* history: what fglViewport was last called with, since the
                   \* program last called fglSubmit or fglPresent
    stateDirty, layoutDirty, texturesDirty, uniformsDirty,
    uploaded,      \* whose uniforms the GPU has
    user, auto,    \* values of each shader: those set by name, and fgl_*
    shDirty,       \* dirty of each shader
    live,          \* shaders and textures that exist
    pixels,        \* of each texture
    gpu,           \* the GPU's state after the commands recorded so far
    uses,          \* history: what these refer to, with the pixels of then
    intact,        \* history: no command was lost
    empty,         \* cmd_len is 0, as only before the first memory for commands
    screen,        \* the surface shown last, with page flipping
    torn           \* history: the last attempt to show one failed

setVars    == <<enabled, program, shader, layout, textures, matrices>>
dirtyVars  == <<stateDirty, layoutDirty, texturesDirty, uniformsDirty, uploaded>>
shaderVars == <<user, auto, shDirty>>
frameVars  == <<calls, flip, second, back, screen, torn>>
bufferVars == <<gpu, uses, intact, empty>>
vars == <<setVars, area, dirtyVars, shaderVars, frameVars, bufferVars, live, pixels>>

-----------------------------------------------------------------------------
(* The GPU.                                                                *)

Surface == IF back THEN second ELSE "color"

States ==
    [target: {"color", "color2", None}, caps: SUBSET Caps, program: Programs,
     shader: Shaders \cup {None}, layout: Layouts \cup {None},
     textures: [Units -> Textures \cup {None}], uniforms: Values,
     constants: Values \X Values, area: Viewports \cup {None}]

\* Where every command buffer starts.
Defaults ==
    [target |-> None, caps |-> {}, program |-> BuiltIn, shader |-> None,
     layout |-> None, textures |-> [u \in Units |-> None], uniforms |-> Initial,
     constants |-> <<Initial, Initial>>, area |-> None]

\* What the next draw depends on, in a state g of the GPU: a draw says
\* itself whether it uses the default layout, and a shader makes the
\* built-in program and its uniforms irrelevant.
Seen(g) ==
    [target |-> g.target, caps |-> g.caps, textures |-> g.textures,
     layout |-> IF layout = None THEN None ELSE g.layout,
     code   |-> IF g.shader = None THEN <<None, g.program>> ELSE <<g.shader, None>>,
     values |-> CASE g.shader = None -> <<g.uniforms>>
                  [] g.shader \in Plain -> <<>>
                  [] OTHER -> g.constants]

\* The same, as the program has set it.
Wanted ==
    [target |-> Surface, caps |-> enabled, textures |-> textures,
     layout |-> layout,
     code   |-> IF shader = None THEN <<None, program>> ELSE <<shader, None>>,
     values |-> CASE shader = None -> <<matrices>>
                  [] shader \in Plain -> <<>>
                  [] OTHER -> <<user[shader], matrices>>]

\* What a run of the commands must still find.
UsesNow ==
    {<<s, None>> : s \in {shader} \ {None}}
    \cup {<<textures[u], pixels[textures[u]]>> : u \in {v \in Units : textures[v] # None}}

-----------------------------------------------------------------------------
(* Recording: fgl__emit and fgl__flush_state.                              *)

\* fgl__emit: a command that finds no room is left out.
Emit(sent) ==
    \/ gpu' = sent /\ empty' = FALSE /\ UNCHANGED intact
    \/ "memory" \in calls /\ intact' = FALSE /\ UNCHANGED <<gpu, empty>>

Groups == {"state", "program", "shader", "layout", "textures", "uniforms", "constants", "draw"}

\* Whether fgl__flush_state finds uniforms of the shader to send, after
\* the fgl_* ones were refreshed.
HasRegisters == shader # None /\ shader \notin Plain
Refreshes == uniformsDirty /\ HasRegisters
Uploads == HasRegisters /\ (shDirty[shader] \/ Refreshes \/ uploaded # shader)

AutoNow == IF Refreshes THEN [auto EXCEPT ![shader] = matrices] ELSE auto

Sends(g) ==
    CASE g \in {"state", "program", "shader"} -> stateDirty
      [] g = "layout" -> layoutDirty /\ layout # None
      [] g = "textures" -> texturesDirty
      [] g = "uniforms" -> uniformsDirty
      [] g = "constants" -> Uploads
      [] g = "draw" -> TRUE

\* The GPU after a flush of which some commands were lost.
Flushed(lost) ==
    LET Sent(g) == Sends(g) /\ g \notin lost IN
    [gpu EXCEPT
       !.caps = IF Sent("state") THEN enabled ELSE @,
       !.program = IF Sent("program") THEN program ELSE @,
       !.shader = IF Sent("shader") THEN shader ELSE @,
       !.layout = IF Sent("layout") THEN layout ELSE @,
       !.textures = IF Sent("textures")
                    THEN [u \in Units |-> IF textures[u] = None THEN @[u] ELSE textures[u]]
                    ELSE @,
       !.uniforms = IF Sent("uniforms") THEN matrices ELSE @,
       !.constants = IF Sent("constants") THEN <<user[shader], AutoNow[shader]>> ELSE @]

\* Bug: uniforms that changed are not sent again to the shader in use.
DrawKeepsConstants ==
    /\ shader # None => shader \in live
    /\ gpu' = IF uploaded = shader THEN gpu ELSE Flushed({})
    /\ auto' = AutoNow
    /\ shDirty' = IF Uploads THEN [shDirty EXCEPT ![shader] = FALSE] ELSE shDirty
    /\ uploaded' = IF shader = None THEN uploaded ELSE shader
    /\ stateDirty' = FALSE /\ layoutDirty' = FALSE
    /\ texturesDirty' = FALSE /\ uniformsDirty' = FALSE
    /\ uses' = uses \cup UsesNow
    /\ UNCHANGED <<setVars, area, user, frameVars, live, pixels, intact, empty>>

\* fglDraw, fglDrawIndexed: the flags are cleared whether the commands
\* found room or not.
Draw ==
    /\ shader # None => shader \in live
    /\ \E lost \in SUBSET {g \in Groups : "memory" \in calls /\ Sends(g)} :
          /\ gpu' = Flushed(lost)
          /\ intact' = (intact /\ lost = {})
          /\ empty' = (empty /\ \A g \in Groups : Sends(g) => g \in lost)
          /\ uses' = IF "draw" \in lost THEN uses ELSE uses \cup UsesNow
    /\ auto' = AutoNow
    /\ shDirty' = IF Uploads THEN [shDirty EXCEPT ![shader] = FALSE] ELSE shDirty
    /\ uploaded' = IF shader = None THEN uploaded ELSE shader
    /\ stateDirty' = FALSE /\ layoutDirty' = FALSE
    /\ texturesDirty' = FALSE /\ uniformsDirty' = FALSE
    /\ UNCHANGED <<setVars, area, user, frameVars, live, pixels>>

\* fgl__bind: a new command buffer, in which nothing has been sent yet.
\* Its first command finds the room of an earlier buffer, if there was one.
Bind(surface) ==
    /\ \/ gpu' = [Defaults EXCEPT !.target = surface] /\ intact' = TRUE /\ empty' = FALSE
       \/ "memory" \in calls /\ empty
          /\ gpu' = Defaults /\ intact' = FALSE /\ empty' = TRUE
    /\ uses' = {}
    /\ stateDirty' = TRUE /\ layoutDirty' = TRUE
    /\ texturesDirty' = TRUE /\ uniformsDirty' = TRUE
    /\ uploaded' = None

\* The submit that other calls begin with: without commands it does nothing.
Flush ==
    IF empty THEN UNCHANGED <<bufferVars, dirtyVars>> ELSE Bind(Surface)

-----------------------------------------------------------------------------
(* The program sets state.                                                 *)

Enable(c) ==
    /\ "caps" \in calls
    /\ enabled' \in {enabled \cup {c}, enabled \ {c}}
    /\ stateDirty' = TRUE
    /\ UNCHANGED <<program, shader, layout, textures, matrices, area, layoutDirty, texturesDirty,
                   uniformsDirty, uploaded, shaderVars, frameVars, bufferVars, live, pixels>>

UseProgram(p) ==
    /\ "program" \in calls
    /\ program' = p /\ shader' = None
    /\ stateDirty' = TRUE
    /\ UNCHANGED <<enabled, layout, textures, matrices, area, layoutDirty, texturesDirty,
                   uniformsDirty, uploaded, shaderVars, frameVars, bufferVars, live, pixels>>

\* Bug: the fgl_* uniforms of the shader are not refreshed.
UseShaderOnly(s) ==
    /\ "shader" \in calls
    /\ s \in live \cup {None}
    /\ shader' = s
    /\ stateDirty' = TRUE
    /\ UNCHANGED <<enabled, program, layout, textures, matrices, area, layoutDirty, texturesDirty,
                   uniformsDirty, uploaded, shaderVars, frameVars, bufferVars, live, pixels>>

UseShader(s) ==
    /\ "shader" \in calls
    /\ s \in live \cup {None}
    /\ shader' = s
    /\ stateDirty' = TRUE /\ uniformsDirty' = TRUE
    /\ UNCHANGED <<enabled, program, layout, textures, matrices, area, layoutDirty, texturesDirty,
                   uploaded, shaderVars, frameVars, bufferVars, live, pixels>>

\* fglSetModel, fglSetView, fglSetProjection, fglSetLight, fglSetMaterial.
SetMatrices(v) ==
    /\ "matrices" \in calls
    /\ matrices' = v
    /\ uniformsDirty' = TRUE
    /\ UNCHANGED <<enabled, program, shader, layout, textures, area, stateDirty, layoutDirty,
                   texturesDirty, uploaded, shaderVars, frameVars, bufferVars, live, pixels>>

\* fgl__uniform_set, of a shader in use or not.
SetUniform(s, v) ==
    /\ "uniform" \in calls
    /\ s \in live \ Plain
    /\ user' = [user EXCEPT ![s] = v]
    /\ shDirty' = [shDirty EXCEPT ![s] = TRUE]
    /\ UNCHANGED <<setVars, area, dirtyVars, auto, frameVars, bufferVars, live, pixels>>

\* fglVertexLayout, fglVertexLayoutDefault.
SetLayout(l) ==
    /\ "layout" \in calls
    /\ layout' = l
    /\ layoutDirty' = TRUE
    /\ UNCHANGED <<enabled, program, shader, textures, matrices, area, stateDirty, texturesDirty,
                   uniformsDirty, uploaded, shaderVars, frameVars, bufferVars, live, pixels>>

BindTexture(u, t) ==
    /\ "texture" \in calls
    /\ t \in Textures \cap live
    /\ textures' = [textures EXCEPT ![u] = t]
    /\ texturesDirty' = TRUE
    /\ UNCHANGED <<enabled, program, shader, layout, matrices, area, stateDirty, layoutDirty,
                   uniformsDirty, uploaded, shaderVars, frameVars, bufferVars, live, pixels>>

\* Unbinding has to be sent at once: a flush leaves out empty units.
UnbindTexture(u) ==
    /\ "texture" \in calls
    /\ textures' = [textures EXCEPT ![u] = None]
    /\ texturesDirty' = TRUE
    /\ Emit([gpu EXCEPT !.textures[u] = None])
    /\ UNCHANGED <<enabled, program, shader, layout, matrices, area, stateDirty, layoutDirty,
                   uniformsDirty, uploaded, shaderVars, frameVars, uses, live, pixels>>

\* fglViewport is sent at once and not remembered.
SetViewport(v) ==
    /\ "viewport" \in calls
    /\ area' = v
    /\ Emit([gpu EXCEPT !.area = v])
    /\ UNCHANGED <<enabled, program, shader, layout, textures, matrices, dirtyVars, shaderVars,
                   frameVars, uses, live, pixels>>

-----------------------------------------------------------------------------
(* Objects.  Shaders and textures are only changed or destroyed after what *)
(* was recorded with them has run.                                         *)

CreateShader(s) ==
    /\ "shader" \in calls
    /\ s \notin live
    /\ live' = live \cup {s}
    /\ user' = [user EXCEPT ![s] = Initial]
    /\ auto' = [auto EXCEPT ![s] = Initial]
    /\ shDirty' = [shDirty EXCEPT ![s] = TRUE]
    /\ UNCHANGED <<setVars, area, dirtyVars, frameVars, bufferVars, pixels>>

\* An address can be used again: nothing may remember the old shader.
DestroyShader(s) ==
    /\ s \in live
    /\ \/ ~empty /\ Bind(Surface)
       \/ /\ empty
          /\ stateDirty' = (stateDirty \/ shader = s)
          /\ uploaded' = IF uploaded = s THEN None ELSE uploaded
          /\ UNCHANGED <<bufferVars, layoutDirty, texturesDirty, uniformsDirty>>
    /\ shader' = IF shader = s THEN None ELSE shader
    /\ live' = live \ {s}
    /\ UNCHANGED <<enabled, program, layout, textures, matrices, area, shaderVars, frameVars, pixels>>

CreateTexture(t) ==
    /\ "texture" \in calls
    /\ t \notin live
    /\ live' = live \cup {t}
    /\ \E v \in Values : pixels' = [pixels EXCEPT ![t] = v]
    /\ UNCHANGED <<setVars, area, dirtyVars, shaderVars, frameVars, bufferVars>>

\* Bug: draws recorded so far see the new pixels.
TextureDataAtOnce(t) ==
    /\ "pixels" \in calls
    /\ t \in live
    /\ \E v \in Values : pixels' = [pixels EXCEPT ![t] = v]
    /\ UNCHANGED <<setVars, area, dirtyVars, shaderVars, frameVars, live, bufferVars>>

\* Writing the pixels can fail, which leaves the old ones.
TextureData(t) ==
    /\ "pixels" \in calls
    /\ t \in live
    /\ Flush
    /\ \/ \E v \in Values : pixels' = [pixels EXCEPT ![t] = v]
       \/ "gpu" \in calls /\ UNCHANGED pixels
    /\ UNCHANGED <<setVars, area, shaderVars, frameVars, live>>

DestroyTexture(t) ==
    /\ t \in live
    /\ Flush
    /\ textures' = [u \in Units |-> IF textures[u] = t THEN None ELSE textures[u]]
    /\ live' = live \ {t}
    /\ UNCHANGED <<enabled, program, shader, layout, matrices, area, shaderVars, frameVars, pixels>>

-----------------------------------------------------------------------------
(* Frames.                                                                 *)

\* fglCreateContext: without two surfaces that can be shown by flipping,
\* frames are copied; but a window makes none of the two, and flips all the
\* same.
Init ==
    /\ calls \in Applications
    /\ flip = ("flip" \in calls) /\ back = FALSE
    /\ second = IF flip /\ "window" \notin calls THEN "color2" ELSE None
    /\ enabled = {} /\ program = BuiltIn /\ shader = None /\ layout = None
    /\ textures = [u \in Units |-> None] /\ matrices = Initial /\ area = None
    /\ stateDirty = TRUE /\ layoutDirty = TRUE /\ texturesDirty = TRUE /\ uniformsDirty = TRUE
    /\ uploaded = None
    /\ user = [s \in Shaders |-> Initial] /\ auto = [s \in Shaders |-> Initial]
    /\ shDirty = [s \in Shaders |-> FALSE]
    /\ live = {} /\ pixels = [t \in Textures |-> Initial]
    /\ uses = {}
    /\ \/ gpu = [Defaults EXCEPT !.target = "color"] /\ intact = TRUE
       \/ "memory" \in calls /\ gpu = Defaults /\ intact = FALSE
    /\ empty = ~intact
    /\ screen = None /\ torn = FALSE

\* fglSubmit: the GPU has run the commands, or has refused them.
Submit ==
    /\ Flush
    /\ area' = IF empty THEN area ELSE None
    /\ UNCHANGED <<setVars, shaderVars, frameVars, live, pixels>>

\* fglPresent after a submit that the GPU has refused.
PresentRefused ==
    /\ "gpu" \in calls /\ ~empty
    /\ Submit

\* Bug: the surface that is shown is drawn to again.
PresentNeverFlips ==
    /\ torn' = FALSE
    /\ screen' = IF flip THEN Surface ELSE screen
    /\ Bind(Surface) /\ area' = None
    /\ UNCHANGED <<calls, flip, second, back, setVars, shaderVars, live, pixels>>

\* fglPresent.  With flipping the other surface is next, whether this one
\* could be shown or not.  Handle 0 cannot be shown.
Present ==
    /\ \/ torn' = FALSE /\ Surface # None
          /\ screen' = IF flip THEN Surface ELSE screen
       \/ /\ "gpu" \in calls \/ Surface = None
          /\ torn' = TRUE /\ screen' = screen
    /\ back' = (back # flip)
    /\ IF flip THEN Bind(IF back' THEN second ELSE "color") ELSE Flush
    /\ area' = IF empty /\ ~flip THEN area ELSE None
    /\ UNCHANGED <<calls, flip, second, setVars, shaderVars, live, pixels>>

Next ==
    \/ Draw \/ Submit \/ PresentRefused \/ Present
    \/ \E c \in Caps : Enable(c)
    \/ \E p \in Programs : UseProgram(p)
    \/ \E v \in Values : SetMatrices(v)
    \/ \E s \in Shaders :
          \/ CreateShader(s) \/ DestroyShader(s)
          \/ \E v \in Values : SetUniform(s, v)
    \/ \E s \in Shaders \cup {None} : UseShader(s)
    \/ \E l \in Layouts \cup {None} : SetLayout(l)
    \/ \E t \in Textures :
          \/ CreateTexture(t) \/ TextureData(t) \/ DestroyTexture(t)
          \/ \E u \in Units : BindTexture(u, t)
    \/ \E u \in Units : UnbindTexture(u)
    \/ \E v \in Viewports : SetViewport(v)

Spec == Init /\ [][Next]_vars

-----------------------------------------------------------------------------
TypeOK ==
    /\ calls \in Applications
    /\ flip \in BOOLEAN /\ second \in {"color2", None} /\ back \in BOOLEAN /\ torn \in BOOLEAN
    /\ intact \in BOOLEAN /\ empty \in BOOLEAN
    /\ enabled \subseteq Caps /\ program \in Programs
    /\ shader \in Shaders \cup {None} /\ uploaded \in Shaders \cup {None}
    /\ layout \in Layouts \cup {None} /\ area \in Viewports \cup {None}
    /\ textures \in [Units -> Textures \cup {None}]
    /\ matrices \in Values
    /\ stateDirty \in BOOLEAN /\ layoutDirty \in BOOLEAN
    /\ texturesDirty \in BOOLEAN /\ uniformsDirty \in BOOLEAN
    /\ user \in [Shaders -> Values] /\ auto \in [Shaders -> Values]
    /\ shDirty \in [Shaders -> BOOLEAN]
    /\ live \subseteq Shaders \cup Textures /\ pixels \in [Textures -> Values]
    /\ gpu \in States
    /\ screen \in {"color", "color2", None}

\* A draw recorded now is drawn with everything as the program has set it:
\* what is not dirty is already on the GPU, in whatever order state was set,
\* shaders were switched, objects came and went, and buffers were submitted.
\* Only a command that found no room can change that, until the next submit.
DrawsAsSet == intact => Seen(Flushed({})) = Wanted

\* What was recorded with a shader or a texture runs with it, and with the
\* pixels it had: destroying and rewriting wait for the GPU.
RecordedStays ==
    \A r \in uses : r[1] \in live /\ (r[1] \in Textures => pixels[r[1]] = r[2])

\* With page flipping nothing is drawn into the surface on the screen,
\* unless the last frame could not be shown.
DrawsOffScreen == flip /\ ~torn /\ screen # None => gpu.target # screen

\* docs/farcadegl.md: "State changes between draws apply to the draws after
\* them, in order", in one frame: the area of fglViewport too.
ViewportApplies == intact => gpu.area = area
=============================================================================
