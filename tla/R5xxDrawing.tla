---------------------------- MODULE R5xxDrawing ----------------------------
(***************************************************************************)
(* What the operations of R500 and of the RS600 to RS740, whose 3D engine  *)
(* is that of an R300 without vertex processing, write and read: the       *)
(* default state of R5xx3DSetup in radeon_3d.c, the composites of          *)
(* radeon_exa_render.c and the video of radeon_textured_videofuncs.c.      *)
(* (Those files also hold the code of another driver, for other engines.)  *)
(* What r5xx_exa.c draws with the 2D engine is a single operation.         *)
(***************************************************************************)

\* R5xx3DSetup, in its order.
GraphicsBackend == {"tiles", "antialiasing"}
GeometryAssembly == {"geometry", "setup_unit"}
VertexSetup(tcl) == {"vertex_setup", "stream_swizzles"} \union (IF tcl THEN {"clip"} ELSE {})
MaskProgram(tcl) == IF tcl THEN {"vertex_program_mask"} ELSE {}
PlainProgram(tcl) == IF tcl THEN {"vertex_program_plain"} ELSE {}
VideoProgram(tcl) == IF tcl THEN {"vertex_program_video"} ELSE {}
Rasterizer == {"rasterizer_inputs"}
TextureInstructions(tcl) == IF tcl THEN {} ELSE {"texture_instructions", "code_addresses"}
FragmentSetup == {"fragment_setup", "other_outputs"}
FogAndBuffers == {"fog", "buffers"}
Scissors == {"scissors"}

R5xx3DSetup(tcl) ==
  GraphicsBackend \union GeometryAssembly \union VertexSetup(tcl) \union MaskProgram(tcl)
  \union PlainProgram(tcl) \union VideoProgram(tcl) \union Rasterizer
  \union TextureInstructions(tcl) \union FragmentSetup \union FogAndBuffers \union Scissors

\* What is read whatever is drawn.
Everything(tcl) ==
  (R5xx3DSetup(tcl) \ (MaskProgram(tcl) \union PlainProgram(tcl) \union VideoProgram(tcl)))
  \union {"texture_enable", "stream_0", "vertex_formats", "rasterizer_count", "code_range",
          "pixel_program", "output", "target", "blend", "vertex_size"}
  \union (IF tcl THEN {"program_range"} ELSE {})

\* R300TextureSetup.
R300TextureSetup(unit) == IF unit = 0 THEN {"texture_0"} ELSE {"texture_1"}

\* Streams, formats and the range of the vertex program, R300PrepareComposite.
VertexWrites(tcl, mask) ==
  {"stream_0", "vertex_formats", "texture_enable"}
  \union (IF tcl THEN {"program_range"} ELSE {})
  \union (IF mask THEN {"stream_1"} ELSE {})

\* The pixel program of an R300 and of an R500, R300PrepareComposite.
PixelProgramR300 == {"rasterizer_count", "code_range", "output", "pixel_program"}
PixelProgramR500 == {"rasterizer_count", "code_range", "output", "pixel_program"}
PixelWrites(tcl) == IF tcl THEN PixelProgramR500 ELSE PixelProgramR300

CompositeTarget == {"target", "blend"}

\* RadeonCompositeTile: how long a vertex is, with each draw.
CompositeTile == {"vertex_size"}

TransformFields == {"mask", "transform", "tile"}

\* R300PrepareComposite, RadeonComposite, RadeonDoneComposite.
R300Composite(tcl) ==
  [sets |-> TransformFields \union {"size_0"},
   writes |-> R300TextureSetup(0) \union VertexWrites(tcl, FALSE) \union PixelWrites(tcl)
              \union CompositeTarget,
   draws |-> CompositeTile,
   reads |-> Everything(tcl) \union R300TextureSetup(0) \union PlainProgram(tcl),
   uses |-> TransformFields \union {"size_0"}, stale |-> {},
   engine3D |-> TRUE, refused |-> TRUE, passes |-> FALSE, evicts |-> FALSE, late |-> {},
   splits |-> FALSE, marked |-> TRUE, waits |-> FALSE]

R300CompositeMask(tcl) ==
  [R300Composite(tcl) EXCEPT
     !.sets = @ \union {"size_1"}, !.uses = @ \union {"size_1"},
     !.writes = @ \union R300TextureSetup(1) \union VertexWrites(tcl, TRUE),
     !.reads = (@ \ PlainProgram(tcl)) \union R300TextureSetup(1) \union {"stream_1"} \union MaskProgram(tcl)]

\* RHDRADEONDisplayTexturedVideo: its texture, its vertices and its pixel
\* program are its own, its target and blending too.
VideoTexture == R300TextureSetup(0)
VideoVertices(tcl) == VertexWrites(tcl, FALSE) \union {"vertex_size"}
VideoPixels == {"rasterizer_count", "code_range", "output", "pixel_program"}
VideoTarget == {"target", "blend"}

DisplayTexturedVideo(tcl) ==
  [R300Composite(tcl) EXCEPT
     !.sets = {"size_0"}, !.uses = {"size_0"},
     !.writes = VideoTexture \union VideoVertices(tcl) \union VideoPixels \union VideoTarget,
     !.draws = {},
     !.reads = (@ \ PlainProgram(tcl)) \union VideoProgram(tcl),
     !.marked = FALSE]

\* R5xxEXASolid, R5xxEXACopy and R5xxEXAUploadToScreenCP, which the 2D engine
\* draws.
Blit(tcl) ==
  [R300Composite(tcl) EXCEPT
     !.sets = {}, !.writes = {}, !.draws = {}, !.reads = {}, !.uses = {},
     !.engine3D = FALSE, !.refused = FALSE]

R5xx(tcl) ==
  [operations |-> [composite |-> R300Composite(tcl), mask |-> R300CompositeMask(tcl),
                   video |-> DisplayTexturedVideo(tcl), blit |-> Blit(tcl)],
   registers |-> R5xx3DSetup(tcl) \union Everything(tcl) \union {"stream_1"}
                 \union R300TextureSetup(0) \union R300TextureSetup(1),
   fields |-> TransformFields \union {"size_0", "size_1"},
   defaults |-> R5xx3DSetup(tcl), buffers |-> FALSE, claims |-> TRUE]
=============================================================================
