---------------------------- MODULE R600Drawing ----------------------------
(***************************************************************************)
(* What the operations of R600 to R700 write and read: the setters of      *)
(* r6xx_accel.c, its default state, the shaders of r600_shader.c, and the  *)
(* operations of r600_exa.c and r600_textured_videofuncs.c.  Registers are *)
(* in groups; a group that is not written as a whole by a setter is taken  *)
(* to be written by nobody but the operations that write the rest of it.   *)
(***************************************************************************)

EXTENDS Naturals

Textures == <<"texture_0", "texture_1", "texture_2">>
Samplers == <<"sampler_0", "sampler_1", "sampler_2">>

\* The setters.
set_render_target == {"target"}
fs_setup == {"fetch_shader"}
vs_setup == {"vertex_shader"}
ps_setup == {"pixel_shader"}
set_alu_consts == {"ALU_constants"}
set_bool_consts_vs == {"vertex_booleans"}
set_bool_consts_ps == {"pixel_booleans"}
set_vtx_resource == {"vertex_resource"}
set_tex_resource(unit) == {Textures[unit + 1]}
set_tex_sampler(unit) == {Samplers[unit + 1]}
set_scissors == {"scissors"}
sq_setup == {"sequencer"}
draw_auto == {"primitive_type", "instances"}

\* Registers that are written in place: with a preparation.
Clip == {"clip"}
RenderSetup == {"shader_mask", "color_control"}
RasterSetup == {"raster_mode"}
InterpolatorSetup == {"vertex_outputs", "interpolators", "input_0"}

\* set_default_state.
reset_cb == {"target_info"}
reset_td_samplers == {"borders"}
reset_dx9_alu_consts == {"ALU_constants"}
reset_bool_loop_const == {"vertex_booleans", "pixel_booleans", "loops"}
reset_sampler_const == {Samplers[u + 1] : u \in 0 .. 2}
DepthDefaults == {"depth", "alpha_test"}
ColorDefaults == reset_cb \union {"blend", "color_compare", "target_mask"}
ScissorDefaults == set_scissors \union {"antialiasing"}
GeometryDefaults == Clip \union {"viewport", "points_and_lines", "vertex_outputs", "fog"}
VgtDefaults == {"vertex_grouper"}
TextureDefaults == {Textures[u + 1] : u \in 0 .. 2} \union set_vtx_resource
set_default_state ==
  {"chip"} \union sq_setup \union reset_td_samplers \union reset_dx9_alu_consts
  \union reset_bool_loop_const \union reset_sampler_const \union DepthDefaults
  \union ColorDefaults \union ScissorDefaults \union GeometryDefaults
  \union fs_setup \union VgtDefaults \union TextureDefaults

\* What the shaders read besides the vertices and inputs they are given.
Texel(unit) == {Textures[unit + 1], Samplers[unit + 1], "borders"}
R600_solid_vs == {"vertex_resource"}
R600_solid_ps == {"ALU_constants", "input_0"}
R600_copy_vs == {"vertex_resource"}
R600_copy_ps == {"input_0"} \union Texel(0)
R600_xv_vs == {"vertex_resource"}
R600_xv_ps_scale == {"ALU_constants"}
R600_xv_ps_matrix == {"ALU_constants"}
R600_xv_ps == {"pixel_booleans", "input_0"} \union R600_xv_ps_scale \union R600_xv_ps_matrix
R600_xv_ps_packed == R600_xv_ps \union Texel(0) \union Texel(1)
R600_xv_ps_planar == R600_xv_ps \union Texel(0) \union Texel(1) \union Texel(2)
R600_comp_vs_mask == {"vertex_resource"}
R600_comp_vs_plain == {"vertex_resource"}
R600_comp_vs(mask) == {"vertex_booleans"} \union (IF mask THEN R600_comp_vs_mask ELSE R600_comp_vs_plain)
R600_comp_ps == {"input_0"} \union Texel(0)
R600_comp_mask_ps == {"input_0", "input_1"} \union Texel(0) \union Texel(1)

\* What is read whatever is drawn.
Pipeline ==
  {"chip", "sequencer", "vertex_grouper", "fetch_shader", "vertex_shader", "clip", "viewport",
   "points_and_lines", "raster_mode", "scissors", "antialiasing", "vertex_outputs", "interpolators",
   "fog", "pixel_shader", "depth", "alpha_test", "shader_mask", "color_control", "color_compare",
   "target_mask", "target", "primitive_type", "instances"}

\* What all preparations write.
Common ==
  Clip \union vs_setup \union ps_setup \union RenderSetup \union set_render_target
  \union RasterSetup \union InterpolatorSetup

\* The vertex resource and the draw, R600DoneSolid and its like.
Drawn == set_vtx_resource \union draw_auto

\* An operation that begins with start_3d and set_default_state, in a buffer
\* that others may follow, and for which EXA marks a sync.
Operation ==
  [sets |-> {"target", "target_size", "vertices"}, writes |-> Common, draws |-> Drawn,
   reads |-> Pipeline, uses |-> {"target", "target_size", "vertices"}, stale |-> {},
   engine3D |-> TRUE, refused |-> FALSE, passes |-> FALSE, evicts |-> FALSE, late |-> {},
   splits |-> TRUE, marked |-> TRUE, waits |-> FALSE]

\* R600PrepareSolid, R600Solid, R600DoneSolid.
Solid ==
  [Operation EXCEPT !.writes = @ \union set_alu_consts,
                    !.reads = @ \union R600_solid_vs \union R600_solid_ps]

\* R600DoPrepareCopy.
CopyWrites == Common \union set_tex_resource(0) \union set_tex_sampler(0)
CopyReads == Pipeline \union R600_copy_vs \union R600_copy_ps

\* R600PrepareCopy between two pixmaps, R600Copy, R600DoneCopy.
Copy ==
  [Operation EXCEPT !.writes = CopyWrites, !.reads = CopyReads,
                    !.sets = @ \union {"source", "rop", "same_surface"},
                    !.uses = @ \union {"same_surface"}]

\* R600DoPrepareCopy, R600AppendCopyVertex and R600DoCopy with each rectangle.
PassOperation ==
  [Operation EXCEPT !.writes = CopyWrites, !.reads = CopyReads,
                    !.sets = @ \union {"source"}, !.passes = TRUE, !.splits = FALSE]

\* R600PrepareCopy within a pixmap, whose copy area may need room.
SameCopy ==
  [PassOperation EXCEPT !.sets = {"rop", "same_surface"}, !.evicts = TRUE,
                        !.late = {"copy_area", "source", "target", "target_size", "vertices"},
                        !.uses = @ \union {"rop", "same_surface", "copy_area"}]

\* R600PrepareComposite, R600Composite, R600DoneComposite.
R600TextureSetup(unit) == set_tex_resource(unit) \union set_tex_sampler(unit)
CompositeFields == {"source", "transform", "mask"}
Composite ==
  [Operation EXCEPT !.writes = @ \union {"blend"} \union set_bool_consts_vs
                                 \union R600TextureSetup(0) \union {"input_1"},
                    !.reads = @ \union {"blend"} \union R600_comp_vs(FALSE) \union R600_comp_ps,
                    !.sets = @ \union CompositeFields, !.uses = @ \union CompositeFields,
                    !.refused = TRUE, !.splits = FALSE]

CompositeMask ==
  [Composite EXCEPT !.writes = @ \union R600TextureSetup(1),
                    !.reads = @ \union R600_comp_vs(TRUE) \union R600_comp_mask_ps,
                    !.sets = @ \union {"source_1"}, !.uses = @ \union {"source_1"},
                    !.splits = TRUE]

\* R600UploadToScreen: R600CopyToVRAM.
Upload == PassOperation

\* R600DownloadFromScreen.
Download == [PassOperation EXCEPT !.marked = FALSE, !.waits = TRUE]

\* R600CopyToVRAM for a frame of Xv.
VideoUpload == [PassOperation EXCEPT !.marked = FALSE]

\* R600DoneTexturedVideo, which flushes as many bytes of its target as an
\* operation before it had.
VideoOperation == [Operation EXCEPT !.sets = {"target", "source", "vertices"}, !.stale = {"target_size"}, !.marked = FALSE]

\* R600DisplayTexturedVideo.
PackedVideo ==
  [VideoOperation EXCEPT !.writes = @ \union set_bool_consts_ps \union set_alu_consts
                                 \union set_tex_resource(0) \union set_tex_sampler(0)
                                 \union set_tex_resource(1) \union set_tex_sampler(1),
                         !.reads = @ \union R600_xv_vs \union R600_xv_ps_packed,
                         !.refused = TRUE]

PlanarVideo ==
  [PackedVideo EXCEPT !.writes = @ \union set_tex_resource(2) \union set_tex_sampler(2),
                      !.reads = @ \union R600_xv_ps_planar]

R600 ==
  [operations |-> [solid |-> Solid, copy |-> Copy, samecopy |-> SameCopy, composite |-> Composite,
                   mask |-> CompositeMask, upload |-> Upload, download |-> Download,
                   videoUpload |-> VideoUpload, packedVideo |-> PackedVideo, planarVideo |-> PlanarVideo],
   registers |-> set_default_state \union Pipeline \union Common \union Drawn
                 \union {"input_1"},
   fields |-> {"target", "target_size", "vertices", "source", "source_1", "rop", "same_surface",
               "copy_area", "transform", "mask"},
   defaults |-> set_default_state, buffers |-> TRUE, claims |-> FALSE]
=============================================================================
