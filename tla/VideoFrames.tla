----------------------------- MODULE VideoFrames ----------------------------
(***************************************************************************)
(* The frames of textured video (rhd_video.c): a client's image is copied   *)
(* to a buffer of the port it is put on, line by line, and the 3D engine    *)
(* takes its textures from there.  Addresses are bytes from the start of    *)
(* the frame buffer; an image's are bytes from its own start.               *)
(*                                                                         *)
(* A planar image becomes three textures, "Y", "V" and "U", or one with all *)
(* of them together, as a packed image does, by the name of "YUV".  Where   *)
(* the buffer is, is up to the server's memory managers, which are external; *)
(* and so is what they do when they are to free the buffer of a port that   *)
(* has none.  What is drawn from the textures is in R5xxDrawing and          *)
(* R600Drawing.                                                            *)
(***************************************************************************)
EXTENDS Integers

CONSTANTS
  Adapters, \* the cards with their configuration: whether it is an R600 or up, whether
            \* it is AGP, EXA or XAA, bytes per pixel, the largest side of a texture,
            \* and whether there is a hardware cursor
  Sizes,    \* what clients ask for: the format, the width and the height
  Ports,
  Places,   \* where the memory managers find room, from the start of what they manage
  CommandWords  \* CS->Size

Planar == {"YV12", "I420"}
Packed == {"YUY2", "UYVY"}

ASSUME AdaptersAssumption ==
  /\ Adapters \subseteq [r600 : BOOLEAN, agp : BOOLEAN, exa : BOOLEAN, cpp : {1, 2, 4},
                         side : {2048, 4096, 8192}, cursor : BOOLEAN]
  /\ \A c \in Adapters : IF c.r600 THEN c.exa /\ c.side = 8192 ELSE c.side # 8192
\* Of a width of 65535 the server's 16 bits leave nothing.
ASSUME SizesAssumption ==
  \A size \in Sizes : /\ size.format \in Planar \union Packed
                      /\ size.w \in Nat /\ 1 <= size.w /\ size.w < 65535
                      /\ size.h \in Nat /\ 1 <= size.h /\ size.h < 65535
ASSUME PlacesAssumption == Places \subseteq Nat
\* Two lines of the widest image fit the command buffer, and a pass is no longer than
\* 16 bits can say.
ASSUME CommandWordsAssumption == CommandWords \in 4106 .. 65535

VARIABLES
  adapter,
  port      \* of each: its buffer, BufferHandle, then BufferOffset, BufferPitch, and
            \* the image that is shown

videoVars == <<adapter, port>>

Lesser(a, b) == IF a < b THEN a ELSE b
Align(x, a) == ((x + a - 1) \div a) * a
Chunk(x) == Align(x, 4096)

\* RHDCursorsInit takes the first of the memory, and then comes what is scanned
\* out, FbScanoutStart.
Scanout(c) == IF c.cursor THEN 2 * Chunk(64 * 64 * 4) ELSE 0

NoBuffer == [at |-> 0, size |-> 0]
NoImage == [format |-> "none", w |-> 0, h |-> 0]
-----------------------------------------------------------------------------
(* The client's image: rhdQueryImageAttributes *)

Ordered(format, planes) ==
  IF format = "YV12" THEN [Y |-> planes[1], V |-> planes[2], U |-> planes[3]]
  ELSE [Y |-> planes[1], U |-> planes[2], V |-> planes[3]]

PlanesOf(image) == IF image.format \in Planar THEN {"Y", "U", "V"} ELSE {"YUV"}

\* The size that the client gets for the one that it asks for.  A query without
\* room for pitches and offsets is answered with 0 and no other size: a client makes
\* its image from one that has both.
QueryImageAttributes(c, size) ==
  LET h == Lesser(size.h, c.side) IN
  [format |-> size.format, w |-> Lesser(Align(size.w, 2), c.side),
   h |-> IF size.format \in Planar THEN Align(h, 2) ELSE h]

\* The pitches and offsets that it gets.
Attributes(image) ==
  LET w == image.w  h == image.h
      p == Align(w, 4)
      q == Align(w \div 2, 4)
  IN  IF image.format \in Planar
      THEN Ordered(image.format, <<[at |-> 0, pitch |-> p], [at |-> h * p, pitch |-> q],
                                   [at |-> h * (p + q \div 2), pitch |-> q]>>)
      ELSE [YUV |-> [at |-> 0, pitch |-> 2 * w]]

\* Where the driver takes the planes from: rhdPutImageTextured.
Taken(image) ==
  LET srcPitch == Align(image.w, 4)
      srcPitch2 == Align(image.w \div 2, 4)
      s2offset == srcPitch * image.h
      s3offset == s2offset + srcPitch2 * (image.h \div 2)
  IN  IF image.format \in Planar
      THEN Ordered(image.format, <<[at |-> 0, pitch |-> srcPitch], [at |-> s2offset, pitch |-> srcPitch2],
                                   [at |-> s3offset, pitch |-> srcPitch2]>>)
      ELSE [YUV |-> [at |-> 0, pitch |-> 2 * image.w]]
-----------------------------------------------------------------------------
(* The buffer *)

\* The pitch that its size is made of.
FirstPitch(c, w) == Align(2 * w, IF c.r600 THEN 256 ELSE 64)

\* MUTANT of BufferSize: the frame is taken for half as large.
BufferSizeHalf(c, image) == FirstPitch(c, image.w) * image.h
BufferSize(c, image) == 2 * FirstPitch(c, image.w) * image.h

Apart(a, b) == a.at + a.size <= b.at \/ b.at + b.size <= a.at

\* Room among the buffers of the other ports.
RoomFor(p, size, unit) ==
  {b \in [at : {at \in Places : at % unit = 0}, size : {size}] :
     \A q \in Ports \ {p} : port[q].buffer = NoBuffer \/ Apart(b, port[q].buffer)}

\* rhdXvAllocateEXA keeps a buffer of the same size, and frees another before it
\* looks for room.
AllocateEXA(p, size) ==
  IF port[p].buffer # NoBuffer /\ port[p].buffer.size = size
  THEN {[buffer |-> port[p].buffer, offset |-> port[p].offset]}
  ELSE {[buffer |-> b, offset |-> b.at + Scanout(adapter)] : b \in RoomFor(p, size, 4096)}
       \union {[buffer |-> NoBuffer, offset |-> 0]}

\* rhdXvAllocateXAA allocates pixels, without alignment, and does that itself.
PixelSize(size) == ((size + 4095 + adapter.cpp - 1) \div adapter.cpp) * adapter.cpp
Aligned(b) == [buffer |-> b, offset |-> Scanout(adapter) + Chunk(b.at + 4095)]

\* Its helper keeps a buffer of the same size, then it tries to resize it, which is
\* a choice of Room's, and then frees it.
AllocateXAA(p, size) ==
  IF port[p].buffer # NoBuffer /\ port[p].buffer.size = PixelSize(size)
  THEN {Aligned(port[p].buffer)}
  ELSE {Aligned(b) : b \in RoomFor(p, PixelSize(size), adapter.cpp)} \union {[buffer |-> NoBuffer, offset |-> 0]}

Allocate(p, size) == IF adapter.exa THEN AllocateEXA(p, size) ELSE AllocateXAA(p, size)
-----------------------------------------------------------------------------
(* Copying: rectangles of lines, each line with what it is copied from.  A line *)
(* of "YUV" that is made of planes has a source in each of them.               *)

RectangleOf(at, pitch, width, height, lines) ==
  [at |-> at, pitch |-> pitch, width |-> width, height |-> height, lines |-> lines]

\* R5xxXvCopyPackedDMA sends as many lines at a time as fit a command buffer.
PackedPass(w) == ((CommandWords - 10) * 4) \div (2 * w)

\* MUTANT of PlanarPass: a pass may end between two lines that share their colours.
PlanarPassOdd(w) == (2 * (CommandWords - 10)) \div w
\* R5xxXvCopyPlanarDMA: "We need to make sure that our hpass is always even".
PlanarPass(w) == (((2 * (CommandWords - 10)) \div w) \div 2) * 2

\* The line of a plane that is copied to line y: so many passes on, a pass of the
\* colours having half as many bytes, and then R5xxXvCopyPlanarToPacked.
SentLine(plane, hpass, y) == plane.at + (y \div hpass) * (hpass * plane.pitch) + (y % hpass) * plane.pitch
SentColours(plane, hpass, y) ==
  plane.at + (y \div hpass) * ((hpass * plane.pitch) \div 2) + ((y % hpass) \div 2) * plane.pitch

\* The command processor takes addresses in units of 1024 and pitches in those of 64.
R5xxCopied(image, offset, pitch) ==
  LET hpass == IF image.format \in Planar THEN PlanarPass(image.w) ELSE PackedPass(image.w)
      Line(y) == [n \in PlanesOf(image) |-> IF n \in {"U", "V"} THEN SentColours(Taken(image)[n], hpass, y)
                                                                ELSE SentLine(Taken(image)[n], hpass, y)]
  IN  {RectangleOf((offset \div 1024) * 1024, (pitch \div 64) * 64, 2 * image.w, image.h,
                 [y \in 0 .. image.h - 1 |-> Line(y)])}

PlanePitch(n, pitch) == IF n = "Y" THEN pitch ELSE pitch \div 2
PlaneWidth(n, image) == IF n = "Y" THEN image.w ELSE image.w \div 2
PlaneHeight(n, image) == IF n = "Y" THEN image.h ELSE image.h \div 2

\* A plane with its lines one after the other.
Straight(n, plane, at, pitch, width, height) ==
  RectangleOf(at, pitch, width, height,
            [y \in 0 .. height - 1 |-> [k \in {n} |-> plane.at + y * plane.pitch]])

\* R600CopyPlanarHW has every plane begin at a multiple of 256 bytes.
HardwarePlanes(image, pitch) ==
  LET v == Align(pitch * image.h, 256)
  IN  [Y |-> 0, V |-> v, U |-> Align(v + (pitch \div 2) * (image.h \div 2), 256)]

\* R600CopyPlanarSW leaves out a line behind an odd number of them.
SoftwarePlanes(image, pitch) ==
  LET h2 == image.h \div 2
      v == pitch * image.h + (IF image.h % 2 = 1 THEN pitch ELSE 0)
  IN  [Y |-> 0, V |-> v, U |-> v + (pitch \div 2) * h2 + (IF h2 % 2 = 1 THEN pitch \div 2 ELSE 0)]

\* AGP cards are written to by the CPU, in lines as long as the client's; the others
\* by R600CopyToVRAM, which wants addresses that are multiples of 256.
R600Copied(c, image, offset, pitch) ==
  LET base == Scanout(c) + offset
      from == Taken(image)
      at == IF c.agp THEN SoftwarePlanes(image, pitch) ELSE HardwarePlanes(image, pitch)
      Plane(n) == Straight(n, from[n], base + at[n], PlanePitch(n, pitch),
                           IF c.agp THEN from[n].pitch ELSE PlaneWidth(n, image), PlaneHeight(n, image))
      All == IF image.format \in Planar
             THEN {Plane(n) : n \in PlanesOf(image)}
             ELSE {Straight("YUV", from.YUV, base, pitch, 2 * image.w, image.h)}
  IN  {r \in All : c.agp \/ r.at % 256 = 0}

Copied(c, image, offset, pitch) ==
  IF c.r600 THEN R600Copied(c, image, offset, pitch) ELSE R5xxCopied(image, offset, pitch)

\* The pitch of the frame: only YV12 has one of its own.
FramePitch(c, image) ==
  IF c.r600 /\ image.format = "YV12" THEN Align(image.w, 256) ELSE FirstPitch(c, image.w)
-----------------------------------------------------------------------------
(* Drawing: the textures that the 3D engine samples *)

\* Before R600, width and height have 11 bits, and 12 with R5XX's 3D.
R5xxTextures(c, image, offset, pitch) ==
  LET Bits(x) == ((x - 1) % (IF c.side = 2048 THEN 2048 ELSE 4096)) + 1
  IN  {[planes |-> PlanesOf(image), at |-> offset, pitch |-> 2 * (pitch \div 2),
        width |-> 2 * Bits(image.w), height |-> Bits(image.h)]}

\* R600's textures of a planar image are three, the V behind the Y and then the U.
\* The two of a packed image are the same bytes.
R600Textures(c, image, offset, pitch) ==
  LET base == Scanout(c) + offset
      v == Align(pitch * image.h, 256)
      u == Align(v + (pitch \div 2) * (image.h \div 2), 256)
      Plane(n, at) == [planes |-> {n}, at |-> base + at, pitch |-> PlanePitch(n, pitch),
                       width |-> PlaneWidth(n, image), height |-> PlaneHeight(n, image)]
  IN  IF image.format \in Planar
      THEN {Plane("Y", 0), Plane("V", v), Plane("U", u)}
      ELSE {[planes |-> {"YUV"}, at |-> base, pitch |-> pitch, width |-> 2 * image.w, height |-> image.h]}

TexturesOf(c, image, offset, pitch) ==
  IF c.r600 THEN R600Textures(c, image, offset, pitch) ELSE R5xxTextures(c, image, offset, pitch)
-----------------------------------------------------------------------------
(* The port's operations *)

\* RHDInitVideo.
VideoInit ==
  /\ adapter \in Adapters
  /\ port = [p \in Ports |-> [buffer |-> NoBuffer, offset |-> 0, pitch |-> 0, image |-> NoImage]]

\* With the attributes that the client has asked for.
Showing(a, image) ==
  [buffer |-> a.buffer, offset |-> IF adapter.r600 THEN Align(a.offset, 256) ELSE a.offset,
   pitch |-> FramePitch(adapter, image), image |-> image]
NothingShown(image) == [buffer |-> NoBuffer, offset |-> 0, pitch |-> FirstPitch(adapter, image.w), image |-> NoImage]

\* rhdPutImageTextured.  A pixmap outside the framebuffer changes nothing, and no room
\* leaves the port without a buffer.
PutImage(p, size) ==
  LET image == QueryImageAttributes(adapter, size)
  IN  /\ \E a \in Allocate(p, BufferSize(adapter, image)) :
           port' = [port EXCEPT ![p] = IF a.buffer = NoBuffer THEN NothingShown(image) ELSE Showing(a, image)]
      /\ UNCHANGED adapter

\* rhdStopVideo, when it is to clean up.
StopVideo(p) ==
  /\ port[p].buffer # NoBuffer
  /\ port' = [port EXCEPT ![p].buffer = NoBuffer, ![p].offset = 0, ![p].image = NoImage]
  /\ UNCHANGED adapter

VideoNext == \E p \in Ports : StopVideo(p) \/ \E size \in Sizes : PutImage(p, size)

VideoSpec == VideoInit /\ [][VideoNext]_videoVars
-----------------------------------------------------------------------------
\* The ports, and that a port that shows an image has a buffer for it.
VideoTypeOK ==
  /\ adapter \in Adapters
  /\ \A p \in Ports : /\ port[p].buffer \in [at : Nat, size : Nat]
                      /\ port[p].offset \in Nat /\ port[p].pitch \in Nat
                      /\ (port[p].image = NoImage \/
                            \E size \in Sizes : port[p].image = QueryImageAttributes(adapter, size))
                      /\ port[p].image # NoImage => port[p].buffer # NoBuffer

Shown(p) == port[p].image # NoImage
CopiedTo(p) == Copied(adapter, port[p].image, port[p].offset, port[p].pitch)
SampledFrom(p) == TexturesOf(adapter, port[p].image, port[p].offset, port[p].pitch)

\* The bytes of a rectangle that the client's lines are in.
RectangleEnd(r) == r.at + (r.height - 1) * r.pitch + r.width

\* What line y of a texture is to show: the client's planes by its attributes, in
\* which two lines of "YUV" share their colours.
ClientLine(image, planes, y) ==
  [n \in planes |-> Attributes(image)[n].at +
     (IF n \in {"U", "V"} /\ planes # {n} THEN y \div 2 ELSE y) * Attributes(image)[n].pitch]

\* A texture is in a rectangle with every line of it.
Holds(r, t, image) ==
  /\ r.at = t.at /\ r.pitch = t.pitch /\ t.width <= r.width /\ t.width <= t.pitch
  /\ \A y \in 0 .. t.height - 1 : y < r.height /\ r.lines[y] = ClientLine(image, t.planes, y)

\* What the 3D engine samples of a frame is what the client has put, line by line, by
\* the attributes that it was given: the copies of rhd_video.c, hardware and software,
\* in passes and planes, have the layout that the texture setup counts on, and none of
\* them writes over another.
FramesComeWhole ==
  \A p \in Ports : Shown(p) =>
    /\ \A t \in SampledFrom(p) : \E r \in CopiedTo(p) : Holds(r, t, port[p].image)
    /\ \A r, s \in CopiedTo(p) : r = s \/ RectangleEnd(r) <= s.at \/ RectangleEnd(s) <= r.at

\* What the two need.  The CPU's copies of a planar image: half of the lines is even in
\* number, or they are 128 bytes apart.
SoftwareCopiesFit ==
  \A c \in Adapters, size \in Sizes :
    LET image == QueryImageAttributes(c, size)
    IN  (c.r600 /\ c.agp /\ image.format \in Planar) => FramePitch(c, image) = 256 \/ (image.h \div 2) % 2 = 0

\* R600's frames are as far into their buffers as those are into the frame buffer, and
\* XAA's up to twice an alignment.
BuffersLargeEnough ==
  \A c \in Adapters, size \in Sizes :
    LET image == QueryImageAttributes(c, size)
        pitch == FirstPitch(c, image.w)
    IN  IF c.r600 THEN 2 * Scanout(c) <= pitch * (image.h - 1) ELSE c.exa \/ 4095 <= pitch * image.h

\* A frame is copied to the memory that was allocated for it: rhdPutImageTextured has
\* "find out whether we have enough memory available" of its size.
FramesInTheirBuffers ==
  \A p \in Ports : Shown(p) =>
    \A r \in CopiedTo(p) :
      /\ Scanout(adapter) + port[p].buffer.at <= r.at
      /\ RectangleEnd(r) <= Scanout(adapter) + port[p].buffer.at + port[p].buffer.size
=============================================================================
