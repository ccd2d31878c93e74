---------------------------- MODULE OverlapCopy ----------------------------
(***************************************************************************)
(* Copies within a pixmap on R600 to R700 (R600Copy and R600OverlapCopy of *)
(* r600_exa.c).  The 3D engine reads a texture while it draws, in no order *)
(* one may rely on, so a copy onto itself goes through a copy area or is   *)
(* cut into blits that do not overlap.  They are made one after the other. *)
(*                                                                         *)
(* The source begins at 0, 0; a pixel is a position, and holds the position*)
(* whose pixel it got, or Junk.  The raster operation is GXcopy.           *)
(***************************************************************************)
EXTENDS Integers, Sequences

CONSTANTS
  MaxSide,  \* bound: width and height of what is copied
  MaxShift  \* bound: how far

ASSUME SideAssumption == MaxSide \in Nat /\ MaxShift \in Nat

VARIABLES
  copyArea,  \* is there a copy area?
  job,       \* the copy: width, height, and dx, dy to its destination
  copyBlits, \* blits still to be made
  pixels,    \* the pixmap
  area       \* the copy area

copyVars == <<copyArea, job, copyBlits, pixels, area>>

Coordinates == - (MaxShift + MaxSide) .. 2 * MaxSide + MaxShift
Original == [p \in Coordinates \X Coordinates |-> p]
Junk == <<"junk">>
NoJob == [w |-> 0, h |-> 0, dx |-> 0, dy |-> 0]

Abs(n) == IF n < 0 THEN - n ELSE n

\* A blit of w x h pixels from x, y to x + dx, y + dy.
Rect(x, y, w, h) == [from |-> "pixmap", to |-> "pixmap", x |-> x, y |-> y, w |-> w, h |-> h]
Within(n, low, high) == low <= n /\ n <= high

\* MUTANT of IsOverlap: the corners at the right are not looked at.
IsOverlapLeft(j) ==
  /\ Within(0, j.dx, j.dx + j.w)
  /\ Within(0, j.dy, j.dy + j.h) \/ Within(j.h, j.dy, j.dy + j.h)

\* is_overlap: is a corner of the source in the destination or next to it?
IsOverlap(j) ==
  \E x \in {0, j.w}, y \in {0, j.h} :
    Within(x, j.dx, j.dx + j.w) /\ Within(y, j.dy, j.dy + j.h)

Rounds(n, chunk) == IF n <= 0 THEN 0 ELSE (n + chunk - 1) \div chunk
Smaller(a, b) == IF a < b THEN a ELSE b

\* The loops of R600OverlapCopy, over what is left of the source: columns of a
\* width of hchunk, beginning where the destination is; the last may stick out.
Columns(x, y, w, h, right, hchunk) ==
  [k \in 1 .. Rounds(w, hchunk) |->
     Rect(IF right THEN x + w - k * hchunk ELSE x + (k - 1) * hchunk, y, hchunk, h)]

\* Rows, the last of which is cut.
Rows(x, y, w, h, down, vchunk) ==
  [k \in 1 .. Rounds(h, vchunk) |->
     LET high == Smaller(vchunk, h - (k - 1) * vchunk)
     IN Rect(x, IF down THEN y + h - (k - 1) * vchunk - high ELSE y + (k - 1) * vchunk, w, high)]

\* Fewer columns than rows?
FewerColumns(j) == j.w \div Abs(j.dx) <= j.h \div Abs(j.dy)

\* R600OverlapCopy.  A diagonal copy becomes one to a side, or up or down, for
\* which a stretch at the far end is copied at first.
OverlapBlits(j) ==
  LET hchunk == Abs(j.dx)
      vchunk == Abs(j.dy)
      right == 0 < j.dx
      down == 0 < j.dy
  IN
  IF vchunk # 0 /\ hchunk # 0
  THEN IF FewerColumns(j)
       THEN <<Rect(0, IF down THEN j.h - vchunk ELSE 0, j.w, vchunk)>>
              \o Columns(0, IF down THEN 0 ELSE vchunk, j.w, j.h - vchunk, right, hchunk)
       ELSE <<Rect(IF right THEN j.w - hchunk ELSE 0, 0, hchunk, j.h)>>
              \o Rows(IF right THEN 0 ELSE hchunk, 0, j.w - hchunk, j.h, down, vchunk)
  ELSE IF vchunk = 0
       THEN Columns(0, 0, j.w, j.h, right, hchunk)
       ELSE Rows(0, 0, j.w, j.h, down, vchunk)

\* R600Copy within a pixmap.
CopyBlits(j, hasArea) ==
  LET whole == Rect(0, 0, j.w, j.h) IN
  IF j.dx = 0 /\ j.dy = 0 THEN << >>
  ELSE IF ~IsOverlap(j) THEN <<whole>>
  ELSE IF hasArea
       THEN <<[whole EXCEPT !.to = "area"], [whole EXCEPT !.from = "area"]>>
       ELSE OverlapBlits(j)

CopyInit ==
  /\ copyArea = FALSE /\ job = NoJob /\ copyBlits = << >>
  /\ pixels = Original /\ area = [p \in DOMAIN Original |-> Junk]

\* R600PrepareCopy got a copy area, or there was no room; then R600Copy.
RequestCopy(j, hasArea) ==
  /\ job = NoJob
  /\ job' = j /\ copyArea' = hasArea /\ copyBlits' = CopyBlits(j, hasArea)
  /\ UNCHANGED <<pixels, area>>

\* Is p among w x h pixels at x, y?
In(p, x, y, w, h) == Within(p[1], x, x + w - 1) /\ Within(p[2], y, y + h - 1)

\* The card makes a blit.  From the copy area it goes straight.  What it reads
\* and writes in the same place at the same time is junk.
MakeBlit ==
  /\ copyBlits # << >>
  /\ copyBlits' = Tail(copyBlits)
  /\ LET b == Head(copyBlits)
         Source(p) == <<p[1] - job.dx, p[2] - job.dy>>
         Got(p) ==
           IF b.from = "area" THEN area[p]
           ELSE IF b.to = "pixmap" /\ In(Source(p), b.x + job.dx, b.y + job.dy, b.w, b.h)
                THEN Junk ELSE pixels[Source(p)]
         Drawn(m) ==
           [p \in DOMAIN m |-> IF In(p, b.x + job.dx, b.y + job.dy, b.w, b.h) THEN Got(p) ELSE m[p]]
     IN IF b.to = "area" THEN area' = Drawn(area) /\ UNCHANGED pixels
                         ELSE pixels' = Drawn(pixels) /\ UNCHANGED area
  /\ UNCHANGED <<copyArea, job>>

CopyNext ==
  \/ \E w, h \in 1 .. MaxSide, dx, dy \in - MaxShift .. MaxShift, hasArea \in BOOLEAN :
       RequestCopy([w |-> w, h |-> h, dx |-> dx, dy |-> dy], hasArea)
  \/ MakeBlit

CopySpec == CopyInit /\ [][CopyNext]_copyVars

\* Is p beside the destination, where the last column of a copy that is cut
\* into columns sticks out?
Beside(p) ==
  /\ IsOverlap(job) /\ ~copyArea
  /\ job.dx # 0 /\ (job.dy # 0 => FewerColumns(job))
  /\ job.w % Abs(job.dx) # 0
  /\ Within(p[2], job.dy, job.dy + job.h - 1)
  /\ Within(p[1], job.dx - Abs(job.dx) + 1, job.dx + job.w + Abs(job.dx) - 2)

\* When the blits of a copy within a pixmap are made, in whatever direction
\* and however far it goes, with or without a copy area, the destination holds
\* what the source held before, and nothing else has changed (but for pixels
\* beside it when the last column sticks out and there is no copy area).
CopiesRight ==
  job # NoJob /\ copyBlits = << >> =>
    \A p \in DOMAIN pixels :
      IF In(p, job.dx, job.dy, job.w, job.h)
      THEN pixels[p] = <<p[1] - job.dx, p[2] - job.dy>>
      ELSE pixels[p] = p \/ Beside(p)
=============================================================================
