----------------------------- MODULE Transfers -----------------------------
(***************************************************************************)
(* Rows of pixels on their way between system and video memory.  On R600   *)
(* they go through a scratch buffer in two halves (R600CopyToVRAM,         *)
(* R600DownloadFromScreen of r600_exa.c): the CPU works on one while the   *)
(* card draws from or to the other.  Before R600 a download goes through a *)
(* buffer in one piece (R5xxEXADownloadFromScreenCP of r5xx_exa.c).  Rows  *)
(* are numbered; the card draws the blits it was given in turn and when it *)
(* likes.  A wait for it may be given up.                                  *)
(***************************************************************************)
EXTENDS Integers, Sequences

CONSTANTS
  RowsPerHalf,  \* rows that fit half of the scratch buffer, or all of ExaPrivate->Buffer
  MaxRows       \* bound: rows of a transfer

ASSUME RowsAssumption == RowsPerHalf \in Nat /\ RowsPerHalf > 0 /\ MaxRows \in Nat

VARIABLES
  transfer,  \* "upload", "download", "downloadR5xx" or "none"
  stage,     \* where in the call
  height,    \* rows to transfer
  h,         \* rows not yet blitted, or not yet copied out
  hpass,     \* rows of the half worked on
  oldhpass,  \* rows of the half before
  half,      \* scratch_offset: 0 or 1
  y,         \* the row of the pixmap the next blit begins with
  cpu,       \* the row of system memory that src or dst has come to
  scratch,   \* what the halves hold: 0 for garbage
  blits,     \* queued: <<half, first row, rows>>
  landed,    \* which rows arrived where
  gaveUpIdle \* has a wait been given up?

transferVars == <<transfer, stage, height, h, hpass, oldhpass, half, y, cpu, scratch, blits, landed, gaveUpIdle>>

Least(a, b) == IF a < b THEN a ELSE b
Garbage == [k \in {0, 1} |-> [i \in 0 .. RowsPerHalf - 1 |-> 0]]

TransferInit ==
  /\ transfer = "none" /\ stage = "none" /\ height = 0 /\ h = 0 /\ hpass = 0 /\ oldhpass = 0
  /\ half = 0 /\ y = 0 /\ cpu = 0 /\ scratch = Garbage /\ blits = << >>
  /\ landed = [r \in 0 .. MaxRows + RowsPerHalf |-> 0] /\ gaveUpIdle = FALSE

\* n rows of source memory, from row r, in a half of the scratch buffer.
Filled(k, r, n) ==
  [scratch EXCEPT ![k] = [i \in DOMAIN @ |-> IF i < n THEN r + i + 1 ELSE @[i]]]

StartUpload(n) ==
  /\ stage = "none"
  /\ transfer' = "upload" /\ height' = n /\ h' = n
  /\ hpass' = Least(n, RowsPerHalf)
  /\ scratch' = Filled(0, 0, hpass') /\ cpu' = hpass'
  /\ stage' = "loop"
  /\ UNCHANGED <<oldhpass, half, y, blits, landed, gaveUpIdle>>

StartDownload(n) ==
  /\ stage = "none"
  /\ transfer' = "download" /\ height' = n /\ h' = n
  /\ hpass' = Least(n, RowsPerHalf)
  /\ blits' = Append(blits, <<0, 0, hpass'>>)
  /\ stage' = "loop"
  /\ UNCHANGED <<oldhpass, half, y, cpu, scratch, landed, gaveUpIdle>>

StartDownloadR5xx(n) ==
  /\ stage = "none"
  /\ transfer' = "downloadR5xx" /\ height' = n /\ h' = n
  /\ hpass' = RowsPerHalf
  /\ stage' = "loop"
  /\ UNCHANGED <<oldhpass, half, y, cpu, scratch, blits, landed, gaveUpIdle>>

\* A round of R600CopyToVRAM: the other half is filled, once it is drawn.
LoopUpload ==
  /\ transfer = "upload" /\ stage = "loop" /\ h > 0
  /\ oldhpass' = hpass /\ h' = h - hpass
  /\ hpass' = Least(h', RowsPerHalf)
  /\ IF hpass' > 0 THEN half' = 1 - half /\ stage' = "idle" ELSE stage' = "blit" /\ UNCHANGED half
  /\ UNCHANGED <<transfer, height, y, cpu, scratch, blits, landed, gaveUpIdle>>

\* A round of R600DownloadFromScreen: the next blit goes to the other half.
LoopDownload ==
  /\ transfer = "download" /\ stage = "loop" /\ h > 0
  /\ oldhpass' = hpass /\ h' = h - hpass /\ y' = y + hpass
  /\ hpass' = Least(h', RowsPerHalf)
  /\ IF hpass' > 0
     THEN half' = 1 - half /\ blits' = Append(blits, <<half', y', hpass'>>)
     ELSE UNCHANGED <<half, blits>>
  /\ stage' = "idle"
  /\ UNCHANGED <<transfer, height, cpu, scratch, landed, gaveUpIdle>>

\* A round of R5xxEXADownloadFromScreenCP.
LoopDownloadR5xx ==
  /\ transfer = "downloadR5xx" /\ stage = "loop" /\ h > 0
  /\ hpass' = Least(h, hpass) /\ oldhpass' = hpass'
  /\ blits' = Append(blits, <<0, y, hpass'>>)
  /\ y' = y + hpass' /\ h' = h - hpass'
  /\ stage' = "idle"
  /\ UNCHANGED <<transfer, height, half, cpu, scratch, landed, gaveUpIdle>>

\* MUTANT of WaitForHalf: the CPU goes on while the card draws.
WaitForHalfAtOnce ==
  /\ stage = "idle" /\ stage' = "copy"
  /\ UNCHANGED <<transfer, height, h, hpass, oldhpass, half, y, cpu, scratch, blits, landed, gaveUpIdle>>

\* RHDCSIdle.  Before R600 R5xx2DIdle follows, which drops what is not drawn.
WaitForHalf ==
  /\ stage = "idle" /\ stage' = "copy"
  /\ \/ blits = << >> /\ UNCHANGED <<blits, gaveUpIdle>>
     \/ /\ blits # << >> /\ gaveUpIdle' = TRUE
        /\ blits' = IF transfer = "downloadR5xx" THEN << >> ELSE blits
  /\ UNCHANGED <<transfer, height, h, hpass, oldhpass, half, y, cpu, scratch, landed>>

\* The memcpy of R600CopyToVRAM.
FillHalf ==
  /\ transfer = "upload" /\ stage = "copy"
  /\ scratch' = Filled(half, cpu, hpass) /\ cpu' = cpu + hpass
  /\ stage' = "blit"
  /\ UNCHANGED <<transfer, height, h, hpass, oldhpass, half, y, blits, landed, gaveUpIdle>>

\* The blit of R600CopyToVRAM, from the half filled before.
BlitHalf ==
  /\ transfer = "upload" /\ stage = "blit"
  /\ LET from == IF hpass > 0 THEN 1 - half ELSE half
     IN blits' = Append(blits, <<from, y, oldhpass>>)
  /\ y' = y + oldhpass
  /\ stage' = "loop"
  /\ UNCHANGED <<transfer, height, h, hpass, oldhpass, half, cpu, scratch, landed, gaveUpIdle>>

\* Where the download of the last round but one went, or of the last.
Fetched == IF transfer = "download" /\ hpass > 0 THEN 1 - half ELSE half

\* The memcpy of the downloads.
FetchHalf ==
  /\ transfer \in {"download", "downloadR5xx"} /\ stage = "copy"
  /\ landed' = [r \in DOMAIN landed |->
                 IF r - cpu \in 0 .. oldhpass - 1 THEN scratch[Fetched][r - cpu] ELSE landed[r]]
  /\ cpu' = cpu + oldhpass
  /\ stage' = "loop"
  /\ UNCHANGED <<transfer, height, h, hpass, oldhpass, half, y, scratch, blits, gaveUpIdle>>

\* The scratch buffer is given back behind what is queued.
EndTransfer ==
  /\ stage = "loop" /\ h = 0 /\ stage' = "done"
  /\ UNCHANGED <<transfer, height, h, hpass, oldhpass, half, y, cpu, scratch, blits, landed, gaveUpIdle>>

\* The card draws a blit.
CardBlits ==
  /\ blits # << >>
  /\ blits' = Tail(blits)
  /\ LET k == Head(blits)[1] r == Head(blits)[2] n == Head(blits)[3] IN
     IF transfer = "upload"
     THEN /\ landed' = [p \in DOMAIN landed |->
                         IF p - r \in 0 .. n - 1 THEN scratch[k][p - r] ELSE landed[p]]
          /\ UNCHANGED scratch
     ELSE scratch' = Filled(k, r, n) /\ UNCHANGED landed
  /\ UNCHANGED <<transfer, stage, height, h, hpass, oldhpass, half, y, cpu, gaveUpIdle>>

TransferNext ==
  \/ \E n \in 1 .. MaxRows : StartUpload(n) \/ StartDownload(n) \/ StartDownloadR5xx(n)
  \/ LoopUpload \/ LoopDownload \/ LoopDownloadR5xx \/ WaitForHalf \/ FillHalf \/ BlitHalf \/ FetchHalf
  \/ EndTransfer \/ CardBlits

TransferSpec == TransferInit /\ [][TransferNext]_transferVars

\* A transfer of any height that did not give up a wait brings each row where
\* it belongs and none anywhere else, although the CPU and the card work on
\* the two halves of the scratch buffer at the same time.
TransfersRight ==
  stage = "done" /\ blits = << >> /\ ~gaveUpIdle =>
    \A r \in DOMAIN landed : landed[r] = IF r < height THEN r + 1 ELSE 0
=============================================================================
