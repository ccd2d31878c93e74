------------------------ MODULE Acceleration_proofs -------------------------
(***************************************************************************)
(* Acceleration, for cards, tables, transfers and frames of any size:      *)
(* what is drawn finds the state it was prepared for and software finds    *)
(* what was drawn; transfers through the scratch buffer bring each row     *)
(* where it belongs, copies within a pixmap what the source held, and      *)
(* lines within the commands arrive once and whole; frames come whole and  *)
(* stay in their buffers.                                                  *)
(***************************************************************************)
EXTENDS DrawState, Transfers, VideoFrames, XaaScanlines, OverlapCopy, SequenceTheorems, TLAPS

(***************************************************************************)
(* Transfers.  TransfersRight speaks of the end.  What is true on the way  *)
(* there is IInv: the rows up to one have arrived, the queued blits are    *)
(* those of the rows behind it, in order; each half of the buffer holds    *)
(* the rows it is next read for or is about to get by a queued blit,       *)
(* with no other write to it in between.  A wait that was given up ends    *)
(* all of this, which is why IInv says nothing of it.                      *)
(***************************************************************************)

Halves == {0, 1}
AllRows == 0 .. MaxRows + RowsPerHalf
Blits == Halves \X Nat \X (0 .. RowsPerHalf)

\* A half holds n rows from row r on.
HalfHolds(s, k, r, n) == \A i \in 0 .. n - 1 : s[k][i] = r + i + 1
Carries(s, b) == HalfHolds(s, b[1], b[2], b[3])

\* The first d rows have arrived, and no others.
Landed(l, d) == l = [r \in AllRows |-> IF r < d THEN r + 1 ELSE 0]

Numbers ==
  /\ height \in 0 .. MaxRows /\ h \in Nat /\ y \in Nat /\ cpu \in Nat
  /\ hpass \in 0 .. RowsPerHalf /\ oldhpass \in 0 .. RowsPerHalf
  /\ half \in Halves
  /\ scratch \in [Halves -> [0 .. RowsPerHalf - 1 -> Nat]]

\* The blits in q that the card has yet to make are those of the rows that have
\* not arrived, up to row d, in order.
Sent(q, s, l, d) ==
  \/ q = << >> /\ Landed(l, d)
  \/ \E b \in Blits : q = <<b>> /\ Landed(l, b[2]) /\ b[2] + b[3] = d /\ Carries(s, b)
  \/ \E a, b \in Blits : /\ q = <<a, b>> /\ Landed(l, a[2]) /\ a[2] + a[3] = b[2] /\ b[2] + b[3] = d
                         /\ Carries(s, a) /\ Carries(s, b)

\* At most one blit is under way, from half k.
OneFrom(q, k) == q = << >> \/ \E b \in Blits : q = <<b>> /\ b[1] = k

\* R600CopyToVRAM, where it stands: the half that is filled next is the one that
\* a blit may still read.
UploadLoop ==
  /\ stage = "loop" /\ y + h = height
  /\ HalfHolds(scratch, half, y, hpass) /\ (h = 0 \/ OneFrom(blits, 1 - half)) /\ cpu = y + hpass
UploadWait ==
  /\ stage \in {"idle", "copy"} /\ hpass > 0 /\ y + oldhpass + h = height
  /\ HalfHolds(scratch, 1 - half, y, oldhpass) /\ OneFrom(blits, half) /\ cpu = y + oldhpass
  /\ stage = "copy" => blits = << >>
UploadBlit ==
  /\ stage = "blit" /\ hpass > 0 /\ y + oldhpass + h = height
  /\ HalfHolds(scratch, 1 - half, y, oldhpass) /\ blits = << >> /\ cpu = y + oldhpass + hpass
  /\ HalfHolds(scratch, half, y + oldhpass, hpass)
UploadLast ==
  /\ stage = "blit" /\ h = 0 /\ y + oldhpass = height
  /\ HalfHolds(scratch, half, y, oldhpass) /\ OneFrom(blits, 1 - half) /\ cpu = y + oldhpass
UploadEnd == stage = "done" /\ h = 0 /\ y = height

Uploading ==
  /\ hpass = Least(h, RowsPerHalf)
  /\ Sent(blits, scratch, landed, y)
  /\ UploadLoop \/ UploadWait \/ UploadBlit \/ UploadLast \/ UploadEnd

\* A blit to the scratch buffer has yet to be made, or its half holds the rows; and
\* the same of two of them in turn, to the two halves.
Coming(q, s, b) == b \in Blits /\ (q = <<b>> \/ (q = << >> /\ Carries(s, b)))
ComingBoth(q, s, a, b) ==
  /\ a \in Blits /\ b \in Blits /\ a[1] = 1 - b[1]
  /\ q = <<a, b>> \/ (Carries(s, a) /\ Coming(q, s, b))

\* R600DownloadFromScreen.  The next half is drawn to while one is copied out.
DownloadLoop ==
  /\ stage = "loop" /\ cpu = y
  /\ IF h > 0 THEN Coming(blits, scratch, <<half, y, hpass>>) ELSE blits = << >>
DownloadWait ==
  /\ stage \in {"idle", "copy"} /\ cpu + oldhpass = y
  /\ IF h > 0
     THEN ComingBoth(blits, scratch, <<1 - half, cpu, oldhpass>>, <<half, y, hpass>>)
     ELSE Coming(blits, scratch, <<half, cpu, oldhpass>>)
  /\ stage = "copy" => blits = << >>
DownloadDone == stage = "done" /\ h = 0 /\ cpu = y /\ blits = << >>

Downloading ==
  /\ hpass = Least(h, RowsPerHalf)
  /\ Landed(landed, cpu)
  /\ y + h = height
  /\ DownloadLoop \/ DownloadWait \/ DownloadDone

\* R5xxEXADownloadFromScreenCP: one piece after the other.
PieceLoop == stage = "loop" /\ cpu = y /\ blits = << >>
PieceWait ==
  /\ stage \in {"idle", "copy"} /\ cpu + oldhpass = y
  /\ Coming(blits, scratch, <<0, cpu, oldhpass>>)
  /\ stage = "copy" => blits = << >>
PieceDone == stage = "done" /\ h = 0 /\ cpu = y /\ blits = << >>

DownloadingPieces ==
  /\ half = 0
  /\ Landed(landed, cpu)
  /\ y + h = height
  /\ PieceLoop \/ PieceWait \/ PieceDone

Waiting ==
  stage = "none" /\ half = 0 /\ y = 0 /\ cpu = 0 /\ blits = << >> /\ Landed(landed, 0)

Right ==
  \/ transfer = "none" /\ Waiting
  \/ transfer = "upload" /\ Uploading
  \/ transfer = "download" /\ Downloading
  \/ transfer = "downloadR5xx" /\ DownloadingPieces

IInv == gaveUpIdle \/ (Numbers /\ Right)
-----------------------------------------------------------------------------
(* The scratch buffer and the queue. *)

\* Filling a half brings the rows to it and leaves the other one alone.
LEMMA FilledRight ==
  ASSUME scratch \in [Halves -> [0 .. RowsPerHalf - 1 -> Nat]], NEW k \in Halves, NEW r \in Nat,
         NEW n \in 0 .. RowsPerHalf, scratch' = Filled(k, r, n)
  PROVE  /\ scratch' \in [Halves -> [0 .. RowsPerHalf - 1 -> Nat]]
         /\ HalfHolds(scratch', k, r, n)
         /\ scratch'[1 - k] = scratch[1 - k]
<1> DEFINE filled == [i \in 0 .. RowsPerHalf - 1 |-> IF i < n THEN r + i + 1 ELSE scratch[k][i]]
<1>1. scratch' = [scratch EXCEPT ![k] = filled]
  <2>1. DOMAIN scratch[k] = 0 .. RowsPerHalf - 1 /\ k \in DOMAIN scratch
    OBVIOUS
  <2> QED BY <2>1 DEF Filled
<1>2. filled \in [0 .. RowsPerHalf - 1 -> Nat]
  <2>1. ASSUME NEW i \in 0 .. RowsPerHalf - 1 PROVE scratch[k][i] \in Nat /\ r + i + 1 \in Nat
    <3>1. scratch[k] \in [0 .. RowsPerHalf - 1 -> Nat]
      OBVIOUS
    <3> QED BY <3>1, RowsAssumption
  <2> QED BY <2>1
<1>3. scratch'[k] = filled /\ scratch'[1 - k] = scratch[1 - k]
  <2>1. DOMAIN scratch = Halves /\ 1 - k \in Halves /\ 1 - k # k
    BY DEF Halves
  <2> HIDE DEF filled
  <2> QED BY <1>1, <2>1
<1>4. \A i \in 0 .. n - 1 : filled[i] = r + i + 1
  BY RowsAssumption
<1>5. scratch' \in [Halves -> [0 .. RowsPerHalf - 1 -> Nat]]
  <2> HIDE DEF filled
  <2> QED BY <1>1, <1>2
<1>6. HalfHolds(scratch', k, r, n)
  <2> HIDE DEF filled
  <2> QED BY <1>3, <1>4 DEF HalfHolds
<1> QED BY <1>3, <1>5, <1>6

\* A half that is left alone holds what it held.
LEMMA HoldsStill ==
  ASSUME NEW k, NEW r, NEW n, HalfHolds(scratch, k, r, n), scratch'[k] = scratch[k]
  PROVE  HalfHolds(scratch', k, r, n)
  BY DEF HalfHolds

\* What the card's queue of one or two blits becomes when it takes one, and when
\* one more is given to it.
LEMMA Queues ==
  ASSUME NEW S, NEW a \in S, NEW b \in S
  PROVE  /\ <<a>> # << >> /\ Head(<<a>>) = a /\ Tail(<<a>>) = << >>
         /\ <<a, b>> # << >> /\ Head(<<a, b>>) = a /\ Tail(<<a, b>>) = <<b>>
         /\ Append(<< >>, a) = <<a>> /\ Append(<<a>>, b) = <<a, b>>
<1>1. <<a>> \in Seq(S) /\ <<a, b>> \in Seq(S) /\ <<b>> \in Seq(S) /\ << >> \in Seq(S)
  OBVIOUS
<1>2. Len(<<a>>) = 1 /\ Len(<<a, b>>) = 2 /\ Len(<<b>>) = 1
  OBVIOUS
<1>3. Head(<<a>>) = a /\ Head(<<a, b>>) = a /\ <<a>> # << >> /\ <<a, b>> # << >>
  BY <1>1, <1>2, EmptySeq, HeadTailProperties
<1>4. Tail(<<a>>) = << >>
  BY <1>1, <1>2, HeadTailProperties, EmptySeq
<1>5. Tail(<<a, b>>) = <<b>>
  <2>1. Tail(<<a, b>>) \in Seq(S) /\ Len(Tail(<<a, b>>)) = 1
    BY <1>1, <1>2, <1>3, HeadTailProperties
  <2>2. Tail(<<a, b>>)[1] = b
    BY <1>1, <1>2, <1>3, HeadTailProperties
  <2> QED BY <1>1, <1>2, <2>1, <2>2, SeqEqual
<1>6. Append(<< >>, a) = <<a>>
  OBVIOUS
<1>7. Append(<<a>>, b) = <<a, b>>
  <2>1. /\ Append(<<a>>, b) \in Seq(S) /\ Len(Append(<<a>>, b)) = 2
        /\ Append(<<a>>, b)[1] = <<a>>[1] /\ Append(<<a>>, b)[2] = b
    BY <1>1, <1>2, AppendProperties
  <2>2. \A i \in 1 .. 2 : Append(<<a>>, b)[i] = <<a, b>>[i]
    <3>1. Append(<<a>>, b)[1] = <<a, b>>[1] /\ Append(<<a>>, b)[2] = <<a, b>>[2]
      BY <2>1
    <3> QED BY <3>1
  <2> QED BY <1>1, <1>2, <2>1, <2>2, SeqEqual
<1> QED BY <1>3, <1>4, <1>5, <1>6, <1>7

\* n rows more arrive behind the first d.
LEMMA Arrived ==
  ASSUME NEW d \in Nat, NEW n \in 0 .. RowsPerHalf, Landed(landed, d), d + n <= MaxRows, NEW half_, HalfHolds(scratch, half_, d, n),
         landed' = [r \in DOMAIN landed |->
                     IF r - d \in 0 .. n - 1 THEN scratch[half_][r - d] ELSE landed[r]]
  PROVE  Landed(landed', d + n)
<1>1. DOMAIN landed = AllRows
  BY DEF Landed
<1>2. ASSUME NEW r \in AllRows
      PROVE  (IF r - d \in 0 .. n - 1 THEN scratch[half_][r - d] ELSE landed[r]) = (IF r < d + n THEN r + 1 ELSE 0)
  <2>1. r \in Nat
    BY RowsAssumption DEF AllRows
  <2>2. CASE r - d \in 0 .. n - 1
    BY <2>1, <2>2 DEF HalfHolds
  <2>3. CASE r - d \notin 0 .. n - 1
    BY <2>1, <2>3 DEF Landed
  <2> QED BY <2>2, <2>3
<1>3. landed' = [r \in AllRows |-> IF r < d + n THEN r + 1 ELSE 0]
  BY <1>1, <1>2
<1> QED BY <1>3 DEF Landed, AllRows
-----------------------------------------------------------------------------
(* Uploads *)

\* What Least gives: no more rows than there are, and none only when there are none.
LEMMA LeastRight ==
  ASSUME NEW a \in Nat
  PROVE  /\ Least(a, RowsPerHalf) \in 0 .. RowsPerHalf /\ Least(a, RowsPerHalf) <= a
         /\ Least(a, RowsPerHalf) = 0 <=> a = 0
  BY RowsAssumption DEF Least

\* LoopUpload: the half filled last is the one to blit from, the other one is next.
LEMMA LoopUploadRight ==
  ASSUME Numbers, Uploading, LoopUpload
  PROVE  Numbers' /\ Uploading'
<1>1. UploadLoop
  BY DEF Uploading, UploadLoop, UploadWait, UploadBlit, UploadLast, UploadEnd, LoopUpload
<1>2. /\ h \in Nat /\ h > 0 /\ hpass \in 0 .. RowsPerHalf /\ hpass <= h /\ hpass > 0 /\ half \in Halves
      /\ y \in Nat /\ cpu \in Nat /\ half = 1 - (1 - half)
  BY LeastRight DEF Numbers, Uploading, LoopUpload, Halves
<1>3. h' = h - hpass /\ h' \in Nat /\ oldhpass' = hpass /\ hpass' = Least(h', RowsPerHalf)
  BY <1>2, RowsAssumption DEF LoopUpload
<1>4. hpass' \in 0 .. RowsPerHalf /\ (hpass' = 0 <=> h' = 0)
  BY <1>3, LeastRight
<1>5. UNCHANGED <<transfer, height, y, cpu, scratch, blits, landed>>
  BY DEF LoopUpload
<1>6. y + oldhpass' + h' = height /\ HalfHolds(scratch, half, y, oldhpass') /\ OneFrom(blits, 1 - half) /\ cpu = y + oldhpass'
  BY <1>1, <1>2, <1>3, RowsAssumption DEF UploadLoop, Numbers
<1>7. CASE hpass' > 0
  <2>1. half' = 1 - half /\ stage' = "idle" /\ half' \in Halves
    BY <1>2, <1>7 DEF LoopUpload, Halves
  <2>2. UploadWait'
    BY <1>2, <1>5, <1>6, <1>7, <2>1 DEF UploadWait
  <2>3. Numbers'
    BY <1>2, <1>3, <1>4, <1>5, <2>1 DEF Numbers
  <2> QED BY <1>3, <1>5, <2>2, <2>3 DEF Uploading
<1>8. CASE hpass' = 0
  <2>1. half' = half /\ stage' = "blit" /\ h' = 0
    BY <1>4, <1>8 DEF LoopUpload
  <2>2. UploadLast'
    BY <1>2, <1>3, <1>5, <1>6, <2>1, RowsAssumption DEF UploadLast
  <2>3. Numbers'
    BY <1>2, <1>3, <1>4, <1>5, <2>1 DEF Numbers
  <2> QED BY <1>3, <1>5, <2>2, <2>3 DEF Uploading
<1> QED BY <1>4, <1>7, <1>8, RowsAssumption

\* WaitForHalf: when the wait ends as it should, no blit is under way.
LEMMA WaitUploadRight ==
  ASSUME Numbers, Uploading, transfer = "upload", WaitForHalf, ~gaveUpIdle'
  PROVE  Numbers' /\ Uploading'
<1>1. UploadWait
  BY DEF Uploading, UploadLoop, UploadWait, UploadBlit, UploadLast, UploadEnd, WaitForHalf
<1>2. blits = << >> /\ UNCHANGED blits /\ stage' = "copy"
  BY DEF WaitForHalf
<1>3. UNCHANGED <<height, h, hpass, oldhpass, half, y, cpu, scratch, landed>>
  BY DEF WaitForHalf
<1>4. UploadWait'
  BY <1>1, <1>2, <1>3 DEF UploadWait
<1>5. Numbers'
  BY <1>3 DEF Numbers
<1> QED BY <1>2, <1>3, <1>4, <1>5 DEF Uploading

\* FillHalf: the next rows come to the half that no blit reads.
LEMMA FillHalfRight ==
  ASSUME Numbers, Uploading, FillHalf
  PROVE  Numbers' /\ Uploading'
<1>1. UploadWait /\ stage = "copy"
  BY DEF Uploading, UploadLoop, UploadWait, UploadBlit, UploadLast, UploadEnd, FillHalf
<1>2. blits = << >> /\ cpu = y + oldhpass /\ hpass > 0 /\ y + oldhpass + h = height /\ HalfHolds(scratch, 1 - half, y, oldhpass)
  BY <1>1 DEF UploadWait
<1>3. Landed(landed, y)
  BY <1>2 DEF Uploading, Sent
<1>4. /\ scratch' \in [Halves -> [0 .. RowsPerHalf - 1 -> Nat]] /\ HalfHolds(scratch', half, cpu, hpass)
      /\ scratch'[1 - half] = scratch[1 - half]
  BY FilledRight DEF FillHalf, Numbers
<1>5. HalfHolds(scratch', 1 - half, y, oldhpass)
  BY <1>2, <1>4, HoldsStill
<1>6. cpu' = cpu + hpass /\ cpu' \in Nat /\ stage' = "blit" /\ UNCHANGED <<height, h, hpass, oldhpass, half, y, blits, landed>>
  BY RowsAssumption DEF FillHalf, Numbers
<1>7. UploadBlit'
  BY <1>2, <1>4, <1>5, <1>6 DEF UploadBlit
<1>8. Numbers'
  BY <1>4, <1>6 DEF Numbers
<1>9. Sent(blits, scratch, landed, y)' /\ hpass' = Least(h', RowsPerHalf)
  BY <1>2, <1>3, <1>6 DEF Sent, Uploading
<1> QED BY <1>7, <1>8, <1>9 DEF Uploading

\* BlitHalf: the new blit brings the rows behind those of the one under way.
LEMMA BlitHalfRight ==
  ASSUME Numbers, Uploading, BlitHalf
  PROVE  Numbers' /\ Uploading'
<1> DEFINE k == IF hpass > 0 THEN 1 - half ELSE half
<1>1. /\ y \in Nat /\ oldhpass \in 0 .. RowsPerHalf /\ h \in Nat /\ half \in Halves /\ 1 - half \in Halves
      /\ hpass \in 0 .. RowsPerHalf
  BY DEF Numbers, Halves
<1> k \in Halves
  BY <1>1
<1> hpass = 0 <=> h = 0
  BY <1>1, LeastRight DEF Uploading
<1>2. PICK b \in Blits : b = <<k, y, oldhpass>> /\ b[1] = k /\ b[2] = y /\ b[3] = oldhpass
  <2> HIDE DEF k
  <2>1. <<k, y, oldhpass>> \in Blits
    BY <1>1 DEF Blits
  <2> QED BY <2>1
<1>3. /\ blits' = Append(blits, b) /\ y' = y + oldhpass /\ stage' = "loop"
      /\ UNCHANGED <<height, h, hpass, oldhpass, half, cpu, scratch, landed>>
  BY <1>2 DEF BlitHalf
<1>4. y' \in Nat
  BY <1>1, <1>3, RowsAssumption
<1>5. Numbers'
  BY <1>3, <1>4 DEF Numbers
<1>6. CASE UploadBlit
  <2>1. /\ k = 1 - half /\ hpass > 0 /\ y + oldhpass + h = height /\ HalfHolds(scratch, 1 - half, y, oldhpass) /\ blits = << >>
        /\ cpu = y + oldhpass + hpass /\ HalfHolds(scratch, half, y + oldhpass, hpass)
    BY <1>6 DEF UploadBlit
  <2>2. blits' = <<b>>
    BY <1>2, <1>3, <2>1, Queues
  <2>3. Landed(landed, b[2]) /\ Carries(scratch, b)
    BY <1>2, <2>1 DEF Uploading, Sent, Carries
  <2>4. Sent(blits', scratch, landed, y')
    BY <1>2, <1>3, <2>2, <2>3 DEF Sent
  <2>5. OneFrom(blits', 1 - half)
    BY <1>2, <2>1, <2>2 DEF OneFrom
  <2>6. UploadLoop'
    BY <1>3, <2>1, <2>5 DEF UploadLoop
  <2> QED BY <1>3, <1>5, <2>4, <2>6 DEF Uploading
<1>7. CASE UploadLast
  <2>1. /\ k = half /\ hpass = 0 /\ h = 0 /\ y + oldhpass = height /\ HalfHolds(scratch, half, y, oldhpass)
        /\ OneFrom(blits, 1 - half) /\ cpu = y + oldhpass
    BY <1>1, <1>7 DEF UploadLast
  <2>2. UploadLoop'
    <3>1. HalfHolds(scratch, half, y', hpass)
      BY <2>1 DEF HalfHolds
    <3>2. height \in Nat /\ y' = height /\ cpu = y'
      BY <1>3, <2>1, RowsAssumption DEF Numbers
    <3>3. y' + h' = height /\ cpu = y' + hpass
      BY <1>3, <1>4, <2>1, <3>2
    <3> QED BY <1>3, <2>1, <3>1, <3>3 DEF UploadLoop
  <2>3. Carries(scratch, b)
    BY <1>2, <2>1 DEF Carries
  <2>4. CASE blits = << >>
    <3>1. blits' = <<b>> /\ Landed(landed, b[2])
      BY <1>2, <1>3, <2>4, Queues DEF Uploading, Sent
    <3>2. Sent(blits', scratch, landed, y')
      BY <1>2, <1>3, <2>3, <3>1 DEF Sent
    <3> QED BY <1>3, <1>5, <2>2, <3>2 DEF Uploading
  <2>5. CASE blits # << >>
    <3>1. PICK a \in Blits : blits = <<a>> /\ Landed(landed, a[2]) /\ a[2] + a[3] = y /\ Carries(scratch, a)
      <4>1. PICK a \in Blits : blits = <<a>>
        BY <2>1, <2>5 DEF OneFrom
      <4>2. ASSUME NEW c \in Blits, NEW d \in Blits PROVE blits # <<c, d>>
        BY <4>1
      <4>3. PICK c \in Blits : blits = <<c>> /\ Landed(landed, c[2]) /\ c[2] + c[3] = y /\ Carries(scratch, c)
        BY <2>5, <4>2 DEF Uploading, Sent
      <4> QED BY <4>3
    <3>2. blits' = <<a, b>>
      BY <1>2, <1>3, <3>1, Queues
    <3>3. Sent(blits', scratch, landed, y')
      BY <1>2, <1>3, <2>3, <3>1, <3>2 DEF Sent
    <3> QED BY <1>3, <1>5, <2>2, <3>3 DEF Uploading
  <2> QED BY <2>4, <2>5
<1>8. UploadBlit \/ UploadLast
  BY DEF Uploading, UploadLoop, UploadWait, UploadBlit, UploadLast, UploadEnd, BlitHalf
<1> QED BY <1>6, <1>7, <1>8

\* EndTransfer: what has not arrived is queued.
LEMMA EndUploadRight ==
  ASSUME Numbers, Uploading, EndTransfer
  PROVE  Numbers' /\ Uploading'
<1>1. UploadLoop
  BY DEF Uploading, UploadLoop, UploadWait, UploadBlit, UploadLast, UploadEnd, EndTransfer
<1>2. h = 0 /\ stage' = "done" /\ UNCHANGED <<height, h, hpass, oldhpass, half, y, cpu, scratch, blits, landed>>
  BY DEF EndTransfer
<1>3. UploadEnd'
  BY <1>1, <1>2 DEF UploadLoop, UploadEnd, Numbers
<1>4. Numbers'
  BY <1>2 DEF Numbers
<1> QED BY <1>2, <1>3, <1>4 DEF Uploading

\* The card draws the first of the blits: its rows arrive.
LEMMA CardUploadsRight ==
  ASSUME Numbers, Uploading, transfer = "upload", CardBlits
  PROVE  Numbers' /\ Uploading'
<1>1. /\ blits # << >> /\ blits' = Tail(blits)
      /\ UNCHANGED <<stage, height, h, hpass, oldhpass, half, y, cpu, scratch>>
  BY DEF CardBlits
<1>2. Numbers'
  BY <1>1 DEF Numbers
<1>3. y \in Nat /\ y <= height /\ height \in 0 .. MaxRows
  BY RowsAssumption DEF Numbers, Uploading, UploadLoop, UploadWait, UploadBlit, UploadLast, UploadEnd
<1>4. ASSUME NEW b \in Blits, Head(blits) = b, Landed(landed, b[2]), Carries(scratch, b), b[2] + b[3] <= y
      PROVE  Landed(landed', b[2] + b[3])
  <2>1. landed' = [p \in DOMAIN landed |-> IF p - b[2] \in 0 .. b[3] - 1 THEN scratch[b[1]][p - b[2]] ELSE landed[p]]
    BY <1>4 DEF CardBlits
  <2>2. b[2] \in Nat /\ b[3] \in 0 .. RowsPerHalf /\ b[2] + b[3] <= MaxRows
    BY <1>3, <1>4, RowsAssumption DEF Blits
  <2> QED BY <1>4, <2>1, <2>2, Arrived DEF Carries
<1>5. /\ Sent(blits', scratch, landed', y)
      /\ blits' = << >> \/ \E a, b \in Blits : blits = <<a, b>>
  <2>1. ASSUME NEW b \in Blits, blits = <<b>>, Landed(landed, b[2]), b[2] + b[3] = y, Carries(scratch, b)
        PROVE  Sent(blits', scratch, landed', y) /\ blits' = << >>
    <3>1. Head(blits) = b /\ blits' = << >>
      BY <1>1, <2>1, Queues
    <3>2. Landed(landed', y)
      BY <1>3, <1>4, <2>1, <3>1
    <3> QED BY <3>1, <3>2 DEF Sent
  <2>2. ASSUME NEW a \in Blits, NEW b \in Blits, blits = <<a, b>>, Landed(landed, a[2]), a[2] + a[3] = b[2],
               b[2] + b[3] = y, Carries(scratch, a), Carries(scratch, b)
        PROVE  Sent(blits', scratch, landed', y)
    <3>1. Head(blits) = a /\ blits' = <<b>>
      BY <1>1, <2>2, Queues
    <3>2. a[2] + a[3] <= y
      BY <1>3, <2>2, RowsAssumption DEF Blits
    <3>3. Landed(landed', b[2])
      BY <1>4, <2>2, <3>1, <3>2
    <3> QED BY <2>2, <3>1, <3>3 DEF Sent
  <2> QED BY <1>1, <2>1, <2>2 DEF Uploading, Sent
<1>6. ASSUME NEW k, OneFrom(blits, k) PROVE OneFrom(blits', k)
  <2>1. PICK b \in Blits : blits = <<b>>
    BY <1>1, <1>6 DEF OneFrom
  <2>2. blits' = << >>
    BY <1>1, <2>1, Queues
  <2> QED BY <2>2 DEF OneFrom
<1>7. (UploadLoop \/ UploadWait \/ UploadBlit \/ UploadLast \/ UploadEnd)'
  <2>1. CASE UploadLoop
    <3>1. UploadLoop'
      BY <1>1, <1>6, <2>1 DEF UploadLoop
    <3> QED BY <3>1
  <2>2. CASE UploadWait
    <3>1. UploadWait'
      BY <1>1, <1>6, <2>2 DEF UploadWait
    <3> QED BY <3>1
  <2>3. CASE UploadBlit
    BY <1>1, <2>3 DEF UploadBlit
  <2>4. CASE UploadLast
    <3>1. UploadLast'
      BY <1>1, <1>6, <2>4 DEF UploadLast
    <3> QED BY <3>1
  <2>5. CASE UploadEnd
    BY <1>1, <2>5 DEF UploadEnd
  <2> QED BY <2>1, <2>2, <2>3, <2>4, <2>5 DEF Uploading
<1> QED BY <1>1, <1>2, <1>5, <1>7 DEF Uploading
-----------------------------------------------------------------------------
(* Downloads *)

\* The card fills the half that a blit is under way to.
LEMMA CardFills ==
  ASSUME Numbers, transfer # "upload", CardBlits, NEW b \in Blits, Coming(blits, scratch, b)
  PROVE  Coming(blits', scratch', b) /\ scratch' \in [Halves -> [0 .. RowsPerHalf - 1 -> Nat]]
<1>1. blits = <<b>> /\ blits' = << >> /\ Head(blits) = b
  BY Queues DEF Coming, CardBlits
<1>2. scratch' = Filled(b[1], b[2], b[3])
  BY <1>1 DEF CardBlits
<1>3. b[1] \in Halves /\ b[2] \in Nat /\ b[3] \in 0 .. RowsPerHalf
  BY DEF Blits
<1>4. Carries(scratch', b) /\ scratch' \in [Halves -> [0 .. RowsPerHalf - 1 -> Nat]]
  BY <1>2, <1>3, FilledRight DEF Numbers, Carries
<1> QED BY <1>1, <1>4 DEF Coming

\* And of two, the one that is first; the other half stays as it is.
LEMMA CardFillsBoth ==
  ASSUME Numbers, transfer # "upload", CardBlits, NEW a \in Blits, NEW b \in Blits, ComingBoth(blits, scratch, a, b)
  PROVE  ComingBoth(blits', scratch', a, b) /\ scratch' \in [Halves -> [0 .. RowsPerHalf - 1 -> Nat]]
<1>1. a[1] \in Halves /\ a[2] \in Nat /\ a[3] \in 0 .. RowsPerHalf /\ b[1] \in Halves /\ b[2] \in Nat /\ b[3] \in 0 .. RowsPerHalf
  BY DEF Blits
<1>2. a[1] = 1 - b[1]
  BY DEF ComingBoth
<1>3. CASE blits = <<a, b>>
  <2>1. Head(blits) = a /\ blits' = <<b>>
    BY <1>3, Queues DEF CardBlits
  <2>2. scratch' = Filled(a[1], a[2], a[3])
    BY <2>1 DEF CardBlits
  <2>3. Carries(scratch', a) /\ scratch' \in [Halves -> [0 .. RowsPerHalf - 1 -> Nat]]
    BY <1>1, <2>2, FilledRight DEF Numbers, Carries
  <2> QED BY <1>2, <2>1, <2>3 DEF ComingBoth, Coming
<1>4. CASE Carries(scratch, a) /\ Coming(blits, scratch, b)
  <2>1. blits = <<b>> /\ Head(blits) = b
    BY <1>4, Queues DEF Coming, CardBlits
  <2>2. scratch' = Filled(b[1], b[2], b[3])
    BY <2>1 DEF CardBlits
  <2>3. scratch'[a[1]] = scratch[a[1]]
    BY <1>1, <1>2, <2>2, FilledRight DEF Numbers
  <2>4. Carries(scratch', a)
    BY <1>4, <2>3, HoldsStill DEF Carries
  <2>5. Coming(blits', scratch', b) /\ scratch' \in [Halves -> [0 .. RowsPerHalf - 1 -> Nat]]
    BY <1>4, CardFills
  <2> QED BY <1>2, <2>4, <2>5 DEF ComingBoth
<1> QED BY <1>3, <1>4 DEF ComingBoth

\* LoopDownload: the next blit goes to the half that was copied out.
LEMMA LoopDownloadRight ==
  ASSUME Numbers, Downloading, LoopDownload
  PROVE  Numbers' /\ Downloading'
<1>1. DownloadLoop
  BY DEF Downloading, DownloadLoop, DownloadWait, DownloadDone, LoopDownload
<1>2. /\ h \in Nat /\ h > 0 /\ hpass \in 0 .. RowsPerHalf /\ half \in Halves /\ 1 - half \in Halves
      /\ y \in Nat /\ cpu \in Nat /\ half = 1 - (1 - half) /\ height \in 0 .. MaxRows
  BY DEF Numbers, LoopDownload, Halves
<1>3. hpass <= h /\ hpass > 0
  BY <1>2, LeastRight DEF Downloading
<1>4. h' = h - hpass /\ h' \in Nat /\ y' = y + hpass /\ y' \in Nat /\ oldhpass' = hpass /\ hpass' = Least(h', RowsPerHalf)
  BY <1>2, <1>3, RowsAssumption DEF LoopDownload
<1>5. hpass' \in 0 .. RowsPerHalf /\ (hpass' = 0 <=> h' = 0)
  BY <1>4, LeastRight
<1>6. stage' = "idle" /\ UNCHANGED <<height, cpu, scratch, landed>>
  BY DEF LoopDownload
<1>7. y' + h' = height /\ cpu + oldhpass' = y'
  <2>1. cpu = y /\ y + h = height
    BY <1>1 DEF Downloading, DownloadLoop
  <2> QED BY <1>2, <1>4, <2>1, RowsAssumption
<1>8. PICK a \in Blits : a = <<half, cpu, oldhpass'>> /\ a[1] = half /\ Coming(blits, scratch, a)
  BY <1>1, <1>2, <1>4 DEF DownloadLoop, Coming
<1>9. CASE hpass' > 0
  <2>1. half' = 1 - half /\ half' \in Halves /\ a = <<1 - half', cpu, oldhpass'>>
    BY <1>2, <1>8, <1>9 DEF LoopDownload
  <2>2. PICK b \in Blits : b = <<half', y', hpass'>> /\ b[1] = half'
    <3>1. <<half', y', hpass'>> \in Blits
      BY <1>4, <1>5, <2>1 DEF Blits
    <3> QED BY <3>1
  <2>3. blits' = Append(blits, b)
    BY <1>9, <2>2 DEF LoopDownload
  <2>4. a[1] = 1 - b[1]
    BY <1>2, <1>8, <2>1, <2>2
  <2>5. ComingBoth(blits', scratch, a, b)
    <3>1. CASE blits = <<a>>
      BY <2>3, <2>4, <3>1, Queues DEF ComingBoth
    <3>2. CASE blits = << >> /\ Carries(scratch, a)
      BY <2>3, <2>4, <3>2, Queues DEF ComingBoth, Coming
    <3> QED BY <1>8, <3>1, <3>2 DEF Coming
  <2>6. h' > 0
    BY <1>4, <1>5, <1>9
  <2>7. DownloadWait'
    BY <1>6, <1>7, <2>1, <2>2, <2>5, <2>6 DEF DownloadWait
  <2>8. Numbers'
    BY <1>2, <1>4, <1>5, <1>6, <2>1 DEF Numbers
  <2>9. Landed(landed', cpu')
    BY <1>6 DEF Downloading
  <2> QED BY <1>4, <1>6, <1>7, <2>7, <2>8, <2>9 DEF Downloading
<1>10. CASE hpass' = 0
  <2>1. half' = half /\ blits' = blits /\ h' = 0
    BY <1>5, <1>10 DEF LoopDownload
  <2>2. DownloadWait'
    BY <1>6, <1>7, <1>8, <2>1 DEF DownloadWait
  <2>3. Numbers'
    BY <1>2, <1>4, <1>5, <1>6, <2>1 DEF Numbers
  <2>4. Landed(landed', cpu')
    BY <1>6 DEF Downloading
  <2> QED BY <1>4, <1>6, <1>7, <2>2, <2>3, <2>4 DEF Downloading
<1> QED BY <1>5, <1>9, <1>10, RowsAssumption

\* WaitForHalf: both halves hold their rows then.
LEMMA WaitDownloadRight ==
  ASSUME Numbers, Downloading, transfer = "download", WaitForHalf, ~gaveUpIdle'
  PROVE  Numbers' /\ Downloading'
<1>1. DownloadWait
  BY DEF Downloading, DownloadLoop, DownloadWait, DownloadDone, WaitForHalf
<1>2. blits = << >> /\ UNCHANGED blits /\ stage' = "copy"
  BY DEF WaitForHalf
<1>3. UNCHANGED <<height, h, hpass, oldhpass, half, y, cpu, scratch, landed>>
  BY DEF WaitForHalf
<1>4. DownloadWait'
  BY <1>1, <1>2, <1>3 DEF DownloadWait
<1>5. Numbers'
  BY <1>3 DEF Numbers
<1> QED BY <1>2, <1>3, <1>4, <1>5 DEF Downloading

\* FetchHalf: the rows of the blit before this one arrive.
LEMMA FetchHalfRight ==
  ASSUME Numbers, Downloading, transfer = "download", FetchHalf
  PROVE  Numbers' /\ Downloading'
<1>1. DownloadWait /\ stage = "copy"
  BY DEF Downloading, DownloadLoop, DownloadWait, DownloadDone, FetchHalf
<1>2. /\ h \in Nat /\ hpass \in 0 .. RowsPerHalf /\ oldhpass \in 0 .. RowsPerHalf /\ half \in Halves
      /\ y \in Nat /\ cpu \in Nat /\ height \in 0 .. MaxRows
  BY DEF Numbers
<1>3. blits = << >> /\ cpu + oldhpass = y /\ y + h = height /\ (hpass = 0 <=> h = 0)
  BY <1>1, <1>2, LeastRight DEF DownloadWait, Downloading
<1>4. cpu' = cpu + oldhpass /\ stage' = "loop" /\ UNCHANGED <<height, h, hpass, oldhpass, half, y, scratch, blits>>
  BY DEF FetchHalf
<1>5. /\ HalfHolds(scratch, Fetched, cpu, oldhpass)
      /\ IF h > 0 THEN Coming(blits, scratch, <<half, y, hpass>>) ELSE blits = << >>
  <2>1. CASE h > 0
    <3>1. ComingBoth(blits, scratch, <<1 - half, cpu, oldhpass>>, <<half, y, hpass>>)
      BY <1>1, <2>1 DEF DownloadWait
    <3>2. Carries(scratch, <<1 - half, cpu, oldhpass>>) /\ Coming(blits, scratch, <<half, y, hpass>>)
      BY <1>3, <3>1 DEF ComingBoth
    <3>3. Fetched = 1 - half
      BY <1>2, <1>3, <2>1 DEF Fetched
    <3> QED BY <2>1, <3>2, <3>3 DEF Carries
  <2>2. CASE h = 0
    <3>1. Coming(blits, scratch, <<half, cpu, oldhpass>>)
      BY <1>1, <2>2 DEF DownloadWait
    <3>2. Carries(scratch, <<half, cpu, oldhpass>>)
      BY <1>3, <3>1 DEF Coming
    <3>3. Fetched = half
      BY <1>3, <2>2 DEF Fetched
    <3> QED BY <1>3, <2>2, <3>2, <3>3 DEF Carries
  <2> QED BY <1>2, <2>1, <2>2
<1>6. Landed(landed', cpu + oldhpass)
  <2>1. cpu + oldhpass <= MaxRows
    BY <1>2, <1>3, RowsAssumption
  <2>2. landed' = [r \in DOMAIN landed |-> IF r - cpu \in 0 .. oldhpass - 1 THEN scratch[Fetched][r - cpu] ELSE landed[r]]
    BY DEF FetchHalf
  <2>3. Landed(landed, cpu)
    BY DEF Downloading
  <2> QED BY <1>2, <1>5, <2>1, <2>2, <2>3, Arrived
<1>7. DownloadLoop'
  BY <1>3, <1>4, <1>5 DEF DownloadLoop
<1>8. Numbers'
  BY <1>2, <1>3, <1>4 DEF Numbers
<1>9. Landed(landed', cpu') /\ y' + h' = height' /\ hpass' = Least(h', RowsPerHalf)
  BY <1>3, <1>4, <1>6 DEF Downloading
<1> QED BY <1>7, <1>8, <1>9 DEF Downloading

\* EndTransfer: all rows have been copied out.
LEMMA EndDownloadRight ==
  ASSUME Numbers, Downloading, EndTransfer
  PROVE  Numbers' /\ Downloading'
<1>1. DownloadLoop
  BY DEF Downloading, DownloadLoop, DownloadWait, DownloadDone, EndTransfer
<1>2. h = 0 /\ stage' = "done" /\ UNCHANGED <<height, h, hpass, oldhpass, half, y, cpu, scratch, blits, landed>>
  BY DEF EndTransfer
<1>3. DownloadDone'
  BY <1>1, <1>2 DEF DownloadLoop, DownloadDone
<1>4. Numbers'
  BY <1>2 DEF Numbers
<1> QED BY <1>2, <1>3, <1>4 DEF Downloading

\* CardBlits: the half that is not drawn to stays as it is.
LEMMA CardDownloadsRight ==
  ASSUME Numbers, Downloading, transfer = "download", CardBlits
  PROVE  Numbers' /\ Downloading'
<1>1. blits # << >> /\ UNCHANGED <<stage, height, h, hpass, oldhpass, half, y, cpu, landed>>
  BY DEF CardBlits
<1>2. scratch' \in [Halves -> [0 .. RowsPerHalf - 1 -> Nat]] /\ (DownloadLoop' \/ DownloadWait')
  <2>1. CASE DownloadLoop
    <3>1. h > 0 /\ Coming(blits, scratch, <<half, y, hpass>>)
      BY <1>1, <2>1 DEF DownloadLoop
    <3>2. Coming(blits', scratch', <<half, y, hpass>>) /\ scratch' \in [Halves -> [0 .. RowsPerHalf - 1 -> Nat]]
      <4>1. <<half, y, hpass>> \in Blits
        BY <3>1 DEF Coming
      <4> QED BY <3>1, <4>1, CardFills
    <3>3. DownloadLoop'
      BY <1>1, <2>1, <3>1, <3>2 DEF DownloadLoop
    <3> QED BY <3>2, <3>3
  <2>2. CASE DownloadWait /\ h > 0
    <3>1. ComingBoth(blits, scratch, <<1 - half, cpu, oldhpass>>, <<half, y, hpass>>)
      BY <2>2 DEF DownloadWait
    <3>2. /\ ComingBoth(blits', scratch', <<1 - half, cpu, oldhpass>>, <<half, y, hpass>>)
          /\ scratch' \in [Halves -> [0 .. RowsPerHalf - 1 -> Nat]]
      <4>1. <<1 - half, cpu, oldhpass>> \in Blits /\ <<half, y, hpass>> \in Blits
        BY <3>1 DEF ComingBoth
      <4> QED BY <3>1, <4>1, CardFillsBoth
    <3>3. DownloadWait'
      BY <1>1, <2>2, <3>2 DEF DownloadWait
    <3> QED BY <3>2, <3>3
  <2>3. CASE DownloadWait /\ ~(h > 0)
    <3>1. Coming(blits, scratch, <<half, cpu, oldhpass>>)
      BY <2>3 DEF DownloadWait
    <3>2. Coming(blits', scratch', <<half, cpu, oldhpass>>) /\ scratch' \in [Halves -> [0 .. RowsPerHalf - 1 -> Nat]]
      <4>1. <<half, cpu, oldhpass>> \in Blits
        BY <3>1 DEF Coming
      <4> QED BY <3>1, <4>1, CardFills
    <3>3. DownloadWait'
      BY <1>1, <2>3, <3>2 DEF DownloadWait
    <3> QED BY <3>2, <3>3
  <2>4. ~DownloadDone
    BY <1>1 DEF DownloadDone
  <2> QED BY <2>1, <2>2, <2>3, <2>4 DEF Downloading
<1>3. Numbers'
  BY <1>1, <1>2 DEF Numbers
<1>4. Landed(landed', cpu') /\ y' + h' = height' /\ hpass' = Least(h', RowsPerHalf)
  BY <1>1 DEF Downloading
<1> QED BY <1>2, <1>3, <1>4 DEF Downloading
-----------------------------------------------------------------------------
(* Downloads before R600 *)

\* Rows that are counted off what is left and onto what is done.
LEMMA Moving ==
  ASSUME NEW a \in Nat, NEW b \in Nat, NEW n \in Nat, n <= a
  PROVE  a - n \in Nat /\ b + n \in Nat /\ (b + n) + (a - n) = b + a
  OBVIOUS

\* LoopDownloadR5xx: one piece is drawn to the buffer.
LEMMA LoopPiecesRight ==
  ASSUME Numbers, DownloadingPieces, LoopDownloadR5xx
  PROVE  Numbers' /\ DownloadingPieces'
<1>1. PieceLoop
  BY DEF DownloadingPieces, PieceLoop, PieceWait, PieceDone, LoopDownloadR5xx
<1>2. h \in Nat /\ hpass \in 0 .. RowsPerHalf /\ y \in Nat /\ cpu \in Nat /\ height \in 0 .. MaxRows
  BY DEF Numbers
<1>0. half = 0 /\ half \in Halves
  BY DEF Numbers, DownloadingPieces
<1>3. hpass' \in 0 .. RowsPerHalf /\ hpass' <= h
  <2>1. hpass' = Least(h, hpass)
    BY DEF LoopDownloadR5xx
  <2> QED BY <1>2, <2>1, RowsAssumption DEF Least
<1>4. /\ oldhpass' = hpass' /\ y' = y + hpass' /\ h' = h - hpass' /\ stage' = "idle"
      /\ blits' = Append(blits, <<0, y, hpass'>>) /\ UNCHANGED <<height, half, cpu, scratch, landed>>
  BY DEF LoopDownloadR5xx
<1>5. hpass' \in Nat
  BY <1>3, RowsAssumption
<1>6. cpu = y /\ blits = << >> /\ y + h = height
  BY <1>1 DEF PieceLoop, DownloadingPieces
<1>7. y' \in Nat /\ h' \in Nat /\ y' + h' = height /\ cpu + oldhpass' = y'
  BY <1>2, <1>3, <1>4, <1>5, <1>6, Moving
<1>8. Coming(blits', scratch, <<0, cpu, oldhpass'>>)
  <2>1. <<0, cpu, oldhpass'>> \in Blits
    BY <1>2, <1>3, <1>4 DEF Blits, Halves
  <2>2. blits' = <<<<0, cpu, oldhpass'>>>>
    BY <1>4, <1>6, <2>1, Queues
  <2> QED BY <2>1, <2>2 DEF Coming
<1>9. PieceWait'
  BY <1>4, <1>7, <1>8 DEF PieceWait
<1>10. Numbers'
  BY <1>0, <1>2, <1>3, <1>4, <1>7 DEF Numbers
<1>11. half' = 0 /\ Landed(landed', cpu') /\ y' + h' = height'
  BY <1>0, <1>4, <1>7 DEF DownloadingPieces
<1> QED BY <1>9, <1>10, <1>11 DEF DownloadingPieces

\* WaitForHalf: the buffer holds the piece then.
LEMMA WaitPieceRight ==
  ASSUME Numbers, DownloadingPieces, transfer = "downloadR5xx", WaitForHalf, ~gaveUpIdle'
  PROVE  Numbers' /\ DownloadingPieces'
<1>1. PieceWait
  BY DEF DownloadingPieces, PieceLoop, PieceWait, PieceDone, WaitForHalf
<1>2. blits = << >> /\ UNCHANGED blits /\ stage' = "copy"
  BY DEF WaitForHalf
<1>3. UNCHANGED <<height, h, hpass, oldhpass, half, y, cpu, scratch, landed>>
  BY DEF WaitForHalf
<1>4. PieceWait'
  BY <1>1, <1>2, <1>3 DEF PieceWait
<1>5. Numbers'
  BY <1>3 DEF Numbers
<1> QED BY <1>2, <1>3, <1>4, <1>5 DEF DownloadingPieces

\* FetchHalf: the piece arrives.
LEMMA FetchPieceRight ==
  ASSUME Numbers, DownloadingPieces, transfer = "downloadR5xx", FetchHalf
  PROVE  Numbers' /\ DownloadingPieces'
<1>1. PieceWait /\ stage = "copy"
  BY DEF DownloadingPieces, PieceLoop, PieceWait, PieceDone, FetchHalf
<1>2. h \in Nat /\ oldhpass \in 0 .. RowsPerHalf /\ y \in Nat /\ cpu \in Nat /\ height \in 0 .. MaxRows
  BY DEF Numbers
<1>0. half = 0
  BY DEF DownloadingPieces
<1>3. blits = << >> /\ cpu + oldhpass = y /\ y + h = height /\ Coming(blits, scratch, <<0, cpu, oldhpass>>)
  BY <1>1 DEF PieceWait, DownloadingPieces
<1>4. cpu' = cpu + oldhpass /\ stage' = "loop" /\ UNCHANGED <<height, h, hpass, oldhpass, half, y, scratch, blits>>
  BY DEF FetchHalf
<1>5. HalfHolds(scratch, Fetched, cpu, oldhpass)
  <2>1. Carries(scratch, <<0, cpu, oldhpass>>)
    BY <1>3 DEF Coming
  <2>2. Fetched = 0
    BY <1>0 DEF Fetched
  <2> QED BY <2>1, <2>2 DEF Carries
<1>6. Landed(landed', cpu + oldhpass)
  <2>1. cpu + oldhpass <= MaxRows
    <3>1. cpu + oldhpass = y /\ y + h = height
      BY <1>3
    <3>2. height <= MaxRows /\ MaxRows \in Nat /\ height \in Nat
      BY <1>2, RowsAssumption
    <3> QED BY <1>2, <3>1, <3>2
  <2>2. landed' = [r \in DOMAIN landed |-> IF r - cpu \in 0 .. oldhpass - 1 THEN scratch[Fetched][r - cpu] ELSE landed[r]]
    BY DEF FetchHalf
  <2>3. Landed(landed, cpu)
    BY DEF DownloadingPieces
  <2> QED BY <1>2, <1>5, <2>1, <2>2, <2>3, Arrived
<1>7. PieceLoop'
  BY <1>3, <1>4 DEF PieceLoop
<1>8. Numbers'
  BY <1>2, <1>3, <1>4 DEF Numbers
<1>9. half' = 0 /\ Landed(landed', cpu') /\ y' + h' = height'
  BY <1>0, <1>3, <1>4, <1>6
<1> QED BY <1>7, <1>8, <1>9 DEF DownloadingPieces

\* EndTransfer: all pieces have arrived.
LEMMA EndPiecesRight ==
  ASSUME Numbers, DownloadingPieces, EndTransfer
  PROVE  Numbers' /\ DownloadingPieces'
<1>1. PieceLoop
  BY DEF DownloadingPieces, PieceLoop, PieceWait, PieceDone, EndTransfer
<1>2. h = 0 /\ stage' = "done" /\ UNCHANGED <<height, h, hpass, oldhpass, half, y, cpu, scratch, blits, landed>>
  BY DEF EndTransfer
<1>3. PieceDone'
  BY <1>1, <1>2 DEF PieceLoop, PieceDone
<1>4. Numbers'
  BY <1>2 DEF Numbers
<1> QED BY <1>2, <1>3, <1>4 DEF DownloadingPieces

\* CardBlits: the piece comes to the buffer.
LEMMA CardPieceRight ==
  ASSUME Numbers, DownloadingPieces, transfer = "downloadR5xx", CardBlits
  PROVE  Numbers' /\ DownloadingPieces'
<1>1. blits # << >> /\ UNCHANGED <<stage, height, h, hpass, oldhpass, half, y, cpu, landed>>
  BY DEF CardBlits
<1>2. PieceWait
  BY <1>1 DEF DownloadingPieces, PieceLoop, PieceDone
<1>3. Coming(blits', scratch', <<0, cpu, oldhpass>>) /\ scratch' \in [Halves -> [0 .. RowsPerHalf - 1 -> Nat]]
  <2>1. Coming(blits, scratch, <<0, cpu, oldhpass>>)
    BY <1>2 DEF PieceWait
  <2>2. <<0, cpu, oldhpass>> \in Blits
    BY <2>1 DEF Coming
  <2> QED BY <2>1, <2>2, CardFills
<1>4. PieceWait'
  BY <1>1, <1>2, <1>3 DEF PieceWait
<1>5. Numbers'
  BY <1>1, <1>3 DEF Numbers
<1> QED BY <1>1, <1>4, <1>5 DEF DownloadingPieces
-----------------------------------------------------------------------------
(* Beginning a transfer, and the whole *)

\* TransferInit.
LEMMA InitRight == TransferInit => IInv
<1> SUFFICES ASSUME TransferInit PROVE Numbers /\ Right
  BY DEF IInv
<1>1. scratch \in [Halves -> [0 .. RowsPerHalf - 1 -> Nat]]
  BY DEF TransferInit, Garbage, Halves
<1>2. Numbers
  BY <1>1, RowsAssumption DEF TransferInit, Numbers, Halves
<1>3. Landed(landed, 0)
  BY RowsAssumption DEF TransferInit, Landed, AllRows
<1> QED BY <1>2, <1>3 DEF TransferInit, Right, Waiting

\* What all of them find: nothing has been queued yet.
LEMMA StartRight ==
  ASSUME Numbers, Right, NEW n \in 1 .. MaxRows, StartUpload(n) \/ StartDownload(n) \/ StartDownloadR5xx(n)
  PROVE  Numbers' /\ Right'
<1>1. Waiting
  BY DEF Right, Uploading, UploadLoop, UploadWait, UploadBlit, UploadLast, UploadEnd, Downloading, DownloadLoop,
         DownloadWait, DownloadDone, DownloadingPieces, PieceLoop, PieceWait, PieceDone, StartUpload, StartDownload, StartDownloadR5xx
<1>2. half = 0 /\ y = 0 /\ cpu = 0 /\ blits = << >> /\ Landed(landed, 0)
  BY <1>1 DEF Waiting
<1>3. n \in Nat /\ n > 0 /\ n \in 0 .. MaxRows /\ RowsPerHalf \in Nat /\ RowsPerHalf \in 0 .. RowsPerHalf /\ 0 \in Halves
  BY RowsAssumption DEF Halves
<1>4. /\ Least(n, RowsPerHalf) \in 0 .. RowsPerHalf /\ Least(n, RowsPerHalf) \in Nat
      /\ 0 + n = n /\ 0 + Least(n, RowsPerHalf) = Least(n, RowsPerHalf)
  BY <1>3, LeastRight, RowsAssumption
<1>5. oldhpass \in 0 .. RowsPerHalf /\ scratch \in [Halves -> [0 .. RowsPerHalf - 1 -> Nat]]
  BY DEF Numbers
<1>6. CASE StartUpload(n)
  <2>1. /\ transfer' = "upload" /\ height' = n /\ h' = n /\ hpass' = Least(n, RowsPerHalf) /\ stage' = "loop" /\ cpu' = hpass'
        /\ UNCHANGED <<oldhpass, half, y, blits, landed>>
    BY <1>6 DEF StartUpload
  <2>2. scratch' = Filled(0, 0, hpass')
    BY <1>6 DEF StartUpload
  <2>3. scratch' \in [Halves -> [0 .. RowsPerHalf - 1 -> Nat]] /\ HalfHolds(scratch', 0, 0, hpass')
    BY <1>3, <1>4, <1>5, <2>1, <2>2, FilledRight
  <2>4. UploadLoop'
    BY <1>2, <1>4, <2>1, <2>3 DEF UploadLoop, OneFrom
  <2>5. Sent(blits', scratch', landed', y')
    BY <1>2, <2>1 DEF Sent
  <2>6. Numbers'
    BY <1>2, <1>3, <1>4, <1>5, <2>1, <2>3 DEF Numbers
  <2>7. Uploading'
    BY <2>1, <2>4, <2>5 DEF Uploading
  <2> QED BY <2>1, <2>6, <2>7 DEF Right
<1>7. CASE StartDownload(n)
  <2>1. /\ transfer' = "download" /\ height' = n /\ h' = n /\ hpass' = Least(n, RowsPerHalf) /\ stage' = "loop"
        /\ blits' = Append(blits, <<0, 0, hpass'>>) /\ UNCHANGED <<oldhpass, half, y, cpu, scratch, landed>>
    BY <1>7 DEF StartDownload
  <2>2. Coming(blits', scratch', <<half', y', hpass'>>)
    <3>1. <<0, 0, hpass'>> \in Blits
      BY <1>3, <1>4, <2>1 DEF Blits
    <3>2. blits' = <<<<0, 0, hpass'>>>>
      BY <1>2, <2>1, <3>1, Queues
    <3> QED BY <1>2, <2>1, <3>1, <3>2 DEF Coming
  <2>3. DownloadLoop'
    BY <1>2, <1>3, <2>1, <2>2 DEF DownloadLoop
  <2>4. Numbers'
    BY <1>2, <1>3, <1>4, <1>5, <2>1 DEF Numbers
  <2>5. Downloading'
    BY <1>2, <1>4, <2>1, <2>3 DEF Downloading
  <2> QED BY <2>1, <2>4, <2>5 DEF Right
<1>8. CASE StartDownloadR5xx(n)
  <2>1. /\ transfer' = "downloadR5xx" /\ height' = n /\ h' = n /\ hpass' = RowsPerHalf /\ stage' = "loop"
        /\ UNCHANGED <<oldhpass, half, y, cpu, scratch, blits, landed>>
    BY <1>8 DEF StartDownloadR5xx
  <2>2. PieceLoop'
    BY <1>2, <2>1 DEF PieceLoop
  <2>3. Numbers'
    BY <1>2, <1>3, <1>5, <2>1 DEF Numbers
  <2>4. DownloadingPieces'
    BY <1>2, <1>4, <2>1, <2>2 DEF DownloadingPieces
  <2> QED BY <2>1, <2>3, <2>4 DEF Right
<1> QED BY <1>6, <1>7, <1>8

\* One that has been begun goes on as its kind does.
LEMMA TransferStepRight ==
  ASSUME IInv, [TransferNext]_transferVars
  PROVE  IInv'
<1>1. gaveUpIdle => gaveUpIdle'
  BY DEF TransferNext, transferVars, StartUpload, StartDownload, StartDownloadR5xx, LoopUpload, LoopDownload, LoopDownloadR5xx,
         WaitForHalf, FillHalf, BlitHalf, FetchHalf, EndTransfer, CardBlits
<1> SUFFICES ASSUME ~gaveUpIdle' PROVE Numbers' /\ Right'
  BY DEF IInv
<1>2. Numbers /\ Right
  BY <1>1 DEF IInv
<1>3. CASE \E n \in 1 .. MaxRows : StartUpload(n) \/ StartDownload(n) \/ StartDownloadR5xx(n)
  BY <1>2, <1>3, StartRight
<1>4. CASE LoopUpload
  <2>1. transfer = "upload" /\ transfer' = "upload"
    BY <1>4 DEF LoopUpload
  <2> QED BY <1>2, <1>4, <2>1, LoopUploadRight DEF Right
<1>5. CASE LoopDownload
  <2>1. transfer = "download" /\ transfer' = "download"
    BY <1>5 DEF LoopDownload
  <2> QED BY <1>2, <1>5, <2>1, LoopDownloadRight DEF Right
<1>6. CASE LoopDownloadR5xx
  <2>1. transfer = "downloadR5xx" /\ transfer' = "downloadR5xx"
    BY <1>6 DEF LoopDownloadR5xx
  <2> QED BY <1>2, <1>6, <2>1, LoopPiecesRight DEF Right
<1>7. CASE WaitForHalf
  <2>1. transfer' = transfer /\ stage = "idle"
    BY <1>7 DEF WaitForHalf
  <2> QED BY <1>2, <1>7, <2>1, WaitUploadRight, WaitDownloadRight, WaitPieceRight DEF Right, Waiting
<1>8. CASE FillHalf
  <2>1. transfer = "upload" /\ transfer' = "upload"
    BY <1>8 DEF FillHalf
  <2> QED BY <1>2, <1>8, <2>1, FillHalfRight DEF Right
<1>9. CASE BlitHalf
  <2>1. transfer = "upload" /\ transfer' = "upload"
    BY <1>9 DEF BlitHalf
  <2> QED BY <1>2, <1>9, <2>1, BlitHalfRight DEF Right
<1>10. CASE FetchHalf
  <2>1. transfer' = transfer /\ transfer \in {"download", "downloadR5xx"}
    BY <1>10 DEF FetchHalf
  <2> QED BY <1>2, <1>10, <2>1, FetchHalfRight, FetchPieceRight DEF Right
<1>11. CASE EndTransfer
  <2>1. transfer' = transfer /\ stage = "loop"
    BY <1>11 DEF EndTransfer
  <2> QED BY <1>2, <1>11, <2>1, EndUploadRight, EndDownloadRight, EndPiecesRight DEF Right, Waiting
<1>12. CASE CardBlits
  <2>1. transfer' = transfer /\ blits # << >>
    BY <1>12 DEF CardBlits
  <2> QED BY <1>2, <1>12, <2>1, CardUploadsRight, CardDownloadsRight, CardPieceRight DEF Right, Waiting
<1>13. CASE UNCHANGED transferVars
  BY <1>2, <1>13 DEF transferVars, Numbers, Right, Uploading, UploadLoop, UploadWait, UploadBlit, UploadLast, UploadEnd,
     Downloading, DownloadLoop, DownloadWait, DownloadDone, DownloadingPieces, PieceLoop, PieceWait, PieceDone, Waiting
<1> QED BY <1>3, <1>4, <1>5, <1>6, <1>7, <1>8, <1>9, <1>10, <1>11, <1>12, <1>13 DEF TransferNext

\* When it is over, all rows have arrived.
LEMMA TransferOver == IInv => TransfersRight
<1> SUFFICES ASSUME Numbers, Right, stage = "done", blits = << >>, NEW r \in DOMAIN landed
             PROVE  landed[r] = IF r < height THEN r + 1 ELSE 0
  BY DEF IInv, TransfersRight
<1>1. CASE transfer = "upload" /\ Uploading
  <2>1. y = height
    BY <1>1 DEF Uploading, UploadLoop, UploadWait, UploadBlit, UploadLast, UploadEnd
  <2>2. Landed(landed, y)
    BY <1>1 DEF Uploading, Sent
  <2> QED BY <2>1, <2>2 DEF Landed
<1>2. CASE transfer = "download" /\ Downloading
  <2>1. h = 0 /\ cpu = y /\ y + h = height /\ Landed(landed, cpu)
    BY <1>2 DEF Downloading, DownloadLoop, DownloadWait, DownloadDone
  <2>2. cpu = height
    BY <2>1 DEF Numbers
  <2> QED BY <2>1, <2>2 DEF Landed
<1>3. CASE transfer = "downloadR5xx" /\ DownloadingPieces
  <2>1. h = 0 /\ cpu = y /\ y + h = height /\ Landed(landed, cpu)
    BY <1>3 DEF DownloadingPieces, PieceLoop, PieceWait, PieceDone
  <2>2. cpu = height
    BY <2>1 DEF Numbers
  <2> QED BY <2>1, <2>2 DEF Landed
<1> QED BY <1>1, <1>2, <1>3 DEF Right, Waiting

\* Each row of a transfer of any height, through a buffer of any size, ends
\* where it belongs and none ends anywhere else, unless a wait for the card was
\* given up (R600CopyToVRAM, R600DownloadFromScreen, R5xxEXADownloadFromScreenCP).
THEOREM TransfersHold == TransferSpec => []TransfersRight
<1>1. TransferInit => IInv
  BY InitRight
<1>2. IInv /\ [TransferNext]_transferVars => IInv'
  BY TransferStepRight
<1>3. IInv => TransfersRight
  BY TransferOver
<1> QED BY <1>1, <1>2, <1>3, PTL DEF TransferSpec
-----------------------------------------------------------------------------

(***************************************************************************)
(* Frames.  An image's geometry (ImageOK) and where a buffer's frame begins*)
(* (Placed) are all that a port's history leaves: with them the layouts of *)
(* the copies are compared with those of the textures as sums of products, *)
(* which the first lemmas are about.                                       *)
(***************************************************************************)

ImageOK(c, image) ==
  /\ image.format \in Planar \union Packed
  /\ image.w \in Nat /\ 2 <= image.w /\ image.w <= c.side /\ image.w % 2 = 0
  /\ image.h \in Nat /\ 1 <= image.h /\ image.h <= c.side
  /\ image.format \in Planar => image.h % 2 = 0
-----------------------------------------------------------------------------
(* Numbers *)

\* What is aligned is a multiple at or above.
LEMMA Align256 ==
  ASSUME NEW x \in Nat
  PROVE  Align(x, 256) \in Nat /\ x <= Align(x, 256) /\ Align(x, 256) < x + 256 /\ Align(x, 256) % 256 = 0
  BY DEF Align

LEMMA Align64 ==
  ASSUME NEW x \in Nat
  PROVE  Align(x, 64) \in Nat /\ x <= Align(x, 64) /\ Align(x, 64) < x + 64 /\ Align(x, 64) % 64 = 0
  BY DEF Align

LEMMA Align4 ==
  ASSUME NEW x \in Nat
  PROVE  Align(x, 4) \in Nat /\ x <= Align(x, 4) /\ Align(x, 4) < x + 4 /\ Align(x, 4) % 4 = 0
  BY DEF Align

LEMMA AlignChunk ==
  ASSUME NEW x \in Nat
  PROVE  Chunk(x) \in Nat /\ x <= Chunk(x) /\ Chunk(x) < x + 4096 /\ Chunk(x) % 4096 = 0
  BY DEF Chunk, Align

\* What is aligned already stays.
LEMMA Aligned256 ==
  ASSUME NEW x \in Nat, x % 256 = 0
  PROVE  Align(x, 256) = x
  BY DEF Align

LEMMA ScanoutRight ==
  ASSUME NEW c \in Adapters
  PROVE  Scanout(c) \in {0, 32768}
  BY DEF Scanout, Chunk, Align

LEMMA TimesNat == ASSUME NEW x \in Nat, NEW row \in Nat PROVE x * row \in Nat
  OBVIOUS

LEMMA TimesAbove ==
  ASSUME NEW x \in Nat, NEW row \in Nat, NEW z \in Nat, x <= row
  PROVE  x * z <= row * z /\ z * x <= z * row
  OBVIOUS

\* A multiple's multiples.
LEMMA TimesEven ==
  ASSUME NEW a \in Nat, NEW b \in Nat, b % 2 = 0
  PROVE  a * b = 2 * (a * (b \div 2)) /\ a * (b \div 2) \in Nat
  <1>1. b = 2 * (b \div 2) /\ b \div 2 \in Nat
    OBVIOUS
  <1>2. ASSUME NEW k \in Nat PROVE a * (2 * k) = 2 * (a * k)
    OBVIOUS
  <1>. QED BY <1>1, <1>2, TimesNat

LEMMA Times256 ==
  ASSUME NEW a \in Nat, NEW b \in Nat, a % 256 = 0
  PROVE  (a * b) % 256 = 0 /\ a * b \in Nat
  <1>1. PICK k \in Nat : a = 256 * k
    <2>1. a = 256 * (a \div 256) /\ a \div 256 \in Nat
      OBVIOUS
    <2>. QED BY <2>1
  <1>2. a * b = 256 * (k * b) /\ k * b \in Nat
    BY <1>1, TimesNat
  <1>3. PICK n \in Nat : a * b = 256 * n
    BY <1>2
  <1>. QED BY <1>3

\* The half of a pitch, times half of the lines: a quarter of the product.
LEMMA Quarter ==
  ASSUME NEW p \in Nat, NEW tall \in Nat, p % 256 = 0, tall % 2 = 0
  PROVE  /\ (p \div 2) * (tall \div 2) \in Nat
         /\ 4 * ((p \div 2) * (tall \div 2)) = p * tall
         /\ p * tall \in Nat /\ (p * tall) % 256 = 0
  <1>1. PICK a \in Nat : a = p \div 2 /\ p = 2 * a
    OBVIOUS
  <1>2. PICK b \in Nat : b = tall \div 2 /\ tall = 2 * b
    OBVIOUS
  <1>3. 4 * (a * b) = (2 * a) * (2 * b) /\ a * b \in Nat
    BY TimesNat
  <1>. QED BY <1>1, <1>2, <1>3, Times256, ZenonT(40)

LEMMA Divided ==
  ASSUME NEW row \in Nat, NEW K \in Nat \ {0}
  PROVE  /\ row = K * (row \div K) + (row % K)
         /\ row \div K \in Nat /\ row % K \in Nat /\ row % K < K
  OBVIOUS

LEMMA DividedTwice ==
  ASSUME NEW x \in Nat, NEW w \in Nat \ {0}, 2 * w <= x
  PROVE  x \div w \in Nat /\ 2 <= x \div w
  <1>1. PICK q \in Nat : q = x \div w
    BY Divided
  <1>2. x < w * q + w
    BY <1>1, Divided
  <1>3. CASE q <= 1
    <2>1. w * q <= w * 1
      BY <1>3, TimesAbove
    <2>. QED BY <2>1, <1>2
  <1>. QED BY <1>1, <1>3

\* Lines in passes are lines one after the other.
LEMMA InPasses ==
  ASSUME NEW H \in Nat \ {0}, NEW row \in Nat, NEW p \in Nat
  PROVE  (row \div H) * (H * p) + (row % H) * p = row * p
  <1>1. PICK q \in Nat : q = row \div H
    OBVIOUS
  <1>2. PICK r \in Nat : r = row % H
    OBVIOUS
  <1>3. row = H * q + r
    BY <1>1, <1>2
  <1>4. q * (H * p) + r * p = (H * q + r) * p
    OBVIOUS
  <1>. QED BY <1>1, <1>2, <1>3, <1>4

LEMMA InEvenPasses ==
  ASSUME NEW G \in Nat \ {0}, NEW row \in Nat, NEW p \in Nat
  PROVE  (row \div (2 * G)) * (((2 * G) * p) \div 2) + ((row % (2 * G)) \div 2) * p = (row \div 2) * p
  <1>1. PICK q \in Nat : q = row \div (2 * G)
    OBVIOUS
  <1>2. PICK r \in Nat : r = row % (2 * G)
    OBVIOUS
  <1>3. row = 2 * (G * q) + r /\ G * q \in Nat
    <2>1. PICK K \in Nat \ {0} : K = 2 * G
      OBVIOUS
    <2>2. row = K * q + r
      BY <1>1, <1>2, <2>1, Divided
    <2>3. (2 * G) * q = 2 * (G * q)
      OBVIOUS
    <2>. QED BY <2>1, <2>2, <2>3, TimesNat
  <1>4. row \div 2 = G * q + (r \div 2)
    BY <1>3
  <1>5. ((2 * G) * p) \div 2 = G * p
    <2>1. (2 * G) * p = 2 * (G * p) /\ G * p \in Nat
      BY TimesNat
    <2>. QED BY <2>1
  <1>6. q * (G * p) + (r \div 2) * p = (G * q + (r \div 2)) * p
    OBVIOUS
  <1>. QED BY <1>1, <1>2, <1>4, <1>5, <1>6
-----------------------------------------------------------------------------
(* Images, pitches and passes *)

LEMMA ImageRight ==
  ASSUME NEW c \in Adapters, NEW size \in Sizes
  PROVE  ImageOK(c, QueryImageAttributes(c, size))
  <1>1. c.side \in {2048, 4096, 8192}
    BY AdaptersAssumption
  <1>2. size.format \in Planar \union Packed /\ size.w \in Nat /\ 1 <= size.w /\ size.h \in Nat /\ 1 <= size.h
    BY SizesAssumption
  <1>3. Align(size.w, 2) \in Nat /\ 2 <= Align(size.w, 2) /\ Align(size.w, 2) % 2 = 0
    <2>1. ASSUME NEW x \in Nat, 1 <= x PROVE Align(x, 2) \in Nat /\ 2 <= Align(x, 2) /\ Align(x, 2) % 2 = 0
      BY <2>1 DEF Align
    <2>. QED BY <2>1, <1>2
  <1>4. ASSUME NEW tall \in Nat, 1 <= tall, tall <= c.side
        PROVE  Align(tall, 2) \in Nat /\ 1 <= Align(tall, 2) /\ Align(tall, 2) <= c.side /\ Align(tall, 2) % 2 = 0
    BY <1>1, <1>4 DEF Align
  <1>5. Lesser(size.h, c.side) \in Nat /\ 1 <= Lesser(size.h, c.side) /\ Lesser(size.h, c.side) <= c.side
    BY <1>1, <1>2 DEF Lesser
  <1>6. LET w == Lesser(Align(size.w, 2), c.side) IN w \in Nat /\ 2 <= w /\ w <= c.side /\ w % 2 = 0
    BY <1>1, <1>3 DEF Lesser
  <1>. QED BY <1>2, <1>4, <1>5, <1>6 DEF ImageOK, QueryImageAttributes

\* The driver takes the planes from where it has told the client to put them.
LEMMA TakenAsAsked ==
  ASSUME NEW c \in Adapters, NEW image, ImageOK(c, image)
  PROVE  /\ Taken(image) = Attributes(image)
         /\ \A n \in PlanesOf(image) : Taken(image)[n].at \in Nat /\ Taken(image)[n].pitch \in Nat
  <1>. DEFINE w == image.w
              tall == image.h
              p == Align(w, 4)
              q == Align(w \div 2, 4)
  <1>1. w \in Nat /\ tall \in Nat
    BY DEF ImageOK
  <1>2. p \in Nat /\ q \in Nat /\ q % 2 = 0
    <2>1. w \div 2 \in Nat
      BY <1>1
    <2>2. p \in Nat
      BY <1>1, Align4
    <2>3. q \in Nat /\ q % 4 = 0
      BY <2>1, Align4
    <2>. QED BY <2>2, <2>3
  <1>3. CASE image.format \in Planar
    <2>1. tall % 2 = 0
      BY <1>3 DEF ImageOK
    <2>. HIDE DEF w, tall, p, q
    <2>2. tall * p = p * tall /\ p * tall \in Nat
      BY <1>1, <1>2, TimesNat
    <2>3. tall * (p + (q \div 2)) = p * tall + q * (tall \div 2) /\ p * tall + q * (tall \div 2) \in Nat
      <3>1. PICK a \in Nat : a = q \div 2 /\ q = 2 * a
        BY <1>2
      <3>2. PICK b \in Nat : b = tall \div 2 /\ tall = 2 * b
        BY <1>1, <2>1
      <3>3. (2 * b) * (p + a) = p * (2 * b) + (2 * a) * b
        BY <1>2
      <3>4. q * (tall \div 2) \in Nat
        BY <1>2, <3>2, TimesNat
      <3>. QED BY <3>1, <3>2, <3>3, <3>4, <2>2
    <2>4. Taken(image) = Ordered(image.format, <<[at |-> 0, pitch |-> p], [at |-> p * tall, pitch |-> q],
                                                 [at |-> p * tall + q * (tall \div 2), pitch |-> q]>>)
      BY <1>3 DEF Taken, w, tall, p, q
    <2>5. Attributes(image) = Ordered(image.format, <<[at |-> 0, pitch |-> p], [at |-> tall * p, pitch |-> q],
                                                 [at |-> tall * (p + (q \div 2)), pitch |-> q]>>)
      BY <1>3 DEF Attributes, w, tall, p, q
    <2>6. Taken(image) = Attributes(image)
      BY <2>2, <2>3, <2>4, <2>5
    <2>7. PlanesOf(image) = {"Y", "U", "V"}
      BY <1>3 DEF PlanesOf
    <2>8. \A n \in {"Y", "U", "V"} : Taken(image)[n].at \in Nat /\ Taken(image)[n].pitch \in Nat
      BY <2>2, <2>3, <2>4, <1>2 DEF Ordered
    <2>. QED BY <2>6, <2>7, <2>8
  <1>4. CASE image.format \notin Planar
    <2>1. Taken(image) = [YUV |-> [at |-> 0, pitch |-> 2 * w]]
      BY <1>4 DEF Taken
    <2>2. Attributes(image) = [YUV |-> [at |-> 0, pitch |-> 2 * w]]
      BY <1>4 DEF Attributes
    <2>3. PlanesOf(image) = {"YUV"}
      BY <1>4 DEF PlanesOf
    <2>. QED BY <2>1, <2>2, <2>3, <1>1
  <1>. QED BY <1>3, <1>4

\* The lines of the client, written out.
LEMMA ClientLines ==
  ASSUME NEW c \in Adapters, NEW image, ImageOK(c, image), NEW planes, planes \subseteq PlanesOf(image), NEW row
  PROVE  ClientLine(image, planes, row) =
           [n \in planes |-> Taken(image)[n].at +
              (IF n \in {"U", "V"} /\ planes # {n} THEN row \div 2 ELSE row) * Taken(image)[n].pitch]
  BY TakenAsAsked DEF ClientLine

\* A pass has lines, and of a planar image an even number.
LEMMA Passes ==
  ASSUME NEW w \in Nat, 2 <= w, w <= 4096
  PROVE  /\ PackedPass(w) \in Nat \ {0}
         /\ \E G \in Nat \ {0} : PlanarPass(w) = 2 * G
  <1>1. CommandWords \in Nat /\ CommandWords - 10 >= 4096
    BY CommandWordsAssumption, SMTT(20)
  <1>2. PICK x \in Nat : x = 2 * (CommandWords - 10) /\ 2 * w <= x
    BY <1>1
  <1>3. x \div w \in Nat /\ 2 <= x \div w
    BY <1>2, DividedTwice
  <1>4. PICK z \in Nat : z = (CommandWords - 10) * 4 /\ 2 * (2 * w) <= z
    BY <1>1
  <1>5. z \div (2 * w) \in Nat /\ 2 <= z \div (2 * w)
    <2>1. PICK v \in Nat \ {0} : v = 2 * w
      OBVIOUS
    <2>2. z \div v \in Nat /\ 2 <= z \div v
      BY <2>1, <1>4, DividedTwice
    <2>. QED BY <2>1, <2>2
  <1>6. PlanarPass(w) = ((x \div w) \div 2) * 2
    BY <1>2 DEF PlanarPass
  <1>7. PICK G \in Nat \ {0} : G = (x \div w) \div 2
    BY <1>3
  <1>8. PlanarPass(w) = 2 * G
    BY <1>6, <1>7
  <1>. QED BY <1>4, <1>5, <1>8 DEF PackedPass
LEMMA Pitches ==
  ASSUME NEW c \in Adapters, NEW image, ImageOK(c, image)
  PROVE  LET first == FirstPitch(c, image.w)
             pitch == FramePitch(c, image)
         IN  /\ first \in Nat /\ 64 <= first /\ 2 * image.w <= first
             /\ pitch \in Nat /\ pitch <= first
             /\ image.format \notin Planar => 2 * image.w <= pitch
             /\ ~ c.r600 => pitch = first /\ pitch % 64 = 0
             /\ c.r600 => /\ pitch % 256 = 0 /\ 256 <= pitch
                          /\ Align(image.w, 4) <= pitch
                          /\ Align(image.w \div 2, 4) <= pitch \div 2
  <1>. DEFINE w == image.w
              first == FirstPitch(c, w)
              pitch == FramePitch(c, image)
  <1>1. w \in Nat /\ 2 <= w
    BY DEF ImageOK
  <1>2. first \in Nat /\ 64 <= first /\ 2 * w <= first /\ first % 64 = 0
    <2>1. c.r600 \in BOOLEAN
      BY AdaptersAssumption
    <2>2. Align(2 * w, 256) \in Nat /\ 2 * w <= Align(2 * w, 256) /\ Align(2 * w, 256) % 256 = 0
      BY <1>1, Align256
    <2>3. Align(2 * w, 64) \in Nat /\ 2 * w <= Align(2 * w, 64) /\ Align(2 * w, 64) % 64 = 0
      BY <1>1, Align64
    <2>4. first = Align(2 * w, 256) \/ first = Align(2 * w, 64)
      BY DEF FirstPitch
    <2>. QED BY <1>1, <2>2, <2>3, <2>4
  <1>3. CASE ~ c.r600
    BY <1>2, <1>3 DEF FramePitch
  <1>4. CASE c.r600
    <2>1. first = Align(2 * w, 256) /\ first % 256 = 0
      BY <1>1, <1>4, Align256 DEF FirstPitch
    <2>2. Align(w, 256) \in Nat /\ w <= Align(w, 256) /\ Align(w, 256) % 256 = 0 /\ Align(w, 256) <= first
      <3>1. Align(w, 256) \in Nat /\ w <= Align(w, 256) /\ Align(w, 256) % 256 = 0 /\ Align(w, 256) < w + 256
        BY <1>1, Align256
      <3>. QED BY <3>1, <2>1, <1>2, <1>1
    <2>3. /\ pitch \in Nat /\ pitch <= first /\ pitch % 256 = 0 /\ w <= pitch
          /\ image.format \notin Planar => 2 * w <= pitch
      BY <1>1, <1>2, <2>1, <2>2 DEF FramePitch, Planar
    <2>4. Align(w, 4) <= pitch /\ Align(w \div 2, 4) <= pitch \div 2
      <3>1. w \div 2 \in Nat
        BY <1>1
      <3>2. Align(w, 4) \in Nat /\ Align(w, 4) < w + 4 /\ Align(w, 4) % 4 = 0
        BY <1>1, Align4
      <3>3. Align(w \div 2, 4) \in Nat /\ Align(w \div 2, 4) < (w \div 2) + 4 /\ Align(w \div 2, 4) % 4 = 0
        BY <3>1, Align4
      <3>4. (pitch \div 2) % 4 = 0 /\ w \div 2 <= pitch \div 2
        BY <2>3, <1>1
      <3>. QED BY <3>2, <3>3, <3>4, <2>3, <1>1
    <2>. QED BY <1>1, <1>2, <1>4, <2>3, <2>4
  <1>. QED BY <1>3, <1>4
-----------------------------------------------------------------------------
(* Before R600: one texture *)

LEMMA R5xxLines ==
  ASSUME NEW c \in Adapters, NEW image, ImageOK(c, image), ~ c.r600, NEW row \in Nat
  PROVE  LET passLines == IF image.format \in Planar THEN PlanarPass(image.w) ELSE PackedPass(image.w)
         IN  [n \in PlanesOf(image) |-> IF n \in {"U", "V"} THEN SentColours(Taken(image)[n], passLines, row)
                                                            ELSE SentLine(Taken(image)[n], passLines, row)]
             = ClientLine(image, PlanesOf(image), row)
  <1>. DEFINE passLines == IF image.format \in Planar THEN PlanarPass(image.w) ELSE PackedPass(image.w)
              from == Taken(image)
  <1>1. image.w \in Nat /\ 2 <= image.w /\ image.w <= 4096
    <2>1. c.side \in {2048, 4096, 8192} /\ c.side # 8192
      BY AdaptersAssumption
    <2>. QED BY <2>1 DEF ImageOK
  <1>2. passLines \in Nat \ {0}
    BY <1>1, Passes
  <1>3. ASSUME NEW n \in PlanesOf(image), n \notin {"U", "V"}
        PROVE  SentLine(from[n], passLines, row) = from[n].at + row * from[n].pitch
    <2>. HIDE DEF passLines, from
    <2>1. from[n].at \in Nat /\ from[n].pitch \in Nat
      BY TakenAsAsked DEF from
    <2>2. (row \div passLines) * (passLines * from[n].pitch) + (row % passLines) * from[n].pitch = row * from[n].pitch
      BY <1>2, <2>1, InPasses
    <2>3. (row \div passLines) * (passLines * from[n].pitch) \in Nat /\ (row % passLines) * from[n].pitch \in Nat
      BY <1>2, <2>1, Divided, TimesNat
    <2>. QED BY <2>1, <2>2, <2>3 DEF SentLine
  <1>4. ASSUME NEW n \in PlanesOf(image), n \in {"U", "V"}
        PROVE  SentColours(from[n], passLines, row) = from[n].at + (row \div 2) * from[n].pitch
    <2>1. image.format \in Planar
      BY <1>4 DEF PlanesOf
    <2>2. PICK G \in Nat \ {0} : passLines = 2 * G
      BY <1>1, <2>1, Passes
    <2>. HIDE DEF passLines, from
    <2>3. from[n].at \in Nat /\ from[n].pitch \in Nat
      BY TakenAsAsked DEF from
    <2>4. (row \div (2 * G)) * (((2 * G) * from[n].pitch) \div 2) + ((row % (2 * G)) \div 2) * from[n].pitch
          = (row \div 2) * from[n].pitch
      BY <2>3, InEvenPasses
    <2>5. (row \div passLines) * ((passLines * from[n].pitch) \div 2) + ((row % passLines) \div 2) * from[n].pitch
          = (row \div 2) * from[n].pitch
      BY <2>2, <2>4
    <2>6. (row \div passLines) * ((passLines * from[n].pitch) \div 2) \in Nat /\ ((row % passLines) \div 2) * from[n].pitch \in Nat
      <3>1. row \div passLines \in Nat /\ row % passLines \in Nat /\ passLines * from[n].pitch \in Nat
        BY <1>2, <2>3, Divided, TimesNat
      <3>2. (passLines * from[n].pitch) \div 2 \in Nat /\ (row % passLines) \div 2 \in Nat
        BY <3>1
      <3>. QED BY <3>1, <3>2, <2>3, TimesNat
    <2>. QED BY <2>3, <2>5, <2>6 DEF SentColours
  <1>5. ClientLine(image, PlanesOf(image), row) =
          [n \in PlanesOf(image) |-> from[n].at +
             (IF n \in {"U", "V"} /\ PlanesOf(image) # {n} THEN row \div 2 ELSE row) * from[n].pitch]
    BY ClientLines
  <1>6. \A n \in PlanesOf(image) : n \in {"U", "V"} => PlanesOf(image) # {n}
    BY DEF PlanesOf
  <1>. HIDE DEF passLines, from
  <1>7. [n \in PlanesOf(image) |-> IF n \in {"U", "V"} THEN SentColours(from[n], passLines, row)
                                                      ELSE SentLine(from[n], passLines, row)]
        = ClientLine(image, PlanesOf(image), row)
    BY <1>3, <1>4, <1>5, <1>6
  <1>. QED BY <1>7 DEF passLines, from

LEMMA R5xxWhole ==
  ASSUME NEW c \in Adapters, NEW image, ImageOK(c, image), ~ c.r600, NEW offset \in Nat, offset % 1024 = 0,
         NEW pitch, pitch = FramePitch(c, image)
  PROVE  /\ \A t \in TexturesOf(c, image, offset, pitch) :
              \E r \in Copied(c, image, offset, pitch) : Holds(r, t, image)
         /\ \A r, s \in Copied(c, image, offset, pitch) : r = s
         /\ \A r \in Copied(c, image, offset, pitch) :
              r.at = offset /\ r.pitch = pitch /\ r.width = 2 * image.w /\ r.height = image.h
  <1>. DEFINE passLines == IF image.format \in Planar THEN PlanarPass(image.w) ELSE PackedPass(image.w)
              Sampled(row) == [n \in PlanesOf(image) |-> IF n \in {"U", "V"} THEN SentColours(Taken(image)[n], passLines, row)
                                                                       ELSE SentLine(Taken(image)[n], passLines, row)]
              r == [at |-> offset, pitch |-> pitch, width |-> 2 * image.w, height |-> image.h,
                    lines |-> [row \in 0 .. image.h - 1 |-> Sampled(row)]]
              t == [planes |-> PlanesOf(image), at |-> offset, pitch |-> pitch,
                    width |-> 2 * image.w, height |-> image.h]
  <1>1. pitch \in Nat /\ 2 * image.w <= pitch /\ pitch % 64 = 0
    BY Pitches
  <1>2. (offset \div 1024) * 1024 = offset /\ (pitch \div 64) * 64 = pitch /\ 2 * (pitch \div 2) = pitch
    BY <1>1
  <1>3. Copied(c, image, offset, pitch) = {r}
    BY <1>2 DEF Copied, R5xxCopied, RectangleOf
  <1>4. TexturesOf(c, image, offset, pitch) = {t}
    <2>1. c.side \in {2048, 4096}
      BY AdaptersAssumption
    <2>2. image.w \in Nat /\ image.h \in Nat /\ 1 <= image.w /\ 1 <= image.h /\ image.w <= c.side /\ image.h <= c.side
      BY DEF ImageOK
    <2>3. ((image.w - 1) % (IF c.side = 2048 THEN 2048 ELSE 4096)) + 1 = image.w
      BY <2>1, <2>2
    <2>4. ((image.h - 1) % (IF c.side = 2048 THEN 2048 ELSE 4096)) + 1 = image.h
      BY <2>1, <2>2
    <2>. QED BY <1>2, <2>3, <2>4 DEF TexturesOf, R5xxTextures
  <1>5. Holds(r, t, image)
    <2>1. image.h \in Nat /\ image.w \in Nat
      BY DEF ImageOK
    <2>2. \A row \in 0 .. image.h - 1 : row < image.h /\ Sampled(row) = ClientLine(image, PlanesOf(image), row)
      BY <2>1, R5xxLines
    <2>. HIDE DEF Sampled
    <2>. QED BY <1>1, <2>1, <2>2 DEF Holds
  <1>6. r.at = offset /\ r.pitch = pitch /\ r.width = 2 * image.w /\ r.height = image.h
    OBVIOUS
  <1>. HIDE DEF r, t
  <1>. QED BY <1>3, <1>4, <1>5, <1>6
-----------------------------------------------------------------------------
(* R600 and up: a packed texture, or three planes.  The V begins behind the   *)
(* lines of the Y; the U behind those of the V and at most half a line.       *)

Half(image, pitch) == (pitch \div 2) * (image.h \div 2)
Layout(at, image, pitch) ==
  /\ at.Y = 0 /\ at.V = pitch * image.h /\ at.U \in Nat
  /\ pitch * image.h + Half(image, pitch) <= at.U
  /\ 2 * at.U <= 2 * (pitch * image.h + Half(image, pitch)) + pitch

LEMMA HardwareLayout ==
  ASSUME NEW c \in Adapters, NEW image, ImageOK(c, image), image.format \in Planar, NEW pitch \in Nat,
         pitch % 256 = 0, 256 <= pitch
  PROVE  /\ Layout(HardwarePlanes(image, pitch), image, pitch)
         /\ HardwarePlanes(image, pitch).U % 256 = 0
         /\ HardwarePlanes(image, pitch).V % 256 = 0
  <1>. DEFINE lines == pitch * image.h
              chroma == Half(image, pitch)
  <1>1. image.h \in Nat /\ image.h % 2 = 0
    BY DEF ImageOK
  <1>2. lines \in Nat /\ lines % 256 = 0
    BY <1>1, Times256, ZenonT(40)
  <1>3. chroma \in Nat /\ chroma % 128 = 0
    <2>1. PICK a \in Nat : pitch \div 2 = 128 * a
      <3>1. PICK b \in Nat : pitch = 256 * b
        OBVIOUS
      <3>. QED BY <3>1
    <2>2. PICK b \in Nat : b = image.h \div 2
      BY <1>1
    <2>3. (128 * a) * b = 128 * (a * b) /\ a * b \in Nat
      BY TimesNat
    <2>4. PICK n \in Nat : chroma = 128 * n
      BY <2>1, <2>2, <2>3 DEF Half
    <2>. QED BY <2>4
  <1>4. HardwarePlanes(image, pitch) = [Y |-> 0, V |-> Align(lines, 256), U |-> Align(Align(lines, 256) + chroma, 256)]
    BY DEF HardwarePlanes, Half
  <1>. HIDE DEF lines, chroma
  <1>5. Align(lines, 256) = lines
    BY <1>2, Aligned256
  <1>6. lines + chroma \in Nat /\ (lines + chroma) % 128 = 0
    BY <1>2, <1>3
  <1>7. /\ Align(lines + chroma, 256) \in Nat /\ lines + chroma <= Align(lines + chroma, 256)
        /\ Align(lines + chroma, 256) < lines + chroma + 256 /\ Align(lines + chroma, 256) % 256 = 0
    BY <1>6, Align256
  <1>8. Align(lines + chroma, 256) <= lines + chroma + 128
    BY <1>6, <1>7
  <1>9. 2 * Align(lines + chroma, 256) <= 2 * (lines + chroma) + pitch
    BY <1>6, <1>7, <1>8
  <1>10. /\ HardwarePlanes(image, pitch).Y = 0
         /\ HardwarePlanes(image, pitch).V = lines
         /\ HardwarePlanes(image, pitch).U = Align(lines + chroma, 256)
    BY <1>4, <1>5
  <1>11. Layout(HardwarePlanes(image, pitch), image, pitch)
    BY <1>7, <1>9, <1>10 DEF Layout, lines, chroma
  <1>. QED BY <1>2, <1>7, <1>10, <1>11

LEMMA SoftwareLayout ==
  ASSUME NEW c \in Adapters, NEW image, ImageOK(c, image), image.format \in Planar, NEW pitch \in Nat,
         pitch % 256 = 0, 256 <= pitch
  PROVE  /\ Layout(SoftwarePlanes(image, pitch), image, pitch)
         /\ (pitch = 256 \/ (image.h \div 2) % 2 = 0) =>
              SoftwarePlanes(image, pitch).U = HardwarePlanes(image, pitch).U
  <1>. DEFINE lines == pitch * image.h
              chroma == Half(image, pitch)
              h2 == image.h \div 2
  <1>1. image.h \in Nat /\ image.h % 2 = 0 /\ h2 \in Nat
    BY DEF ImageOK
  <1>2. lines \in Nat /\ lines % 256 = 0
    BY <1>1, Times256
  <1>3. chroma \in Nat
    BY <1>1, Quarter DEF Half
  <1>4. SoftwarePlanes(image, pitch) =
          [Y |-> 0, V |-> lines, U |-> lines + chroma + (IF h2 % 2 = 1 THEN pitch \div 2 ELSE 0)]
    <2>1. lines + (IF image.h % 2 = 1 THEN pitch ELSE 0) = lines
      BY <1>1, <1>2
    <2>. QED BY <2>1 DEF SoftwarePlanes, Half
  <1>5. HardwarePlanes(image, pitch).U = Align(lines + chroma, 256)
    <2>1. Align(lines, 256) = lines
      BY <1>2, Aligned256
    <2>. QED BY <2>1 DEF HardwarePlanes, Half
  <1>6. Layout(SoftwarePlanes(image, pitch), image, pitch)
    <2>. DEFINE pad == IF h2 % 2 = 1 THEN pitch \div 2 ELSE 0
    <2>1. pad \in Nat /\ 2 * pad <= pitch
      OBVIOUS
    <2>2. SoftwarePlanes(image, pitch) = [Y |-> 0, V |-> lines, U |-> lines + chroma + pad]
      BY <1>4
    <2>. HIDE DEF pad, lines, chroma
    <2>3. lines + chroma + pad \in Nat /\ lines + chroma <= lines + chroma + pad
          /\ 2 * (lines + chroma + pad) <= 2 * (lines + chroma) + pitch
      BY <1>2, <1>3, <2>1
    <2>4. /\ SoftwarePlanes(image, pitch).Y = 0 /\ SoftwarePlanes(image, pitch).V = lines
          /\ SoftwarePlanes(image, pitch).U = lines + chroma + pad
      BY <2>2
    <2>. QED BY <2>3, <2>4 DEF Layout, lines, chroma
  <1>7. CASE h2 % 2 = 0
    <2>1. chroma % 256 = 0
      <3>1. PICK a \in Nat : pitch \div 2 = 128 * a
        <4>1. PICK b \in Nat : pitch = 256 * b
          OBVIOUS
        <4>. QED BY <4>1
      <3>2. PICK b \in Nat : h2 = 2 * b
        BY <1>1, <1>7
      <3>3. (128 * a) * (2 * b) = 256 * (a * b) /\ a * b \in Nat
        BY TimesNat
      <3>4. PICK n \in Nat : chroma = 256 * n
        BY <3>1, <3>2, <3>3, ZenonT(40) DEF Half
      <3>. QED BY <3>4
    <2>2. Align(lines + chroma, 256) = lines + chroma
      <3>. HIDE DEF lines, chroma
      <3>1. lines + chroma \in Nat /\ (lines + chroma) % 256 = 0
        BY <1>2, <1>3, <2>1
      <3>. QED BY <3>1, Aligned256
    <2>3. SoftwarePlanes(image, pitch).U = lines + chroma
      <3>1. lines + chroma + 0 = lines + chroma
        BY <1>2, <1>3
      <3>. QED BY <1>4, <1>7, <3>1
    <2>. QED BY <1>5, <1>6, <2>2, <2>3
  <1>8. CASE pitch = 256 /\ h2 % 2 = 1
    <2>1. chroma = 128 * h2
      BY <1>8 DEF Half
    <2>2. chroma % 256 = 128
      BY <1>1, <1>8, <2>1
    <2>3. Align(lines + chroma, 256) = lines + chroma + 128
      <3>. HIDE DEF lines, chroma
      <3>1. lines + chroma \in Nat /\ (lines + chroma) % 256 = 128
        BY <1>2, <1>3, <2>2
      <3>2. ASSUME NEW x \in Nat, x % 256 = 128 PROVE Align(x, 256) = x + 128
        BY <3>2 DEF Align
      <3>. QED BY <3>1, <3>2
    <2>4. SoftwarePlanes(image, pitch).U = lines + chroma + 128
      BY <1>4, <1>8
    <2>. QED BY <1>5, <1>6, <2>3, <2>4
  <1>9. h2 % 2 \in {0, 1}
    BY <1>1
  <1>. QED BY <1>6, <1>7, <1>8, <1>9

\* A plane copied line by line holds its texture.
LEMMA StraightHolds ==
  ASSUME NEW c \in Adapters, NEW image, ImageOK(c, image), NEW n \in PlanesOf(image),
         NEW at, NEW pitch \in Nat, NEW width \in Nat, NEW count \in Nat, NEW wide \in Nat,
         wide <= width, wide <= pitch
  PROVE  Holds(Straight(n, Taken(image)[n], at, pitch, width, count),
               [planes |-> {n}, at |-> at, pitch |-> pitch, width |-> wide, height |-> count], image)
  <1>1. ASSUME NEW row \in 0 .. count - 1
        PROVE  row < count /\ [k \in {n} |-> Taken(image)[n].at + row * Taken(image)[n].pitch] = ClientLine(image, {n}, row)
    <2>0. PICK planes \in SUBSET PlanesOf(image) : planes = {n}
      OBVIOUS
    <2>1. ClientLine(image, planes, row) =
            [k \in planes |-> Taken(image)[k].at +
               (IF k \in {"U", "V"} /\ planes # {k} THEN row \div 2 ELSE row) * Taken(image)[k].pitch]
      BY ClientLines
    <2>2. \A k \in {n} : Taken(image)[k].at +
                           (IF k \in {"U", "V"} /\ {n} # {k} THEN row \div 2 ELSE row) * Taken(image)[k].pitch
                         = Taken(image)[n].at + row * Taken(image)[n].pitch
      OBVIOUS
    <2>. QED BY <2>0, <2>1, <2>2
  <1>. QED BY <1>1 DEF Holds, Straight, RectangleOf

\* Where R600's rectangles are, their planes being laid out.
Planes(c, image, offset, pitch) ==
  LET at == IF c.agp THEN SoftwarePlanes(image, pitch) ELSE HardwarePlanes(image, pitch)
  IN  [n \in {"Y", "U", "V"} |->
         Straight(n, Taken(image)[n], Scanout(c) + offset + at[n], PlanePitch(n, pitch),
                  IF c.agp THEN Taken(image)[n].pitch ELSE PlaneWidth(n, image), PlaneHeight(n, image))]

LEMMA R600Planes ==
  ASSUME NEW c \in Adapters, NEW image, ImageOK(c, image), c.r600, image.format \in Planar,
         NEW offset \in Nat, offset % 256 = 0, NEW pitch, pitch = FramePitch(c, image)
  PROVE  LET at == IF c.agp THEN SoftwarePlanes(image, pitch) ELSE HardwarePlanes(image, pitch)
             copied == Planes(c, image, offset, pitch)
         IN  /\ Copied(c, image, offset, pitch) = {copied[n] : n \in {"Y", "U", "V"}}
             /\ Layout(at, image, pitch)
             /\ \A n \in {"Y", "U", "V"} :
                  /\ copied[n].at = Scanout(c) + offset + at[n]
                  /\ copied[n].pitch = PlanePitch(n, pitch)
                  /\ copied[n].height = PlaneHeight(n, image)
                  /\ copied[n].width \in Nat /\ copied[n].width <= PlanePitch(n, pitch)
                  /\ PlaneWidth(n, image) <= copied[n].width
  <1>. DEFINE at == IF c.agp THEN SoftwarePlanes(image, pitch) ELSE HardwarePlanes(image, pitch)
              copied == Planes(c, image, offset, pitch)
              width(n) == IF c.agp THEN Taken(image)[n].pitch ELSE PlaneWidth(n, image)
  <1>1. /\ pitch \in Nat /\ pitch % 256 = 0 /\ 256 <= pitch
        /\ Align(image.w, 4) <= pitch /\ Align(image.w \div 2, 4) <= pitch \div 2
    BY Pitches
  <1>2. Layout(at, image, pitch)
    BY <1>1, HardwareLayout, SoftwareLayout
  <1>3. \A n \in {"Y", "U", "V"} :
          copied[n] = Straight(n, Taken(image)[n], Scanout(c) + offset + at[n], PlanePitch(n, pitch),
                               width(n), PlaneHeight(n, image))
    BY DEF Planes
  <1>4. PlanesOf(image) = {"Y", "U", "V"}
    BY DEF PlanesOf
  <1>5. Copied(c, image, offset, pitch) = {r \in {copied[n] : n \in {"Y", "U", "V"}} : c.agp \/ r.at % 256 = 0}
    BY <1>3, <1>4 DEF Copied, R600Copied
  <1>6. \A n \in {"Y", "U", "V"} :
          /\ copied[n].at = Scanout(c) + offset + at[n] /\ copied[n].pitch = PlanePitch(n, pitch)
          /\ copied[n].height = PlaneHeight(n, image) /\ copied[n].width = width(n)
    <2>. HIDE DEF at, copied, width
    <2>. QED BY <1>3 DEF Straight, RectangleOf
  <1>7. ASSUME NEW n \in {"Y", "U", "V"}, ~ c.agp
        PROVE  copied[n].at % 256 = 0
    <2>1. at[n] \in Nat /\ at[n] % 256 = 0
      <3>1. /\ HardwarePlanes(image, pitch).U \in Nat /\ HardwarePlanes(image, pitch).U % 256 = 0
            /\ HardwarePlanes(image, pitch).V % 256 = 0
            /\ HardwarePlanes(image, pitch).V = pitch * image.h
            /\ HardwarePlanes(image, pitch).Y = 0
        BY <1>1, HardwareLayout DEF Layout
      <3>2. pitch * image.h \in Nat
        BY <1>1, TimesNat DEF ImageOK
      <3>3. at = HardwarePlanes(image, pitch)
        BY <1>7
      <3>. HIDE DEF at
      <3>. QED BY <3>1, <3>2, <3>3
    <2>2. Scanout(c) \in {0, 32768}
      BY ScanoutRight
    <2>3. PICK x \in Nat : x = at[n] /\ x % 256 = 0
      BY <2>1
    <2>4. PICK s \in Nat : s = Scanout(c) /\ s % 256 = 0
      BY <2>2
    <2>5. (s + offset + x) % 256 = 0
      BY <2>3, <2>4
    <2>. HIDE DEF at, copied
    <2>. QED BY <1>6, <2>3, <2>4, <2>5
  <1>8. Copied(c, image, offset, pitch) = {copied[n] : n \in {"Y", "U", "V"}}
    <2>. HIDE DEF copied
    <2>. QED BY <1>5, <1>7
  <1>9. ASSUME NEW n \in {"Y", "U", "V"}
        PROVE  width(n) \in Nat /\ width(n) <= PlanePitch(n, pitch) /\ PlaneWidth(n, image) <= width(n)
    <2>1. image.w \in Nat /\ image.w \div 2 \in Nat
      BY DEF ImageOK
    <2>2. Taken(image)[n].pitch = IF n = "Y" THEN Align(image.w, 4) ELSE Align(image.w \div 2, 4)
      BY DEF Taken, Ordered
    <2>3. /\ Align(image.w, 4) \in Nat /\ image.w <= Align(image.w, 4)
          /\ Align(image.w \div 2, 4) \in Nat /\ image.w \div 2 <= Align(image.w \div 2, 4)
      BY <2>1, Align4
    <2>. QED BY <1>1, <2>1, <2>2, <2>3 DEF PlanePitch, PlaneWidth
  <1>. HIDE DEF at, copied, width
  <1>10. \A n \in {"Y", "U", "V"} :
           /\ copied[n].at = Scanout(c) + offset + at[n] /\ copied[n].pitch = PlanePitch(n, pitch)
           /\ copied[n].height = PlaneHeight(n, image)
           /\ copied[n].width \in Nat /\ copied[n].width <= PlanePitch(n, pitch)
           /\ PlaneWidth(n, image) <= copied[n].width
    BY <1>6, <1>9
  <1>. QED BY <1>2, <1>8, <1>10 DEF at, copied

\* Where the planes end: none in the next, and the last a half line after a frame and a half.
LEMMA PlanesEnd ==
  ASSUME NEW c \in Adapters, NEW image, ImageOK(c, image), c.r600, image.format \in Planar,
         NEW offset \in Nat, offset % 256 = 0, NEW pitch, pitch = FramePitch(c, image)
  PROVE  LET copied == Planes(c, image, offset, pitch)
             base == Scanout(c) + offset
         IN  /\ copied["Y"].at = base
             /\ RectangleEnd(copied["Y"]) <= copied["V"].at
             /\ RectangleEnd(copied["V"]) <= copied["U"].at
             /\ 2 * RectangleEnd(copied["U"]) <= 2 * base + 3 * (pitch * image.h) + pitch
             /\ \A n \in {"Y", "U", "V"} : base <= copied[n].at /\ copied[n].at <= RectangleEnd(copied[n])
             /\ \A n \in {"Y", "U", "V"} : copied[n].at \in Nat /\ RectangleEnd(copied[n]) \in Nat
  <1>. DEFINE at == IF c.agp THEN SoftwarePlanes(image, pitch) ELSE HardwarePlanes(image, pitch)
              copied == Planes(c, image, offset, pitch)
              base == Scanout(c) + offset
              lines == pitch * image.h
              chroma == Half(image, pitch)
  <1>1. pitch \in Nat /\ pitch % 256 = 0 /\ 256 <= pitch
    BY Pitches
  <1>2. image.h \in Nat /\ image.h % 2 = 0 /\ 1 <= image.h
    BY DEF ImageOK
  <1>3. lines \in Nat /\ chroma \in Nat /\ 4 * chroma = lines
    BY <1>1, <1>2, Quarter DEF Half
  <1>4. at["Y"] = 0 /\ at["V"] = lines /\ at["U"] \in Nat /\ lines + chroma <= at["U"]
        /\ 2 * at["U"] <= 2 * (lines + chroma) + pitch
    BY R600Planes DEF Layout
  <1>5. base \in Nat
    BY ScanoutRight
  <1>6. ASSUME NEW n \in {"Y", "U", "V"}
        PROVE  LET all == PlaneHeight(n, image) * PlanePitch(n, pitch)
               IN  /\ copied[n].at = base + at[n]
                   /\ copied[n].at <= RectangleEnd(copied[n])
                   /\ RectangleEnd(copied[n]) <= base + at[n] + all
                   /\ RectangleEnd(copied[n]) \in Nat /\ all \in Nat
    <2>1. PICK H \in Nat : H = PlaneHeight(n, image) /\ 1 <= H
      BY <1>2 DEF PlaneHeight
    <2>2. PICK P \in Nat : P = PlanePitch(n, pitch)
      BY <1>1 DEF PlanePitch
    <2>3. copied[n].at = base + at[n] /\ copied[n].pitch = P /\ copied[n].height = H
          /\ copied[n].width \in Nat /\ copied[n].width <= P
      <3>. HIDE DEF copied, at
      <3>. QED BY <2>1, <2>2, R600Planes DEF copied, at
    <2>4. (H - 1) * P = H * P - P /\ H * P \in Nat /\ (H - 1) * P \in Nat
      <3>1. PICK K \in Nat : H = K + 1
        BY <2>1
      <3>2. (K + 1) * P = K * P + P /\ K * P \in Nat
        BY TimesNat
      <3>. QED BY <3>1, <3>2
    <2>5. at[n] \in Nat
      <3>. HIDE DEF at
      <3>. QED BY <1>3, <1>4
    <2>. HIDE DEF copied, at, base
    <2>6. RectangleEnd(copied[n]) = copied[n].at + (H - 1) * P + copied[n].width
      BY <2>3 DEF RectangleEnd
    <2>7. /\ base + at[n] <= RectangleEnd(copied[n]) /\ RectangleEnd(copied[n]) <= base + at[n] + H * P
          /\ RectangleEnd(copied[n]) \in Nat
      BY <1>5, <2>3, <2>4, <2>5, <2>6
    <2>. QED BY <2>1, <2>2, <2>3, <2>4, <2>7
  <1>7. PlaneHeight("Y", image) * PlanePitch("Y", pitch) = lines
    BY <1>1, <1>2 DEF PlaneHeight, PlanePitch
  <1>8. \A n \in {"U", "V"} : PlaneHeight(n, image) * PlanePitch(n, pitch) = chroma
    <2>1. PICK a \in Nat : a = pitch \div 2
      BY <1>1
    <2>2. PICK b \in Nat : b = image.h \div 2
      BY <1>2
    <2>. QED BY <2>1, <2>2 DEF PlaneHeight, PlanePitch, Half
  <1>. HIDE DEF at, copied, base, lines, chroma
  <1>9. /\ copied["Y"].at = base /\ copied["V"].at = base + lines /\ copied["U"].at = base + at["U"]
        /\ RectangleEnd(copied["Y"]) <= base + lines
        /\ RectangleEnd(copied["V"]) <= base + lines + chroma
        /\ RectangleEnd(copied["U"]) <= base + at["U"] + chroma
        /\ RectangleEnd(copied["Y"]) \in Nat /\ RectangleEnd(copied["V"]) \in Nat /\ RectangleEnd(copied["U"]) \in Nat
    BY <1>3, <1>4, <1>5, <1>6, <1>7, <1>8
  <1>10. 2 * RectangleEnd(copied["U"]) <= 2 * base + 3 * lines + pitch
    BY <1>1, <1>3, <1>4, <1>5, <1>9
  <1>11. RectangleEnd(copied["Y"]) <= copied["V"].at /\ RectangleEnd(copied["V"]) <= copied["U"].at
    BY <1>3, <1>4, <1>5, <1>9
  <1>12. \A n \in {"Y", "U", "V"} : base <= copied[n].at /\ copied[n].at <= RectangleEnd(copied[n])
                                   /\ copied[n].at \in Nat /\ RectangleEnd(copied[n]) \in Nat
    BY <1>3, <1>4, <1>5, <1>6, <1>9
  <1>. QED BY <1>9, <1>10, <1>11, <1>12 DEF copied, base, lines

LEMMA R600PlanarWhole ==
  ASSUME NEW c \in Adapters, NEW image, ImageOK(c, image), c.r600, image.format \in Planar,
         NEW offset \in Nat, offset % 256 = 0, NEW pitch, pitch = FramePitch(c, image),
         c.agp => pitch = 256 \/ (image.h \div 2) % 2 = 0
  PROVE  /\ \A t \in TexturesOf(c, image, offset, pitch) :
              \E r \in Copied(c, image, offset, pitch) : Holds(r, t, image)
         /\ \A r, s \in Copied(c, image, offset, pitch) :
              r = s \/ RectangleEnd(r) <= s.at \/ RectangleEnd(s) <= r.at
  <1>. DEFINE at == IF c.agp THEN SoftwarePlanes(image, pitch) ELSE HardwarePlanes(image, pitch)
              copied == Planes(c, image, offset, pitch)
              base == Scanout(c) + offset
              T(n) == [planes |-> {n}, at |-> base + at[n], pitch |-> PlanePitch(n, pitch),
                       width |-> PlaneWidth(n, image), height |-> PlaneHeight(n, image)]
  <1>1. pitch \in Nat /\ pitch % 256 = 0 /\ 256 <= pitch
    BY Pitches
  <1>2. Copied(c, image, offset, pitch) = {copied[n] : n \in {"Y", "U", "V"}}
    BY R600Planes
  <1>3. at["Y"] = HardwarePlanes(image, pitch)["Y"] /\ at["V"] = HardwarePlanes(image, pitch)["V"]
        /\ at["U"] = HardwarePlanes(image, pitch)["U"]
    BY <1>1, HardwareLayout, SoftwareLayout DEF Layout
  <1>4. TexturesOf(c, image, offset, pitch) = {T("Y"), T("V"), T("U")}
    <2>1. /\ HardwarePlanes(image, pitch)["Y"] = 0
          /\ HardwarePlanes(image, pitch)["V"] = Align(pitch * image.h, 256)
          /\ HardwarePlanes(image, pitch)["U"] =
               Align(Align(pitch * image.h, 256) + (pitch \div 2) * (image.h \div 2), 256)
      BY DEF HardwarePlanes
    <2>. HIDE DEF at
    <2>. QED BY <1>3, <2>1 DEF TexturesOf, R600Textures
  <1>5. ASSUME NEW n \in {"Y", "U", "V"}
        PROVE  Holds(copied[n], T(n), image)
    <2>1. PICK x : x = base + at[n]
      OBVIOUS
    <2>2. PICK width : width = IF c.agp THEN Taken(image)[n].pitch ELSE PlaneWidth(n, image)
      OBVIOUS
    <2>3. PICK P \in Nat : P = PlanePitch(n, pitch)
      BY <1>1 DEF PlanePitch
    <2>4. PICK H \in Nat : H = PlaneHeight(n, image)
      BY DEF PlaneHeight, ImageOK
    <2>5. PICK wide \in Nat : wide = PlaneWidth(n, image)
      BY DEF PlaneWidth, ImageOK
    <2>6. copied[n] = Straight(n, Taken(image)[n], x, P, width, H)
      BY <2>1, <2>2, <2>3, <2>4 DEF Planes
    <2>7. copied[n].width \in Nat /\ copied[n].width <= P /\ wide <= copied[n].width
      <3>. HIDE DEF copied
      <3>. QED BY <2>3, <2>5, R600Planes DEF copied
    <2>. HIDE DEF copied, at, base
    <2>8. copied[n].width = width
      BY <2>6 DEF Straight, RectangleOf
    <2>9. width \in Nat /\ wide <= width /\ wide <= P
      BY <2>7, <2>8
    <2>10. n \in PlanesOf(image)
      BY DEF PlanesOf
    <2>11. Holds(Straight(n, Taken(image)[n], x, P, width, H),
                 [planes |-> {n}, at |-> x, pitch |-> P, width |-> wide, height |-> H], image)
      BY <2>9, <2>10, StraightHolds
    <2>. QED BY <2>1, <2>3, <2>4, <2>5, <2>6, <2>11
  <1>6. /\ RectangleEnd(copied["Y"]) <= copied["V"].at /\ RectangleEnd(copied["V"]) <= copied["U"].at
        /\ RectangleEnd(copied["Y"]) <= copied["U"].at
    <2>. HIDE DEF copied
    <2>1. /\ RectangleEnd(copied["Y"]) <= copied["V"].at
          /\ RectangleEnd(copied["V"]) <= copied["U"].at
          /\ \A n \in {"Y", "U", "V"} : copied[n].at <= RectangleEnd(copied[n])
          /\ \A n \in {"Y", "U", "V"} : copied[n].at \in Nat /\ RectangleEnd(copied[n]) \in Nat
      BY PlanesEnd DEF copied
    <2>. QED BY <2>1
  <1>. HIDE DEF copied, T
  <1>7. \A t \in TexturesOf(c, image, offset, pitch) :
          \E r \in Copied(c, image, offset, pitch) : Holds(r, t, image)
    BY <1>2, <1>4, <1>5
  <1>8. \A r, s \in Copied(c, image, offset, pitch) :
          r = s \/ RectangleEnd(r) <= s.at \/ RectangleEnd(s) <= r.at
    BY <1>2, <1>6
  <1>. QED BY <1>7, <1>8

LEMMA R600PackedWhole ==
  ASSUME NEW c \in Adapters, NEW image, ImageOK(c, image), c.r600, image.format \notin Planar,
         NEW offset \in Nat, offset % 256 = 0, NEW pitch, pitch = FramePitch(c, image)
  PROVE  /\ \A t \in TexturesOf(c, image, offset, pitch) :
              \E r \in Copied(c, image, offset, pitch) : Holds(r, t, image)
         /\ \A r, s \in Copied(c, image, offset, pitch) : r = s
         /\ \A r \in Copied(c, image, offset, pitch) :
              /\ r.at = Scanout(c) + offset /\ r.pitch = pitch /\ r.width = 2 * image.w /\ r.height = image.h
  <1>. DEFINE base == Scanout(c) + offset
              r == Straight("YUV", Taken(image)["YUV"], base, pitch, 2 * image.w, image.h)
              t == [planes |-> {"YUV"}, at |-> base, pitch |-> pitch, width |-> 2 * image.w, height |-> image.h]
  <1>1. pitch \in Nat /\ 2 * image.w <= pitch
    BY Pitches
  <1>2. base % 256 = 0
    <2>1. offset % 256 = 0 /\ (32768 + offset) % 256 = 0
      OBVIOUS
    <2>. QED BY <2>1, ScanoutRight
  <1>3. Copied(c, image, offset, pitch) = {r}
    <2>1. r.at = base
      BY DEF Straight, RectangleOf
    <2>2. Copied(c, image, offset, pitch) = {x \in {r} : c.agp \/ x.at % 256 = 0}
      BY DEF Copied, R600Copied
    <2>. HIDE DEF r, base
    <2>. QED BY <1>2, <2>1, <2>2
  <1>4. TexturesOf(c, image, offset, pitch) = {t}
    BY DEF TexturesOf, R600Textures
  <1>5. Holds(r, t, image)
    <2>1. 2 * image.w \in Nat /\ image.h \in Nat /\ "YUV" \in PlanesOf(image)
      BY DEF ImageOK, PlanesOf
    <2>2. PICK w2 \in Nat : w2 = 2 * image.w
      BY <2>1
    <2>3. PICK x : x = base
      OBVIOUS
    <2>4. PICK n \in PlanesOf(image) : n = "YUV"
      BY <2>1
    <2>5. PICK H \in Nat : H = image.h
      BY <2>1
    <2>6. w2 <= w2 /\ w2 <= pitch
      BY <1>1, <2>2
    <2>7. Holds(Straight(n, Taken(image)[n], x, pitch, w2, H),
                [planes |-> {n}, at |-> x, pitch |-> pitch, width |-> w2, height |-> H], image)
      BY <1>1, <2>6, StraightHolds
    <2>. QED BY <2>2, <2>3, <2>4, <2>5, <2>7
  <1>6. r.at = base /\ r.pitch = pitch /\ r.width = 2 * image.w /\ r.height = image.h
    BY DEF Straight, RectangleOf
  <1>. HIDE DEF r, t
  <1>. QED BY <1>3, <1>4, <1>5, <1>6
-----------------------------------------------------------------------------
(* Buffers *)

\* Where a buffer's frame begins.
Placed(c, b, offset) ==
  /\ b \in [at : Nat, size : Nat] /\ offset \in Nat
  /\ IF c.exa THEN offset = Scanout(c) + b.at /\ b.at % 4096 = 0
              ELSE offset = Scanout(c) + Chunk(b.at + 4095)

LEMMA PlacedAligned ==
  ASSUME NEW c \in Adapters, NEW b, NEW offset, Placed(c, b, offset)
  PROVE  offset \in Nat /\ offset % 4096 = 0 /\ offset % 1024 = 0 /\ offset % 256 = 0
  <1>1. b.at \in Nat /\ offset \in Nat
    BY DEF Placed
  <1>2. PICK x \in Nat : x % 4096 = 0 /\ offset = Scanout(c) + x
    <2>1. b.at + 4095 \in Nat
      BY <1>1
    <2>2. Chunk(b.at + 4095) \in Nat /\ Chunk(b.at + 4095) % 4096 = 0
      BY <2>1, AlignChunk
    <2>. QED BY <1>1, <2>2 DEF Placed
  <1>3. (32768 + x) % 4096 = 0
    BY <1>2
  <1>4. offset % 4096 = 0
    BY <1>2, <1>3, ScanoutRight
  <1>. QED BY <1>1, <1>4

\* The last line of a rectangle has no more than its pitch.
LEMMA RectangleEnds ==
  ASSUME NEW r, r.at \in Nat, r.pitch \in Nat, r.height \in Nat, 1 <= r.height, r.width \in Nat, r.width <= r.pitch
  PROVE  /\ RectangleEnd(r) <= r.at + r.pitch * r.height
         /\ r.pitch * r.height \in Nat /\ RectangleEnd(r) \in Nat
  <1>1. PICK P \in Nat : P = r.pitch
    OBVIOUS
  <1>2. PICK K \in Nat : r.height = K + 1
    <2>1. r.height - 1 \in Nat /\ r.height = (r.height - 1) + 1
      OBVIOUS
    <2>. QED BY <2>1
  <1>3. (K + 1) * P = K * P + P /\ P * (K + 1) = K * P + P /\ K * P \in Nat
    BY TimesNat
  <1>4. RectangleEnd(r) = r.at + K * P + r.width
    <2>1. r.height - 1 = K
      BY <1>2
    <2>. QED BY <1>1, <2>1 DEF RectangleEnd
  <1>. QED BY <1>1, <1>2, <1>3, <1>4

LEMMA InBuffer ==
  ASSUME BuffersLargeEnough, NEW c \in Adapters, NEW size \in Sizes,
         NEW image, image = QueryImageAttributes(c, size), NEW pitch, pitch = FramePitch(c, image),
         NEW b, NEW offset, Placed(c, b, offset),
         b.size >= BufferSize(c, image) + (IF c.exa THEN 0 ELSE 4095)
  PROVE  \A r \in Copied(c, image, offset, pitch) :
           Scanout(c) + b.at <= r.at /\ RectangleEnd(r) <= Scanout(c) + b.at + b.size
  <1>. DEFINE first == FirstPitch(c, image.w)
  <1>1. ImageOK(c, image)
    BY ImageRight
  <1>2. image.h \in Nat /\ 1 <= image.h /\ image.w \in Nat
    BY <1>1 DEF ImageOK
  <1>3. /\ first \in Nat /\ 64 <= first /\ 2 * image.w <= first /\ pitch \in Nat /\ pitch <= first
        /\ image.format \notin Planar => 2 * image.w <= pitch
        /\ ~ c.r600 => pitch = first
    BY <1>1, Pitches
  <1>4. offset \in Nat /\ offset % 1024 = 0 /\ offset % 256 = 0
    BY PlacedAligned
  <1>5. b.at \in Nat /\ b.size \in Nat
    BY DEF Placed
  <1>6. PICK S \in Nat : S = Scanout(c)
    BY ScanoutRight
  <1>7. PICK whole \in Nat : whole = pitch * image.h
    BY <1>2, <1>3, TimesNat
  <1>8. PICK room \in Nat : room = first * image.h
    BY <1>2, <1>3, TimesNat
  <1>9. whole <= room /\ BufferSize(c, image) = 2 * room
    <2>1. whole <= room
      BY <1>2, <1>3, <1>7, <1>8, TimesAbove
    <2>2. (2 * first) * image.h = 2 * (first * image.h)
      BY <1>2, <1>3
    <2>. QED BY <1>8, <2>1, <2>2 DEF BufferSize
  <1>10. /\ c.r600 => 2 * S <= room - first
         /\ ~ c.r600 => c.exa \/ 4095 <= room
    <2>1. IF c.r600 THEN 2 * Scanout(c) <= first * (image.h - 1) ELSE c.exa \/ 4095 <= first * image.h
      BY DEF BuffersLargeEnough
    <2>2. first * (image.h - 1) = room - first
      <3>1. PICK f \in Nat : f = first
        BY <1>3
      <3>2. f * (image.h - 1) = f * image.h - f
        BY <1>2
      <3>. QED BY <1>8, <3>1, <3>2
    <2>. QED BY <1>6, <1>8, <2>1, <2>2
  <1>. HIDE DEF first
  <1>11. CASE ~ c.r600
    <2>1. ASSUME NEW r \in Copied(c, image, offset, pitch)
          PROVE  r.at = offset /\ RectangleEnd(r) <= offset + whole
      <3>1. r.at = offset /\ r.pitch = pitch /\ r.width = 2 * image.w /\ r.height = image.h
        BY <1>1, <1>4, <1>11, R5xxWhole
      <3>2. RectangleEnd(r) <= r.at + r.pitch * r.height
        BY <3>1, <1>2, <1>3, <1>4, <1>11, RectangleEnds
      <3>. QED BY <3>1, <3>2, <1>7
    <2>2. S + b.at <= offset /\ offset + whole <= S + b.at + b.size
      <3>1. CASE c.exa
        <4>1. offset = S + b.at
          BY <1>6, <3>1 DEF Placed
        <4>2. b.size >= 2 * room
          BY <1>5, <1>9, <3>1
        <4>. QED BY <4>1, <4>2, <1>5, <1>9
      <3>2. CASE ~ c.exa
        <4>1. PICK x \in Nat : x = b.at + 4095
          BY <1>5
        <4>2. offset = S + Chunk(x) /\ Chunk(x) \in Nat /\ x <= Chunk(x) /\ Chunk(x) < x + 4096
          BY <1>6, <3>2, <4>1, AlignChunk DEF Placed
        <4>3. b.size >= 2 * room + 4095
          BY <1>5, <1>9, <3>2
        <4>4. 4095 <= room
          BY <1>10, <1>11, <3>2
        <4>. QED BY <4>1, <4>2, <4>3, <4>4, <1>5, <1>9
      <3>. QED BY <3>1, <3>2
    <2>3. ASSUME NEW r \in Copied(c, image, offset, pitch)
          PROVE  RectangleEnd(r) \in Nat
      <3>1. r.at = offset /\ r.pitch = pitch /\ r.width = 2 * image.w /\ r.height = image.h
        BY <1>1, <1>4, <1>11, R5xxWhole
      <3>. QED BY <3>1, <1>2, <1>3, <1>4, <1>11, RectangleEnds
    <2>. QED BY <1>4, <1>5, <1>6, <2>1, <2>2, <2>3
  <1>12. ASSUME c.r600
         PROVE  offset = S + b.at /\ b.size >= 2 * room /\ 2 * S <= room - first
    <2>1. c.exa
      BY <1>12, AdaptersAssumption
    <2>. QED BY <1>5, <1>6, <1>9, <1>10, <1>12, <2>1 DEF Placed
  <1>13. CASE c.r600 /\ image.format \notin Planar
    <2>. SUFFICES ASSUME NEW r \in Copied(c, image, offset, pitch)
                  PROVE  S + b.at <= r.at /\ RectangleEnd(r) <= S + b.at + b.size
      BY <1>6
    <2>1. r.at = S + offset /\ r.pitch = pitch /\ r.width = 2 * image.w /\ r.height = image.h
      BY <1>1, <1>4, <1>6, <1>13, R600PackedWhole
    <2>2. RectangleEnd(r) <= r.at + r.pitch * r.height /\ RectangleEnd(r) \in Nat
      BY <2>1, <1>2, <1>3, <1>4, <1>13, RectangleEnds
    <2>3. RectangleEnd(r) <= (S + offset) + whole
      BY <2>1, <2>2, <1>7
    <2>. QED BY <2>1, <2>2, <2>3, <1>3, <1>5, <1>9, <1>12, <1>13
  <1>14. CASE c.r600 /\ image.format \in Planar
    <2>. DEFINE copied == Planes(c, image, offset, pitch)
    <2>1. Copied(c, image, offset, pitch) = {copied[n] : n \in {"Y", "U", "V"}}
      BY <1>1, <1>4, <1>14, R600Planes
    <2>2. /\ RectangleEnd(copied["Y"]) <= copied["V"].at
          /\ RectangleEnd(copied["V"]) <= copied["U"].at
          /\ 2 * RectangleEnd(copied["U"]) <= 2 * (S + offset) + 3 * whole + pitch
          /\ \A n \in {"Y", "U", "V"} : S + offset <= copied[n].at /\ copied[n].at <= RectangleEnd(copied[n])
          /\ \A n \in {"Y", "U", "V"} : copied[n].at \in Nat /\ RectangleEnd(copied[n]) \in Nat
      <3>. HIDE DEF copied
      <3>. QED BY <1>1, <1>4, <1>6, <1>7, <1>14, PlanesEnd DEF copied
    <2>. HIDE DEF copied
    <2>3. 2 * (S + offset) + 3 * whole + pitch <= 2 * (S + b.at + b.size)
      BY <1>3, <1>5, <1>9, <1>12, <1>14
    <2>4. \A n \in {"Y", "U", "V"} : RectangleEnd(copied[n]) <= S + b.at + b.size
      BY <2>2, <2>3, <1>3, <1>4, <1>5
    <2>5. \A n \in {"Y", "U", "V"} : S + b.at <= copied[n].at
      BY <2>2, <1>5, <1>12, <1>14
    <2>. QED BY <2>1, <2>4, <2>5, <1>6
  <1>. QED BY <1>11, <1>13, <1>14
-----------------------------------------------------------------------------
(* The ports *)

Images == [format : Planar \union Packed \union {"none"}, w : Nat, h : Nat]
PortStates == [buffer : [at : Nat, size : Nat], offset : Nat, pitch : Nat, image : Images]

\* A buffer's frame begins where the manager's kind has it begin.
BuffersPlaced == \A p \in Ports : port[p].buffer # NoBuffer => Placed(adapter, port[p].buffer, port[p].offset)

\* A port that shows an image has one of the sizes that clients ask for, with its
\* pitch, in a buffer of its size.
ImagesHeld ==
  \A p \in Ports : Shown(p) =>
    /\ port[p].buffer # NoBuffer
    /\ \E size \in Sizes :
         /\ port[p].image = QueryImageAttributes(adapter, size)
         /\ port[p].pitch = FramePitch(adapter, port[p].image)
         /\ port[p].buffer.size >= BufferSize(adapter, port[p].image) + (IF adapter.exa THEN 0 ELSE 4095)

VideoInv ==
  /\ adapter \in Adapters /\ port \in [Ports -> PortStates]
  /\ BuffersPlaced /\ ImagesHeld

LEMMA ImageType ==
  ASSUME NEW c \in Adapters, NEW size \in Sizes
  PROVE  QueryImageAttributes(c, size) \in Images /\ QueryImageAttributes(c, size) # NoImage
  <1>. DEFINE image == QueryImageAttributes(c, size)
  <1>1. ImageOK(c, image)
    BY ImageRight
  <1>2. image.format \in Planar \union Packed /\ image.w \in Nat /\ image.h \in Nat /\ 1 <= image.h
    BY <1>1 DEF ImageOK
  <1>3. image = [format |-> image.format, w |-> image.w, h |-> image.h]
    BY DEF QueryImageAttributes
  <1>. HIDE DEF image
  <1>4. image \in Images
    BY <1>2, <1>3 DEF Images
  <1>5. image.h # NoImage.h
    BY <1>2 DEF NoImage
  <1>. QED BY <1>4, <1>5 DEF image

LEMMA SizeType ==
  ASSUME NEW c \in Adapters, NEW size \in Sizes
  PROVE  BufferSize(c, QueryImageAttributes(c, size)) \in Nat
  <1>. DEFINE image == QueryImageAttributes(c, size)
  <1>1. ImageOK(c, image)
    BY ImageRight
  <1>2. image.h \in Nat
    BY <1>1 DEF ImageOK
  <1>3. 2 * FirstPitch(c, image.w) \in Nat
    BY <1>1, Pitches
  <1>4. (2 * FirstPitch(c, image.w)) * image.h \in Nat
    BY <1>2, <1>3, TimesNat
  <1>. QED BY <1>4 DEF BufferSize

LEMMA PixelSizes ==
  ASSUME adapter \in Adapters, NEW n \in Nat
  PROVE  PixelSize(n) \in Nat /\ PixelSize(n) >= n + 4095
  <1>1. adapter.cpp \in {1, 2, 4}
    BY AdaptersAssumption
  <1>2. \A cpp \in {1, 2, 4} : ((n + 4095 + cpp - 1) \div cpp) * cpp \in Nat
                              /\ ((n + 4095 + cpp - 1) \div cpp) * cpp >= n + 4095
    OBVIOUS
  <1>. QED BY <1>1, <1>2 DEF PixelSize

LEMMA RoomRight ==
  ASSUME NEW p, NEW n \in Nat, NEW unit, NEW b \in RoomFor(p, n, unit)
  PROVE  b \in [at : Nat, size : Nat] /\ b.at % unit = 0 /\ b.size = n
  <1>. DEFINE A == {at \in Places : at % unit = 0}
  <1>1. b \in [at : A, size : {n}]
    BY DEF RoomFor
  <1>2. A \subseteq Nat /\ \A at \in A : at % unit = 0
    BY PlacesAssumption
  <1>. HIDE DEF A
  <1>. QED BY <1>1, <1>2

\* The memory managers' answers.
LEMMA AllocateRight ==
  ASSUME VideoInv, NEW p \in Ports, NEW n \in Nat, NEW a \in Allocate(p, n), a.buffer # NoBuffer
  PROVE  Placed(adapter, a.buffer, a.offset) /\ a.buffer.size >= n + (IF adapter.exa THEN 0 ELSE 4095)
  <1>1. adapter \in Adapters
    BY DEF VideoInv
  <1>2. Scanout(adapter) \in Nat
    BY <1>1, ScanoutRight
  <1>3. port[p].buffer # NoBuffer => Placed(adapter, port[p].buffer, port[p].offset)
    BY DEF VideoInv, BuffersPlaced
  <1>4. CASE adapter.exa
    <2>1. a \in AllocateEXA(p, n)
      BY <1>4 DEF Allocate
    <2>2. CASE a.buffer = port[p].buffer /\ a.offset = port[p].offset /\ port[p].buffer.size = n
      BY <1>3, <1>4, <2>2
    <2>3. ASSUME NEW b \in RoomFor(p, n, 4096), a = [buffer |-> b, offset |-> b.at + Scanout(adapter)]
          PROVE  Placed(adapter, a.buffer, a.offset) /\ a.buffer.size >= n
      <3>1. b.at \in Nat /\ b.at % 4096 = 0 /\ b.size = n /\ b \in [at : Nat, size : Nat]
        BY RoomRight
      <3>2. a.buffer = b /\ a.offset = b.at + Scanout(adapter)
        BY <2>3
      <3>. QED BY <3>1, <3>2, <1>2, <1>4 DEF Placed
    <2>4. \/ a.buffer = port[p].buffer /\ a.offset = port[p].offset /\ port[p].buffer.size = n
          \/ \E b \in RoomFor(p, n, 4096) : a = [buffer |-> b, offset |-> b.at + Scanout(adapter)]
      BY <2>1 DEF AllocateEXA
    <2>. QED BY <1>4, <2>2, <2>3, <2>4
  <1>5. CASE ~ adapter.exa
    <2>. DEFINE m == PixelSize(n)
    <2>1. m \in Nat /\ m >= n + 4095
      BY <1>1, PixelSizes
    <2>2. a \in AllocateXAA(p, n)
      BY <1>5 DEF Allocate
    <2>3. PICK b \in [at : Nat, size : Nat] : b.size = m /\ a = Aligned(b)
      <3>1. CASE port[p].buffer # NoBuffer /\ port[p].buffer.size = m /\ a = Aligned(port[p].buffer)
        BY <1>3, <3>1 DEF Placed
      <3>2. ASSUME NEW b \in RoomFor(p, m, adapter.cpp), a = Aligned(b)
            PROVE  b \in [at : Nat, size : Nat] /\ b.size = m
        <4>. HIDE DEF m
        <4>. QED BY <2>1, RoomRight
      <3>3. \/ port[p].buffer # NoBuffer /\ port[p].buffer.size = m /\ a = Aligned(port[p].buffer)
            \/ \E b \in RoomFor(p, m, adapter.cpp) : a = Aligned(b)
        BY <2>2 DEF AllocateXAA
      <3>. QED BY <3>1, <3>2, <3>3
    <2>. HIDE DEF m
    <2>4. a.buffer = b /\ a.offset = Scanout(adapter) + Chunk(b.at + 4095)
      BY <2>3 DEF Aligned
    <2>5. Chunk(b.at + 4095) \in Nat
      <3>1. b.at + 4095 \in Nat
        OBVIOUS
      <3>. QED BY <3>1, AlignChunk
    <2>6. Placed(adapter, b, a.offset)
      BY <1>2, <1>5, <2>4, <2>5 DEF Placed
    <2>. QED BY <1>5, <2>1, <2>3, <2>4, <2>6
  <1>6. adapter.exa \in BOOLEAN
    BY <1>1, AdaptersAssumption
  <1>. QED BY <1>4, <1>5, <1>6

LEMMA InitInv == VideoInit => VideoInv
  <1>. SUFFICES ASSUME VideoInit PROVE VideoInv
    OBVIOUS
  <1>1. NoBuffer \in [at : Nat, size : Nat]
    BY DEF NoBuffer
  <1>2. NoImage \in Images
    BY DEF NoImage, Images
  <1>3. port \in [Ports -> PortStates]
    BY <1>1, <1>2 DEF VideoInit, PortStates
  <1>4. \A p \in Ports : port[p].buffer = NoBuffer /\ port[p].image = NoImage
    BY DEF VideoInit
  <1>. QED BY <1>3, <1>4 DEF VideoInit, VideoInv, BuffersPlaced, ImagesHeld, Shown

LEMMA PutImageInv ==
  ASSUME VideoInv, NEW p \in Ports, NEW size \in Sizes, PutImage(p, size)
  PROVE  VideoInv'
  <1>1. adapter \in Adapters /\ adapter' = adapter /\ port \in [Ports -> PortStates]
    BY DEF VideoInv, PutImage
  <1>2. PICK image : image = QueryImageAttributes(adapter, size)
    OBVIOUS
  <1>3. ImageOK(adapter, image) /\ image \in Images /\ image # NoImage
    BY <1>1, <1>2, ImageRight, ImageType
  <1>4. PICK n \in Nat : n = BufferSize(adapter, image)
    BY <1>1, <1>2, SizeType
  <1>5. PICK a \in Allocate(p, n) :
          port' = [port EXCEPT ![p] = IF a.buffer = NoBuffer THEN NothingShown(image) ELSE Showing(a, image)]
    BY <1>2, <1>4 DEF PutImage
  <1>6. port'[p] = IF a.buffer = NoBuffer THEN NothingShown(image) ELSE Showing(a, image)
    BY <1>1, <1>5
  <1>7. \A q \in Ports \ {p} : port'[q] = port[q]
    BY <1>1, <1>5
  <1>8. FirstPitch(adapter, image.w) \in Nat /\ FramePitch(adapter, image) \in Nat
    BY <1>1, <1>3, Pitches
  <1>9. CASE a.buffer = NoBuffer
    <2>1. port'[p] = NothingShown(image) /\ port' = [port EXCEPT ![p] = NothingShown(image)]
      BY <1>5, <1>6, <1>9
    <2>2. NothingShown(image) \in PortStates /\ NothingShown(image).image = NoImage /\ NothingShown(image).buffer = NoBuffer
      BY <1>8 DEF NothingShown, PortStates, NoBuffer, NoImage, Images
    <2>3. port' \in [Ports -> PortStates]
      BY <1>1, <2>1, <2>2
    <2>4. BuffersPlaced'
      BY <1>1, <1>7, <2>1, <2>2 DEF VideoInv, BuffersPlaced
    <2>5. ImagesHeld'
      BY <1>1, <1>7, <2>1, <2>2 DEF VideoInv, ImagesHeld, Shown
    <2>. QED BY <1>1, <2>3, <2>4, <2>5 DEF VideoInv
  <1>10. CASE a.buffer # NoBuffer
    <2>1. port'[p] = Showing(a, image) /\ port' = [port EXCEPT ![p] = Showing(a, image)]
      BY <1>5, <1>6, <1>10
    <2>2. Placed(adapter, a.buffer, a.offset) /\ a.buffer.size >= n + (IF adapter.exa THEN 0 ELSE 4095)
      BY <1>10, AllocateRight
    <2>3. a.offset \in Nat /\ Align(a.offset, 256) = a.offset
      <3>1. a.offset \in Nat /\ a.offset % 256 = 0
        BY <1>1, <2>2, PlacedAligned
      <3>. QED BY <3>1, Aligned256
    <2>4. Showing(a, image) = [buffer |-> a.buffer, offset |-> a.offset,
                               pitch |-> FramePitch(adapter, image), image |-> image]
      BY <2>3 DEF Showing
    <2>5. Showing(a, image) \in PortStates
      BY <1>3, <1>8, <2>2, <2>3, <2>4 DEF PortStates, Placed
    <2>6. port' \in [Ports -> PortStates]
      BY <1>1, <2>1, <2>5
    <2>7. BuffersPlaced'
      BY <1>1, <1>7, <2>1, <2>2, <2>4 DEF VideoInv, BuffersPlaced
    <2>8. ImagesHeld'
      <3>. SUFFICES ASSUME NEW q \in Ports, port'[q].image # NoImage
                    PROVE  /\ port'[q].buffer # NoBuffer
                           /\ \E s \in Sizes :
                                /\ port'[q].image = QueryImageAttributes(adapter, s)
                                /\ port'[q].pitch = FramePitch(adapter, port'[q].image)
                                /\ port'[q].buffer.size >= BufferSize(adapter, port'[q].image) + (IF adapter.exa THEN 0 ELSE 4095)
        BY <1>1 DEF ImagesHeld, Shown
      <3>1. CASE q # p
        BY <1>7, <3>1 DEF VideoInv, ImagesHeld, Shown
      <3>2. CASE q = p
        <4>1. /\ port'[q].image = image /\ port'[q].pitch = FramePitch(adapter, image)
              /\ port'[q].buffer = a.buffer
          BY <2>1, <2>4, <3>2
        <4>. QED BY <4>1, <1>2, <1>4, <1>10, <2>2
      <3>. QED BY <3>1, <3>2
    <2>. QED BY <1>1, <2>6, <2>7, <2>8 DEF VideoInv
  <1>. QED BY <1>9, <1>10

LEMMA StopVideoInv ==
  ASSUME VideoInv, NEW p \in Ports, StopVideo(p)
  PROVE  VideoInv'
  <1>1. adapter \in Adapters /\ adapter' = adapter /\ port \in [Ports -> PortStates]
    BY DEF VideoInv, StopVideo
  <1>2. PICK s : s = [port[p] EXCEPT !.buffer = NoBuffer, !.offset = 0, !.image = NoImage]
    OBVIOUS
  <1>3. port' = [port EXCEPT ![p] = s]
    BY <1>1, <1>2 DEF StopVideo
  <1>4. s \in PortStates /\ s.buffer = NoBuffer /\ s.image = NoImage
    BY <1>1, <1>2 DEF PortStates, NoBuffer, NoImage, Images
  <1>5. port' \in [Ports -> PortStates] /\ port'[p] = s /\ \A q \in Ports \ {p} : port'[q] = port[q]
    BY <1>1, <1>3, <1>4
  <1>6. BuffersPlaced'
    BY <1>1, <1>4, <1>5 DEF VideoInv, BuffersPlaced
  <1>7. ImagesHeld'
    BY <1>1, <1>4, <1>5 DEF VideoInv, ImagesHeld, Shown
  <1>. QED BY <1>1, <1>5, <1>6, <1>7 DEF VideoInv

LEMMA VideoInvariant == VideoSpec => []VideoInv
  <1>1. VideoInv /\ [VideoNext]_videoVars => VideoInv'
    <2>. SUFFICES ASSUME VideoInv, [VideoNext]_videoVars PROVE VideoInv'
      OBVIOUS
    <2>1. CASE UNCHANGED videoVars
      BY <2>1 DEF videoVars, VideoInv, BuffersPlaced, ImagesHeld, Shown
    <2>2. CASE VideoNext
      BY <2>2, PutImageInv, StopVideoInv DEF VideoNext
    <2>. QED BY <2>1, <2>2
  <1>. QED BY <1>1, InitInv, PTL DEF VideoSpec

\* The ports hold what they can hold, and a port that shows an image has a buffer:
\* no frame is copied without memory.
THEOREM PortsRight == VideoSpec => []VideoTypeOK
  <1>1. VideoInv => VideoTypeOK
    <2>. SUFFICES ASSUME VideoInv, NEW p \in Ports
                  PROVE  /\ port[p].buffer \in [at : Nat, size : Nat]
                         /\ port[p].offset \in Nat /\ port[p].pitch \in Nat
                         /\ port[p].image = NoImage \/ \E size \in Sizes : port[p].image = QueryImageAttributes(adapter, size)
                         /\ port[p].image # NoImage => port[p].buffer # NoBuffer
      BY DEF VideoTypeOK, VideoInv
    <2>1. port[p] \in PortStates
      BY DEF VideoInv
    <2>. QED BY <2>1 DEF VideoInv, ImagesHeld, Shown, PortStates
  <1>. QED BY <1>1, VideoInvariant, PTL

\* Whatever is put on whatever port, the 3D engine samples the client's lines, on every
\* card whose CPU copies fit: hardware copies need nothing.
THEOREM FramesWhole == ASSUME SoftwareCopiesFit PROVE VideoSpec => []FramesComeWhole
  <1>1. VideoInv => FramesComeWhole
    <2>. SUFFICES ASSUME VideoInv, NEW p \in Ports, Shown(p)
                  PROVE  /\ \A t \in SampledFrom(p) : \E r \in CopiedTo(p) : Holds(r, t, port[p].image)
                         /\ \A r, s \in CopiedTo(p) :
                              r = s \/ RectangleEnd(r) <= s.at \/ RectangleEnd(s) <= r.at
      BY DEF FramesComeWhole
    <2>1. PICK c \in Adapters : c = adapter
      BY DEF VideoInv
    <2>2. PICK size \in Sizes : /\ port[p].image = QueryImageAttributes(c, size)
                                /\ port[p].pitch = FramePitch(c, port[p].image)
      BY <2>1 DEF VideoInv, ImagesHeld
    <2>3. PICK image : image = port[p].image /\ image = QueryImageAttributes(c, size)
      BY <2>2
    <2>4. PICK pitch : pitch = port[p].pitch /\ pitch = FramePitch(c, image)
      BY <2>2, <2>3
    <2>5. Placed(c, port[p].buffer, port[p].offset)
      BY <2>1 DEF VideoInv, ImagesHeld, BuffersPlaced
    <2>6. PICK offset \in Nat : offset = port[p].offset /\ offset % 1024 = 0 /\ offset % 256 = 0
      BY <2>5, PlacedAligned
    <2>7. ImageOK(c, image)
      BY <2>3, ImageRight
    <2>8. CopiedTo(p) = Copied(c, image, offset, pitch) /\ SampledFrom(p) = TexturesOf(c, image, offset, pitch)
      BY <2>1, <2>3, <2>4, <2>6 DEF CopiedTo, SampledFrom
    <2>9. CASE ~ c.r600
      BY <2>3, <2>4, <2>6, <2>7, <2>8, <2>9, R5xxWhole
    <2>10. CASE c.r600 /\ image.format \in Planar
      <3>1. c.agp => pitch = 256 \/ (image.h \div 2) % 2 = 0
        BY <2>3, <2>4, <2>10 DEF SoftwareCopiesFit
      <3>. QED BY <3>1, <2>3, <2>4, <2>6, <2>7, <2>8, <2>10, R600PlanarWhole
    <2>11. CASE c.r600 /\ image.format \notin Planar
      BY <2>3, <2>4, <2>6, <2>7, <2>8, <2>11, R600PackedWhole
    <2>. QED BY <2>9, <2>10, <2>11
  <1>. QED BY <1>1, VideoInvariant, PTL

\* Whatever is put on whatever port, it is copied within the memory that was allocated,
\* if frames have the size that the driver's offsets take from it.
THEOREM FramesInside == ASSUME BuffersLargeEnough PROVE VideoSpec => []FramesInTheirBuffers
  <1>1. VideoInv => FramesInTheirBuffers
    <2>. SUFFICES ASSUME VideoInv, NEW p \in Ports, Shown(p)
                  PROVE  \A r \in CopiedTo(p) :
                           /\ Scanout(adapter) + port[p].buffer.at <= r.at
                           /\ RectangleEnd(r) <= Scanout(adapter) + port[p].buffer.at + port[p].buffer.size
      BY DEF FramesInTheirBuffers
    <2>1. PICK c \in Adapters : c = adapter
      BY DEF VideoInv
    <2>2. PICK size \in Sizes :
            /\ port[p].image = QueryImageAttributes(c, size)
            /\ port[p].pitch = FramePitch(c, port[p].image)
            /\ port[p].buffer.size >= BufferSize(c, port[p].image) + (IF c.exa THEN 0 ELSE 4095)
      BY <2>1 DEF VideoInv, ImagesHeld
    <2>3. Placed(c, port[p].buffer, port[p].offset)
      BY <2>1 DEF VideoInv, ImagesHeld, BuffersPlaced
    <2>4. CopiedTo(p) = Copied(c, port[p].image, port[p].offset, port[p].pitch)
      BY <2>1 DEF CopiedTo
    <2>. QED BY <2>1, <2>2, <2>3, <2>4, InBuffer
  <1>. QED BY <1>1, VideoInvariant, PTL

-----------------------------------------------------------------------------
(***************************************************************************)
(* State.  The tables of each operation are right by themselves            *)
(* (OperationRight): what it reads it writes, or leaves to a default state *)
(* that nothing of it disturbs.  The rest is DrawingInv: what was prepared is*)
(* in the card or in the buffer (PreparedRight), what is left to the default*)
(* state is there whenever XHas3DEngineState says so (DefaultsThere), and  *)
(* whatever the card still has to do is marked or will be (MarksKept).     *)
(***************************************************************************)

\* The registers that some operation reads and leaves to the default state.
Relied(c) == UNION {c.operations[n].reads \ Own(c.operations[n]) : n \in DOMAIN c.operations}

\* What the tables have in common, for operation o of card c, where relied is
\* what is left to the default state.
OperationRight(c, o, relied) ==
  /\ o.writes \subseteq c.registers /\ o.reads \subseteq c.registers
  /\ o.uses \subseteq c.fields
  /\ o.uses \ o.stale \subseteq o.sets \union o.late
  /\ o.reads \ Own(o) \subseteq relied
  /\ Own(o) \intersect relied = {}
  /\ o.engine3D \in BOOLEAN /\ o.passes \in BOOLEAN /\ o.evicts \in BOOLEAN /\ o.marked \in BOOLEAN
  /\ c.buffers \/ o.refused => o.engine3D
  /\ o.passes => c.buffers
  /\ o.evicts => o.passes
  /\ ~o.engine3D => o.reads = {}
  /\ o.waits => ~o.marked /\ o.passes

\* What R600 operations rely on.
ReliedR600 ==
  {"chip", "sequencer", "vertex_grouper", "fetch_shader", "viewport", "points_and_lines", "scissors",
   "antialiasing", "fog", "depth", "alpha_test", "borders", "color_compare", "target_mask"}

\* The registers and fields of R600, and the names of its operations.
LEMMA R600Registers ==
  /\ Pipeline \subseteq R600.registers /\ Common \subseteq R600.registers /\ Drawn \subseteq R600.registers
  /\ "input_1" \in R600.registers /\ set_default_state \subseteq R600.registers
  BY DEF R600

LEMMA CommonRelied ==
  /\ Common \intersect ReliedR600 = {} /\ Drawn \intersect ReliedR600 = {}
  /\ Pipeline \subseteq Common \union Drawn \union ReliedR600
  BY DEF Common, Drawn, ReliedR600, Pipeline, Clip, vs_setup, ps_setup, RenderSetup, set_render_target,
         RasterSetup, InterpolatorSetup, set_vtx_resource, draw_auto

\* No two textures, and no two samplers, have the same name.
LEMMA TextureNames ==
  /\ set_tex_resource(0) = {"texture_0"} /\ set_tex_sampler(0) = {"sampler_0"}
  /\ set_tex_resource(1) = {"texture_1"} /\ set_tex_sampler(1) = {"sampler_1"}
  /\ set_tex_resource(2) = {"texture_2"} /\ set_tex_sampler(2) = {"sampler_2"}
  /\ Texel(0) = {"texture_0", "sampler_0", "borders"}
  /\ Texel(1) = {"texture_1", "sampler_1", "borders"}
  /\ Texel(2) = {"texture_2", "sampler_2", "borders"}
  BY DEF set_tex_resource, set_tex_sampler, Texel, Textures, Samplers

\* What some operations write besides.
LEMMA R600Others ==
  ASSUME NEW r \in {"ALU_constants", "vertex_booleans", "pixel_booleans", "blend", "input_1",
                    "texture_0", "texture_1", "texture_2", "sampler_0", "sampler_1", "sampler_2"}
  PROVE  r \in R600.registers /\ r \notin ReliedR600
<1>1. r \in set_default_state \union {"input_1"}
  <2>1. \A u \in 0 .. 2 : Textures[u + 1] \in set_default_state /\ Samplers[u + 1] \in set_default_state
    BY DEF set_default_state, TextureDefaults, reset_sampler_const
  <2>2. \A u \in 0 .. 2 : Textures[u + 1] \in set_tex_resource(u) /\ Samplers[u + 1] \in set_tex_sampler(u)
    BY DEF set_tex_resource, set_tex_sampler
  <2>3. {"texture_0", "texture_1", "texture_2", "sampler_0", "sampler_1", "sampler_2"} \subseteq set_default_state
    BY <2>1, <2>2, TextureNames
  <2>. QED BY <2>3 DEF set_default_state, reset_dx9_alu_consts, reset_bool_loop_const, ColorDefaults
<1>2. r \notin ReliedR600
  BY DEF ReliedR600
<1>. QED BY <1>1, <1>2, R600Registers

\* What survives a call in accel_state.
LEMMA R600Fields ==
  /\ R600.fields = {"target", "target_size", "vertices", "source", "source_1", "rop", "same_surface",
                    "copy_area", "transform", "mask"}
  /\ R600.defaults = set_default_state /\ R600.buffers = TRUE /\ R600.claims = FALSE
  BY DEF R600

\* All that is left to the default state is in it.
LEMMA ReliedDefault == ReliedR600 \subseteq set_default_state
  BY DEF ReliedR600, set_default_state, sq_setup, reset_td_samplers, DepthDefaults, ColorDefaults, ScissorDefaults,
         set_scissors, GeometryDefaults, fs_setup, VgtDefaults

\* The operations of R600, one after the other.
LEMMA SolidRight == OperationRight(R600, Solid, ReliedR600)
<1>1. /\ Solid.writes = Common \union set_alu_consts /\ Solid.draws = Drawn
      /\ Solid.reads = Pipeline \union R600_solid_vs \union R600_solid_ps
      /\ Solid.sets = {"target", "target_size", "vertices"}
      /\ Solid.uses = {"target", "target_size", "vertices"}
      /\ Solid.stale = {} /\ Solid.late = {}
  BY DEF Solid, Operation
<1>2. /\ Solid.engine3D = TRUE /\ Solid.passes = FALSE /\ Solid.evicts = FALSE /\ Solid.marked = TRUE
      /\ Solid.waits = FALSE
  BY DEF Solid, Operation
<1>3. Solid.writes \subseteq R600.registers /\ Solid.writes \intersect ReliedR600 = {}
  BY <1>1, R600Registers, CommonRelied, R600Others DEF set_alu_consts
<1>4. Solid.reads \subseteq Own(Solid) \union ReliedR600
  BY <1>1, CommonRelied, TextureNames DEF Own, Drawn, Common, InterpolatorSetup, set_vtx_resource, ReliedR600, R600_solid_vs, R600_solid_ps, set_alu_consts
<1>5. Solid.uses \subseteq R600.fields /\ Solid.uses \ Solid.stale \subseteq Solid.sets \union Solid.late
  BY <1>1, R600Fields
<1>6. ReliedR600 \subseteq R600.registers
  BY ReliedDefault, R600Registers
<1>. QED BY <1>1, <1>2, <1>3, <1>4, <1>5, <1>6, R600Registers, R600Fields, CommonRelied DEF OperationRight, Own

LEMMA CopyRight == OperationRight(R600, Copy, ReliedR600)
<1>1. /\ Copy.writes = CopyWrites /\ Copy.draws = Drawn
      /\ Copy.reads = CopyReads
      /\ Copy.sets = {"target", "target_size", "vertices", "source", "rop", "same_surface"}
      /\ Copy.uses = {"target", "target_size", "vertices", "same_surface"}
      /\ Copy.stale = {} /\ Copy.late = {}
  BY DEF Copy, Operation
<1>2. /\ Copy.engine3D = TRUE /\ Copy.passes = FALSE /\ Copy.evicts = FALSE /\ Copy.marked = TRUE
      /\ Copy.waits = FALSE
  BY DEF Copy, Operation
<1>3. Copy.writes \subseteq R600.registers /\ Copy.writes \intersect ReliedR600 = {}
  BY <1>1, R600Registers, CommonRelied, R600Others, TextureNames DEF CopyWrites
<1>4. Copy.reads \subseteq Own(Copy) \union ReliedR600
  BY <1>1, CommonRelied, TextureNames DEF Own, Drawn, Common, InterpolatorSetup, set_vtx_resource, ReliedR600, CopyWrites, CopyReads, R600_copy_vs, R600_copy_ps
<1>5. Copy.uses \subseteq R600.fields /\ Copy.uses \ Copy.stale \subseteq Copy.sets \union Copy.late
  BY <1>1, R600Fields
<1>6. ReliedR600 \subseteq R600.registers
  BY ReliedDefault, R600Registers
<1>. QED BY <1>1, <1>2, <1>3, <1>4, <1>5, <1>6, R600Registers, R600Fields, CommonRelied DEF OperationRight, Own

LEMMA PassOperationRight == OperationRight(R600, PassOperation, ReliedR600)
<1>1. /\ PassOperation.writes = CopyWrites /\ PassOperation.draws = Drawn
      /\ PassOperation.reads = CopyReads
      /\ PassOperation.sets = {"target", "target_size", "vertices", "source"}
      /\ PassOperation.uses = {"target", "target_size", "vertices"}
      /\ PassOperation.stale = {} /\ PassOperation.late = {}
  BY DEF PassOperation, Operation
<1>2. /\ PassOperation.engine3D = TRUE /\ PassOperation.passes = TRUE /\ PassOperation.evicts = FALSE /\ PassOperation.marked = TRUE
      /\ PassOperation.waits = FALSE
  BY DEF PassOperation, Operation
<1>3. PassOperation.writes \subseteq R600.registers /\ PassOperation.writes \intersect ReliedR600 = {}
  BY <1>1, R600Registers, CommonRelied, R600Others, TextureNames DEF CopyWrites
<1>4. PassOperation.reads \subseteq Own(PassOperation) \union ReliedR600
  BY <1>1, CommonRelied, TextureNames DEF Own, Drawn, Common, InterpolatorSetup, set_vtx_resource, ReliedR600, CopyWrites, CopyReads, R600_copy_vs, R600_copy_ps
<1>5. PassOperation.uses \subseteq R600.fields /\ PassOperation.uses \ PassOperation.stale \subseteq PassOperation.sets \union PassOperation.late
  BY <1>1, R600Fields
<1>6. ReliedR600 \subseteq R600.registers
  BY ReliedDefault, R600Registers
<1>. QED BY <1>1, <1>2, <1>3, <1>4, <1>5, <1>6, R600Registers, R600Fields, CommonRelied DEF OperationRight, Own

LEMMA SameCopyRight == OperationRight(R600, SameCopy, ReliedR600)
<1>1. /\ SameCopy.writes = CopyWrites /\ SameCopy.draws = Drawn
      /\ SameCopy.reads = CopyReads
      /\ SameCopy.sets = {"rop", "same_surface"}
      /\ SameCopy.uses = {"target", "target_size", "vertices", "rop", "same_surface", "copy_area"}
      /\ SameCopy.stale = {} /\ SameCopy.late = {"copy_area", "source", "target", "target_size", "vertices"}
  BY DEF SameCopy, PassOperation, Operation
<1>2. /\ SameCopy.engine3D = TRUE /\ SameCopy.passes = TRUE /\ SameCopy.evicts = TRUE /\ SameCopy.marked = TRUE
      /\ SameCopy.waits = FALSE
  BY DEF SameCopy, PassOperation, Operation
<1>3. SameCopy.writes \subseteq R600.registers /\ SameCopy.writes \intersect ReliedR600 = {}
  BY <1>1, R600Registers, CommonRelied, R600Others, TextureNames DEF CopyWrites
<1>4. SameCopy.reads \subseteq Own(SameCopy) \union ReliedR600
  BY <1>1, CommonRelied, TextureNames DEF Own, Drawn, Common, InterpolatorSetup, set_vtx_resource, ReliedR600, CopyWrites, CopyReads, R600_copy_vs, R600_copy_ps
<1>5. SameCopy.uses \subseteq R600.fields /\ SameCopy.uses \ SameCopy.stale \subseteq SameCopy.sets \union SameCopy.late
  BY <1>1, R600Fields
<1>6. ReliedR600 \subseteq R600.registers
  BY ReliedDefault, R600Registers
<1>. QED BY <1>1, <1>2, <1>3, <1>4, <1>5, <1>6, R600Registers, R600Fields, CommonRelied DEF OperationRight, Own

LEMMA CompositeRight == OperationRight(R600, Composite, ReliedR600)
<1>1. /\ Composite.writes = Common \union {"blend"} \union set_bool_consts_vs \union set_tex_resource(0) \union set_tex_sampler(0) \union {"input_1"} /\ Composite.draws = Drawn
      /\ Composite.reads = Pipeline \union {"blend"} \union R600_comp_vs(FALSE) \union R600_comp_ps
      /\ Composite.sets = {"target", "target_size", "vertices", "source", "transform", "mask"}
      /\ Composite.uses = {"target", "target_size", "vertices", "source", "transform", "mask"}
      /\ Composite.stale = {} /\ Composite.late = {}
  BY DEF Composite, Operation, CompositeFields, R600TextureSetup
<1>2. /\ Composite.engine3D = TRUE /\ Composite.passes = FALSE /\ Composite.evicts = FALSE /\ Composite.marked = TRUE
      /\ Composite.waits = FALSE
  BY DEF Composite, Operation, CompositeFields, R600TextureSetup
<1>3. Composite.writes \subseteq R600.registers /\ Composite.writes \intersect ReliedR600 = {}
  BY <1>1, R600Registers, CommonRelied, R600Others, TextureNames DEF set_bool_consts_vs
<1>4. Composite.reads \subseteq Own(Composite) \union ReliedR600
  BY <1>1, CommonRelied, TextureNames DEF Own, Drawn, Common, InterpolatorSetup, set_vtx_resource, ReliedR600, set_bool_consts_vs, R600_comp_vs, R600_comp_vs_plain, R600_comp_vs_mask, R600_comp_ps, R600_comp_mask_ps
<1>5. Composite.uses \subseteq R600.fields /\ Composite.uses \ Composite.stale \subseteq Composite.sets \union Composite.late
  BY <1>1, R600Fields
<1>6. ReliedR600 \subseteq R600.registers
  BY ReliedDefault, R600Registers
<1>. QED BY <1>1, <1>2, <1>3, <1>4, <1>5, <1>6, R600Registers, R600Fields, CommonRelied DEF OperationRight, Own

LEMMA CompositeMaskRight == OperationRight(R600, CompositeMask, ReliedR600)
<1>1. /\ CompositeMask.writes = Common \union {"blend"} \union set_bool_consts_vs \union set_tex_resource(0) \union set_tex_sampler(0) \union {"input_1"}
                               \union set_tex_resource(1) \union set_tex_sampler(1) /\ CompositeMask.draws = Drawn
      /\ CompositeMask.reads = Pipeline \union {"blend"} \union R600_comp_vs(FALSE) \union R600_comp_ps
                              \union R600_comp_vs(TRUE) \union R600_comp_mask_ps
      /\ CompositeMask.sets = {"target", "target_size", "vertices", "source", "transform", "mask", "source_1"}
      /\ CompositeMask.uses = {"target", "target_size", "vertices", "source", "transform", "mask", "source_1"}
      /\ CompositeMask.stale = {} /\ CompositeMask.late = {}
  BY DEF CompositeMask, Composite, Operation, CompositeFields, R600TextureSetup
<1>2. /\ CompositeMask.engine3D = TRUE /\ CompositeMask.passes = FALSE /\ CompositeMask.evicts = FALSE /\ CompositeMask.marked = TRUE
      /\ CompositeMask.waits = FALSE
  BY DEF CompositeMask, Composite, Operation, CompositeFields, R600TextureSetup
<1>3. CompositeMask.writes \subseteq R600.registers /\ CompositeMask.writes \intersect ReliedR600 = {}
  BY <1>1, R600Registers, CommonRelied, R600Others, TextureNames DEF set_bool_consts_vs
<1>4. CompositeMask.reads \subseteq Own(CompositeMask) \union ReliedR600
  BY <1>1, CommonRelied, TextureNames DEF Own, Drawn, Common, InterpolatorSetup, set_vtx_resource, ReliedR600, set_bool_consts_vs, R600_comp_vs, R600_comp_vs_plain, R600_comp_vs_mask, R600_comp_ps, R600_comp_mask_ps
<1>5. CompositeMask.uses \subseteq R600.fields /\ CompositeMask.uses \ CompositeMask.stale \subseteq CompositeMask.sets \union CompositeMask.late
  BY <1>1, R600Fields
<1>6. ReliedR600 \subseteq R600.registers
  BY ReliedDefault, R600Registers
<1>. QED BY <1>1, <1>2, <1>3, <1>4, <1>5, <1>6, R600Registers, R600Fields, CommonRelied DEF OperationRight, Own

LEMMA DownloadRight == OperationRight(R600, Download, ReliedR600)
<1>1. /\ Download.writes = CopyWrites /\ Download.draws = Drawn
      /\ Download.reads = CopyReads
      /\ Download.sets = {"target", "target_size", "vertices", "source"}
      /\ Download.uses = {"target", "target_size", "vertices"}
      /\ Download.stale = {} /\ Download.late = {}
  BY DEF Download, PassOperation, Operation
<1>2. /\ Download.engine3D = TRUE /\ Download.passes = TRUE /\ Download.evicts = FALSE /\ Download.marked = FALSE
      /\ Download.waits = TRUE
  BY DEF Download, PassOperation, Operation
<1>3. Download.writes \subseteq R600.registers /\ Download.writes \intersect ReliedR600 = {}
  BY <1>1, R600Registers, CommonRelied, R600Others, TextureNames DEF CopyWrites
<1>4. Download.reads \subseteq Own(Download) \union ReliedR600
  BY <1>1, CommonRelied, TextureNames DEF Own, Drawn, Common, InterpolatorSetup, set_vtx_resource, ReliedR600, CopyWrites, CopyReads, R600_copy_vs, R600_copy_ps
<1>5. Download.uses \subseteq R600.fields /\ Download.uses \ Download.stale \subseteq Download.sets \union Download.late
  BY <1>1, R600Fields
<1>6. ReliedR600 \subseteq R600.registers
  BY ReliedDefault, R600Registers
<1>. QED BY <1>1, <1>2, <1>3, <1>4, <1>5, <1>6, R600Registers, R600Fields, CommonRelied DEF OperationRight, Own

LEMMA VideoUploadRight == OperationRight(R600, VideoUpload, ReliedR600)
<1>1. /\ VideoUpload.writes = CopyWrites /\ VideoUpload.draws = Drawn
      /\ VideoUpload.reads = CopyReads
      /\ VideoUpload.sets = {"target", "target_size", "vertices", "source"}
      /\ VideoUpload.uses = {"target", "target_size", "vertices"}
      /\ VideoUpload.stale = {} /\ VideoUpload.late = {}
  BY DEF VideoUpload, PassOperation, Operation
<1>2. /\ VideoUpload.engine3D = TRUE /\ VideoUpload.passes = TRUE /\ VideoUpload.evicts = FALSE /\ VideoUpload.marked = FALSE
      /\ VideoUpload.waits = FALSE
  BY DEF VideoUpload, PassOperation, Operation
<1>3. VideoUpload.writes \subseteq R600.registers /\ VideoUpload.writes \intersect ReliedR600 = {}
  BY <1>1, R600Registers, CommonRelied, R600Others, TextureNames DEF CopyWrites
<1>4. VideoUpload.reads \subseteq Own(VideoUpload) \union ReliedR600
  BY <1>1, CommonRelied, TextureNames DEF Own, Drawn, Common, InterpolatorSetup, set_vtx_resource, ReliedR600, CopyWrites, CopyReads, R600_copy_vs, R600_copy_ps
<1>5. VideoUpload.uses \subseteq R600.fields /\ VideoUpload.uses \ VideoUpload.stale \subseteq VideoUpload.sets \union VideoUpload.late
  BY <1>1, R600Fields
<1>6. ReliedR600 \subseteq R600.registers
  BY ReliedDefault, R600Registers
<1>. QED BY <1>1, <1>2, <1>3, <1>4, <1>5, <1>6, R600Registers, R600Fields, CommonRelied DEF OperationRight, Own

LEMMA PackedVideoRight == OperationRight(R600, PackedVideo, ReliedR600)
<1>1. /\ PackedVideo.writes = Common \union set_bool_consts_ps \union set_alu_consts \union set_tex_resource(0)
                              \union set_tex_sampler(0) \union set_tex_resource(1) \union set_tex_sampler(1) /\ PackedVideo.draws = Drawn
      /\ PackedVideo.reads = Pipeline \union R600_xv_vs \union R600_xv_ps_packed
      /\ PackedVideo.sets = {"target", "source", "vertices"}
      /\ PackedVideo.uses = {"target", "target_size", "vertices"}
      /\ PackedVideo.stale = {"target_size"} /\ PackedVideo.late = {}
  BY DEF PackedVideo, VideoOperation, Operation
<1>2. /\ PackedVideo.engine3D = TRUE /\ PackedVideo.passes = FALSE /\ PackedVideo.evicts = FALSE /\ PackedVideo.marked = FALSE
      /\ PackedVideo.waits = FALSE
  BY DEF PackedVideo, VideoOperation, Operation
<1>3. PackedVideo.writes \subseteq R600.registers /\ PackedVideo.writes \intersect ReliedR600 = {}
  BY <1>1, R600Registers, CommonRelied, R600Others, TextureNames DEF set_bool_consts_ps, set_alu_consts
<1>4. PackedVideo.reads \subseteq Own(PackedVideo) \union ReliedR600
  BY <1>1, CommonRelied, TextureNames DEF Own, Drawn, Common, InterpolatorSetup, set_vtx_resource, ReliedR600, set_bool_consts_ps, set_alu_consts, R600_xv_vs, R600_xv_ps, R600_xv_ps_packed, R600_xv_ps_planar,
         R600_xv_ps_scale, R600_xv_ps_matrix
<1>5. PackedVideo.uses \subseteq R600.fields /\ PackedVideo.uses \ PackedVideo.stale \subseteq PackedVideo.sets \union PackedVideo.late
  BY <1>1, R600Fields
<1>6. ReliedR600 \subseteq R600.registers
  BY ReliedDefault, R600Registers
<1>. QED BY <1>1, <1>2, <1>3, <1>4, <1>5, <1>6, R600Registers, R600Fields, CommonRelied DEF OperationRight, Own

LEMMA PlanarVideoRight == OperationRight(R600, PlanarVideo, ReliedR600)
<1>1. /\ PlanarVideo.writes = Common \union set_bool_consts_ps \union set_alu_consts \union set_tex_resource(0)
                              \union set_tex_sampler(0) \union set_tex_resource(1) \union set_tex_sampler(1)
                              \union set_tex_resource(2) \union set_tex_sampler(2) /\ PlanarVideo.draws = Drawn
      /\ PlanarVideo.reads = Pipeline \union R600_xv_vs \union R600_xv_ps_packed \union R600_xv_ps_planar
      /\ PlanarVideo.sets = {"target", "source", "vertices"}
      /\ PlanarVideo.uses = {"target", "target_size", "vertices"}
      /\ PlanarVideo.stale = {"target_size"} /\ PlanarVideo.late = {}
  BY DEF PlanarVideo, PackedVideo, VideoOperation, Operation
<1>2. /\ PlanarVideo.engine3D = TRUE /\ PlanarVideo.passes = FALSE /\ PlanarVideo.evicts = FALSE /\ PlanarVideo.marked = FALSE
      /\ PlanarVideo.waits = FALSE
  BY DEF PlanarVideo, PackedVideo, VideoOperation, Operation
<1>3. PlanarVideo.writes \subseteq R600.registers /\ PlanarVideo.writes \intersect ReliedR600 = {}
  BY <1>1, R600Registers, CommonRelied, R600Others, TextureNames DEF set_bool_consts_ps, set_alu_consts
<1>4. PlanarVideo.reads \subseteq Own(PlanarVideo) \union ReliedR600
  BY <1>1, CommonRelied, TextureNames DEF Own, Drawn, Common, InterpolatorSetup, set_vtx_resource, ReliedR600, set_bool_consts_ps, set_alu_consts, R600_xv_vs, R600_xv_ps, R600_xv_ps_packed, R600_xv_ps_planar,
         R600_xv_ps_scale, R600_xv_ps_matrix
<1>5. PlanarVideo.uses \subseteq R600.fields /\ PlanarVideo.uses \ PlanarVideo.stale \subseteq PlanarVideo.sets \union PlanarVideo.late
  BY <1>1, R600Fields
<1>6. ReliedR600 \subseteq R600.registers
  BY ReliedDefault, R600Registers
<1>. QED BY <1>1, <1>2, <1>3, <1>4, <1>5, <1>6, R600Registers, R600Fields, CommonRelied DEF OperationRight, Own

\* On R500 and RS600 to RS740, with vertex processing or without.
ReliedR5xx(tcl) == R5xx3DSetup(tcl)

\* The registers of R5xx, with and without vertex hardware.
LEMMA R5xxRegisters ==
  ASSUME NEW tcl \in BOOLEAN
  PROVE  /\ R5xx3DSetup(tcl) \subseteq R5xx(tcl).registers /\ Everything(tcl) \subseteq R5xx(tcl).registers
         /\ {"stream_1", "texture_0", "texture_1"} \subseteq R5xx(tcl).registers
         /\ R5xx(tcl).fields = {"mask", "transform", "tile", "size_0", "size_1"}
         /\ R5xx(tcl).defaults = R5xx3DSetup(tcl) /\ R5xx(tcl).buffers = FALSE /\ R5xx(tcl).claims = TRUE
  BY DEF R5xx, R300TextureSetup, TransformFields

\* Vertex formats and their like are nothing of the default state.
LEMMA R5xxOthers ==
  ASSUME NEW tcl \in BOOLEAN
  PROVE  {"texture_enable", "stream_0", "stream_1", "vertex_formats", "rasterizer_count", "code_range", "pixel_program",
          "output", "target", "blend", "vertex_size", "program_range", "texture_0", "texture_1"}
         \intersect R5xx3DSetup(tcl) = {}
  BY DEF R5xx3DSetup, GraphicsBackend, GeometryAssembly, VertexSetup, MaskProgram, PlainProgram, VideoProgram,
         Rasterizer, TextureInstructions, FragmentSetup, FogAndBuffers, Scissors

\* The programs of the two kinds of card, told apart by tcl.
LEMMA Programs ==
  ASSUME NEW tcl \in BOOLEAN
  PROVE  /\ PlainProgram(tcl) \subseteq R5xx3DSetup(tcl) /\ MaskProgram(tcl) \subseteq R5xx3DSetup(tcl)
         /\ VideoProgram(tcl) \subseteq R5xx3DSetup(tcl)
  BY DEF R5xx3DSetup

Formats(tcl) == {"texture_enable", "stream_0", "vertex_formats", "rasterizer_count", "code_range", "pixel_program",
                 "output", "target", "blend", "vertex_size"} \union (IF tcl THEN {"program_range"} ELSE {})

\* What R5xx3DSetup writes is all an operation leaves to it.
LEMMA EverythingIs ==
  ASSUME NEW tcl \in BOOLEAN
  PROVE  /\ Everything(tcl) \subseteq R5xx3DSetup(tcl) \union Formats(tcl)
         /\ Formats(tcl) \subseteq Everything(tcl)
         /\ Formats(tcl) \intersect R5xx3DSetup(tcl) = {}
<1>1. /\ Everything(tcl) \subseteq R5xx3DSetup(tcl) \union Formats(tcl)
      /\ Formats(tcl) \subseteq Everything(tcl)
  BY DEF Everything, Formats
<1>2. Formats(tcl) \intersect R5xx3DSetup(tcl) = {}
  BY R5xxOthers DEF Formats
<1>. QED BY <1>1, <1>2

\* R5xx: the operations, with and without vertex hardware.
LEMMA R300CompositeRight ==
  ASSUME NEW tcl \in BOOLEAN
  PROVE  OperationRight(R5xx(tcl), R300Composite(tcl), ReliedR5xx(tcl))
<1>. DEFINE o == R300Composite(tcl)
<1>1. /\ o.writes = R300TextureSetup(0) \union VertexWrites(tcl, FALSE) \union PixelWrites(tcl) \union CompositeTarget
      /\ o.draws = CompositeTile
      /\ o.reads = Everything(tcl) \union R300TextureSetup(0) \union PlainProgram(tcl)
      /\ o.sets = TransformFields \union {"size_0"} /\ o.uses = TransformFields \union {"size_0"}
      /\ o.stale = {} /\ o.late = {}
      /\ o.engine3D = TRUE /\ o.passes = FALSE /\ o.evicts = FALSE /\ o.marked = TRUE /\ o.waits = FALSE
  BY DEF R300Composite
<1>. HIDE DEF o
<1>2. Own(o) = Formats(tcl) \union {"texture_0"}
  BY <1>1 DEF Own, VertexWrites, PixelWrites, PixelProgramR300, PixelProgramR500, CompositeTarget, CompositeTile,
              R300TextureSetup, Formats
<1>3. "texture_0" \notin R5xx3DSetup(tcl)
  BY R5xxOthers
<1>4. o.reads \subseteq R5xx3DSetup(tcl) \union Formats(tcl) \union {"texture_0"}
  BY <1>1, EverythingIs, Programs DEF R300TextureSetup
<1>5. o.uses \subseteq R5xx(tcl).fields
  BY <1>1, R5xxRegisters DEF TransformFields
<1>6. o.writes \subseteq R5xx(tcl).registers /\ o.reads \subseteq R5xx(tcl).registers
  BY <1>2, <1>4, EverythingIs, R5xxRegisters DEF Own
<1>7. o.reads \ Own(o) \subseteq R5xx3DSetup(tcl)
  BY <1>2, <1>4
<1>8. Own(o) \intersect R5xx3DSetup(tcl) = {}
  BY <1>2, <1>3, EverythingIs
<1>9. OperationRight(R5xx(tcl), o, ReliedR5xx(tcl))
  BY <1>1, <1>5, <1>6, <1>7, <1>8, R5xxRegisters DEF OperationRight, ReliedR5xx
<1>. QED BY <1>9 DEF o

LEMMA R300CompositeMaskRight ==
  ASSUME NEW tcl \in BOOLEAN
  PROVE  OperationRight(R5xx(tcl), R300CompositeMask(tcl), ReliedR5xx(tcl))
<1>. DEFINE o == R300CompositeMask(tcl)
<1>1. /\ o.writes = R300TextureSetup(0) \union VertexWrites(tcl, FALSE) \union PixelWrites(tcl) \union CompositeTarget
                    \union R300TextureSetup(1) \union VertexWrites(tcl, TRUE)
      /\ o.draws = CompositeTile
      /\ o.reads \subseteq Everything(tcl) \union R300TextureSetup(0) \union R300TextureSetup(1) \union {"stream_1"}
                           \union PlainProgram(tcl) \union MaskProgram(tcl)
      /\ o.sets = TransformFields \union {"size_0", "size_1"} /\ o.uses = TransformFields \union {"size_0", "size_1"}
      /\ o.stale = {} /\ o.late = {}
      /\ o.engine3D = TRUE /\ o.passes = FALSE /\ o.evicts = FALSE /\ o.marked = TRUE /\ o.waits = FALSE
  BY DEF R300CompositeMask, R300Composite
<1>. HIDE DEF o
<1>2. Own(o) = Formats(tcl) \union {"texture_0", "texture_1", "stream_1"}
  BY <1>1 DEF Own, VertexWrites, PixelWrites, PixelProgramR300, PixelProgramR500, CompositeTarget, CompositeTile,
              R300TextureSetup, Formats
<1>3. {"texture_0", "texture_1", "stream_1"} \intersect R5xx3DSetup(tcl) = {}
  BY R5xxOthers
<1>4. o.reads \subseteq R5xx3DSetup(tcl) \union Formats(tcl) \union {"texture_0", "texture_1", "stream_1"}
  BY <1>1, EverythingIs, Programs DEF R300TextureSetup
<1>5. o.uses \subseteq R5xx(tcl).fields
  BY <1>1, R5xxRegisters DEF TransformFields
<1>6. o.writes \subseteq R5xx(tcl).registers /\ o.reads \subseteq R5xx(tcl).registers
  BY <1>2, <1>4, EverythingIs, R5xxRegisters DEF Own
<1>7. o.reads \ Own(o) \subseteq R5xx3DSetup(tcl)
  BY <1>2, <1>4
<1>8. Own(o) \intersect R5xx3DSetup(tcl) = {}
  BY <1>2, <1>3, EverythingIs
<1>9. OperationRight(R5xx(tcl), o, ReliedR5xx(tcl))
  BY <1>1, <1>5, <1>6, <1>7, <1>8, R5xxRegisters DEF OperationRight, ReliedR5xx
<1>. QED BY <1>9 DEF o

LEMMA DisplayTexturedVideoRight ==
  ASSUME NEW tcl \in BOOLEAN
  PROVE  OperationRight(R5xx(tcl), DisplayTexturedVideo(tcl), ReliedR5xx(tcl))
<1>. DEFINE o == DisplayTexturedVideo(tcl)
<1>1. /\ o.writes = VideoTexture \union VideoVertices(tcl) \union VideoPixels \union VideoTarget
      /\ o.draws = {}
      /\ o.reads \subseteq Everything(tcl) \union R300TextureSetup(0) \union PlainProgram(tcl) \union VideoProgram(tcl)
      /\ o.sets = {"size_0"} /\ o.uses = {"size_0"} /\ o.stale = {} /\ o.late = {}
      /\ o.engine3D = TRUE /\ o.passes = FALSE /\ o.evicts = FALSE /\ o.marked = FALSE /\ o.waits = FALSE
  BY DEF DisplayTexturedVideo, R300Composite
<1>. HIDE DEF o
<1>2. Own(o) = Formats(tcl) \union {"texture_0"}
  BY <1>1 DEF Own, VideoTexture, VideoVertices, VideoPixels, VideoTarget, VertexWrites, R300TextureSetup, Formats
<1>3. "texture_0" \notin R5xx3DSetup(tcl)
  BY R5xxOthers
<1>4. o.reads \subseteq R5xx3DSetup(tcl) \union Formats(tcl) \union {"texture_0"}
  BY <1>1, EverythingIs, Programs DEF R300TextureSetup
<1>5. o.uses \subseteq R5xx(tcl).fields
  BY <1>1, R5xxRegisters
<1>6. o.writes \subseteq R5xx(tcl).registers /\ o.reads \subseteq R5xx(tcl).registers
  BY <1>2, <1>4, EverythingIs, R5xxRegisters DEF Own
<1>7. o.reads \ Own(o) \subseteq R5xx3DSetup(tcl)
  BY <1>2, <1>4
<1>8. Own(o) \intersect R5xx3DSetup(tcl) = {}
  BY <1>2, <1>3, EverythingIs
<1>9. OperationRight(R5xx(tcl), o, ReliedR5xx(tcl))
  BY <1>1, <1>5, <1>6, <1>7, <1>8, R5xxRegisters DEF OperationRight, ReliedR5xx
<1>. QED BY <1>9 DEF o

LEMMA BlitRight ==
  ASSUME NEW tcl \in BOOLEAN
  PROVE  OperationRight(R5xx(tcl), Blit(tcl), ReliedR5xx(tcl))
<1>. DEFINE o == Blit(tcl)
<1>1. /\ o.writes = {} /\ o.draws = {} /\ o.reads = {} /\ o.sets = {} /\ o.uses = {} /\ o.stale = {} /\ o.late = {}
      /\ o.engine3D = FALSE /\ o.refused = FALSE /\ o.passes = FALSE /\ o.evicts = FALSE /\ o.marked = TRUE
      /\ o.waits = FALSE
  BY DEF Blit, R300Composite
<1>. HIDE DEF o
<1>2. OperationRight(R5xx(tcl), o, ReliedR5xx(tcl))
  BY <1>1, R5xxRegisters DEF OperationRight, ReliedR5xx, Own
<1>. QED BY <1>2 DEF o

\* The tables of a card.
CardRight(c) ==
  /\ Relied(c) \subseteq c.defaults /\ c.defaults \subseteq c.registers
  /\ \A n \in DOMAIN c.operations : OperationRight(c, c.operations[n], Relied(c))
  /\ "none" \notin DOMAIN c.operations
  /\ \A n \in DOMAIN c.operations :
       c.operations[n].evicts =>
         LET o == c.operations[n] down == c.operations["download"]
         IN  /\ "download" \in DOMAIN c.operations
             /\ o.uses \ o.stale \subseteq o.late \union (o.sets \ down.sets)

\* It is enough to name what is left to the default state.
LEMMA CardRightIf ==
  ASSUME NEW c, NEW Q, Q \subseteq c.defaults, c.defaults \subseteq c.registers,
         \A n \in DOMAIN c.operations : OperationRight(c, c.operations[n], Q)
  PROVE  /\ Relied(c) \subseteq c.defaults
         /\ \A n \in DOMAIN c.operations : OperationRight(c, c.operations[n], Relied(c))
<1>1. Relied(c) \subseteq Q
  BY DEF Relied, OperationRight
<1>2. ASSUME NEW n \in DOMAIN c.operations
      PROVE  OperationRight(c, c.operations[n], Relied(c))
  <2>. DEFINE o == c.operations[n]
  <2>1. OperationRight(c, o, Q)
    OBVIOUS
  <2>2. o.reads \ Own(o) \subseteq Relied(c)
    BY DEF Relied
  <2>3. Own(o) \intersect Relied(c) = {}
    BY <1>1, <2>1 DEF OperationRight
  <2>. HIDE DEF o
  <2>4. OperationRight(c, o, Relied(c))
    BY <2>1, <2>2, <2>3 DEF OperationRight
  <2>. QED BY <2>4 DEF o
<1>. QED BY <1>1, <1>2

\* Each operation of R600, and its registers, are right.
LEMMA R600Right == CardRight(R600)
<1>1. /\ DOMAIN R600.operations = {"solid", "copy", "samecopy", "composite", "mask", "upload", "download",
                                  "videoUpload", "packedVideo", "planarVideo"}
      /\ R600.operations["solid"] = Solid /\ R600.operations["copy"] = Copy
      /\ R600.operations["samecopy"] = SameCopy /\ R600.operations["composite"] = Composite
      /\ R600.operations["mask"] = CompositeMask /\ R600.operations["upload"] = PassOperation
      /\ R600.operations["download"] = Download /\ R600.operations["videoUpload"] = VideoUpload
      /\ R600.operations["packedVideo"] = PackedVideo /\ R600.operations["planarVideo"] = PlanarVideo
  BY DEF R600, Upload
<1>2. \A n \in DOMAIN R600.operations : OperationRight(R600, R600.operations[n], ReliedR600)
  BY <1>1, SolidRight, CopyRight, SameCopyRight, CompositeRight, CompositeMaskRight, PassOperationRight, DownloadRight,
     VideoUploadRight, PackedVideoRight, PlanarVideoRight
<1>3. ReliedR600 \subseteq R600.defaults /\ R600.defaults \subseteq R600.registers
  BY R600Fields, ReliedDefault, R600Registers
<1>4. /\ Relied(R600) \subseteq R600.defaults
      /\ \A n \in DOMAIN R600.operations : OperationRight(R600, R600.operations[n], Relied(R600))
  BY <1>2, <1>3, CardRightIf
<1>5. ASSUME NEW n \in DOMAIN R600.operations, R600.operations[n].evicts
      PROVE  n = "samecopy"
  <2>1. /\ ~Solid.evicts /\ ~Copy.evicts /\ ~Composite.evicts /\ ~CompositeMask.evicts /\ ~PassOperation.evicts
        /\ ~Download.evicts /\ ~VideoUpload.evicts /\ ~PackedVideo.evicts /\ ~PlanarVideo.evicts
    BY DEF Solid, Copy, Composite, CompositeMask, PassOperation, Download, VideoUpload, PackedVideo, PlanarVideo,
           VideoOperation, Operation
  <2>. QED BY <1>1, <1>5, <2>1
<1>6. SameCopy.uses \ SameCopy.stale \subseteq SameCopy.late \union (SameCopy.sets \ Download.sets)
  <2>1. /\ SameCopy.uses = {"target", "target_size", "vertices", "rop", "same_surface", "copy_area"}
        /\ SameCopy.late = {"copy_area", "source", "target", "target_size", "vertices"}
        /\ SameCopy.sets = {"rop", "same_surface"}
        /\ Download.sets = {"target", "target_size", "vertices", "source"}
    BY DEF SameCopy, Download, PassOperation, Operation
  <2>. QED BY <2>1
<1>. QED BY <1>1, <1>3, <1>4, <1>5, <1>6 DEF CardRight

\* So are those of R5xx.
LEMMA R5xxRight ==
  ASSUME NEW tcl \in BOOLEAN
  PROVE  CardRight(R5xx(tcl))
<1>. DEFINE c == R5xx(tcl)
<1>1. /\ DOMAIN c.operations = {"composite", "mask", "video", "blit"}
      /\ c.operations["composite"] = R300Composite(tcl) /\ c.operations["mask"] = R300CompositeMask(tcl)
      /\ c.operations["video"] = DisplayTexturedVideo(tcl) /\ c.operations["blit"] = Blit(tcl)
  BY DEF R5xx
<1>2. \A n \in DOMAIN c.operations : OperationRight(c, c.operations[n], ReliedR5xx(tcl))
  BY <1>1, R300CompositeRight, R300CompositeMaskRight, DisplayTexturedVideoRight, BlitRight
<1>3. ReliedR5xx(tcl) \subseteq c.defaults /\ c.defaults \subseteq c.registers /\ c.buffers = FALSE
  BY R5xxRegisters DEF ReliedR5xx
<1>. HIDE DEF c
<1>4. /\ Relied(c) \subseteq c.defaults
      /\ \A n \in DOMAIN c.operations : OperationRight(c, c.operations[n], Relied(c))
  BY <1>2, <1>3, CardRightIf
<1>5. \A n \in DOMAIN c.operations : ~c.operations[n].evicts
  BY <1>2, <1>3 DEF OperationRight
<1>6. CardRight(c)
  BY <1>1, <1>3, <1>4, <1>5 DEF CardRight
<1>. QED BY <1>6 DEF c

\* Whatever the card, its tables are right.
LEMMA CardsRight == \A k \in DOMAIN Cards : CardRight(Cards[k])
<1>1. /\ DOMAIN Cards = {"R600", "R500", "RS690"}
      /\ Cards["R600"] = R600 /\ Cards["R500"] = R5xx(TRUE) /\ Cards["RS690"] = R5xx(FALSE)
  BY DEF Cards
<1>. QED BY <1>1, R600Right, R5xxRight

\* Who wrote a register last, and what may stand at the head of a buffer: the default
\* state never without the setup that follows it.
Marks == {"own", "default", "other"}
Beginnings == {b \in [default : BOOLEAN, setup : BOOLEAN] : b.default => b.setup}

\* The type of the state of drawing.
DrawingType ==
  /\ card \in DOMAIN Cards
  /\ regs \in [Card.registers -> Marks]
  /\ fields \in [Card.fields -> {"own", "other"}]
  /\ op \in DOMAIN Operations \union {"none"}
  /\ ib \in Beginnings
  /\ has3D \in BOOLEAN /\ unwaited \in BOOLEAN /\ lost \in BOOLEAN
  /\ flight \subseteq {"marked", "unmarked", "client"}

\* X only prepares and draws when it has the lock and the VT, and the shaders are
\* in memory as long as it has the VT.
InItsPlace ==
  /\ op # "none" => inServer /\ vtSema /\ ~software
  /\ software => inServer /\ vtSema
  /\ ~inServer => vtSema
  /\ vtSema => code

\* An operation that is not in a buffer of its own leaves none behind.
BufferRight ==
  /\ op = "none" \/ ~Card.buffers => ib = NoIB
  /\ op # "none" /\ Op.passes => ib = NoIB /\ ~vertices

\* All that is relied on is in its default state.
AllDefault == \A r \in Relied(Card) : regs[r] = "default"

\* XHas3DEngineState is right about what is left to the default state, unless a
\* client has the context.
DefaultsThere == has3D /\ ~lost /\ ~ib.default /\ (inServer \/ owner = "X") => AllDefault

\* What was prepared is in the card, or in the buffer.
PreparedRight ==
  op # "none" /\ ~Op.passes =>
    /\ Op.engine3D => has3D
    /\ ~ib.setup => ~unwaited /\ \A r \in Op.writes : regs[r] = "own"

\* The fields that the prepared operation uses are its own.
FieldsSet == op # "none" => \A f \in Op.uses \ Op.stale : fields[f] = "own"

\* Before R600 a wakeup waits, whoever drew.
StreamWaits == ~Card.buffers /\ unwaited => ~inServer /\ owner = "client"

\* What is under way is marked, or will be.
MarksKept ==
  ~gaveUp => /\ "client" \in flight => ~inServer \/ marked
             /\ "marked" \in flight => marked \/ (op # "none" /\ Op.marked)

\* What is true between any two calls.
DrawingInv ==
  /\ DrawingType /\ InItsPlace /\ BufferRight /\ DefaultsThere /\ PreparedRight /\ FieldsSet
  /\ StreamWaits /\ MarksKept /\ DrawsFindTheirState /\ SoftwareAfterDrawing
-----------------------------------------------------------------------------
\* The tables of the card that is there.
LEMMA OperationIsRight ==
  ASSUME card \in DOMAIN Cards
  PROVE  /\ CardRight(Card)
         /\ \A n \in DOMAIN Operations : OperationRight(Card, Operations[n], Relied(Card))
  BY CardsRight DEF CardRight, Card, Operations

\* What the beginning of an operation leaves in the registers.
LEMMA Executing ==
  ASSUME card \in DOMAIN Cards, NEW n \in DOMAIN Operations, NEW b \in Beginnings,
         NEW rs \in [Card.registers -> Marks]
  PROVE  /\ Executed(rs, b, Operations[n]) \in [Card.registers -> Marks]
         /\ b.setup \/ (\A r \in Operations[n].writes : rs[r] = "own")
              => \A r \in Operations[n].writes : Executed(rs, b, Operations[n])[r] = "own"
         /\ b.default \/ (\A r \in Relied(Card) : rs[r] = "default")
              => \A r \in Relied(Card) : Executed(rs, b, Operations[n])[r] = "default"
<1>. DEFINE o == Operations[n]
            d == IF b.default THEN Put(rs, Card.defaults, "default") ELSE rs
<1>1. /\ o.writes \subseteq Card.registers /\ Own(o) \intersect Relied(Card) = {}
      /\ Relied(Card) \subseteq Card.defaults /\ Card.defaults \subseteq Card.registers
  BY OperationIsRight DEF OperationRight, CardRight
<1>. HIDE DEF o
<1>2. /\ d \in [Card.registers -> Marks]
      /\ b.default \/ (\A r \in Relied(Card) : rs[r] = "default") => \A r \in Relied(Card) : d[r] = "default"
      /\ ~b.default => d = rs
  BY <1>1 DEF Put, Marks
<1>3. Executed(rs, b, o) = IF b.setup THEN Put(d, o.writes, "own") ELSE d
  BY DEF Executed
<1>. HIDE DEF d
<1>4. \A r \in Relied(Card) : r \notin o.writes
  BY <1>1 DEF Own
<1>5. CASE b.setup
  BY <1>1, <1>2, <1>3, <1>4, <1>5 DEF Put, Marks, o
<1>6. CASE ~b.setup
  BY <1>2, <1>3, <1>6 DEF Beginnings, o
<1>. QED BY <1>5, <1>6

\* What a draw finds, and leaves.
LEMMA Drawn3D ==
  ASSUME DrawingType, FieldsSet, code, op # "none", NEW b \in Beginnings, NEW done \in BOOLEAN, Draw(b, done),
         b.setup \/ \A r \in Op.writes : regs[r] = "own",
         lost \/ b.default \/ AllDefault \/ ~Op.engine3D,
         ~unwaited \/ WaitedFor(b)
  PROVE  /\ regs' \in [Card.registers -> Marks]
         /\ unwaited' = FALSE
         /\ flight' = flight \union {Kind(Op)}
         /\ ~found'.lost => found'.stray = {} /\ found'.unset = {} /\ ~found'.unwaited /\ found'.code
         /\ b.default \/ AllDefault => \A r \in Relied(Card) : regs'[r] = "default"
         /\ ~done => \A r \in Op.writes : regs'[r] = "own"
<1>. DEFINE e == Executed(regs, b, Op)
            rs == Put(e, Op.draws, "own")
<1>1. op \in DOMAIN Operations /\ card \in DOMAIN Cards /\ regs \in [Card.registers -> Marks]
  BY DEF DrawingType
<1>2. OperationRight(Card, Op, Relied(Card))
  BY <1>1, OperationIsRight DEF Op
<1>3. /\ e \in [Card.registers -> Marks]
      /\ \A r \in Op.writes : e[r] = "own"
      /\ b.default \/ AllDefault => \A r \in Relied(Card) : e[r] = "default"
  BY <1>1, Executing DEF Op, AllDefault
<1>4. /\ Op.reads \subseteq Card.registers /\ Op.writes \subseteq Card.registers
      /\ Op.reads \ Own(Op) \subseteq Relied(Card) /\ Own(Op) \intersect Relied(Card) = {}
      /\ ~Op.engine3D => Op.reads = {}
  BY <1>2 DEF OperationRight
<1>5. Own(Op) = Op.writes \union Op.draws
  BY DEF Own
<1>6. /\ regs' = IF done THEN Left(rs) ELSE rs
      /\ unwaited' = (unwaited /\ ~WaitedFor(b))
      /\ found' = [stray |-> Stray(rs, Op), unset |-> {f \in Op.uses \ Op.stale : fields[f] # "own"},
                   unwaited |-> unwaited /\ ~WaitedFor(b), code |-> code, lost |-> lost]
      /\ flight' = flight \union {Kind(Op)}
  BY DEF Draw
<1>. HIDE DEF e
<1>7. /\ rs \in [Card.registers -> Marks]
      /\ \A r \in Card.registers : r \in Own(Op) => (r \in Op.writes \/ r \in Op.draws) /\ rs[r] = "own"
      /\ \A r \in Card.registers \ Own(Op) : rs[r] = e[r]
  BY <1>3, <1>5 DEF Put, Marks
<1>. HIDE DEF rs
<1>8. ~lost => Stray(rs, Op) = {}
  <2>1. CASE Op.engine3D
    BY <1>3, <1>4, <1>7, <2>1 DEF Stray
  <2>2. CASE ~Op.engine3D
    BY <1>4, <2>2 DEF Stray
  <2>. QED BY <2>1, <2>2
<1>9. {f \in Op.uses \ Op.stale : fields[f] # "own"} = {}
  BY DEF FieldsSet
<1>10. Relied(Card) \subseteq Card.registers
  BY <1>1, OperationIsRight DEF CardRight
<1>11. Left(rs) \in [Card.registers -> Marks] /\ \A r \in Card.registers : rs[r] = "default" => Left(rs)[r] = "default"
  BY <1>7 DEF Left, Marks
<1>12. \A r \in Relied(Card) : rs[r] = e[r]
  BY <1>4, <1>7, <1>10
<1>13. \A r \in Op.writes : rs[r] = "own"
  BY <1>4, <1>5, <1>7
<1>14. regs' \in [Card.registers -> Marks]
  BY <1>6, <1>7, <1>11
<1>15. b.default \/ AllDefault => \A r \in Relied(Card) : regs'[r] = "default"
  BY <1>3, <1>6, <1>10, <1>11, <1>12
<1>16. ~found'.lost => found'.stray = {} /\ found'.unset = {} /\ ~found'.unwaited /\ found'.code
  BY <1>6, <1>8, <1>9
<1>. QED BY <1>6, <1>13, <1>14, <1>15, <1>16

\* The tables of the operation that is prepared.
LEMMA OpRight ==
  ASSUME DrawingType, op # "none"
  PROVE  /\ OperationRight(Card, Op, Relied(Card)) /\ op \in DOMAIN Operations
         /\ Card.buffers => Op.engine3D
         /\ Op.passes => Card.buffers
         /\ Op.waits => ~Op.marked /\ Op.passes
<1>1. op \in DOMAIN Operations /\ card \in DOMAIN Cards
  BY DEF DrawingType
<1>2. OperationRight(Card, Op, Relied(Card))
  BY <1>1, OperationIsRight DEF Op
<1>. QED BY <1>1, <1>2 DEF OperationRight

\* What BeginBuffer puts first.
LEMMA BeginningIs ==
  ASSUME NEW n \in DOMAIN Operations, card \in DOMAIN Cards, has3D \in BOOLEAN
  PROVE  /\ Beginning(Operations[n]) \in Beginnings /\ Beginning(Operations[n]).setup
         /\ Beginning(Operations[n]).default = (Operations[n].engine3D /\ ~has3D)
  <1>1. Operations[n].engine3D \in BOOLEAN
    BY OperationIsRight DEF OperationRight
  <1>. QED BY <1>1 DEF Beginning, Beginnings

\* Nothing is a beginning, too.
LEMMA NoIBIs == NoIB \in Beginnings /\ ~NoIB.setup /\ ~NoIB.default
  BY DEF NoIB, Beginnings

\* What is in a buffer can be drawn.
LEMMA BufferReady ==
  ASSUME DrawingInv, op # "none", ~Op.passes
  PROVE  /\ ib.setup \/ \A r \in Op.writes : regs[r] = "own"
         /\ lost \/ ib.default \/ AllDefault \/ ~Op.engine3D
         /\ Card.buffers => lost \/ ib.default \/ AllDefault
         /\ ~unwaited \/ (Card.buffers /\ WaitedFor(ib))
<1>1. inServer
  BY DEF DrawingInv, InItsPlace
<1>2. Op.engine3D => has3D
  BY DEF DrawingInv, PreparedRight
<1>3. Card.buffers => Op.engine3D
  BY OpRight DEF DrawingInv
<1>4. lost \/ ib.default \/ AllDefault \/ ~Op.engine3D
  BY <1>1, <1>2 DEF DrawingInv, DefaultsThere
<1>5. ~ib.setup => ~unwaited /\ \A r \in Op.writes : regs[r] = "own"
  BY DEF DrawingInv, PreparedRight
<1>6. ~Card.buffers => ~ib.setup
  BY NoIBIs DEF DrawingInv, BufferRight
<1>. QED BY <1>3, <1>4, <1>5, <1>6 DEF WaitedFor

\* A draw goes on with the operation, or is its last.
LEMMA SplitKeeps ==
  ASSUME DrawingInv, Split
  PROVE  DrawingInv'
<1>1. /\ op # "none" /\ Card.buffers /\ vertices /\ inServer /\ vtSema /\ ~software /\ code
  BY DEF Split, Drawing, DrawingInv, InItsPlace
<1>2. ~Op.passes
  BY <1>1 DEF DrawingInv, BufferRight
<1>3. /\ Draw(ib, FALSE) /\ ib' = NoIB
      /\ UNCHANGED <<card, gaveUp, fields, op, vertices, has3D, owner, lost, inServer, vtSema, code, marked, software>>
  BY DEF Split, context, server
<1>4. DrawingType /\ FieldsSet /\ ib \in Beginnings
  BY DEF DrawingInv, DrawingType
<1>5. /\ regs' \in [Card.registers -> Marks] /\ unwaited' = FALSE /\ flight' = flight \union {Kind(Op)}
      /\ ~found'.lost => found'.stray = {} /\ found'.unset = {} /\ ~found'.unwaited /\ found'.code
      /\ ib.default \/ AllDefault => \A r \in Relied(Card) : regs'[r] = "default"
      /\ \A r \in Op.writes : regs'[r] = "own"
  BY <1>1, <1>2, <1>3, <1>4, BufferReady, Drawn3D
<1>6. Card' = Card /\ Op' = Op /\ Operations' = Operations
  BY <1>3 DEF Card, Op, Operations
<1>7. DrawingType'
  BY <1>3, <1>4, <1>5, <1>6, NoIBIs DEF DrawingType, Kind
<1>8. InItsPlace' /\ BufferRight' /\ FieldsSet' /\ DrawsFindTheirState'
  BY <1>1, <1>2, <1>3, <1>5, <1>6 DEF InItsPlace, BufferRight, FieldsSet, DrawsFindTheirState, DrawingInv
<1>9. DefaultsThere'
  BY <1>1, <1>2, <1>3, <1>5, <1>6, BufferReady DEF DefaultsThere, AllDefault
<1>10. PreparedRight' /\ StreamWaits'
  BY <1>1, <1>3, <1>5, <1>6 DEF PreparedRight, StreamWaits, DrawingInv
<1>11. MarksKept' /\ SoftwareAfterDrawing'
  BY <1>1, <1>3, <1>5, <1>6 DEF MarksKept, SoftwareAfterDrawing, DrawingInv, Kind
<1>. QED BY <1>7, <1>8, <1>9, <1>10, <1>11 DEF DrawingInv

\* Drawing one rectangle, of an operation with a buffer or without.
LEMMA DrawRectangleKeeps ==
  ASSUME DrawingInv, DrawRectangle
  PROVE  DrawingInv'
<1>1. /\ op # "none" /\ ~Card.buffers /\ inServer /\ vtSema /\ ~software /\ code
  BY DEF DrawRectangle, Drawing, DrawingInv, InItsPlace
<1>2. ~Op.passes /\ ib = NoIB
  BY <1>1, OpRight DEF DrawingInv, BufferRight
<1>3. /\ Draw(NoIB, FALSE)
      /\ UNCHANGED <<card, gaveUp, fields, op, ib, vertices, has3D, owner, lost, inServer, vtSema, code, marked, software>>
  BY DEF DrawRectangle, context, operation, server
<1>4. DrawingType /\ FieldsSet
  BY DEF DrawingInv
<1>5. /\ regs' \in [Card.registers -> Marks] /\ unwaited' = FALSE /\ flight' = flight \union {Kind(Op)}
      /\ ~found'.lost => found'.stray = {} /\ found'.unset = {} /\ ~found'.unwaited /\ found'.code
      /\ AllDefault => \A r \in Relied(Card) : regs'[r] = "default"
      /\ \A r \in Op.writes : regs'[r] = "own"
  BY <1>1, <1>2, <1>3, <1>4, NoIBIs, BufferReady, Drawn3D
<1>6. Card' = Card /\ Op' = Op /\ Operations' = Operations
  BY <1>3 DEF Card, Op, Operations
<1>7. DrawingType'
  BY <1>3, <1>4, <1>5, <1>6 DEF DrawingType, Kind
<1>8. InItsPlace' /\ BufferRight' /\ FieldsSet' /\ DrawsFindTheirState'
  BY <1>1, <1>2, <1>3, <1>5, <1>6 DEF InItsPlace, BufferRight, FieldsSet, DrawsFindTheirState, DrawingInv
<1>9. DefaultsThere'
  BY <1>1, <1>3, <1>5, <1>6 DEF DefaultsThere, AllDefault, DrawingInv
<1>10. PreparedRight' /\ StreamWaits'
  BY <1>1, <1>3, <1>5, <1>6 DEF PreparedRight, StreamWaits, DrawingInv
<1>11. MarksKept' /\ SoftwareAfterDrawing'
  BY <1>1, <1>3, <1>5, <1>6 DEF MarksKept, SoftwareAfterDrawing, DrawingInv, Kind
<1>. QED BY <1>7, <1>8, <1>9, <1>10, <1>11 DEF DrawingInv

\* A pass of an operation that draws in several.
LEMMA PassKeeps ==
  ASSUME DrawingInv, Pass
  PROVE  DrawingInv'
<1>1. /\ op # "none" /\ Op.passes /\ inServer /\ vtSema /\ ~software /\ code
  BY DEF Pass, Drawing, DrawingInv, InItsPlace
<1>2. Card.buffers /\ Op.engine3D /\ ib = NoIB /\ ~vertices
  BY <1>1, OpRight DEF DrawingInv, BufferRight
<1>3. /\ Draw(Beginning(Op), FALSE) /\ has3D' = TRUE
      /\ UNCHANGED <<card, gaveUp, fields, op, ib, vertices, owner, lost, inServer, vtSema, code, marked, software>>
  BY DEF Pass, operation, server
<1>4. DrawingType /\ FieldsSet /\ card \in DOMAIN Cards /\ has3D \in BOOLEAN /\ op \in DOMAIN Operations
  BY <1>1 DEF DrawingInv, DrawingType
<1>5. Beginning(Op) \in Beginnings /\ Beginning(Op).setup /\ (Beginning(Op).default = ~has3D)
  BY <1>2, <1>4, BeginningIs DEF Op
<1>6. lost \/ Beginning(Op).default \/ AllDefault
  BY <1>1, <1>2, <1>5, NoIBIs DEF DrawingInv, DefaultsThere
<1>7. WaitedFor(Beginning(Op))
  BY <1>2, <1>5 DEF WaitedFor
<1>8. /\ regs' \in [Card.registers -> Marks] /\ unwaited' = FALSE /\ flight' = flight \union {Kind(Op)}
      /\ ~found'.lost => found'.stray = {} /\ found'.unset = {} /\ ~found'.unwaited /\ found'.code
      /\ Beginning(Op).default \/ AllDefault => \A r \in Relied(Card) : regs'[r] = "default"
  BY <1>1, <1>3, <1>4, <1>5, <1>6, <1>7, Drawn3D
<1>9. Card' = Card /\ Op' = Op /\ Operations' = Operations
  BY <1>3 DEF Card, Op, Operations
<1>10. DrawingType'
  BY <1>3, <1>4, <1>8, <1>9 DEF DrawingType, Kind
<1>11. InItsPlace' /\ BufferRight' /\ FieldsSet' /\ DrawsFindTheirState'
  BY <1>1, <1>2, <1>3, <1>8, <1>9 DEF InItsPlace, BufferRight, FieldsSet, DrawsFindTheirState, DrawingInv
<1>12. DefaultsThere'
  BY <1>3, <1>6, <1>8, <1>9 DEF DefaultsThere, AllDefault
<1>13. PreparedRight' /\ StreamWaits'
  BY <1>1, <1>2, <1>3, <1>8, <1>9 DEF PreparedRight, StreamWaits, DrawingInv
<1>14. MarksKept' /\ SoftwareAfterDrawing'
  BY <1>1, <1>3, <1>8, <1>9 DEF MarksKept, SoftwareAfterDrawing, DrawingInv, Kind
<1>. QED BY <1>10, <1>11, <1>12, <1>13, <1>14 DEF DrawingInv

\* Done draws what is left in the buffer.
LEMMA DoneKeeps ==
  ASSUME DrawingInv, Done
  PROVE  DrawingInv'
<1>1. /\ op # "none" /\ inServer /\ vtSema /\ ~software /\ code
  BY DEF Done, Drawing, DrawingInv, InItsPlace
<1>2. /\ op' = "none" /\ ib' = NoIB /\ vertices' = FALSE /\ marked' = (marked \/ Op.marked) /\ fields' = Left(fields)
      /\ UNCHANGED <<card, gaveUp, has3D, owner, inServer, vtSema, code, software>>
  BY DEF Done
<1>3. DrawingType /\ FieldsSet /\ ib \in Beginnings /\ regs \in [Card.registers -> Marks] /\ card \in DOMAIN Cards
  BY DEF DrawingInv, DrawingType
<1>4. /\ regs' \in [Card.registers -> Marks]
      /\ flight' \in {flight, flight \union {Kind(Op)}} /\ lost' \in BOOLEAN
      /\ ~Card.buffers /\ unwaited => unwaited' = unwaited
      /\ unwaited' => unwaited
      /\ unwaited' \in BOOLEAN
      /\ DrawsFindTheirState'
      /\ lost => lost'
      /\ ~lost' /\ (ib.default \/ AllDefault) => \A r \in Relied(Card) : regs'[r] = "default"
  <2>1. CASE Card.buffers /\ vertices
    <3>1. ~Op.passes
      BY <1>1, <2>1 DEF DrawingInv, BufferRight
    <3>2. Draw(ib, TRUE) /\ lost' = lost
      BY <2>1 DEF Done
    <3>3. /\ regs' \in [Card.registers -> Marks] /\ unwaited' = FALSE /\ flight' = flight \union {Kind(Op)}
          /\ ~found'.lost => found'.stray = {} /\ found'.unset = {} /\ ~found'.unwaited /\ found'.code
          /\ ib.default \/ AllDefault => \A r \in Relied(Card) : regs'[r] = "default"
      BY <1>1, <1>3, <3>1, <3>2, BufferReady, Drawn3D
    <3>4. lost \in BOOLEAN /\ (unwaited' \in BOOLEAN)
      BY <3>2 DEF DrawingInv, DrawingType, Draw
    <3>. QED BY <2>1, <3>2, <3>3, <3>4 DEF DrawsFindTheirState
  <2>2. CASE ~(Card.buffers /\ vertices)
    <3>1. lost' = (lost \/ ib.default) /\ regs' = Left(regs) /\ UNCHANGED <<unwaited, found, flight>>
      BY <2>2 DEF Done
    <3>2. Left(regs) \in [Card.registers -> Marks] /\ \A r \in Card.registers : regs[r] = "default" => Left(regs)[r] = "default"
      BY <1>3 DEF Left, Marks
    <3>3. Relied(Card) \subseteq Card.registers
      BY <1>3, OperationIsRight DEF CardRight
    <3>4. lost \in BOOLEAN /\ ib.default \in BOOLEAN /\ unwaited \in BOOLEAN
      BY DEF DrawingInv, DrawingType, Beginnings
    <3>5. DrawsFindTheirState'
      BY <3>1 DEF DrawingInv, DrawsFindTheirState
    <3>6. ~lost' /\ (ib.default \/ AllDefault) => \A r \in Relied(Card) : regs'[r] = "default"
      BY <3>1, <3>2, <3>3 DEF AllDefault
    <3>. QED BY <3>1, <3>2, <3>4, <3>5, <3>6
  <2>. QED BY <2>1, <2>2
<1>5. Card' = Card /\ Operations' = Operations
  BY <1>2 DEF Card, Operations
<1>6. fields' \in [Card.fields -> {"own", "other"}]
  BY <1>2 DEF Left, DrawingInv, DrawingType
<1>7. DrawingType'
  BY <1>2, <1>3, <1>4, <1>5, <1>6, NoIBIs DEF DrawingType, Kind
<1>8. InItsPlace' /\ BufferRight' /\ FieldsSet' /\ PreparedRight'
  BY <1>1, <1>2, <1>5 DEF InItsPlace, BufferRight, FieldsSet, PreparedRight
<1>9. DefaultsThere'
  BY <1>1, <1>2, <1>4, <1>5 DEF DefaultsThere, AllDefault, DrawingInv
<1>10. StreamWaits'
  BY <1>1, <1>2, <1>4, <1>5 DEF StreamWaits, DrawingInv
<1>11. MarksKept' /\ SoftwareAfterDrawing'
  BY <1>1, <1>2, <1>4, <1>5 DEF MarksKept, SoftwareAfterDrawing, DrawingInv, Kind
<1>. QED BY <1>4, <1>7, <1>8, <1>9, <1>10, <1>11 DEF DrawingInv

\* What a prepared operation may rely on in the card.
LEMMA CardFacts ==
  ASSUME DrawingType
  PROVE  /\ card \in DOMAIN Cards /\ CardRight(Card) /\ Relied(Card) \subseteq Card.registers
         /\ regs \in [Card.registers -> Marks]
         /\ \A n \in DOMAIN Operations : OperationRight(Card, Operations[n], Relied(Card)) /\ n # "none"
         /\ Left(regs) \in [Card.registers -> Marks]
         /\ \A r \in Card.registers : regs[r] = "default" => Left(regs)[r] = "default"
         /\ Overwritten \in [Card.registers -> Marks]
<1>1. card \in DOMAIN Cards /\ regs \in [Card.registers -> Marks]
  BY DEF DrawingType
<1>2. CardRight(Card) /\ \A n \in DOMAIN Operations : OperationRight(Card, Operations[n], Relied(Card))
  BY <1>1, OperationIsRight
<1>3. Relied(Card) \subseteq Card.registers
  BY <1>2 DEF CardRight
<1>4. \A n \in DOMAIN Operations : n # "none"
  BY <1>2 DEF CardRight, Operations
<1>5. /\ Left(regs) \in [Card.registers -> Marks]
      /\ \A r \in Card.registers : regs[r] = "default" => Left(regs)[r] = "default"
  BY <1>1 DEF Left, Marks
<1>6. Overwritten \in [Card.registers -> Marks]
  BY DEF Overwritten, Marks
<1>. QED BY <1>1, <1>2, <1>3, <1>4, <1>5, <1>6

\* Prepare.
LEMMA PrepareKeeps ==
  ASSUME DrawingInv, NEW n \in DOMAIN Operations, Prepare(n)
  PROVE  DrawingInv'
<1>. DEFINE o == Operations[n]
            b == Beginning(o)
<1>1. /\ op = "none" /\ inServer /\ vtSema /\ ~software /\ n # "none" /\ ib = NoIB
  BY CardFacts DEF Prepare, Drawing, DrawingInv, BufferRight
<1>2. /\ op' = n /\ vertices' = FALSE /\ fields' = Put(fields, o.sets \union o.late, "own")
      /\ UNCHANGED <<card, found, flight, gaveUp, lost, inServer, vtSema, code, marked, software>>
  BY DEF Prepare, server
<1>3. /\ DrawingType /\ card \in DOMAIN Cards /\ regs \in [Card.registers -> Marks] /\ has3D \in BOOLEAN /\ unwaited \in BOOLEAN
      /\ fields \in [Card.fields -> {"own", "other"}]
  BY DEF DrawingInv, DrawingType
<1>4. OperationRight(Card, o, Relied(Card))
  BY <1>3, CardFacts
<1>5. /\ Card' = Card /\ Operations' = Operations /\ Op' = o
  BY <1>2 DEF Card, Operations, Op
<1>6. b \in Beginnings /\ b.setup /\ b.default = (o.engine3D /\ ~has3D)
  BY <1>3, BeginningIs
<1>7. o.engine3D \in BOOLEAN /\ o.passes \in BOOLEAN /\ (Card.buffers => o.engine3D) /\ (o.passes => Card.buffers)
  BY <1>4 DEF OperationRight
<1>8. Card.buffers => /\ ib' = IF o.passes THEN NoIB ELSE b
                      /\ has3D' = (has3D \/ ~o.passes) /\ regs' = regs /\ unwaited' = unwaited /\ owner' = owner
  BY DEF Prepare
<1>9. ~Card.buffers => /\ ib' = NoIB /\ regs' = Executed(regs, b, o) /\ has3D' = (has3D \/ o.engine3D)
                       /\ unwaited' = (unwaited /\ ~WaitedFor(b)) /\ owner' = Claimed(o)
  BY DEF Prepare
<1>10. /\ Executed(regs, b, o) \in [Card.registers -> Marks]
       /\ \A r \in o.writes : Executed(regs, b, o)[r] = "own"
       /\ b.default \/ AllDefault => \A r \in Relied(Card) : Executed(regs, b, o)[r] = "default"
  BY <1>3, <1>6, Executing DEF AllDefault
<1>11. has3D => lost \/ AllDefault
  BY <1>1, NoIBIs DEF DrawingInv, DefaultsThere
<1>12. ~Card.buffers => unwaited = FALSE
  BY <1>1, <1>3 DEF DrawingInv, StreamWaits
<1>13. fields' \in [Card.fields -> {"own", "other"}] /\ \A f \in o.uses \ o.stale : fields'[f] = "own"
  BY <1>2, <1>3, <1>4 DEF Put, OperationRight
<1>. HIDE DEF b, o
<1>14. DrawingType'
  <2>1. /\ regs' \in [Card.registers -> Marks] /\ ib' \in Beginnings /\ has3D' \in BOOLEAN /\ unwaited' \in BOOLEAN
    BY <1>3, <1>6, <1>7, <1>8, <1>9, <1>10, NoIBIs
  <2>. QED BY <1>2, <1>5, <1>13, <2>1 DEF DrawingInv, DrawingType
<1>15. InItsPlace' /\ FieldsSet' /\ DrawsFindTheirState'
  BY <1>1, <1>2, <1>5, <1>13 DEF InItsPlace, FieldsSet, DrawsFindTheirState, DrawingInv
<1>16. BufferRight'
  BY <1>1, <1>2, <1>5, <1>7, <1>8, <1>9 DEF BufferRight
<1>17. DefaultsThere'
  <2>1. CASE Card.buffers
    BY <1>2, <1>5, <1>6, <1>7, <1>8, <1>11, <2>1 DEF DefaultsThere, AllDefault
  <2>2. CASE ~Card.buffers
    <3>1. has3D' /\ ~lost' => b.default \/ AllDefault
      BY <1>2, <1>6, <1>9, <1>11, <2>2
    <3>2. b.default \/ AllDefault => \A r \in Relied(Card) : regs'[r] = "default"
      BY <1>9, <1>10, <2>2
    <3>. QED BY <1>5, <3>1, <3>2 DEF DefaultsThere, AllDefault
  <2>. QED BY <2>1, <2>2
<1>18. PreparedRight'
  <2>1. CASE Card.buffers
    BY <1>5, <1>6, <1>8, <2>1 DEF PreparedRight
  <2>2. CASE ~Card.buffers
    BY <1>5, <1>9, <1>10, <1>12, <2>2 DEF PreparedRight
  <2>. QED BY <2>1, <2>2
<1>19. StreamWaits'
  BY <1>5, <1>9, <1>12 DEF StreamWaits
<1>20. MarksKept' /\ SoftwareAfterDrawing'
  BY <1>1, <1>2, <1>5 DEF MarksKept, SoftwareAfterDrawing, DrawingInv
<1>. QED BY <1>14, <1>15, <1>16, <1>17, <1>18, <1>19, <1>20 DEF DrawingInv

\* A Prepare that is refused has still set fields.
LEMMA RefuseKeeps ==
  ASSUME DrawingInv, NEW n \in DOMAIN Operations, Refuse(n)
  PROVE  DrawingInv'
<1>. DEFINE o == Operations[n]
            b == Beginning(o)
<1>1. /\ op = "none" /\ inServer /\ vtSema /\ ~software /\ ib = NoIB /\ o.refused
  BY DEF Refuse, Drawing, DrawingInv, BufferRight
<1>2. /\ has3D' = TRUE
      /\ UNCHANGED <<card, fields, op, ib, vertices, found, flight, gaveUp, inServer, vtSema, code, marked, software>>
  BY DEF Refuse, server, operation
<1>3. /\ DrawingType /\ card \in DOMAIN Cards /\ regs \in [Card.registers -> Marks] /\ has3D \in BOOLEAN /\ unwaited \in BOOLEAN
      /\ lost \in BOOLEAN
  BY DEF DrawingInv, DrawingType
<1>4. OperationRight(Card, o, Relied(Card)) /\ Relied(Card) \subseteq Card.registers
  BY <1>3, CardFacts
<1>5. /\ Card' = Card /\ Operations' = Operations
  BY <1>2 DEF Card, Operations
<1>6. b \in Beginnings /\ b.setup /\ b.default = (o.engine3D /\ ~has3D)
  BY <1>3, BeginningIs
<1>7. o.engine3D
  BY <1>1, <1>4 DEF OperationRight
<1>8. Card.buffers => lost' = (lost \/ b.default) /\ regs' = regs /\ unwaited' = unwaited /\ owner' = owner
  BY DEF Refuse
<1>9. ~Card.buffers => /\ regs' = Put(Executed(regs, b, o), o.writes, "other")
                       /\ unwaited' = (unwaited /\ ~WaitedFor(b)) /\ owner' = Claimed(o) /\ lost' = lost
  BY DEF Refuse
<1>10. /\ Executed(regs, b, o) \in [Card.registers -> Marks]
       /\ b.default \/ AllDefault => \A r \in Relied(Card) : Executed(regs, b, o)[r] = "default"
  BY <1>3, <1>6, Executing DEF AllDefault
<1>. DEFINE e == Executed(regs, b, o)
<1>11. /\ Put(e, o.writes, "other") \in [Card.registers -> Marks]
       /\ \A r \in Relied(Card) : Put(e, o.writes, "other")[r] = e[r]
  <2>. HIDE DEF e, o
  <2>1. \A r \in Relied(Card) : r \notin o.writes
    BY <1>4 DEF OperationRight, Own
  <2>2. e \in [Card.registers -> Marks]
    BY <1>10 DEF e, o
  <2>. QED BY <1>4, <2>1, <2>2 DEF Put, Marks
<1>12. has3D => lost \/ AllDefault
  BY <1>1, NoIBIs DEF DrawingInv, DefaultsThere
<1>13. ~Card.buffers => unwaited = FALSE
  BY <1>1, <1>3 DEF DrawingInv, StreamWaits
<1>. HIDE DEF b, o, e
<1>14. DrawingType'
  <2>1. /\ regs' \in [Card.registers -> Marks] /\ unwaited' \in BOOLEAN /\ lost' \in BOOLEAN
    BY <1>3, <1>6, <1>8, <1>9, <1>10, <1>11 DEF e, Beginnings
  <2>. QED BY <1>2, <1>5, <2>1 DEF DrawingInv, DrawingType
<1>15. InItsPlace' /\ FieldsSet' /\ DrawsFindTheirState' /\ BufferRight' /\ PreparedRight'
  BY <1>1, <1>2, <1>5 DEF InItsPlace, FieldsSet, DrawsFindTheirState, BufferRight, PreparedRight, DrawingInv
<1>16. DefaultsThere'
  <2>1. CASE Card.buffers
    BY <1>2, <1>5, <1>6, <1>7, <1>8, <1>12, <2>1 DEF DefaultsThere, AllDefault
  <2>2. CASE ~Card.buffers
    <3>1. ~lost' => b.default \/ AllDefault
      BY <1>3, <1>6, <1>7, <1>9, <1>12, <2>2 DEF Beginnings
    <3>2. b.default \/ AllDefault => \A r \in Relied(Card) : regs'[r] = "default"
      BY <1>9, <1>10, <1>11, <2>2 DEF e
    <3>. QED BY <1>5, <3>1, <3>2 DEF DefaultsThere, AllDefault
  <2>. QED BY <2>1, <2>2
<1>17. StreamWaits'
  BY <1>5, <1>9, <1>13 DEF StreamWaits
<1>18. MarksKept' /\ SoftwareAfterDrawing'
  BY <1>1, <1>2, <1>5 DEF MarksKept, SoftwareAfterDrawing, DrawingInv
<1>. QED BY <1>14, <1>15, <1>16, <1>17, <1>18 DEF DrawingInv

\* A Prepare that first makes room by a copy to main memory.
LEMMA PrepareEvictingKeeps ==
  ASSUME DrawingInv, NEW n \in DOMAIN Operations, PrepareEvicting(n)
  PROVE  DrawingInv'
<1>. DEFINE o == Operations[n]
            down == Operations["download"]
            b == Beginning(down)
            e == Executed(regs, b, down)
<1>1. /\ op = "none" /\ inServer /\ vtSema /\ ~software /\ n # "none" /\ ib = NoIB /\ o.evicts
  BY CardFacts DEF PrepareEvicting, Drawing, DrawingInv, BufferRight
<1>2. /\ op' = n /\ vertices' = FALSE /\ ib' = NoIB /\ has3D' = TRUE
      /\ fields' = Put(Put(Put(fields, o.sets, "own"), down.sets, "other"), o.late, "own")
      /\ regs' = Left(Put(e, down.draws, "own"))
      /\ unwaited' = (unwaited /\ ~WaitedFor(b))
      /\ UNCHANGED <<card, found, owner, lost, inServer, vtSema, code, marked, software>>
  BY DEF PrepareEvicting, server
<1>3. \/ flight' = {} /\ gaveUp' = FALSE
      \/ flight' = flight \union {"unmarked"} /\ gaveUp' = TRUE
  BY DEF PrepareEvicting
<1>4. /\ DrawingType /\ card \in DOMAIN Cards /\ regs \in [Card.registers -> Marks] /\ has3D \in BOOLEAN /\ unwaited \in BOOLEAN
      /\ fields \in [Card.fields -> {"own", "other"}]
  BY DEF DrawingInv, DrawingType
<1>5. /\ OperationRight(Card, o, Relied(Card)) /\ Relied(Card) \subseteq Card.registers
      /\ "download" \in DOMAIN Operations /\ OperationRight(Card, down, Relied(Card))
      /\ o.uses \ o.stale \subseteq o.late \union (o.sets \ down.sets)
  BY <1>1, <1>4, CardFacts DEF CardRight, Operations
<1>6. /\ Card' = Card /\ Operations' = Operations /\ Op' = o
  BY <1>2 DEF Card, Operations, Op
<1>7. Card.buffers /\ o.passes /\ down.engine3D
  BY <1>1, <1>5 DEF OperationRight
<1>8. b \in Beginnings /\ b.setup /\ b.default = ~has3D
  BY <1>4, <1>5, <1>7, BeginningIs
<1>9. /\ e \in [Card.registers -> Marks]
      /\ b.default \/ AllDefault => \A r \in Relied(Card) : e[r] = "default"
  BY <1>4, <1>5, <1>8, Executing DEF AllDefault
<1>10. \A r \in Relied(Card) : r \notin down.draws
  BY <1>5 DEF OperationRight, Own
<1>11. o.uses \subseteq Card.fields
  BY <1>5 DEF OperationRight
<1>. HIDE DEF o, down, b, e
<1>12. /\ regs' \in [Card.registers -> Marks]
       /\ \A r \in Relied(Card) : e[r] = "default" => regs'[r] = "default"
  BY <1>2, <1>5, <1>9, <1>10 DEF Put, Left, Marks
<1>13. fields' \in [Card.fields -> {"own", "other"}] /\ \A f \in o.uses \ o.stale : fields'[f] = "own"
  BY <1>2, <1>4, <1>5, <1>11 DEF Put
<1>14. lost \/ b.default \/ AllDefault
  BY <1>1, <1>8, NoIBIs DEF DrawingInv, DefaultsThere
<1>15. DrawingType'
  <2>1. flight' \subseteq {"marked", "unmarked", "client"}
    BY <1>3 DEF DrawingInv, DrawingType
  <2>. QED BY <1>2, <1>4, <1>6, <1>12, <1>13, <2>1, NoIBIs DEF DrawingInv, DrawingType
<1>16. InItsPlace' /\ FieldsSet' /\ DrawsFindTheirState' /\ BufferRight' /\ PreparedRight'
  BY <1>1, <1>2, <1>6, <1>7, <1>13 DEF InItsPlace, FieldsSet, DrawsFindTheirState, BufferRight, PreparedRight, DrawingInv
<1>17. DefaultsThere' /\ StreamWaits'
  BY <1>2, <1>6, <1>7, <1>9, <1>12, <1>14 DEF DefaultsThere, AllDefault, StreamWaits
<1>18. MarksKept' /\ SoftwareAfterDrawing'
  BY <1>1, <1>2, <1>3 DEF MarksKept, SoftwareAfterDrawing
<1>. QED BY <1>15, <1>16, <1>17, <1>18 DEF DrawingInv

\* A rectangle into the buffer.
LEMMA RectangleKeeps ==
  ASSUME DrawingInv, Rectangle
  PROVE  DrawingInv'
<1>1. /\ op # "none" /\ ~Op.passes /\ Card.buffers
      /\ UNCHANGED <<card, regs, unwaited, found, flight, gaveUp, fields, op, ib, has3D, owner, lost,
                     inServer, vtSema, code, marked, software>>
  BY DEF Rectangle, engine, context, server
<1>2. Card' = Card /\ Operations' = Operations /\ Op' = Op
  BY <1>1 DEF Card, Operations, Op
<1>3. DrawingType' /\ InItsPlace' /\ BufferRight'
  BY <1>1, <1>2 DEF DrawingInv, DrawingType, InItsPlace, BufferRight
<1>4. DefaultsThere' /\ PreparedRight' /\ FieldsSet' /\ StreamWaits'
  BY <1>1, <1>2 DEF DrawingInv, DefaultsThere, AllDefault, PreparedRight, FieldsSet, StreamWaits
<1>5. MarksKept' /\ DrawsFindTheirState' /\ SoftwareAfterDrawing'
  BY <1>1, <1>2 DEF DrawingInv, MarksKept, DrawsFindTheirState, SoftwareAfterDrawing
<1>. QED BY <1>3, <1>4, <1>5 DEF DrawingInv

\* WaitingDraws, whatever comes of it.
LEMMA WaitingDraws ==
  ASSUME DrawingInv, Waits, card' = card
  PROVE  /\ regs' \in [Card.registers -> Marks]
         /\ has3D' \in BOOLEAN /\ (has3D' => has3D)
         /\ has3D' /\ AllDefault => \A r \in Relied(Card) : regs'[r] = "default"
         /\ flight' = {} \/ (gaveUp' /\ flight' = flight)
<1>1. DrawingType /\ has3D \in BOOLEAN
  BY DEF DrawingInv, DrawingType
<1>2. \/ flight' = {} /\ regs' = Left(regs) /\ has3D' = has3D
      \/ gaveUp' = TRUE /\ regs' = Left(regs) /\ flight' = flight /\ has3D' = has3D
      \/ flight' = {} /\ regs' = Overwritten /\ has3D' = FALSE
  BY DEF Waits
<1>3. Left(regs) \in [Card.registers -> Marks] /\ Overwritten \in [Card.registers -> Marks]
  BY <1>1, CardFacts
<1>4. AllDefault => \A r \in Relied(Card) : Left(regs)[r] = "default"
  BY <1>1, CardFacts DEF AllDefault
<1>5. /\ regs' \in [Card.registers -> Marks]
      /\ has3D' \in BOOLEAN /\ (has3D' => has3D)
  <2>1. regs' \in {Left(regs), Overwritten}
    BY <1>2
  <2>2. has3D' \in BOOLEAN /\ (has3D' => has3D)
    <3>1. has3D' = has3D \/ has3D' = FALSE
      BY <1>2
    <3>2. CASE has3D' = has3D
      BY <1>1, <3>2, Zenon
    <3>3. CASE has3D' = FALSE
      BY <3>3
    <3>. QED BY <3>1, <3>2, <3>3
  <2>3. regs' \in [Card.registers -> Marks]
    BY <1>3, <2>1
  <2>. QED BY <2>2, <2>3
<1>6. has3D' => regs' = Left(regs)
  BY <1>2
<1>7. has3D' /\ AllDefault => \A r \in Relied(Card) : regs'[r] = "default"
  BY <1>4, <1>6
<1>8. flight' = {} \/ (gaveUp' /\ flight' = flight)
  BY <1>2
<1>. QED BY <1>5, <1>7, <1>8

\* Done and a wait for the marker.
LEMMA DoneWaitingKeeps ==
  ASSUME DrawingInv, DoneWaiting
  PROVE  DrawingInv'
<1>1. /\ op # "none" /\ Op.waits /\ inServer /\ vtSema /\ ~software /\ Waits
      /\ op' = "none" /\ ib' = NoIB /\ vertices' = FALSE /\ fields' = Left(fields)
      /\ UNCHANGED <<card, unwaited, found, owner, lost, inServer, vtSema, code, marked, software>>
  BY DEF DoneWaiting, Drawing, server
<1>2. Card' = Card /\ Operations' = Operations
  BY <1>1 DEF Card, Operations
<1>3. /\ regs' \in [Card.registers -> Marks]
      /\ has3D' \in BOOLEAN /\ (has3D' => has3D)
      /\ has3D' /\ AllDefault => \A r \in Relied(Card) : regs'[r] = "default"
      /\ flight' = {} \/ (gaveUp' /\ flight' = flight)
  BY <1>1, WaitingDraws
<1>4. DrawingType'
  <2>1. fields' \in [Card.fields -> {"own", "other"}]
    BY <1>1 DEF Left, DrawingInv, DrawingType
  <2>2. flight' \subseteq {"marked", "unmarked", "client"}
    BY <1>3 DEF DrawingInv, DrawingType
  <2>. QED BY <1>1, <1>2, <1>3, <2>1, <2>2, NoIBIs DEF DrawingInv, DrawingType
<1>5. InItsPlace' /\ BufferRight' /\ FieldsSet' /\ PreparedRight' /\ DrawsFindTheirState' /\ StreamWaits'
  BY <1>1, <1>2 DEF DrawingInv, InItsPlace, BufferRight, FieldsSet, PreparedRight, DrawsFindTheirState, StreamWaits
<1>6. DefaultsThere'
  <2>1. ~ib.default
    BY <1>1, OpRight, NoIBIs DEF DrawingInv, BufferRight
  <2>. QED BY <1>1, <1>2, <1>3, <2>1 DEF DrawingInv, DefaultsThere, AllDefault
<1>7. MarksKept' /\ SoftwareAfterDrawing'
  BY <1>1, <1>3, OpRight DEF DrawingInv, MarksKept, SoftwareAfterDrawing
<1>. QED BY <1>4, <1>5, <1>6, <1>7 DEF DrawingInv

\* The card finishes what is under way.
LEMMA FinishKeeps ==
  ASSUME DrawingInv, Finish
  PROVE  DrawingInv'
<1>1. /\ flight' = {} /\ gaveUp' = FALSE
      /\ UNCHANGED <<card, regs, unwaited, found, fields, op, ib, vertices, has3D, owner, lost,
                     inServer, vtSema, code, marked, software>>
  BY DEF Finish, operation, context, server
<1>2. Card' = Card /\ Operations' = Operations /\ Op' = Op
  BY <1>1 DEF Card, Operations, Op
<1>3. DrawingType' /\ InItsPlace' /\ BufferRight'
  BY <1>1, <1>2 DEF DrawingInv, DrawingType, InItsPlace, BufferRight
<1>4. DefaultsThere' /\ PreparedRight' /\ FieldsSet' /\ StreamWaits'
  BY <1>1, <1>2 DEF DrawingInv, DefaultsThere, AllDefault, PreparedRight, FieldsSet, StreamWaits
<1>5. MarksKept' /\ DrawsFindTheirState' /\ SoftwareAfterDrawing'
  BY <1>1, <1>2 DEF DrawingInv, MarksKept, DrawsFindTheirState, SoftwareAfterDrawing
<1>. QED BY <1>3, <1>4, <1>5 DEF DrawingInv

\* What is under way without a mark is of no concern to software.
LEMMA PrepareAccessKeeps ==
  ASSUME DrawingInv, PrepareAccess
  PROVE  DrawingInv'
<1>1. /\ op = "none" /\ inServer /\ vtSema /\ ~software /\ software' = TRUE /\ marked' = FALSE
      /\ IF marked THEN Waits ELSE UNCHANGED <<flight, gaveUp, regs, has3D>>
      /\ UNCHANGED <<card, unwaited, found, fields, op, ib, vertices, owner, lost, inServer, vtSema, code>>
  BY DEF PrepareAccess, Drawing, operation
<1>2. Card' = Card /\ Operations' = Operations
  BY <1>1 DEF Card, Operations
<1>3. /\ regs' \in [Card.registers -> Marks]
      /\ has3D' \in BOOLEAN /\ (has3D' => has3D)
      /\ has3D' /\ AllDefault => \A r \in Relied(Card) : regs'[r] = "default"
      /\ \/ flight' = {} \/ (gaveUp' /\ flight' = flight)
         \/ ~marked /\ flight' = flight /\ gaveUp' = gaveUp
  <2>1. CASE marked
    BY <1>1, <2>1, WaitingDraws
  <2>2. CASE ~marked
    BY <1>1, <2>2 DEF AllDefault, DrawingInv, DrawingType
  <2>. QED BY <2>1, <2>2
<1>4. DrawingType'
  <2>1. flight' \subseteq {"marked", "unmarked", "client"}
    BY <1>3 DEF DrawingInv, DrawingType
  <2>. QED BY <1>1, <1>2, <1>3, <2>1 DEF DrawingInv, DrawingType
<1>5. InItsPlace' /\ BufferRight' /\ FieldsSet' /\ PreparedRight' /\ DrawsFindTheirState' /\ StreamWaits'
  BY <1>1, <1>2 DEF DrawingInv, InItsPlace, BufferRight, FieldsSet, PreparedRight, DrawsFindTheirState, StreamWaits
<1>6. DefaultsThere'
  BY <1>1, <1>2, <1>3 DEF DrawingInv, DefaultsThere, AllDefault
<1>7. ~gaveUp' => "client" \notin flight' /\ "marked" \notin flight'
  BY <1>1, <1>3 DEF DrawingInv, MarksKept
<1>8. MarksKept' /\ SoftwareAfterDrawing'
  BY <1>4, <1>7 DEF DrawingType, MarksKept, SoftwareAfterDrawing
<1>. QED BY <1>4, <1>5, <1>6, <1>8 DEF DrawingInv

\* The end of access by software.
LEMMA FinishAccessKeeps ==
  ASSUME DrawingInv, FinishAccess
  PROVE  DrawingInv'
<1>1. /\ software' = FALSE
      /\ UNCHANGED <<card, regs, unwaited, found, flight, gaveUp, fields, op, ib, vertices, has3D, owner, lost,
                     inServer, vtSema, code, marked>>
  BY DEF FinishAccess, engine, operation, context
<1>2. Card' = Card /\ Operations' = Operations /\ Op' = Op
  BY <1>1 DEF Card, Operations, Op
<1>3. DrawingType' /\ InItsPlace' /\ BufferRight'
  BY <1>1, <1>2 DEF DrawingInv, DrawingType, InItsPlace, BufferRight
<1>4. DefaultsThere' /\ PreparedRight' /\ FieldsSet' /\ StreamWaits'
  BY <1>1, <1>2 DEF DrawingInv, DefaultsThere, AllDefault, PreparedRight, FieldsSet, StreamWaits
<1>5. MarksKept' /\ DrawsFindTheirState' /\ SoftwareAfterDrawing'
  BY <1>1, <1>2 DEF DrawingInv, MarksKept, DrawsFindTheirState, SoftwareAfterDrawing
<1>. QED BY <1>3, <1>4, <1>5 DEF DrawingInv

\* The server goes to sleep.
LEMMA BlockKeeps ==
  ASSUME DrawingInv, Block
  PROVE  DrawingInv'
<1>1. /\ op = "none" /\ inServer /\ vtSema /\ ~software /\ inServer' = FALSE
      /\ UNCHANGED <<card, regs, unwaited, found, flight, gaveUp, fields, op, ib, vertices, has3D, owner, lost,
                     vtSema, code, marked, software>>
  BY DEF Block, Drawing, engine, operation, context
<1>2. Card' = Card /\ Operations' = Operations /\ Op' = Op
  BY <1>1 DEF Card, Operations, Op
<1>3. DrawingType' /\ InItsPlace' /\ BufferRight'
  BY <1>1, <1>2 DEF DrawingInv, DrawingType, InItsPlace, BufferRight
<1>4. DefaultsThere' /\ PreparedRight' /\ FieldsSet' /\ StreamWaits'
  BY <1>1, <1>2 DEF DrawingInv, DefaultsThere, AllDefault, PreparedRight, FieldsSet, StreamWaits
<1>5. MarksKept' /\ DrawsFindTheirState' /\ SoftwareAfterDrawing'
  BY <1>1, <1>2 DEF DrawingInv, MarksKept, DrawsFindTheirState, SoftwareAfterDrawing
<1>. QED BY <1>3, <1>4, <1>5 DEF DrawingInv

\* A client takes the lock and draws.
LEMMA ClientDrawsKeeps ==
  ASSUME DrawingInv, ClientDraws
  PROVE  DrawingInv'
<1>1. /\ ~inServer /\ owner' = "client" /\ regs' = Overwritten /\ unwaited' = TRUE /\ flight' = flight \union {"client"}
      /\ UNCHANGED <<card, found, gaveUp, fields, op, ib, vertices, has3D, lost, inServer, vtSema, code, marked, software>>
  BY DEF ClientDraws, operation, server
<1>2. Card' = Card /\ Operations' = Operations
  BY <1>1 DEF Card, Operations
<1>3. op = "none" /\ ~software
  BY <1>1 DEF DrawingInv, InItsPlace
<1>4. regs' \in [Card.registers -> Marks]
  BY <1>1, CardFacts DEF DrawingInv
<1>5. DrawingType' /\ InItsPlace' /\ BufferRight'
  BY <1>1, <1>2, <1>3, <1>4 DEF DrawingInv, DrawingType, InItsPlace, BufferRight
<1>6. DefaultsThere' /\ PreparedRight' /\ FieldsSet' /\ StreamWaits'
  BY <1>1, <1>2, <1>3 DEF DefaultsThere, PreparedRight, FieldsSet, StreamWaits
<1>7. MarksKept' /\ DrawsFindTheirState' /\ SoftwareAfterDrawing'
  BY <1>1, <1>2, <1>3 DEF DrawingInv, MarksKept, DrawsFindTheirState, SoftwareAfterDrawing
<1>. QED BY <1>5, <1>6, <1>7 DEF DrawingInv

\* A wakeup marks a sync, and believes XHas3DEngineState only if no client has
\* taken the context.
LEMMA WakeUpKeeps ==
  ASSUME DrawingInv, WakeUp
  PROVE  DrawingInv'
<1>1. /\ ~inServer /\ inServer' = TRUE /\ marked' = TRUE
      /\ has3D' = (has3D /\ owner = "X") /\ lost' = (lost /\ owner = "X")
      /\ unwaited' = (unwaited /\ (Card.buffers \/ owner = "X"))
      /\ UNCHANGED <<card, regs, found, flight, gaveUp, fields, op, ib, vertices, owner, vtSema, code, software>>
  BY DEF WakeUp, Marked, Reconsidered, operation
<1>2. Card' = Card /\ Operations' = Operations
  BY <1>1 DEF Card, Operations
<1>3. op = "none" /\ ~software /\ DrawingType
  BY <1>1 DEF DrawingInv, InItsPlace
<1>4. DrawingType'
  <2>1. has3D' \in BOOLEAN /\ lost' \in BOOLEAN /\ unwaited' \in BOOLEAN
    BY <1>1
  <2>. QED BY <1>1, <1>2, <1>3, <2>1 DEF DrawingType
<1>5. InItsPlace' /\ BufferRight' /\ PreparedRight' /\ FieldsSet'
  BY <1>1, <1>2, <1>3 DEF DrawingInv, InItsPlace, BufferRight, PreparedRight, FieldsSet
<1>6. DefaultsThere' /\ StreamWaits'
  BY <1>1, <1>2, <1>3 DEF DrawingInv, DefaultsThere, AllDefault, StreamWaits
<1>7. MarksKept' /\ DrawsFindTheirState' /\ SoftwareAfterDrawing'
  BY <1>1, <1>2, <1>3 DEF DrawingInv, MarksKept, DrawsFindTheirState, SoftwareAfterDrawing
<1>. QED BY <1>4, <1>5, <1>6, <1>7 DEF DrawingInv

\* The engine comes to rest, or is reset: SwitchMode and LeaveVT.
LEMMA IdleKeeps ==
  ASSUME DrawingInv, EngineIdle, op = "none",
         UNCHANGED <<card, found, fields, op, ib, vertices, owner, inServer, marked, software>>,
         vtSema' => vtSema /\ code', inServer, ~software
  PROVE  DrawingInv'
<1>1. /\ flight' = {} /\ gaveUp' = FALSE /\ unwaited' = FALSE
      /\ \/ UNCHANGED <<regs, has3D, lost>>
         \/ regs' = Overwritten /\ has3D' = FALSE /\ lost' = FALSE
  BY DEF EngineIdle
<1>2. Card' = Card /\ Operations' = Operations
  BY DEF Card, Operations
<1>3. DrawingType'
  <2>1. regs' \in [Card.registers -> Marks] /\ has3D' \in BOOLEAN /\ lost' \in BOOLEAN
    BY <1>1, CardFacts DEF DrawingInv, DrawingType
  <2>. QED BY <1>1, <1>2, <2>1 DEF DrawingInv, DrawingType
<1>4. InItsPlace' /\ BufferRight' /\ PreparedRight' /\ FieldsSet' /\ StreamWaits'
  BY <1>1, <1>2 DEF DrawingInv, InItsPlace, BufferRight, PreparedRight, FieldsSet, StreamWaits
<1>5. DefaultsThere'
  BY <1>1, <1>2 DEF DrawingInv, DefaultsThere, AllDefault
<1>6. MarksKept' /\ DrawsFindTheirState' /\ SoftwareAfterDrawing'
  BY <1>1, <1>2 DEF DrawingInv, MarksKept, DrawsFindTheirState, SoftwareAfterDrawing
<1>. QED BY <1>3, <1>4, <1>5, <1>6 DEF DrawingInv

\* The VT is entered.
LEMMA EnterVTKeeps ==
  ASSUME DrawingInv, EnterVT
  PROVE  DrawingInv'
<1>1. /\ ~vtSema /\ vtSema' = TRUE /\ code' = TRUE /\ regs' = Overwritten /\ has3D' = FALSE /\ lost' = FALSE
      /\ UNCHANGED <<card, unwaited, found, flight, gaveUp, fields, op, ib, vertices, owner, inServer, marked, software>>
  BY DEF EnterVT, operation
<1>2. Card' = Card /\ Operations' = Operations
  BY <1>1 DEF Card, Operations
<1>3. op = "none" /\ ~software /\ inServer
  BY <1>1 DEF DrawingInv, InItsPlace
<1>4. DrawingType'
  <2>1. regs' \in [Card.registers -> Marks]
    BY <1>1, CardFacts DEF DrawingInv
  <2>. QED BY <1>1, <1>2, <2>1 DEF DrawingInv, DrawingType
<1>5. InItsPlace' /\ BufferRight' /\ PreparedRight' /\ FieldsSet' /\ StreamWaits' /\ DefaultsThere'
  BY <1>1, <1>2, <1>3 DEF DrawingInv, InItsPlace, BufferRight, PreparedRight, FieldsSet, StreamWaits, DefaultsThere
<1>6. MarksKept' /\ DrawsFindTheirState' /\ SoftwareAfterDrawing'
  BY <1>1, <1>2, <1>3 DEF DrawingInv, MarksKept, DrawsFindTheirState, SoftwareAfterDrawing
<1>. QED BY <1>4, <1>5, <1>6 DEF DrawingInv

\* The server starts.
LEMMA DrawingInitRight == DrawingInit => DrawingInv
<1>. SUFFICES ASSUME DrawingInit PROVE DrawingInv
  OBVIOUS
<1>1. /\ card \in DOMAIN Cards
      /\ regs = Overwritten /\ unwaited = FALSE /\ found = Nothing
      /\ flight = {} /\ gaveUp = FALSE /\ fields = [f \in Card.fields |-> "other"]
      /\ op = "none" /\ ib = NoIB /\ vertices = FALSE
      /\ has3D = FALSE /\ owner = "nobody" /\ lost = FALSE
      /\ inServer = TRUE /\ vtSema = TRUE /\ code = TRUE /\ marked = FALSE /\ software = FALSE
  BY DEF DrawingInit
<1>2. DrawingType
  <2>1. regs \in [Card.registers -> Marks]
    BY <1>1 DEF Overwritten, Marks
  <2>2. fields \in [Card.fields -> {"own", "other"}]
    BY <1>1
  <2>. QED BY <1>1, <2>1, <2>2, NoIBIs DEF DrawingType
<1>3. InItsPlace /\ BufferRight /\ DefaultsThere /\ PreparedRight /\ FieldsSet /\ StreamWaits /\ MarksKept
  BY <1>1 DEF InItsPlace, BufferRight, DefaultsThere, PreparedRight, FieldsSet, StreamWaits, MarksKept
<1>4. DrawsFindTheirState /\ SoftwareAfterDrawing
  BY <1>1 DEF DrawsFindTheirState, SoftwareAfterDrawing, Nothing
<1>. QED BY <1>2, <1>3, <1>4 DEF DrawingInv

\* Each call keeps DrawingInv.
LEMMA DrawingStep == DrawingInv /\ [DrawingNext]_drawingVars => DrawingInv'
<1>. SUFFICES ASSUME DrawingInv, [DrawingNext]_drawingVars PROVE DrawingInv'
  OBVIOUS
<1>1. CASE \E n \in DOMAIN Operations : Prepare(n) \/ Refuse(n) \/ PrepareEvicting(n)
  BY <1>1, PrepareKeeps, RefuseKeeps, PrepareEvictingKeeps
<1>2. CASE Rectangle \/ Split \/ DrawRectangle \/ Pass \/ Done \/ DoneWaiting \/ Finish
  BY <1>2, RectangleKeeps, SplitKeeps, DrawRectangleKeeps, PassKeeps, DoneKeeps, DoneWaitingKeeps, FinishKeeps
<1>3. CASE PrepareAccess \/ FinishAccess \/ Block \/ ClientDraws \/ WakeUp
  BY <1>3, PrepareAccessKeeps, FinishAccessKeeps, BlockKeeps, ClientDrawsKeeps, WakeUpKeeps
<1>4. CASE SwitchMode
  <2>1. /\ op = "none" /\ EngineIdle /\ inServer /\ vtSema /\ ~software
        /\ UNCHANGED <<card, found, fields, op, ib, vertices, owner, inServer, vtSema, code, marked, software>>
    BY <1>4 DEF SwitchMode, Drawing, operation, server
  <2>2. code
    BY <2>1 DEF DrawingInv, InItsPlace
  <2>. QED BY <2>1, <2>2, IdleKeeps
<1>5. CASE LeaveVT
  <2>1. /\ op = "none" /\ EngineIdle /\ inServer /\ ~software /\ vtSema' = FALSE
        /\ UNCHANGED <<card, found, fields, op, ib, vertices, owner, inServer, marked, software>>
    BY <1>5 DEF LeaveVT, Drawing, operation
  <2>. QED BY <2>1, IdleKeeps
<1>6. CASE EnterVT
  BY <1>6, EnterVTKeeps
<1>7. CASE UNCHANGED drawingVars
  <2>1. UNCHANGED <<card, regs, unwaited, found, flight, gaveUp, fields, op, ib, vertices,
                    has3D, owner, lost, inServer, vtSema, code, marked, software>>
    BY <1>7 DEF drawingVars
  <2>2. Card' = Card /\ Operations' = Operations /\ Op' = Op
    BY <2>1 DEF Card, Operations, Op
  <2>3. DrawingType' /\ InItsPlace' /\ BufferRight'
    BY <2>1, <2>2 DEF DrawingInv, DrawingType, InItsPlace, BufferRight
  <2>4. DefaultsThere' /\ PreparedRight' /\ FieldsSet' /\ StreamWaits'
    BY <2>1, <2>2 DEF DrawingInv, DefaultsThere, AllDefault, PreparedRight, FieldsSet, StreamWaits
  <2>5. MarksKept' /\ DrawsFindTheirState' /\ SoftwareAfterDrawing'
    BY <2>1, <2>2 DEF DrawingInv, MarksKept, DrawsFindTheirState, SoftwareAfterDrawing
  <2>. QED BY <2>3, <2>4, <2>5 DEF DrawingInv
<1>. QED BY <1>1, <1>2, <1>3, <1>4, <1>5, <1>6, <1>7 DEF DrawingNext

\* Whatever operations, clients, resets and VT switches came before, and on every
\* card of the tables: each draw of X finds its registers, its fields and its
\* shaders, and has waited for the clients.
THEOREM StateFound == DrawingSpec => []DrawsFindTheirState
<1>1. DrawingInv => DrawsFindTheirState
  BY DEF DrawingInv
<1>. QED BY <1>1, DrawingInitRight, DrawingStep, PTL DEF DrawingSpec

\* Software drawing has the pixmaps to itself: EXA's mark is set for all that is
\* under way.
THEOREM SoftwareAlone == DrawingSpec => []SoftwareAfterDrawing
<1>1. DrawingInv => SoftwareAfterDrawing
  BY DEF DrawingInv
<1>. QED BY <1>1, DrawingInitRight, DrawingStep, PTL DEF DrawingSpec

(***************************************************************************)
(* Copies within a pixmap.  CutUp says what the blits of a copy must be:   *)
(* none writes what a later one reads or what it reads itself, and none    *)
(* leaves the destination but for the last column.  That R600OverlapCopy   *)
(* cuts so is arithmetic (ColumnsFollow, RowsFollow, StretchFirst); that   *)
(* any cutting like this makes the copy is the invariant Cutting, which    *)
(* what is left of the blits keeps.                                        *)
(***************************************************************************)

Jobs == [w : 1 .. MaxSide, h : 1 .. MaxSide, dx : - MaxShift .. MaxShift, dy : - MaxShift .. MaxShift]
Pixels == Coordinates \X Coordinates
Rects == {Rect(x, v, w, tall) : x, v, w, tall \in Int}

\* What a blit reads and writes, and where the copy goes.
Reads(b, p) == In(p, b.x, b.y, b.w, b.h)
Writes(b, p, j) == In(p, b.x + j.dx, b.y + j.dy, b.w, b.h)
Wanted(p, j) == In(p, j.dx, j.dy, j.w, j.h)
Before(p, j) == <<p[1] - j.dx, p[2] - j.dy>>

\* Blit c does not write what b reads.
Spared(b, c, j) ==
  \/ b.x + b.w <= c.x + j.dx \/ c.x + j.dx + c.w <= b.x
  \/ b.y + b.h <= c.y + j.dy \/ c.y + j.dy + c.h <= b.y

\* A blit within the source, or one whose columns stick out at a side.
Inside(b, j) == 0 <= b.x /\ b.x + b.w <= j.w /\ 0 <= b.y /\ b.y + b.h <= j.h
SticksOut(b, j) ==
  /\ j.dx # 0 /\ j.w % Abs(j.dx) # 0
  /\ - Abs(j.dx) < b.x /\ b.x + b.w < j.w + Abs(j.dx) /\ 0 <= b.y /\ b.y + b.h <= j.h

\* The source is cut up well: what is written has been read, but for pixels
\* beside it no others are touched, and no pixel is left out.
CutUp(B, j) ==
  /\ B \in Seq(Rects)
  /\ \A i \in 1 .. Len(B) : \A k \in 1 .. i : Spared(B[i], B[k], j)
  /\ \A i \in 1 .. Len(B) : Inside(B[i], j) \/ (SticksOut(B[i], j) /\ (j.dy # 0 => FewerColumns(j)))
  /\ \A x \in 0 .. j.w - 1, v \in 0 .. j.h - 1 :
       \E i \in 1 .. Len(B) : /\ B[i].x <= x /\ x < B[i].x + B[i].w
                              /\ B[i].y <= v /\ v < B[i].y + B[i].h

\* The chunks of n pixels follow one another and leave none out.
LEMMA ChunksFollow ==
  ASSUME NEW n \in Nat, NEW c \in Nat \ {0}
  PROVE  /\ Rounds(n, c) \in Nat
         /\ \A k \in 1 .. Rounds(n, c) :
              /\ (k - 1) * c \in Nat /\ k * c \in Nat /\ k * c = (k - 1) * c + c
              /\ (k - 1) * c < n /\ (n % c = 0 => k * c <= n)
         /\ \A i, k \in 1 .. Rounds(n, c) : k < i => k * c <= (i - 1) * c
         /\ \A x \in 0 .. n - 1 : \E k \in 1 .. Rounds(n, c) : (k - 1) * c <= x /\ x < k * c
<1>1. CASE n = 0
  BY <1>1 DEF Rounds
<1>2. CASE n # 0
  <2>1. PICK r \in Nat : r = Rounds(n, c) /\ r * c <= n + c - 1 /\ n + c - 1 < r * c + c
    <3>1. n + c - 1 \in Nat
      OBVIOUS
    <3>2. PICK r \in Nat : r = (n + c - 1) \div c
      BY <3>1, Divided
    <3>3. n + c - 1 = c * r + ((n + c - 1) % c) /\ (n + c - 1) % c \in 0 .. c - 1
      BY <3>1, <3>2, Divided
    <3>4. c * r = r * c /\ r * c \in Nat
      BY TimesNat
    <3>. QED BY <1>2, <3>2, <3>3, <3>4 DEF Rounds
  <2>2. ASSUME NEW k \in Nat \ {0} PROVE (k - 1) * c \in Nat /\ k * c \in Nat /\ k * c = (k - 1) * c + c
    <3>1. (k - 1) * c \in Nat /\ k * c \in Nat
      BY TimesNat
    <3>2. k * c = (k - 1) * c + c
      OBVIOUS
    <3>. QED BY <3>1, <3>2
  <2>3. ASSUME NEW k \in 1 .. r PROVE (k - 1) * c < n
    <3>1. k * c <= r * c
      BY TimesAbove
    <3>. QED BY <3>1, <2>1, <2>2, TimesNat
  <2>4. ASSUME NEW k \in 1 .. r, n % c = 0 PROVE k * c <= n
    <3>1. PICK q \in Nat : n = q * c
      <4>1. n = c * (n \div c) + (n % c) /\ n \div c \in Nat /\ c * (n \div c) = (n \div c) * c
        BY Divided
      <4>2. n = (n \div c) * c
        BY <4>1, <2>4
      <4>. QED BY <4>1, <4>2
    <3>2. CASE k <= q
      BY <3>1, <3>2, TimesAbove
    <3>3. CASE q <= k - 1
      <4>1. q * c <= (k - 1) * c
        BY <3>3, TimesAbove
      <4>. QED BY <4>1, <3>1, <2>3, <2>2
    <3>. QED BY <3>2, <3>3
  <2>5. ASSUME NEW i \in 1 .. r, NEW k \in 1 .. r, k < i PROVE k * c <= (i - 1) * c
    BY <2>5, TimesAbove
  <2>6. ASSUME NEW x \in 0 .. n - 1 PROVE \E k \in 1 .. r : (k - 1) * c <= x /\ x < k * c
    <3>1. PICK q \in Nat : x = q * c + (x % c) /\ x % c \in 0 .. c - 1
      <4>1. /\ x = c * (x \div c) + (x % c) /\ x \div c \in Nat /\ c * (x \div c) = (x \div c) * c
            /\ x % c \in Nat /\ x % c < c
        BY Divided
      <4>2. x = (x \div c) * c + (x % c) /\ x % c \in 0 .. c - 1
        BY <4>1
      <4>. QED BY <4>1, <4>2
    <3>2. (q + 1) * c = q * c + c /\ q * c \in Nat
      BY <2>2
    <3>3. q + 1 <= r
      <4>1. CASE r <= q
        <5>1. r * c <= q * c
          BY <4>1, TimesAbove
        <5>. QED BY <5>1, <3>1, <3>2, <2>1, TimesNat
      <4>. QED BY <4>1
    <3>4. q + 1 \in 1 .. r /\ ((q + 1) - 1) * c <= x /\ x < (q + 1) * c
      BY <3>1, <3>2, <3>3
    <3>. QED BY <3>4
  <2>. QED BY <2>1, <2>2, <2>3, <2>4, <2>5, <2>6
<1>. QED BY <1>1, <1>2

LEMMA RectIs ==
  ASSUME NEW x, NEW v, NEW w, NEW tall
  PROVE  /\ Rect(x, v, w, tall).x = x /\ Rect(x, v, w, tall).y = v
         /\ Rect(x, v, w, tall).w = w /\ Rect(x, v, w, tall).h = tall
         /\ Rect(x, v, w, tall).from = "pixmap" /\ Rect(x, v, w, tall).to = "pixmap"
  BY DEF Rect

LEMMA RectsAre ==
  ASSUME NEW b \in Rects
  PROVE  /\ b.x \in Int /\ b.y \in Int /\ b.w \in Int /\ b.h \in Int
         /\ b.from = "pixmap" /\ b.to = "pixmap"
<1>1. PICK x \in Int, v \in Int, w \in Int, tall \in Int : b = Rect(x, v, w, tall)
  BY DEF Rects
<1>. QED BY <1>1, RectIs

LEMMA RectIn ==
  ASSUME NEW x \in Int, NEW v \in Int, NEW w \in Int, NEW tall \in Int
  PROVE  Rect(x, v, w, tall) \in Rects
  BY DEF Rects

LEMMA JobIs ==
  ASSUME NEW j \in Jobs
  PROVE  /\ j.w \in Nat \ {0} /\ j.h \in Nat \ {0} /\ j.dx \in Int /\ j.dy \in Int
         /\ j.w <= MaxSide /\ j.h <= MaxSide
         /\ - MaxShift <= j.dx /\ j.dx <= MaxShift /\ - MaxShift <= j.dy /\ j.dy <= MaxShift
         /\ Abs(j.dx) \in Nat /\ Abs(j.dy) \in Nat
         /\ (j.dx # 0 => Abs(j.dx) \in Nat \ {0}) /\ (j.dy # 0 => Abs(j.dy) \in Nat \ {0})
         /\ (0 < j.dx => j.dx = Abs(j.dx)) /\ (~(0 < j.dx) => j.dx = - Abs(j.dx))
         /\ (0 < j.dy => j.dy = Abs(j.dy)) /\ (~(0 < j.dy) => j.dy = - Abs(j.dy))
  BY SideAssumption DEF Jobs, Abs

\* A copy that overlaps goes no further than it is large.
LEMMA Overlapping ==
  ASSUME NEW j \in Jobs, IsOverlap(j)
  PROVE  Abs(j.dx) <= j.w /\ Abs(j.dy) <= j.h
<1>1. PICK x \in {0, j.w}, v \in {0, j.h} : Within(x, j.dx, j.dx + j.w) /\ Within(v, j.dy, j.dy + j.h)
  BY DEF IsOverlap
<1>. QED BY <1>1, JobIs DEF Within, Abs

\* Columns and rows of the whole source, or of what is left of it, from some
\* place on: each is written where an earlier one was read, or beside the source.
ColumnsOf(j, v, tall) == Columns(0, v, j.w, tall, 0 < j.dx, Abs(j.dx))
RowsOf(j, x, w) == Rows(x, 0, w, j.h, 0 < j.dy, Abs(j.dy))

ColumnsRight(C, j, v, tall) ==
  /\ C \in Seq(Rects)
  /\ \A i \in 1 .. Len(C) :
       /\ C[i].y = v /\ C[i].h = tall
       /\ \/ 0 <= C[i].x /\ C[i].x + C[i].w <= j.w
          \/ j.w % Abs(j.dx) # 0 /\ - Abs(j.dx) < C[i].x /\ C[i].x + C[i].w < j.w + Abs(j.dx)
       /\ \A k \in 1 .. i : Spared(C[i], C[k], j)
  /\ \A x \in 0 .. j.w - 1 : \E i \in 1 .. Len(C) : C[i].x <= x /\ x < C[i].x + C[i].w

RowsRight(C, j, x, w) ==
  /\ C \in Seq(Rects)
  /\ \A i \in 1 .. Len(C) :
       /\ C[i].x = x /\ C[i].w = w
       /\ 0 <= C[i].y /\ C[i].y + C[i].h <= j.h
       /\ \A k \in 1 .. i : Spared(C[i], C[k], j)
  /\ \A v \in 0 .. j.h - 1 : \E i \in 1 .. Len(C) : C[i].y <= v /\ v < C[i].y + C[i].h

LEMMA ColumnsFollow ==
  ASSUME NEW j \in Jobs, j.dx # 0, NEW v \in Int, NEW tall \in Int,
         NEW C, C = ColumnsOf(j, v, tall)
  PROVE  ColumnsRight(C, j, v, tall)
<1> DEFINE c == Abs(j.dx)
           r == Rounds(j.w, c)
<1>1. c \in Nat \ {0} /\ j.w \in Nat /\ j.dx \in Int /\ (0 < j.dx => j.dx = c) /\ (~(0 < j.dx) => j.dx = - c)
  BY JobIs
<1>2. r \in Nat
  BY <1>1, ChunksFollow
<1> DEFINE at(k) == IF 0 < j.dx THEN 0 + j.w - k * c ELSE 0 + (k - 1) * c
<1>3. C = [k \in 1 .. r |-> Rect(at(k), v, c, tall)]
  BY DEF ColumnsOf, Columns
<1>4. ASSUME NEW k \in 1 .. r
      PROVE  /\ (k - 1) * c \in Nat /\ k * c \in Nat /\ k * c = (k - 1) * c + c
             /\ (k - 1) * c < j.w /\ (j.w % c = 0 => k * c <= j.w)
  BY <1>1, ChunksFollow
<1>5. \A k \in 1 .. r : at(k) \in Int
  BY <1>1, <1>4
<1>6. C \in [1 .. r -> Rects]
  BY <1>1, <1>3, <1>5 DEF Rects
<1>7. C \in Seq(Rects) /\ Len(C) = r
  BY <1>2, <1>6
<1>8. \A k \in 1 .. r : C[k].x = at(k) /\ C[k].y = v /\ C[k].w = c /\ C[k].h = tall
  <2> HIDE DEF at
  <2> SUFFICES ASSUME NEW k \in 1 .. r PROVE C[k].x = at(k) /\ C[k].y = v /\ C[k].w = c /\ C[k].h = tall
    OBVIOUS
  <2>1. C[k] = Rect(at(k), v, c, tall)
    BY <1>3
  <2>. QED BY <2>1, RectIs
<1>9. ASSUME NEW i \in 1 .. r
      PROVE  \/ 0 <= C[i].x /\ C[i].x + C[i].w <= j.w
             \/ j.w % c # 0 /\ - c < C[i].x /\ C[i].x + C[i].w < j.w + c
  BY <1>1, <1>4, <1>8
<1>10. ASSUME NEW i \in 1 .. r, NEW k \in 1 .. i PROVE Spared(C[i], C[k], j)
  <2>1. CASE k = i
    BY <1>1, <1>4, <1>8, <2>1 DEF Spared
  <2>2. CASE k # i
    <3>1. k \in 1 .. r /\ k < i
      BY <2>2, <1>2
    <3>2. k * c <= (i - 1) * c
      BY <3>1, <1>1, ChunksFollow
    <3>3. /\ (i - 1) * c \in Nat /\ i * c = (i - 1) * c + c
          /\ (k - 1) * c \in Nat /\ k * c \in Nat /\ k * c = (k - 1) * c + c
      BY <3>1, <1>4
    <3>4. C[i].x = at(i) /\ C[i].w = c /\ C[k].x = at(k) /\ C[k].w = c
      BY <3>1, <1>8
    <3>. QED BY <1>1, <3>2, <3>3, <3>4 DEF Spared
  <2>. QED BY <2>1, <2>2
<1>11. ASSUME NEW x \in 0 .. j.w - 1 PROVE \E i \in 1 .. r : C[i].x <= x /\ x < C[i].x + C[i].w
  <2>1. CASE 0 < j.dx
    <3>1. (j.w - 1) - x \in 0 .. j.w - 1
      BY <1>1
    <3>2. PICK k \in 1 .. r : (k - 1) * c <= (j.w - 1) - x /\ (j.w - 1) - x < k * c
      BY <3>1, <1>1, ChunksFollow
    <3>3. /\ C[k].x = at(k) /\ C[k].w = c /\ (k - 1) * c \in Nat /\ k * c = (k - 1) * c + c
      BY <1>4, <1>8
    <3>4. C[k].x <= x /\ x < C[k].x + C[k].w
      BY <2>1, <3>2, <3>3, <1>1
    <3>. QED BY <3>4
  <2>2. CASE ~(0 < j.dx)
    <3>1. PICK k \in 1 .. r : (k - 1) * c <= x /\ x < k * c
      BY <1>1, ChunksFollow
    <3>2. /\ C[k].x = at(k) /\ C[k].w = c /\ (k - 1) * c \in Nat /\ k * c = (k - 1) * c + c
      BY <1>4, <1>8
    <3>3. C[k].x <= x /\ x < C[k].x + C[k].w
      BY <2>2, <3>1, <3>2, <1>1
    <3>. QED BY <3>3
  <2>. QED BY <2>1, <2>2
<1>. QED BY <1>7, <1>8, <1>9, <1>10, <1>11 DEF ColumnsRight

LEMMA RowsFollow ==
  ASSUME NEW j \in Jobs, j.dy # 0, NEW x \in Int, NEW w \in Int,
         NEW C, C = RowsOf(j, x, w)
  PROVE  RowsRight(C, j, x, w)
<1> DEFINE c == Abs(j.dy)
           r == Rounds(j.h, c)
<1>1. c \in Nat \ {0} /\ j.h \in Nat /\ j.dy \in Int /\ (0 < j.dy => j.dy = c) /\ (~(0 < j.dy) => j.dy = - c)
  BY JobIs
<1>2. r \in Nat
  BY <1>1, ChunksFollow
<1> DEFINE high(k) == Smaller(c, j.h - (k - 1) * c)
           at(k) == IF 0 < j.dy THEN 0 + j.h - (k - 1) * c - high(k) ELSE 0 + (k - 1) * c
<1>3. C = [k \in 1 .. r |-> Rect(x, at(k), w, high(k))]
  BY DEF RowsOf, Rows
<1>4. ASSUME NEW k \in 1 .. r
      PROVE  /\ (k - 1) * c \in Nat /\ k * c \in Nat /\ k * c = (k - 1) * c + c /\ (k - 1) * c < j.h
             /\ high(k) \in 1 .. c /\ (k - 1) * c + high(k) <= j.h
             /\ high(k) = c \/ (k - 1) * c + high(k) = j.h
  <2>1. (k - 1) * c \in Nat /\ k * c \in Nat /\ k * c = (k - 1) * c + c /\ (k - 1) * c < j.h
    BY <1>1, ChunksFollow
  <2>. QED BY <2>1, <1>1 DEF Smaller
<1> HIDE DEF high
<1>5. \A k \in 1 .. r : at(k) \in Int /\ high(k) \in Int
  BY <1>1, <1>4
<1>6. C \in [1 .. r -> Rects]
  BY <1>1, <1>3, <1>5 DEF Rects
<1>7. C \in Seq(Rects) /\ Len(C) = r
  BY <1>2, <1>6
<1>8. \A k \in 1 .. r : C[k].x = x /\ C[k].y = at(k) /\ C[k].w = w /\ C[k].h = high(k)
  <2> HIDE DEF at
  <2> SUFFICES ASSUME NEW k \in 1 .. r PROVE C[k].x = x /\ C[k].y = at(k) /\ C[k].w = w /\ C[k].h = high(k)
    OBVIOUS
  <2>1. C[k] = Rect(x, at(k), w, high(k))
    BY <1>3
  <2>. QED BY <2>1, RectIs
<1>9. ASSUME NEW i \in 1 .. r PROVE 0 <= C[i].y /\ C[i].y + C[i].h <= j.h
  BY <1>1, <1>4, <1>8
<1>10. ASSUME NEW i \in 1 .. r, NEW k \in 1 .. i PROVE Spared(C[i], C[k], j)
  <2>1. CASE k = i
    BY <1>1, <1>4, <1>8, <2>1 DEF Spared
  <2>2. CASE k # i
    <3>1. k \in 1 .. r /\ k < i
      BY <2>2, <1>2
    <3>2. k * c <= (i - 1) * c
      BY <3>1, <1>1, ChunksFollow
    <3>3. /\ (i - 1) * c \in Nat /\ i * c = (i - 1) * c + c /\ high(i) \in 1 .. c
          /\ (k - 1) * c \in Nat /\ k * c \in Nat /\ k * c = (k - 1) * c + c /\ high(k) \in 1 .. c
      BY <3>1, <1>4
    <3>4. C[i].y = at(i) /\ C[i].h = high(i) /\ C[k].y = at(k) /\ C[k].h = high(k)
      BY <3>1, <1>8
    <3>. QED BY <1>1, <3>2, <3>3, <3>4 DEF Spared
  <2>. QED BY <2>1, <2>2
<1>11. ASSUME NEW v \in 0 .. j.h - 1 PROVE \E i \in 1 .. r : C[i].y <= v /\ v < C[i].y + C[i].h
  <2>1. CASE 0 < j.dy
    <3>1. (j.h - 1) - v \in 0 .. j.h - 1
      BY <1>1
    <3>2. PICK k \in 1 .. r : (k - 1) * c <= (j.h - 1) - v /\ (j.h - 1) - v < k * c
      BY <3>1, <1>1, ChunksFollow
    <3>3. /\ C[k].y = at(k) /\ C[k].h = high(k) /\ (k - 1) * c \in Nat /\ k * c = (k - 1) * c + c
          /\ high(k) \in 1 .. c /\ (high(k) = c \/ (k - 1) * c + high(k) = j.h)
      BY <1>4, <1>8
    <3>4. C[k].y <= v /\ v < C[k].y + C[k].h
      BY <2>1, <3>2, <3>3, <1>1
    <3>. QED BY <3>4
  <2>2. CASE ~(0 < j.dy)
    <3>1. PICK k \in 1 .. r : (k - 1) * c <= v /\ v < k * c
      BY <1>1, ChunksFollow
    <3>2. /\ C[k].y = at(k) /\ C[k].h = high(k) /\ (k - 1) * c \in Nat /\ k * c = (k - 1) * c + c
          /\ high(k) \in 1 .. c /\ (high(k) = c \/ (k - 1) * c + high(k) = j.h)
      BY <1>4, <1>8
    <3>3. C[k].y <= v /\ v < C[k].y + C[k].h
      BY <2>2, <3>1, <3>2, <1>1
    <3>. QED BY <3>3
  <2>. QED BY <2>1, <2>2
<1>. QED BY <1>7, <1>8, <1>9, <1>10, <1>11 DEF RowsRight

\* A stretch in front of other blits.
Stretched(B, s, C, j) ==
  /\ B \in Seq(Rects) /\ 1 \in 1 .. Len(B) /\ B[1] = s
  /\ \A i \in 1 .. Len(B) : i = 1 \/ (i - 1 \in 1 .. Len(C) /\ B[i] = C[i - 1])
  /\ \A i \in 1 .. Len(C) : i + 1 \in 1 .. Len(B) /\ B[i + 1] = C[i]
  /\ \A i \in 1 .. Len(B) : \A k \in 1 .. i : Spared(B[i], B[k], j)

LEMMA StretchFirst ==
  ASSUME NEW j, NEW s \in Rects, NEW C \in Seq(Rects), NEW B, B = <<s>> \o C,
         Spared(s, s, j), \A i \in 1 .. Len(C) : Spared(C[i], s, j),
         \A i \in 1 .. Len(C) : \A k \in 1 .. i : Spared(C[i], C[k], j)
  PROVE  Stretched(B, s, C, j)
<1>1. B \in Seq(Rects) /\ Len(B) = 1 + Len(C) /\ Len(C) \in Nat
  OBVIOUS
<1>2. B[1] = s /\ \A i \in 1 .. Len(B) : i # 1 => i - 1 \in 1 .. Len(C) /\ B[i] = C[i - 1]
  BY <1>1
<1>3. \A i \in 1 .. Len(C) : i + 1 \in 1 .. Len(B) /\ B[i + 1] = C[i]
  BY <1>1
<1>4. ASSUME NEW i \in 1 .. Len(B), NEW k \in 1 .. i PROVE Spared(B[i], B[k], j)
  <2>1. CASE i = 1
    BY <2>1, <1>2
  <2>2. CASE i # 1 /\ k = 1
    BY <2>2, <1>2
  <2>3. CASE i # 1 /\ k # 1
    <3>1. i - 1 \in 1 .. Len(C) /\ k - 1 \in 1 .. i - 1 /\ k \in 1 .. Len(B)
      BY <2>3, <1>1
    <3>2. B[i] = C[i - 1] /\ B[k] = C[k - 1]
      BY <3>1, <2>3, <1>2
    <3>. QED BY <3>1, <3>2
  <2>. QED BY <2>1, <2>2, <2>3
<1>5. 1 \in 1 .. Len(B)
  BY <1>1
<1>6. \A i \in 1 .. Len(B) : i = 1 \/ (i - 1 \in 1 .. Len(C) /\ B[i] = C[i - 1])
  BY <1>2
<1>. QED BY <1>1, <1>2, <1>3, <1>4, <1>5, <1>6, Zenon DEF Stretched

\* The blits of a copy that overlaps.
LEMMA OverlapCutUp ==
  ASSUME NEW j \in Jobs, IsOverlap(j), j.dx # 0 \/ j.dy # 0
  PROVE  CutUp(OverlapBlits(j), j)
<1> DEFINE B == OverlapBlits(j)
           hchunk == Abs(j.dx)
           vchunk == Abs(j.dy)
           right == 0 < j.dx
           down == 0 < j.dy
<1>1. /\ j.w \in Nat \ {0} /\ j.h \in Nat \ {0} /\ j.dx \in Int /\ j.dy \in Int
      /\ hchunk \in Nat /\ hchunk <= j.w /\ vchunk \in Nat /\ vchunk <= j.h
      /\ (hchunk = 0 <=> j.dx = 0) /\ (vchunk = 0 <=> j.dy = 0)
      /\ (right => j.dx = hchunk) /\ (~right => j.dx = - hchunk)
      /\ (down => j.dy = vchunk) /\ (~down => j.dy = - vchunk)
  BY Overlapping, JobIs DEF Abs
<1>2. CASE vchunk = 0
  <2>1. B = ColumnsOf(j, 0, j.h) /\ j.dx # 0
    BY <1>1, <1>2 DEF OverlapBlits, ColumnsOf
  <2>2. ColumnsRight(B, j, 0, j.h)
    BY <2>1, <1>1, ColumnsFollow
  <2> HIDE DEF B
  <2>3. \A i \in 1 .. Len(B) : Inside(B[i], j) \/ (SticksOut(B[i], j) /\ (j.dy # 0 => FewerColumns(j)))
    BY <2>1, <2>2, <1>1, <1>2 DEF Inside, SticksOut, ColumnsRight
  <2>4. \A x \in 0 .. j.w - 1, v \in 0 .. j.h - 1 :
          \E i \in 1 .. Len(B) : /\ B[i].x <= x /\ x < B[i].x + B[i].w
                                 /\ B[i].y <= v /\ v < B[i].y + B[i].h
    <3> TAKE x \in 0 .. j.w - 1, v \in 0 .. j.h - 1
    <3>1. PICK i \in 1 .. Len(B) : B[i].x <= x /\ x < B[i].x + B[i].w
      BY <2>2 DEF ColumnsRight
    <3>2. B[i].y = 0 /\ B[i].h = j.h
      BY <2>2 DEF ColumnsRight
    <3>3. B[i].y <= v /\ v < B[i].y + B[i].h
      BY <3>2, <1>1
    <3>. QED BY <3>1, <3>3
  <2>5. CutUp(B, j)
    BY <2>2, <2>3, <2>4 DEF CutUp, ColumnsRight
  <2>. QED BY <2>5 DEF B
<1>3. CASE vchunk # 0 /\ hchunk = 0
  <2>1. B = RowsOf(j, 0, j.w) /\ j.dy # 0
    BY <1>1, <1>3 DEF OverlapBlits, RowsOf
  <2>2. RowsRight(B, j, 0, j.w)
    BY <2>1, <1>1, RowsFollow
  <2> HIDE DEF B
  <2>3. \A i \in 1 .. Len(B) : Inside(B[i], j)
    BY <2>2, <1>1 DEF Inside, RowsRight
  <2>4. \A x \in 0 .. j.w - 1, v \in 0 .. j.h - 1 :
          \E i \in 1 .. Len(B) : /\ B[i].x <= x /\ x < B[i].x + B[i].w
                                 /\ B[i].y <= v /\ v < B[i].y + B[i].h
    <3> TAKE x \in 0 .. j.w - 1, v \in 0 .. j.h - 1
    <3>1. PICK i \in 1 .. Len(B) : B[i].y <= v /\ v < B[i].y + B[i].h
      BY <2>2 DEF RowsRight
    <3>2. B[i].x = 0 /\ B[i].w = j.w
      BY <2>2 DEF RowsRight
    <3>3. B[i].x <= x /\ x < B[i].x + B[i].w
      BY <3>2, <1>1
    <3>. QED BY <3>1, <3>3
  <2>5. CutUp(B, j)
    BY <2>2, <2>3, <2>4 DEF CutUp, RowsRight
  <2>. QED BY <2>5 DEF B
<1>4. CASE vchunk # 0 /\ hchunk # 0 /\ FewerColumns(j)
  <2> DEFINE top == IF down THEN j.h - vchunk ELSE 0
             first == IF down THEN 0 ELSE vchunk
             s == Rect(0, top, j.w, vchunk)
             C == ColumnsOf(j, first, j.h - vchunk)
  <2>1. B = <<s>> \o C /\ j.dx # 0 /\ j.dy # 0
    BY <1>1, <1>4 DEF OverlapBlits, ColumnsOf
  <2>2. ColumnsRight(C, j, first, j.h - vchunk)
    <3>1. first \in Int /\ j.h - vchunk \in Int
      BY <1>1
    <3> HIDE DEF C, first, vchunk
    <3>. QED BY <2>1, <3>1, ColumnsFollow DEF C
  <2>3. s \in Rects /\ s.x = 0 /\ s.y = top /\ s.w = j.w /\ s.h = vchunk
    <3>1. top \in Int
      BY <1>1
    <3>2. 0 \in Int /\ vchunk \in Int /\ j.w \in Int
      BY <1>1
    <3> HIDE DEF top, vchunk
    <3>. QED BY <3>1, <3>2, RectIs, RectIn, SMTT(20)
  <2> HIDE DEF B, C, s
  <2>4. Spared(s, s, j) /\ \A i \in 1 .. Len(C) : Spared(C[i], s, j)
    BY <2>2, <2>3, <1>1 DEF Spared, ColumnsRight
  <2>5. /\ B \in Seq(Rects) /\ 1 \in 1 .. Len(B) /\ B[1] = s
        /\ \A i \in 1 .. Len(B) : i = 1 \/ (i - 1 \in 1 .. Len(C) /\ B[i] = C[i - 1])
        /\ \A i \in 1 .. Len(C) : i + 1 \in 1 .. Len(B) /\ B[i + 1] = C[i]
        /\ \A i \in 1 .. Len(B) : \A k \in 1 .. i : Spared(B[i], B[k], j)
    <3>1. C \in Seq(Rects) /\ \A i \in 1 .. Len(C) : \A k \in 1 .. i : Spared(C[i], C[k], j)
      BY <2>2 DEF ColumnsRight
    <3>2. Stretched(B, s, C, j)
      BY <3>1, <2>1, <2>3, <2>4, StretchFirst
    <3>. QED BY <3>2, Zenon DEF Stretched
  <2>6. ASSUME NEW i \in 1 .. Len(B)
        PROVE  Inside(B[i], j) \/ (SticksOut(B[i], j) /\ (j.dy # 0 => FewerColumns(j)))
    <3>1. CASE i = 1
      BY <3>1, <2>5, <2>3, <1>1 DEF Inside
    <3>2. CASE i - 1 \in 1 .. Len(C) /\ B[i] = C[i - 1]
      BY <3>2, <2>1, <2>2, <1>1, <1>4, SMTT(20) DEF Inside, SticksOut, ColumnsRight
    <3>. QED BY <3>1, <3>2, <2>5
  <2>7. ASSUME NEW x \in 0 .. j.w - 1, NEW v \in 0 .. j.h - 1
        PROVE  \E i \in 1 .. Len(B) : /\ B[i].x <= x /\ x < B[i].x + B[i].w
                                      /\ B[i].y <= v /\ v < B[i].y + B[i].h
    <3>1. CASE top <= v /\ v < top + vchunk
      <4>1. B[1].x = 0 /\ B[1].w = j.w /\ B[1].y = top /\ B[1].h = vchunk
        BY <2>3, <2>5
      <4>2. B[1].x <= x /\ x < B[1].x + B[1].w /\ B[1].y <= v /\ v < B[1].y + B[1].h
        BY <4>1, <3>1, <1>1
      <4>. QED BY <4>2, <2>5
    <3>2. CASE ~(top <= v /\ v < top + vchunk)
      <4>1. first <= v /\ v < first + (j.h - vchunk)
        BY <3>2, <1>1
      <4>2. PICK i \in 1 .. Len(C) : C[i].x <= x /\ x < C[i].x + C[i].w
        BY <2>2 DEF ColumnsRight
      <4>3. C[i].y = first /\ C[i].h = j.h - vchunk /\ i + 1 \in 1 .. Len(B) /\ B[i + 1] = C[i]
        BY <2>2, <2>5 DEF ColumnsRight
      <4>. QED BY <4>1, <4>2, <4>3
    <3>. QED BY <3>1, <3>2
  <2>8. CutUp(B, j)
    BY <2>5, <2>6, <2>7 DEF CutUp
  <2>. QED BY <2>8 DEF B
<1>5. CASE vchunk # 0 /\ hchunk # 0 /\ ~FewerColumns(j)
  <2> DEFINE left == IF right THEN j.w - hchunk ELSE 0
             first == IF right THEN 0 ELSE hchunk
             s == Rect(left, 0, hchunk, j.h)
             C == RowsOf(j, first, j.w - hchunk)
  <2>1. B = <<s>> \o C /\ j.dx # 0 /\ j.dy # 0
    BY <1>1, <1>5 DEF OverlapBlits, RowsOf
  <2>2. RowsRight(C, j, first, j.w - hchunk)
    <3>1. first \in Int /\ j.w - hchunk \in Int
      BY <1>1
    <3> HIDE DEF C, first, hchunk
    <3>. QED BY <2>1, <3>1, RowsFollow DEF C
  <2>3. s \in Rects /\ s.x = left /\ s.y = 0 /\ s.w = hchunk /\ s.h = j.h
    <3>1. left \in Int
      BY <1>1
    <3>2. 0 \in Int /\ hchunk \in Int /\ j.h \in Int
      BY <1>1
    <3> HIDE DEF left, hchunk
    <3>. QED BY <3>1, <3>2, RectIs, RectIn, SMTT(20)
  <2> HIDE DEF B, C, s
  <2>4. Spared(s, s, j) /\ \A i \in 1 .. Len(C) : Spared(C[i], s, j)
    BY <2>2, <2>3, <1>1 DEF Spared, RowsRight
  <2>5. /\ B \in Seq(Rects) /\ 1 \in 1 .. Len(B) /\ B[1] = s
        /\ \A i \in 1 .. Len(B) : i = 1 \/ (i - 1 \in 1 .. Len(C) /\ B[i] = C[i - 1])
        /\ \A i \in 1 .. Len(C) : i + 1 \in 1 .. Len(B) /\ B[i + 1] = C[i]
        /\ \A i \in 1 .. Len(B) : \A k \in 1 .. i : Spared(B[i], B[k], j)
    <3>1. C \in Seq(Rects) /\ \A i \in 1 .. Len(C) : \A k \in 1 .. i : Spared(C[i], C[k], j)
      BY <2>2 DEF RowsRight
    <3>2. Stretched(B, s, C, j)
      BY <3>1, <2>1, <2>3, <2>4, StretchFirst
    <3>. QED BY <3>2, Zenon DEF Stretched
  <2>6. ASSUME NEW i \in 1 .. Len(B) PROVE Inside(B[i], j)
    <3>1. CASE i = 1
      BY <3>1, <2>5, <2>3, <1>1 DEF Inside
    <3>2. CASE i - 1 \in 1 .. Len(C) /\ B[i] = C[i - 1]
      BY <3>2, <2>2, <1>1 DEF Inside, RowsRight
    <3>. QED BY <3>1, <3>2, <2>5
  <2>7. ASSUME NEW x \in 0 .. j.w - 1, NEW v \in 0 .. j.h - 1
        PROVE  \E i \in 1 .. Len(B) : /\ B[i].x <= x /\ x < B[i].x + B[i].w
                                      /\ B[i].y <= v /\ v < B[i].y + B[i].h
    <3>1. CASE left <= x /\ x < left + hchunk
      <4>1. B[1].x = left /\ B[1].w = hchunk /\ B[1].y = 0 /\ B[1].h = j.h
        BY <2>3, <2>5
      <4>2. B[1].x <= x /\ x < B[1].x + B[1].w /\ B[1].y <= v /\ v < B[1].y + B[1].h
        BY <4>1, <3>1, <1>1
      <4>. QED BY <4>2, <2>5
    <3>2. CASE ~(left <= x /\ x < left + hchunk)
      <4>1. first <= x /\ x < first + (j.w - hchunk)
        BY <3>2, <1>1
      <4>2. PICK i \in 1 .. Len(C) : C[i].y <= v /\ v < C[i].y + C[i].h
        BY <2>2 DEF RowsRight
      <4>3. C[i].x = first /\ C[i].w = j.w - hchunk /\ i + 1 \in 1 .. Len(B) /\ B[i + 1] = C[i]
        BY <2>2, <2>5 DEF RowsRight
      <4>. QED BY <4>1, <4>2, <4>3
    <3>. QED BY <3>1, <3>2
  <2>8. CutUp(B, j)
    BY <2>5, <2>6, <2>7 DEF CutUp
  <2>. QED BY <2>8 DEF B
<1>. QED BY <1>2, <1>3, <1>4, <1>5

\* A copy that does not overlap is made at once.
LEMMA WholeCutUp ==
  ASSUME NEW j \in Jobs, ~IsOverlap(j)
  PROVE  CutUp(<<Rect(0, 0, j.w, j.h)>>, j)
<1> DEFINE s == Rect(0, 0, j.w, j.h)
           B == <<s>>
<1>1. /\ j.w \in Nat \ {0} /\ j.h \in Nat \ {0} /\ j.dx \in Int /\ j.dy \in Int
  BY JobIs
<1>2. s \in Rects /\ s.x = 0 /\ s.y = 0 /\ s.w = j.w /\ s.h = j.h
  <2>1. 0 \in Int /\ j.w \in Int /\ j.h \in Int
    BY <1>1
  <2>. QED BY <2>1, RectIs, RectIn
<1>3. \A x \in {0, j.w}, v \in {0, j.h} :
        ~(j.dx <= x /\ x <= j.dx + j.w /\ j.dy <= v /\ v <= j.dy + j.h)
  BY DEF IsOverlap, Within
<1> HIDE DEF s
<1>4. Spared(s, s, j)
  BY <1>1, <1>2, <1>3 DEF Spared
<1>5. B \in Seq(Rects) /\ Len(B) = 1 /\ B[1] = s
  BY <1>2
<1> HIDE DEF B
<1>6. Inside(s, j)
  BY <1>1, <1>2 DEF Inside
<1>7. CutUp(B, j)
  BY <1>1, <1>2, <1>4, <1>5, <1>6 DEF CutUp
<1>. QED BY <1>7 DEF B, s

\* The blits that are left are a part of a source that is cut up; the pixels
\* they read have not changed, and those that they will not write are right.
Cutting ==
  /\ copyBlits \in Seq(Rects)
  /\ \A i \in 1 .. Len(copyBlits) : \A k \in 1 .. i : Spared(copyBlits[i], copyBlits[k], job)
  /\ \A i \in 1 .. Len(copyBlits) : \A p \in Pixels :
       /\ Writes(copyBlits[i], p, job) => Wanted(p, job) \/ Beside(p)
       /\ Reads(copyBlits[i], p) => pixels[p] = p
  /\ \A p \in Pixels :
       IF Wanted(p, job)
       THEN pixels[p] = Before(p, job) \/ \E i \in 1 .. Len(copyBlits) : Writes(copyBlits[i], p, job)
       ELSE pixels[p] = p \/ Beside(p)

\* Through the copy area: to it, and back.
Whole == Rect(0, 0, job.w, job.h)
There == [Whole EXCEPT !.to = "area"]
Back == [Whole EXCEPT !.from = "area"]
Through ==
  /\ pixels = Original
  /\ \/ copyBlits = <<There, Back>>
     \/ copyBlits = <<Back>> /\ \A p \in Pixels : Wanted(p, job) => area[p] = Before(p, job)

CopyInv ==
  /\ DOMAIN pixels = Pixels /\ DOMAIN area = Pixels
  /\ \/ job = NoJob /\ copyBlits = << >> /\ pixels = Original
     \/ job \in Jobs /\ (Cutting \/ Through)

LEMMA PixelIs ==
  ASSUME NEW p \in Pixels
  PROVE  p[1] \in Int /\ p[2] \in Int /\ p = <<p[1], p[2]>>
  BY SideAssumption DEF Pixels, Coordinates

\* Each pixel that is wanted comes from one of the pixmap.
LEMMA BeforeIs ==
  ASSUME NEW j \in Jobs, NEW p \in Pixels, Wanted(p, j)
  PROVE  /\ Before(p, j) \in Pixels /\ Before(p, j)[1] = p[1] - j.dx /\ Before(p, j)[2] = p[2] - j.dy
         /\ Before(p, j)[1] \in 0 .. j.w - 1 /\ Before(p, j)[2] \in 0 .. j.h - 1
<1>1. /\ j.w \in Nat /\ j.h \in Nat /\ j.dx \in Int /\ j.dy \in Int /\ j.w <= MaxSide /\ j.h <= MaxSide
  BY JobIs
<1>2. p[1] \in Int /\ p[2] \in Int
  BY PixelIs
<1>3. p[1] - j.dx \in 0 .. j.w - 1 /\ p[2] - j.dy \in 0 .. j.h - 1
  BY <1>1, <1>2 DEF Wanted, In, Within
<1>4. p[1] - j.dx \in Coordinates /\ p[2] - j.dy \in Coordinates
  BY <1>1, <1>3, SideAssumption DEF Coordinates
<1>. QED BY <1>3, <1>4 DEF Before, Pixels

\* What a blit within the source writes is wanted; one that sticks out writes
\* beside it; and what has been read is written.
LEMMA WritesWanted ==
  ASSUME NEW b \in Rects, NEW j \in Jobs, NEW p \in Pixels, Inside(b, j), Writes(b, p, j)
  PROVE  Wanted(p, j)
<1>1. p[1] \in Int /\ p[2] \in Int /\ b.x \in Int /\ b.y \in Int /\ b.w \in Int /\ b.h \in Int
  BY PixelIs, RectsAre
<1>2. j.w \in Nat /\ j.h \in Nat /\ j.dx \in Int /\ j.dy \in Int
  BY JobIs
<1>. QED BY <1>1, <1>2 DEF Inside, Writes, Wanted, In, Within

LEMMA WritesBeside ==
  ASSUME NEW b \in Rects, NEW j \in Jobs, NEW p \in Pixels, SticksOut(b, j), Writes(b, p, j)
  PROVE  /\ j.dx # 0 /\ j.w % Abs(j.dx) # 0
         /\ Within(p[2], j.dy, j.dy + j.h - 1)
         /\ Within(p[1], j.dx - Abs(j.dx) + 1, j.dx + j.w + Abs(j.dx) - 2)
<1>1. p[1] \in Int /\ p[2] \in Int /\ b.x \in Int /\ b.y \in Int /\ b.w \in Int /\ b.h \in Int
  BY PixelIs, RectsAre
<1>2. j.w \in Nat /\ j.h \in Nat /\ j.dx \in Int /\ j.dy \in Int /\ Abs(j.dx) \in Nat
  BY JobIs
<1>. QED BY <1>1, <1>2 DEF SticksOut, Writes, In, Within

LEMMA ReadIsWritten ==
  ASSUME NEW b \in Rects, NEW j \in Jobs, NEW p \in Pixels,
         b.x <= p[1] - j.dx, p[1] - j.dx < b.x + b.w, b.y <= p[2] - j.dy, p[2] - j.dy < b.y + b.h
  PROVE  Writes(b, p, j)
<1>1. p[1] \in Int /\ p[2] \in Int /\ b.x \in Int /\ b.y \in Int /\ b.w \in Int /\ b.h \in Int
  BY PixelIs, RectsAre
<1>2. j.dx \in Int /\ j.dy \in Int
  BY JobIs
<1>. QED BY <1>1, <1>2 DEF Writes, In, Within

LEMMA CopyInitRight == CopyInit => CopyInv
  BY DEF CopyInit, CopyInv, Original, Pixels

\* A source that is cut up, before the first blit.
LEMMA CutUpStarts ==
  ASSUME NEW j \in Jobs, job' = j, CutUp(copyBlits', j), pixels' = Original, copyArea' \in BOOLEAN,
         copyBlits' # <<Rect(0, 0, j.w, j.h)>> => IsOverlap(j) /\ ~copyArea',
         DOMAIN area' = Pixels
  PROVE  CopyInv'
<1> DEFINE B == copyBlits'
<1>1. /\ j.w \in Nat \ {0} /\ j.h \in Nat \ {0} /\ j.dx \in Int /\ j.dy \in Int /\ Abs(j.dx) \in Nat
      /\ (0 < j.dx => j.dx = Abs(j.dx)) /\ (~(0 < j.dx) => j.dx = - Abs(j.dx))
  BY JobIs
<1>2. DOMAIN pixels' = Pixels /\ \A p \in Pixels : pixels'[p] = p
  BY DEF Original, Pixels
<1> HIDE DEF B
<1>3. /\ B \in Seq(Rects)
      /\ \A i \in 1 .. Len(B) : \A k \in 1 .. i : Spared(B[i], B[k], j)
      /\ \A i \in 1 .. Len(B) : Inside(B[i], j) \/ (SticksOut(B[i], j) /\ (j.dy # 0 => FewerColumns(j)))
  BY DEF CutUp, B
<1>4. ASSUME NEW i \in 1 .. Len(B), NEW p \in Pixels, Writes(B[i], p, j), ~Wanted(p, j)
      PROVE  Beside(p)'
  <2>2. B[i] \in Rects
    BY <1>3
  <2>5. ~Inside(B[i], j)
    BY <2>2, <1>4, WritesWanted
  <2>6. SticksOut(B[i], j) /\ (j.dy # 0 => FewerColumns(j))
    BY <2>5, <1>3
  <2>7. IsOverlap(j) /\ ~copyArea'
    <3>1. ASSUME B = <<Rect(0, 0, j.w, j.h)>> PROVE FALSE
      <4>1. i = 1 /\ B[i] = Rect(0, 0, j.w, j.h)
        BY <3>1
      <4>. QED BY <4>1, <2>5, <1>1, RectIs DEF Inside
    <3>. QED BY <3>1 DEF B
  <2>8. /\ j.dx # 0 /\ j.w % Abs(j.dx) # 0
        /\ Within(p[2], j.dy, j.dy + j.h - 1)
        /\ Within(p[1], j.dx - Abs(j.dx) + 1, j.dx + j.w + Abs(j.dx) - 2)
    BY <2>2, <2>6, <1>4, WritesBeside
  <2>. QED BY <2>6, <2>7, <2>8 DEF Beside
<1>5. ASSUME NEW p \in Pixels, Wanted(p, j)
      PROVE  \E i \in 1 .. Len(B) : Writes(B[i], p, j)
  <2>1. p[1] \in Int /\ p[2] \in Int /\ p[1] - j.dx \in 0 .. j.w - 1 /\ p[2] - j.dy \in 0 .. j.h - 1
    BY <1>5, BeforeIs, PixelIs
  <2>2. PICK i \in 1 .. Len(B) : /\ B[i].x <= p[1] - j.dx /\ p[1] - j.dx < B[i].x + B[i].w
                                 /\ B[i].y <= p[2] - j.dy /\ p[2] - j.dy < B[i].y + B[i].h
    BY <2>1 DEF CutUp, B
  <2>3. B[i] \in Rects
    BY <1>3
  <2>5. Writes(B[i], p, j)
    BY <2>2, <2>3, ReadIsWritten
  <2>. QED BY <2>5
<1>6. Cutting'
  BY <1>2, <1>3, <1>4, <1>5 DEF Cutting, B
<1>. QED BY <1>2, <1>6 DEF CopyInv

LEMMA RequestRight ==
  ASSUME CopyInv, NEW j \in Jobs, NEW hasArea \in BOOLEAN, RequestCopy(j, hasArea)
  PROVE  CopyInv'
<1>1. NoJob \notin Jobs
  BY DEF NoJob, Jobs
<1>2. pixels = Original /\ DOMAIN area = Pixels
  BY <1>1 DEF CopyInv, RequestCopy
<1>3. /\ job' = j /\ copyArea' = hasArea /\ copyBlits' = CopyBlits(j, hasArea)
      /\ pixels' = Original /\ DOMAIN area' = Pixels
  BY <1>2 DEF RequestCopy
<1>4. DOMAIN pixels' = Pixels /\ \A p \in Pixels : pixels'[p] = p
  BY <1>3 DEF Original, Pixels
<1>5. CASE j.dx = 0 /\ j.dy = 0
  <2>1. copyBlits' = << >>
    BY <1>3, <1>5 DEF CopyBlits
  <2>2. ASSUME NEW p \in Pixels PROVE Before(p, j) = p
    BY <1>5, PixelIs DEF Before
  <2>3. Cutting'
    BY <1>3, <1>4, <2>1, <2>2 DEF Cutting
  <2>. QED BY <1>3, <1>4, <2>3 DEF CopyInv
<1>6. CASE ~(j.dx = 0 /\ j.dy = 0) /\ ~IsOverlap(j)
  <2>1. copyBlits' = <<Rect(0, 0, j.w, j.h)>>
    BY <1>3, <1>6 DEF CopyBlits
  <2>2. CutUp(copyBlits', j)
    BY <2>1, <1>6, WholeCutUp
  <2>. QED BY <2>1, <2>2, <1>3, CutUpStarts
<1>7. CASE ~(j.dx = 0 /\ j.dy = 0) /\ IsOverlap(j) /\ ~hasArea
  <2>1. copyBlits' = OverlapBlits(j)
    BY <1>3, <1>7 DEF CopyBlits
  <2>2. CutUp(copyBlits', j)
    BY <2>1, <1>7, OverlapCutUp
  <2>. QED BY <2>2, <1>3, <1>7, CutUpStarts
<1>8. CASE ~(j.dx = 0 /\ j.dy = 0) /\ IsOverlap(j) /\ hasArea
  <2>1. copyBlits' = <<There, Back>>'
    BY <1>3, <1>8 DEF CopyBlits, There, Back, Whole
  <2>2. Through'
    BY <2>1, <1>3 DEF Through
  <2>. QED BY <2>2, <1>3, <1>4 DEF CopyInv
<1>. QED BY <1>5, <1>6, <1>7, <1>8

\* The first of the blits that are left is made.
LEMMA BlitCuts ==
  ASSUME CopyInv, job \in Jobs, Cutting, MakeBlit
  PROVE  CopyInv'
<1> DEFINE b == Head(copyBlits)
           n == Len(copyBlits)
<1>1. /\ n \in Nat /\ 1 \in 1 .. n /\ b = copyBlits[1] /\ b \in Rects
      /\ copyBlits' \in Seq(Rects) /\ Len(copyBlits') = n - 1
      /\ \A i \in 1 .. n - 1 : copyBlits'[i] = copyBlits[i + 1]
  <2>1. copyBlits # << >> /\ copyBlits' = Tail(copyBlits) /\ copyBlits \in Seq(Rects)
    BY DEF MakeBlit, Cutting
  <2>. QED BY <2>1
<1>2. /\ b.from = "pixmap" /\ b.to = "pixmap"
      /\ b.x \in Int /\ b.y \in Int /\ b.w \in Int /\ b.h \in Int
  BY <1>1, RectsAre
<1>3. job.w \in Nat /\ job.h \in Nat /\ job.dx \in Int /\ job.dy \in Int
  BY JobIs
<1> HIDE DEF b, n
<1>4. /\ pixels' = [p \in DOMAIN pixels |->
                     IF Writes(b, p, job)
                     THEN IF Writes(b, Before(p, job), job) THEN Junk ELSE pixels[Before(p, job)]
                     ELSE pixels[p]]
      /\ UNCHANGED <<area, copyArea, job>>
  BY <1>2 DEF MakeBlit, Writes, Before, b
<1>5. /\ DOMAIN pixels = Pixels /\ DOMAIN pixels' = Pixels /\ DOMAIN area' = Pixels
      /\ \A p \in Pixels : ~Writes(b, p, job) => pixels'[p] = pixels[p]
  BY <1>4 DEF CopyInv
<1>6. ASSUME NEW p \in Pixels PROVE Beside(p)' = Beside(p)
  BY <1>4 DEF Beside
<1>7. ASSUME NEW i \in 1 .. n, NEW p \in Pixels, Reads(copyBlits[i], p)
      PROVE  ~Writes(b, p, job)
  <2>1. Spared(copyBlits[i], b, job)
    BY <1>1 DEF Cutting, n
  <2>2. copyBlits[i] \in Rects
    BY DEF Cutting, n
  <2>3. /\ copyBlits[i].x \in Int /\ copyBlits[i].y \in Int /\ copyBlits[i].w \in Int /\ copyBlits[i].h \in Int
    BY <2>2, RectsAre
  <2>4. p[1] \in Int /\ p[2] \in Int
    BY PixelIs
  <2>. QED BY <2>1, <2>3, <2>4, <1>2, <1>3, <1>7 DEF Spared, Reads, Writes, In, Within
<1>8. ASSUME NEW p \in Pixels, Wanted(p, job), Writes(b, p, job)
      PROVE  pixels'[p] = Before(p, job)
  <2>1. /\ Before(p, job) \in Pixels
        /\ Before(p, job)[1] = p[1] - job.dx /\ Before(p, job)[2] = p[2] - job.dy
    BY <1>8, BeforeIs
  <2>2. p[1] \in Int /\ p[2] \in Int
    BY PixelIs
  <2>3. Reads(b, Before(p, job))
    BY <2>1, <2>2, <1>2, <1>3, <1>8 DEF Reads, Writes, In, Within
  <2>4. ~Writes(b, Before(p, job), job) /\ pixels[Before(p, job)] = Before(p, job)
    BY <2>1, <2>3, <1>1, <1>7 DEF Cutting, n
  <2>. QED BY <2>4, <1>4, <1>5, <1>8
<1>9. ASSUME NEW i \in 1 .. n - 1
      PROVE  /\ i + 1 \in 1 .. n /\ copyBlits'[i] = copyBlits[i + 1]
             /\ \A k \in 1 .. i : k + 1 \in 1 .. i + 1 /\ copyBlits'[k] = copyBlits[k + 1]
  BY <1>1
<1>10. \A i \in 1 .. n - 1 : \A k \in 1 .. i : Spared(copyBlits'[i], copyBlits'[k], job')
  BY <1>4, <1>9 DEF Cutting, n
<1>11. ASSUME NEW i \in 1 .. n - 1, NEW p \in Pixels
       PROVE  /\ Writes(copyBlits'[i], p, job') => Wanted(p, job') \/ Beside(p)'
              /\ Reads(copyBlits'[i], p) => pixels'[p] = p
  <2>1. i + 1 \in 1 .. n /\ copyBlits'[i] = copyBlits[i + 1]
    BY <1>9
  <2>2. Writes(copyBlits[i + 1], p, job) => Wanted(p, job) \/ Beside(p)
    BY <2>1 DEF Cutting, n
  <2>3. Reads(copyBlits[i + 1], p) => pixels'[p] = p
    BY <2>1, <1>5, <1>7 DEF Cutting, n
  <2>. QED BY <2>1, <2>2, <2>3, <1>4, <1>6
<1>12. ASSUME NEW p \in Pixels, Wanted(p, job)
       PROVE  pixels'[p] = Before(p, job) \/ \E i \in 1 .. n - 1 : Writes(copyBlits'[i], p, job)
  <2>1. CASE Writes(b, p, job)
    BY <2>1, <1>8, <1>12
  <2>2. CASE ~Writes(b, p, job) /\ pixels[p] = Before(p, job)
    BY <2>2, <1>5
  <2>3. CASE ~Writes(b, p, job) /\ pixels[p] # Before(p, job)
    <3>1. PICK i \in 1 .. n : Writes(copyBlits[i], p, job)
      BY <2>3, <1>12 DEF Cutting, n
    <3>2. i # 1
      BY <3>1, <2>3, <1>1
    <3>3. i - 1 \in 1 .. n - 1 /\ (i - 1) + 1 = i
      BY <3>2, <1>1
    <3>4. copyBlits'[i - 1] = copyBlits[i]
      BY <3>3, <1>1
    <3>. QED BY <3>1, <3>3, <3>4
  <2>. QED BY <2>1, <2>2, <2>3
<1>13. ASSUME NEW p \in Pixels, ~Wanted(p, job) PROVE pixels'[p] = p \/ Beside(p)
  <2>1. CASE Writes(b, p, job)
    BY <2>1, <1>1, <1>13 DEF Cutting, n
  <2>2. CASE ~Writes(b, p, job)
    BY <2>2, <1>5, <1>13 DEF Cutting
  <2>. QED BY <2>1, <2>2
<1>14. ASSUME NEW p \in Pixels
       PROVE  IF Wanted(p, job')
              THEN pixels'[p] = Before(p, job') \/ \E i \in 1 .. Len(copyBlits') : Writes(copyBlits'[i], p, job')
              ELSE pixels'[p] = p \/ Beside(p)'
  BY <1>1, <1>4, <1>6, <1>12, <1>13
<1>15. Cutting'
  BY <1>1, <1>10, <1>11, <1>14 DEF Cutting
<1>. QED BY <1>4, <1>5, <1>15 DEF CopyInv

\* Through the copy area.
LEMMA BlitThrough ==
  ASSUME CopyInv, job \in Jobs, Through, MakeBlit
  PROVE  CopyInv'
<1>1. job.w \in Nat /\ job.h \in Nat /\ job.dx \in Int /\ job.dy \in Int
  BY JobIs
<1>2. \A p \in Pixels : pixels[p] = p
  BY DEF Through, Original, Pixels
<1>3. /\ There.from = "pixmap" /\ There.to = "area" /\ There.x = 0 /\ There.y = 0 /\ There.w = job.w /\ There.h = job.h
      /\ Back.from = "area" /\ Back.to = "pixmap" /\ Back.x = 0 /\ Back.y = 0 /\ Back.w = job.w /\ Back.h = job.h
  BY DEF There, Back, Whole, Rect
<1>4. \A p : Writes(There, p, job) = Wanted(p, job) /\ Writes(Back, p, job) = Wanted(p, job)
  BY <1>1, <1>3 DEF Writes, Wanted
<1>5. DOMAIN pixels = Pixels /\ DOMAIN area = Pixels
  BY DEF CopyInv
<1>6. CASE copyBlits = <<There, Back>>
  <2>1. Head(copyBlits) = There /\ copyBlits' = <<Back>>
    BY <1>6 DEF MakeBlit
  <2>2. /\ area' = [p \in DOMAIN area |->
                    IF Writes(There, p, job) THEN pixels[Before(p, job)] ELSE area[p]]
        /\ UNCHANGED <<pixels, copyArea, job>>
    BY <2>1, <1>3 DEF MakeBlit, Writes, Before
  <2>3. ASSUME NEW p \in Pixels, Wanted(p, job) PROVE area'[p] = Before(p, job)
    BY <2>2, <2>3, <1>2, <1>4, <1>5, BeforeIs
  <2>4. Back' = Back /\ \A p : Wanted(p, job)' = Wanted(p, job) /\ Before(p, job)' = Before(p, job)
    BY <2>2 DEF Back, Whole
  <2>5. Through'
    BY <2>1, <2>2, <2>3, <2>4 DEF Through
  <2>. QED BY <2>2, <2>5, <1>5 DEF CopyInv
<1>7. CASE copyBlits = <<Back>> /\ \A p \in Pixels : Wanted(p, job) => area[p] = Before(p, job)
  <2>1. Head(copyBlits) = Back /\ copyBlits' = << >>
    BY <1>7 DEF MakeBlit
  <2>2. /\ pixels' = [p \in DOMAIN pixels |-> IF Writes(Back, p, job) THEN area[p] ELSE pixels[p]]
        /\ UNCHANGED <<area, copyArea, job>>
    BY <2>1, <1>3 DEF MakeBlit, Writes
  <2>3. \A p \in Pixels : IF Wanted(p, job) THEN pixels'[p] = Before(p, job) ELSE pixels'[p] = p
    BY <2>2, <1>2, <1>4, <1>5, <1>7
  <2>4. Cutting'
    BY <2>1, <2>2, <2>3 DEF Cutting
  <2>. QED BY <2>2, <2>4, <1>5 DEF CopyInv
<1>. QED BY <1>6, <1>7 DEF Through

LEMMA CopyStep == CopyInv /\ [CopyNext]_copyVars => CopyInv'
<1> SUFFICES ASSUME CopyInv, [CopyNext]_copyVars PROVE CopyInv'
  OBVIOUS
<1>1. ASSUME NEW w \in 1 .. MaxSide, NEW tall \in 1 .. MaxSide, NEW dx \in - MaxShift .. MaxShift,
             NEW dy \in - MaxShift .. MaxShift, NEW hasArea \in BOOLEAN,
             RequestCopy([w |-> w, h |-> tall, dx |-> dx, dy |-> dy], hasArea)
      PROVE  CopyInv'
  <2>1. [w |-> w, h |-> tall, dx |-> dx, dy |-> dy] \in Jobs
    BY DEF Jobs
  <2>. QED BY <1>1, <2>1, RequestRight
<1>2. CASE MakeBlit
  <2>1. copyBlits # << >>
    BY <1>2 DEF MakeBlit
  <2>. QED BY <1>2, <2>1, BlitCuts, BlitThrough DEF CopyInv
<1>3. CASE UNCHANGED copyVars
  <2>1. UNCHANGED <<copyArea, job, copyBlits, pixels, area>>
    BY <1>3 DEF copyVars
  <2>2. Through' = Through /\ \A p : Beside(p)' = Beside(p)
    BY <2>1 DEF Through, There, Back, Whole, Beside
  <2>3. Cutting' = Cutting
    BY <2>1, <2>2 DEF Cutting
  <2>. QED BY <2>1, <2>2, <2>3 DEF CopyInv
<1>. QED BY <1>1, <1>2, <1>3 DEF CopyNext

\* Copies within a pixmap of any size, by any distance and in any direction, with
\* or without a copy area: at the end the destination holds what the source held.
THEOREM CopiesHold == CopySpec => []CopiesRight
<1>1. CopyInv => CopiesRight
  <2> SUFFICES ASSUME CopyInv, job # NoJob, copyBlits = << >>, NEW p \in DOMAIN pixels
               PROVE  IF In(p, job.dx, job.dy, job.w, job.h)
                      THEN pixels[p] = <<p[1] - job.dx, p[2] - job.dy>>
                      ELSE pixels[p] = p \/ Beside(p)
    BY DEF CopiesRight
  <2>1. Cutting /\ p \in Pixels
    BY DEF CopyInv, Through
  <2>2. ~\E i \in 1 .. Len(copyBlits) : Writes(copyBlits[i], p, job)
    OBVIOUS
  <2>. QED BY <2>1, <2>2 DEF Cutting, Wanted, Before
<1>. QED BY <1>1, CopyInitRight, CopyStep, PTL DEF CopySpec


(***************************************************************************)
(* Lines that are sent with the commands: what was submitted is a part of  *)
(* what was asked for, the lines of the packets are the next part, and     *)
(* those of them that XAA has filled in hold their own words.              *)
(***************************************************************************)

\* Widths of a line that fit a packet, lines, and the lines of packets.
LineWords == 1 .. CsSize - 10
Lines == [y : Nat, data : Seq(Nat)]
Queued == [y : Nat, w : LineWords, at : Nat]

LineTypes ==
  /\ hook \in {"none", "CP", "MMIO", "EXA"} /\ step \in {"fill", "subsequent", "packet", "done"}
  /\ words \in Nat /\ scanY \in Nat /\ scanH \in Nat /\ scanPass \in Nat /\ window \in Nat /\ line \in Nat
  /\ asked \in Seq(Lines) /\ shown \in Seq(Lines) /\ packets \in Seq(Queued)
  /\ csBuffer \in [0 .. CsSize - 1 -> Nat] /\ csWptr \in 0 .. CsSize /\ open \in BOOLEAN

\* What was submitted is a part of what was asked for, and the lines of the
\* packets are the next part.  Those that are filled in hold their words, and
\* no word of the buffer is a word of two lines.
ShownSoFar == Len(shown) <= Len(asked) /\ \A k \in 1 .. Len(shown) : shown[k] = asked[k]
InHand == Len(shown) + Len(packets)
Queue ==
  /\ InHand <= Len(asked)
  /\ \A k \in 1 .. Len(packets) :
       /\ asked[Len(shown) + k] = Line(packets[k].y, packets[k].w, Len(shown) + k)
       /\ packets[k].at + packets[k].w <= csWptr
       /\ Len(shown) + k <= line =>
            \A i \in 1 .. packets[k].w : csBuffer[packets[k].at + i - 1] = Len(shown) + k
  /\ \A k, m \in 1 .. Len(packets) : k < m => packets[k].at + packets[k].w <= packets[m].at

\* What is left of the rectangle.
Rest ==
  /\ words \in LineWords
  /\ \A k \in 1 .. scanH : asked[(Len(asked) - scanH) + k] = Line(scanY + k - 1, words, (Len(asked) - scanH) + k)

\* The window is the first line of the packet that is not filled in; the
\* others of the packet follow it.
WindowAt(k) ==
  /\ k \in 1 .. Len(packets) /\ window = packets[k].at
  /\ \A m \in k .. Len(packets) : packets[m].w = words
  /\ \A m \in k .. Len(packets) - 1 : packets[m + 1].at = packets[m].at + words

InTurn ==
  \/ /\ hook = "none" /\ step = "done" /\ window = 0 /\ open = FALSE /\ line = 0
     /\ asked = << >> /\ shown = << >> /\ packets = << >>
  \/ /\ hook = "CP" /\ open = FALSE
     /\ \/ step = "done" /\ line = InHand /\ line = Len(asked)
        \/ /\ Rest /\ InHand + scanH = Len(asked) /\ scanPass # 0
           /\ \/ step = "fill" /\ line + scanPass = InHand /\ WindowAt(line - Len(shown) + 1)
              \/ step = "subsequent" /\ line + scanPass = InHand + 1 /\ WindowAt(line - Len(shown))
  \/ /\ hook = "MMIO" /\ packets = << >> /\ window = 0
     /\ \/ step = "done" /\ line = Len(shown) /\ line = Len(asked) /\ open = FALSE
        \/ /\ open = TRUE /\ words \in LineWords /\ scanH # 0 /\ Len(shown) + scanH = Len(asked)
           /\ \A k \in Len(shown) + 1 .. Len(asked) : asked[k] = Line(asked[k].y, words, k)
           /\ \/ step = "fill" /\ line = Len(shown)
              \/ step = "subsequent" /\ line = Len(shown) + 1 /\ \A i \in 1 .. words : csBuffer[i - 1] = line
  \/ /\ hook = "EXA" /\ packets = << >> /\ open = FALSE /\ line = Len(shown)
     /\ \/ step = "done" /\ line = Len(asked)
        \/ step = "packet" /\ Rest /\ line + scanH = Len(asked) /\ scanPass \in 1 .. FullPass(words)

\* The inductive invariant.
LineInv == LineTypes /\ ShownSoFar /\ Queue /\ InTurn

LEMMA WidthIs == ASSUME NEW w \in Widths PROVE w \in LineWords /\ w \in Nat \ {0} /\ CsSize \in Nat
  BY LinesAssumption DEF LineWords

LEMMA LineIs ==
  ASSUME NEW v \in Nat, NEW w \in Nat, NEW k \in Nat
  PROVE  Line(v, w, k) \in Lines /\ Line(v, w, k).y = v /\ Line(v, w, k).data = [i \in 1 .. w |-> k]
  BY DEF Line, Lines

\* As many lines as there are in a pass fit in the buffer.
LEMMA PassFits ==
  ASSUME NEW w \in LineWords, NEW n \in 1 .. FullPass(w)
  PROVE  n * w \in Nat /\ n * w <= CsSize - 10
<1>1. CsSize \in Nat /\ w \in Nat \ {0} /\ CsSize - 10 \in Nat
  BY LinesAssumption DEF LineWords
<1>2. PICK q \in Nat : q = FullPass(w) /\ w * q <= CsSize - 10
  BY <1>1, Divided DEF FullPass
<1>3. w * n <= w * q /\ w * n = n * w /\ n * w \in Nat
  BY <1>1, <1>2, TimesAbove, TimesNat
<1>. QED BY <1>1, <1>2, <1>3, TimesNat

LEMMA PassIs ==
  ASSUME NEW w \in LineWords
  PROVE  FullPass(w) \in Nat /\ 1 <= FullPass(w)
<1>1. CsSize \in Nat /\ w \in Nat \ {0} /\ CsSize - 10 \in Nat /\ w <= CsSize - 10
  BY LinesAssumption DEF LineWords
<1>2. PICK q \in Nat : q = FullPass(w) /\ CsSize - 10 < w * q + w
  BY <1>1, Divided DEF FullPass
<1>3. q # 0
  BY <1>1, <1>2
<1>. QED BY <1>2, <1>3

LEMMA LinesAtIs ==
  ASSUME LineTypes, NEW w \in LineWords, NEW n \in 1 .. FullPass(w)
  PROVE  /\ LinesAt(w, n) \in Nat /\ LinesAt(w, n) + n * w <= CsSize
         /\ Room(w, n) => LinesAt(w, n) = csWptr + 10
<1>1. n * w \in Nat /\ n * w <= CsSize - 10 /\ CsSize \in Nat /\ csWptr \in Nat
  BY PassFits, LinesAssumption DEF LineTypes
<1>. QED BY <1>1 DEF LinesAt, Room

\* The lines of a packet follow one another.
Following(q, at, v, n, w) ==
  /\ q \in Seq(Queued) /\ Len(q) = n
  /\ \A k \in 1 .. n : /\ q[k].y = v + k - 1 /\ q[k].w = w /\ q[k].at \in Nat
                       /\ at <= q[k].at /\ q[k].at + w <= at + n * w
  /\ n # 0 => q[1].at = at
  /\ \A k \in 1 .. n - 1 : q[k + 1].at = q[k].at + w
  /\ \A k, m \in 1 .. n : k < m => q[k].at + w <= q[m].at

LEMMA PacketIs ==
  ASSUME NEW at \in Nat, NEW v \in Nat, NEW n \in Nat, NEW w \in LineWords,
         NEW q, q = InPacket(at, v, n, w)
  PROVE  Following(q, at, v, n, w)
<1>1. w \in Nat /\ n * w \in Nat
  BY LinesAssumption, TimesNat DEF LineWords
<1>2. ASSUME NEW k \in 1 .. n
      PROVE  (k - 1) * w \in Nat /\ (k - 1) * w + w = k * w /\ k * w \in Nat /\ k * w <= n * w
    BY <1>1, TimesNat, TimesAbove
<1>3. q = [k \in 1 .. n |-> [y |-> v + k - 1, w |-> w, at |-> at + (k - 1) * w]]
  BY DEF InPacket
<1>4. q \in [1 .. n -> Queued]
  BY <1>2, <1>3, SMTT(20) DEF Queued
<1>5. q \in Seq(Queued) /\ Len(q) = n
  BY <1>4
<1>6. \A k \in 1 .. n : q[k].y = v + k - 1 /\ q[k].w = w /\ q[k].at = at + (k - 1) * w
  BY <1>3
<1>7. ASSUME NEW k \in 1 .. n PROVE q[k].at \in Nat /\ at <= q[k].at /\ q[k].at + w <= at + n * w
  BY <1>1, <1>2, <1>6
<1>8. n # 0 => q[1].at = at
  <2>1. (1 - 1) * w = 0
    BY <1>1
  <2>. QED BY <2>1, <1>6
<1>9. ASSUME NEW k \in 1 .. n - 1 PROVE q[k + 1].at = q[k].at + w
  <2>1. k \in 1 .. n /\ k + 1 \in 1 .. n
    OBVIOUS
  <2>2. ((k + 1) - 1) * w = (k - 1) * w + w /\ (k - 1) * w \in Nat
    BY <2>1, <1>2
  <2>3. q[k + 1].at = at + ((k + 1) - 1) * w /\ q[k].at = at + (k - 1) * w
    BY <2>1, <1>6
  <2>. QED BY <2>2, <2>3, <1>1
<1>10. ASSUME NEW k \in 1 .. n, NEW m \in 1 .. n, k < m PROVE q[k].at + w <= q[m].at
  <2>1. k * w <= (m - 1) * w
    BY <1>1, <1>10, TimesAbove
  <2>. QED BY <2>1, <1>1, <1>2, <1>6
<1>. QED BY <1>5, <1>6, <1>7, <1>8, <1>9, <1>10 DEF Following

\* When all lines of the packets are filled in, the engine gets the right ones.
LEMMA SubmittedIs ==
  ASSUME LineTypes, ShownSoFar, Queue, InHand <= line
  PROVE  /\ Submitted \in Seq(Lines) /\ Len(Submitted) = InHand
         /\ \A k \in 1 .. InHand : Submitted[k] = asked[k]
<1> DEFINE F == Fed(csBuffer, packets)
           n == Len(shown)
           r == Len(packets)
<1>1. n \in Nat /\ r \in Nat /\ DOMAIN packets = 1 .. r /\ InHand = n + r /\ line \in Nat
  BY DEF LineTypes, InHand
<1>2. ASSUME NEW k \in 1 .. r PROVE F[k] = asked[n + k] /\ asked[n + k] \in Lines
  <2>1. /\ asked[n + k] = Line(packets[k].y, packets[k].w, n + k)
        /\ \A i \in 1 .. packets[k].w : csBuffer[packets[k].at + i - 1] = n + k
    BY <1>1 DEF Queue
  <2>2. F[k] = [y |-> packets[k].y, data |-> [i \in 1 .. packets[k].w |-> csBuffer[packets[k].at + i - 1]]]
    BY <1>1 DEF Fed
  <2>3. n + k \in 1 .. Len(asked) /\ asked \in Seq(Lines)
    BY <1>1 DEF Queue, LineTypes
  <2>4. /\ asked[n + k] = [y |-> packets[k].y, data |-> [i \in 1 .. packets[k].w |-> n + k]]
        /\ asked[n + k] \in Lines
    <3>. HIDE DEF n
    <3>. QED BY <2>1, <2>3 DEF Line
  <2>5. [i \in 1 .. packets[k].w |-> csBuffer[packets[k].at + i - 1]] = [i \in 1 .. packets[k].w |-> n + k]
    BY <2>1
  <2>. HIDE DEF n, F
  <2>. QED BY <2>2, <2>4, <2>5
<1>3. F = [k \in 1 .. r |-> asked[n + k]]
  BY <1>1, <1>2 DEF Fed
<1>4. F \in [1 .. r -> Lines]
  BY <1>2, <1>3
<1>5. F \in Seq(Lines) /\ Len(F) = r
  BY <1>1, <1>4
<1>6. Submitted = shown \o F
  BY DEF Submitted
<1>7. shown \in Seq(Lines)
  BY DEF LineTypes
<1> HIDE DEF F, n
<1>8. Submitted \in Seq(Lines) /\ Len(Submitted) = n + r
  <2>1. n = Len(shown) /\ r = Len(packets)
    BY DEF n
  <2>2. shown \o F \in Seq(Lines) /\ Len(shown \o F) = Len(shown) + Len(F)
    <3>. HIDE DEF r
    <3>. QED BY <1>5, <1>7, ConcatProperties
  <2>. QED BY <2>1, <2>2, <1>5, <1>6
<1>9. ASSUME NEW k \in 1 .. n + r PROVE Submitted[k] = asked[k]
  <2>1. CASE k <= n
    <3>1. k \in 1 .. n
      BY <2>1, <1>1
    <3>2. Submitted[k] = shown[k]
      BY <3>1, <1>5, <1>6, <1>7 DEF n
    <3>. QED BY <3>1, <3>2 DEF ShownSoFar, n
  <2>2. CASE ~(k <= n)
    <3>1. k - n \in 1 .. r /\ n + (k - n) = k
      BY <2>2, <1>1
    <3>2. Submitted[k] = F[k - n]
      BY <3>1, <2>2, <1>1, <1>5, <1>6, <1>7 DEF n
    <3>. QED BY <3>1, <3>2, <1>2
  <2>. QED BY <2>1, <2>2
<1>. QED BY <1>1, <1>8, <1>9

\* The lines of another rectangle behind those that were asked for.
Continued(new, w, high) ==
  /\ new \in Seq(Lines) /\ Len(new) = Len(asked) + high /\ Len(asked) \in Nat
  /\ \A k \in 1 .. Len(asked) : new[k] = asked[k]
  /\ \A k \in 1 .. high : new[Len(asked) + k] = Line(k - 1, w, Len(asked) + k)

LEMMA AskedIs ==
  ASSUME LineTypes, NEW w \in Nat, NEW high \in Nat
  PROVE  Continued(Asked(w, high), w, high)
<1> DEFINE new == Asked(w, high)
           n == Len(asked)
           more == [k \in 1 .. high |-> Line(k - 1, w, n + k)]
<1>1. n \in Nat /\ asked \in Seq(Lines)
  BY DEF LineTypes
<1>2. new = asked \o more
  BY DEF Asked
<1> HIDE DEF new
<1>3. \A k \in 1 .. high : more[k] = Line(k - 1, w, n + k)
  OBVIOUS
<1> HIDE DEF n
<1>4. more \in [1 .. high -> Lines]
  <2>1. ASSUME NEW k \in 1 .. high PROVE Line(k - 1, w, n + k) \in Lines
    <3>1. k - 1 \in Nat /\ n + k \in Nat
      BY <1>1
    <3>. QED BY <3>1, LineIs
  <2>. QED BY <2>1
<1> HIDE DEF more
<1>5. more \in Seq(Lines) /\ Len(more) = high
  BY <1>4
<1>6. /\ new \in Seq(Lines) /\ Len(new) = Len(asked) + high
      /\ \A i \in 1 .. Len(asked) + high : new[i] = IF i <= Len(asked) THEN asked[i] ELSE more[i - Len(asked)]
  <2>1. asked \in Seq(Lines)
    BY <1>1
  <2>2. /\ asked \o more \in Seq(Lines) /\ Len(asked \o more) = Len(asked) + Len(more)
        /\ \A i \in 1 .. Len(asked) + Len(more) :
             (asked \o more)[i] = IF i <= Len(asked) THEN asked[i] ELSE more[i - Len(asked)]
    BY <2>1, <1>5, ConcatProperties
  <2>. QED BY <2>2, <1>2, <1>5
<1>7. ASSUME NEW k \in 1 .. high PROVE new[n + k] = Line(k - 1, w, n + k)
  <2>1. n + k \in 1 .. n + high /\ ~(n + k <= n) /\ (n + k) - n = k
    BY <1>1
  <2>. QED BY <2>1, <1>3, <1>6 DEF n
<1>. QED BY <1>1, <1>6, <1>7 DEF n, new, Continued

\* The registers a line is written to: the last word of the last line, and no
\* other, to HOST_DATA_LAST.
LEMMA RegistersAre ==
  ASSUME NEW w \in Nat \ {0}, NEW last \in BOOLEAN, NEW registers, registers = HostRegisters(w, last)
  PROVE  /\ \A i \in 1 .. w : registers[i] \in 0 .. 8 /\ (registers[i] = 8 => i = w)
         /\ 8 \in Range(registers) <=> last
<1> DEFINE remainder == IF last THEN 9 ELSE 8
           rounds == IF w <= remainder THEN 0 ELSE (w - remainder + 7) \div 8
           end == IF last THEN 8 ELSE 7
<1>1. registers = [i \in 1 .. w |-> IF i <= 8 * rounds THEN (i - 1) % 8 ELSE end - (w - i)]
  BY DEF HostRegisters
<1>2. rounds \in Nat /\ 8 * rounds < w /\ w <= 8 * rounds + remainder
  <2>1. CASE w <= remainder
    BY <2>1
  <2>2. CASE ~(w <= remainder)
    <3>0. remainder \in {8, 9}
      OBVIOUS
    <3>1. PICK m \in Nat : m = w - remainder + 7
      <4>. HIDE DEF remainder
      <4>. QED BY <2>2, <3>0
    <3>2. m = 8 * (m \div 8) + (m % 8) /\ m \div 8 \in Nat /\ m % 8 \in 0 .. 7
      BY <3>1
    <3>. QED BY <2>2, <3>1, <3>2
  <2>. QED BY <2>1, <2>2
<1>3. remainder \in Nat /\ remainder = end + 1 /\ end \in {7, 8} /\ (end = 8 <=> last)
  OBVIOUS
<1> HIDE DEF rounds, remainder, end
<1>4. ASSUME NEW i \in 1 .. w PROVE registers[i] \in 0 .. 8 /\ (registers[i] = 8 => i = w)
  <2>1. CASE i <= 8 * rounds
    <3>1. registers[i] = (i - 1) % 8
      BY <2>1, <1>1
    <3>. QED BY <3>1
  <2>2. CASE ~(i <= 8 * rounds)
    <3>1. registers[i] = end - (w - i)
      BY <2>2, <1>1
    <3>. QED BY <3>1, <2>2, <1>2, <1>3
  <2>. QED BY <2>1, <2>2
<1>5. registers[w] = end
  BY <1>1, <1>2, <1>3
<1>6. DOMAIN registers = 1 .. w
  BY <1>1
<1>7. last => 8 \in Range(registers)
  <2>1. w \in DOMAIN registers
    BY <1>6
  <2>2. last => registers[w] = 8
    BY <1>3, <1>5
  <2>. QED BY <2>1, <2>2 DEF Range
<1>8. 8 \in Range(registers) => last
  <2>1. ASSUME NEW i \in 1 .. w, registers[i] = 8 PROVE last
    BY <2>1, <1>3, <1>4, <1>5
  <2>. QED BY <2>1, <1>6 DEF Range
<1>. QED BY <1>4, <1>7, <1>8

LEMMA LinesInitRight == LinesInit => LineInv
<1> SUFFICES ASSUME LinesInit PROVE LineInv
  OBVIOUS
<1>1. CsSize \in Nat
  BY LinesAssumption
<1>2. LineTypes
  <2>1. csBuffer \in [0 .. CsSize - 1 -> Nat] /\ csWptr \in 0 .. CsSize
    BY <1>1 DEF LinesInit
  <2>2. asked \in Seq(Lines) /\ shown \in Seq(Lines) /\ packets \in Seq(Queued)
    BY DEF LinesInit
  <2>. QED BY <2>1, <2>2 DEF LinesInit, LineTypes
<1>3. ShownSoFar /\ Queue
  BY DEF LinesInit, ShownSoFar, Queue, InHand
<1>4. InTurn
  BY DEF LinesInit, InTurn
<1>. QED BY <1>2, <1>3, <1>4 DEF LineInv

\* What is there when the header of a packet was written: what was submitted,
\* and the lines of the packets before it.
AtHeader(given, waiting, top) ==
  /\ given \in Seq(Lines) /\ waiting \in Seq(Queued) /\ Len(given) + Len(waiting) = InHand
  /\ \A k \in 1 .. Len(given) : given[k] = asked[k]
  /\ \A k \in 1 .. Len(waiting) :
       /\ asked[Len(given) + k] = Line(waiting[k].y, waiting[k].w, Len(given) + k)
       /\ waiting[k].at + waiting[k].w <= top
       /\ \A i \in 1 .. waiting[k].w : csBuffer[waiting[k].at + i - 1] = Len(given) + k
  /\ \A k, m \in 1 .. Len(waiting) : k < m => waiting[k].at + waiting[k].w <= waiting[m].at

LEMMA HeaderIs ==
  ASSUME LineTypes, ShownSoFar, Queue, InHand <= line,
         NEW w \in LineWords, NEW n \in 1 .. FullPass(w), NEW v \in Nat, Header(w, v, n)
  PROVE  \E given \in Seq(Lines), waiting \in Seq(Queued) :
           /\ shown' = given /\ packets' = waiting \o InPacket(LinesAt(w, n), v, n, w)
           /\ AtHeader(given, waiting, LinesAt(w, n))
<1> DEFINE at == LinesAt(w, n)
           q == InPacket(at, v, n, w)
<1>1. at \in Nat /\ (Room(w, n) => at = csWptr + 10) /\ csWptr \in Nat
  BY LinesAtIs, LinesAssumption DEF LineTypes
<1>2. n \in Nat
  BY PassIs
<1>3. q \in Seq(Queued)
  <2>1. Following(q, at, v, n, w)
    BY <1>1, <1>2, PacketIs
  <2>. QED BY <2>1 DEF Following
<1>4. CASE Room(w, n)
  <2>1. shown' = shown /\ packets' = packets \o q /\ shown \in Seq(Lines) /\ packets \in Seq(Queued)
    BY <1>4 DEF Header, LineTypes
  <2>2. ASSUME NEW k \in 1 .. Len(packets)
        PROVE  /\ asked[Len(shown) + k] = Line(packets[k].y, packets[k].w, Len(shown) + k)
               /\ packets[k].at + packets[k].w <= at
               /\ \A i \in 1 .. packets[k].w : csBuffer[packets[k].at + i - 1] = Len(shown) + k
    <3>1. Len(shown) + k <= line
      BY DEF InHand, LineTypes
    <3>2. packets[k].at + packets[k].w <= csWptr /\ packets[k] \in Queued
      BY <2>1 DEF Queue
    <3>3. packets[k].at \in Nat /\ packets[k].w \in Nat
      BY <3>2, LinesAssumption DEF Queued, LineWords
    <3>4. packets[k].at + packets[k].w <= at
      <4>. HIDE DEF at
      <4>. QED BY <1>1, <1>4, <3>2, <3>3
    <3>. QED BY <3>1, <3>4 DEF Queue
  <2>3. AtHeader(shown, packets, at)
    <3>. HIDE DEF at
    <3>. QED BY <2>1, <2>2 DEF AtHeader, InHand, ShownSoFar, Queue
  <2>. QED BY <2>1, <2>3
<1>5. CASE ~Room(w, n)
  <2>1. shown' = Submitted /\ packets' = q
    BY <1>5 DEF Header
  <2>2. << >> \in Seq(Queued) /\ Len(<< >>) = 0
    OBVIOUS
  <2>3. packets' = << >> \o q
    BY <2>1, <1>3, ConcatEmptySeq
  <2>4. Submitted \in Seq(Lines) /\ Len(Submitted) = InHand /\ \A k \in 1 .. InHand : Submitted[k] = asked[k]
    BY SubmittedIs
  <2>5. AtHeader(Submitted, << >>, at)
    <3>1. InHand \in Nat
      BY DEF InHand, LineTypes
    <3>2. 1 .. Len(<< >>) = {}
      OBVIOUS
    <3>. HIDE DEF at
    <3>. QED BY <2>2, <2>4, <3>1, <3>2 DEF AtHeader
  <2>. QED BY <2>1, <2>2, <2>3, <2>4, <2>5
<1>. QED BY <1>4, <1>5

\* The next lines of a rectangle that are in no packet yet.
Awaited(w, v, tall) ==
  /\ asked' \in Seq(Lines) /\ Len(asked) <= Len(asked') /\ \A k \in 1 .. Len(asked) : asked'[k] = asked[k]
  /\ Len(asked') = InHand + tall /\ \A k \in 1 .. tall : asked'[InHand + k] = Line(v + k - 1, w, InHand + k)

\* A packet for them, when all lines before them are filled in.
LEMMA ScanlinePacketRight ==
  ASSUME LineTypes, ShownSoFar, Queue, InHand = line, open' = FALSE, hook' = "CP",
         NEW w \in LineWords, NEW v \in Nat, NEW tall \in Nat \ {0}, Awaited(w, v, tall),
         ScanlinePacket(w, v, tall, Fewer(tall, FullPass(w))), words' = w, UNCHANGED <<line, csBuffer>>
  PROVE  LineInv'
<1>1. PICK n \in Nat : n = Fewer(tall, FullPass(w)) /\ n \in 1 .. FullPass(w) /\ 1 <= n /\ n <= tall
  BY PassIs DEF Fewer
<1>2. 1 <= n /\ n <= tall
  BY <1>1
<1> DEFINE at == LinesAt(w, n)
           q == InPacket(at, v, n, w)
<1>3. at \in Nat /\ at + n * w <= CsSize /\ w \in Nat /\ n * w \in Nat /\ CsSize \in Nat
  BY <1>1, LinesAtIs, PassFits, LinesAssumption DEF LineWords
<1>4. Header(w, v, n)
  BY <1>1 DEF ScanlinePacket
<1>5. /\ window' = at /\ csWptr' = at + n * w
      /\ scanY' = v + n /\ scanH' = tall - n /\ scanPass' = n /\ step' = "fill"
  BY <1>1 DEF ScanlinePacket
<1>6. InHand <= line /\ line \in Nat
  BY DEF LineTypes
<1>7. PICK given \in Seq(Lines), waiting \in Seq(Queued) :
        shown' = given /\ packets' = waiting \o q /\ AtHeader(given, waiting, at)
  BY <1>1, <1>4, <1>6, HeaderIs
<1>8. q = InPacket(at, v, n, w)
  OBVIOUS
<1> HIDE DEF at, q
<1>9. /\ q \in Seq(Queued) /\ Len(q) = n
      /\ \A k \in 1 .. n : /\ q[k].y = v + k - 1 /\ q[k].w = w /\ q[k].at \in Nat
                           /\ at <= q[k].at /\ q[k].at + w <= at + n * w
      /\ q[1].at = at
      /\ \A k \in 1 .. n - 1 : q[k + 1].at = q[k].at + w
      /\ \A k, m \in 1 .. n : k < m => q[k].at + w <= q[m].at
  <2>1. Following(q, at, v, n, w)
    BY <1>3, <1>8, PacketIs
  <2>2. q[1].at = at
    BY <2>1, <1>2 DEF Following
  <2>. QED BY <2>1, <2>2 DEF Following
<1>10. Len(asked) \in Nat
  BY DEF LineTypes
<1>11. at <= csWptr' /\ csWptr' \in Nat /\ csWptr' = at + n * w
  BY <1>3, <1>5
<1>12. \A k \in 1 .. tall : asked'[InHand + k] = Line(v + k - 1, w, InHand + k)
  BY DEF Awaited
<1>13. /\ asked' \in Seq(Lines) /\ Len(asked) <= Len(asked') /\ \A k \in 1 .. Len(asked) : asked'[k] = asked[k]
       /\ Len(asked') = InHand + tall
  BY DEF Awaited
<1> DEFINE g == Len(given)
           r == Len(waiting)
<1>14. g \in Nat /\ r \in Nat /\ g + r = InHand /\ InHand \in Nat /\ line \in Nat
  BY <1>7, <1>6 DEF AtHeader
<1>15. /\ packets' \in Seq(Queued) /\ Len(packets') = r + n
       /\ \A k \in 1 .. r : packets'[k] = waiting[k]
       /\ \A k \in 1 .. n : packets'[r + k] = q[k]
  <2>1. /\ waiting \o q \in Seq(Queued) /\ Len(waiting \o q) = Len(waiting) + Len(q)
        /\ \A i \in 1 .. Len(waiting) + Len(q) :
             (waiting \o q)[i] = IF i <= Len(waiting) THEN waiting[i] ELSE q[i - Len(waiting)]
    BY <1>9, ConcatProperties
  <2>2. /\ packets' \in Seq(Queued) /\ Len(packets') = r + n
        /\ \A i \in 1 .. r + n : packets'[i] = IF i <= r THEN waiting[i] ELSE q[i - r]
    BY <2>1, <1>7, <1>9
  <2>3. ASSUME NEW k \in 1 .. r PROVE packets'[k] = waiting[k]
    <3>. HIDE DEF r
    <3>. QED BY <2>2, <1>2, <1>14
  <2>4. ASSUME NEW k \in 1 .. n PROVE packets'[r + k] = q[k]
    <3>. HIDE DEF r
    <3>1. r + k \in 1 .. r + n /\ ~(r + k <= r) /\ (r + k) - r = k
      BY <1>2, <1>14
    <3>. QED BY <3>1, <2>2
  <2>. QED BY <2>2, <2>3, <2>4
<1>16. \A k \in 1 .. r + n : k \in 1 .. r \/ (k - r \in 1 .. n /\ r + (k - r) = k)
  <2>. HIDE DEF r
  <2>. QED BY <1>2, <1>14
<1>17. /\ \A k \in 1 .. g : given[k] = asked[k]
       /\ \A k \in 1 .. r :
            /\ asked[g + k] = Line(waiting[k].y, waiting[k].w, g + k)
            /\ waiting[k].at + waiting[k].w <= at
            /\ \A i \in 1 .. waiting[k].w : csBuffer[waiting[k].at + i - 1] = g + k
       /\ \A k, m \in 1 .. r : k < m => waiting[k].at + waiting[k].w <= waiting[m].at
  BY <1>7 DEF AtHeader
<1>18. \A k \in 1 .. r : waiting[k].at \in Nat /\ waiting[k].w \in Nat
  <2>1. \A k \in 1 .. r : waiting[k] \in Queued
    OBVIOUS
  <2>. HIDE DEF r
  <2>. QED BY <2>1, LinesAssumption, SMTT(20) DEF Queued, LineWords
<1>19. /\ shown' = given /\ g = Len(shown') /\ r + n = Len(packets') /\ InHand' = InHand + n
       /\ Len(asked') = InHand + tall /\ InHand <= Len(asked)
  <2>1. shown' = given /\ g = Len(shown') /\ r + n = Len(packets')
    BY <1>7, <1>15
  <2>2. InHand' = InHand + n
    <3>1. InHand' = Len(shown') + Len(packets')
      BY DEF InHand
    <3>. HIDE DEF g, r
    <3>. QED BY <3>1, <2>1, <1>2, <1>14
  <2>. QED BY <2>1, <2>2, <1>13 DEF Queue
<1> HIDE DEF g, r
<1>20. LineTypes'
  <2>1. at + n * w \in 0 .. CsSize
    BY <1>3
  <2>2. v + n \in Nat /\ tall - n \in Nat
    BY <1>2
  <2>3. shown' \in Seq(Lines)
    BY <1>7
  <2>. QED BY <2>1, <2>2, <2>3, <1>13, <1>2, <1>3, <1>5, <1>15 DEF LineTypes
<1>21. ShownSoFar'
  <2>1. \A k \in 1 .. g : shown'[k] = asked'[k]
    BY <1>13, <1>14, <1>17, <1>19
  <2>2. g <= Len(asked')
    BY <1>14, <1>19
  <2>. QED BY <2>1, <2>2, <1>19 DEF ShownSoFar
<1>22. Queue'
  <2>1. InHand' <= Len(asked')
    BY <1>2, <1>14, <1>19
  <2>2. ASSUME NEW k \in 1 .. r + n
        PROVE  /\ asked'[g + k] = Line(packets'[k].y, packets'[k].w, g + k)
               /\ packets'[k].at + packets'[k].w <= csWptr'
               /\ g + k <= line' =>
                    \A i \in 1 .. packets'[k].w : csBuffer'[packets'[k].at + i - 1] = g + k
    <3>1. CASE k \in 1 .. r
      <4>1. packets'[k] = waiting[k]
        BY <3>1, <1>15
      <4>2. g + k \in 1 .. Len(asked) /\ asked'[g + k] = asked[g + k]
        <5>1. k \in Nat /\ 1 <= k /\ k <= r
          BY <3>1, <1>14
        <5>2. Len(asked) \in Nat /\ g + r <= Len(asked)
          BY <1>14, <1>19, <1>10
        <5>3. g + k \in 1 .. Len(asked)
          BY <5>1, <5>2, <1>14
        <5>. QED BY <5>3, <1>13
      <4>3. waiting[k].at + waiting[k].w <= csWptr'
        <5>1. waiting[k].at + waiting[k].w <= at /\ waiting[k].at \in Nat /\ waiting[k].w \in Nat /\ at \in Nat
          BY <3>1, <1>3, <1>17, <1>18
        <5>. QED BY <5>1, <1>11
      <4>. QED BY <3>1, <4>1, <4>2, <4>3, <1>17
    <3>2. CASE k - r \in 1 .. n /\ r + (k - r) = k
      <4>1. PICK j \in 1 .. n : j = k - r /\ k = r + j
        BY <3>2, <1>14
      <4>2. packets'[k] = q[j] /\ q[j].y = v + j - 1 /\ q[j].w = w /\ q[j].at + w <= at + n * w
        BY <4>1, <1>9, <1>15
      <4>3. g + k = InHand + j /\ j \in 1 .. tall /\ ~(g + k <= line')
        BY <4>1, <1>2, <1>14
      <4>4. asked'[g + k] = Line(v + j - 1, w, g + k)
        BY <4>3, <1>12
      <4>. QED BY <4>2, <4>3, <4>4, <1>11
    <3>. QED BY <3>1, <3>2, <1>16
  <2>3. ASSUME NEW k \in 1 .. r + n, NEW m \in 1 .. r + n, k < m
        PROVE  packets'[k].at + packets'[k].w <= packets'[m].at
    <3>1. CASE m \in 1 .. r
      <4>1. k \in 1 .. r
        BY <2>3, <3>1, <1>14
      <4>. QED BY <2>3, <3>1, <4>1, <1>15, <1>17
    <3>2. CASE m - r \in 1 .. n /\ r + (m - r) = m
      <4>1. PICK j \in 1 .. n : j = m - r /\ m = r + j
        BY <3>2, <1>14
      <4>2. packets'[m] = q[j] /\ at <= q[j].at /\ q[j].at \in Nat
        BY <4>1, <1>9, <1>15
      <4>3. CASE k \in 1 .. r
        <5>1. waiting[k].at + waiting[k].w <= at /\ waiting[k].at \in Nat /\ waiting[k].w \in Nat /\ at \in Nat
          BY <4>3, <1>3, <1>17, <1>18
        <5>2. packets'[k] = waiting[k]
          BY <4>3, <1>15
        <5>. QED BY <5>1, <5>2, <4>2, SMTT(20)
      <4>4. CASE k - r \in 1 .. n /\ r + (k - r) = k
        <5>1. PICK i \in 1 .. n : i = k - r /\ k = r + i
          BY <4>4, <1>14
        <5>2. i < j
          BY <5>1, <4>1, <2>3, <1>14
        <5>3. packets'[k] = q[i] /\ q[i].w = w
          BY <5>1, <1>9, <1>15
        <5>4. q[i].at + w <= q[j].at
          BY <5>2, <1>9
        <5>. QED BY <5>3, <5>4, <4>2
      <4>. QED BY <4>3, <4>4, <1>16
    <3>. QED BY <3>1, <3>2, <1>16
  <2>. QED BY <2>1, <2>2, <2>3, <1>19 DEF Queue
<1>23. Rest' /\ InHand' + scanH' = Len(asked')
  <2>1. InHand' + scanH' = Len(asked') /\ Len(asked') - scanH' = InHand + n
    BY <1>2, <1>5, <1>14, <1>19
  <2>2. ASSUME NEW k \in 1 .. scanH'
        PROVE  asked'[(InHand + n) + k] = Line(scanY' + k - 1, words', (InHand + n) + k)
    <3>1. n + k \in 1 .. tall /\ InHand + (n + k) = (InHand + n) + k /\ v + (n + k) - 1 = (v + n) + k - 1
      BY <1>2, <1>5, <1>14
    <3>2. asked'[InHand + (n + k)] = Line(v + (n + k) - 1, w, InHand + (n + k))
      BY <3>1, <1>12
    <3>. QED BY <3>1, <3>2, <1>5
  <2>. QED BY <2>1, <2>2 DEF Rest
<1>24. WindowAt(line - Len(shown) + 1)'
  <2>1. line' - Len(shown') + 1 = r + 1
    BY <1>14, <1>19, SMTT(20)
  <2>2. r + 1 \in 1 .. r + n /\ packets'[r + 1] = q[1]
    BY <1>2, <1>14, <1>15
  <2>3. ASSUME NEW m \in r + 1 .. r + n PROVE packets'[m].w = words'
    <3>1. PICK j \in 1 .. n : m = r + j
      BY <1>2, <1>14
    <3>. QED BY <3>1, <1>9, <1>15
  <2>4. ASSUME NEW m \in r + 1 .. r + n - 1 PROVE packets'[m + 1].at = packets'[m].at + words'
    <3>1. PICK j \in 1 .. n - 1 : m = r + j /\ m + 1 = r + (j + 1) /\ j \in 1 .. n /\ j + 1 \in 1 .. n
      BY <1>2, <1>14
    <3>2. packets'[m] = q[j] /\ packets'[m + 1] = q[j + 1]
      BY <3>1, <1>15
    <3>. QED BY <3>1, <3>2, <1>9
  <2>5. /\ r + 1 \in 1 .. Len(packets') /\ window' = packets'[r + 1].at
        /\ \A m \in r + 1 .. Len(packets') : packets'[m].w = words'
        /\ \A m \in r + 1 .. Len(packets') - 1 : packets'[m + 1].at = packets'[m].at + words'
    <3>1. r + n = Len(packets')
      BY <1>19
    <3>2. window' = packets'[r + 1].at
      BY <2>2, <1>5, <1>9
    <3>3. \A m \in r + 1 .. Len(packets') : packets'[m].w = words'
      BY <3>1, <2>3
    <3>4. \A m \in r + 1 .. Len(packets') - 1 : packets'[m + 1].at = packets'[m].at + words'
      <4>1. Len(packets') - 1 = r + n - 1
        BY <3>1, <1>14
      <4>. QED BY <4>1, <2>4
    <3>. QED BY <3>1, <3>2, <3>3, <3>4, <2>2
  <2>. QED BY <2>1, <2>5 DEF WindowAt
<1>25. InTurn'
  <2>1. scanPass' # 0 /\ line' + scanPass' = InHand'
    BY <1>2, <1>5, <1>14, <1>19
  <2>. QED BY <2>1, <1>5, <1>23, <1>24 DEF InTurn
<1>. QED BY <1>20, <1>21, <1>22, <1>25 DEF LineInv

\* Between two rectangles all lines are filled in, and there are packets with the CP only.
LEMMA DoneIs ==
  ASSUME LineInv, step = "done"
  PROVE  /\ InHand = line /\ line = Len(asked) /\ line \in Nat /\ open = FALSE
         /\ hook \in {"none", "MMIO", "EXA"} => packets = << >> /\ line = Len(shown)
         /\ hook \in {"none", "MMIO"} => window = 0
<1>1. line \in Nat /\ Len(shown) \in Nat /\ Len(<< >>) = 0
  BY DEF LineInv, LineTypes
<1>2. packets = << >> => InHand = Len(shown)
  BY <1>1 DEF InHand
<1>. QED BY <1>1, <1>2 DEF LineInv, InTurn

LEMMA FillRectCPRight ==
  ASSUME LineInv, NEW w \in Widths, NEW high \in 1 .. MaxLines, FillRectCP(w, high)
  PROVE  LineInv'
<1>1. LineTypes /\ ShownSoFar /\ Queue
  BY DEF LineInv
<1>2. w \in LineWords /\ w \in Nat /\ high \in Nat \ {0}
  BY WidthIs, LinesAssumption
<1>3. InHand = line /\ line = Len(asked) /\ line \in Nat /\ open = FALSE
  BY DoneIs DEF FillRectCP, MayAsk
<1>4. asked' = Asked(w, high) /\ hook' = "CP" /\ words' = w /\ UNCHANGED <<line, csBuffer, open>>
  BY DEF FillRectCP
<1>5. ScanlinePacket(w, 0, high, Fewer(high, FullPass(w)))
  BY DEF FillRectCP
<1>6. /\ asked' \in Seq(Lines) /\ Len(asked') = Len(asked) + high
      /\ \A k \in 1 .. Len(asked) : asked'[k] = asked[k]
      /\ \A k \in 1 .. high : asked'[Len(asked) + k] = Line(k - 1, w, Len(asked) + k)
  <2>1. Continued(asked', w, high)
    BY <1>1, <1>2, <1>4, AskedIs
  <2>. QED BY <2>1 DEF Continued
<1>7. \A k \in 1 .. high : 0 + k - 1 = k - 1
  OBVIOUS
<1>8. Awaited(w, 0, high)
  <2>1. Len(asked) = InHand /\ Len(asked) <= Len(asked') /\ Len(asked') = InHand + high
    BY <1>2, <1>3, <1>6
  <2>2. \A k \in 1 .. high : asked'[InHand + k] = Line(0 + k - 1, w, InHand + k)
    BY <2>1, <1>6, <1>7
  <2>. QED BY <2>1, <2>2, <1>6 DEF Awaited
<1>. QED BY <1>1, <1>2, <1>3, <1>4, <1>5, <1>8, ScanlinePacketRight

LEMMA FillRectMMIORight ==
  ASSUME LineInv, NEW w \in Widths, NEW high \in 1 .. MaxLines, FillRectMMIO(w, high)
  PROVE  LineInv'
<1>1. LineTypes /\ ShownSoFar /\ Queue
  BY DEF LineInv
<1>2. w \in LineWords /\ w \in Nat /\ high \in Nat /\ high # 0
  BY WidthIs, LinesAssumption
<1>3. /\ line = Len(asked) /\ line \in Nat /\ hook \in {"none", "MMIO"} /\ window = 0
      /\ packets = << >> /\ line = Len(shown)
  BY DoneIs DEF FillRectMMIO, MayAsk
<1>4. /\ asked' = Asked(w, high) /\ hook' = "MMIO" /\ words' = w /\ scanH' = high /\ open' = TRUE /\ step' = "fill"
      /\ UNCHANGED <<scanY, scanPass, window, line, csBuffer, csWptr, packets, shown>>
  BY DEF FillRectMMIO
<1>5. /\ asked' \in Seq(Lines) /\ Len(asked') = line + high
      /\ \A k \in 1 .. line : asked'[k] = asked[k]
      /\ \A k \in 1 .. high : asked'[line + k] = Line(k - 1, w, line + k)
  <2>1. Continued(asked', w, high)
    BY <1>1, <1>2, <1>4, AskedIs
  <2>. QED BY <2>1, <1>3 DEF Continued
<1>6. LineTypes'
  BY <1>1, <1>2, <1>4, <1>5 DEF LineTypes
<1>7. ShownSoFar' /\ Queue'
  <2>1. Len(packets') = 0 /\ Len(shown') = line /\ line <= Len(asked')
    BY <1>2, <1>3, <1>4, <1>5
  <2>2. ShownSoFar'
    BY <2>1, <1>1, <1>3, <1>4, <1>5 DEF ShownSoFar
  <2>. QED BY <2>1, <2>2, <1>3 DEF Queue, InHand
<1>8. \A k \in Len(shown') + 1 .. Len(asked') : asked'[k] = Line(asked'[k].y, words', k)
  <2>1. SUFFICES ASSUME NEW k \in line + 1 .. line + high PROVE asked'[k] = Line(asked'[k].y, w, k)
    BY <1>3, <1>4, <1>5
  <2>2. PICK j \in 1 .. high : k = line + j
    BY <1>2, <1>3
  <2>3. asked'[k] = Line(j - 1, w, k)
    BY <2>2, <1>5
  <2>. QED BY <2>3 DEF Line
<1>9. InTurn'
  BY <1>2, <1>3, <1>4, <1>5, <1>8 DEF InTurn
<1>. QED BY <1>6, <1>7, <1>9 DEF LineInv

LEMMA UploadToScreenCPRight ==
  ASSUME LineInv, NEW w \in Widths, NEW high \in 1 .. MaxLines, UploadToScreenCP(w, high)
  PROVE  LineInv'
<1>1. LineTypes /\ ShownSoFar /\ Queue
  BY DEF LineInv
<1>2. w \in LineWords /\ w \in Nat /\ high \in Nat /\ high # 0
  BY WidthIs, LinesAssumption
<1>3. line = Len(asked) /\ line \in Nat /\ packets = << >> /\ line = Len(shown) /\ open = FALSE
  BY DoneIs DEF UploadToScreenCP, MayAsk
<1>4. /\ asked' = Asked(w, high) /\ hook' = "EXA" /\ words' = w
      /\ scanY' = 0 /\ scanH' = high /\ scanPass' = FullPass(w) /\ step' = "packet"
      /\ UNCHANGED <<window, line, csBuffer, csWptr, packets, shown, open>>
  BY DEF UploadToScreenCP
<1>5. /\ asked' \in Seq(Lines) /\ Len(asked') = line + high
      /\ \A k \in 1 .. line : asked'[k] = asked[k]
      /\ \A k \in 1 .. high : asked'[line + k] = Line(k - 1, w, line + k)
  <2>1. Continued(asked', w, high)
    BY <1>1, <1>2, <1>4, AskedIs
  <2>. QED BY <2>1, <1>3 DEF Continued
<1>6. FullPass(w) \in Nat /\ 1 <= FullPass(w)
  BY <1>2, PassIs
<1>7. LineTypes'
  BY <1>1, <1>2, <1>4, <1>5, <1>6 DEF LineTypes
<1>8. ShownSoFar' /\ Queue'
  <2>1. Len(packets') = 0 /\ Len(shown') = line /\ line <= Len(asked')
    BY <1>2, <1>3, <1>4, <1>5
  <2>2. ShownSoFar'
    BY <2>1, <1>1, <1>3, <1>4, <1>5 DEF ShownSoFar
  <2>. QED BY <2>1, <2>2, <1>3 DEF Queue, InHand
<1>9. Rest'
  <2>1. Len(asked') - scanH' = line
    BY <1>2, <1>3, <1>4, <1>5
  <2>2. \A k \in 1 .. high : scanY' + k - 1 = k - 1
    BY <1>4
  <2>. QED BY <2>1, <2>2, <1>2, <1>4, <1>5 DEF Rest
<1>10. scanPass' \in 1 .. FullPass(words')
  BY <1>4, <1>6
<1>11. InTurn'
  BY <1>3, <1>4, <1>5, <1>9, <1>10 DEF InTurn
<1>. QED BY <1>7, <1>8, <1>11 DEF LineInv

LEMMA UploadDoneRight == ASSUME LineInv, UploadDone PROVE LineInv'
<1>1. /\ step = "packet" /\ scanH = 0 /\ step' = "done"
      /\ UNCHANGED <<hook, words, scanY, scanH, scanPass, window, line, asked, csBuffer, csWptr, packets, shown, open>>
  BY DEF UploadDone
<1>2. LineTypes' /\ ShownSoFar' /\ Queue'
  BY <1>1 DEF LineInv, LineTypes, ShownSoFar, Queue, InHand
<1>3. hook = "EXA" /\ packets = << >> /\ open = FALSE /\ line = Len(shown) /\ line + scanH = Len(asked)
  BY <1>1 DEF LineInv, InTurn
<1>4. line = Len(asked) /\ line \in Nat
  BY <1>1, <1>3 DEF LineInv, LineTypes
<1>5. InTurn'
  BY <1>1, <1>3, <1>4 DEF InTurn
<1>. QED BY <1>2, <1>5 DEF LineInv

LEMMA FlushLinesRight == ASSUME LineInv, FlushLines PROVE LineInv'
<1>1. /\ step = "done" /\ packets # << >> /\ shown' = Submitted /\ packets' = << >>
      /\ UNCHANGED <<hook, step, words, scanY, scanH, scanPass, window, line, asked, csBuffer, csWptr, open>>
  BY DEF FlushLines
<1>2. InHand = line /\ line = Len(asked) /\ line \in Nat /\ open = FALSE /\ hook = "CP"
  BY <1>1, DoneIs DEF LineInv, LineTypes
<1>3. Submitted \in Seq(Lines) /\ Len(Submitted) = line /\ \A k \in 1 .. line : Submitted[k] = asked[k]
  BY <1>2, SubmittedIs DEF LineInv
<1>4. LineTypes'
  BY <1>1, <1>3 DEF LineInv, LineTypes
<1>5. Len(packets') = 0 /\ InHand' = line
  BY <1>1, <1>2, <1>3 DEF InHand
<1>6. ShownSoFar' /\ Queue'
  BY <1>1, <1>2, <1>3, <1>5 DEF ShownSoFar, Queue
<1>7. InTurn'
  BY <1>1, <1>2, <1>5 DEF InTurn
<1>. QED BY <1>4, <1>6, <1>7 DEF LineInv

\* A line is filled in: that of a packet, where no other of them is, or the one for the registers.
LEMMA XaaFillsRight == ASSUME LineInv, XaaFills PROVE LineInv'
<1>1. /\ step = "fill" /\ step' = "subsequent" /\ line' = line + 1
      /\ csBuffer' = [i \in DOMAIN csBuffer |-> IF InWindow(i, window, words) THEN line + 1 ELSE csBuffer[i]]
      /\ UNCHANGED <<hook, words, scanY, scanH, scanPass, window, asked, csWptr, packets, shown, open>>
  BY DEF XaaFills
<1>2. /\ line \in Nat /\ words \in Nat /\ csBuffer \in [0 .. CsSize - 1 -> Nat] /\ csWptr \in 0 .. CsSize
      /\ packets \in Seq(Queued) /\ Len(shown) \in Nat /\ scanPass \in Nat
  BY DEF LineInv, LineTypes
<1>3. csBuffer' \in [0 .. CsSize - 1 -> Nat] /\ line' \in Nat
  BY <1>1, <1>2
<1>4. \A i \in 0 .. CsSize - 1 : csBuffer'[i] = IF InWindow(i, window, words) THEN line + 1 ELSE csBuffer[i]
  BY <1>1, <1>2
<1>5. LineTypes'
  BY <1>1, <1>3 DEF LineInv, LineTypes
<1>6. ShownSoFar' /\ InHand' = InHand
  BY <1>1 DEF LineInv, ShownSoFar, InHand
<1>7. CsSize \in Nat
  BY LinesAssumption
<1>8. \A k \in 1 .. Len(packets) : packets[k].at \in Nat /\ packets[k].w \in Nat
  <2>1. \A k \in 1 .. Len(packets) : packets[k] \in Queued
    BY <1>2
  <2>. QED BY <2>1, <1>7 DEF Queued, LineWords
<1>9. CASE hook = "CP"
  <2>1. /\ open = FALSE /\ Rest /\ InHand + scanH = Len(asked) /\ scanPass # 0
        /\ line + scanPass = InHand /\ WindowAt(line - Len(shown) + 1)
    BY <1>1, <1>9 DEF LineInv, InTurn
  <2>2. PICK a \in 1 .. Len(packets) : a = line - Len(shown) + 1
    BY <2>1 DEF WindowAt
  <2>3. Len(shown) + a = line + 1
    BY <2>2, <1>2
  <2>4. window = packets[a].at /\ packets[a].w = words
    <3>1. WindowAt(a)
      BY <2>1, <2>2
    <3>2. Len(packets) \in Nat
      BY <1>2
    <3>3. a \in a .. Len(packets)
      BY <3>2
    <3>. QED
      BY <3>1, <3>3 DEF WindowAt
  <2>5. ASSUME NEW k \in 1 .. Len(packets), Len(shown) + k <= line + 1, NEW i \in 1 .. packets[k].w
        PROVE  csBuffer'[packets[k].at + i - 1] = Len(shown) + k
    <3>1. packets[k].at + packets[k].w <= csWptr /\ packets[k].at \in Nat /\ packets[k].w \in Nat
      BY <1>8 DEF LineInv, Queue
    <3>2. packets[k].at + i - 1 \in 0 .. CsSize - 1
      <4>1. i \in Nat /\ 1 <= i /\ i <= packets[k].w
        BY <3>1
      <4>2. csWptr \in Nat /\ csWptr <= CsSize
        BY <1>2, <1>7
      <4>. QED BY <4>1, <4>2, <3>1, <1>7
    <3>3. CASE k = a
      <4>1. InWindow(packets[k].at + i - 1, window, words)
        BY <3>1, <3>3, <2>4 DEF InWindow
      <4>. QED BY <4>1, <3>2, <3>3, <2>3, <1>4
    <3>4. CASE k # a
      <4>1. k < a
        BY <2>5, <3>4, <2>3, <1>2
      <4>2. packets[k].at + packets[k].w <= window /\ window \in Nat
        BY <4>1, <2>4, <1>8 DEF LineInv, Queue
      <4>3. ~InWindow(packets[k].at + i - 1, window, words)
        BY <4>2, <3>1 DEF InWindow
      <4>4. Len(shown) + k <= line
        BY <4>1, <2>3, <1>2
      <4>5. csBuffer[packets[k].at + i - 1] = Len(shown) + k
        BY <4>4 DEF LineInv, Queue
      <4>. QED BY <4>3, <4>5, <3>2, <1>4
    <3>. QED BY <3>3, <3>4
  <2>6. Queue'
    BY <2>5, <1>1, <1>6 DEF LineInv, Queue
  <2>7. line' + scanPass' = InHand' + 1 /\ line' - Len(shown') = a /\ a = line - Len(shown) + 1
    BY <2>1, <2>2, <1>1, <1>2, <1>6
  <2>8. WindowAt(line - Len(shown))'
    BY <2>1, <2>7, <1>1 DEF WindowAt
  <2>9. Rest'
    BY <2>1, <1>1 DEF Rest
  <2>10. InTurn'
    BY <2>1, <2>7, <2>8, <2>9, <1>1, <1>6, <1>9 DEF InTurn
  <2>. QED BY <2>6, <2>10, <1>5, <1>6 DEF LineInv
<1>10. CASE hook = "MMIO"
  <2>1. /\ packets = << >> /\ window = 0 /\ open = TRUE /\ words \in LineWords
        /\ scanH # 0 /\ Len(shown) + scanH = Len(asked) /\ line = Len(shown)
        /\ \A k \in Len(shown) + 1 .. Len(asked) : asked[k] = Line(asked[k].y, words, k)
    BY <1>1, <1>10 DEF LineInv, InTurn
  <2>2. ASSUME NEW i \in 1 .. words PROVE csBuffer'[i - 1] = line'
    <3>1. i - 1 \in 0 .. CsSize - 1
      BY <2>1, <1>2, <1>7 DEF LineWords
    <3>2. InWindow(i - 1, window, words)
      BY <2>1, <1>2 DEF InWindow
    <3>. QED BY <3>1, <3>2, <1>1, <1>4
  <2>3. InTurn'
    BY <2>1, <2>2, <1>1, <1>10 DEF InTurn
  <2>4. Len(packets') = 0
    BY <2>1, <1>1
  <2>5. Queue'
    BY <2>4, <1>1, <1>6 DEF LineInv, Queue
  <2>. QED BY <2>3, <2>5, <1>5, <1>6 DEF LineInv
<1>. QED BY <1>1, <1>9, <1>10 DEF LineInv, InTurn

\* The next line of a packet, the next packet, or the end of the rectangle.
LEMMA SubsequentScanlineCPRight == ASSUME LineInv, SubsequentScanlineCP PROVE LineInv'
<1>1. /\ hook = "CP" /\ step = "subsequent" /\ UNCHANGED <<hook, words, line, asked, csBuffer, open>>
  BY DEF SubsequentScanlineCP
<1>2. /\ open = FALSE /\ Rest /\ InHand + scanH = Len(asked) /\ scanPass # 0
      /\ line + scanPass = InHand + 1 /\ WindowAt(line - Len(shown))
  BY <1>1 DEF LineInv, InTurn
<1>3. /\ line \in Nat /\ scanPass \in Nat /\ scanH \in Nat /\ scanY \in Nat /\ words \in Nat
      /\ Len(shown) \in Nat /\ Len(packets) \in Nat /\ Len(asked) \in Nat /\ InHand = Len(shown) + Len(packets)
  BY DEF LineInv, LineTypes, InHand
<1>4. LineTypes /\ ShownSoFar /\ Queue
  BY DEF LineInv
<1>5. CASE scanPass > 1
  <2>1. /\ scanPass' = scanPass - 1 /\ window' = window + words /\ step' = "fill"
        /\ UNCHANGED <<csWptr, scanY, scanH, packets, shown>>
    BY <1>5 DEF SubsequentScanlineCP
  <2>2. PICK a \in Nat : a = line - Len(shown) /\ a \in 1 .. Len(packets) /\ a + 1 \in 1 .. Len(packets)
    BY <1>2, <1>3, <1>5, SMTT(20) DEF WindowAt
  <2>3. window' = packets[a + 1].at
    <3>1. a \in a .. Len(packets) - 1
      BY <2>2, <1>3
    <3>. QED BY <3>1, <2>1, <2>2, <1>2 DEF WindowAt
  <2>4. line' - Len(shown') + 1 = a + 1 /\ line' + scanPass' = InHand /\ scanPass' # 0 /\ scanPass' \in Nat
    BY <2>1, <2>2, <1>1, <1>2, <1>3, <1>5
  <2>5. /\ \A m \in a + 1 .. Len(packets) : packets[m].w = words
        /\ \A m \in a + 1 .. Len(packets) - 1 : packets[m + 1].at = packets[m].at + words
    <3>1. \A m \in a + 1 .. Len(packets) : m \in a .. Len(packets)
      BY <2>2
    <3>2. \A m \in a + 1 .. Len(packets) - 1 : m \in a .. Len(packets) - 1
      BY <2>2
    <3>. QED BY <3>1, <3>2, <2>2, <1>2 DEF WindowAt
  <2>6. WindowAt(line - Len(shown) + 1)'
    BY <2>1, <2>2, <2>3, <2>4, <2>5, <1>1 DEF WindowAt
  <2>7. InHand' = InHand /\ Rest' /\ ShownSoFar' /\ Queue'
    BY <2>1, <1>1, <1>2, <1>4 DEF InHand, Rest, ShownSoFar, Queue
  <2>8. InTurn'
    BY <2>1, <2>4, <2>6, <2>7, <1>1, <1>2 DEF InTurn
  <2>9. window' \in Nat
    BY <2>1, <1>4 DEF LineTypes
  <2>10. LineTypes'
    BY <2>1, <2>4, <2>9, <1>1, <1>4 DEF LineTypes
  <2>. QED BY <2>7, <2>8, <2>10 DEF LineInv
<1>6. CASE ~(scanPass > 1)
  <2>1. scanPass = 1 /\ InHand = line
    BY <1>2, <1>3, <1>6
  <2>2. CASE scanH > 0
    <3>1. ScanlinePacket(words, scanY, scanH, Fewer(scanH, FullPass(words)))
      BY <1>6, <2>2 DEF SubsequentScanlineCP
    <3>2. Len(asked) - scanH = InHand
      BY <2>1, <1>2, <1>3
    <3>3. Awaited(words, scanY, scanH)
      <4>1. asked \in Seq(Lines) /\ asked' = asked
        BY <1>1, <1>4 DEF LineTypes
      <4>2. \A k \in 1 .. scanH : asked[InHand + k] = Line(scanY + k - 1, words, InHand + k)
        BY <3>2, <1>2 DEF Rest
      <4>3. Len(asked) = InHand + scanH
        BY <1>2
      <4>. QED BY <4>1, <4>2, <4>3, <1>3 DEF Awaited
    <3>4. words \in LineWords /\ scanH \in Nat \ {0} /\ open' = FALSE /\ hook' = "CP"
      BY <2>2, <1>1, <1>2, <1>3 DEF Rest
    <3>. QED BY <3>1, <3>3, <3>4, <2>1, <1>1, <1>3, <1>4, ScanlinePacketRight
  <2>3. CASE ~(scanH > 0)
    <3>1. /\ scanPass' = 0 /\ step' = "done" /\ UNCHANGED <<window, csWptr, scanY, scanH, packets, shown>>
      BY <1>6, <2>3 DEF SubsequentScanlineCP
    <3>2. line = Len(asked)
      BY <2>1, <2>3, <1>2, <1>3
    <3>3. LineTypes' /\ ShownSoFar' /\ Queue' /\ InHand' = InHand
      BY <3>1, <1>1, <1>4 DEF LineTypes, ShownSoFar, Queue, InHand
    <3>4. InTurn'
      BY <3>1, <3>2, <3>3, <2>1, <1>1, <1>2 DEF InTurn
    <3>. QED BY <3>3, <3>4 DEF LineInv
  <2>. QED BY <2>2, <2>3
<1>. QED BY <1>5, <1>6

\* A line through the registers: the engine takes all its words, and none behind the last line's.
LEMMA SubsequentScanlineMMIORight == ASSUME LineInv, SubsequentScanlineMMIO PROVE LineInv'
<1> DEFINE n == Len(shown)
           last == scanH' = 0
           registers == HostRegisters(words, last)
           Reaches(i) == /\ open /\ registers[i] \in 0 .. 8
                       /\ \A j \in 1 .. i - 1 : registers[j] # 8
<1>1. /\ hook = "MMIO" /\ step = "subsequent" /\ scanH' = scanH - 1
      /\ step' = IF scanH' > 0 THEN "fill" ELSE "done"
      /\ UNCHANGED <<hook, words, scanY, scanPass, window, line, asked, csBuffer, csWptr, packets>>
  BY DEF SubsequentScanlineMMIO
<1>2. /\ shown' = Append(shown, [y |-> asked[n + 1].y,
                                 data |-> [i \in 1 .. words |-> IF Reaches(i) THEN csBuffer[window + i - 1] ELSE 0]])
      /\ open' = (open /\ 8 \notin Range(registers))
  BY DEF SubsequentScanlineMMIO
<1>3. /\ packets = << >> /\ window = 0 /\ open = TRUE /\ words \in LineWords
      /\ scanH # 0 /\ n + scanH = Len(asked) /\ line = n + 1
      /\ \A k \in n + 1 .. Len(asked) : asked[k] = Line(asked[k].y, words, k)
      /\ \A i \in 1 .. words : csBuffer[i - 1] = line
  BY <1>1 DEF LineInv, InTurn
<1>4. scanH \in Nat /\ n \in Nat /\ line \in Nat /\ shown \in Seq(Lines) /\ asked \in Seq(Lines)
  BY DEF LineInv, LineTypes
<1>5. words \in Nat \ {0}
  BY <1>3, LinesAssumption DEF LineWords
<1>6. /\ \A i \in 1 .. words : registers[i] \in 0 .. 8 /\ (registers[i] = 8 => i = words)
      /\ 8 \in Range(registers) <=> last
  <2>1. last \in BOOLEAN
    OBVIOUS
  <2>. HIDE DEF last
  <2>. QED BY <2>1, <1>5, RegistersAre
<1> HIDE DEF registers
<1>7. ASSUME NEW i \in 1 .. words PROVE Reaches(i) /\ csBuffer[window + i - 1] = n + 1
  <2>1. ASSUME NEW j \in 1 .. i - 1 PROVE registers[j] # 8
    <3>1. j \in 1 .. words /\ j # words
      BY <1>5
    <3>. QED BY <3>1, <1>6
  <2>2. window + i - 1 = i - 1
    BY <1>3
  <2>. QED BY <2>1, <2>2, <1>3, <1>6
<1> HIDE DEF Reaches, n
<1>8. n + 1 \in n + 1 .. Len(asked) /\ n + 1 \in 1 .. Len(asked)
  BY <1>3, <1>4
<1>9. shown' = Append(shown, asked[n + 1]) /\ asked[n + 1] \in Lines
  <2>1. asked[n + 1] = [y |-> asked[n + 1].y, data |-> [i \in 1 .. words |-> n + 1]]
    BY <1>3, <1>8 DEF Line
  <2>2. [i \in 1 .. words |-> IF Reaches(i) THEN csBuffer[window + i - 1] ELSE 0] = [i \in 1 .. words |-> n + 1]
    BY <1>7
  <2>3. asked[n + 1] \in Lines
    BY <1>4, <1>8
  <2>. QED BY <2>1, <2>2, <2>3, <1>2
<1>10. /\ shown' \in Seq(Lines) /\ Len(shown') = n + 1
       /\ \A k \in 1 .. n : shown'[k] = shown[k]
       /\ shown'[n + 1] = asked[n + 1]
  BY <1>4, <1>9 DEF n
<1>11. open' = ~last
  BY <1>2, <1>3, <1>6
<1>12. scanH' \in Nat /\ (n + 1) + scanH' = Len(asked) /\ (last => step' = "done") /\ (~last => step' = "fill")
  BY <1>1, <1>3, <1>4
<1>13. LineTypes'
  <2>1. open' \in BOOLEAN /\ step' \in {"fill", "done"}
    BY <1>11, <1>12
  <2>. QED BY <2>1, <1>1, <1>10, <1>12 DEF LineInv, LineTypes
<1>14. ShownSoFar'
  <2>1. n + 1 <= Len(asked)
    BY <1>8, <1>4
  <2>2. \A k \in 1 .. n : shown[k] = asked[k]
    BY DEF LineInv, ShownSoFar, n
  <2>3. \A k \in 1 .. n + 1 : k \in 1 .. n \/ k = n + 1
    BY <1>4
  <2>. QED BY <2>1, <2>2, <2>3, <1>1, <1>10 DEF ShownSoFar
<1>15. Queue'
  <2>1. Len(packets') = 0 /\ InHand' <= Len(asked')
    BY <1>1, <1>3, <1>8, <1>10, <1>4 DEF InHand
  <2>. QED BY <2>1 DEF Queue
<1>16. line' = Len(shown') /\ Len(shown') + scanH' = Len(asked') /\ packets' = << >> /\ window' = 0 /\ hook' = "MMIO"
  BY <1>1, <1>3, <1>10, <1>12
<1>17. InTurn'
  <2>1. CASE last
    <3>1. line' = Len(asked')
      BY <2>1, <1>16, <1>10, <1>4
    <3>. QED BY <3>1, <2>1, <1>11, <1>12, <1>16 DEF InTurn
  <2>2. CASE ~last
    <3>1. \A k \in Len(shown') + 1 .. Len(asked') : asked'[k] = Line(asked'[k].y, words', k)
      <4>1. \A k \in (n + 1) + 1 .. Len(asked) : k \in n + 1 .. Len(asked)
        BY <1>4
      <4>2. \A k \in (n + 1) + 1 .. Len(asked) : asked[k] = Line(asked[k].y, words, k)
        BY <4>1, <1>3
      <4>. QED BY <4>2, <1>1, <1>10
    <3>2. open' = TRUE /\ words' \in LineWords /\ scanH' # 0 /\ step' = "fill"
      BY <2>2, <1>1, <1>3, <1>11, <1>12
    <3>. QED BY <3>1, <3>2, <1>16 DEF InTurn
  <2>. QED BY <2>1, <2>2
<1>. QED BY <1>13, <1>14, <1>15, <1>17 DEF LineInv

LEMMA Quotient ==
  ASSUME NEW K \in Nat \ {0}, NEW a \in Nat, NEW b \in Nat, b < K
  PROVE  (a * K + b) \div K = a
<1>1. PICK X \in Nat : X = a * K + b
  BY TimesNat
<1>2. PICK q \in Nat : q = X \div K /\ q * K <= X /\ X < q * K + K
  BY <1>1, Divided
<1>3. a * K \in Nat /\ q * K \in Nat
  BY TimesNat
<1>4. CASE a < q
  <2>1. (a + 1) * K <= q * K /\ (a + 1) * K = a * K + K
    BY <1>4, TimesAbove
  <2>. QED BY <2>1, <1>1, <1>2, <1>3
<1>5. CASE q < a
  <2>1. (q + 1) * K <= a * K /\ (q + 1) * K = q * K + K
    BY <1>5, TimesAbove
  <2>. QED BY <2>1, <1>1, <1>2, <1>3
<1>. QED BY <1>1, <1>2, <1>4, <1>5

\* A packet of EXA's: all its lines are filled in and submitted.
LEMMA UploadPacketRight == ASSUME LineInv, UploadPacket PROVE LineInv'
<1> DEFINE n == Fewer(scanH, scanPass)
           at == LinesAt(words, n)
           filled == [i \in DOMAIN csBuffer |->
                        IF InWindow(i, at, n * words) THEN line + 1 + (i - at) \div words ELSE csBuffer[i]]
           F == Fed(filled, InPacket(at, scanY, n, words))
<1>1. /\ step = "packet" /\ scanH > 0 /\ scanPass' = n /\ csBuffer' = filled /\ shown' = Submitted \o F
      /\ csWptr' = at + n * words /\ packets' = << >>
      /\ line' = line + n /\ scanY' = scanY + n /\ scanH' = scanH - n
      /\ UNCHANGED <<hook, step, words, window, asked, open>>
  BY DEF UploadPacket
<1>2. /\ hook = "EXA" /\ packets = << >> /\ open = FALSE /\ line = Len(shown)
      /\ Rest /\ line + scanH = Len(asked) /\ scanPass \in 1 .. FullPass(words)
  BY <1>1 DEF LineInv, InTurn
<1>3. /\ line \in Nat /\ scanH \in Nat /\ scanY \in Nat /\ words \in Nat /\ csBuffer \in [0 .. CsSize - 1 -> Nat]
      /\ asked \in Seq(Lines)
  BY DEF LineInv, LineTypes
<1>4. words \in LineWords /\ words # 0
  BY <1>2, LinesAssumption DEF Rest, LineWords
<1>5. n \in 1 .. FullPass(words) /\ n \in Nat /\ 1 <= n /\ n <= scanH
  BY <1>1, <1>2, <1>3, <1>4, PassIs DEF Fewer
<1> HIDE DEF n
<1>6. at \in Nat /\ n * words \in Nat /\ at + n * words <= CsSize /\ CsSize \in Nat
  BY <1>4, <1>5, LinesAtIs, PassFits, LinesAssumption DEF LineInv
<1> HIDE DEF at
<1>7. filled \in [0 .. CsSize - 1 -> Nat]
  <2>1. ASSUME NEW i \in 0 .. CsSize - 1, InWindow(i, at, n * words)
        PROVE  line + 1 + (i - at) \div words \in Nat
    <3>1. i - at \in Nat
      BY <2>1, <1>6 DEF InWindow
    <3>2. (i - at) \div words \in Nat
      BY <3>1, <1>3, <1>4, Divided
    <3>. QED BY <3>2, <1>3
  <2>. QED BY <2>1, <1>3
<1>8. /\ scanH > 0 /\ scanPass' = n /\ line' = line + n /\ scanY' = scanY + n /\ scanH' = scanH - n /\ asked' = asked
  BY <1>1
<1>9. ASSUME NEW k \in 1 .. n, NEW i \in 1 .. words
      PROVE  filled[(at + (k - 1) * words) + i - 1] = line + k
  <2>0. PICK chunk \in Nat : chunk = n * words /\ at + chunk <= CsSize
    BY <1>6
  <2>1. PICK c \in Nat : c = (k - 1) * words /\ c + words <= chunk
    <3>1. (k - 1) * words \in Nat /\ (k - 1) * words + words = k * words /\ k * words <= n * words
      BY <1>3, <1>5, TimesNat, TimesAbove
    <3>. QED BY <3>1, <2>0
  <2>2. PICK b \in Nat : b = i - 1 /\ b < words
    BY <1>3
  <2>3. PICK j \in Nat : j = (at + c) + i - 1 /\ j - at = c + b
    BY <2>1, <2>2, <1>6
  <2>4. j \in 0 .. CsSize - 1 /\ InWindow(j, at, n * words)
    <3>1. at \in Nat /\ CsSize \in Nat /\ c \in Nat /\ b \in Nat /\ j = at + c + b /\ words \in Nat
      BY <2>2, <2>3, <1>3, <1>6
    <3>2. c + words <= chunk /\ b < words /\ at + chunk <= CsSize
      BY <2>0, <2>1, <2>2
    <3>3. at <= j /\ j < at + chunk /\ j \in 0 .. CsSize - 1
      BY <3>1, <3>2
    <3>. QED BY <3>3, <2>0 DEF InWindow
  <2>5. (j - at) \div words = k - 1
    <3>1. ((k - 1) * words + b) \div words = k - 1
      BY <2>2, <1>3, <1>4, <1>5, Quotient
    <3>. QED BY <3>1, <2>1, <2>3
  <2>6. filled[j] = line + 1 + (j - at) \div words
    BY <2>4, <1>3
  <2>7. line + 1 + (k - 1) = line + k
    BY <1>3
  <2>. QED BY <2>1, <2>3, <2>5, <2>6, <2>7
<1> HIDE DEF filled
<1>10. ASSUME NEW k \in 1 .. n PROVE F[k] = asked[line + k] /\ asked[line + k] \in Lines
  <2>1. /\ DOMAIN InPacket(at, scanY, n, words) = 1 .. n
        /\ InPacket(at, scanY, n, words)[k] = [y |-> scanY + k - 1, w |-> words, at |-> at + (k - 1) * words]
    BY DEF InPacket
  <2>2. F[k] = [y |-> scanY + k - 1, data |-> [i \in 1 .. words |-> filled[(at + (k - 1) * words) + i - 1]]]
    <3>1. PICK q : q = InPacket(at, scanY, n, words)
      OBVIOUS
    <3>2. k \in DOMAIN q /\ q[k].y = scanY + k - 1 /\ q[k].w = words /\ q[k].at = at + (k - 1) * words
      BY <2>1, <3>1
    <3>3. F = Fed(filled, q)
      BY <3>1
    <3>. HIDE DEF F
    <3>. QED BY <3>2, <3>3 DEF Fed
  <2>3. [i \in 1 .. words |-> filled[(at + (k - 1) * words) + i - 1]] = [i \in 1 .. words |-> line + k]
    BY <1>9
  <2>4. asked[line + k] = Line(scanY + k - 1, words, line + k)
    <3>1. Len(asked) - scanH = line /\ k \in 1 .. scanH
      BY <1>2, <1>3, <1>5
    <3>. QED BY <3>1, <1>2 DEF Rest
  <2>5. line + k \in 1 .. Len(asked)
    BY <1>2, <1>3, <1>5
  <2>6. asked[line + k] \in Lines
    BY <2>5, <1>3
  <2>7. F[k] = [y |-> scanY + k - 1, data |-> [i \in 1 .. words |-> line + k]]
    <3>. HIDE DEF F
    <3>. QED BY <2>2, <2>3
  <2>. HIDE DEF F
  <2>. QED BY <2>4, <2>6, <2>7 DEF Line
<1>11. DOMAIN F = 1 .. n /\ F = [k \in DOMAIN F |-> F[k]]
  BY DEF Fed, InPacket
<1> HIDE DEF F
<1>12. F \in Seq(Lines) /\ Len(F) = n
  <2>1. F \in [1 .. n -> Lines]
    BY <1>10, <1>11
  <2>. QED BY <2>1, <1>5
<1>13. Submitted \in Seq(Lines) /\ Len(Submitted) = line /\ \A k \in 1 .. line : Submitted[k] = asked[k]
  <2>1. Len(packets) = 0 /\ InHand = line
    BY <1>2, <1>3 DEF InHand
  <2>. QED BY <2>1, <1>3, SubmittedIs DEF LineInv
<1>14. /\ shown' \in Seq(Lines) /\ Len(shown') = line + n
       /\ \A k \in 1 .. line + n : shown'[k] = asked[k]
  <2>1. /\ Submitted \o F \in Seq(Lines) /\ Len(Submitted \o F) = Len(Submitted) + Len(F)
        /\ \A k \in 1 .. Len(Submitted) + Len(F) :
             (Submitted \o F)[k] = IF k <= Len(Submitted) THEN Submitted[k] ELSE F[k - Len(Submitted)]
    BY <1>12, <1>13, ConcatProperties
  <2>2. /\ shown' \in Seq(Lines) /\ Len(shown') = line + n
        /\ \A k \in 1 .. line + n : shown'[k] = IF k <= line THEN Submitted[k] ELSE F[k - line]
    BY <2>1, <1>1, <1>12, <1>13
  <2>3. ASSUME NEW k \in 1 .. line + n PROVE shown'[k] = asked[k]
    <3>1. CASE k <= line
      <4>1. k \in 1 .. line
        BY <3>1, <1>3
      <4>. QED BY <4>1, <3>1, <2>2, <1>13
    <3>2. CASE ~(k <= line)
      <4>1. k - line \in 1 .. n /\ line + (k - line) = k
        BY <3>2, <1>3, <1>5
      <4>2. F[k - line] = asked[k]
        BY <4>1, <1>10
      <4>. QED BY <4>2, <3>2, <2>2
    <3>. QED BY <3>1, <3>2
  <2>. QED BY <2>2, <2>3
<1>15. LineTypes'
  <2>1. scanPass' \in Nat /\ line' \in Nat /\ scanY' \in Nat /\ scanH' \in Nat
    BY <1>8, <1>3, <1>5
  <2>3. csWptr' \in 0 .. CsSize
    BY <1>1, <1>6
  <2>2. packets' \in Seq(Queued)
    BY <1>1
  <2>. QED BY <2>1, <2>2, <2>3, <1>1, <1>7, <1>14 DEF LineInv, LineTypes
<1>16. line + n <= Len(asked)
  BY <1>2, <1>3, <1>5
<1>17. ShownSoFar' /\ Queue'
  <2>1. Len(packets') = 0 /\ InHand' = line + n
    BY <1>1, <1>3, <1>5, <1>14 DEF InHand
  <2>2. ShownSoFar'
    BY <1>1, <1>14, <1>16 DEF ShownSoFar
  <2>. QED BY <2>1, <2>2, <1>1, <1>16 DEF Queue
<1>18. Rest' /\ line' + scanH' = Len(asked')
  <2>1. line' + scanH' = Len(asked') /\ Len(asked') - scanH' = line + n
    BY <1>8, <1>2, <1>3, <1>5
  <2>2. ASSUME NEW k \in 1 .. scanH'
        PROVE  asked'[(line + n) + k] = Line(scanY' + k - 1, words', (line + n) + k)
    <3>1. n + k \in 1 .. scanH /\ line + (n + k) = (line + n) + k /\ scanY + (n + k) - 1 = (scanY + n) + k - 1
      BY <1>8, <1>3, <1>5
    <3>2. Len(asked) - scanH = line
      BY <1>2, <1>3
    <3>3. asked[line + (n + k)] = Line(scanY + (n + k) - 1, words, line + (n + k))
      BY <3>1, <3>2, <1>2 DEF Rest
    <3>. QED BY <3>1, <3>3, <1>1
  <2>. QED BY <2>1, <2>2, <1>1, <1>4 DEF Rest
<1>19. InTurn'
  <2>1. scanPass' \in 1 .. FullPass(words') /\ line' = Len(shown')
    BY <1>1, <1>5, <1>14
  <2>. QED BY <2>1, <1>1, <1>2, <1>18 DEF InTurn
<1>. QED BY <1>15, <1>17, <1>19 DEF LineInv

LEMMA LineInvStep == LineInv /\ [LinesNext]_lineVars => LineInv'
<1> SUFFICES ASSUME LineInv, [LinesNext]_lineVars PROVE LineInv'
  OBVIOUS
<1>1. CASE UNCHANGED lineVars
  BY <1>1 DEF lineVars, LineInv, LineTypes, ShownSoFar, InHand, Queue, Rest, WindowAt, InTurn
<1>2. CASE LinesNext
  BY <1>2, FillRectCPRight, FillRectMMIORight, UploadToScreenCPRight, XaaFillsRight, SubsequentScanlineCPRight,
     SubsequentScanlineMMIORight, UploadPacketRight, UploadDoneRight, FlushLinesRight DEF LinesNext
<1>. QED BY <1>1, <1>2

LEMMA LineInvSuffices == LineInv => ScanlinesRight
<1> SUFFICES ASSUME LineInv PROVE ScanlinesRight
  OBVIOUS
<1>1. /\ shown \in Seq(Lines) /\ asked \in Seq(Lines) /\ Len(shown) <= Len(asked)
      /\ \A k \in 1 .. Len(shown) : shown[k] = asked[k]
  BY DEF LineInv, LineTypes, ShownSoFar
<1>2. IsPrefix(shown, asked)
  <2>1. SubSeq(shown, 1, Len(shown)) = SubSeq(asked, 1, Len(shown))
    BY <1>1
  <2>. QED BY <2>1, <1>1 DEF IsPrefix
<1>3. ASSUME step = "done", packets = << >> PROVE shown = asked /\ ~open
  <2>1. InHand = Len(asked) /\ open = FALSE
    BY <1>3, DoneIs
  <2>2. Len(shown) = Len(asked)
    BY <2>1, <1>1, <1>3 DEF InHand
  <2>. QED BY <2>1, <2>2, <1>1
<1>. QED BY <1>2, <1>3 DEF ScanlinesRight

\* ScanlinesRight: XAA's windows (R5xxXAACPScanlinePacket and the Subsequent
\* functions, with the CP and without) and EXA's upload give the engine each
\* line once, in order and with its own words, for any size of the buffer, any
\* widths that fit a packet and any heights.
THEOREM LinesHold == LinesSpec => []ScanlinesRight
<1>. QED BY LinesInitRight, LineInvStep, LineInvSuffices, PTL DEF LinesSpec

=============================================================================
