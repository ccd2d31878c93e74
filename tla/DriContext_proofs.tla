------------------------- MODULE DriContext_proofs -------------------------
(***************************************************************************)
(* What X and the clients find on the card they share, for any number of    *)
(* clients and however long they go on.                                     *)
(*                                                                         *)
(* The properties of DriContext look at all pairs of items of the stream.   *)
(* What an item may find depends on little of its past: whether something   *)
(* of a kind came before it and nothing since has put an end to that.       *)
(***************************************************************************)
EXTENDS DriContext, SequenceTheorems, TLAPS

\* One of the items A is in s, with none of the items W behind it.
Standing(s, A, W) ==
  \E i \in 1 .. Len(s) : s[i] \in A /\ \A k \in i + 1 .. Len(s) : s[k] \notin W

\* Between an A and a B that comes later there always is a W.
Separated(s, A, W, B) ==
  \A i, j \in 1 .. Len(s) :
    i < j /\ s[i] \in A /\ s[j] \in B => \E k \in i + 1 .. j - 1 : s[k] \in W

\* Each B has an A before it, with no W in between.
Backed(s, A, W, B) ==
  \A j \in 1 .. Len(s) : s[j] \in B =>
    \E i \in 1 .. j - 1 : s[i] \in A /\ \A k \in i + 1 .. j - 1 : s[k] \notin W
-----------------------------------------------------------------------------
(* One item more. *)

LEMMA StandingAppend ==
  ASSUME NEW S, NEW s \in Seq(S), NEW x \in S, NEW A, NEW W
  PROVE  Standing(Append(s, x), A, W) <=> x \in A \/ (Standing(s, A, W) /\ x \notin W)
<1> DEFINE n == Len(s)
           t == Append(s, x)
<1>1. n \in Nat /\ Len(t) = n + 1 /\ t[n + 1] = x /\ \A i \in 1 .. n : t[i] = s[i]
  BY AppendProperties, LenProperties
<1> HIDE DEF t, n
<1>2. ASSUME x \in A PROVE Standing(t, A, W)
  BY <1>1, <1>2 DEF Standing
<1>3. ASSUME Standing(s, A, W), x \notin W PROVE Standing(t, A, W)
  <2>1. PICK i \in 1 .. n : s[i] \in A /\ \A k \in i + 1 .. n : s[k] \notin W
    BY <1>3 DEF Standing, n
  <2>2. \A k \in i + 1 .. n + 1 : t[k] \notin W
    <3> TAKE k \in i + 1 .. n + 1
    <3>1. CASE k = n + 1
      BY <1>1, <1>3, <3>1
    <3>2. CASE k \in i + 1 .. n
      BY <1>1, <2>1, <3>2
    <3> QED
      BY <1>1, <3>1, <3>2
  <2> QED
    BY <1>1, <2>1, <2>2 DEF Standing
<1>4. ASSUME Standing(t, A, W), x \notin A PROVE Standing(s, A, W) /\ x \notin W
  <2>1. PICK i \in 1 .. n + 1 : t[i] \in A /\ \A k \in i + 1 .. n + 1 : t[k] \notin W
    BY <1>1, <1>4 DEF Standing
  <2>2. i \in 1 .. n
    BY <1>1, <1>4, <2>1
  <2>3. x \notin W
    BY <1>1, <2>1, <2>2
  <2>4. \A k \in i + 1 .. n : s[k] \notin W
    <3> TAKE k \in i + 1 .. n
    <3>1. k \in 1 .. n /\ k \in i + 1 .. n + 1
      BY <1>1, <2>2
    <3> QED
      BY <1>1, <2>1, <3>1
  <2> QED
    BY <1>1, <2>1, <2>2, <2>3, <2>4 DEF Standing, n
<1> QED
  BY <1>2, <1>3, <1>4 DEF t

LEMMA SeparatedAppend ==
  ASSUME NEW S, NEW s \in Seq(S), NEW x \in S, NEW A, NEW W, NEW B
  PROVE  Separated(Append(s, x), A, W, B)
           <=> Separated(s, A, W, B) /\ (x \in B => ~Standing(s, A, W))
<1> DEFINE n == Len(s)
           t == Append(s, x)
<1>1. n \in Nat /\ Len(t) = n + 1 /\ t[n + 1] = x /\ \A i \in 1 .. n : t[i] = s[i]
  BY AppendProperties, LenProperties
<1> HIDE DEF t, n
<1>2. ASSUME Separated(t, A, W, B) PROVE Separated(s, A, W, B)
  <2> SUFFICES ASSUME NEW i \in 1 .. n, NEW j \in 1 .. n, i < j, s[i] \in A, s[j] \in B
               PROVE  \E k \in i + 1 .. j - 1 : s[k] \in W
    BY DEF Separated, n
  <2>1. PICK k \in i + 1 .. j - 1 : t[k] \in W
    BY <1>1, <1>2 DEF Separated
  <2> QED
    BY <1>1, <2>1
<1>3. ASSUME Separated(t, A, W, B), x \in B PROVE ~Standing(s, A, W)
  <2> SUFFICES ASSUME NEW i \in 1 .. n, s[i] \in A PROVE \E k \in i + 1 .. n : s[k] \in W
    BY DEF Standing, n
  <2>1. PICK k \in i + 1 .. (n + 1) - 1 : t[k] \in W
    BY <1>1, <1>3 DEF Separated
  <2> QED
    BY <1>1, <2>1
<1>4. ASSUME Separated(s, A, W, B), x \in B => ~Standing(s, A, W) PROVE Separated(t, A, W, B)
  <2> SUFFICES ASSUME NEW i \in 1 .. n + 1, NEW j \in 1 .. n + 1, i < j, t[i] \in A, t[j] \in B
               PROVE  \E k \in i + 1 .. j - 1 : t[k] \in W
    BY <1>1 DEF Separated
  <2>1. i \in 1 .. n /\ s[i] \in A
    BY <1>1
  <2>2. CASE j = n + 1
    <3>1. PICK k \in i + 1 .. n : s[k] \in W
      BY <1>1, <1>4, <2>1, <2>2 DEF Standing, n
    <3> QED
      BY <1>1, <2>2, <3>1
  <2>3. CASE j \in 1 .. n
    <3>1. PICK k \in i + 1 .. j - 1 : s[k] \in W
      BY <1>1, <1>4, <2>1, <2>3 DEF Separated, n
    <3> QED
      BY <1>1, <2>1, <2>3, <3>1
  <2> QED
    BY <1>1, <2>2, <2>3
<1> QED
  BY <1>2, <1>3, <1>4 DEF t

LEMMA BackedAppend ==
  ASSUME NEW S, NEW s \in Seq(S), NEW x \in S, NEW A, NEW W, NEW B
  PROVE  Backed(Append(s, x), A, W, B)
           <=> Backed(s, A, W, B) /\ (x \in B => Standing(s, A, W))
<1> DEFINE n == Len(s)
           t == Append(s, x)
<1>1. n \in Nat /\ Len(t) = n + 1 /\ t[n + 1] = x /\ \A i \in 1 .. n : t[i] = s[i]
  BY AppendProperties, LenProperties
<1> HIDE DEF t, n
<1> DEFINE Found(u, j) ==
      \E i \in 1 .. j - 1 : u[i] \in A /\ \A k \in i + 1 .. j - 1 : u[k] \notin W
<1>2. ASSUME NEW j \in 1 .. n + 1 PROVE Found(t, j) <=> Found(s, j)
  <2>1. \A i \in 1 .. j - 1 : t[i] = s[i] /\ \A k \in i + 1 .. j - 1 : t[k] = s[k]
    BY <1>1
  <2> QED
    BY <2>1
<1>3. Found(s, n + 1) <=> Standing(s, A, W)
  BY <1>1 DEF Standing, n
<1>4. Backed(t, A, W, B) <=> \A j \in 1 .. n + 1 : t[j] \in B => Found(t, j)
  BY <1>1 DEF Backed
<1>5. Backed(s, A, W, B) <=> \A j \in 1 .. n : s[j] \in B => Found(s, j)
  BY DEF Backed, n
<1> HIDE DEF Found
<1>6. 1 .. n + 1 = (1 .. n) \union {n + 1}
  BY <1>1
<1> QED
  BY <1>1, <1>2, <1>3, <1>4, <1>5, <1>6 DEF t
-----------------------------------------------------------------------------
(* Commands become items one by one. *)

ServerItem == [op : ServerOps, by : {Server}]

LEMMA ItemType ==
  ASSUME NEW o \in ServerOps
  PROVE  Item(o) \in ServerItem /\ Item(o) \in StreamItem /\ Item(o).op = o /\ Item(o).by = Server
BY DEF Item, ServerItem, StreamItem

LEMMA ServerItems == Seq(ServerItem) \subseteq Seq(StreamItem)
<1>1. ServerItem \subseteq StreamItem
  BY DEF ServerItem, StreamItem
<1> QED
  BY <1>1, SeqMonotonic

LEMMA ItemsType ==
  ASSUME NEW ops \in Seq(ServerOps)
  PROVE  /\ Items(ops) \in Seq(ServerItem) /\ Items(ops) \in Seq(StreamItem)
         /\ Len(Items(ops)) = Len(ops)
         /\ \A i \in 1 .. Len(ops) : Items(ops)[i] = Item(ops[i])
<1>1. Len(ops) \in Nat /\ DOMAIN ops = 1 .. Len(ops) /\ \A i \in 1 .. Len(ops) : ops[i] \in ServerOps
  BY LenProperties, ElementOfSeq
<1>2. \A i \in 1 .. Len(ops) : Item(ops[i]) \in ServerItem
  BY <1>1, ItemType
<1>3. Items(ops) = [i \in 1 .. Len(ops) |-> Item(ops[i])]
  BY <1>1 DEF Items
<1>4. Items(ops) \in Seq(ServerItem)
  BY <1>1, <1>2, <1>3, IsASeq
<1>5. Len(Items(ops)) = Len(ops)
  BY <1>1, <1>3, <1>4, LenProperties
<1> QED
  BY <1>3, <1>4, <1>5, ServerItems

\* The library's facts, for what these streams are made of.
LEMMA Joining ==
  /\ \A p, q \in Seq(StreamItem) :
       /\ p \o q \in Seq(StreamItem) /\ Len(p \o q) = Len(p) + Len(q)
       /\ \A i \in 1 .. Len(p) + Len(q) :
            (p \o q)[i] = IF i <= Len(p) THEN p[i] ELSE q[i - Len(p)]
  /\ \A p, q, r \in Seq(StreamItem) : p \o (q \o r) = (p \o q) \o r
  /\ \A p \in Seq(StreamItem), x \in StreamItem :
       Append(p, x) \in Seq(StreamItem) /\ p \o <<x>> = Append(p, x)
<1>1. ASSUME NEW p \in Seq(StreamItem), NEW q \in Seq(StreamItem)
      PROVE  /\ p \o q \in Seq(StreamItem) /\ Len(p \o q) = Len(p) + Len(q)
             /\ \A i \in 1 .. Len(p) + Len(q) :
                  (p \o q)[i] = IF i <= Len(p) THEN p[i] ELSE q[i - Len(p)]
  BY ConcatProperties
<1>2. ASSUME NEW p \in Seq(StreamItem), NEW q \in Seq(StreamItem), NEW r \in Seq(StreamItem)
      PROVE  p \o (q \o r) = (p \o q) \o r
  BY ConcatAssociative
<1>3. ASSUME NEW p \in Seq(StreamItem), NEW x \in StreamItem
      PROVE  Append(p, x) \in Seq(StreamItem) /\ p \o <<x>> = Append(p, x)
  BY AppendProperties, AppendIsConcat
<1> QED
  BY <1>1, <1>2, <1>3

LEMMA ItemsJoined ==
  ASSUME NEW s \in Seq(StreamItem), NEW u \in Seq(ServerOps), NEW v \in Seq(ServerOps)
  PROVE  /\ s \o Items(u) \in Seq(StreamItem)
         /\ s \o Items(u \o v) = (s \o Items(u)) \o Items(v)
<1>1. u \o v \in Seq(ServerOps) /\ Len(u \o v) = Len(u) + Len(v)
      /\ \A i \in 1 .. Len(u) + Len(v) : (u \o v)[i] = IF i <= Len(u) THEN u[i] ELSE v[i - Len(u)]
  BY ConcatProperties
<1>2. /\ Items(u) \in Seq(StreamItem) /\ Len(Items(u)) = Len(u)
      /\ \A i \in 1 .. Len(u) : Items(u)[i] = Item(u[i])
  BY ItemsType
<1>3. /\ Items(v) \in Seq(StreamItem) /\ Len(Items(v)) = Len(v)
      /\ \A i \in 1 .. Len(v) : Items(v)[i] = Item(v[i])
  BY ItemsType
<1>4. /\ Items(u \o v) \in Seq(StreamItem) /\ Len(Items(u \o v)) = Len(u) + Len(v)
      /\ \A i \in 1 .. Len(u) + Len(v) : Items(u \o v)[i] = Item((u \o v)[i])
  BY <1>1, ItemsType
<1>5. /\ Items(u) \o Items(v) \in Seq(StreamItem)
      /\ Len(Items(u) \o Items(v)) = Len(u) + Len(v)
      /\ \A i \in 1 .. Len(u) + Len(v) : (Items(u) \o Items(v))[i] =
           IF i <= Len(u) THEN Items(u)[i] ELSE Items(v)[i - Len(u)]
  <2> DEFINE p == Items(u)
             q == Items(v)
  <2>1. p \in Seq(StreamItem) /\ q \in Seq(StreamItem) /\ Len(p) = Len(u) /\ Len(q) = Len(v)
    BY <1>2, <1>3
  <2> HIDE DEF p, q
  <2>2. /\ p \o q \in Seq(StreamItem) /\ Len(p \o q) = Len(p) + Len(q)
        /\ \A i \in 1 .. Len(p) + Len(q) : (p \o q)[i] = IF i <= Len(p) THEN p[i] ELSE q[i - Len(p)]
    BY <2>1, Joining
  <2> QED
    BY <2>1, <2>2, Zenon DEF p, q
<1>6. Len(u) \in Nat /\ Len(v) \in Nat
  BY LenProperties
<1>7. Items(u \o v) = Items(u) \o Items(v)
  <2>1. ASSUME NEW i \in 1 .. Len(u) + Len(v) PROVE Items(u \o v)[i] = (Items(u) \o Items(v))[i]
    <3>1. CASE i <= Len(u)
      BY <1>1, <1>2, <1>4, <1>5, <1>6, <3>1
    <3>2. CASE ~(i <= Len(u))
      <4>1. i - Len(u) \in 1 .. Len(v)
        BY <1>6, <3>2
      <4> QED
        BY <1>1, <1>3, <1>4, <1>5, <3>2, <4>1
    <3> QED
      BY <3>1, <3>2
  <2> QED
    BY <1>4, <1>5, <2>1, SeqEqual
<1> QED
  BY <1>2, <1>3, <1>7, Joining

LEMMA ItemsFew ==
  ASSUME NEW s \in Seq(StreamItem), NEW a \in ServerOps
  PROVE  s \o Items(<< >>) = s /\ s \o Items(<<a>>) = Append(s, Item(a))
<1>1. Items(<< >>) = << >> /\ Items(<<a>>) = <<Item(a)>>
  BY DEF Items
<1> QED
  BY <1>1, ConcatEmptySeq, Joining, ItemType

LEMMA ItemsMore ==
  ASSUME NEW s \in Seq(StreamItem), NEW u \in Seq(ServerOps), NEW o \in ServerOps
  PROVE  s \o Items(Append(u, o)) = Append(s \o Items(u), Item(o))
<1>1. <<o>> \in Seq(ServerOps) /\ Append(u, o) = u \o <<o>>
  BY AppendIsConcat
<1>2. /\ s \o Items(u) \in Seq(StreamItem)
      /\ s \o Items(u \o <<o>>) = (s \o Items(u)) \o Items(<<o>>)
  BY <1>1, ItemsJoined
<1>3. (s \o Items(u)) \o Items(<<o>>) = Append(s \o Items(u), Item(o))
  BY <1>2, ItemsFew
<1> QED
  BY <1>1, <1>2, <1>3

LEMMA ItemsTwo ==
  ASSUME NEW s \in Seq(StreamItem), NEW a \in ServerOps, NEW b \in ServerOps
  PROVE  s \o Items(<<a, b>>) = Append(Append(s, Item(a)), Item(b))
<1>1. <<a>> \in Seq(ServerOps) /\ <<a, b>> = Append(<<a>>, b)
  OBVIOUS
<1>2. s \o Items(<<a>>) = Append(s, Item(a))
  BY ItemsFew
<1> QED
  BY <1>1, <1>2, ItemsMore

LEMMA ItemsThree ==
  ASSUME NEW s \in Seq(StreamItem), NEW a \in ServerOps, NEW b \in ServerOps, NEW c \in ServerOps
  PROVE  s \o Items(<<a, b, c>>) = Append(Append(Append(s, Item(a)), Item(b)), Item(c))
<1>1. <<a, b>> \in Seq(ServerOps) /\ <<a, b, c>> = Append(<<a, b>>, c)
  OBVIOUS
<1>2. s \o Items(<<a, b>>) = Append(Append(s, Item(a)), Item(b))
  BY ItemsTwo
<1> QED
  BY <1>1, <1>2, ItemsMore

LEMMA WriteOrder ==
  ASSUME stream \in Seq(StreamItem), buffer \in Seq(ServerItem),
         NEW ops \in Seq(ServerOps), Write(ops)
  PROVE  /\ stream' \in Seq(StreamItem) /\ buffer' \in Seq(ServerItem)
         /\ Order' = Order \o Items(ops)
<1>0. buffer \in Seq(StreamItem) /\ Order \in Seq(StreamItem)
  BY ServerItems, ConcatProperties DEF Order
<1>1. CASE buffer' = buffer \o Items(ops) /\ UNCHANGED stream
  <2>1. Items(ops) \in Seq(ServerItem) /\ Items(ops) \in Seq(StreamItem)
    BY ItemsType
  <2>2. buffer' \in Seq(ServerItem)
    BY <1>1, <2>1, ConcatProperties
  <2>3. stream \o (buffer \o Items(ops)) = (stream \o buffer) \o Items(ops)
    BY <1>0, <2>1, Joining
  <2> QED
    BY <1>1, <2>2, <2>3 DEF Order
<1>2. ASSUME NEW k \in 0 .. Len(ops) - 1,
             stream' = stream \o buffer \o Items(SubSeq(ops, 1, k)),
             buffer' = Items(SubSeq(ops, k + 1, Len(ops)))
      PROVE  /\ stream' \in Seq(StreamItem) /\ buffer' \in Seq(ServerItem)
             /\ Order' = Order \o Items(ops)
  <2> DEFINE u == SubSeq(ops, 1, k)
             v == SubSeq(ops, k + 1, Len(ops))
  <2>1. Len(ops) \in Nat /\ \A i \in 1 .. Len(ops) : ops[i] \in ServerOps
    BY LenProperties, ElementOfSeq
  <2>2. u \in Seq(ServerOps) /\ v \in Seq(ServerOps)
    BY <2>1, SubSeqProperties
  <2>3. u \o v = ops
    <3>1. u \o v = SubSeq(ops, 1, Len(ops))
      BY <2>1, ConcatAdjacentSubSeq
    <3> QED
      BY <3>1, SubSeqFull
  <2> HIDE DEF u, v
  <2>4. stream' = Order \o Items(u) /\ buffer' = Items(v)
    BY <1>2 DEF u, v, Order
  <2>5. buffer' \in Seq(ServerItem)
    BY <2>2, <2>4, ItemsType
  <2>6. stream' \in Seq(StreamItem) /\ Order \o Items(u \o v) = (Order \o Items(u)) \o Items(v)
    BY <1>0, <2>2, <2>4, ItemsJoined
  <2> QED
    BY <2>3, <2>4, <2>5, <2>6 DEF Order
<1> QED
  BY <1>1, <1>2 DEF Write
-----------------------------------------------------------------------------
(* The properties, and what they depend on, of any stream s of items. *)

With(ops) == {x \in StreamItem : x.op \in ops}

FullWaits == {"waitFull", "wait2D3D"}
Waits2D == FullWaits \union {"wait2D"}
Waits3D == FullWaits \union {"wait3D"}
Foreign == {x \in StreamItem : x.by # Server}
Loads(c) == {[op |-> "load", by |-> c]}
Renders(c) == {[op |-> "render", by |-> c]}

\* What takes client c's state away and makes another the owner of the context,
\* or was done by one who was: a load, X's setup, or what another client draws.
Claims(c) ==
  {x \in StreamItem : \/ x.op \in {"load", "setup3D"}
                      \/ x.op = "render" /\ x.by \in Clients \ {c}}

\* 2D drawing, 3D drawing, or what another owner drew may still be under way.
Open2D(s) == Standing(s, With({"draw2D"}), With(Waits2D))
Open3D(s) == Standing(s, With({"draw3D"}), With(Waits3D))
OpenForeign(s) == Standing(s, Foreign, With(FullWaits))

\* The engine holds X's 3D state; or that of client c, for all that was claimed.
HoldsServer(s) == Standing(s, With({"setup3D"}), With({"load", "render", "reset"}))
HoldsClient(s, c) == Standing(s, Loads(c), Claims(c))

Exclusive(s) ==
  /\ Separated(s, With({"draw3D"}), With(Waits3D), With({"draw2D"}))
  /\ Separated(s, With({"draw2D"}), With(Waits2D), With({"draw3D"}))
IdleFirst(s) == Separated(s, Foreign, With(FullWaits), With(Draws))
ServerFound(s) == Backed(s, With({"setup3D"}), With({"load", "render", "reset"}), With({"draw3D"}))
ClientFound(s, c) == Backed(s, Loads(c), Claims(c), Renders(c))

\* What holds of the whole stream whenever X is not in the middle of a routine.
Sound(s) ==
  /\ Exclusive(s) /\ ~Open2D(s) /\ ~Open3D(s)
  /\ ServerFound(s)
  /\ \A c \in Clients : ClientFound(s, c)

\* One command of X more.
LEMMA CommandAppend ==
  ASSUME NEW s \in Seq(StreamItem), NEW o \in ServerOps, NEW t, t = Append(s, Item(o))
  PROVE  /\ t \in Seq(StreamItem)
         /\ Open2D(t) <=> o = "draw2D" \/ (Open2D(s) /\ o \notin Waits2D)
         /\ Open3D(t) <=> o = "draw3D" \/ (Open3D(s) /\ o \notin Waits3D)
         /\ OpenForeign(t) <=> OpenForeign(s) /\ o \notin FullWaits
         /\ HoldsServer(t) <=> o = "setup3D" \/ (HoldsServer(s) /\ o # "reset")
         /\ \A c \in Clients : HoldsClient(t, c) <=> HoldsClient(s, c) /\ o # "setup3D"
         /\ Exclusive(t) <=> /\ Exclusive(s)
                             /\ o = "draw2D" => ~Open3D(s)
                             /\ o = "draw3D" => ~Open2D(s)
         /\ IdleFirst(t) <=> IdleFirst(s) /\ (o \in Draws => ~OpenForeign(s))
         /\ ServerFound(t) <=> ServerFound(s) /\ (o = "draw3D" => HoldsServer(s))
         /\ \A c \in Clients : ClientFound(t, c) <=> ClientFound(s, c)
<1> DEFINE x == Item(o)
<1>1. x \in StreamItem /\ x.op = o /\ x.by = Server
  BY ItemType
<1>2. /\ \A ops : x \in With(ops) <=> o \in ops
      /\ x \notin Foreign
  BY <1>1 DEF With, Foreign
<1>3. \A c \in Clients : /\ x \notin Loads(c) /\ x \notin Renders(c)
                         /\ x \in Claims(c) <=> o = "setup3D"
  <2>1. o # "load" /\ o # "render"
    BY DEF ServerOps, Draws
  <2> QED
    BY <1>1, <2>1 DEF Loads, Renders, Claims
<1>4. t = Append(s, x)
  OBVIOUS
<1> HIDE DEF x
<1>5. t \in Seq(StreamItem)
  BY <1>1, <1>4, Joining
<1>6. \A A, W : Standing(t, A, W) <=> x \in A \/ (Standing(s, A, W) /\ x \notin W)
  BY <1>1, <1>4, StandingAppend
<1>7. \A A, W, B : Separated(t, A, W, B) <=> Separated(s, A, W, B) /\ (x \in B => ~Standing(s, A, W))
  BY <1>1, <1>4, SeparatedAppend
<1>8. \A A, W, B : Backed(t, A, W, B) <=> Backed(s, A, W, B) /\ (x \in B => Standing(s, A, W))
  BY <1>1, <1>4, BackedAppend
<1>9. /\ Open2D(t) <=> o = "draw2D" \/ (Open2D(s) /\ o \notin Waits2D)
      /\ Open3D(t) <=> o = "draw3D" \/ (Open3D(s) /\ o \notin Waits3D)
      /\ OpenForeign(t) <=> OpenForeign(s) /\ o \notin FullWaits
  BY <1>2, <1>6 DEF Open2D, Open3D, OpenForeign
<1>10. /\ HoldsServer(t) <=> o = "setup3D" \/ (HoldsServer(s) /\ o # "reset")
       /\ \A c \in Clients : HoldsClient(t, c) <=> HoldsClient(s, c) /\ o # "setup3D"
  <2>1. o # "load" /\ o # "render"
    BY DEF ServerOps, Draws
  <2> QED
    BY <1>2, <1>3, <1>6, <2>1 DEF HoldsServer, HoldsClient
<1>11. Exclusive(t) <=> Exclusive(s) /\ (o = "draw2D" => ~Open3D(s)) /\ (o = "draw3D" => ~Open2D(s))
  BY <1>2, <1>7 DEF Exclusive, Open2D, Open3D
<1>12. IdleFirst(t) <=> IdleFirst(s) /\ (o \in Draws => ~OpenForeign(s))
  BY <1>2, <1>7 DEF IdleFirst, OpenForeign
<1>13. /\ ServerFound(t) <=> ServerFound(s) /\ (o = "draw3D" => HoldsServer(s))
       /\ \A c \in Clients : ClientFound(t, c) <=> ClientFound(s, c)
  BY <1>2, <1>3, <1>8 DEF ServerFound, ClientFound, HoldsServer
<1> QED
  BY <1>5, <1>9, <1>10, <1>11, <1>12, <1>13

\* What is not X's leaves the claim of client c alone: no client's load, and no
\* drawing but its own or that of another VT.
Spares(x, c) == x.op # "load" /\ x.by \notin Clients \ {c}

\* What others draw: a client loads its state, or finds that it needs not.
LEMMA OthersAppend ==
  ASSUME NEW s \in Seq(StreamItem), NEW x \in StreamItem, x.by # Server,
         NEW t, t = Append(s, x)
  PROVE  /\ t \in Seq(StreamItem)
         /\ Open2D(t) <=> Open2D(s)
         /\ Open3D(t) <=> Open3D(s)
         /\ \A c \in Clients : HoldsClient(t, c) <=>
              x = [op |-> "load", by |-> c] \/ (HoldsClient(s, c) /\ Spares(x, c))
         /\ Exclusive(t) <=> Exclusive(s)
         /\ IdleFirst(t) <=> IdleFirst(s)
         /\ ServerFound(t) <=> ServerFound(s)
         /\ \A c \in Clients : ClientFound(t, c) <=>
              ClientFound(s, c) /\ (x = [op |-> "render", by |-> c] => HoldsClient(s, c))
<1>1. x.op \in {"load", "render"}
  BY DEF StreamItem
<1>2. \A ops : x \in With(ops) <=> x.op \in ops
  BY DEF With
<1>3. \A c \in Clients : /\ x \in Loads(c) <=> x = [op |-> "load", by |-> c]
                         /\ x \in Renders(c) <=> x = [op |-> "render", by |-> c]
  BY DEF Loads, Renders
<1>5. t \in Seq(StreamItem)
  BY Joining
<1>6. \A A, W : Standing(t, A, W) <=> x \in A \/ (Standing(s, A, W) /\ x \notin W)
  BY StandingAppend
<1>7. \A A, W, B : Separated(t, A, W, B) <=> Separated(s, A, W, B) /\ (x \in B => ~Standing(s, A, W))
  BY SeparatedAppend
<1>8. \A A, W, B : Backed(t, A, W, B) <=> Backed(s, A, W, B) /\ (x \in B => Standing(s, A, W))
  BY BackedAppend
<1>9. (Open2D(t) <=> Open2D(s)) /\ (Open3D(t) <=> Open3D(s))
  BY <1>1, <1>2, <1>6 DEF Open2D, Open3D, Waits2D, Waits3D, FullWaits
<1>10. \A c \in Clients : HoldsClient(t, c) <=>
         x = [op |-> "load", by |-> c] \/ (HoldsClient(s, c) /\ Spares(x, c))
  <2> TAKE c \in Clients
  <2>1. x \in Loads(c) <=> x = [op |-> "load", by |-> c]
    BY <1>3
  <2>2. x \notin Claims(c) <=> Spares(x, c)
    BY <1>1 DEF Claims, Spares
  <2> HIDE DEF HoldsClient
  <2> QED
    BY <1>6, <2>1, <2>2, Zenon DEF HoldsClient
<1>11. Exclusive(t) <=> Exclusive(s)
  BY <1>1, <1>2, <1>7 DEF Exclusive
<1>12. IdleFirst(t) <=> IdleFirst(s)
  BY <1>1, <1>2, <1>7 DEF IdleFirst, Draws
<1>13. ServerFound(t) <=> ServerFound(s)
  BY <1>1, <1>2, <1>8 DEF ServerFound
<1>14. \A c \in Clients : ClientFound(t, c) <=>
         ClientFound(s, c) /\ (x = [op |-> "render", by |-> c] => HoldsClient(s, c))
  BY <1>1, <1>2, <1>3, <1>8 DEF ClientFound, HoldsClient
<1> QED
  BY <1>5, <1>9, <1>10, <1>11, <1>12, <1>13, <1>14
-----------------------------------------------------------------------------
(* The inductive invariant *)

\* What the wakeup handler may have left in the buffer.
Queued == {<< >>, Items(<<"waitFull">>), Items(<<"cacheFlush", "waitFull">>)}

\* CS->Clean says what is in the buffer, and whether X has the card.
CleanRight ==
  /\ clean \in {"DIRTY", "UNTOUCHED"} => buffer = << >>
  /\ clean = "QUEUED" => buffer \in Queued /\ (buffer = << >> => waitSpent)
  /\ clean = "DONE" => inServer
  /\ inServer => clean # "DIRTY"

\* While X draws nobody else is drawing, unless the wait was spent.
WaitRight ==
  \/ waitSpent
  \/ /\ IdleFirst(Order)
     /\ OpenForeign(Order) => ~inServer /\ owner # Server /\ clean # "QUEUED"

\* Of two states that may be in the engine the owner's is.  For X it is by every
\* use of the engine, for a client by those after which somebody claims the context.
StateRight ==
  /\ inServer /\ has3D => owner = Server
  /\ has3D /\ owner = Server => HoldsServer(Order)
  /\ \A c \in Clients : owner = c => HoldsClient(Order, c)

\* With the VT away X keeps the lock, and nothing is in the buffer.
AwayRight == ~vtSema => inServer /\ buffer = << >>

IInv == TypeOK /\ Sound(Order) /\ CleanRight /\ WaitRight /\ StateRight /\ AwayRight
-----------------------------------------------------------------------------
(* The pieces that X's routines are put together from. *)

\* From the stream s X gets to t by a routine that it may call when s is sound.
Goes(s, t) ==
  /\ t \in Seq(StreamItem) /\ Sound(t)
  /\ OpenForeign(t) => OpenForeign(s)
  /\ IdleFirst(s) /\ ~OpenForeign(s) => IdleFirst(t)

KeepsServer(s, t) == HoldsServer(s) => HoldsServer(t)
KeepsClients(s, t) == \A c \in Clients : HoldsClient(s, c) => HoldsClient(t, c)
Keeps(s, t) == Goes(s, t) /\ KeepsServer(s, t) /\ KeepsClients(s, t)

\* Waits and flushes.
Quiet == {"cacheFlush", "waitFull", "wait2D", "wait3D", "wait2D3D"}

LEMMA QuietAppend ==
  ASSUME NEW s \in Seq(StreamItem), Sound(s), NEW o \in Quiet
  PROVE  /\ Keeps(s, Append(s, Item(o)))
         /\ IdleFirst(s) => IdleFirst(Append(s, Item(o)))
         /\ o \in FullWaits => ~OpenForeign(Append(s, Item(o)))
<1>1. o \in ServerOps /\ o \notin Draws /\ o \notin {"setup3D", "reset"}
  BY DEF Quiet, ServerOps, Draws
<1>2. o \notin {"draw2D", "draw3D"}
  BY DEF Quiet
<1> DEFINE t == Append(s, Item(o))
<1>3. t = Append(s, Item(o))
  OBVIOUS
<1> HIDE DEF t
<1> QED
  BY <1>1, <1>2, <1>3, CommandAppend DEF Keeps, Goes, KeepsServer, KeepsClients, Sound

LEMMA KeepsItself ==
  ASSUME NEW s \in Seq(StreamItem), Sound(s)
  PROVE  Keeps(s, s)
BY DEF Keeps, Goes, KeepsServer, KeepsClients

LEMMA WaitItems ==
  ASSUME NEW s \in Seq(StreamItem), Sound(s), NEW mode
  PROVE  /\ WaitIdle2D(mode) \in Seq(ServerOps) /\ WaitIdle3D(mode) \in Seq(ServerOps)
         /\ Keeps(s, s \o Items(WaitIdle2D(mode)))
         /\ Keeps(s, s \o Items(WaitIdle3D(mode)))
<1>1. {"wait2D", "wait3D"} \subseteq ServerOps \intersect Quiet
  BY DEF ServerOps, Quiet
<1>2. s \o Items(<< >>) = s
  BY <1>1, ItemsFew
<1>3. Keeps(s, s \o Items(<<"wait2D">>)) /\ Keeps(s, s \o Items(<<"wait3D">>))
  <2>1. /\ s \o Items(<<"wait2D">>) = Append(s, Item("wait2D"))
        /\ s \o Items(<<"wait3D">>) = Append(s, Item("wait3D"))
    BY <1>1, ItemsFew
  <2>2. Keeps(s, Append(s, Item("wait2D"))) /\ Keeps(s, Append(s, Item("wait3D")))
    BY <1>1, QuietAppend
  <2> QED
    BY <2>1, <2>2
<1>4. /\ << >> \in Seq(ServerOps) /\ <<"wait2D">> \in Seq(ServerOps)
      /\ <<"wait3D">> \in Seq(ServerOps)
  BY <1>1
<1> QED
  BY <1>2, <1>3, <1>4, KeepsItself DEF WaitIdle2D, WaitIdle3D

\* A reset, if the engine did not go idle.
LEMMA IdlesItems ==
  ASSUME NEW s \in Seq(StreamItem), NEW timeout \in BOOLEAN
  PROVE  /\ Idles(timeout) \in Seq(ServerOps)
         /\ Sound(s) => Goes(s, s \o Items(Idles(timeout)))
         /\ Sound(s) => KeepsClients(s, s \o Items(Idles(timeout)))
         /\ IdleFirst(s) => IdleFirst(s \o Items(Idles(timeout)))
         /\ Sound(s) /\ ~timeout => KeepsServer(s, s \o Items(Idles(timeout)))
<1>1. "reset" \in ServerOps
  BY DEF ServerOps
<1>2. << >> \in Seq(ServerOps) /\ <<"reset">> \in Seq(ServerOps)
  BY <1>1
<1>3. CASE ~timeout
  <2>1. Idles(timeout) = << >>
    BY <1>3 DEF Idles
  <2>2. s \o Items(<< >>) = s
    BY <1>1, ItemsFew
  <2> QED
    BY <1>2, <2>1, <2>2, KeepsItself DEF Keeps
<1>4. CASE timeout
  <2> DEFINE t == Append(s, Item("reset"))
  <2>1. t = Append(s, Item("reset")) /\ s \o Items(Idles(timeout)) = t
    BY <1>1, <1>4, ItemsFew DEF Idles
  <2> HIDE DEF t
  <2>2. "reset" \notin Waits2D \union Waits3D \union Draws
    BY DEF Waits2D, Waits3D, FullWaits, Draws
  <2>3. /\ Sound(s) => Goes(s, t) /\ KeepsClients(s, t)
        /\ IdleFirst(s) => IdleFirst(t)
    BY <1>1, <2>1, <2>2, CommandAppend DEF Goes, KeepsClients, Sound, Draws
  <2> QED
    BY <1>2, <1>4, <2>1, <2>3 DEF Idles
<1> QED
  BY <1>3, <1>4

\* R5xx3DSetup, where X's state is not in the engine.
LEMMA SetupItems ==
  ASSUME NEW s \in Seq(StreamItem), Sound(s),
         NEW u, u = s \o Items(<<"cacheFlush", "wait2D3D", "setup3D">>)
  PROVE  Goes(s, u) /\ HoldsServer(u)
<1>1. {"cacheFlush", "wait2D3D", "setup3D"} \subseteq ServerOps /\ {"cacheFlush", "wait2D3D"} \subseteq Quiet
  BY DEF ServerOps, Quiet
<1>0. s \o Items(<<"cacheFlush", "wait2D3D", "setup3D">>) =
        Append(Append(Append(s, Item("cacheFlush")), Item("wait2D3D")), Item("setup3D"))
  <2>1. "cacheFlush" \in ServerOps /\ "wait2D3D" \in ServerOps /\ "setup3D" \in ServerOps
    BY <1>1
  <2> QED
    BY <2>1, ItemsThree
<1> DEFINE s1 == Append(s, Item("cacheFlush"))
           s2 == Append(s1, Item("wait2D3D"))
<1>2. u = Append(s2, Item("setup3D"))
  BY <1>0
<1>3. Keeps(s, s1)
  BY <1>1, QuietAppend
<1> HIDE DEF s1
<1>4. Keeps(s1, s2)
  BY <1>1, <1>3, QuietAppend DEF Keeps, Goes
<1> HIDE DEF s2
<1>5. s2 \in Seq(StreamItem) /\ Sound(s2)
  BY <1>4 DEF Keeps, Goes
<1>6. /\ u \in Seq(StreamItem) /\ Sound(u) /\ HoldsServer(u)
      /\ OpenForeign(u) => OpenForeign(s2)
      /\ IdleFirst(s2) => IdleFirst(u)
  BY <1>1, <1>2, <1>5, CommandAppend DEF Sound, Draws
<1> QED
  BY <1>3, <1>4, <1>6 DEF Keeps, Goes

\* 2D drawing and the wait of the Done hook, with a download's reset in between.
LEMMA Draw2DItems ==
  ASSUME NEW s \in Seq(StreamItem), Sound(s), NEW timeout \in BOOLEAN,
         NEW u, u = s \o Items(<<"draw2D">>),
         NEW v, v = u \o Items(Idles(timeout)),
         NEW t, t = v \o Items(<<"wait2D">>)
  PROVE  /\ u \in Seq(StreamItem) /\ v \in Seq(StreamItem)
         /\ Goes(s, t) /\ KeepsClients(s, t) /\ (~timeout => KeepsServer(s, t))
<1>1. {"draw2D", "wait2D", "reset"} \subseteq ServerOps
  BY DEF ServerOps, Draws
<1>2. u = Append(s, Item("draw2D"))
  BY <1>1, ItemsFew
<1>3. v = IF timeout THEN Append(u, Item("reset")) ELSE u
  <2>1. u \in Seq(StreamItem)
    BY <1>1, <1>2, CommandAppend
  <2> QED
    BY <1>1, <2>1, ItemsFew DEF Idles
<1>4. /\ u \in Seq(StreamItem) /\ ServerFound(u) /\ Exclusive(u) /\ ~Open3D(u)
      /\ \A c \in Clients : ClientFound(u, c)
      /\ OpenForeign(u) => OpenForeign(s)
      /\ IdleFirst(s) /\ ~OpenForeign(s) => IdleFirst(u)
      /\ KeepsClients(s, u) /\ KeepsServer(s, u)
  BY <1>1, <1>2, CommandAppend DEF Sound, Draws, KeepsClients, KeepsServer
<1>5. /\ v \in Seq(StreamItem) /\ ServerFound(v) /\ Exclusive(v) /\ ~Open3D(v)
      /\ \A c \in Clients : ClientFound(v, c)
      /\ OpenForeign(v) => OpenForeign(u)
      /\ IdleFirst(u) => IdleFirst(v)
      /\ KeepsClients(u, v) /\ (~timeout => KeepsServer(u, v))
  <2>1. CASE ~timeout
    BY <1>3, <1>4, <2>1 DEF KeepsClients, KeepsServer
  <2>2. CASE timeout
    <3>1. v = Append(u, Item("reset"))
      BY <1>3, <2>2
    <3> QED
      BY <1>1, <1>4, <2>2, <3>1, CommandAppend DEF Draws, KeepsClients
  <2> QED
    BY <2>1, <2>2
<1>6. t = Append(v, Item("wait2D"))
  BY <1>1, <1>5, ItemsFew
<1>7. "wait2D" \in Waits2D /\ "wait2D" \notin Draws
  BY DEF Waits2D, Draws
<1>8. /\ t \in Seq(StreamItem) /\ Sound(t)
      /\ OpenForeign(t) => OpenForeign(v)
      /\ IdleFirst(v) => IdleFirst(t)
      /\ KeepsClients(v, t) /\ KeepsServer(v, t)
  BY <1>1, <1>5, <1>6, <1>7, CommandAppend DEF Sound, KeepsClients, KeepsServer
<1> QED
  BY <1>4, <1>5, <1>8 DEF Goes, KeepsClients, KeepsServer

\* 3D drawing with X's state in the engine, and what RadeonDoneComposite adds.
LEMMA Draw3DItems ==
  ASSUME NEW s \in Seq(StreamItem), Sound(s), HoldsServer(s),
         NEW t, t = s \o Items(<<"draw3D", "cacheFlush", "wait3D">>)
  PROVE  Goes(s, t) /\ HoldsServer(t) /\ KeepsClients(s, t)
<1>1. {"draw3D", "cacheFlush", "wait3D"} \subseteq ServerOps
  BY DEF ServerOps, Draws
<1>0. s \o Items(<<"draw3D", "cacheFlush", "wait3D">>) =
        Append(Append(Append(s, Item("draw3D")), Item("cacheFlush")), Item("wait3D"))
  <2>1. "draw3D" \in ServerOps /\ "cacheFlush" \in ServerOps /\ "wait3D" \in ServerOps
    BY <1>1
  <2> QED
    BY <2>1, ItemsThree
<1> DEFINE u == Append(s, Item("draw3D"))
           v == Append(u, Item("cacheFlush"))
<1>2. u = Append(s, Item("draw3D")) /\ v = Append(u, Item("cacheFlush"))
      /\ t = Append(v, Item("wait3D"))
  BY <1>0
<1> HIDE DEF u, v
<1>3. /\ u \in Seq(StreamItem) /\ ServerFound(u) /\ Exclusive(u) /\ ~Open2D(u)
      /\ \A c \in Clients : ClientFound(u, c)
      /\ OpenForeign(u) => OpenForeign(s)
      /\ IdleFirst(s) /\ ~OpenForeign(s) => IdleFirst(u)
      /\ KeepsClients(s, u) /\ HoldsServer(u)
  BY <1>1, <1>2, CommandAppend DEF Sound, Draws, KeepsClients
<1>4. /\ v \in Seq(StreamItem) /\ ServerFound(v) /\ Exclusive(v) /\ ~Open2D(v)
      /\ \A c \in Clients : ClientFound(v, c)
      /\ OpenForeign(v) => OpenForeign(u)
      /\ IdleFirst(u) => IdleFirst(v)
      /\ KeepsClients(u, v) /\ HoldsServer(v)
  BY <1>1, <1>2, <1>3, CommandAppend DEF Draws, KeepsClients
<1>5. "wait3D" \in Waits3D /\ "wait3D" \notin Draws
  BY DEF Waits3D, Draws
<1>6. /\ t \in Seq(StreamItem) /\ Sound(t)
      /\ OpenForeign(t) => OpenForeign(v)
      /\ IdleFirst(v) => IdleFirst(t)
      /\ KeepsClients(v, t) /\ HoldsServer(t)
  BY <1>1, <1>2, <1>4, <1>5, CommandAppend DEF Sound, KeepsClients
<1> QED
  BY <1>3, <1>4, <1>6 DEF Goes, KeepsClients
-----------------------------------------------------------------------------
(* Each step keeps the invariant. *)

LEMMA Typed ==
  ASSUME TypeOK
  PROVE  /\ stream \in Seq(StreamItem) /\ buffer \in Seq(ServerItem)
         /\ buffer \in Seq(StreamItem) /\ Order \in Seq(StreamItem)
<1>1. stream \in Seq(StreamItem) /\ buffer \in Seq(ServerItem)
  BY DEF TypeOK, ServerItem
<1> QED
  BY <1>1, ServerItems, Joining DEF Order

\* What is submitted at once, with the rest left in the buffer.
LEMMA FlushOrder ==
  ASSUME stream' \in Seq(StreamItem), NEW ops \in Seq(ServerOps), buffer' = Items(ops)
  PROVE  buffer' \in Seq(ServerItem) /\ Order' = stream' \o Items(ops)
BY ItemsType DEF Order

LEMMA NoItems ==
  ASSUME NEW s \in Seq(StreamItem)
  PROVE  Items(<< >>) = << >> /\ s \o << >> = s
BY ConcatEmptySeq DEF Items

LEMMA FlushAll ==
  ASSUME stream' \in Seq(StreamItem), buffer' = << >>
  PROVE  buffer' \in Seq(ServerItem) /\ Order' = stream'
BY NoItems DEF Order

\* X's routines between the wakeup and the block handler.
LEMMA DrawingStep ==
  ASSUME IInv, inServer, inServer', vtSema', UNCHANGED waitSpent, clean' = Grabbed,
         NEW t, t = Order', Goes(Order, t)
  PROVE  /\ Sound(t) /\ CleanRight' /\ WaitRight' /\ AwayRight'
         /\ clean' \in {"DIRTY", "UNTOUCHED", "QUEUED", "DONE"}
<1>1. clean' = "DONE"
  BY DEF IInv, TypeOK, CleanRight, Grabbed
<1>2. waitSpent \/ (IdleFirst(Order) /\ ~OpenForeign(Order))
  BY DEF IInv, WaitRight
<1>3. waitSpent' \/ (IdleFirst(t) /\ ~OpenForeign(t))
  BY <1>2 DEF Goes
<1> QED
  BY <1>1, <1>3 DEF Goes, CleanRight, WaitRight, AwayRight

LEMMA WaitOps == <<"wait2D">> \in Seq(ServerOps) /\ WaitIdle2D(After3D) = <<"wait2D">>
<1>1. "wait2D" \in ServerOps
  BY DEF ServerOps
<1> QED
  BY <1>1 DEF WaitIdle2D, After3D

\* The 2D routines, up to what the Done hook waits for.
Drawing(mode, timeout) == WaitIdle3D(mode) \o <<"draw2D">> \o Idles(timeout)

LEMMA DrawingOps ==
  ASSUME NEW mode, NEW timeout \in BOOLEAN
  PROVE  /\ WaitIdle3D(mode) \in Seq(ServerOps) /\ <<"draw2D">> \in Seq(ServerOps)
         /\ Idles(timeout) \in Seq(ServerOps)
         /\ WaitIdle3D(mode) \o <<"draw2D">> \in Seq(ServerOps)
         /\ Drawing(mode, timeout) \in Seq(ServerOps)
         /\ Drawing(mode, FALSE) = WaitIdle3D(mode) \o <<"draw2D">>
<1> DEFINE w == WaitIdle3D(mode)
           d == w \o <<"draw2D">>
<1>1. "draw2D" \in ServerOps /\ "wait3D" \in ServerOps /\ "reset" \in ServerOps
  BY DEF ServerOps, Draws
<1>2. << >> \in Seq(ServerOps) /\ <<"draw2D">> \in Seq(ServerOps)
      /\ <<"wait3D">> \in Seq(ServerOps) /\ <<"reset">> \in Seq(ServerOps)
  BY <1>1
<1>3. w \in Seq(ServerOps) /\ Idles(timeout) \in Seq(ServerOps) /\ Idles(FALSE) = << >>
  BY <1>2 DEF WaitIdle3D, Idles
<1> HIDE DEF w
<1>4. d \in Seq(ServerOps)
  BY <1>2, <1>3, ConcatProperties
<1> HIDE DEF d
<1>5. d \o Idles(timeout) \in Seq(ServerOps) /\ d \o << >> = d
  BY <1>3, <1>4, ConcatProperties, ConcatEmptySeq
<1> QED
  BY <1>2, <1>3, <1>4, <1>5 DEF Drawing, d, w

LEMMA TwoDItems ==
  ASSUME NEW s \in Seq(StreamItem), Sound(s), NEW mode, NEW timeout \in BOOLEAN
  PROVE  LET t == (s \o Items(Drawing(mode, timeout))) \o Items(<<"wait2D">>)
         IN  /\ s \o Items(Drawing(mode, timeout)) \in Seq(StreamItem)
             /\ Goes(s, t) /\ KeepsClients(s, t) /\ (~timeout => KeepsServer(s, t))
<1> DEFINE w == WaitIdle3D(mode)
           d == w \o <<"draw2D">>
           s1 == s \o Items(w)
           u == s1 \o Items(<<"draw2D">>)
           v == u \o Items(Idles(timeout))
           t == v \o Items(<<"wait2D">>)
<1>1. w \in Seq(ServerOps) /\ Keeps(s, s1)
  BY WaitItems
<1>2. /\ <<"draw2D">> \in Seq(ServerOps) /\ Idles(timeout) \in Seq(ServerOps)
      /\ d \in Seq(ServerOps)
  BY DrawingOps
<1> HIDE DEF w
<1>3. s \o Items(d) = u
  BY <1>1, <1>2, ItemsJoined
<1>4. Drawing(mode, timeout) = d \o Idles(timeout)
  BY DEF Drawing, w
<1> HIDE DEF d, s1, u
<1>5. s \o Items(Drawing(mode, timeout)) = v
  <2>1. s \o Items(d \o Idles(timeout)) = (s \o Items(d)) \o Items(Idles(timeout))
    BY <1>2, ItemsJoined
  <2> QED
    BY <1>3, <1>4, <2>1
<1>6. s1 \in Seq(StreamItem) /\ Sound(s1) /\ u = s1 \o Items(<<"draw2D">>)
  BY <1>1 DEF Keeps, Goes, u
<1>7. v = u \o Items(Idles(timeout)) /\ t = v \o Items(<<"wait2D">>)
  OBVIOUS
<1> HIDE DEF v, t
<1>8. /\ v \in Seq(StreamItem)
      /\ Goes(s1, t) /\ KeepsClients(s1, t) /\ (~timeout => KeepsServer(s1, t))
  BY <1>6, <1>7, Draw2DItems
<1>9. Goes(s, t) /\ KeepsClients(s, t) /\ (~timeout => KeepsServer(s, t))
  BY <1>1, <1>8 DEF Keeps, Goes, KeepsClients, KeepsServer
<1> QED
  BY <1>5, <1>7, <1>8, <1>9

\* The rest of each 2D routine.
LEMMA TwoDStep ==
  ASSUME IInv, inServer, inServer', vtSema', UNCHANGED <<waitSpent, owner>>, clean' = Grabbed,
         engineMode' = After2D, marked' \in BOOLEAN, NEW timeout \in BOOLEAN,
         has3D' = StateAfter(timeout, has3D),
         stream' \in Seq(StreamItem), buffer' \in Seq(ServerItem),
         Order' = (Order \o Items(Drawing(engineMode, timeout))) \o Items(<<"wait2D">>)
  PROVE  IInv'
<1>1. Sound(Order) /\ Order \in Seq(StreamItem)
  BY Typed DEF IInv
<1> DEFINE t == (Order \o Items(Drawing(engineMode, timeout))) \o Items(<<"wait2D">>)
<1>2. t = Order'
  OBVIOUS
<1>3. Goes(Order, t) /\ KeepsClients(Order, t) /\ (~timeout => KeepsServer(Order, t))
  BY <1>1, TwoDItems
<1> HIDE DEF t
<1>4. /\ Sound(t) /\ CleanRight' /\ WaitRight' /\ AwayRight'
      /\ clean' \in {"DIRTY", "UNTOUCHED", "QUEUED", "DONE"}
  BY <1>2, <1>3, DrawingStep
<1>5. TypeOK'
  BY <1>4 DEF IInv, TypeOK, ServerItem, After2D, StateAfter
<1>6. StateRight'
  BY <1>2, <1>3 DEF IInv, StateRight, KeepsClients, KeepsServer, StateAfter
<1> QED
  BY <1>2, <1>4, <1>5, <1>6 DEF IInv

LEMMA TwoDKeeps == IInv /\ TwoD => IInv'
<1> SUFFICES ASSUME IInv, TwoD PROVE IInv'
  OBVIOUS
<1> DEFINE d == Drawing(engineMode, FALSE)
<1>1. Order \in Seq(StreamItem)
  BY Typed DEF IInv
<1>2. d \in Seq(ServerOps) /\ d = WaitIdle3D(engineMode) \o <<"draw2D">>
  BY DrawingOps
<1> HIDE DEF d
<1>3. d \o <<"wait2D">> \in Seq(ServerOps)
  BY <1>2, WaitOps, ConcatProperties
<1>4. Order \o Items(d \o <<"wait2D">>) = (Order \o Items(d)) \o Items(<<"wait2D">>)
  BY <1>1, <1>2, WaitOps, ItemsJoined
<1>5. Write(d \o <<"wait2D">>)
  BY <1>2, WaitOps DEF TwoD
<1>6. /\ stream' \in Seq(StreamItem) /\ buffer' \in Seq(ServerItem)
      /\ Order' = Order \o Items(d \o <<"wait2D">>)
  BY <1>3, <1>5, Typed, WriteOrder DEF IInv
<1>7. Order' = (Order \o Items(Drawing(engineMode, FALSE))) \o Items(<<"wait2D">>)
  BY <1>4, <1>6 DEF d
<1> QED
  BY <1>6, <1>7, TwoDStep DEF TwoD, StateAfter

\* The routines that submit their drawing, and leave the wait in the buffer.
LEMMA SubmittedStep ==
  ASSUME IInv, NEW timeout \in BOOLEAN,
         stream' = Order \o Items(Drawing(engineMode, timeout)),
         buffer' = Items(WaitIdle2D(After3D))
  PROVE  /\ stream' \in Seq(StreamItem) /\ buffer' \in Seq(ServerItem)
         /\ Order' = (Order \o Items(Drawing(engineMode, timeout))) \o Items(<<"wait2D">>)
<1>1. Sound(Order) /\ Order \in Seq(StreamItem)
  BY Typed DEF IInv
<1>2. stream' \in Seq(StreamItem)
  BY <1>1, TwoDItems
<1>3. buffer' = Items(<<"wait2D">>)
  BY WaitOps
<1>4. buffer' \in Seq(ServerItem) /\ Order' = stream' \o Items(<<"wait2D">>)
  BY <1>2, <1>3, FlushOrder, WaitOps
<1> QED
  BY <1>2, <1>4

LEMMA UploadKeeps == IInv /\ Upload => IInv'
<1> SUFFICES ASSUME IInv, Upload PROVE IInv'
  OBVIOUS
<1>1. stream' = Order \o Items(Drawing(engineMode, FALSE))
  BY DrawingOps DEF Upload
<1> QED
  BY <1>1, SubmittedStep, TwoDStep DEF Upload, StateAfter

LEMMA DownloadKeeps == IInv /\ Download => IInv'
<1> SUFFICES ASSUME IInv, Download PROVE IInv'
  OBVIOUS
<1>1. PICK timeout \in BOOLEAN :
        /\ stream' = Order \o Items(Drawing(engineMode, timeout))
        /\ has3D' = StateAfter(timeout, has3D)
  BY DEF Download, Drawing
<1> QED
  BY <1>1, SubmittedStep, TwoDStep DEF Download

LEMMA CompositeKeeps == IInv /\ Composite => IInv'
<1> SUFFICES ASSUME IInv, Composite PROVE IInv'
  OBVIOUS
<1> DEFINE s == Order
           w == WaitIdle2D(engineMode)
           f == <<"draw3D", "cacheFlush", "wait3D">>
           s1 == s \o Items(Setup3D)
           s2 == s1 \o Items(w)
           ops == Setup3D \o w \o f
           t == s2 \o Items(f)
<1>1. Sound(s) /\ s \in Seq(StreamItem)
  BY Typed DEF IInv
<1>2. Setup3D \in Seq(ServerOps)
  <2>1. {"cacheFlush", "wait2D3D", "setup3D"} \subseteq ServerOps
    BY DEF ServerOps
  <2>2. << >> \in Seq(ServerOps) /\ <<"cacheFlush", "wait2D3D", "setup3D">> \in Seq(ServerOps)
    BY <2>1
  <2> QED
    BY <2>2 DEF Setup3D
<1>3. f \in Seq(ServerOps)
  BY DEF ServerOps, Draws
<1>4. Goes(s, s1) /\ HoldsServer(s1) /\ (has3D => s1 = s)
  <2>1. CASE has3D
    <3>1. s1 = s
      BY <1>1, <2>1, NoItems DEF Setup3D
    <3>2. HoldsServer(s)
      BY <2>1 DEF IInv, StateRight, Composite
    <3> QED
      BY <1>1, <3>1, <3>2, KeepsItself DEF Keeps
  <2>2. CASE ~has3D
    <3>1. s1 = s \o Items(<<"cacheFlush", "wait2D3D", "setup3D">>)
      BY <2>2 DEF Setup3D
    <3> HIDE DEF s1, s
    <3> QED
      BY <1>1, <2>2, <3>1, SetupItems
  <2> QED
    BY <2>1, <2>2
<1> HIDE DEF s1
<1>5. s1 \in Seq(StreamItem) /\ Sound(s1)
  BY <1>4 DEF Goes
<1>6. w \in Seq(ServerOps) /\ Keeps(s1, s2)
  BY <1>5, WaitItems
<1> HIDE DEF s2, w
<1>7. s2 \in Seq(StreamItem) /\ Sound(s2) /\ HoldsServer(s2)
  BY <1>4, <1>6 DEF Keeps, Goes, KeepsServer
<1>8. Goes(s2, t) /\ HoldsServer(t) /\ KeepsClients(s2, t)
  BY <1>7, Draw3DItems
<1> HIDE DEF f
<1>9. ops \in Seq(ServerOps) /\ s \o Items(ops) = t
  <2>1. Setup3D \o w \in Seq(ServerOps) /\ (Setup3D \o w) \o f \in Seq(ServerOps)
    BY <1>2, <1>3, <1>6, ConcatProperties
  <2>2. s \o Items(Setup3D \o w) = s2
    BY <1>1, <1>2, <1>6, ItemsJoined DEF s1, s2
  <2>3. s \o Items((Setup3D \o w) \o f) = (s \o Items(Setup3D \o w)) \o Items(f)
    BY <1>1, <1>3, <2>1, ItemsJoined
  <2> QED
    BY <2>1, <2>2, <2>3
<1> HIDE DEF t
<1>10. /\ stream' \in Seq(StreamItem) /\ buffer' \in Seq(ServerItem)
       /\ t = Order'
  <2>1. Write(ops)
    BY DEF Composite, w, f
  <2> HIDE DEF ops
  <2> QED
    BY <1>9, <2>1, Typed, WriteOrder DEF IInv
<1>11. /\ Goes(s, t) /\ HoldsServer(t)
       /\ has3D => KeepsClients(s, t)
  BY <1>4, <1>6, <1>8 DEF Keeps, Goes, KeepsClients
<1> HIDE DEF ops
<1>12. /\ Sound(t) /\ CleanRight' /\ WaitRight' /\ AwayRight'
       /\ clean' \in {"DIRTY", "UNTOUCHED", "QUEUED", "DONE"}
  BY <1>10, <1>11, DrawingStep DEF Composite
<1>13. owner' = Server
  BY DEF Composite, Claimed, IInv, StateRight
<1>14. TypeOK'
  BY <1>10, <1>12, <1>13 DEF Composite, IInv, TypeOK, ServerItem, After2D
<1>15. StateRight'
  <2>1. Server \notin Clients
    BY OwnerAssumption
  <2> QED
    BY <1>10, <1>11, <1>13, <2>1 DEF Composite, StateRight
<1> QED
  BY <1>10, <1>12, <1>14, <1>15 DEF IInv

LEMMA CompositeRefusedKeeps == IInv /\ CompositeRefused => IInv'
<1> SUFFICES ASSUME IInv, CompositeRefused PROVE IInv'
  OBVIOUS
<1> DEFINE s == Order
           t == s \o Items(<<"cacheFlush", "wait2D3D", "setup3D">>)
<1>1. Sound(s) /\ s \in Seq(StreamItem)
  BY Typed DEF IInv
<1>2. Setup3D = <<"cacheFlush", "wait2D3D", "setup3D">> /\ Setup3D \in Seq(ServerOps)
  BY DEF CompositeRefused, Setup3D, ServerOps
<1>3. Goes(s, t) /\ HoldsServer(t)
  BY <1>1, SetupItems
<1> HIDE DEF t
<1>4. /\ stream' \in Seq(StreamItem) /\ buffer' \in Seq(ServerItem)
      /\ t = Order'
  <2>1. /\ stream' \in Seq(StreamItem) /\ buffer' \in Seq(ServerItem)
        /\ Order' = Order \o Items(Setup3D)
    BY <1>2, Typed, WriteOrder DEF CompositeRefused, IInv
  <2> QED
    BY <1>2, <2>1 DEF t
<1>5. /\ Sound(t) /\ CleanRight' /\ WaitRight' /\ AwayRight'
      /\ clean' \in {"DIRTY", "UNTOUCHED", "QUEUED", "DONE"}
  BY <1>3, <1>4, DrawingStep DEF CompositeRefused
<1>6. TypeOK'
  BY <1>4, <1>5 DEF CompositeRefused, Claimed, IInv, TypeOK, ServerItem
<1>7. StateRight'
  <2>1. Server \notin Clients
    BY OwnerAssumption
  <2> QED
    BY <1>3, <1>4, <2>1 DEF CompositeRefused, Claimed, StateRight
<1> QED
  BY <1>4, <1>5, <1>6, <1>7 DEF IInv

LEMMA SyncKeeps == IInv /\ Sync => IInv'
<1> SUFFICES ASSUME IInv, Sync PROVE IInv'
  OBVIOUS
<1>1. Sound(Order) /\ Order \in Seq(StreamItem)
  BY Typed DEF IInv
<1>2. PICK timeout \in BOOLEAN :
        /\ WriteFlush(Idles(timeout)) /\ has3D' = StateAfter(timeout, has3D)
  BY DEF Sync
<1> DEFINE t == Order \o Items(Idles(timeout))
<1>3. Goes(Order, t) /\ KeepsClients(Order, t) /\ (~timeout => KeepsServer(Order, t))
  BY <1>1, IdlesItems
<1>4. stream' = t /\ buffer' = << >>
  BY <1>2 DEF WriteFlush, Order
<1> HIDE DEF t
<1>5. stream' \in Seq(StreamItem) /\ buffer' \in Seq(ServerItem) /\ t = Order'
  BY <1>3, <1>4, FlushAll DEF Goes
<1>6. CleanRight'
  BY <1>4 DEF Sync, IInv, CleanRight, Queued
<1>7. WaitRight'
  BY <1>3, <1>5 DEF Sync, IInv, WaitRight, Goes
<1>8. AwayRight'
  BY <1>4 DEF Sync, IInv, AwayRight
<1>9. TypeOK'
  BY <1>2, <1>5 DEF Sync, IInv, TypeOK, ServerItem, StateAfter
<1>10. StateRight'
  BY <1>2, <1>3, <1>5 DEF Sync, IInv, StateRight, KeepsClients, KeepsServer, StateAfter
<1> QED
  BY <1>3, <1>5, <1>6, <1>7, <1>8, <1>9, <1>10 DEF IInv, Goes

LEMMA WakeUpKeeps == IInv /\ WakeUp => IInv'
<1> SUFFICES ASSUME IInv, WakeUp PROVE IInv'
  OBVIOUS
<1>1. Sound(Order) /\ Order \in Seq(StreamItem) /\ stream \in Seq(StreamItem)
      /\ buffer \in Seq(ServerItem)
  BY Typed DEF IInv
<1>2. clean \in {"DIRTY", "UNTOUCHED", "QUEUED"} /\ vtSema
  BY DEF WakeUp, IInv, TypeOK, CleanRight, AwayRight
<1>3. CASE MustClean
  <2> DEFINE ops == <<"cacheFlush", "waitFull">>
             s1 == Append(Order, Item("cacheFlush"))
             t == Append(s1, Item("waitFull"))
  <2>1. "cacheFlush" \in ServerOps \intersect Quiet /\ "waitFull" \in ServerOps \intersect Quiet
        /\ "waitFull" \in FullWaits
    BY DEF ServerOps, Quiet, FullWaits
  <2>2. ops \in Seq(ServerOps)
    BY <2>1
  <2>3. Keeps(Order, s1) /\ (IdleFirst(Order) => IdleFirst(s1))
    BY <1>1, <2>1, QuietAppend
  <2>4. Order \o Items(ops) = t
    BY <1>1, <2>1, ItemsTwo
  <2> HIDE DEF s1
  <2>5. Keeps(s1, t) /\ (IdleFirst(s1) => IdleFirst(t)) /\ ~OpenForeign(t)
    BY <2>1, <2>3, QuietAppend DEF Keeps, Goes
  <2> HIDE DEF t
  <2>6. /\ stream' \in Seq(StreamItem) /\ buffer' \in Seq(ServerItem) /\ t = Order'
    BY <1>1, <1>3, <2>2, <2>4, WriteOrder DEF WakeUp
  <2>7. buffer = << >> /\ clean' = "QUEUED" /\ has3D' = FALSE /\ engineMode' = "FULL"
    BY <1>2, <1>3 DEF IInv, CleanRight, MustClean, WakeUp
  <2>8. buffer' \in Queued /\ buffer' # << >>
    <3>1. Write(ops)
      BY <1>3 DEF WakeUp
    <3>2. buffer' \in {Items(ops), Items(<<"waitFull">>)}
      <4>1. CASE buffer' = buffer \o Items(ops)
        <5>1. Items(ops) \in Seq(ServerItem)
          BY <2>2, ItemsType
        <5> QED
          BY <2>7, <4>1, <5>1, ConcatEmptySeq
      <4>2. ASSUME NEW k \in 0 .. Len(ops) - 1, buffer' = Items(SubSeq(ops, k + 1, Len(ops)))
            PROVE  buffer' \in {Items(ops), Items(<<"waitFull">>)}
        <5>1. Len(ops) = 2 /\ ops[2] = "waitFull" /\ k \in {0, 1}
          OBVIOUS
        <5> HIDE DEF ops
        <5>2. SubSeq(ops, 1, 2) = ops
          BY <2>2, <5>1, SubSeqFull
        <5> DEFINE p == SubSeq(ops, 2, 2)
                   q == <<"waitFull">>
        <5>3. p = q
          <6>1. \A i \in 2 .. 2 : ops[i] \in ServerOps
            BY <2>1, <5>1
          <6>2. p \in Seq(ServerOps) /\ Len(p) = 1 /\ p[1] = "waitFull"
            BY <5>1, <6>1, SubSeqProperties
          <6>3. q \in Seq(ServerOps) /\ Len(q) = 1 /\ q[1] = "waitFull"
            BY <2>1
          <6> HIDE DEF p, q
          <6> QED
            BY <6>2, <6>3, SeqEqual
        <5>4. CASE k = 0
          <6>1. k + 1 = 1
            BY <5>4
          <6> QED
            BY <4>2, <5>1, <5>2, <6>1, Zenon
        <5>5. CASE k = 1
          <6>1. k + 1 = 2
            BY <5>5
          <6> QED
            BY <4>2, <5>1, <5>3, <6>1, Zenon
        <5> QED
          BY <5>1, <5>4, <5>5
      <4> QED
        BY <3>1, <4>1, <4>2 DEF Write
    <3>3. Items(ops) # << >> /\ Items(<<"waitFull">>) # << >>
      BY DEF Items
    <3> QED
      BY <3>2, <3>3 DEF Queued
  <2>9. CleanRight'
    BY <2>7, <2>8 DEF CleanRight
  <2>10. WaitRight'
    BY <2>3, <2>5, <2>6 DEF WakeUp, IInv, WaitRight
  <2>11. StateRight'
    BY <2>3, <2>5, <2>6, <2>7 DEF WakeUp, IInv, StateRight, Keeps, KeepsClients
  <2>12. TypeOK'
    BY <2>6, <2>7 DEF WakeUp, IInv, TypeOK, ServerItem
  <2> QED
    BY <1>2, <2>5, <2>6, <2>9, <2>10, <2>11, <2>12 DEF WakeUp, IInv, AwayRight, Keeps, Goes
<1>4. CASE ~MustClean
  <2>1. Order' = Order /\ UNCHANGED <<stream, buffer, engineMode>>
    BY <1>4 DEF WakeUp, Order
  <2>2. CASE clean = "QUEUED"
    <3>1. CleanRight'
      BY <2>1, <2>2 DEF WakeUp, IInv, CleanRight
    <3>2. WaitRight'
      BY <2>1, <2>2 DEF WakeUp, IInv, WaitRight
    <3>3. StateRight'
      BY <2>1 DEF WakeUp, IInv, StateRight
    <3>4. TypeOK'
      BY <2>1, <2>2 DEF WakeUp, IInv, TypeOK
    <3> QED
      BY <1>2, <2>1, <3>1, <3>2, <3>3, <3>4 DEF WakeUp, IInv, AwayRight
  <2>3. CASE clean # "QUEUED"
    <3>1. owner = Server /\ clean' = "UNTOUCHED" /\ clean \in {"DIRTY", "UNTOUCHED"}
      BY <1>2, <1>4, <2>3 DEF MustClean, WakeUp
    <3>2. CleanRight'
      BY <2>1, <3>1 DEF WakeUp, IInv, CleanRight
    <3>3. WaitRight'
      BY <2>1, <3>1 DEF WakeUp, IInv, WaitRight
    <3>4. StateRight'
      BY <2>1, <3>1 DEF WakeUp, IInv, StateRight
    <3>5. TypeOK'
      BY <2>1, <3>1 DEF WakeUp, IInv, TypeOK
    <3> QED
      BY <1>2, <2>1, <3>2, <3>3, <3>4, <3>5 DEF WakeUp, IInv, AwayRight
  <2> QED
    BY <2>2, <2>3
<1> QED
  BY <1>3, <1>4

LEMMA BlockHandlerKeeps == IInv /\ BlockHandler => IInv'
<1> SUFFICES ASSUME IInv, BlockHandler PROVE IInv'
  OBVIOUS
<1>1. Sound(Order) /\ Order \in Seq(StreamItem)
  BY Typed DEF IInv
<1>2. waitSpent \/ (IdleFirst(Order) /\ ~OpenForeign(Order))
  BY DEF BlockHandler, IInv, WaitRight
<1>3. CASE clean = "DONE"
  <2> DEFINE t == Append(Order, Item("cacheFlush"))
  <2>1. "cacheFlush" \in ServerOps \intersect Quiet
    BY DEF ServerOps, Quiet
  <2>2. Keeps(Order, t) /\ (IdleFirst(Order) => IdleFirst(t))
    BY <1>1, <2>1, QuietAppend
  <2>3. stream' = t /\ buffer' = << >>
    BY <1>1, <1>3, <2>1, ItemsFew DEF BlockHandler, WriteFlush, Order
  <2> HIDE DEF t
  <2>4. stream' \in Seq(StreamItem) /\ buffer' \in Seq(ServerItem) /\ t = Order'
    BY <2>2, <2>3, FlushAll DEF Keeps, Goes
  <2>5. CleanRight'
    BY <1>3, <2>3 DEF BlockHandler, CleanRight
  <2>6. WaitRight'
    BY <1>2, <2>2, <2>4 DEF BlockHandler, WaitRight, Keeps, Goes
  <2>7. StateRight'
    BY <2>2, <2>4 DEF BlockHandler, IInv, StateRight, Keeps, KeepsServer, KeepsClients
  <2>8. TypeOK'
    BY <1>3, <2>4 DEF BlockHandler, IInv, TypeOK, ServerItem
  <2> QED
    BY <2>2, <2>4, <2>5, <2>6, <2>7, <2>8 DEF BlockHandler, IInv, AwayRight, Keeps, Goes
<1>4. CASE clean # "DONE"
  <2>1. Order' = Order /\ UNCHANGED <<stream, buffer, clean>>
    BY <1>4 DEF BlockHandler, Order
  <2>2. CleanRight'
    BY <1>4, <2>1 DEF BlockHandler, IInv, CleanRight
  <2>3. WaitRight'
    BY <1>2, <2>1 DEF BlockHandler, WaitRight
  <2>4. StateRight'
    BY <2>1 DEF BlockHandler, IInv, StateRight
  <2>5. TypeOK'
    BY <2>1 DEF BlockHandler, IInv, TypeOK
  <2> QED
    BY <2>1, <2>2, <2>3, <2>4, <2>5 DEF BlockHandler, IInv, AwayRight
<1> QED
  BY <1>3, <1>4

LEMMA LeaveVTKeeps == IInv /\ LeaveVT => IInv'
<1> SUFFICES ASSUME IInv, LeaveVT PROVE IInv'
  OBVIOUS
<1>1. Sound(Order) /\ Order \in Seq(StreamItem)
  BY Typed DEF IInv
<1>2. PICK timeout \in BOOLEAN :
        /\ WriteFlush(<<"cacheFlush", "waitFull">> \o Idles(timeout))
        /\ has3D' = StateAfter(timeout, has3D)
  BY DEF LeaveVT
<1> DEFINE ops == <<"cacheFlush", "waitFull">>
           s1 == Append(Order, Item("cacheFlush"))
           s2 == Append(s1, Item("waitFull"))
           t == s2 \o Items(Idles(timeout))
<1>3. "cacheFlush" \in ServerOps \intersect Quiet /\ "waitFull" \in ServerOps \intersect Quiet
  BY DEF ServerOps, Quiet
<1>4. Keeps(Order, s1)
  BY <1>1, <1>3, QuietAppend
<1>5. ops \in Seq(ServerOps) /\ Idles(timeout) \in Seq(ServerOps)
  <2>1. ops \in Seq(ServerOps)
    BY <1>3
  <2>2. Idles(timeout) \in Seq(ServerOps)
    BY DrawingOps
  <2> QED
    BY <2>1, <2>2
<1>6. Order \o Items(ops) = s2
  BY <1>1, <1>3, ItemsTwo
<1> HIDE DEF s1
<1>7. Keeps(s1, s2)
  BY <1>3, <1>4, QuietAppend DEF Keeps, Goes
<1> HIDE DEF s2
<1>8. Goes(s2, t) /\ KeepsClients(s2, t) /\ (~timeout => KeepsServer(s2, t))
  BY <1>7, IdlesItems DEF Keeps, Goes
<1>9. Goes(Order, t) /\ KeepsClients(Order, t) /\ (~timeout => KeepsServer(Order, t))
  BY <1>4, <1>7, <1>8 DEF Keeps, Goes, KeepsClients, KeepsServer
<1>10. stream' = Order \o Items(ops \o Idles(timeout)) /\ buffer' = << >>
  BY <1>2 DEF WriteFlush, Order
<1> HIDE DEF ops
<1>11. Order \o Items(ops \o Idles(timeout)) = (Order \o Items(ops)) \o Items(Idles(timeout))
  BY <1>1, <1>5, ItemsJoined
<1>12. stream' = t
  BY <1>6, <1>10, <1>11
<1> HIDE DEF t
<1>13. stream' \in Seq(StreamItem) /\ buffer' \in Seq(ServerItem) /\ t = Order'
  BY <1>9, <1>10, <1>12, FlushAll DEF Goes
<1>14. clean' = "DONE"
  BY DEF LeaveVT, IInv, TypeOK, CleanRight, Grabbed
<1>15. CleanRight'
  BY <1>14 DEF LeaveVT, CleanRight
<1>16. WaitRight'
  BY <1>9, <1>13 DEF LeaveVT, IInv, WaitRight, Goes
<1>17. AwayRight'
  BY <1>10 DEF LeaveVT, AwayRight
<1>18. StateRight'
  BY <1>2, <1>9, <1>13 DEF LeaveVT, IInv, StateRight, KeepsClients, KeepsServer, StateAfter
<1>19. TypeOK'
  BY <1>2, <1>13, <1>14 DEF LeaveVT, IInv, TypeOK, ServerItem, StateAfter
<1> QED
  BY <1>9, <1>13, <1>15, <1>16, <1>17, <1>18, <1>19 DEF IInv, Goes

LEMMA EnterVTKeeps == IInv /\ EnterVT => IInv'
<1> SUFFICES ASSUME IInv, EnterVT PROVE IInv'
  OBVIOUS
<1>1. Sound(Order) /\ stream \in Seq(StreamItem) /\ inServer /\ buffer = << >>
  BY Typed DEF IInv, EnterVT, AwayRight
<1>2. Order = stream
  BY <1>1, NoItems DEF Order
<1>3. PICK timeout \in BOOLEAN :
        stream' = stream \o <<[op |-> "render", by |-> Nobody]>>
                    \o Items(Idles(timeout) \o <<"waitFull">>)
  BY DEF EnterVT
<1> DEFINE x == [op |-> "render", by |-> Nobody]
           s1 == Append(stream, x)
           s2 == s1 \o Items(Idles(timeout))
           t == s2 \o Items(<<"waitFull">>)
<1>4. x \in StreamItem /\ x.op = "render" /\ x.by = Nobody /\ Nobody # Server
      /\ \A c \in Clients : x # [op |-> "load", by |-> c] /\ x # [op |-> "render", by |-> c]
  BY OwnerAssumption DEF StreamItem
<1> HIDE DEF x
<1>5. s1 \in Seq(StreamItem) /\ stream \o <<x>> = s1
  BY <1>1, <1>4, Joining
<1>6. /\ Sound(s1) /\ KeepsClients(stream, s1)
      /\ IdleFirst(stream) => IdleFirst(s1)
  <2>1. s1 = Append(stream, x)
    OBVIOUS
  <2> HIDE DEF s1
  <2>2. \A c \in Clients : Spares(x, c)
    BY <1>4, OwnerAssumption DEF Spares
  <2> QED
    BY <1>1, <1>2, <1>4, <2>1, <2>2, OthersAppend DEF Sound, KeepsClients
<1> HIDE DEF s1
<1>7. /\ Goes(s1, s2) /\ KeepsClients(s1, s2) /\ (IdleFirst(s1) => IdleFirst(s2))
      /\ Idles(timeout) \in Seq(ServerOps)
  BY <1>5, <1>6, IdlesItems
<1> HIDE DEF s2
<1>8. "waitFull" \in ServerOps /\ "waitFull" \in Quiet /\ "waitFull" \in FullWaits
      /\ <<"waitFull">> \in Seq(ServerOps)
  BY DEF ServerOps, Quiet, FullWaits
<1>9. s2 \in Seq(StreamItem) /\ Sound(s2)
  BY <1>7 DEF Goes
<1>10. t = Append(s2, Item("waitFull"))
  BY <1>8, <1>9, ItemsFew
<1>11. /\ Keeps(s2, t) /\ (IdleFirst(s2) => IdleFirst(t)) /\ ~OpenForeign(t)
  BY <1>8, <1>9, <1>10, QuietAppend
<1>12. s1 \o Items(Idles(timeout) \o <<"waitFull">>) = t
  BY <1>5, <1>7, <1>8, ItemsJoined DEF s2
<1>13. stream' = t /\ buffer' = << >>
  BY <1>3, <1>5, <1>12 DEF EnterVT, x
<1> HIDE DEF t
<1>14. /\ t \in Seq(StreamItem) /\ Sound(t) /\ KeepsClients(stream, t)
       /\ IdleFirst(stream) => IdleFirst(t)
  BY <1>6, <1>7, <1>11 DEF Keeps, Goes, KeepsClients
<1>15. buffer' \in Seq(ServerItem) /\ t = Order'
  BY <1>13, <1>14, FlushAll
<1>16. CleanRight'
  BY <1>1 DEF EnterVT, CleanRight
<1>17. WaitRight'
  BY <1>2, <1>11, <1>14, <1>15 DEF EnterVT, IInv, WaitRight
<1>18. StateRight'
  BY <1>2, <1>14, <1>15 DEF EnterVT, IInv, StateRight, KeepsClients
<1>19. TypeOK'
  BY <1>13, <1>14, <1>15 DEF EnterVT, IInv, TypeOK, ServerItem
<1>20. AwayRight'
  BY DEF EnterVT, AwayRight
<1> QED
  BY <1>14, <1>15, <1>16, <1>17, <1>18, <1>19, <1>20 DEF IInv

\* How q differs from p when x came into it, drawn by another than X.
Drawn(p, q, x) ==
  /\ p \in Seq(StreamItem) /\ q \in Seq(StreamItem)
  /\ Open2D(q) <=> Open2D(p)
  /\ Open3D(q) <=> Open3D(p)
  /\ \A c \in Clients : HoldsClient(q, c) <=>
       x = [op |-> "load", by |-> c] \/ (HoldsClient(p, c) /\ Spares(x, c))
  /\ Exclusive(q) <=> Exclusive(p)
  /\ IdleFirst(q) <=> IdleFirst(p)
  /\ ServerFound(q) <=> ServerFound(p)
  /\ \A c \in Clients : ClientFound(q, c) <=>
       ClientFound(p, c) /\ (x = [op |-> "render", by |-> c] => HoldsClient(p, c))

LEMMA QuietBehind ==
  ASSUME NEW p, NEW q, NEW x, Drawn(p, q, x), NEW o \in {"cacheFlush", "waitFull"}
  PROVE  /\ Drawn(Append(p, Item(o)), Append(q, Item(o)), x)
         /\ o = "waitFull" => ~OpenForeign(Append(q, Item(o)))
<1> DEFINE pp == Append(p, Item(o))
           qq == Append(q, Item(o))
<1>1. pp = Append(p, Item(o)) /\ qq = Append(q, Item(o))
  OBVIOUS
<1>2. p \in Seq(StreamItem) /\ q \in Seq(StreamItem)
  BY DEF Drawn
<1>3. /\ o \in ServerOps /\ o \notin Draws /\ o \notin {"draw2D", "draw3D", "setup3D", "reset"}
      /\ o = "waitFull" => o \in FullWaits
  BY DEF ServerOps, Draws, FullWaits
<1> HIDE DEF pp, qq
<1>4. /\ pp \in Seq(StreamItem)
      /\ Open2D(pp) <=> Open2D(p) /\ o \notin Waits2D
      /\ Open3D(pp) <=> Open3D(p) /\ o \notin Waits3D
      /\ \A c \in Clients : HoldsClient(pp, c) <=> HoldsClient(p, c)
      /\ Exclusive(pp) <=> Exclusive(p)
      /\ IdleFirst(pp) <=> IdleFirst(p)
      /\ ServerFound(pp) <=> ServerFound(p)
      /\ \A c \in Clients : ClientFound(pp, c) <=> ClientFound(p, c)
  BY <1>1, <1>2, <1>3, CommandAppend
<1>5. /\ qq \in Seq(StreamItem)
      /\ Open2D(qq) <=> Open2D(q) /\ o \notin Waits2D
      /\ Open3D(qq) <=> Open3D(q) /\ o \notin Waits3D
      /\ \A c \in Clients : HoldsClient(qq, c) <=> HoldsClient(q, c)
      /\ Exclusive(qq) <=> Exclusive(q)
      /\ IdleFirst(qq) <=> IdleFirst(q)
      /\ ServerFound(qq) <=> ServerFound(q)
      /\ \A c \in Clients : ClientFound(qq, c) <=> ClientFound(q, c)
      /\ o = "waitFull" => ~OpenForeign(qq)
  BY <1>1, <1>2, <1>3, CommandAppend
<1> QED
  BY <1>1, <1>4, <1>5 DEF Drawn

\* A client draws while no more than a wakeup's waits are in X's buffer.
LEMMA BeforeTheBuffer ==
  ASSUME NEW s \in Seq(StreamItem), NEW x \in StreamItem, x.by # Server, NEW b \in Queued
  PROVE  /\ Drawn(s \o b, Append(s, x) \o b, x)
         /\ b # << >> => ~OpenForeign(Append(s, x) \o b)
<1> DEFINE t == Append(s, x)
<1>1. t \in Seq(StreamItem) /\ Drawn(s, t, x)
  <2>1. t = Append(s, x)
    OBVIOUS
  <2> HIDE DEF t
  <2> QED
    BY <2>1, OthersAppend DEF Drawn
<1> HIDE DEF t
<1>2. "cacheFlush" \in ServerOps /\ "waitFull" \in ServerOps
  BY DEF ServerOps
<1>3. ASSUME NEW r \in Seq(StreamItem)
      PROVE  /\ r \o << >> = r
             /\ r \o Items(<<"waitFull">>) = Append(r, Item("waitFull"))
             /\ r \o Items(<<"cacheFlush", "waitFull">>) =
                  Append(Append(r, Item("cacheFlush")), Item("waitFull"))
  <2>1. r \o << >> = r
    BY NoItems
  <2>2. r \o Items(<<"waitFull">>) = Append(r, Item("waitFull"))
    BY <1>2, ItemsFew
  <2>3. r \o Items(<<"cacheFlush", "waitFull">>) =
          Append(Append(r, Item("cacheFlush")), Item("waitFull"))
    BY <1>2, ItemsTwo
  <2> QED
    BY <2>1, <2>2, <2>3
<1>4. CASE b = << >>
  BY <1>1, <1>3, <1>4 DEF t
<1>5. CASE b = Items(<<"waitFull">>)
  <2>1. /\ Drawn(Append(s, Item("waitFull")), Append(t, Item("waitFull")), x)
        /\ ~OpenForeign(Append(t, Item("waitFull")))
    BY <1>1, QuietBehind
  <2> QED
    BY <1>1, <1>3, <1>5, <2>1 DEF t
<1>6. CASE b = Items(<<"cacheFlush", "waitFull">>)
  <2> DEFINE s1 == Append(s, Item("cacheFlush"))
             t1 == Append(t, Item("cacheFlush"))
  <2>1. Drawn(s1, t1, x)
    BY <1>1, QuietBehind
  <2>2. s \o b = Append(s1, Item("waitFull")) /\ t \o b = Append(t1, Item("waitFull"))
    BY <1>1, <1>3, <1>6
  <2> HIDE DEF s1, t1
  <2>3. /\ Drawn(Append(s1, Item("waitFull")), Append(t1, Item("waitFull")), x)
        /\ ~OpenForeign(Append(t1, Item("waitFull")))
    BY <2>1, QuietBehind
  <2> QED
    BY <2>2, <2>3 DEF t
<1> QED
  BY <1>4, <1>5, <1>6 DEF Queued

LEMMA ClientDrawsKeeps == \A c \in Clients : IInv /\ ClientDraws(c) => IInv'
<1> SUFFICES ASSUME NEW c \in Clients, IInv, ClientDraws(c) PROVE IInv'
  OBVIOUS
<1>1. /\ Sound(Order) /\ stream \in Seq(StreamItem) /\ buffer \in Seq(ServerItem)
      /\ c # Server /\ c # Nobody
  BY Typed, OwnerAssumption DEF IInv
<1>2. buffer \in Queued /\ clean # "DONE"
  BY DEF ClientDraws, IInv, TypeOK, CleanRight, Queued
<1> DEFINE x == [op |-> IF owner = c THEN "render" ELSE "load", by |-> c]
           t == Append(stream, x) \o buffer
<1>3. /\ x \in StreamItem /\ x.by = c
      /\ \A d \in Clients : /\ x = [op |-> "load", by |-> d] => d = c /\ owner # c
                          /\ x = [op |-> "render", by |-> d] => d = c /\ owner = c
      /\ owner = c => x.op = "render"
      /\ owner # c => x = [op |-> "load", by |-> c]
  BY DEF StreamItem
<1>4. stream' = Append(stream, x) /\ buffer' = buffer /\ Order' = t
  BY DEF ClientDraws, Order
<1> HIDE DEF x
<1>5. Drawn(Order, t, x) /\ (buffer # << >> => ~OpenForeign(t))
  BY <1>1, <1>2, <1>3, BeforeTheBuffer DEF Order
<1>6. stream' \in Seq(StreamItem)
  BY <1>1, <1>3, <1>4, Joining
<1> HIDE DEF t
<1>7. owner = c => HoldsClient(Order, c)
  BY DEF IInv, StateRight
<1>8. Sound(t)
  <2>1. \A d \in Clients : ClientFound(t, d)
    <3> TAKE d \in Clients
    <3>1. ClientFound(Order, d)
      BY <1>1 DEF Sound
    <3>2. x = [op |-> "render", by |-> d] => HoldsClient(Order, d)
      BY <1>3, <1>7
    <3> QED
      BY <1>5, <3>1, <3>2 DEF Drawn
  <2> QED
    BY <1>1, <1>5, <2>1 DEF Sound, Drawn
<1>9. HoldsClient(t, c)
  BY <1>3, <1>5, <1>7 DEF Drawn, Spares
<1>10. CleanRight'
  BY <1>4 DEF ClientDraws, IInv, CleanRight
<1>11. WaitRight'
  <2>1. CASE waitSpent
    BY <2>1 DEF ClientDraws, WaitRight
  <2>2. CASE ~waitSpent
    <3>1. IdleFirst(t)
      BY <1>5, <2>2 DEF IInv, WaitRight, Drawn
    <3>2. OpenForeign(t) => clean # "QUEUED"
      BY <1>5, <2>2 DEF IInv, CleanRight
    <3> QED
      BY <1>1, <1>4, <3>1, <3>2 DEF ClientDraws, WaitRight
  <2> QED
    BY <2>1, <2>2
<1>12. StateRight'
  BY <1>1, <1>4, <1>9 DEF ClientDraws, StateRight
<1>13. TypeOK'
  BY <1>1, <1>4, <1>6 DEF ClientDraws, IInv, TypeOK, ServerItem
<1>14. AwayRight'
  BY <1>4 DEF ClientDraws, IInv, AwayRight
<1> QED
  BY <1>4, <1>8, <1>10, <1>11, <1>12, <1>13, <1>14 DEF IInv

LEMMA InitRight == Init => IInv
<1> SUFFICES ASSUME Init PROVE IInv
  OBVIOUS
<1>1. /\ << >> \in Seq(StreamItem) /\ Sound(<< >>) /\ IdleFirst(<< >>)
  BY DEF Sound, Exclusive, IdleFirst, Open2D, Open3D, ServerFound, ClientFound,
         Standing, Separated, Backed
<1>2. "waitFull" \in ServerOps /\ "waitFull" \in Quiet /\ "waitFull" \in FullWaits
  BY DEF ServerOps, Quiet, FullWaits
<1> DEFINE e == << >>
           t == Append(e, Item("waitFull"))
<1>3. e \in Seq(StreamItem) /\ Sound(e) /\ IdleFirst(e) /\ stream = e
  BY <1>1 DEF Init
<1> HIDE DEF e
<1>4. Order = t
  BY <1>2, <1>3, ItemsFew DEF Init, Order
<1>5. Keeps(e, t) /\ IdleFirst(t) /\ ~OpenForeign(t)
  BY <1>2, <1>3, QuietAppend
<1> HIDE DEF t
<1>6. buffer \in Seq(ServerItem)
  <2>1. <<"waitFull">> \in Seq(ServerOps)
    BY <1>2
  <2> QED
    BY <2>1, ItemsType DEF Init
<1>7. TypeOK
  BY <1>3, <1>6 DEF Init, TypeOK, ServerItem
<1>8. Nobody \notin Clients
  BY OwnerAssumption
<1> QED
  BY <1>4, <1>5, <1>7, <1>8
  DEF Init, IInv, Keeps, Goes, CleanRight, WaitRight, StateRight, AwayRight

LEMMA StepRight == IInv /\ [Next]_vars => IInv'
<1>1. IInv /\ UNCHANGED vars => IInv'
  BY DEF vars, IInv, TypeOK, CleanRight, WaitRight, StateRight, AwayRight, Order
<1> QED
  BY <1>1, TwoDKeeps, UploadKeeps, DownloadKeeps, CompositeKeeps, CompositeRefusedKeeps, SyncKeeps,
     WakeUpKeeps, BlockHandlerKeeps, LeaveVTKeeps, EnterVTKeeps, ClientDrawsKeeps DEF Next

\* The inductive invariant of the whole: Clean, XHas3DEngineState and ctx_owner
\* say what is in the buffer, what may still be drawing, whose state is loaded.
THEOREM Invariant == Spec => []IInv
BY InitRight, StepRight, PTL DEF Spec
-----------------------------------------------------------------------------
(* The properties *)

LEMMA OrderItems ==
  ASSUME TypeOK
  PROVE  /\ DOMAIN Order = 1 .. Len(Order) /\ Len(Order) \in Nat
         /\ \A i \in 1 .. Len(Order) :
              /\ Order[i] \in StreamItem
              /\ \A ops : Order[i] \in With(ops) <=> Order[i].op \in ops
              /\ Order[i] \in Foreign <=> Order[i].by # Server
<1>1. Order \in Seq(StreamItem)
  BY Typed
<1>2. DOMAIN Order = 1 .. Len(Order) /\ Len(Order) \in Nat
      /\ \A i \in 1 .. Len(Order) : Order[i] \in StreamItem
  BY <1>1, LenProperties, ElementOfSeq
<1> QED
  BY <1>2 DEF With, Foreign

LEMMA BetweenFound ==
  ASSUME TypeOK, NEW i \in 1 .. Len(Order), NEW j \in 1 .. Len(Order), NEW ops
  PROVE  Between(i, j, ops) <=> \E k \in i + 1 .. j - 1 : Order[k] \in With(ops)
<1>1. \A k \in i + 1 .. j - 1 : k \in 1 .. Len(Order)
  BY OrderItems
<1> QED
  BY <1>1, OrderItems DEF Between

LEMMA PairSeparated ==
  ASSUME TypeOK, NEW A, NEW ops, NEW bops, Separated(Order, A, With(ops), With(bops)),
         NEW i \in DOMAIN Order, NEW j \in DOMAIN Order, i < j, Order[i] \in A, Order[j].op \in bops
  PROVE  Between(i, j, ops)
<1>1. i \in 1 .. Len(Order) /\ j \in 1 .. Len(Order) /\ Order[j] \in With(bops)
  BY OrderItems
<1> QED
  BY <1>1, BetweenFound DEF Separated

\* Every variable keeps its type.
THEOREM TypeCorrect == Spec => []TypeOK
<1>1. IInv => TypeOK
  BY DEF IInv
<1> QED
  BY <1>1, Invariant, PTL

\* X draws only after a wait for what another owner of the card drew, unless a
\* sync submitted that wait before X did any work.
THEOREM EnginesIdleHolds == Spec => []EnginesIdleUnlessSpent
<1>1. IInv => EnginesIdleUnlessSpent
  <2> SUFFICES ASSUME IInv, ~waitSpent, NEW i \in DOMAIN Order, NEW j \in DOMAIN Order,
                      i < j, Order[i].by # Server, Order[j].op \in Draws
               PROVE  Between(i, j, FullWaits)
    BY DEF EnginesIdleUnlessSpent, EnginesIdle, FullWaits
  <2>1. TypeOK /\ Separated(Order, Foreign, With(FullWaits), With(Draws))
    BY DEF IInv, WaitRight, IdleFirst
  <2>2. Order[i] \in Foreign
    BY <2>1, OrderItems
  <2> QED
    BY <2>1, <2>2, PairSeparated
<1> QED
  BY <1>1, Invariant, PTL

\* X's own 2D and 3D drawing never overlap, in either order.
THEOREM EnginesExclusiveHolds == Spec => []EnginesExclusive
<1>1. IInv => EnginesExclusive
  <2> SUFFICES ASSUME IInv, NEW i \in DOMAIN Order, NEW j \in DOMAIN Order, i < j
               PROVE  /\ Order[i].op = "draw3D" /\ Order[j].op = "draw2D" => Between(i, j, Waits3D)
                      /\ Order[i].op = "draw2D" /\ Order[j].op = "draw3D" => Between(i, j, Waits2D)
    <3>1. /\ {"waitFull", "wait3D", "wait2D3D"} = Waits3D
          /\ {"waitFull", "wait2D", "wait2D3D"} = Waits2D
      BY DEF Waits2D, Waits3D, FullWaits
    <3> QED
      BY <3>1 DEF EnginesExclusive
  <2>1. /\ TypeOK
        /\ Separated(Order, With({"draw3D"}), With(Waits3D), With({"draw2D"}))
        /\ Separated(Order, With({"draw2D"}), With(Waits2D), With({"draw3D"}))
    BY DEF IInv, Sound, Exclusive
  <2>2. /\ Order[i].op = "draw3D" => Order[i] \in With({"draw3D"})
        /\ Order[i].op = "draw2D" => Order[i] \in With({"draw2D"})
    BY <2>1, OrderItems
  <2>3. ASSUME Order[i].op = "draw3D", Order[j].op = "draw2D" PROVE Between(i, j, Waits3D)
    BY <2>1, <2>2, <2>3, PairSeparated
  <2>4. ASSUME Order[i].op = "draw2D", Order[j].op = "draw3D" PROVE Between(i, j, Waits2D)
    BY <2>1, <2>2, <2>4, PairSeparated
  <2> QED
    BY <2>3, <2>4
<1> QED
  BY <1>1, Invariant, PTL

\* When a client may draw, nothing that X drew waits in the buffer.
THEOREM NotOvertakenHolds == Spec => []NotOvertaken
<1>1. IInv => NotOvertaken
  <2> SUFFICES ASSUME IInv, ~inServer, NEW i \in DOMAIN buffer PROVE buffer[i].op \notin Draws
    BY DEF NotOvertaken
  <2>1. buffer \in Queued
    BY DEF IInv, TypeOK, CleanRight, Queued
  <2>2. \A o \in {"waitFull", "cacheFlush"} : Item(o).op \notin Draws
    BY DEF Item, Draws
  <2>3. CASE buffer = << >>
    BY <2>3
  <2>4. CASE buffer = Items(<<"waitFull">>)
    BY <2>2, <2>4 DEF Items
  <2>5. CASE buffer = Items(<<"cacheFlush", "waitFull">>)
    BY <2>2, <2>5 DEF Items
  <2> QED
    BY <2>1, <2>3, <2>4, <2>5 DEF Queued
<1> QED
  BY <1>1, Invariant, PTL

\* X's 3D drawing finds X's own setup in the engine: no reset and nothing of
\* anybody else's came since.
THEOREM ServerStateHolds == Spec => []ServerStateLoaded
<1>1. IInv => ServerStateLoaded
  <2> SUFFICES ASSUME IInv, NEW j \in DOMAIN Order, Order[j].op = "draw3D"
               PROVE  \E i \in 1 .. j - 1 :
                        /\ Order[i].op = "setup3D"
                        /\ \A k \in i + 1 .. j - 1 : ~Overwrites(k, Server)
    BY DEF ServerStateLoaded
  <2>1. TypeOK /\ ServerFound(Order)
    BY DEF IInv, Sound
  <2>2. j \in 1 .. Len(Order) /\ Len(Order) \in Nat /\ Order[j] \in With({"draw3D"})
    BY <2>1, OrderItems
  <2>3. PICK i \in 1 .. j - 1 :
          /\ Order[i] \in With({"setup3D"})
          /\ \A k \in i + 1 .. j - 1 : Order[k] \notin With({"load", "render", "reset"})
    BY <2>1, <2>2 DEF ServerFound, Backed
  <2>4. i \in 1 .. Len(Order) /\ Order[i].op = "setup3D"
    BY <2>1, <2>2, <2>3, OrderItems
  <2>5. ASSUME NEW k \in i + 1 .. j - 1 PROVE ~Overwrites(k, Server)
    <3>1. k \in 1 .. Len(Order)
      BY <2>2
    <3>2. Order[k] \in StreamItem /\ Order[k].op \notin {"load", "render", "reset"}
      BY <2>1, <2>3, <3>1, OrderItems
    <3>3. Order[k].op = "setup3D" => Order[k].by = Server
      BY <3>2 DEF StreamItem
    <3> QED
      BY <3>2, <3>3 DEF Overwrites
  <2> QED
    BY <2>4, <2>5
<1> QED
  BY <1>1, Invariant, PTL

\* A client that the SAREA calls the owner has loaded its state, and what took
\* it away since, if anything did, was a reset or another VT's user of the card.
THEOREM ClientStateHolds == Spec => []ClientStateLoadedUnlessUnclaimed
<1>1. IInv => ClientStateLoadedUnlessUnclaimed
  <2> SUFFICES ASSUME IInv, NEW j \in DOMAIN Order,
                      Order[j].op = "render", Order[j].by \in Clients
               PROVE  \E i \in 1 .. j - 1 :
                        /\ Order[i] = [op |-> "load", by |-> Order[j].by]
                        /\ \A k \in i + 1 .. j - 1 : Overwrites(k, Order[j].by) => Unclaimed(k)
    BY DEF ClientStateLoadedUnlessUnclaimed
  <2> DEFINE c == Order[j].by
  <2>1. TypeOK /\ ClientFound(Order, c)
    BY DEF IInv, Sound
  <2>2. j \in 1 .. Len(Order) /\ Len(Order) \in Nat /\ Order[j] \in StreamItem
    BY <2>1, OrderItems
  <2>3. Order[j] \in Renders(c)
    BY <2>2, OwnerAssumption DEF Renders, StreamItem
  <2>4. PICK i \in 1 .. j - 1 :
          /\ Order[i] \in Loads(c)
          /\ \A k \in i + 1 .. j - 1 : Order[k] \notin Claims(c)
    BY <2>1, <2>2, <2>3 DEF ClientFound, Backed
  <2>5. ASSUME NEW k \in i + 1 .. j - 1, Overwrites(k, c) PROVE Unclaimed(k)
    <3>1. k \in 1 .. Len(Order)
      BY <2>2
    <3>2. Order[k] \in StreamItem /\ Order[k] \notin Claims(c)
      BY <2>1, <2>4, <3>1, OrderItems
    <3>3. CASE Order[k].op = "reset"
      BY <3>3 DEF Unclaimed
    <3>4. CASE Order[k].op = "render" /\ Order[k].by # c
      <4>1. Order[k].by \in Clients \union {Nobody}
        BY <3>2, <3>4 DEF StreamItem, ServerOps, Draws
      <4>2. Order[k].by \notin Clients \ {c}
        BY <3>2, <3>4 DEF Claims
      <4> QED
        BY <3>4, <4>1, <4>2 DEF Unclaimed
    <3>5. Order[k].op \notin {"load", "setup3D"}
      BY <3>2 DEF Claims
    <3> QED
      BY <2>5, <3>3, <3>4, <3>5 DEF Overwrites
  <2> QED
    BY <2>4, <2>5 DEF Loads
<1> QED
  BY <1>1, Invariant, PTL

\* X draws in 3D with its own state, whatever comes between; a client that loads
\* none with its own, but for resets and other VTs since it was loaded.
THEOREM StatesHold == Spec => []StatesLoadedUnlessUnclaimed
  BY ServerStateHolds, ClientStateHolds, PTL DEF StatesLoadedUnlessUnclaimed
=============================================================================
