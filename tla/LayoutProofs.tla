----------------------------- MODULE LayoutProofs -----------------------------
(***************************************************************************)
(* What the tilings promise, for every screen, number of windows and       *)
(* settings.  First for a line and for the master layout, from the input:  *)
(* when the gaps fit, the tiles are inside and a gap apart.  Then for all  *)
(* layouts and for every state of Tiling in which each tile is larger than *)
(* a gap: the tiles cover the area, since each layout splits a box into    *)
(* parts a gap apart until a part is a tile.                               *)
(***************************************************************************)
EXTENDS Tiling, SequenceTheorems, NaturalsInduction, WellFoundedInduction, TLAPS

(* Multiplication by a size is monotonic.                                  *)
LEMMA ProductMonotonic ==
    ASSUME NEW a \in Nat, NEW b \in Nat, NEW c \in Nat, a <= b
    PROVE  a * c <= b * c
<1>1. b - a \in Nat
  OBVIOUS
<1>2. (b - a) * c \in Nat
  BY <1>1
<1>3. b * c = a * c + (b - a) * c
  OBVIOUS
<1> QED
  BY <1>2, <1>3

(* The share of each cell, whatever the division leaves.                   *)
LEMMA EachType ==
    ASSUME NEW length \in Nat, NEW n \in Nat \ {0}, NEW gap \in Nat,
           gap * (n - 1) <= length
    PROVE  /\ Each(length, n, gap) \in Nat
           /\ n * Each(length, n, gap) <= length - gap * (n - 1)
<1> DEFINE rest == length - gap * (n - 1)
<1>1. gap * (n - 1) \in Nat
  OBVIOUS
<1>2. rest \in Nat
  BY <1>1
<1>3. Each(length, n, gap) = rest \div n
  BY <1>2 DEF Each, Quotient
<1> HIDE DEF rest
<1>4. rest \div n \in Nat /\ n * (rest \div n) <= rest
  BY <1>2
<1> QED
  BY <1>3, <1>4 DEF rest

(* Where the cells of a line are: the first at the start, each one gap     *)
(* after the one before, the last up to the end, none outside or negative. *)
LEMMA CellsFit ==
    ASSUME NEW from \in Int, NEW length \in Nat, NEW n \in Nat \ {0},
           NEW gap \in Nat, gap * (n - 1) <= length, NEW i \in 1 .. n
    PROVE  LET At(k) == CellAt(from, length, n, gap, k)
               Size(k) == CellSize(from, length, n, gap, k)
           IN  /\ At(i) \in Int /\ Size(i) \in Nat
               /\ from <= At(i) /\ At(i) + Size(i) <= from + length
               /\ At(1) = from /\ At(n) + Size(n) = from + length
               /\ i < n => At(i + 1) = At(i) + Size(i) + gap
               /\ \A j \in i + 1 .. n : At(i) + Size(i) + gap <= At(j)
<1> DEFINE e == Each(length, n, gap)
           At(k) == CellAt(from, length, n, gap, k)
           Size(k) == CellSize(from, length, n, gap, k)
<1>1. e \in Nat /\ n * e <= length - gap * (n - 1)
  BY EachType
<1>2. \A k \in 1 .. n : At(k) = from + (k - 1) * (e + gap)
  BY DEF CellAt
<1>3. /\ \A k \in 1 .. n - 1 : Size(k) = e
      /\ Size(n) = from + length - At(n)
  BY DEF CellSize
<1> HIDE DEF e, At, Size
<1>4. e + gap \in Nat
  BY <1>1
<1>5. \A k \in 1 .. n : (k - 1) * (e + gap) \in Nat
  BY <1>4
<1>6. \A k \in 1 .. n : At(k) \in Int /\ from <= At(k)
  BY <1>2, <1>5
<1>7. At(1) = from
  BY <1>2, <1>4
<1>8. e + (n - 1) * (e + gap) <= length
  <2>1. (n - 1) * (e + gap) = n * e - e + gap * (n - 1)
    BY <1>1
  <2> QED
    BY <1>1, <2>1
<1>9. Size(n) \in Int /\ e <= Size(n) /\ At(n) + Size(n) = from + length
  BY <1>1, <1>2, <1>3, <1>5, <1>6, <1>8
<1>10. ASSUME NEW k \in 1 .. n, NEW j \in k + 1 .. n
       PROVE  At(k) + Size(k) + gap <= At(j)
  <2>1. k * (e + gap) <= (j - 1) * (e + gap)
    BY <1>4, ProductMonotonic
  <2>2. k * (e + gap) = (k - 1) * (e + gap) + (e + gap)
    BY <1>4
  <2>3. Size(k) = e
    BY <1>3
  <2> QED
    BY <1>1, <1>2, <1>5, <2>1, <2>2, <2>3
<1>11. i < n => At(i + 1) = At(i) + Size(i) + gap
  <2> SUFFICES ASSUME i < n PROVE At(i + 1) = At(i) + Size(i) + gap
    OBVIOUS
  <2>1. i * (e + gap) = (i - 1) * (e + gap) + (e + gap)
    BY <1>4
  <2>2. Size(i) = e /\ At(i + 1) = from + i * (e + gap)
    BY <1>2, <1>3
  <2> QED
    BY <1>1, <1>2, <1>5, <2>1, <2>2
<1>12. Size(i) \in Nat /\ At(i) + Size(i) <= from + length
  <2>1. CASE i = n
    BY <1>1, <1>9, <2>1
  <2>2. CASE i < n
    <3>1. At(i) + Size(i) + gap <= At(n)
      BY <1>10, <2>2
    <3>2. Size(i) = e
      BY <1>3, <2>2
    <3> QED
      BY <1>1, <1>6, <1>9, <3>1, <3>2
  <2> QED
    BY <2>1, <2>2
<1> QED
  BY <1>6, <1>7, <1>9, <1>10, <1>11, <1>12 DEF At, Size

-----------------------------------------------------------------------------
(* Boxes *)

Sizes == {b \in Boxes : b.width >= 0 /\ b.height >= 0}

Inside(a, b) ==
    /\ b.x <= a.x /\ a.x + a.width <= b.x + b.width
    /\ b.y <= a.y /\ a.y + a.height <= b.y + b.height

Apart(a, b, gap) ==
    \/ a.x + a.width + gap <= b.x \/ b.x + b.width + gap <= a.x
    \/ a.y + a.height + gap <= b.y \/ b.y + b.height + gap <= a.y

(* The two directions of an axis are its horizontal and vertical one.      *)
LEMMA BoxAxes ==
    ASSUME NEW b \in Sizes, NEW h \in BOOLEAN
    PROVE  Start(b, h) \in Int /\ Length(b, h) \in Nat
BY DEF Sizes, Boxes, Start, Length

LEMMA InsideAxes ==
    ASSUME NEW a \in Sizes, NEW b \in Sizes, NEW h \in BOOLEAN,
           \A d \in {h, ~h} : /\ Start(b, d) <= Start(a, d)
                             /\ Start(a, d) + Length(a, d)
                                    <= Start(b, d) + Length(b, d)
    PROVE  Inside(a, b)
BY DEF Inside, Start, Length, Sizes, Boxes

LEMMA ApartAxis ==
    ASSUME NEW a \in Sizes, NEW b \in Sizes, NEW gap \in Nat,
           NEW h \in BOOLEAN, Start(a, h) + Length(a, h) + gap <= Start(b, h)
    PROVE  Apart(a, b, gap) /\ Apart(b, a, gap)
BY DEF Apart, Start, Length, Sizes, Boxes

(* A box moved and resized along one axis keeps the other.                 *)
LEMMA AlongMoves ==
    ASSUME NEW box \in Sizes, NEW at \in Int, NEW size \in Nat,
           NEW h \in BOOLEAN
    PROVE  /\ Along(box, at, size, h) \in Sizes
           /\ Start(Along(box, at, size, h), h) = at
           /\ Length(Along(box, at, size, h), h) = size
           /\ Start(Along(box, at, size, h), ~h) = Start(box, ~h)
           /\ Length(Along(box, at, size, h), ~h) = Length(box, ~h)
<1>1. /\ box.x \in Int /\ box.width \in Int /\ box.width >= 0
      /\ box.y \in Int /\ box.height \in Int /\ box.height >= 0
      /\ box = [x |-> box.x, y |-> box.y, width |-> box.width,
                height |-> box.height]
  BY DEF Sizes, Boxes
<1>2. CASE h
  <2>1. Along(box, at, size, h)
          = [x |-> at, y |-> box.y, width |-> size, height |-> box.height]
    BY <1>1, <1>2 DEF Along
  <2>2. Along(box, at, size, h) \in Sizes
    BY <1>1, <2>1 DEF Sizes, Boxes
  <2>3. \A b : /\ Start(b, h) = b.x /\ Length(b, h) = b.width
               /\ Start(b, ~h) = b.y /\ Length(b, ~h) = b.height
    BY <1>2 DEF Start, Length
  <2> QED
    BY <2>1, <2>2, <2>3
<1>3. CASE ~h
  <2>1. Along(box, at, size, h)
          = [x |-> box.x, y |-> at, width |-> box.width, height |-> size]
    BY <1>1, <1>3 DEF Along
  <2>2. Along(box, at, size, h) \in Sizes
    BY <1>1, <2>1 DEF Sizes, Boxes
  <2>3. \A b : /\ Start(b, h) = b.y /\ Length(b, h) = b.height
               /\ Start(b, ~h) = b.x /\ Length(b, ~h) = b.width
    BY <1>3 DEF Start, Length
  <2> QED
    BY <2>1, <2>2, <2>3
<1> QED
  BY <1>2, <1>3

(* A part of a box.                                                        *)
LEMMA SliceFits ==
    ASSUME NEW box \in Sizes, NEW at \in Nat, NEW size \in Nat,
           NEW h \in BOOLEAN, at + size <= Length(box, h)
    PROVE  /\ Slice(box, at, size, h) \in Sizes
           /\ Inside(Slice(box, at, size, h), box)
           /\ Start(Slice(box, at, size, h), h) = Start(box, h) + at
           /\ Length(Slice(box, at, size, h), h) = size
           /\ Length(Slice(box, at, size, h), ~h) = Length(box, ~h)
<1> DEFINE from == Start(box, h) + at
           b == Along(box, from, size, h)
<1>1. Start(box, h) \in Int /\ Length(box, h) \in Nat
      /\ Start(box, ~h) \in Int /\ Length(box, ~h) \in Nat /\ from \in Int
  <2>1. Start(box, h) \in Int /\ Length(box, h) \in Nat
    BY BoxAxes
  <2>2. (~h) \in BOOLEAN
    OBVIOUS
  <2>3. Start(box, ~h) \in Int /\ Length(box, ~h) \in Nat
    BY <2>2, BoxAxes
  <2> QED
    BY <2>1, <2>3
<1>2. Slice(box, at, size, h) = b
  BY DEF Slice
<1> HIDE DEF from
<1>3. /\ b \in Sizes /\ Start(b, h) = from /\ Length(b, h) = size
      /\ Start(b, ~h) = Start(box, ~h) /\ Length(b, ~h) = Length(box, ~h)
  BY <1>1, AlongMoves
<1> HIDE DEF b
<1>4. Inside(b, box)
  <2>1. Start(box, h) <= Start(b, h)
        /\ Start(b, h) + Length(b, h) <= Start(box, h) + Length(box, h)
    BY <1>1, <1>3 DEF from
  <2> QED
    BY <1>1, <1>3, <2>1, InsideAxes
<1> QED
  BY <1>2, <1>3, <1>4 DEF from

(* arrange_line: its cells stay inside the box and a gap apart.            *)
THEOREM LineTiles ==
    ASSUME NEW box \in Sizes, NEW n \in Nat \ {0}, NEW gap \in Nat,
           NEW vertical \in BOOLEAN, gap * (n - 1) <= Length(box, ~vertical)
    PROVE  LET line == ArrangeLine(box, n, gap, vertical)
           IN  /\ line \in Seq(Sizes) /\ Len(line) = n
               /\ \A i \in 1 .. n : Inside(line[i], box)
               /\ \A i, j \in 1 .. n : i # j => Apart(line[i], line[j], gap)
<1> DEFINE line == ArrangeLine(box, n, gap, vertical)
           h == ~vertical
           from == Start(box, h)
           length == Length(box, h)
           At(k) == CellAt(from, length, n, gap, k)
           Size(k) == CellSize(from, length, n, gap, k)
<1>1. h \in BOOLEAN /\ from \in Int /\ length \in Nat
      /\ Start(box, ~h) \in Int /\ Length(box, ~h) \in Nat
  BY BoxAxes
<1>2. \A i \in 1 .. n : line[i] = Along(box, At(i), Size(i), h)
  BY DEF ArrangeLine
<1>3. n \in Nat /\ DOMAIN line = 1 .. n /\ line = [i \in 1 .. n |-> line[i]]
  BY DEF ArrangeLine
<1>4. \A i \in 1 .. n :
        /\ At(i) \in Int /\ Size(i) \in Nat
        /\ from <= At(i) /\ At(i) + Size(i) <= from + length
        /\ \A j \in i + 1 .. n : At(i) + Size(i) + gap <= At(j)
  <2> HIDE DEF from, length
  <2>1. gap * (n - 1) <= length
    BY DEF length
  <2> QED
    BY <1>1, <2>1, CellsFit
<1> HIDE DEF At, Size, line, h
<1>5. \A i \in 1 .. n :
        /\ line[i] \in Sizes
        /\ Start(line[i], h) = At(i) /\ Length(line[i], h) = Size(i)
        /\ Start(line[i], ~h) = Start(box, ~h)
        /\ Length(line[i], ~h) = Length(box, ~h)
  <2> TAKE i \in 1 .. n
  <2>1. line[i] = Along(box, At(i), Size(i), h)
    BY <1>2
  <2>2. At(i) \in Int /\ Size(i) \in Nat /\ h \in BOOLEAN
    BY <1>1, <1>4
  <2>3. /\ Along(box, At(i), Size(i), h) \in Sizes
        /\ Start(Along(box, At(i), Size(i), h), h) = At(i)
        /\ Length(Along(box, At(i), Size(i), h), h) = Size(i)
        /\ Start(Along(box, At(i), Size(i), h), ~h) = Start(box, ~h)
        /\ Length(Along(box, At(i), Size(i), h), ~h) = Length(box, ~h)
    BY <2>2, AlongMoves
  <2> QED
    BY <2>1, <2>3
<1>6. \A i \in 1 .. n : Inside(line[i], box)
  <2> TAKE i \in 1 .. n
  <2>1. \A d \in {h, ~h} : /\ Start(box, d) <= Start(line[i], d)
                           /\ Start(line[i], d) + Length(line[i], d)
                                 <= Start(box, d) + Length(box, d)
    BY <1>1, <1>4, <1>5
  <2> QED
    BY <1>1, <1>5, <2>1, InsideAxes
<1>7. line \in Seq(Sizes) /\ Len(line) = n
  <2>1. \A i \in 1 .. n : line[i] \in Sizes
    BY <1>5
  <2>2. line \in [1 .. n -> Sizes]
    BY <1>3, <2>1
  <2> QED
    BY <1>3, <2>2
<1>8. ASSUME NEW i \in 1 .. n, NEW j \in i + 1 .. n
      PROVE  Apart(line[i], line[j], gap) /\ Apart(line[j], line[i], gap)
  <2>1. Start(line[i], h) + Length(line[i], h) + gap <= Start(line[j], h)
    BY <1>4, <1>5
  <2> QED
    BY <1>1, <1>5, <2>1, ApartAxis
<1>9. \A i, j \in 1 .. n : i # j => Apart(line[i], line[j], gap)
  <2> SUFFICES ASSUME NEW i \in 1 .. n, NEW j \in 1 .. n, i # j
               PROVE  Apart(line[i], line[j], gap)
    OBVIOUS
  <2>1. i \in j + 1 .. n \/ j \in i + 1 .. n
    OBVIOUS
  <2> QED
    BY <1>8, <2>1
<1> QED
  BY <1>6, <1>7, <1>9 DEF line

(* The share of the master area is part of what there is.                  *)
LEMMA ShareType ==
    ASSUME NEW length \in Nat, NEW percent \in 0 .. 100
    PROVE  Share(length, percent) \in 0 .. length
<1>1. length * percent \in Nat /\ length * percent <= length * 100
  <2>1. percent * length <= 100 * length
    BY ProductMonotonic
  <2> QED
    BY <2>1
<1> DEFINE p == length * percent
<1>2. Share(length, percent) = p \div 100
  BY <1>1 DEF Share, Quotient
<1> HIDE DEF p
<1>3. p \in Nat /\ p <= length * 100
  BY <1>1 DEF p
<1> QED
  BY <1>2, <1>3

(* The master layout, for any number of masters and any fraction: all the  *)
(* windows get a box inside the area and the boxes are a gap apart.        *)
THEOREM MasterTiles ==
    ASSUME NEW area \in Sizes, NEW n \in Nat \ {0}, NEW gap \in Nat,
           NEW nmaster \in Int, NEW mfact \in 0 .. 100, NEW orientation,
           gap * (n - 1) <= area.width, gap * (n - 1) <= area.height
    PROVE  LET placed == Master(area, n, gap, nmaster, mfact, orientation)
           IN  /\ placed \in Seq(Sizes) /\ Len(placed) = n
               /\ \A i \in 1 .. n : Inside(placed[i], area)
               /\ \A i, j \in 1 .. n : i # j => Apart(placed[i], placed[j], gap)
<1> DEFINE wanted == IF nmaster < 1 THEN 1 ELSE nmaster
           masters == IF wanted > n THEN n ELSE wanted
           sideways == orientation \in {"left", "right"}
           available == Available(Length(area, sideways), gap)
           share == Share(available, mfact)
           rest == available - share
           first == orientation \in {"left", "top"}
           masterBox == Slice(area, IF first THEN 0 ELSE rest + gap, share,
                              sideways)
           stackBox == Slice(area, IF first THEN share + gap ELSE 0, rest,
                             sideways)
           placed == Master(area, n, gap, nmaster, mfact, orientation)
<1>1. /\ area \in Boxes /\ area.width \in Nat /\ area.height \in Nat
      /\ sideways \in BOOLEAN /\ first \in BOOLEAN /\ masters \in 1 .. n
  BY DEF Sizes, Boxes
<1>2. CASE masters = n
  <2>1. placed = ArrangeLine(area, n, gap, sideways)
    BY <1>2 DEF Master
  <2>2. gap * (n - 1) <= Length(area, ~sideways)
    BY DEF Length
  <2> HIDE DEF placed, masters, sideways
  <2> QED
    BY <1>1, <2>1, <2>2, LineTiles DEF placed
<1>3. CASE masters # n
  <2>1. masters \in 1 .. n - 1
    BY <1>1, <1>3
  <2>2. gap <= gap * (n - 1)
    <3>1. 1 * gap <= (n - 1) * gap
      BY <2>1, ProductMonotonic
    <3> QED
      BY <3>1
  <2>3. available \in Nat /\ available + gap = Length(area, sideways)
    BY <1>1, <2>2 DEF Available, Length
  <2>4. share \in Nat /\ rest \in Nat /\ share + rest = available
    <3> HIDE DEF available
    <3>1. share \in 0 .. available
      BY <2>3, ShareType
    <3> HIDE DEF share
    <3> QED
      BY <2>3, <3>1
  <2>5. placed = ArrangeLine(masterBox, masters, gap, sideways)
                  \o ArrangeLine(stackBox, n - masters, gap, sideways)
    BY <1>3 DEF Master
  <2> HIDE DEF share, rest, available, first, sideways, masters, placed
  <2>6. /\ masterBox \in Sizes /\ stackBox \in Sizes
        /\ Inside(masterBox, area) /\ Inside(stackBox, area)
        /\ Apart(masterBox, stackBox, gap) /\ Apart(stackBox, masterBox, gap)
        /\ Length(masterBox, ~sideways) = Length(area, ~sideways)
        /\ Length(stackBox, ~sideways) = Length(area, ~sideways)
    <3> DEFINE a == IF first THEN 0 ELSE rest + gap
               b == IF first THEN share + gap ELSE 0
    <3>1. /\ a \in Nat /\ b \in Nat
          /\ a + share <= Length(area, sideways)
          /\ b + rest <= Length(area, sideways)
          /\ a + share + gap <= b \/ b + rest + gap <= a
      BY <1>1, <2>3, <2>4
    <3>2. Start(area, sideways) \in Int
      BY <1>1, BoxAxes
    <3> HIDE DEF a, b
    <3>3. /\ masterBox \in Sizes /\ Inside(masterBox, area)
          /\ Start(masterBox, sideways) = Start(area, sideways) + a
          /\ Length(masterBox, sideways) = share
          /\ Length(masterBox, ~sideways) = Length(area, ~sideways)
      BY <1>1, <2>4, <3>1, SliceFits DEF a
    <3>4. /\ stackBox \in Sizes /\ Inside(stackBox, area)
          /\ Start(stackBox, sideways) = Start(area, sideways) + b
          /\ Length(stackBox, sideways) = rest
          /\ Length(stackBox, ~sideways) = Length(area, ~sideways)
      BY <1>1, <2>4, <3>1, SliceFits DEF b
    <3> HIDE DEF masterBox, stackBox
    <3>5. CASE a + share + gap <= b
      <4>1. Start(masterBox, sideways) + Length(masterBox, sideways) + gap
              <= Start(stackBox, sideways)
        BY <2>4, <3>1, <3>2, <3>3, <3>4, <3>5
      <4> QED
        BY <1>1, <3>3, <3>4, <4>1, ApartAxis
    <3>6. CASE b + rest + gap <= a
      <4>1. Start(stackBox, sideways) + Length(stackBox, sideways) + gap
              <= Start(masterBox, sideways)
        BY <2>4, <3>1, <3>2, <3>3, <3>4, <3>6
      <4> QED
        BY <1>1, <3>3, <3>4, <4>1, ApartAxis
    <3> QED
      BY <3>1, <3>3, <3>4, <3>5, <3>6
  <2>7. /\ gap * (masters - 1) <= Length(area, ~sideways)
        /\ gap * (n - masters - 1) <= Length(area, ~sideways)
    <3>1. /\ (masters - 1) * gap <= (n - 1) * gap
          /\ (n - masters - 1) * gap <= (n - 1) * gap
      BY <2>1, ProductMonotonic
    <3> QED
      BY <1>1, <2>1, <3>1 DEF Length
  <2> HIDE DEF masterBox, stackBox
  <2> DEFINE m == ArrangeLine(masterBox, masters, gap, sideways)
             s == ArrangeLine(stackBox, n - masters, gap, sideways)
  <2>8. /\ m \in Seq(Sizes) /\ Len(m) = masters
        /\ \A i \in 1 .. masters : Inside(m[i], masterBox)
        /\ \A i, j \in 1 .. masters : i # j => Apart(m[i], m[j], gap)
    <3>1. /\ masters \in Nat \ {0} /\ sideways \in BOOLEAN
          /\ gap * (masters - 1) <= Length(masterBox, ~sideways)
      BY <1>1, <2>1, <2>6, <2>7
    <3>2. LET t == ArrangeLine(masterBox, masters, gap, sideways)
          IN  /\ t \in Seq(Sizes) /\ Len(t) = masters
              /\ \A i \in 1 .. masters : Inside(t[i], masterBox)
              /\ \A i, j \in 1 .. masters : i # j => Apart(t[i], t[j], gap)
      BY <2>6, <3>1, LineTiles
    <3> QED
      BY <3>2
  <2>9. /\ s \in Seq(Sizes) /\ Len(s) = n - masters
        /\ \A i \in 1 .. n - masters : Inside(s[i], stackBox)
        /\ \A i, j \in 1 .. n - masters : i # j => Apart(s[i], s[j], gap)
    <3> DEFINE k == n - masters
    <3>1. k \in Nat \ {0} /\ gap * (k - 1) <= Length(stackBox, ~sideways)
      BY <2>1, <2>6, <2>7
    <3> HIDE DEF k
    <3>2. LET t == ArrangeLine(stackBox, k, gap, sideways)
          IN  /\ t \in Seq(Sizes) /\ Len(t) = k
              /\ \A i \in 1 .. k : Inside(t[i], stackBox)
              /\ \A i, j \in 1 .. k : i # j => Apart(t[i], t[j], gap)
      BY <1>1, <2>6, <3>1, LineTiles
    <3> QED
      BY <3>2 DEF k
  <2> HIDE DEF m, s
  <2>10. /\ placed \in Seq(Sizes) /\ Len(placed) = n
         /\ \A i \in 1 .. n : placed[i] = IF i <= masters THEN m[i]
                                         ELSE s[i - masters]
    <3>1. placed = m \o s
      BY <2>5 DEF m, s
    <3>2. /\ m \o s \in Seq(Sizes) /\ Len(m \o s) = Len(m) + Len(s)
          /\ \A i \in 1 .. Len(m) + Len(s) :
               (m \o s)[i] = IF i <= Len(m) THEN m[i] ELSE s[i - Len(m)]
      BY <2>8, <2>9, ConcatProperties
    <3>3. masters + (n - masters) = n
      BY <2>1
    <3> QED
      BY <2>8, <2>9, <3>1, <3>2, <3>3
  <2>11. ASSUME NEW a \in Sizes, NEW b \in Sizes, NEW c \in Sizes,
                Inside(a, b), Inside(b, c)
         PROVE  Inside(a, c)
    BY <2>11 DEF Inside, Sizes, Boxes
  <2>12. ASSUME NEW a \in Sizes, NEW b \in Sizes,
                Inside(a, masterBox), Inside(b, stackBox)
         PROVE  Apart(a, b, gap) /\ Apart(b, a, gap)
    BY <2>6, <2>12 DEF Inside, Apart, Sizes, Boxes
  <2>13. \A i \in 1 .. n : Inside(placed[i], area)
    <3> TAKE i \in 1 .. n
    <3>1. CASE i <= masters
      BY <2>1, <2>6, <2>8, <2>10, <2>11, <3>1
    <3>2. CASE i > masters
      <4>1. i - masters \in 1 .. n - masters
        BY <2>1, <3>2
      <4> QED
        BY <2>1, <2>6, <2>9, <2>10, <2>11, <3>2, <4>1
    <3> QED
      BY <2>1, <3>1, <3>2
  <2>14. \A i, j \in 1 .. n : i # j => Apart(placed[i], placed[j], gap)
    <3> SUFFICES ASSUME NEW i \in 1 .. n, NEW j \in 1 .. n, i # j
                 PROVE  Apart(placed[i], placed[j], gap)
      OBVIOUS
    <3>1. /\ i <= masters => i \in 1 .. masters /\ placed[i] = m[i]
          /\ j <= masters => j \in 1 .. masters /\ placed[j] = m[j]
          /\ i > masters => /\ i - masters \in 1 .. n - masters
                            /\ placed[i] = s[i - masters]
          /\ j > masters => /\ j - masters \in 1 .. n - masters
                            /\ placed[j] = s[j - masters]
      BY <2>1, <2>10
    <3>2. CASE i <= masters /\ j <= masters
      BY <2>8, <3>1, <3>2
    <3>3. CASE i > masters /\ j > masters
      <4>1. i - masters # j - masters
        BY <2>1
      <4> QED
        BY <2>9, <3>1, <3>3, <4>1
    <3>4. CASE i <= masters /\ j > masters
      BY <2>8, <2>9, <2>12, <3>1, <3>4
    <3>5. CASE i > masters /\ j <= masters
      BY <2>8, <2>9, <2>12, <3>1, <3>5
    <3> QED
      BY <2>1, <3>2, <3>3, <3>4, <3>5
  <2> QED
    BY <2>10, <2>13, <2>14 DEF placed
<1> QED
  BY <1>2, <1>3

-----------------------------------------------------------------------------
(* Induction over the elements of a set of numbers. *)

LEMMA Induction ==
    ASSUME NEW S, 0 \in S, \A k \in Nat : k \in S => k + 1 \in S
    PROVE  \A k \in Nat : k \in S
<1> DEFINE Bad == {k \in Nat : k \notin S}
<1>1. ASSUME Bad # {} PROVE FALSE
  <2>1. Bad \subseteq Nat
    OBVIOUS
  <2>2. PICK k \in Bad : \A j \in Bad : ~(<<j, k>> \in OpToRel(<, Nat))
    BY <1>1, <2>1, WFMin, NatLessThanWellFounded
  <2>3. \A j \in Bad : ~(j < k)
    BY <2>2, <2>1 DEF OpToRel
  <2>4. k \in Nat /\ k # 0
    OBVIOUS
  <2>5. k - 1 \in Nat /\ k - 1 < k /\ (k - 1) + 1 = k
    BY <2>4
  <2>6. k - 1 \in S
    BY <2>3, <2>5
  <2>7. (k - 1) + 1 \in S
    BY <2>5, <2>6
  <2> QED
    BY <2>5, <2>7
<1> QED
  BY <1>1

LEMMA DownInduction ==
    ASSUME NEW n \in Nat \ {0}, NEW S, n \in S,
           \A k \in 1 .. n - 1 : k + 1 \in S => k \in S
    PROVE  \A k \in 1 .. n : k \in S
<1> DEFINE R == {j \in Nat : j < n => n - j \in S}
<1>1. 0 \in R
  OBVIOUS
<1>2. ASSUME NEW j \in Nat, j \in R PROVE j + 1 \in R
  <2> SUFFICES ASSUME j + 1 < n PROVE n - (j + 1) \in S
    OBVIOUS
  <2> DEFINE k == n - (j + 1)
  <2>1. k \in 1 .. n - 1 /\ k + 1 = n - j /\ j < n
    OBVIOUS
  <2>2. k + 1 \in S
    BY <1>2, <2>1
  <2> QED
    BY <2>1, <2>2
<1>3. \A j \in Nat : j \in R
  <2> HIDE DEF R
  <2> QED
    BY <1>1, <1>2, Induction
<1> SUFFICES ASSUME NEW k \in 1 .. n PROVE k \in S
  OBVIOUS
<1>4. n - k \in Nat /\ n - k < n /\ n - (n - k) = k
  OBVIOUS
<1> QED
  BY <1>3, <1>4

-----------------------------------------------------------------------------
(* The two axes of a box.  Nothing is assumed of its size here: a setting  *)
(* out of range gives boxes of a negative width.                           *)

Far(b, h) == Start(b, h) + Length(b, h)

Big(b, gap) == b \in Boxes /\ gap < b.width /\ gap < b.height

LEMMA Axes ==
    ASSUME NEW b \in Boxes, NEW h \in BOOLEAN
    PROVE  /\ Start(b, h) \in Int /\ Length(b, h) \in Int
           /\ Far(b, h) \in Int /\ Far(b, h) = Start(b, h) + Length(b, h)
BY DEF Boxes, Start, Length, Far

LEMMA BigAxes ==
    ASSUME NEW b \in Boxes, NEW gap \in Int
    PROVE  Big(b, gap) <=> \A h \in BOOLEAN : gap < Length(b, h)
BY DEF Boxes, Big, Length

LEMMA InsideBoth ==
    ASSUME NEW a \in Boxes, NEW b \in Boxes
    PROVE  Inside(a, b) <=> \A h \in BOOLEAN : /\ Start(b, h) <= Start(a, h)
                                               /\ Far(a, h) <= Far(b, h)
BY DEF Boxes, Inside, Far, Start, Length

LEMMA ApartEither ==
    ASSUME NEW a \in Boxes, NEW b \in Boxes, NEW gap \in Int
    PROVE  Apart(a, b, gap) <=>
             \E h \in BOOLEAN : \/ Far(a, h) + gap <= Start(b, h)
                                \/ Far(b, h) + gap <= Start(a, h)
BY DEF Boxes, Apart, Far, Start, Length

LEMMA AlongAxes ==
    ASSUME NEW box \in Boxes, NEW at \in Int, NEW size \in Int,
           NEW h \in BOOLEAN
    PROVE  LET b == Along(box, at, size, h) IN
           /\ b \in Boxes
           /\ Start(b, h) = at /\ Length(b, h) = size /\ Far(b, h) = at + size
           /\ \A v \in BOOLEAN \ {h} : /\ Start(b, v) = Start(box, v)
                                       /\ Length(b, v) = Length(box, v)
<1> DEFINE b == Along(box, at, size, h)
<1>1. /\ box.x \in Int /\ box.width \in Int /\ box.y \in Int
      /\ box.height \in Int
      /\ box = [x |-> box.x, y |-> box.y, width |-> box.width,
                height |-> box.height]
  BY DEF Boxes
<1>2. CASE h
  <2>1. b = [x |-> at, y |-> box.y, width |-> size, height |-> box.height]
    BY <1>1, <1>2 DEF Along
  <2> HIDE DEF b
  <2>2. b \in Boxes
    BY <1>1, <2>1 DEF Boxes
  <2>3. \A c : Start(c, h) = c.x /\ Length(c, h) = c.width
    BY <1>2 DEF Start, Length
  <2>4. \A c : \A v \in BOOLEAN \ {h} :
          Start(c, v) = c.y /\ Length(c, v) = c.height
    BY <1>2 DEF Start, Length
  <2>5. Start(b, h) = at /\ Length(b, h) = size /\ Far(b, h) = at + size
    BY <2>1, <2>3 DEF Far
  <2>6. \A v \in BOOLEAN \ {h} : /\ Start(b, v) = Start(box, v)
                                 /\ Length(b, v) = Length(box, v)
    BY <2>1, <2>4
  <2> QED
    BY <2>2, <2>5, <2>6 DEF b
<1>3. CASE ~h
  <2>1. b = [x |-> box.x, y |-> at, width |-> box.width, height |-> size]
    BY <1>1, <1>3 DEF Along
  <2> HIDE DEF b
  <2>2. b \in Boxes
    BY <1>1, <2>1 DEF Boxes
  <2>3. \A c : Start(c, h) = c.y /\ Length(c, h) = c.height
    BY <1>3 DEF Start, Length
  <2>4. \A c : \A v \in BOOLEAN \ {h} :
          Start(c, v) = c.x /\ Length(c, v) = c.width
    BY <1>3 DEF Start, Length
  <2>5. Start(b, h) = at /\ Length(b, h) = size /\ Far(b, h) = at + size
    BY <2>1, <2>3 DEF Far
  <2>6. \A v \in BOOLEAN \ {h} : /\ Start(b, v) = Start(box, v)
                                 /\ Length(b, v) = Length(box, v)
    BY <2>1, <2>4
  <2> QED
    BY <2>2, <2>5, <2>6 DEF b
<1> QED
  BY <1>2, <1>3

-----------------------------------------------------------------------------
(* Tiles that cover a box: they are inside, a gap apart, each followed by  *)
(* another or at the edge, and no stretch longer than a gap is free along  *)
(* the near edges, so that what comes before the box is followed too.      *)

Meets(b, h, lo, hi) == lo < Far(b, h) /\ Start(b, h) < hi

Follows(b, a, gap, h) ==
    /\ Start(b, h) = Far(a, h) + gap
    /\ \A v \in BOOLEAN \ {h} : Meets(b, v, Start(a, v), Far(a, v))

Filled(t, D, box, gap) ==
    \A i \in D : \A h \in BOOLEAN :
        \/ Far(t[i], h) = Far(box, h)
        \/ \E j \in D : Follows(t[j], t[i], gap, h)

Edged(t, D, box, gap) ==
    \A h \in BOOLEAN : \A v \in BOOLEAN \ {h} : \A lo, hi \in Int :
        lo + gap < hi /\ Meets(box, v, lo, hi)
            => \E i \in D : /\ Start(t[i], h) = Start(box, h)
                            /\ Meets(t[i], v, lo, hi)

Covers(t, D, box, gap) ==
    /\ Big(box, gap)
    /\ \A i \in D : Big(t[i], gap) /\ Inside(t[i], box)
    /\ \A i, j \in D : i # j => Apart(t[i], t[j], gap)
    /\ Filled(t, D, box, gap)
    /\ Edged(t, D, box, gap)

(* A box split into two that are a gap apart.                              *)
Splits(box, a, b, gap, h) ==
    /\ a \in Boxes /\ b \in Boxes
    /\ Start(a, h) = Start(box, h)
    /\ Start(b, h) = Far(a, h) + gap
    /\ Far(b, h) = Far(box, h)
    /\ \A c \in {a, b} : \A v \in BOOLEAN \ {h} :
          Start(c, v) = Start(box, v) /\ Far(c, v) = Far(box, v)

(* One tile covers itself.                                                 *)
LEMMA TileCovers ==
    ASSUME NEW t, NEW i, NEW gap \in Nat, Big(t[i], gap)
    PROVE  Covers(t, {i}, t[i], gap)
<1>1. t[i] \in Boxes
  BY DEF Big
<1>2. Inside(t[i], t[i])
  BY <1>1 DEF Inside, Boxes
<1> QED
  BY <1>1, <1>2 DEF Covers, Filled, Edged

(* What covers the two parts covers the box.                               *)
LEMMA SplitCovers ==
    ASSUME NEW t, NEW gap \in Nat, NEW D, NEW E, NEW box \in Boxes,
           NEW a, NEW b, NEW h \in BOOLEAN, Splits(box, a, b, gap, h),
           Covers(t, D, a, gap), Covers(t, E, b, gap)
    PROVE  Covers(t, D \cup E, box, gap)
<1>1. PICK v \in BOOLEAN : v # h /\ \A d \in BOOLEAN : d = h \/ d = v
  BY h = TRUE \/ h = FALSE
<1>2. /\ a \in Boxes /\ b \in Boxes
      /\ Start(a, h) = Start(box, h) /\ Start(b, h) = Far(a, h) + gap
      /\ Far(b, h) = Far(box, h)
      /\ Start(a, v) = Start(box, v) /\ Far(a, v) = Far(box, v)
      /\ Start(b, v) = Start(box, v) /\ Far(b, v) = Far(box, v)
  BY <1>1 DEF Splits
<1>3. \A c \in Boxes : \A d \in {h, v} :
        /\ Start(c, d) \in Int /\ Length(c, d) \in Int
        /\ Far(c, d) \in Int /\ Far(c, d) = Start(c, d) + Length(c, d)
  BY Axes
<1>4. \A d \in {h, v} : gap < Length(a, d) /\ gap < Length(b, d)
  BY <1>2, BigAxes DEF Covers
<1>5. \A c \in {a, b} : \A d \in {h, v} :
        Start(box, d) <= Start(c, d) /\ Far(c, d) <= Far(box, d)
  BY <1>2, <1>3, <1>4
<1>6. Big(box, gap)
  <2>1. \A d \in {h, v} : gap < Length(box, d)
    BY <1>2, <1>3, <1>4
  <2> QED
    BY <1>1, <2>1, BigAxes
<1>7. /\ \A i \in D : /\ t[i] \in Boxes /\ Big(t[i], gap)
                      /\ \A d \in {h, v} : Start(a, d) <= Start(t[i], d)
                                           /\ Far(t[i], d) <= Far(a, d)
      /\ \A i \in E : /\ t[i] \in Boxes /\ Big(t[i], gap)
                      /\ \A d \in {h, v} : Start(b, d) <= Start(t[i], d)
                                           /\ Far(t[i], d) <= Far(b, d)
  BY <1>2, InsideBoth DEF Covers, Big
<1>8. \A i \in D \cup E : Big(t[i], gap) /\ Inside(t[i], box)
  <2> SUFFICES ASSUME NEW i \in D \cup E PROVE Inside(t[i], box)
    BY <1>7
  <2>1. t[i] \in Boxes
    BY <1>7
  <2>2. \A d \in {h, v} : Start(box, d) <= Start(t[i], d)
                          /\ Far(t[i], d) <= Far(box, d)
    BY <1>2, <1>3, <1>5, <1>7, <2>1
  <2> QED
    BY <1>1, <2>1, <2>2, InsideBoth
<1>9. ASSUME NEW i \in D, NEW j \in E
      PROVE  Apart(t[i], t[j], gap) /\ Apart(t[j], t[i], gap)
  <2>1. Far(t[i], h) + gap <= Start(t[j], h)
    BY <1>2, <1>3, <1>7
  <2> QED
    BY <1>7, <2>1, ApartEither
<1>10. \A i, j \in D \cup E : i # j => Apart(t[i], t[j], gap)
  BY <1>9 DEF Covers
<1>11. Filled(t, D \cup E, box, gap)
  <2> SUFFICES ASSUME NEW i \in D \cup E, NEW d \in BOOLEAN
               PROVE  \/ Far(t[i], d) = Far(box, d)
                      \/ \E j \in D \cup E : Follows(t[j], t[i], gap, d)
    BY DEF Filled
  <2>1. CASE i \in E
    BY <1>1, <1>2, <2>1 DEF Covers, Filled
  <2>2. CASE i \in D /\ d = v
    BY <1>2, <2>2 DEF Covers, Filled
  <2>3. CASE i \in D /\ d = h
    <3>1. CASE Far(t[i], h) # Far(a, h)
      BY <2>3, <3>1 DEF Covers, Filled
    <3>2. CASE Far(t[i], h) = Far(a, h)
      <4> DEFINE lo == Start(t[i], v)
                 hi == Far(t[i], v)
      <4>1. lo \in Int /\ hi \in Int /\ lo + gap < hi
        BY <1>3, <1>7, <2>3, BigAxes
      <4>2. Meets(b, v, lo, hi)
        <5>1. lo < Far(b, v) /\ Start(b, v) < hi
          BY <1>2, <1>3, <1>7, <2>3, <4>1
        <5> QED
          BY <5>1 DEF Meets
      <4> HIDE DEF lo, hi
      <4>3. PICK j \in E : Start(t[j], h) = Start(b, h) /\ Meets(t[j], v, lo, hi)
        BY <1>1, <4>1, <4>2 DEF Covers, Edged
      <4>4. Start(t[j], h) = Far(t[i], h) + gap
        BY <1>2, <3>2, <4>3
      <4>5. Follows(t[j], t[i], gap, h)
        BY <1>1, <4>3, <4>4 DEF Follows, lo, hi
      <4> QED
        BY <2>3, <4>5
    <3> QED
      BY <3>1, <3>2
  <2> QED
    BY <1>1, <2>1, <2>2, <2>3
<1>12. Edged(t, D \cup E, box, gap)
  <2> SUFFICES ASSUME NEW d \in BOOLEAN, NEW e \in BOOLEAN \ {d},
                      NEW lo \in Int, NEW hi \in Int, lo + gap < hi,
                      Meets(box, e, lo, hi)
               PROVE  \E i \in D \cup E : /\ Start(t[i], d) = Start(box, d)
                                          /\ Meets(t[i], e, lo, hi)
    BY DEF Edged
  <2>1. CASE d = h /\ e = v
    <3>1. Meets(a, v, lo, hi)
      BY <1>2, <2>1 DEF Meets
    <3>2. PICK i \in D : Start(t[i], h) = Start(a, h) /\ Meets(t[i], v, lo, hi)
      BY <1>1, <3>1 DEF Covers, Edged
    <3> QED
      BY <1>2, <2>1, <3>2
  <2>2. CASE d = v /\ e = h
    <3>1. Meets(a, h, lo, hi) \/ Meets(b, h, lo, hi)
      BY <1>2, <1>3, <2>2 DEF Meets
    <3>2. CASE Meets(a, h, lo, hi)
      <4>1. PICK i \in D : Start(t[i], v) = Start(a, v) /\ Meets(t[i], h, lo, hi)
        BY <1>1, <3>2 DEF Covers, Edged
      <4> QED
        BY <1>2, <2>2, <4>1
    <3>3. CASE Meets(b, h, lo, hi)
      <4>1. PICK i \in E : Start(t[i], v) = Start(b, v) /\ Meets(t[i], h, lo, hi)
        BY <1>1, <3>3 DEF Covers, Edged
      <4> QED
        BY <1>2, <2>2, <4>1
    <3> QED
      BY <3>1, <3>2, <3>3
  <2> QED
    BY <1>1, <2>1, <2>2
<1> QED
  BY <1>6, <1>8, <1>10, <1>11, <1>12 DEF Covers

All(D, n) == UNION {D[i] : i \in 1 .. n}

(* A box that is split again and again, up to its last part.               *)
LEMMA ChainCovers ==
    ASSUME NEW t, NEW gap \in Nat, NEW n \in Nat \ {0},
           NEW remaining, NEW cell, NEW D, NEW side,
           \A i \in 1 .. n : /\ remaining[i] \in Boxes /\ side[i] \in BOOLEAN
                             /\ Covers(t, D[i], cell[i], gap),
           cell[n] = remaining[n],
           \A i \in 1 .. n - 1 :
              Splits(remaining[i], cell[i], remaining[i + 1], gap, side[i])
    PROVE  Covers(t, All(D, n), remaining[1], gap)
<1> DEFINE From(k) == UNION {D[i] : i \in k .. n}
           S == {k \in 1 .. n : Covers(t, From(k), remaining[k], gap)}
<1>1. n \in S
  <2>1. From(n) = D[n] /\ n \in 1 .. n
    OBVIOUS
  <2>2. Covers(t, From(n), remaining[n], gap)
    BY <2>1
  <2> QED
    BY <2>1, <2>2
<1>2. ASSUME NEW k \in 1 .. n - 1, k + 1 \in S PROVE k \in S
  <2>1. From(k) = D[k] \cup From(k + 1)
    OBVIOUS
  <2>2. k \in 1 .. n
    OBVIOUS
  <2>3. Covers(t, From(k + 1), remaining[k + 1], gap)
    BY <1>2
  <2> HIDE DEF From
  <2>4. Covers(t, D[k] \cup From(k + 1), remaining[k], gap)
    BY <2>2, <2>3, SplitCovers
  <2> QED
    BY <2>1, <2>2, <2>4
<1>3. 1 \in S
  <2> HIDE DEF S
  <2> QED
    BY <1>1, <1>2, DownInduction
<1> QED
  BY <1>3 DEF All

-----------------------------------------------------------------------------
(* The lines *)

LEMMA QuotientType ==
    ASSUME NEW a \in Int, NEW b \in Nat \ {0}
    PROVE  Quotient(a, b) \in Int
<1>1. (-a) \in Int /\ a \div b \in Int /\ (-a) \div b \in Int
  OBVIOUS
<1> QED
  BY <1>1 DEF Quotient

LEMMA ShareInt ==
    ASSUME NEW length \in Int, NEW percent \in Int
    PROVE  Share(length, percent) \in Int
<1>1. length * percent \in Int
  OBVIOUS
<1> QED
  BY <1>1, QuotientType DEF Share

(* Where cell i starts, whatever the sizes; the next one is a gap further. *)
LEMMA CellStep ==
    ASSUME NEW from \in Int, NEW length \in Int, NEW n \in Nat \ {0},
           NEW gap \in Int, NEW i \in 1 .. n
    PROVE  /\ CellAt(from, length, n, gap, i) \in Int
           /\ CellSize(from, length, n, gap, i) \in Int
           /\ CellAt(from, length, n, gap, 1) = from
<1> DEFINE e == Each(length, n, gap)
<1>1. e \in Int
  <2>1. length - gap * (n - 1) \in Int
    OBVIOUS
  <2> QED
    BY <2>1, QuotientType DEF Each
<1>2. \A k : CellAt(from, length, n, gap, k) = from + (k - 1) * (e + gap)
  BY DEF CellAt
<1>3. CellSize(from, length, n, gap, i)
        = IF i = n THEN from + length - CellAt(from, length, n, gap, i) ELSE e
  BY DEF CellSize
<1> HIDE DEF e
<1> DEFINE s == e + gap
<1>4. s \in Int
  BY <1>1
<1> HIDE DEF s
<1>5. (i - 1) * s \in Int /\ 0 * s = 0
  BY <1>4
<1>6. /\ CellAt(from, length, n, gap, i) = from + (i - 1) * s
      /\ CellAt(from, length, n, gap, 1) = from + 0 * s
  BY <1>2 DEF s
<1>7. /\ CellAt(from, length, n, gap, i) \in Int
      /\ CellAt(from, length, n, gap, 1) = from
  BY <1>4, <1>5, <1>6
<1> QED
  BY <1>1, <1>3, <1>7

LEMMA CellNext ==
    ASSUME NEW from \in Int, NEW length \in Int, NEW n \in Nat \ {0},
           NEW gap \in Int, NEW i \in 1 .. n, i < n
    PROVE  CellAt(from, length, n, gap, i + 1)
             = CellAt(from, length, n, gap, i)
                 + CellSize(from, length, n, gap, i) + gap
<1> DEFINE e == Each(length, n, gap)
           s == e + gap
<1>1. e \in Int
  <2>1. length - gap * (n - 1) \in Int
    OBVIOUS
  <2> QED
    BY <2>1, QuotientType DEF Each
<1>2. CellSize(from, length, n, gap, i) = e
  BY DEF CellSize
<1>3. \A k : CellAt(from, length, n, gap, k) = from + (k - 1) * s
  BY DEF CellAt
<1> HIDE DEF e
<1>4. s \in Int /\ s = e + gap
  BY <1>1
<1> HIDE DEF s
<1>5. (i - 1) * s \in Int /\ i * s = (i - 1) * s + s
  BY <1>4
<1>6. /\ CellAt(from, length, n, gap, i) = from + (i - 1) * s
      /\ CellAt(from, length, n, gap, i + 1) = from + i * s
  BY <1>3
<1> QED
  BY <1>1, <1>2, <1>4, <1>5, <1>6

(* What is left of the box from cell i on.                                 *)
LineRest(box, n, gap, vertical) ==
    LET from == Start(box, ~vertical)
        length == Length(box, ~vertical)
        At(i) == CellAt(from, length, n, gap, i)
    IN  [i \in 1 .. n |->
            Along(box, At(i), from + length - At(i), ~vertical)]

(* Each cell is the first part of what is left, the last one all of it.    *)
LEMMA LineSplits ==
    ASSUME NEW box \in Boxes, NEW n \in Nat \ {0}, NEW gap \in Int,
           NEW vertical \in BOOLEAN
    PROVE  LET line == ArrangeLine(box, n, gap, vertical)
               left == LineRest(box, n, gap, vertical)
           IN  /\ line \in [1 .. n -> Boxes]
               /\ left \in [1 .. n -> Boxes]
               /\ left[1] = box /\ left[n] = line[n]
               /\ \A i \in 1 .. n - 1 :
                     Splits(left[i], line[i], left[i + 1], gap, ~vertical)
<1> DEFINE line == ArrangeLine(box, n, gap, vertical)
           left == LineRest(box, n, gap, vertical)
           h == ~vertical
           from == Start(box, h)
           length == Length(box, h)
           At(i) == CellAt(from, length, n, gap, i)
           Size(i) == CellSize(from, length, n, gap, i)
           To(i) == from + length - At(i)
<1>1. h \in BOOLEAN /\ from \in Int /\ length \in Int
  BY Axes
<1>2. /\ line = [i \in 1 .. n |-> Along(box, At(i), Size(i), h)]
      /\ left = [i \in 1 .. n |-> Along(box, At(i), To(i), h)]
  BY DEF ArrangeLine, LineRest
<1>3. box = Along(box, from, length, h)
  BY DEF Along, Start, Length, Boxes
<1> HIDE DEF line, left, h, from, length
<1>4. \A i \in 1 .. n :
        /\ At(i) \in Int /\ Size(i) \in Int /\ At(1) = from
        /\ i < n => At(i + 1) = At(i) + Size(i) + gap
        /\ i = n => Size(i) = To(i)
  <2> TAKE i \in 1 .. n
  <2>1. At(i) \in Int /\ Size(i) \in Int /\ At(1) = from
    BY <1>1, CellStep
  <2>2. i < n => At(i + 1) = At(i) + Size(i) + gap
    <3> SUFFICES ASSUME i < n PROVE At(i + 1) = At(i) + Size(i) + gap
      OBVIOUS
    <3> QED
      BY <1>1, CellNext
  <2>3. i = n => Size(i) = from + length - At(i)
    BY DEF CellSize
  <2> QED
    BY <2>1, <2>2, <2>3
<1>5. \A i \in 1 .. n : To(i) \in Int /\ At(i) + To(i) = from + length
  BY <1>1, <1>4
<1> HIDE DEF At, Size, To
<1>6. \A i \in 1 .. n :
        /\ line[i] \in Boxes /\ Start(line[i], h) = At(i)
        /\ Far(line[i], h) = At(i) + Size(i)
        /\ \A v \in BOOLEAN \ {h} : /\ Start(line[i], v) = Start(box, v)
                                    /\ Length(line[i], v) = Length(box, v)
  <2> TAKE i \in 1 .. n
  <2>1. At(i) \in Int /\ Size(i) \in Int /\ line[i] = Along(box, At(i), Size(i), h)
    BY <1>2, <1>4
  <2> QED
    BY <1>1, <2>1, AlongAxes
<1>7. \A i \in 1 .. n :
        /\ left[i] \in Boxes /\ Start(left[i], h) = At(i)
        /\ Far(left[i], h) = from + length
        /\ \A v \in BOOLEAN \ {h} : /\ Start(left[i], v) = Start(box, v)
                                    /\ Length(left[i], v) = Length(box, v)
  <2> TAKE i \in 1 .. n
  <2>1. At(i) \in Int /\ To(i) \in Int /\ left[i] = Along(box, At(i), To(i), h)
    BY <1>2, <1>4, <1>5
  <2> QED
    BY <1>1, <1>5, <2>1, AlongAxes
<1>8. line \in [1 .. n -> Boxes] /\ left \in [1 .. n -> Boxes]
  BY <1>2, <1>6, <1>7
<1>9. left[1] = box
  <2>1. 1 \in 1 .. n
    OBVIOUS
  <2>2. At(1) = from /\ To(1) = length
    BY <1>1, <1>4, <1>5, <2>1
  <2> QED
    BY <1>2, <1>3, <2>1, <2>2
<1>10. left[n] = line[n]
  <2>1. n \in 1 .. n
    OBVIOUS
  <2> QED
    BY <1>2, <1>4, <2>1
<1>11. ASSUME NEW i \in 1 .. n - 1
       PROVE  Splits(left[i], line[i], left[i + 1], gap, h)
  <2>1. i \in 1 .. n /\ i + 1 \in 1 .. n /\ i < n
    OBVIOUS
  <2>2. At(i + 1) = At(i) + Size(i) + gap
    BY <1>4, <2>1
  <2> QED
    BY <1>6, <1>7, <2>1, <2>2 DEF Splits, Far
<1> QED
  BY <1>8, <1>9, <1>10, <1>11 DEF line, left, h

LEMMA LineType ==
    ASSUME NEW box \in Boxes, NEW n \in Nat \ {0}, NEW gap \in Int,
           NEW vertical \in BOOLEAN
    PROVE  ArrangeLine(box, n, gap, vertical) \in [1 .. n -> Boxes]
BY LineSplits

(* What covers the cells of a line covers its box.                         *)
LEMMA CellsCover ==
    ASSUME NEW t, NEW box \in Boxes, NEW n \in Nat \ {0}, NEW gap \in Nat,
           NEW vertical \in BOOLEAN, NEW D,
           \A i \in 1 .. n :
              Covers(t, D[i], ArrangeLine(box, n, gap, vertical)[i], gap)
    PROVE  Covers(t, All(D, n), box, gap)
<1> DEFINE line == ArrangeLine(box, n, gap, vertical)
           left == LineRest(box, n, gap, vertical)
           side == [i \in 1 .. n |-> ~vertical]
<1>1. /\ left \in [1 .. n -> Boxes] /\ left[1] = box /\ left[n] = line[n]
      /\ \A i \in 1 .. n - 1 :
            Splits(left[i], line[i], left[i + 1], gap, ~vertical)
  BY LineSplits
<1>2. \A i \in 1 .. n : Covers(t, D[i], line[i], gap)
  OBVIOUS
<1> HIDE DEF line, left
<1>3. \A i \in 1 .. n : left[i] \in Boxes /\ side[i] \in BOOLEAN
  BY <1>1
<1>4. \A i \in 1 .. n - 1 : Splits(left[i], line[i], left[i + 1], gap, side[i])
  BY <1>1
<1> HIDE DEF side
<1> QED
  BY <1>1, <1>2, <1>3, <1>4, ChainCovers

(* A line of tiles among the others covers its box.                        *)
LEMMA LineCovers ==
    ASSUME NEW t, NEW box \in Boxes, NEW n \in Nat \ {0}, NEW gap \in Nat,
           NEW vertical \in BOOLEAN, NEW base \in Nat,
           \A i \in 1 .. n :
              /\ t[base + i] = ArrangeLine(box, n, gap, vertical)[i]
              /\ Big(t[base + i], gap)
    PROVE  Covers(t, base + 1 .. base + n, box, gap)
<1> DEFINE D == [i \in 1 .. n |-> {base + i}]
           line == ArrangeLine(box, n, gap, vertical)
<1>1. \A i \in 1 .. n : Covers(t, D[i], line[i], gap)
  <2> TAKE i \in 1 .. n
  <2>1. Covers(t, {base + i}, t[base + i], gap)
    BY TileCovers
  <2> QED
    BY <2>1
<1>2. All(D, n) = base + 1 .. base + n
  <2>1. \A k \in base + 1 .. base + n : k - base \in 1 .. n /\ k = base + (k - base)
    OBVIOUS
  <2> QED
    BY <2>1 DEF All
<1> HIDE DEF D
<1>3. Covers(t, All(D, n), box, gap)
  BY <1>1, CellsCover
<1> QED
  BY <1>2, <1>3

(* A slice of a box and the rest of it.                                    *)
LEMMA SliceSplits ==
    ASSUME NEW box \in Boxes, NEW size \in Int, NEW gap \in Int,
           NEW h \in BOOLEAN
    PROVE  Splits(box, Slice(box, 0, size, h),
                  Slice(box, size + gap, Length(box, h) - (size + gap), h),
                  gap, h)
<1> DEFINE from == Start(box, h)
           length == Length(box, h)
           a == Along(box, from + 0, size, h)
           b == Along(box, from + (size + gap), length - (size + gap), h)
<1>1. from \in Int /\ length \in Int /\ Far(box, h) = from + length
  BY Axes
<1>2. /\ Slice(box, 0, size, h) = a
      /\ Slice(box, size + gap, length - (size + gap), h) = b
  BY DEF Slice
<1> HIDE DEF from, length
<1>3. /\ a \in Boxes /\ Start(a, h) = from + 0 /\ Far(a, h) = from + 0 + size
      /\ \A v \in BOOLEAN \ {h} : /\ Start(a, v) = Start(box, v)
                                  /\ Length(a, v) = Length(box, v)
  BY <1>1, AlongAxes
<1>4. /\ b \in Boxes /\ Start(b, h) = from + (size + gap)
      /\ Far(b, h) = from + (size + gap) + (length - (size + gap))
      /\ \A v \in BOOLEAN \ {h} : /\ Start(b, v) = Start(box, v)
                                  /\ Length(b, v) = Length(box, v)
  <2>1. from + (size + gap) \in Int /\ length - (size + gap) \in Int
    BY <1>1
  <2> QED
    BY <2>1, AlongAxes
<1> HIDE DEF a, b
<1>5. Splits(box, a, b, gap, h)
  <2>1. Start(a, h) = from /\ Start(b, h) = Far(a, h) + gap
        /\ Far(b, h) = Far(box, h)
    BY <1>1, <1>3, <1>4
  <2>2. \A v \in BOOLEAN \ {h} : /\ Far(a, v) = Far(box, v)
                                 /\ Far(b, v) = Far(box, v)
    BY <1>3, <1>4 DEF Far
  <2> QED
    BY <1>3, <1>4, <2>1, <2>2 DEF Splits, from
<1> QED
  BY <1>2, <1>5 DEF length

-----------------------------------------------------------------------------
(* The master layout *)

TwoLines(t, a, b, k, n, gap, s) ==
    t = ArrangeLine(a, k, gap, s) \o ArrangeLine(b, n - k, gap, s)

Lines(t, area, n, gap, s) ==
    \/ t = ArrangeLine(area, n, gap, s)
    \/ \E a, b \in Boxes : \E k \in 1 .. n - 1 :
          /\ TwoLines(t, a, b, k, n, gap, s)
          /\ Splits(area, a, b, gap, s) \/ Splits(area, b, a, gap, s)

(* It is one line, or two that split the area.                             *)
LEMMA MasterParts ==
    ASSUME NEW area \in Boxes, NEW n \in Nat \ {0}, NEW gap \in Int,
           NEW nmaster \in Int, NEW mfact \in Int, NEW orientation
    PROVE  \E s \in BOOLEAN :
              Lines(Master(area, n, gap, nmaster, mfact, orientation),
                    area, n, gap, s)
<1> DEFINE wanted == IF nmaster < 1 THEN 1 ELSE nmaster
           masters == IF wanted > n THEN n ELSE wanted
           s == orientation \in {"left", "right"}
           length == Length(area, s)
           share == Share(Available(length, gap), mfact)
           rest == Available(length, gap) - share
           first == orientation \in {"left", "top"}
           a == Slice(area, IF first THEN 0 ELSE rest + gap, share, s)
           b == Slice(area, IF first THEN share + gap ELSE 0, rest, s)
           placed == Master(area, n, gap, nmaster, mfact, orientation)
<1>1. s \in BOOLEAN /\ length \in Int /\ masters \in 1 .. n
  <2>1. s \in BOOLEAN /\ masters \in 1 .. n
    OBVIOUS
  <2> HIDE DEF s
  <2>2. length \in Int
    BY <2>1, Axes
  <2> QED
    BY <2>1, <2>2
<1>2. share \in Int /\ rest \in Int /\ rest = length - (share + gap)
      /\ share = length - (rest + gap)
  <2> HIDE DEF length
  <2>1. Available(length, gap) \in Int /\ Available(length, gap) = length - gap
    BY <1>1 DEF Available
  <2>2. share \in Int
    BY <2>1, ShareInt
  <2> HIDE DEF share
  <2> QED
    BY <1>1, <2>1, <2>2
<1>3. CASE masters = n
  <2>1. placed = ArrangeLine(area, n, gap, s)
    BY <1>3 DEF Master
  <2> QED
    BY <1>1, <2>1 DEF Lines
<1>4. CASE masters # n
  <2>1. placed = ArrangeLine(a, masters, gap, s)
                   \o ArrangeLine(b, n - masters, gap, s)
    BY <1>4 DEF Master
  <2>2. masters \in 1 .. n - 1
    BY <1>1, <1>4
  <2>3. Splits(area, a, b, gap, s) \/ Splits(area, b, a, gap, s)
    <3>1. CASE first
      <4>1. a = Slice(area, 0, share, s) /\ b = Slice(area, share + gap, rest, s)
        BY <3>1
      <4> HIDE DEF a, b, rest, share, s, first
      <4>2. Splits(area, Slice(area, 0, share, s),
                   Slice(area, share + gap, length - (share + gap), s), gap, s)
        BY <1>1, <1>2, SliceSplits
      <4> QED
        BY <1>2, <4>1, <4>2
    <3>2. CASE ~first
      <4>1. b = Slice(area, 0, rest, s) /\ a = Slice(area, rest + gap, share, s)
        BY <3>2
      <4> HIDE DEF a, b, rest, share, s, first
      <4>2. Splits(area, Slice(area, 0, rest, s),
                   Slice(area, rest + gap, length - (rest + gap), s), gap, s)
        BY <1>1, <1>2, SliceSplits
      <4> QED
        BY <1>2, <4>1, <4>2
    <3> QED
      BY <3>1, <3>2
  <2> HIDE DEF a, b, s, masters, placed
  <2>4. a \in Boxes /\ b \in Boxes
    BY <2>3 DEF Splits
  <2> QED
    BY <1>1, <2>1, <2>2, <2>3, <2>4 DEF placed, Lines, TwoLines
<1> QED
  BY <1>3, <1>4

Shifted(t, base, p, n) == \A i \in 1 .. n : t[base + i] = p[i]

(* Two lines, one after the other in the order of the windows.             *)
LEMMA LinesJoined ==
    ASSUME NEW a \in Boxes, NEW b \in Boxes, NEW k \in Nat \ {0},
           NEW m \in Nat \ {0}, NEW gap \in Int, NEW s \in BOOLEAN
    PROVE  LET p == ArrangeLine(a, k, gap, s)
               q == ArrangeLine(b, m, gap, s)
           IN  /\ p \o q \in Seq(Boxes) /\ Len(p \o q) = k + m
               /\ Shifted(p \o q, 0, p, k) /\ Shifted(p \o q, k, q, m)
<1> DEFINE p == ArrangeLine(a, k, gap, s)
           q == ArrangeLine(b, m, gap, s)
<1>1. p \in [1 .. k -> Boxes] /\ q \in [1 .. m -> Boxes]
  BY LineSplits
<1> HIDE DEF p, q
<1>2. p \in Seq(Boxes) /\ Len(p) = k
  BY <1>1
<1>3. q \in Seq(Boxes) /\ Len(q) = m
  BY <1>1
<1>4. /\ p \o q \in Seq(Boxes) /\ Len(p \o q) = Len(p) + Len(q)
      /\ \A i \in 1 .. Len(p) + Len(q) :
            (p \o q)[i] = IF i <= Len(p) THEN p[i] ELSE q[i - Len(p)]
  BY <1>2, <1>3, ConcatProperties
<1>5. ASSUME NEW i \in 1 .. k PROVE (p \o q)[0 + i] = p[i]
  <2>1. 0 + i = i /\ i \in 1 .. k + m /\ i <= k
    OBVIOUS
  <2> QED
    BY <1>2, <1>3, <1>4, <2>1
<1>6. ASSUME NEW i \in 1 .. m PROVE (p \o q)[k + i] = q[i]
  <2>1. k + i \in 1 .. k + m /\ ~(k + i <= k) /\ (k + i) - k = i
    OBVIOUS
  <2> QED
    BY <1>2, <1>3, <1>4, <2>1
<1> QED
  BY <1>2, <1>3, <1>4, <1>5, <1>6 DEF p, q, Shifted

LEMMA MasterType ==
    ASSUME NEW area \in Boxes, NEW n \in Nat \ {0}, NEW gap \in Int,
           NEW nmaster \in Int, NEW mfact \in Int, NEW orientation
    PROVE  LET placed == Master(area, n, gap, nmaster, mfact, orientation)
           IN  placed \in Seq(Boxes) /\ Len(placed) = n
<1> DEFINE placed == Master(area, n, gap, nmaster, mfact, orientation)
<1>1. PICK s \in BOOLEAN : Lines(placed, area, n, gap, s)
  BY MasterParts
<1> HIDE DEF placed
<1>2. CASE placed = ArrangeLine(area, n, gap, s)
  <2>1. placed \in [1 .. n -> Boxes]
    BY <1>2, LineSplits
  <2> QED
    BY <2>1 DEF placed
<1>3. ASSUME NEW a \in Boxes, NEW b \in Boxes, NEW k \in 1 .. n - 1,
             TwoLines(placed, a, b, k, n, gap, s)
      PROVE  placed \in Seq(Boxes) /\ Len(placed) = n
  <2> DEFINE m == n - k
  <2>1. k \in Nat \ {0} /\ m \in Nat \ {0} /\ k + m = n
    OBVIOUS
  <2>2. placed = ArrangeLine(a, k, gap, s) \o ArrangeLine(b, m, gap, s)
    BY <1>3 DEF TwoLines
  <2> HIDE DEF m
  <2>3. placed \in Seq(Boxes) /\ Len(placed) = k + m
    BY <2>1, <2>2, LinesJoined
  <2> QED
    BY <2>1, <2>3
<1> QED
  BY <1>1, <1>2, <1>3 DEF placed, Lines

LEMMA MasterCovers ==
    ASSUME NEW area \in Boxes, NEW n \in Nat \ {0}, NEW gap \in Nat,
           NEW nmaster \in Int, NEW mfact \in Int, NEW orientation,
           NEW t, t = Master(area, n, gap, nmaster, mfact, orientation),
           \A i \in 1 .. n : Big(t[i], gap)
    PROVE  Covers(t, 1 .. n, area, gap)
<1>1. PICK s \in BOOLEAN : Lines(t, area, n, gap, s)
  BY MasterParts
<1>2. CASE t = ArrangeLine(area, n, gap, s)
  <2>1. \A i \in 1 .. n : /\ t[0 + i] = ArrangeLine(area, n, gap, s)[i]
                          /\ Big(t[0 + i], gap)
    BY <1>2
  <2>2. Covers(t, 0 + 1 .. 0 + n, area, gap)
    BY <2>1, LineCovers
  <2> QED
    BY <2>2
<1>3. ASSUME NEW a \in Boxes, NEW b \in Boxes, NEW k \in 1 .. n - 1,
             TwoLines(t, a, b, k, n, gap, s),
             Splits(area, a, b, gap, s) \/ Splits(area, b, a, gap, s)
      PROVE  Covers(t, 1 .. n, area, gap)
  <2> DEFINE m == n - k
  <2>1. k \in Nat \ {0} /\ m \in Nat \ {0} /\ k + m = n
    OBVIOUS
  <2> DEFINE p == ArrangeLine(a, k, gap, s)
             q == ArrangeLine(b, m, gap, s)
  <2>2. t = p \o q
    BY <1>3 DEF TwoLines
  <2> HIDE DEF m
  <2>8. Shifted(p \o q, 0, p, k) /\ Shifted(p \o q, k, q, m)
    BY <2>1, LinesJoined
  <2>3. /\ \A i \in 1 .. k : t[0 + i] = p[i]
        /\ \A i \in 1 .. m : t[k + i] = q[i]
    BY <2>2, <2>8 DEF Shifted
  <2>4. Covers(t, 0 + 1 .. 0 + k, a, gap)
    <3>1. \A i \in 1 .. k : /\ t[0 + i] = ArrangeLine(a, k, gap, s)[i]
                            /\ Big(t[0 + i], gap)
      BY <2>1, <2>3
    <3> QED
      BY <2>1, <3>1, LineCovers
  <2>5. Covers(t, k + 1 .. k + m, b, gap)
    <3>1. \A i \in 1 .. m : /\ t[k + i] = ArrangeLine(b, m, gap, s)[i]
                            /\ Big(t[k + i], gap)
      BY <2>1, <2>3
    <3> QED
      BY <2>1, <3>1, LineCovers
  <2>6. /\ (0 + 1 .. 0 + k) \cup (k + 1 .. k + m) = 1 .. n
        /\ (k + 1 .. k + m) \cup (0 + 1 .. 0 + k) = 1 .. n
    BY <2>1
  <2> DEFINE D == 0 + 1 .. 0 + k
             E == k + 1 .. k + m
  <2>7. /\ D \cup E = 1 .. n /\ E \cup D = 1 .. n
        /\ Covers(t, D, a, gap) /\ Covers(t, E, b, gap)
    BY <2>4, <2>5, <2>6
  <2> HIDE DEF D, E
  <2>9. Covers(t, D \cup E, area, gap) \/ Covers(t, E \cup D, area, gap)
    BY <1>3, <2>7, SplitCovers
  <2> QED
    BY <2>7, <2>9
<1> QED
  BY <1>1, <1>2, <1>3 DEF Lines

-----------------------------------------------------------------------------
(* The spiral *)

(* What is left for the windows after those of the box, split i.           *)
After(box, i, gap, ratio, horizontal) ==
    LET h == Sideways(i, horizontal)
    IN  Rest(box, Take(box, gap, ratio, h), gap, h)

Follow(f, i, area, gap, ratio, horizontal) ==
    IF i = 1 THEN area ELSE After(f[i - 1], i - 1, gap, ratio, horizontal)

(* The recursion of Remaining has a solution, for any number of windows.   *)
LEMMA RemainingIs ==
    ASSUME NEW area, NEW n \in Nat, NEW gap, NEW ratio, NEW horizontal
    PROVE  LET r == Remaining(area, n, gap, ratio, horizontal)
           IN  r = [i \in 1 .. n |->
                       Follow(r, i, area, gap, ratio, horizontal)]
<1> DEFINE Body(f, i) == Follow(f, i, area, gap, ratio, horizontal)
           Solves(f, k) == f = [i \in 1 .. k |-> Body(f, i)]
           S == {k \in Nat : \E f : Solves(f, k)}
           r == Remaining(area, n, gap, ratio, horizontal)
<1>1. 0 \in S
  <2>1. Solves([i \in 1 .. 0 |-> area], 0)
    OBVIOUS
  <2> QED
    BY <2>1
<1>2. ASSUME NEW k \in Nat, k \in S PROVE k + 1 \in S
  <2>1. PICK f : Solves(f, k)
    BY <1>2
  <2> DEFINE g == [i \in 1 .. k + 1 |-> Body(f, i)]
  <2>2. ASSUME NEW i \in 1 .. k PROVE g[i] = f[i]
    <3>1. i \in 1 .. k + 1
      OBVIOUS
    <3>2. g[i] = Body(f, i)
      BY <3>1
    <3>3. f[i] = Body(f, i)
      BY <2>1
    <3> QED
      BY <3>2, <3>3
  <2>3. \A i \in 1 .. k + 1 : Body(g, i) = Body(f, i)
    <3> SUFFICES ASSUME NEW i \in 1 .. k + 1 PROVE Body(g, i) = Body(f, i)
      OBVIOUS
    <3> HIDE DEF g
    <3>1. CASE i = 1
      BY <3>1 DEF Follow
    <3>2. CASE i # 1
      <4>1. i - 1 \in 1 .. k
        BY <3>2
      <4>2. g[i - 1] = f[i - 1]
        BY <2>2, <4>1
      <4> QED
        BY <4>2 DEF Follow
    <3> QED
      BY <3>1, <3>2
  <2>4. g = [i \in 1 .. k + 1 |-> Body(g, i)]
    <3>1. g = [i \in 1 .. k + 1 |-> Body(f, i)]
      OBVIOUS
    <3> HIDE DEF g, Body
    <3> QED
      BY <2>3, <3>1
  <2>5. Solves(g, k + 1)
    BY <2>4
  <2> HIDE DEF Solves
  <2> QED
    BY <2>5
<1>3. n \in S
  <2> HIDE DEF S
  <2> QED
    BY <1>1, <1>2, Induction
<1>4. \E f : f = [i \in 1 .. n |-> Body(f, i)]
  BY <1>3
<1>5. r = CHOOSE f : f = [i \in 1 .. n |-> Body(f, i)]
  BY DEF Remaining, Follow, After
<1> HIDE DEF Body, r
<1>6. r = [i \in 1 .. n |-> Body(r, i)]
  BY <1>4, <1>5
<1> QED
  BY <1>6 DEF Body, r

LEMMA SidewaysType ==
    ASSUME NEW i \in Nat, NEW horizontal \in BOOLEAN
    PROVE  Sideways(i, horizontal) \in BOOLEAN
BY DEF Sideways

LEMMA TakeType ==
    ASSUME NEW box \in Boxes, NEW gap \in Int, NEW ratio \in Int,
           NEW h \in BOOLEAN
    PROVE  Take(box, gap, ratio, h) \in Int
<1>1. Length(box, h) - gap \in Int
  BY Axes
<1> QED
  BY <1>1, ShareInt DEF Take

(* What is left stays a box, and each window takes its first part.         *)
LEMMA SpiralSplits ==
    ASSUME NEW area \in Boxes, NEW n \in Nat \ {0}, NEW gap \in Int,
           NEW ratio \in Int, NEW horizontal \in BOOLEAN
    PROVE  LET r == Remaining(area, n, gap, ratio, horizontal)
               t == Spiral(area, n, gap, ratio, horizontal)
           IN  /\ r[1] = area /\ r[n] = t[n]
               /\ \A i \in 1 .. n : r[i] \in Boxes /\ t[i] \in Boxes
               /\ DOMAIN t = 1 .. n
               /\ t = [i \in 1 .. n |-> t[i]]
               /\ \A i \in 1 .. n - 1 :
                     Splits(r[i], t[i], r[i + 1], gap, Sideways(i, horizontal))
<1> DEFINE r == Remaining(area, n, gap, ratio, horizontal)
           t == Spiral(area, n, gap, ratio, horizontal)
           H(i) == Sideways(i, horizontal)
           Part(i) == Take(r[i], gap, ratio, H(i))
<1>1. /\ DOMAIN t = 1 .. n /\ t = [i \in 1 .. n |-> t[i]]
      /\ \A i \in 1 .. n : t[i] = IF i = n THEN r[i]
                                  ELSE Slice(r[i], 0, Part(i), H(i))
  BY DEF Spiral
<1>2. r = [i \in 1 .. n |-> Follow(r, i, area, gap, ratio, horizontal)]
  BY RemainingIs
<1> HIDE DEF r, t
<1>3. r[1] = area
  <2>1. 1 \in 1 .. n
    OBVIOUS
  <2> QED
    BY <1>2, <2>1 DEF Follow
<1>4. ASSUME NEW i \in 1 .. n - 1
      PROVE  r[i + 1] = Slice(r[i], Part(i) + gap,
                              Length(r[i], H(i)) - (Part(i) + gap), H(i))
  <2>1. i + 1 \in 1 .. n /\ i + 1 # 1 /\ (i + 1) - 1 = i
    OBVIOUS
  <2>2. r[i + 1] = Follow(r, i + 1, area, gap, ratio, horizontal)
    BY <1>2, <2>1
  <2>3. r[i + 1] = After(r[i], i, gap, ratio, horizontal)
    BY <2>1, <2>2 DEF Follow
  <2> QED
    BY <2>3 DEF After, Rest
<1>5. ASSUME NEW i \in 1 .. n - 1, r[i] \in Boxes
      PROVE  Splits(r[i], Slice(r[i], 0, Part(i), H(i)), r[i + 1], gap, H(i))
  <2>1. H(i) \in BOOLEAN
    BY SidewaysType
  <2> HIDE DEF H
  <2>2. Part(i) \in Int
    BY <1>5, <2>1, TakeType
  <2> HIDE DEF Part
  <2>3. Splits(r[i], Slice(r[i], 0, Part(i), H(i)),
               Slice(r[i], Part(i) + gap,
                     Length(r[i], H(i)) - (Part(i) + gap), H(i)),
               gap, H(i))
    BY <1>5, <2>1, <2>2, SliceSplits
  <2> QED
    BY <1>4, <2>3
<1> DEFINE S == {i \in Nat : i + 1 \in 1 .. n => r[i + 1] \in Boxes}
<1>6. \A i \in Nat : i \in S
  <2>1. 0 \in S
    BY <1>3
  <2>2. ASSUME NEW i \in Nat, i \in S PROVE i + 1 \in S
    <3> SUFFICES ASSUME (i + 1) + 1 \in 1 .. n PROVE r[(i + 1) + 1] \in Boxes
      OBVIOUS
    <3>1. i + 1 \in 1 .. n - 1 /\ i + 1 \in 1 .. n
      OBVIOUS
    <3>2. r[i + 1] \in Boxes
      BY <2>2, <3>1
    <3> QED
      BY <1>5, <3>1, <3>2 DEF Splits
  <2> HIDE DEF S
  <2> QED
    BY <2>1, <2>2, Induction
<1>7. \A i \in 1 .. n : r[i] \in Boxes
  <2> TAKE i \in 1 .. n
  <2>1. i - 1 \in Nat /\ (i - 1) + 1 = i
    OBVIOUS
  <2>2. i - 1 \in S
    BY <1>6, <2>1
  <2> QED
    BY <2>1, <2>2
<1>8. ASSUME NEW i \in 1 .. n - 1
      PROVE  Splits(r[i], t[i], r[i + 1], gap, H(i))
  <2>1. i \in 1 .. n /\ i # n
    OBVIOUS
  <2>2. t[i] = Slice(r[i], 0, Part(i), H(i))
    BY <1>1, <2>1
  <2> QED
    BY <1>5, <1>7, <2>1, <2>2
<1>9. n \in 1 .. n /\ t[n] = r[n]
  BY <1>1
<1>10. \A i \in 1 .. n : t[i] \in Boxes
  <2> TAKE i \in 1 .. n
  <2>1. CASE i = n
    BY <1>7, <1>9, <2>1
  <2>2. CASE i # n
    <3>1. i \in 1 .. n - 1
      BY <2>2
    <3> QED
      BY <1>8, <3>1 DEF Splits
  <2> QED
    BY <2>1, <2>2
<1> QED
  BY <1>1, <1>3, <1>7, <1>8, <1>9, <1>10 DEF r, t

LEMMA SpiralType ==
    ASSUME NEW area \in Boxes, NEW n \in Nat \ {0}, NEW gap \in Int,
           NEW ratio \in Int, NEW horizontal \in BOOLEAN
    PROVE  LET t == Spiral(area, n, gap, ratio, horizontal)
           IN  t \in Seq(Boxes) /\ Len(t) = n
<1> DEFINE t == Spiral(area, n, gap, ratio, horizontal)
<1>1. /\ \A i \in 1 .. n : t[i] \in Boxes
      /\ DOMAIN t = 1 .. n /\ t = [i \in 1 .. n |-> t[i]]
  BY SpiralSplits
<1> HIDE DEF t
<1>2. t \in [1 .. n -> Boxes]
  BY <1>1
<1> QED
  BY <1>2 DEF t

LEMMA SpiralCovers ==
    ASSUME NEW area \in Boxes, NEW n \in Nat \ {0}, NEW gap \in Nat,
           NEW ratio \in Int, NEW horizontal \in BOOLEAN,
           NEW t, t = Spiral(area, n, gap, ratio, horizontal),
           \A i \in 1 .. n : Big(t[i], gap)
    PROVE  Covers(t, 1 .. n, area, gap)
<1> DEFINE r == Remaining(area, n, gap, ratio, horizontal)
           D == [i \in 1 .. n |-> {i}]
           side == [i \in 1 .. n |-> Sideways(i, horizontal)]
<1>1. /\ r[1] = area /\ t[n] = r[n]
      /\ \A i \in 1 .. n : r[i] \in Boxes
      /\ \A i \in 1 .. n - 1 :
            Splits(r[i], t[i], r[i + 1], gap, Sideways(i, horizontal))
  BY SpiralSplits
<1> HIDE DEF r
<1>2. \A i \in 1 .. n : Covers(t, D[i], t[i], gap)
  <2> TAKE i \in 1 .. n
  <2>1. Covers(t, {i}, t[i], gap)
    BY TileCovers
  <2> QED
    BY <2>1
<1>3. \A i \in 1 .. n : side[i] \in BOOLEAN
  BY SidewaysType
<1>4. \A i \in 1 .. n - 1 : Splits(r[i], t[i], r[i + 1], gap, side[i])
  BY <1>1
<1>5. All(D, n) = 1 .. n
  BY DEF All
<1> HIDE DEF D, side
<1>6. Covers(t, All(D, n), r[1], gap)
  BY <1>1, <1>2, <1>3, <1>4, ChainCovers
<1> QED
  BY <1>1, <1>5, <1>6

-----------------------------------------------------------------------------
(* The grid *)

LEMMA Division ==
    ASSUME NEW a \in Nat, NEW c \in Nat \ {0}
    PROVE  /\ a \div c \in Nat
           /\ (a \div c) * c <= a /\ a < (a \div c) * c + c
OBVIOUS

LEMMA DivisionOnly ==
    ASSUME NEW a \in Nat, NEW c \in Nat \ {0}, NEW q \in Nat,
           q * c <= a, a < q * c + c
    PROVE  a \div c = q
<1> DEFINE p == a \div c
<1>1. p \in Nat /\ p * c <= a /\ a < p * c + c
  BY Division
<1> HIDE DEF p
<1>2. ASSUME p < q PROVE FALSE
  <2>1. p + 1 \in Nat /\ p + 1 <= q
    BY <1>1, <1>2
  <2>2. (p + 1) * c <= q * c
    BY <2>1, ProductMonotonic
  <2>3. (p + 1) * c = p * c + c /\ p * c \in Nat /\ q * c \in Nat
    BY <1>1
  <2> QED
    BY <1>1, <2>2, <2>3
<1>3. ASSUME q < p PROVE FALSE
  <2>1. q + 1 \in Nat /\ q + 1 <= p
    BY <1>1, <1>3
  <2>2. (q + 1) * c <= p * c
    BY <1>1, <2>1, ProductMonotonic
  <2>3. (q + 1) * c = q * c + c /\ p * c \in Nat /\ q * c \in Nat
    BY <1>1
  <2> QED
    BY <1>1, <2>2, <2>3
<1>4. p = q
  BY <1>1, <1>2, <1>3
<1> QED
  BY <1>4 DEF p

LEMMA CeilSqrtType ==
    ASSUME NEW n \in Nat \ {0}
    PROVE  CeilSqrt(n) \in 1 .. n
<1> DEFINE Ceil(c) == c * c >= n /\ \A d \in 0 .. c - 1 : d * d < n
           I == {c \in 0 .. n : c * c >= n}
<1>1. n \in I
  <2>1. 1 * n <= n * n
    BY ProductMonotonic
  <2> QED
    BY <2>1
<1>2. I \subseteq Nat
  OBVIOUS
<1>3. PICK c \in I : \A d \in I : ~(<<d, c>> \in OpToRel(<, Nat))
  BY <1>1, <1>2, WFMin, NatLessThanWellFounded
<1>4. \A d \in I : ~(d < c)
  BY <1>2, <1>3 DEF OpToRel
<1>5. c \in 0 .. n /\ c * c >= n
  OBVIOUS
<1>6. \A d \in 0 .. c - 1 : d * d < n
  <2> TAKE d \in 0 .. c - 1
  <2>1. d \in 0 .. n /\ d < c /\ d * d \in Nat
    BY <1>5
  <2>2. d \notin I
    BY <1>4, <2>1
  <2> QED
    BY <2>1, <2>2
<1>7. Ceil(c)
  BY <1>5, <1>6
<1> DEFINE m == CHOOSE x \in 0 .. n : Ceil(x)
<1>8. CeilSqrt(n) = m
  BY DEF CeilSqrt
<1>9. m \in 0 .. n /\ Ceil(m)
  <2> HIDE DEF Ceil
  <2> QED
    BY <1>5, <1>7
<1>10. m \in 0 .. n /\ m * m >= n
  BY <1>9
<1> HIDE DEF m
<1>11. m # 0
  BY <1>10
<1> QED
  BY <1>8, <1>10, <1>11

(* How many windows are in a row, and that row r holds those that follow   *)
(* the rows before it.                                                     *)
InRow(r, n, across, rows) == IF r = rows THEN n - (rows - 1) * across ELSE across

RowHolds(t, area, n, gap, across, rows, r) ==
    LET m == InRow(r, n, across, rows) IN
    \A j \in 1 .. m :
        /\ (r - 1) * across + j \in 1 .. n
        /\ t[(r - 1) * across + j]
             = ArrangeLine(ArrangeLine(area, rows, gap, TRUE)[r], m, gap, FALSE)[j]

Rows(t, area, n, gap, across, rows) ==
    /\ \A r \in 1 .. rows :
          /\ InRow(r, n, across, rows) \in Nat \ {0}
          /\ RowHolds(t, area, n, gap, across, rows, r)
    /\ \A i \in 1 .. n : \E r \in 1 .. rows :
          \E j \in 1 .. InRow(r, n, across, rows) : i = (r - 1) * across + j

RowOf(i, across) == (i - 1) \div across + 1

LEMMA GridRows ==
    ASSUME NEW area \in Boxes, NEW n \in Nat \ {0}, NEW gap \in Int,
           NEW columns \in Int
    PROVE  LET t == Grid(area, n, gap, columns) IN
           /\ DOMAIN t = 1 .. n /\ t = [i \in 1 .. n |-> t[i]]
           /\ \E across \in 1 .. n : \E rows \in Nat \ {0} :
                 Rows(t, area, n, gap, across, rows)
<1> DEFINE t == Grid(area, n, gap, columns)
           wanted == IF columns > 0 THEN columns ELSE CeilSqrt(n)
           across == IF wanted > n THEN n ELSE wanted
           rows == (n + across - 1) \div across
           Holds(r) == InRow(r, n, across, rows)
           box == ArrangeLine(area, rows, gap, TRUE)
<1>1. across \in 1 .. n
  <2>1. CeilSqrt(n) \in 1 .. n
    BY CeilSqrtType
  <2> QED
    BY <2>1
<1>2. /\ DOMAIN t = 1 .. n
      /\ t = [i \in 1 .. n |-> t[i]]
      /\ \A i \in 1 .. n :
            t[i] = ArrangeLine(box[RowOf(i, across)],
                               Holds(RowOf(i, across)), gap, FALSE)
                     [i - (RowOf(i, across) - 1) * across]
  BY DEF Grid, InRow, RowOf
<1> HIDE DEF t, across
<1>3. /\ rows \in Nat
      /\ rows * across <= n + across - 1 /\ n + across - 1 < rows * across + across
  <2>1. n + across - 1 \in Nat /\ across \in Nat \ {0}
    BY <1>1
  <2> QED
    BY <2>1, Division
<1> HIDE DEF rows
<1> DEFINE before == (rows - 1) * across
<1>4. /\ rows \in Nat \ {0} /\ before \in Nat /\ before < n
      /\ n <= before + across /\ rows * across = before + across
  <2>1. rows * across \in Nat /\ rows * across = before + across
    BY <1>1, <1>3
  <2>2. rows # 0
    <3>1. rows = 0 => rows * across = 0
      BY <1>1
    <3> QED
      BY <1>1, <1>3, <3>1
  <2>3. before \in Int /\ before >= 0
    <3>1. rows - 1 \in Nat
      BY <1>3, <2>2
    <3> QED
      BY <1>1, <3>1
  <2> HIDE DEF before
  <2> QED
    BY <1>1, <1>3, <2>1, <2>2, <2>3
<1>5. ASSUME NEW r \in 1 .. rows
      PROVE  /\ Holds(r) \in 1 .. across
             /\ (r - 1) * across \in Nat
             /\ (r - 1) * across + Holds(r) <= n
  <2>1. CASE r = rows
    <3>1. Holds(r) = n - before
      BY <2>1 DEF InRow
    <3>2. (r - 1) * across = before
      BY <2>1
    <3> HIDE DEF before
    <3> QED
      BY <1>1, <1>4, <3>1, <3>2
  <2>2. CASE r # rows
    <3>1. Holds(r) = across
      BY <2>2 DEF InRow
    <3>2. r \in Nat /\ rows - 1 \in Nat /\ r <= rows - 1 /\ across \in Nat
      BY <1>1, <1>4, <2>2
    <3>3. r * across <= before
      BY <3>2, ProductMonotonic
    <3>4. r * across = (r - 1) * across + across /\ (r - 1) * across \in Nat
      BY <3>2
    <3> HIDE DEF before
    <3> QED
      BY <1>1, <1>4, <3>1, <3>2, <3>3, <3>4
  <2> QED
    BY <2>1, <2>2
<1>6. ASSUME NEW r \in 1 .. rows
      PROVE  RowHolds(t, area, n, gap, across, rows, r)
  <2> SUFFICES ASSUME NEW j \in 1 .. Holds(r)
               PROVE  LET i == (r - 1) * across + j IN
                      /\ i \in 1 .. n
                      /\ t[i] = ArrangeLine(box[r], Holds(r), gap, FALSE)[j]
    BY DEF RowHolds
  <2> DEFINE base == (r - 1) * across
             i == base + j
  <2>1. base \in Nat /\ i \in 1 .. n /\ j - 1 \in Nat /\ j - 1 < across
    BY <1>1, <1>5
  <2>2. RowOf(i, across) = r
    <3> DEFINE q == r - 1
    <3>1. q \in Nat /\ q * across = base
      OBVIOUS
    <3>2. i - 1 \in Nat /\ base <= i - 1 /\ i - 1 < base + across
      BY <1>1, <2>1
    <3>3. across \in Nat \ {0}
      BY <1>1
    <3> HIDE DEF base, i, q
    <3>4. q * across <= i - 1 /\ i - 1 < q * across + across
      BY <3>1, <3>2
    <3>5. (i - 1) \div across = q
      BY <3>1, <3>2, <3>3, <3>4, DivisionOnly
    <3> QED
      BY <3>5 DEF RowOf, q
  <2>3. t[i] = ArrangeLine(box[r], Holds(r), gap, FALSE)[i - base]
    BY <1>2, <2>1, <2>2
  <2>4. i - base = j
    BY <2>1
  <2> QED
    BY <2>1, <2>3, <2>4
<1>7. ASSUME NEW i \in 1 .. n
      PROVE  \E r \in 1 .. rows : \E j \in 1 .. Holds(r) :
                i = (r - 1) * across + j
  <2> DEFINE q == (i - 1) \div across
             base == q * across
             j == i - base
  <2>1. q \in Nat /\ base <= i - 1 /\ i - 1 < base + across /\ base \in Nat
    <3>1. i - 1 \in Nat /\ across \in Nat \ {0}
      BY <1>1
    <3> QED
      BY <3>1, Division
  <2> HIDE DEF q
  <2>2. q <= rows - 1
    <3>1. ASSUME rows - 1 < q PROVE FALSE
      <4>1. rows \in Nat /\ rows <= q /\ across \in Nat
        BY <1>1, <1>4, <2>1, <3>1
      <4>2. rows * across <= base
        BY <2>1, <4>1, ProductMonotonic
      <4> HIDE DEF base, before
      <4> QED
        BY <1>1, <1>4, <2>1, <4>2
    <3> QED
      BY <1>4, <2>1, <3>1
  <2>3. q + 1 \in 1 .. rows /\ (q + 1) - 1 = q
    BY <1>4, <2>1, <2>2
  <2>4. j \in 1 .. Holds(q + 1)
    <3>1. j \in 1 .. across
      <4> HIDE DEF base
      <4> QED
        BY <1>1, <2>1
    <3>2. CASE q + 1 = rows
      <4>1. Holds(q + 1) = n - before
        BY <3>2 DEF InRow
      <4>2. base = before
        BY <2>1, <2>3, <3>2
      <4> HIDE DEF before, base
      <4> QED
        BY <1>4, <2>1, <3>1, <4>1, <4>2
    <3>3. CASE q + 1 # rows
      BY <3>1, <3>3 DEF InRow
    <3> QED
      BY <3>2, <3>3
  <2>5. i = ((q + 1) - 1) * across + j
    <3>1. base \in Nat /\ i = base + j
      BY <2>1
    <3> QED
      BY <2>3, <3>1
  <2> HIDE DEF j, base
  <2> QED
    BY <2>3, <2>4, <2>5
<1>8. \A r \in 1 .. rows : Holds(r) \in Nat \ {0}
  BY <1>1, <1>5
<1> HIDE DEF Holds
<1> QED
  BY <1>1, <1>2, <1>4, <1>6, <1>7, <1>8 DEF t, Holds, Rows

LEMMA GridType ==
    ASSUME NEW area \in Boxes, NEW n \in Nat \ {0}, NEW gap \in Int,
           NEW columns \in Int
    PROVE  LET t == Grid(area, n, gap, columns)
           IN  t \in Seq(Boxes) /\ Len(t) = n
<1> DEFINE t == Grid(area, n, gap, columns)
<1>1. DOMAIN t = 1 .. n /\ t = [i \in 1 .. n |-> t[i]]
  BY DEF Grid
<1>2. PICK across \in 1 .. n, rows \in Nat \ {0} :
        Rows(t, area, n, gap, across, rows)
  BY GridRows
<1> DEFINE box == ArrangeLine(area, rows, gap, TRUE)
           Holds(r) == InRow(r, n, across, rows)
           line(r) == ArrangeLine(box[r], Holds(r), gap, FALSE)
<1> HIDE DEF t
<1>3. box \in [1 .. rows -> Boxes]
  BY LineType
<1>4. ASSUME NEW r \in 1 .. rows, NEW j \in 1 .. Holds(r)
      PROVE  line(r)[j] \in Boxes
  <2> DEFINE b == box[r]
             m == Holds(r)
  <2>1. b \in Boxes /\ m \in Nat \ {0} /\ j \in 1 .. m
    BY <1>2, <1>3, <1>4 DEF Rows
  <2>2. line(r) = ArrangeLine(b, m, gap, FALSE)
    OBVIOUS
  <2> HIDE DEF b, m, line
  <2>4. ArrangeLine(b, m, gap, FALSE) \in [1 .. m -> Boxes]
    BY <2>1, LineType
  <2>3. line(r) \in [1 .. m -> Boxes]
    BY <2>2, <2>4
  <2> QED
    BY <2>1, <2>3
<1>5. \A i \in 1 .. n : t[i] \in Boxes
  <2> TAKE i \in 1 .. n
  <2>1. PICK r \in 1 .. rows : \E j \in 1 .. Holds(r) : i = (r - 1) * across + j
    BY <1>2 DEF Rows
  <2>2. PICK j \in 1 .. Holds(r) : i = (r - 1) * across + j
    BY <2>1
  <2>3. t[i] = line(r)[j]
    BY <1>2, <2>2 DEF RowHolds, Rows
  <2> QED
    BY <1>4, <2>3
<1>6. t \in [1 .. n -> Boxes]
  BY <1>1, <1>5
<1> QED
  BY <1>6 DEF t

LEMMA GridCovers ==
    ASSUME NEW area \in Boxes, NEW n \in Nat \ {0}, NEW gap \in Nat,
           NEW columns \in Int,
           NEW t, t = Grid(area, n, gap, columns),
           \A i \in 1 .. n : Big(t[i], gap)
    PROVE  Covers(t, 1 .. n, area, gap)
<1>1. PICK across \in 1 .. n, rows \in Nat \ {0} :
        Rows(t, area, n, gap, across, rows)
  <2>1. gap \in Int
    OBVIOUS
  <2>2. \E across \in 1 .. n, rows \in Nat \ {0} :
           Rows(Grid(area, n, gap, columns), area, n, gap, across, rows)
    BY <2>1, GridRows
  <2> QED
    BY <2>2
<1> DEFINE box == ArrangeLine(area, rows, gap, TRUE)
           Holds(r) == InRow(r, n, across, rows)
           Base(r) == (r - 1) * across
           D == [r \in 1 .. rows |-> Base(r) + 1 .. Base(r) + Holds(r)]
<1>2. box \in [1 .. rows -> Boxes]
  <2>1. gap \in Int
    OBVIOUS
  <2> QED
    BY <2>1, LineType
<1>3. \A r \in 1 .. rows : Base(r) \in Nat
  <2> TAKE r \in 1 .. rows
  <2>1. r - 1 \in Nat /\ across \in Nat
    OBVIOUS
  <2> QED
    BY <2>1
<1>4. ASSUME NEW r \in 1 .. rows
      PROVE  Covers(t, D[r], box[r], gap)
  <2> DEFINE b == box[r]
             m == Holds(r)
             base == Base(r)
  <2>1. b \in Boxes /\ m \in Nat \ {0} /\ base \in Nat
    BY <1>1, <1>2, <1>3 DEF Rows
  <2>2. \A j \in 1 .. m : /\ t[base + j] = ArrangeLine(b, m, gap, FALSE)[j]
                          /\ Big(t[base + j], gap)
    BY <1>1 DEF RowHolds, Rows
  <2>3. D[r] = base + 1 .. base + m
    OBVIOUS
  <2> HIDE DEF b, m, base, D
  <2>4. Covers(t, base + 1 .. base + m, b, gap)
    BY <2>1, <2>2, LineCovers
  <2> QED
    BY <2>3, <2>4 DEF b
<1>5. All(D, rows) = 1 .. n
  <2>1. ASSUME NEW i \in 1 .. n PROVE i \in All(D, rows)
    <3>1. PICK r \in 1 .. rows : \E j \in 1 .. Holds(r) : i = Base(r) + j
      BY <1>1 DEF Rows
    <3>2. PICK j \in 1 .. Holds(r) : i = Base(r) + j
      BY <3>1
    <3>3. Base(r) \in Nat /\ Holds(r) \in Nat
      BY <1>1, <1>3 DEF Rows
    <3> HIDE DEF Base, Holds
    <3>4. i \in Base(r) + 1 .. Base(r) + Holds(r)
      BY <3>2, <3>3
    <3> QED
      BY <3>4 DEF All
  <2>2. ASSUME NEW r \in 1 .. rows, NEW i \in D[r] PROVE i \in 1 .. n
    <3> DEFINE base == Base(r)
               m == Holds(r)
               j == i - base
    <3>1. base \in Nat /\ m \in Nat /\ i \in base + 1 .. base + m
      BY <1>1, <1>3 DEF Rows
    <3> HIDE DEF base, m
    <3>2. j \in 1 .. m /\ base + j = i
      BY <3>1
    <3> HIDE DEF j
    <3> QED
      BY <1>1, <3>2 DEF Rows, RowHolds, base, m
  <2> QED
    BY <2>1, <2>2 DEF All
<1>6. \A r \in 1 .. rows : Covers(t, D[r], box[r], gap)
  BY <1>4
<1> HIDE DEF D
<1>7. Covers(t, All(D, rows), area, gap)
  BY <1>6, CellsCover
<1> QED
  BY <1>5, <1>7

-----------------------------------------------------------------------------
(* The settings in effect *)

Typed(s, o) ==
    /\ DOMAIN s = Keys
    /\ \A key \in Keys : s[key] \in Values(key)
    /\ DOMAIN o = OverrideKeys
    /\ \A key \in OverrideKeys : o[key] \in {Unset} \cup Values(key)

LEMMA ValuesAre ==
    /\ Values("layout") = {"master", "spiral", "grid"}
    /\ Values("orientation") = {"left", "right", "top", "bottom"}
    /\ Values("smart") = BOOLEAN /\ Values("horizontal") = BOOLEAN
    /\ Values("ratio") = 10 .. 90
    /\ Values("mfact") = Int /\ Values("nmaster") = Int
    /\ Values("gapsIn") = Int /\ Values("gapsOut") = Int
    /\ Values("columns") = Int
BY DEF Values

LEMMA SettingsAre ==
    ASSUME NEW s, NEW o, Typed(s, o)
    PROVE  /\ s.smart \in BOOLEAN /\ s.gapsIn \in Int /\ s.gapsOut \in Int
           /\ s.ratio \in Int /\ s.horizontal \in BOOLEAN /\ s.columns \in Int
           /\ Effective(s, o, "layout") \in {"master", "spiral", "grid"}
           /\ Effective(s, o, "mfact") \in Int
           /\ Effective(s, o, "nmaster") \in Int
           /\ Effective(s, o, "orientation")
                \in {"left", "right", "top", "bottom"}
<1>1. \A key \in Keys : s[key] \in Values(key)
  BY DEF Typed
<1>2. /\ s["smart"] \in BOOLEAN /\ s["gapsIn"] \in Int /\ s["gapsOut"] \in Int
      /\ s["ratio"] \in 10 .. 90 /\ s["horizontal"] \in BOOLEAN
      /\ s["columns"] \in Int
  BY <1>1, ValuesAre DEF Keys
<1>3. \A key \in OverrideKeys : Effective(s, o, key) \in Values(key)
  BY DEF Typed, Effective, Keys
<1>4. /\ Effective(s, o, "layout") \in Values("layout")
      /\ Effective(s, o, "mfact") \in Values("mfact")
      /\ Effective(s, o, "nmaster") \in Values("nmaster")
      /\ Effective(s, o, "orientation") \in Values("orientation")
  BY <1>3 DEF OverrideKeys
<1> QED
  BY <1>2, <1>4, ValuesAre

LEMMA AreaType ==
    ASSUME NEW s, NEW o, Typed(s, o), NEW u \in Boxes, NEW n
    PROVE  AreaOf(s, u, n) \in Boxes /\ GapIn(s, n) \in Int
<1>1. GapOut(s, n) \in Int /\ GapIn(s, n) \in Int
  BY SettingsAre DEF GapOut, GapIn
<1>2. 2 * GapOut(s, n) \in Int
  BY <1>1
<1> QED
  BY <1>1, <1>2 DEF AreaOf, Boxes

(* Whatever the settings, each window that is collected gets a box.        *)
LEMMA TilesType ==
    ASSUME NEW s, NEW o, Typed(s, o), NEW u \in Boxes, NEW n \in Nat
    PROVE  Tiles(s, o, u, n) \in Seq(Boxes) /\ Len(Tiles(s, o, u, n)) = Tiled(n)
<1> DEFINE m == Tiled(n)
           area == AreaOf(s, u, m)
           gap == GapIn(s, m)
           layout == Effective(s, o, "layout")
           nmaster == Effective(s, o, "nmaster")
           mfact == Effective(s, o, "mfact")
           side == Effective(s, o, "orientation")
<1>1. area \in Boxes /\ gap \in Int
  BY AreaType
<1>2. /\ layout \in {"master", "spiral", "grid"}
      /\ nmaster \in Int /\ mfact \in Int
      /\ s.ratio \in Int /\ s.horizontal \in BOOLEAN /\ s.columns \in Int
  BY SettingsAre
<1>3. CASE n = 0
  <2>1. Tiles(s, o, u, n) = <<>> /\ Tiled(n) = 0
    BY <1>3, TilingAssumption DEF Tiles, Tiled
  <2> QED
    BY <2>1
<1>4. CASE n # 0
  <2>1. m \in Nat \ {0}
    BY <1>4, TilingAssumption DEF Tiled
  <2>2. Tiles(s, o, u, n)
          = IF layout = "master"
            THEN Master(area, m, gap, nmaster, mfact, side)
            ELSE IF layout = "spiral"
            THEN Spiral(area, m, gap, s.ratio, s.horizontal)
            ELSE Grid(area, m, gap, s.columns)
    BY <1>4 DEF Tiles
  <2> HIDE DEF area, gap, layout, nmaster, mfact, side, m
  <2>3. /\ Master(area, m, gap, nmaster, mfact, side) \in Seq(Boxes)
        /\ Len(Master(area, m, gap, nmaster, mfact, side)) = m
    BY <1>1, <1>2, <2>1, MasterType
  <2>4. /\ Spiral(area, m, gap, s.ratio, s.horizontal) \in Seq(Boxes)
        /\ Len(Spiral(area, m, gap, s.ratio, s.horizontal)) = m
    BY <1>1, <1>2, <2>1, SpiralType
  <2>5. /\ Grid(area, m, gap, s.columns) \in Seq(Boxes)
        /\ Len(Grid(area, m, gap, s.columns)) = m
    BY <1>1, <1>2, <2>1, GridType
  <2> QED
    BY <2>2, <2>3, <2>4, <2>5 DEF m
<1> QED
  BY <1>3, <1>4

-----------------------------------------------------------------------------
(* The tiles are those of the settings, whatever was changed last. *)

TilingInv == TypeOK /\ tiles = Tiles(settings, override, usable, count)

LEMMA InitTyped == Init => TilingInv
<1> SUFFICES ASSUME Init PROVE TilingInv
  OBVIOUS
<1>1. DOMAIN settings = Keys
  BY DEF Init, Default, Keys, OverrideKeys
<1>2. \A key \in Keys : settings[key] \in Values(key)
  <2>1. /\ settings["layout"] = "master" /\ settings["mfact"] = 55
        /\ settings["nmaster"] = 1 /\ settings["orientation"] = "left"
        /\ settings["gapsIn"] = 5 /\ settings["gapsOut"] = 8
        /\ settings["smart"] = TRUE /\ settings["ratio"] = 50
        /\ settings["horizontal"] = TRUE /\ settings["columns"] = 0
    BY DEF Init, Default
  <2>2. /\ settings["layout"] \in Values("layout")
        /\ settings["mfact"] \in Values("mfact")
        /\ settings["nmaster"] \in Values("nmaster")
        /\ settings["orientation"] \in Values("orientation")
        /\ settings["gapsIn"] \in Values("gapsIn")
        /\ settings["gapsOut"] \in Values("gapsOut")
        /\ settings["smart"] \in Values("smart")
        /\ settings["ratio"] \in Values("ratio")
        /\ settings["horizontal"] \in Values("horizontal")
        /\ settings["columns"] \in Values("columns")
    BY <2>1, ValuesAre
  <2> QED
    BY <2>2 DEF Keys, OverrideKeys
<1>3. /\ DOMAIN override = OverrideKeys
      /\ \A key \in OverrideKeys : override[key] = Unset
  BY DEF Init
<1>4. tiles = <<>> /\ count = 0 /\ usable \in Areas
  BY DEF Init
<1>5. tiles = Tiles(settings, override, usable, count)
  BY <1>4 DEF Tiles
<1> QED
  BY <1>1, <1>2, <1>3, <1>4, <1>5, TilingAssumption DEF TilingInv, TypeOK

(* Each action leaves the settings typed and arranges the windows anew.    *)
Rearranged ==
    /\ Typed(settings', override')
    /\ usable' \in Areas /\ count' \in 0 .. MaxWindows
    /\ Arrange

LEMMA SetTyped ==
    ASSUME TypeOK, NEW key \in Keys, NEW value \in Values(key),
           settings' = [settings EXCEPT ![key] = value], UNCHANGED override
    PROVE  Typed(settings', override')
BY DEF TypeOK, Typed

LEMMA OverrideTyped ==
    ASSUME TypeOK, NEW key \in OverrideKeys, NEW value \in Values(key),
           Override(key, value)
    PROVE  Rearranged
<1>1. Typed(settings', override')
  BY DEF TypeOK, Typed, Override
<1> QED
  BY <1>1 DEF TypeOK, Override, Rearranged

LEMMA NextRearranges ==
    ASSUME TypeOK, Next
    PROVE  Rearranged
<1>1. Typed(settings, override)
  BY DEF TypeOK, Typed
<1>2. ASSUME NEW n \in 0 .. MaxWindows, CountChanges(n) PROVE Rearranged
  <2>1. settings' = settings /\ override' = override
    BY <1>2 DEF CountChanges
  <2>2. Typed(settings', override')
    BY <1>1, <2>1
  <2> QED
    BY <1>2, <2>2 DEF CountChanges, TypeOK, Rearranged
<1>3. ASSUME NEW area \in Areas, UsableChanges(area) PROVE Rearranged
  <2>1. settings' = settings /\ override' = override
    BY <1>3 DEF UsableChanges
  <2>2. Typed(settings', override')
    BY <1>1, <2>1
  <2> QED
    BY <1>3, <2>2 DEF UsableChanges, TypeOK, Rearranged
<1>4. ASSUME NEW key \in Keys, NEW value \in Choices[key], Set(key, value)
      PROVE  Rearranged
  <2>1. value \in Values(key)
    BY TilingAssumption
  <2>2. Typed(settings', override')
    BY <1>4, <2>1, SetTyped DEF Set
  <2> QED
    BY <1>4, <2>2 DEF Set, TypeOK, Rearranged
<1>5. ASSUME NEW key \in OverrideKeys, NEW value \in Choices[key],
             SetWs(key, value)
      PROVE  Rearranged
  <2>1. value \in Values(key)
    BY TilingAssumption DEF Keys
  <2> QED
    BY <1>5, <2>1, OverrideTyped DEF SetWs
<1>6. ASSUME NEW delta \in Deltas, TweakMfact(delta) PROVE Rearranged
  <2> DEFINE value == Effective(settings, override, "mfact") + delta
             kept == IF value < 5 THEN 5 ELSE IF value > 95 THEN 95 ELSE value
  <2>1. value \in Int
    BY <1>1, SettingsAre, TilingAssumption
  <2>2. kept \in Values("mfact") /\ "mfact" \in OverrideKeys
    BY <2>1, ValuesAre DEF OverrideKeys
  <2>3. Override("mfact", kept)
    BY <1>6 DEF TweakMfact
  <2> HIDE DEF kept
  <2> QED
    BY <2>2, <2>3, OverrideTyped
<1>7. ASSUME NEW delta \in {1, -1}, TweakNmaster(delta) PROVE Rearranged
  <2> DEFINE value == Effective(settings, override, "nmaster") + delta
             kept == IF value < 1 THEN 1 ELSE value
  <2>1. value \in Int
    BY <1>1, SettingsAre
  <2>2. kept \in Values("nmaster") /\ "nmaster" \in OverrideKeys
    BY <2>1, ValuesAre DEF OverrideKeys
  <2>3. Override("nmaster", kept)
    BY <1>7 DEF TweakNmaster
  <2> HIDE DEF kept
  <2> QED
    BY <2>2, <2>3, OverrideTyped
<1>8. ASSUME CycleOrientation PROVE Rearranged
  <2> DEFINE Is(i) == Orientations[i]
                        = Effective(settings, override, "orientation")
             current == CHOOSE i \in 1 .. 4 : Is(i)
             next == Orientations[(current % 4) + 1]
  <2>1. /\ Orientations[1] = "left" /\ Orientations[2] = "right"
        /\ Orientations[3] = "top" /\ Orientations[4] = "bottom"
    BY DEF Orientations
  <2>2. \E i \in 1 .. 4 : Is(i)
    <3>1. Effective(settings, override, "orientation")
            \in {"left", "right", "top", "bottom"}
      BY <1>1, SettingsAre
    <3> QED
      BY <2>1, <3>1
  <2>3. current \in 1 .. 4
    <3> HIDE DEF Is
    <3> QED
      BY <2>2
  <2>4. Override("orientation", next)
    BY <1>8 DEF CycleOrientation
  <2> HIDE DEF current
  <2>5. (current % 4) + 1 \in {1, 2, 3, 4}
    BY <2>3
  <2>6. next \in Values("orientation") /\ "orientation" \in OverrideKeys
    BY <2>1, <2>5, ValuesAre DEF OverrideKeys
  <2> HIDE DEF next
  <2> QED
    BY <2>4, <2>6, OverrideTyped
<1> QED
  BY <1>2, <1>3, <1>4, <1>5, <1>6, <1>7, <1>8 DEF Next

LEMMA StepTyped == TilingInv /\ [Next]_vars => TilingInv'
<1> SUFFICES ASSUME TilingInv, [Next]_vars PROVE TilingInv'
  OBVIOUS
<1>1. CASE UNCHANGED vars
  BY <1>1 DEF TilingInv, TypeOK, vars
<1>2. CASE Next
  <2>1. Rearranged
    BY <1>2, NextRearranges DEF TilingInv
  <2>2. usable' \in Boxes /\ count' \in Nat
    BY <2>1, TilingAssumption DEF Rearranged
  <2>3. tiles' = Tiles(settings', override', usable', count')
    BY <2>1 DEF Rearranged, Arrange
  <2>4. tiles' \in Seq(Boxes) /\ Len(tiles') = Tiled(count')
    BY <2>1, <2>2, <2>3, TilesType DEF Rearranged
  <2> QED
    BY <2>1, <2>3, <2>4 DEF Rearranged, Typed, TilingInv, TypeOK, Tiled
<1> QED
  BY <1>1, <1>2

LEMMA TilingInvariance == Spec => []TilingInv
<1> QED
  BY InitTyped, StepTyped, PTL DEF Spec

(* Every setting keeps a value of its type and each window that is         *)
(* collected has one box, for any screen, number of windows and settings.  *)
THEOREM TilingTypes == Spec => []TypeOK
<1>1. TilingInv => TypeOK
  BY DEF TilingInv
<1> QED
  BY <1>1, TilingInvariance, PTL

(* The screen holds the windows: each tile is larger than a gap.           *)
Roomy ==
    /\ Gap >= 0
    /\ \A i \in DOMAIN tiles : tiles[i].width > Gap /\ tiles[i].height > Gap

LEMMA TilesCover ==
    ASSUME TilingInv, Roomy, count # 0
    PROVE  /\ Covers(tiles, DOMAIN tiles, Area, Gap)
           /\ Gap \in Nat /\ Area \in Boxes
           /\ \A i \in DOMAIN tiles : tiles[i] \in Boxes
<1> DEFINE s == settings
           m == Tiled(count)
           nmaster == Effective(settings, override, "nmaster")
           mfact == Effective(settings, override, "mfact")
           side == Effective(settings, override, "orientation")
           layout == Effective(settings, override, "layout")
<1>1. Typed(settings, override) /\ usable \in Boxes /\ count \in Nat
  BY TilingAssumption DEF TilingInv, TypeOK, Typed
<1>2. /\ m \in Nat \ {0} /\ Len(tiles) = m /\ DOMAIN tiles = 1 .. m
      /\ (m = 1) <=> (count = 1)
      /\ \A i \in DOMAIN tiles : tiles[i] \in Boxes
  <2>1. /\ m \in Nat \ {0} /\ Len(tiles) = m
        /\ (m = 1) <=> (count = 1)
        /\ tiles \in Seq(Boxes)
    BY <1>1, TilingAssumption DEF TilingInv, TypeOK, Tiled
  <2>2. DOMAIN tiles = 1 .. Len(tiles)
    BY <2>1
  <2>3. \A i \in DOMAIN tiles : tiles[i] \in Boxes
    BY <2>1
  <2> QED
    BY <2>1, <2>2, <2>3
<1>3. Gap = GapIn(settings, m) /\ Area = AreaOf(settings, usable, m)
  BY <1>2 DEF Gap, Area, GapIn, GapOut, AreaOf
<1>4. Gap \in Nat /\ Area \in Boxes
  <2>1. Gap \in Int /\ Area \in Boxes
    BY <1>1, <1>3, AreaType
  <2> QED
    BY <2>1 DEF Roomy
<1>5. /\ layout \in {"master", "spiral", "grid"}
      /\ nmaster \in Int /\ mfact \in Int
      /\ s.ratio \in Int /\ s.horizontal \in BOOLEAN /\ s.columns \in Int
  BY <1>1, SettingsAre
<1>6. tiles = IF layout = "master"
              THEN Master(Area, m, Gap, nmaster, mfact, side)
              ELSE IF layout = "spiral"
              THEN Spiral(Area, m, Gap, s.ratio, s.horizontal)
              ELSE Grid(Area, m, Gap, s.columns)
  BY <1>3 DEF TilingInv, Tiles
<1>7. \A i \in 1 .. m : Big(tiles[i], Gap)
  BY <1>2 DEF Roomy, Big
<1> HIDE DEF s, m, nmaster, mfact, side, layout
<1>8. CASE layout = "master"
  BY <1>2, <1>4, <1>5, <1>6, <1>7, <1>8, MasterCovers
<1>9. CASE layout = "spiral"
  BY <1>2, <1>4, <1>5, <1>6, <1>7, <1>9, SpiralCovers
<1>10. CASE layout = "grid"
  BY <1>2, <1>4, <1>5, <1>6, <1>7, <1>10, GridCovers
<1> QED
  BY <1>2, <1>4, <1>5, <1>8, <1>9, <1>10

LEMMA NoTiles ==
    ASSUME TilingInv, count = 0
    PROVE  DOMAIN tiles = {}
<1>1. tiles = <<>>
  BY DEF TilingInv, Tiles
<1> QED
  BY <1>1

(* No two tiles overlap and a gap separates them, in each layout, for any  *)
(* settings and number of windows that leave room (layout.c:70-191).       *)
THEOREM TilesNeverOverlap == Spec => [](Roomy => TilesApart)
<1>1. TilingInv => (Roomy => TilesApart)
  <2> SUFFICES ASSUME TilingInv, Roomy PROVE TilesApart
    OBVIOUS
  <2>1. CASE count = 0
    BY <2>1, NoTiles DEF TilesApart
  <2>2. CASE count # 0
    <3>1. Covers(tiles, DOMAIN tiles, Area, Gap)
      BY <2>2, TilesCover
    <3> QED
      BY <3>1 DEF Covers, Apart, TilesApart
  <2> QED
    BY <2>1, <2>2
<1> QED
  BY <1>1, TilingInvariance, PTL

(* No tile is under a bar or off the screen (layout.c:245-293).            *)
THEOREM TilesOnScreen == Spec => [](Roomy => TilesInside)
<1>1. TilingInv => (Roomy => TilesInside)
  <2> SUFFICES ASSUME TilingInv, Roomy PROVE TilesInside
    OBVIOUS
  <2>1. CASE count = 0
    BY <2>1, NoTiles DEF TilesInside
  <2>2. CASE count # 0
    <3>1. /\ Covers(tiles, DOMAIN tiles, Area, Gap) /\ Gap \in Nat
          /\ \A i \in DOMAIN tiles : tiles[i] \in Boxes
      BY <2>2, TilesCover
    <3>2. \A i \in DOMAIN tiles : /\ Gap < tiles[i].width
                                  /\ Gap < tiles[i].height
                                  /\ Inside(tiles[i], Area)
      BY <3>1 DEF Covers, Big
    <3>3. \A i \in DOMAIN tiles : tiles[i].width > 0 /\ tiles[i].height > 0
      BY <3>1, <3>2 DEF Boxes
    <3> QED
      BY <3>2, <3>3 DEF Inside, TilesInside
  <2> QED
    BY <2>1, <2>2
<1> QED
  BY <1>1, TilingInvariance, PTL

(* No pixel is lost: each tile reaches the edge or another tile follows    *)
(* exactly one gap further (layout.c:68, 171).                             *)
THEOREM TilesLeaveNoHole == Spec => [](Roomy => TilesFill)
<1>1. TilingInv => (Roomy => TilesFill)
  <2> SUFFICES ASSUME TilingInv, Roomy PROVE TilesFill
    OBVIOUS
  <2>1. CASE count = 0
    BY <2>1, NoTiles DEF TilesFill
  <2>2. CASE count # 0
    <3>1. Filled(tiles, DOMAIN tiles, Area, Gap)
      BY <2>2, TilesCover DEF Covers
    <3>2. ASSUME NEW i \in DOMAIN tiles
          PROVE  \/ tiles[i].x + tiles[i].width = Area.x + Area.width
                 \/ \E j \in DOMAIN tiles :
                       /\ tiles[j].x = tiles[i].x + tiles[i].width + Gap
                       /\ tiles[j].y < tiles[i].y + tiles[i].height
                       /\ tiles[i].y < tiles[j].y + tiles[j].height
      <4>1. \/ Far(tiles[i], TRUE) = Far(Area, TRUE)
            \/ \E j \in DOMAIN tiles : Follows(tiles[j], tiles[i], Gap, TRUE)
        BY <3>1 DEF Filled
      <4> QED
        BY <4>1 DEF Follows, Meets, Far, Start, Length
    <3>3. ASSUME NEW i \in DOMAIN tiles
          PROVE  \/ tiles[i].y + tiles[i].height = Area.y + Area.height
                 \/ \E j \in DOMAIN tiles :
                       /\ tiles[j].y = tiles[i].y + tiles[i].height + Gap
                       /\ tiles[j].x < tiles[i].x + tiles[i].width
                       /\ tiles[i].x < tiles[j].x + tiles[j].width
      <4>1. \/ Far(tiles[i], FALSE) = Far(Area, FALSE)
            \/ \E j \in DOMAIN tiles : Follows(tiles[j], tiles[i], Gap, FALSE)
        BY <3>1 DEF Filled
      <4> QED
        BY <4>1 DEF Follows, Meets, Far, Start, Length
    <3> QED
      BY <3>2, <3>3 DEF TilesFill
  <2> QED
    BY <2>1, <2>2
<1> QED
  BY <1>1, TilingInvariance, PTL
=============================================================================
