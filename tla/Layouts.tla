-------------------------------- MODULE Layouts --------------------------------
(***************************************************************************)
(* The tiling layouts (layout.c): each is a function from a box, a number  *)
(* of windows and parameters to the boxes of the windows, in tiling order. *)
(* Fractions are whole percents; the program multiplies doubles, which may *)
(* come out one pixel smaller where the product is whole.                  *)
(***************************************************************************)
EXTENDS Integers, Sequences

Boxes == [x : Int, y : Int, width : Int, height : Int]

\* C's division truncates towards zero.
Quotient(a, b) == IF a >= 0 THEN a \div b ELSE -((-a) \div b)
Share(length, percent) == Quotient(length * percent, 100)

\* arrange_line along one axis: where cell i of n starts, and its size; the
\* last one takes what the division leaves.
Each(length, n, gap) == Quotient(length - gap * (n - 1), n)
CellAt(from, length, n, gap, i) == from + (i - 1) * (Each(length, n, gap) + gap)
CellEven(from, length, n, gap, i) == Each(length, n, gap)  \* a mutant
CellSize(from, length, n, gap, i) ==
    IF i = n THEN from + length - CellAt(from, length, n, gap, i)
    ELSE Each(length, n, gap)

\* A box along the horizontal axis or along the vertical one.
Start(box, horizontal) == IF horizontal THEN box.x ELSE box.y
Length(box, horizontal) == IF horizontal THEN box.width ELSE box.height
Along(box, at, size, horizontal) ==
    IF horizontal THEN [box EXCEPT !.x = at, !.width = size]
    ELSE [box EXCEPT !.y = at, !.height = size]

ArrangeLine(box, n, gap, vertical) ==
    LET from == Start(box, ~vertical)
        length == Length(box, ~vertical)
    IN  [i \in 1 .. n |-> Along(box, CellAt(from, length, n, gap, i),
                               CellSize(from, length, n, gap, i), ~vertical)]

\* The part of a box that starts at `at` along an axis.
Slice(box, at, size, horizontal) ==
    Along(box, Start(box, horizontal) + at, size, horizontal)

\* master_arrange: the master area is first (left, top) or last, the others
\* stack in the rest.
AvailableAll(length, gap) == length  \* a mutant: the gap is forgotten
Available(length, gap) == length - gap
Master(area, n, gap, nmaster, mfact, orientation) ==
    LET wanted == IF nmaster < 1 THEN 1 ELSE nmaster
        masters == IF wanted > n THEN n ELSE wanted
        sideways == orientation \in {"left", "right"}
        available == Available(Length(area, sideways), gap)
        share == Share(available, mfact)
        rest == available - share
        first == orientation \in {"left", "top"}
        masterBox == Slice(area, IF first THEN 0 ELSE rest + gap, share, sideways)
        stackBox == Slice(area, IF first THEN share + gap ELSE 0, rest, sideways)
    IN
    IF masters = n THEN ArrangeLine(area, n, gap, sideways)
    ELSE ArrangeLine(masterBox, masters, gap, sideways)
            \o ArrangeLine(stackBox, n - masters, gap, sideways)

\* spiral_arrange: each window takes a share of what remains, along an axis
\* that alternates; the last window takes the rest.
RestTouching(box, size, gap, horizontal) ==  \* a mutant: the gap is forgotten
    Slice(box, size, Length(box, horizontal) - size, horizontal)
Rest(box, size, gap, horizontal) ==
    Slice(box, size + gap, Length(box, horizontal) - (size + gap), horizontal)
Sideways(i, horizontal) == horizontal = (i % 2 = 1)
Take(box, gap, ratio, horizontal) ==
    Share(Length(box, horizontal) - gap, ratio)
Remaining(area, n, gap, ratio, horizontal) ==  \* for windows i .. n
    LET remaining[i \in 1 .. n] ==
            IF i = 1 THEN area
            ELSE LET box == remaining[i - 1]
                     h == Sideways(i - 1, horizontal)
                 IN  Rest(box, Take(box, gap, ratio, h), gap, h)
    IN  remaining
Spiral(area, n, gap, ratio, horizontal) ==
    LET remaining == Remaining(area, n, gap, ratio, horizontal) IN
    [i \in 1 .. n |->
        LET h == Sideways(i, horizontal) IN
        IF i = n THEN remaining[i]
        ELSE Slice(remaining[i], 0, Take(remaining[i], gap, ratio, h), h)]

\* (int)ceil(sqrt(n))
CeilSqrt(n) == CHOOSE c \in 0 .. n : c * c >= n /\ \A d \in 0 .. c - 1 : d * d < n

\* grid_arrange: rows of equal height; the last one may hold fewer windows.
Grid(area, n, gap, columns) ==
    LET wanted == IF columns > 0 THEN columns ELSE CeilSqrt(n)
        across == IF wanted > n THEN n ELSE wanted
        rows == (n + across - 1) \div across
        Row(i) == (i - 1) \div across + 1
        InRow(row) == IF row = rows THEN n - (rows - 1) * across ELSE across
        box == ArrangeLine(area, rows, gap, TRUE)
    IN  [i \in 1 .. n |->
            ArrangeLine(box[Row(i)], InRow(Row(i)), gap, FALSE)
                [i - (Row(i) - 1) * across]]
=============================================================================
