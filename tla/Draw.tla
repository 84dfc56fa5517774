------------------------------ MODULE Draw ------------------------------
(***************************************************************************)
(* The drawing library (drawlib.c): each shape as the sequence of writes   *)
(* it makes to the canvas array, checked against geometric definitions.    *)
(* A write goes to index y * CANVAS_WIDTH + x: an x outside the row would  *)
(* land in a neighbouring row, or outside the array.                       *)
(***************************************************************************)
EXTENDS Integers, FiniteSets, Sequences, SequencesExt

CONSTANTS CANVAS_WIDTH, CANVAS_HEIGHT,
          POLYGON_MAX_POINTS,
          Shapes   \* the shapes to draw: [cmd |-> ..., a |-> arguments]

VARIABLES shape,   \* the shape to be drawn
          canvas   \* <<the indexes it has written>>, or <<>> before

vars == <<shape, canvas>>

abs_int(v) == IF v < 0 THEN -v ELSE v
\* C division truncates towards zero.
Quot(n, d) == LET q == abs_int(n) \div abs_int(d) IN IF (n < 0) = (d < 0) THEN q ELSE -q
At(x, y) == y * CANVAS_WIDTH + x
Larger(a, b) == IF a < b THEN b ELSE a
Smaller(a, b) == IF a < b THEN a ELSE b

canvas_clear == 0..(CANVAS_WIDTH * CANVAS_HEIGHT - 1)
canvas_pixel(x, y) == IF x < 0 \/ x >= CANVAS_WIDTH \/ y < 0 \/ y >= CANVAS_HEIGHT THEN {} ELSE {At(x, y)}

draw_hline(y, x0, x1) ==
  LET left == Smaller(x0, x1)
      right == Larger(x0, x1)
  IN  IF y < 0 \/ y >= CANVAS_HEIGHT \/ right < 0 \/ left >= CANVAS_WIDTH THEN {}
      ELSE {At(x, y) : x \in Larger(left, 0)..Smaller(right, CANVAS_WIDTH - 1)}

\* canvas_line: the pixels Bresenham's loop visits from p with error err; d holds
\* dx and dy, s the directions sx and sy.
RECURSIVE Steps(_, _, _, _, _)
Steps(p, q, d, s, err) ==
  LET right == 2 * err >= d[2]
      down == 2 * err <= d[1]
  IN  {p} \cup IF p = q THEN {}
               ELSE Steps(<<p[1] + (IF right THEN s[1] ELSE 0), p[2] + (IF down THEN s[2] ELSE 0)>>, q, d, s,
                          err + (IF right THEN d[2] ELSE 0) + (IF down THEN d[1] ELSE 0))
canvas_line(x1, y1, x2, y2) ==
  LET dx == abs_int(x2 - x1)
      dy == -abs_int(y2 - y1)
      s == <<IF x1 < x2 THEN 1 ELSE -1, IF y1 < y2 THEN 1 ELSE -1>>
  IN  UNION {canvas_pixel(p[1], p[2]) : p \in Steps(<<x1, y1>>, <<x2, y2>>, <<dx, dy>>, s, dx + dy)}

canvas_rect(x, y, w, h) ==
  IF w <= 0 \/ h <= 0 THEN {}
  ELSE canvas_line(x, y, x + w - 1, y) \cup canvas_line(x, y, x, y + h - 1)
         \cup canvas_line(x + w - 1, y, x + w - 1, y + h - 1) \cup canvas_line(x, y + h - 1, x + w - 1, y + h - 1)
canvas_fillrect(x, y, w, h) ==
  IF w <= 0 \/ h <= 0 THEN {} ELSE UNION {draw_hline(y + row, x, x + w - 1) : row \in 0..(h - 1)}

\* The offsets <<cx, cy>> the loop of both circle routines goes through.
RECURSIVE Octant(_, _, _)
Octant(cx, cy, err) ==
  IF cx < cy THEN {}
  ELSE {<<cx, cy>>} \cup IF err < 0 THEN Octant(cx, cy + 1, err + 2 * (cy + 1) + 1)
                         ELSE Octant(cx - 1, cy + 1, err + 2 * (cy + 1 - (cx - 1)) + 1)
Mirrored(o) == {o, <<o[2], o[1]>>}
canvas_circle(x, y, r) ==
  UNION {UNION {canvas_pixel(x + m[1], y + m[2]) \cup canvas_pixel(x - m[1], y + m[2])
                  \cup canvas_pixel(x - m[1], y - m[2]) \cup canvas_pixel(x + m[1], y - m[2])
                : m \in Mirrored(o)} : o \in IF r < 0 THEN {} ELSE Octant(r, 0, 1 - r)}
canvas_fillcircle(x, y, r) ==
  UNION {UNION {draw_hline(y + m[2], x - m[1], x + m[1]) \cup draw_hline(y - m[2], x - m[1], x + m[1])
                : m \in Mirrored(o)} : o \in IF r < 0 THEN {} ELSE Octant(r, 0, 1 - r)}

\* The largest v with v * v * scale <= inside: the while loops of the ellipses.
RECURSIVE Reach(_, _, _)
Reach(v, scale, inside) == IF v * v * scale <= inside THEN Reach(v + 1, scale, inside) ELSE v - 1
canvas_ellipse(x, y, rx, ry) ==
  LET py(px) == Reach(0, rx * rx, ry * ry * (rx * rx - px * px))
  IN  IF rx < 0 \/ ry < 0 THEN {}
      ELSE IF rx = 0 THEN UNION {canvas_pixel(x, y + p) : p \in -ry..ry}
      ELSE UNION {canvas_pixel(x + px, y + py(px)) \cup canvas_pixel(x + px, y - py(px)) : px \in -rx..rx}
canvas_fillellipse(x, y, rx, ry) ==
  LET px(py) == Reach(0, ry * ry, rx * rx * (ry * ry - py * py))
  IN  IF rx < 0 \/ ry < 0 THEN {}
      ELSE IF rx = 0 THEN UNION {canvas_pixel(x, y + p) : p \in -ry..ry}
      ELSE IF ry = 0 THEN draw_hline(y, x - rx, x + rx)
      ELSE UNION {draw_hline(y + py, x - px(py), x + px(py)) : py \in -ry..ry}

\* Triangles and polygons are sequences of points.
canvas_polygon(ps) ==
  IF Len(ps) < 2 THEN {}
  ELSE UNION {LET q == ps[(i % Len(ps)) + 1] IN canvas_line(ps[i][1], ps[i][2], q[1], q[2]) : i \in DOMAIN ps}
canvas_triangle(ps) == canvas_polygon(ps)
edge_function(a, b, p) == (p[1] - a[1]) * (b[2] - a[2]) - (p[2] - a[2]) * (b[1] - a[1])
Inside(ps, p) ==
  LET area == edge_function(ps[1], ps[2], ps[3])
      w == <<edge_function(ps[2], ps[3], p), edge_function(ps[3], ps[1], p), edge_function(ps[1], ps[2], p)>>
  IN  \A i \in 1..3 : IF area > 0 THEN w[i] >= 0 ELSE w[i] <= 0
Bound(ps, i, limit) ==
  LET vs == {ps[k][i] : k \in DOMAIN ps} IN Larger(Min(vs), 0)..Smaller(Max(vs), limit - 1)
Flat(ps) == edge_function(ps[1], ps[2], ps[3]) = 0
canvas_filltriangle(ps) ==
  IF Flat(ps) THEN canvas_triangle(ps)
  ELSE UNION {canvas_pixel(x, y) : <<x, y>> \in
         {p \in Bound(ps, 1, CANVAS_WIDTH) \X Bound(ps, 2, CANVAS_HEIGHT) : Inside(ps, p)}}

\* canvas_fillpolygon: where row y meets the edges, in order.  An edge counts
\* its upper end and not its lower one.  Mutant: it counts both.
Meets_both(y, y0, y1) == (y >= y0 /\ y <= y1) \/ (y >= y1 /\ y <= y0)
Meets(y, y0, y1) == (y >= y0 /\ y < y1) \/ (y >= y1 /\ y < y0)
Edges(ps, y) == {i \in DOMAIN ps : LET q == ps[(i % Len(ps)) + 1] IN ps[i][2] # q[2] /\ Meets(y, ps[i][2], q[2])}
Hit(ps, i, y) == LET q == ps[(i % Len(ps)) + 1]
                 IN  ps[i][1] + Quot((y - ps[i][2]) * (q[1] - ps[i][1]), q[2] - ps[i][2])
sort_ints(values) == SortSeq(values, <)
canvas_fillpolygon(ps) ==
  LET hits(y) == sort_ints([k \in DOMAIN SetToSeq(Edges(ps, y)) |-> Hit(ps, SetToSeq(Edges(ps, y))[k], y)])
      row(y) == LET h == hits(y)
                IN UNION {draw_hline(y, h[i], h[i + 1]) : i \in {k \in 1..(Len(h) - 1) : k % 2 = 1}}
  IN  IF Len(ps) < 3 \/ Len(ps) > POLYGON_MAX_POINTS THEN {}
      ELSE UNION {row(y) : y \in Bound(ps, 2, CANVAS_HEIGHT)}

Corners(a) == [k \in 1..(Len(a) \div 2) |-> <<a[2 * k - 1], a[2 * k]>>]
Painted(c, a) ==
  CASE c = "CLEAR" -> canvas_clear
    [] c = "PIXEL" -> canvas_pixel(a[1], a[2])
    [] c = "LINE" -> canvas_line(a[1], a[2], a[3], a[4])
    [] c = "RECT" -> canvas_rect(a[1], a[2], a[3], a[4])
    [] c = "FILLRECT" -> canvas_fillrect(a[1], a[2], a[3], a[4])
    [] c = "CIRCLE" -> canvas_circle(a[1], a[2], a[3])
    [] c = "FILLCIRCLE" -> canvas_fillcircle(a[1], a[2], a[3])
    [] c = "ELLIPSE" -> canvas_ellipse(a[1], a[2], a[3], a[4])
    [] c = "FILLELLIPSE" -> canvas_fillellipse(a[1], a[2], a[3], a[4])
    [] c = "POLYGON" -> canvas_polygon(Corners(a))
    [] c = "TRIANGLE" -> canvas_triangle(Corners(a))
    [] c = "FILLTRIANGLE" -> canvas_filltriangle(Corners(a))
    [] c = "FILLPOLYGON" -> canvas_fillpolygon(Corners(a))

Init == shape \in Shapes /\ canvas = <<>>
Draws == canvas = <<>> /\ canvas' = <<Painted(shape.cmd, shape.a)>> /\ UNCHANGED shape
Next == Draws

(******************************* properties ********************************)

Plane == (0..(CANVAS_WIDTH - 1)) \X (0..(CANVAS_HEIGHT - 1))
Between(u, v, w) == Smaller(u, v) <= w /\ w <= Larger(u, v)
InBox(x0, y0, x1, y1, p) == x0 <= p[1] /\ p[1] <= x1 /\ y0 <= p[2] /\ p[2] <= y1
\* Along its longer axis a line is never more than half a pixel off; strictly
\* less singles out one pixel.
Length(a, b) == Larger(abs_int(b[1] - a[1]), abs_int(b[2] - a[2]))
OffLine(a, b, p) == 2 * abs_int((p[1] - a[1]) * (b[2] - a[2]) - (p[2] - a[2]) * (b[1] - a[1]))
MayLine(a, b, p) ==
  Between(a[1], b[1], p[1]) /\ Between(a[2], b[2], p[2]) /\ OffLine(a, b, p) <= Length(a, b)
MustLine(a, b, p) == p \in {a, b} \/ (MayLine(a, b, p) /\ OffLine(a, b, p) < Length(a, b))
Dist2(a, p) == (p[1] - a[1]) * (p[1] - a[1]) + (p[2] - a[2]) * (p[2] - a[2])
InEllipse(a, p) ==
  LET dx == p[1] - a[1]
      dy == p[2] - a[2]
  IN  InBox(-a[3], -a[4], a[3], a[4], <<dx, dy>>)
        /\ dx * dx * a[4] * a[4] + dy * dy * a[3] * a[3] <= a[3] * a[3] * a[4] * a[4]
\* Positive when row y crosses edge i left of x, negative when right of it.
Side(ps, i, x, y) ==
  LET q == ps[(i % Len(ps)) + 1]
      d == q[2] - ps[i][2]
  IN  ((x - ps[i][1]) * d - (y - ps[i][2]) * (q[1] - ps[i][1])) * (IF d > 0 THEN 1 ELSE -1)
Crossed(ps, y) ==
  {i \in DOMAIN ps : LET z == ps[(i % Len(ps)) + 1][2] IN Smaller(ps[i][2], z) <= y /\ y < Larger(ps[i][2], z)}
Sides(ps, L(_, _)) == \E i \in DOMAIN ps : L(ps[i], ps[(i % Len(ps)) + 1])

\* The pixels a shape has to paint, and those it may.
RECURSIVE Must(_, _, _), May(_, _, _)
Must(c, a, p) ==
  CASE c = "CLEAR" -> TRUE
    [] c = "PIXEL" -> p = <<a[1], a[2]>>
    [] c = "LINE" -> MustLine(<<a[1], a[2]>>, <<a[3], a[4]>>, p)
    [] c = "RECT" -> InBox(a[1], a[2], a[1] + a[3] - 1, a[2] + a[4] - 1, p)
                       /\ (p[1] \in {a[1], a[1] + a[3] - 1} \/ p[2] \in {a[2], a[2] + a[4] - 1})
    [] c = "FILLRECT" -> InBox(a[1], a[2], a[1] + a[3] - 1, a[2] + a[4] - 1, p)
    [] c = "CIRCLE" -> a[3] >= 0 /\ Dist2(a, p) = a[3] * a[3] /\ a[3] \in {abs_int(p[1] - a[1]), abs_int(p[2] - a[2])}
    [] c = "FILLCIRCLE" -> a[3] >= 0 /\ Dist2(a, p) <= a[3] * a[3] - a[3]
    [] c = "ELLIPSE" -> InEllipse(a, p) /\ (a[3] = 0 \/ ~InEllipse(a, <<p[1], p[2] + 1>>) \/ ~InEllipse(a, <<p[1], p[2] - 1>>))
    [] c = "FILLELLIPSE" -> InEllipse(a, p)
    [] c \in {"POLYGON", "TRIANGLE"} -> Sides(Corners(a), LAMBDA u, v : MustLine(u, v, p))
    [] c = "FILLTRIANGLE" -> IF Flat(Corners(a)) THEN Must("POLYGON", a, p) ELSE Inside(Corners(a), p)
    [] c = "FILLPOLYGON" ->
         /\ \A i \in Crossed(Corners(a), p[2]) : Side(Corners(a), i, p[1], p[2]) # 0
         /\ Cardinality({i \in Crossed(Corners(a), p[2]) : Side(Corners(a), i, p[1], p[2]) > 0}) % 2 = 1
May(c, a, p) ==
  CASE c = "LINE" -> MayLine(<<a[1], a[2]>>, <<a[3], a[4]>>, p)
    [] c = "CIRCLE" -> a[3] >= 0 /\ abs_int(Dist2(a, p) - a[3] * a[3]) <= a[3]
    [] c = "FILLCIRCLE" -> a[3] >= 0 /\ Dist2(a, p) <= a[3] * a[3] + a[3]
    [] c \in {"POLYGON", "TRIANGLE"} -> Sides(Corners(a), LAMBDA u, v : MayLine(u, v, p))
    [] c = "FILLTRIANGLE" /\ Flat(Corners(a)) -> May("POLYGON", a, p)
    [] c = "FILLPOLYGON" ->
         /\ \E i \in Crossed(Corners(a), p[2]) : Side(Corners(a), i, p[1] + 1, p[2]) > 0
         /\ \E i \in Crossed(Corners(a), p[2]) : Side(Corners(a), i, p[1] - 1, p[2]) < 0
    [] OTHER -> Must(c, a, p)

\* Every shape, wherever it lies and however much of it is off the canvas, paints
\* the pixels its geometry demands and none it forbids: clipping loses nothing
\* and no write wraps into another row or leaves the array.
Rasterised ==
  canvas # <<>> =>
    /\ canvas[1] \subseteq {At(p[1], p[2]) : p \in {q \in Plane : May(shape.cmd, shape.a, q)}}
    /\ {At(p[1], p[2]) : p \in {q \in Plane : Must(shape.cmd, shape.a, q)}} \subseteq canvas[1]
=============================================================================
