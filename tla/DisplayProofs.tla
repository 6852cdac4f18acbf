--------------------------- MODULE DisplayProofs ----------------------------
(***************************************************************************)
(* The console, the framebuffer and virtio-gpu, for screens, glyphs and    *)
(* tab stops of any size and texts of any length: what each drawing        *)
(* operation does to the two buffers and to the window of cells, the       *)
(* inductive invariant, that the screen shows what was painted, and that   *)
(* the pixels implement the terminal.                                      *)
(***************************************************************************)
EXTENDS Display, WellFoundedInduction, TLAPS

(* ------------------------------ loops ----------------------------------- *)
\* Induction on the turns of a loop.
LEMMA Turns ==
  ASSUME NEW n \in Nat, NEW A, 0 \in A,
         \A k \in 1 .. n : k - 1 \in A => k \in A
  PROVE  \A k \in 0 .. n : k \in A
<1> DEFINE S == {k \in 0 .. n : k \notin A}
<1>1. SUFFICES ASSUME S # {} PROVE FALSE
  BY Zenon
<1>2. S \in SUBSET Nat
  OBVIOUS
<1>3. PICK m \in S : \A k \in S : ~(<<k, m>> \in OpToRel(<, Nat))
  <2>. HIDE DEF S
  <2>. QED
    BY Zenon, <1>1, <1>2, NatLessThanWellFounded, WFMin
<1>4. \A k \in S : ~(k < m)
  <2>. HIDE DEF S
  <2>. QED
    BY Zenon, <1>2, <1>3 DEF OpToRel
<1>5. m \in 0 .. n /\ m \notin A
  BY Zenon
<1>6. m \in 1 .. n /\ m - 1 \in 0 .. n /\ m - 1 < m
  BY <1>5
<1>7. m - 1 \in A
  BY Zenon, <1>4, <1>6
<1>. QED
  BY Zenon, <1>5, <1>6, <1>7

IsRun(f, n, S, r, step) ==
  /\ f \in [0 .. n -> S] /\ f[0] = r
  /\ \A k \in 1 .. n : f[k] = step[<<k, f[k - 1]>>]

\* A loop of n turns whose body stays in S has a run.
LEMMA Loop ==
  ASSUME NEW n \in Nat, NEW S, NEW r \in S, NEW step \in [(1 .. n) \X S -> S]
  PROVE  \E f : IsRun(f, n, S, r, step)
<1> DEFINE Run(f, m) == /\ f \in [0 .. m -> S]
                        /\ f[0] = r
                        /\ \A k \in 1 .. m : f[k] = step[<<k, f[k - 1]>>]
           A == {m \in 0 .. n : \E f : Run(f, m)}
<1>1. 0 \in A
  <2>1. Run([k \in 0 .. 0 |-> r], 0)
    OBVIOUS
  <2>2. 0 \in 0 .. n
    OBVIOUS
  <2>. QED
    BY Zenon, <2>1, <2>2
<1>2. ASSUME NEW m \in 1 .. n, m - 1 \in A
      PROVE  m \in A
  <2>1. PICK g : Run(g, m - 1)
    BY Zenon, <1>2
  <2> DEFINE h == [k \in 0 .. m |-> IF k = m THEN step[<<m, g[m - 1]>>] ELSE g[k]]
  <2>2. \A k \in 0 .. m - 1 : k \in 0 .. m /\ k # m /\ g[k] \in S /\ h[k] = g[k]
    BY <2>1
  <2>3. m - 1 \in 0 .. m - 1 /\ m \in 0 .. m /\ 0 \in 0 .. m - 1 /\ m \in 0 .. n
    OBVIOUS
  <2>4. h[m] = step[<<m, g[m - 1]>>] /\ h[m] \in S
    <3>1. <<m, g[m - 1]>> \in (1 .. n) \X S
      BY Zenon, <2>2, <2>3
    <3>. QED
      BY Zenon, <2>3, <3>1
  <2>5. h \in [0 .. m -> S]
    <3>1. \A k \in 0 .. m : k # m => k \in 0 .. m - 1
      OBVIOUS
    <3>. QED
      BY Zenon, <2>2, <2>4, <3>1
  <2>6. h[0] = r
    BY Zenon, <2>1, <2>2, <2>3
  <2>7. ASSUME NEW k \in 1 .. m PROVE h[k] = step[<<k, h[k - 1]>>]
    <3>1. CASE k = m
      BY Zenon, <2>2, <2>3, <2>4, <3>1
    <3>2. CASE k # m
      <4>1. k \in 1 .. m - 1 /\ k \in 0 .. m - 1 /\ k - 1 \in 0 .. m - 1
        BY <3>2
      <4>. HIDE DEF h
      <4>. QED
        BY Zenon, <2>1, <2>2, <4>1
    <3>. QED
      BY Zenon, <3>1, <3>2
  <2>8. Run(h, m)
    <3>. HIDE DEF h
    <3>. QED
      BY Zenon, <2>5, <2>6, <2>7
  <2>. QED
    BY Zenon, <2>3, <2>8
<1>3. n \in A
  <2>1. n \in 0 .. n
    OBVIOUS
  <2>. HIDE DEF A
  <2>. QED
    BY Zenon, <1>1, <1>2, <2>1, Turns
<1>. QED
  BY Zenon, <1>3 DEF IsRun

(* ------------------------------ rectangles ------------------------------ *)
Colour == STRING \cup {Image, BG, BarColor, Border, Off}
Buffer == [Pixel -> Colour]
Area == [any : BOOLEAN, x0 : Nat, y0 : Nat, x1 : Nat, y1 : Nat]
Frame == [back : Buffer, present_buf : Buffer, dirty : Area, ready_dirty : Area,
          frame_ready : BOOLEAN]

\* The colours the code paints with.
LEMMA Colours ==
  /\ STRING \subseteq Colour /\ Image \in Colour
  /\ BG \in Colour /\ BarColor \in Colour /\ Border \in Colour /\ Off \in Colour
BY Zenon DEF Colour

\* Pixel p lies in the w by h pixels from (x, y).
Within(p, x, y, w, h) == x <= p[1] /\ p[1] < x + w /\ y <= p[2] /\ p[2] < y + h

\* Products of naturals are naturals.
LEMMA Times ==
  ASSUME NEW a \in Nat, NEW b \in Nat
  PROVE  a * b \in Nat
OBVIOUS

\* The window and the bar under it fit the screen.
LEMMA Sizes ==
  /\ Width \in Nat \ {0} /\ Height \in Nat \ {0}
  /\ GlyphW \in Nat \ {0} /\ GlyphH \in Nat \ {0} /\ TabStop \in Nat \ {0}
  /\ Cols \in Nat /\ Cols >= 1 /\ Cols * GlyphW <= Width
  /\ Rows \in Nat /\ Rows >= 2
  /\ BarY \in Nat /\ BarY + 2 * GlyphH <= Height /\ GlyphH < BarY
  /\ Inset \in Nat /\ IdxWrap \in Nat \ {0}
<1>1. /\ Width \in Nat \ {0} /\ Height \in Nat \ {0} /\ IdxWrap \in Nat \ {0}
      /\ GlyphW \in Nat \ {0} /\ GlyphH \in Nat \ {0} /\ TabStop \in Nat \ {0}
      /\ Cols >= 1 /\ Rows >= 2 /\ Inset \in Nat
  BY ScreenAssumption
<1>2. ASSUME NEW x \in Nat, NEW t \in Nat \ {0}
      PROVE  x \div t \in Nat /\ (x \div t) * t <= x
  OBVIOUS
<1>3. Cols \in Nat /\ Cols * GlyphW <= Width
  BY Zenon, <1>1, <1>2 DEF Cols
<1> DEFINE q == Height \div GlyphH
<1>4. q \in Nat /\ q * GlyphH <= Height
  BY Zenon, <1>1, <1>2
<1>5. Rows = IF q >= 2 THEN q - 2 ELSE 0
  BY Zenon DEF Rows
<1>. HIDE DEF q
<1>6. Rows \in Nat /\ q = Rows + 2
  BY <1>1, <1>4, <1>5
<1>7. (Rows + 2) * GlyphH <= Height
  BY Zenon, <1>4, <1>6
<1>8. ASSUME NEW r \in Nat, NEW g \in Nat \ {0}, r >= 2
      PROVE  /\ r * g \in Nat /\ (r + 2) * g = r * g + 2 * g
             /\ g < r * g
  <2>1. r * g \in Nat
    OBVIOUS
  <2>2. (r + 2) * g = r * g + 2 * g
    OBVIOUS
  <2>3. r * g = (r - 2) * g + 2 * g
    OBVIOUS
  <2>4. (r - 2) * g \in Nat
    <3>1. r - 2 \in Nat
      BY <1>8
    <3>. QED
      BY <3>1, Times
  <2>. QED
    BY <2>1, <2>2, <2>3, <2>4
<1>9. /\ Rows * GlyphH \in Nat /\ (Rows + 2) * GlyphH = Rows * GlyphH + 2 * GlyphH
      /\ GlyphH < Rows * GlyphH
  BY Zenon, <1>1, <1>6, <1>8
<1>. QED
  BY <1>1, <1>3, <1>6, <1>7, <1>9 DEF BarY

\* A pixel is a pair of coordinates on the screen.
LEMMA PixelFacts ==
  /\ \A p \in Pixel : /\ p = <<p[1], p[2]>>
                      /\ p[1] \in Nat /\ p[1] < Width
                      /\ p[2] \in Nat /\ p[2] < Height
  /\ \A a, b \in Nat : a < Width /\ b < Height => <<a, b>> \in Pixel
<1>1. Width \in Nat /\ Height \in Nat
  BY Sizes
<1>. QED
  BY <1>1 DEF Pixel

\* Clipping to the screen loses no pixel.
LEMMA Clipping ==
  ASSUME NEW x \in Nat, NEW y \in Nat, NEW w \in Nat, NEW h \in Nat
  PROVE  LET r == Clipped(x, y, w, h)
         IN  /\ r \in Area /\ r.any
             /\ \A p \in Pixel : p \in Inside(r) <=> Within(p, x, y, w, h)
             /\ IF r.x0 >= r.x1 \/ r.y0 >= r.y1 THEN Inside(r) = {} ELSE Rect(r)
<1> DEFINE r == Clipped(x, y, w, h)
<1>1. Width \in Nat /\ Height \in Nat
  BY Sizes
<1>2. /\ r \in Area /\ r.any
      /\ r.x0 = (IF x < Width THEN x ELSE Width)
      /\ r.y0 = (IF y < Height THEN y ELSE Height)
      /\ r.x1 = (IF x + w < Width THEN x + w ELSE Width)
      /\ r.y1 = (IF y + h < Height THEN y + h ELSE Height)
  BY <1>1 DEF Clipped, Area, Smaller
<1>. HIDE DEF r
<1>3. ASSUME NEW p \in Pixel PROVE p \in Inside(r) <=> Within(p, x, y, w, h)
  <2>1. p[1] \in Nat /\ p[1] < Width /\ p[2] \in Nat /\ p[2] < Height
    BY Zenon, PixelFacts
  <2>2. p \in Inside(r) <=> (r.x0 <= p[1] /\ p[1] < r.x1 /\ r.y0 <= p[2] /\ p[2] < r.y1)
    BY Zenon DEF Inside
  <2>. QED
    BY <1>1, <1>2, <2>1, <2>2 DEF Within
<1>4. CASE r.x0 >= r.x1 \/ r.y0 >= r.y1
  <2>1. ASSUME NEW p \in Inside(r) PROVE FALSE
    <3>1. p \in Pixel /\ r.x0 <= p[1] /\ p[1] < r.x1 /\ r.y0 <= p[2] /\ p[2] < r.y1
      BY Zenon DEF Inside
    <3>2. p[1] \in Nat /\ p[2] \in Nat
      BY Zenon, <3>1, PixelFacts
    <3>3. r.x0 \in Nat /\ r.x1 \in Nat /\ r.y0 \in Nat /\ r.y1 \in Nat
      BY Zenon, <1>2 DEF Area
    <3>. QED
      BY <1>4, <3>1, <3>2, <3>3
  <2>. QED
    BY Zenon, <1>2, <1>3, <1>4, <2>1 DEF r
<1>5. CASE ~(r.x0 >= r.x1 \/ r.y0 >= r.y1)
  <2>1. Rect(r)
    BY <1>1, <1>2, <1>5 DEF Rect
  <2>. QED
    BY Zenon, <1>2, <1>3, <1>5, <2>1 DEF r
<1>. QED
  BY Zenon, <1>4, <1>5

\* The joint rectangle is on the screen and covers both.
LEMMA Joining ==
  ASSUME NEW d \in Area, NEW r \in Area, d.any, r.any, Rect(d), Rect(r)
  PROVE  /\ Joined(d, r) \in Area /\ Joined(d, r).any /\ Rect(Joined(d, r))
         /\ Inside(d) \subseteq Inside(Joined(d, r))
         /\ Inside(r) \subseteq Inside(Joined(d, r))
<1> DEFINE j == Joined(d, r)
<1>1. Width \in Nat /\ Height \in Nat
  BY Sizes
<1>2. /\ d.x0 \in Nat /\ d.x1 \in Nat /\ d.y0 \in Nat /\ d.y1 \in Nat
      /\ r.x0 \in Nat /\ r.x1 \in Nat /\ r.y0 \in Nat /\ r.y1 \in Nat
  BY Zenon DEF Area
<1>3. /\ j \in Area /\ j.any
      /\ j.x0 = (IF d.x0 < r.x0 THEN d.x0 ELSE r.x0)
      /\ j.y0 = (IF d.y0 < r.y0 THEN d.y0 ELSE r.y0)
      /\ j.x1 = (IF d.x1 > r.x1 THEN d.x1 ELSE r.x1)
      /\ j.y1 = (IF d.y1 > r.y1 THEN d.y1 ELSE r.y1)
  BY <1>2 DEF Joined, Area, Smaller, Larger
<1>. HIDE DEF j
<1>4. Rect(j)
  BY <1>1, <1>2, <1>3 DEF Rect
<1>5. ASSUME NEW p \in Pixel, p \in Inside(d) \/ p \in Inside(r)
      PROVE  p \in Inside(j)
  <2>1. p[1] \in Nat /\ p[2] \in Nat
    BY Zenon, PixelFacts
  <2>2. \/ d.x0 <= p[1] /\ p[1] < d.x1 /\ d.y0 <= p[2] /\ p[2] < d.y1
        \/ r.x0 <= p[1] /\ p[1] < r.x1 /\ r.y0 <= p[2] /\ p[2] < r.y1
    BY Zenon, <1>5 DEF Inside
  <2>3. j.x0 <= p[1] /\ p[1] < j.x1 /\ j.y0 <= p[2] /\ p[2] < j.y1
    BY <1>2, <1>3, <2>1, <2>2
  <2>. QED
    BY Zenon, <2>3 DEF Inside
<1>6. \A s : Inside(s) \subseteq Pixel
  BY Zenon DEF Inside
<1>. QED
  BY Zenon, <1>3, <1>4, <1>5, <1>6 DEF j

(* ------------------------------- painting ------------------------------- *)
\* The pixels of a dirty rectangle.
Covered(d) == IF d.any THEN Inside(d) ELSE {}

Framed(f) == f \in Frame /\ Rect(f.dirty) /\ Rect(f.ready_dirty)

\* The two buffers differ only where the frame is dirty.
Sound(f) ==
  /\ Framed(f)
  /\ \A p \in Pixel \ Covered(f.dirty) : f.back[p] = f.present_buf[p]

\* Painting f gave g: what is pending is untouched, what was dirty still is.
Drawn(f, g) ==
  /\ Framed(g)
  /\ g.present_buf = f.present_buf /\ g.ready_dirty = f.ready_dirty
  /\ g.frame_ready = f.frame_ready
  /\ Covered(f.dirty) \subseteq Covered(g.dirty)

\* What was painted is dirty.
Marked(f, g) == \A p \in Pixel : g.back[p] # f.back[p] => p \in Covered(g.dirty)

\* What painting over f0 may lead to, and shows of it.
Kept(f0, g) ==
  /\ Sound(g) /\ g.present_buf = f0.present_buf
  /\ g.ready_dirty = f0.ready_dirty /\ g.frame_ready = f0.frame_ready

\* The types of a frame's fields.
LEMMA FrameFields ==
  ASSUME NEW f \in Frame
  PROVE  /\ f.back \in Buffer /\ f.present_buf \in Buffer
         /\ f.dirty \in Area /\ f.ready_dirty \in Area /\ f.frame_ready \in BOOLEAN
BY Zenon DEF Frame

\* A drawing that marks what it changes keeps the buffers' difference dirty.
LEMMA MarkedIsSound ==
  ASSUME NEW f, NEW g, Sound(f), Drawn(f, g), Marked(f, g)
  PROVE  Sound(g)
BY Zenon DEF Sound, Drawn, Marked

\* mark_dirty_rect covers the rectangle it is given.
LEMMA MarkDirty ==
  ASSUME NEW f, Framed(f), NEW x \in Nat, NEW y \in Nat, NEW w \in Nat, NEW h \in Nat
  PROVE  LET g == mark_dirty_rect(f, x, y, w, h)
         IN  /\ Drawn(f, g) /\ g.back = f.back
             /\ \A p \in Pixel : Within(p, x, y, w, h) => p \in Covered(g.dirty)
<1> DEFINE g == mark_dirty_rect(f, x, y, w, h)
           r == Clipped(x, y, w, h)
           d == IF f.dirty.any THEN Joined(f.dirty, r) ELSE r
<1>1. /\ r \in Area /\ r.any
      /\ \A p \in Pixel : p \in Inside(r) <=> Within(p, x, y, w, h)
      /\ IF r.x0 >= r.x1 \/ r.y0 >= r.y1 THEN Inside(r) = {} ELSE Rect(r)
  BY Zenon, Clipping
<1>2. f \in Frame /\ Rect(f.dirty) /\ Rect(f.ready_dirty) /\ f.dirty \in Area
  BY Zenon, FrameFields DEF Framed
<1>3. CASE r.x0 >= r.x1 \/ r.y0 >= r.y1
  <2>1. g = f
    BY Zenon, <1>3 DEF mark_dirty_rect
  <2>. HIDE DEF g, r
  <2>2. \A p \in Pixel : ~Within(p, x, y, w, h)
    BY Zenon, <1>1, <1>3
  <2>3. Drawn(f, f)
    BY Zenon DEF Drawn
  <2>. QED
    BY Zenon, <2>1, <2>2, <2>3 DEF g
<1>4. CASE ~(r.x0 >= r.x1 \/ r.y0 >= r.y1)
  <2>1. g = [f EXCEPT !.dirty = d]
    BY Zenon, <1>4 DEF mark_dirty_rect
  <2>2. /\ d \in Area /\ d.any /\ Rect(d) /\ Inside(r) \subseteq Inside(d)
        /\ f.dirty.any => Inside(f.dirty) \subseteq Inside(d)
    <3>1. Rect(r)
      BY Zenon, <1>1, <1>4
    <3>. HIDE DEF r
    <3>2. CASE f.dirty.any
      <4>1. d = Joined(f.dirty, r)
        BY Zenon, <3>2
      <4>. HIDE DEF d
      <4>. QED
        BY Zenon, <1>1, <1>2, <3>1, <3>2, <4>1, Joining
    <3>3. CASE ~f.dirty.any
      BY Zenon, <1>1, <3>1, <3>3
    <3>. QED
      BY Zenon, <3>2, <3>3
  <2>. HIDE DEF r, d
  <2>3. /\ g \in Frame /\ g.dirty = d /\ g.back = f.back /\ g.present_buf = f.present_buf
        /\ g.ready_dirty = f.ready_dirty /\ g.frame_ready = f.frame_ready
    BY <1>2, <2>1, <2>2 DEF Frame
  <2>. HIDE DEF g
  <2>4. Covered(g.dirty) = Inside(d) /\ Covered(f.dirty) \subseteq Inside(d)
    BY Zenon, <2>2, <2>3 DEF Covered
  <2>5. Drawn(f, g)
    BY Zenon, <1>2, <2>2, <2>3, <2>4 DEF Drawn, Framed
  <2>6. \A p \in Pixel : Within(p, x, y, w, h) => p \in Covered(g.dirty)
    BY Zenon, <1>1, <2>2, <2>4
  <2>. QED
    BY Zenon, <2>3, <2>5, <2>6 DEF g
<1>. QED
  BY Zenon, <1>3, <1>4

\* Painting f gave g: the rectangle has colour rgb.
Fills(f, g, x, y, w, h, rgb) ==
  /\ Drawn(f, g) /\ Marked(f, g)
  /\ \A p \in Pixel : g.back[p] = IF Within(p, x, y, w, h) THEN rgb ELSE f.back[p]
  /\ \A p \in Pixel : Within(p, x, y, w, h) => p \in Covered(g.dirty)

\* fill_rect paints its rectangle and marks it.
LEMMA FillRect ==
  ASSUME NEW f, Framed(f), NEW rgb \in Colour,
         NEW x \in Nat, NEW y \in Nat, NEW w \in Nat, NEW h \in Nat
  PROVE  Fills(f, fill_rect(f, x, y, w, h, rgb), x, y, w, h, rgb)
<1> DEFINE r == Clipped(x, y, w, h)
           b == [p \in Pixel |-> IF p \in Inside(r) THEN rgb ELSE f.back[p]]
           e == [f EXCEPT !.back = b]
           g == mark_dirty_rect(e, x, y, w, h)
<1>1. fill_rect(f, x, y, w, h, rgb) = g
  BY Zenon DEF fill_rect
<1>2. \A p \in Pixel : p \in Inside(r) <=> Within(p, x, y, w, h)
  BY Zenon, Clipping
<1>. HIDE DEF r
<1>3. f \in Frame /\ Rect(f.dirty) /\ Rect(f.ready_dirty) /\ f.back \in [Pixel -> Colour]
  BY Zenon, FrameFields DEF Framed, Buffer
<1>4. b \in Buffer
  BY Zenon, <1>3 DEF Buffer
<1>5. \A p \in Pixel : b[p] = IF Within(p, x, y, w, h) THEN rgb ELSE f.back[p]
  BY Zenon, <1>2
<1>. HIDE DEF b
<1>6. /\ e \in Frame /\ e.back = b /\ e.dirty = f.dirty /\ e.present_buf = f.present_buf
      /\ e.ready_dirty = f.ready_dirty /\ e.frame_ready = f.frame_ready
  BY <1>3, <1>4 DEF Frame
<1>. HIDE DEF e
<1>7. Framed(e)
  BY Zenon, <1>3, <1>6 DEF Framed
<1>8. /\ Drawn(e, g) /\ g.back = e.back
      /\ \A p \in Pixel : Within(p, x, y, w, h) => p \in Covered(g.dirty)
  BY Zenon, <1>7, MarkDirty
<1>. HIDE DEF g
<1>9. Drawn(f, g)
  BY Zenon, <1>6, <1>8 DEF Drawn
<1>10. \A p \in Pixel : g.back[p] = IF Within(p, x, y, w, h) THEN rgb ELSE f.back[p]
  BY Zenon, <1>5, <1>6, <1>8
<1>11. Marked(f, g)
  BY Zenon, <1>8, <1>10 DEF Marked
<1>. QED
  BY Zenon, <1>1, <1>8, <1>9, <1>10, <1>11 DEF Fills

Blits(f, g, x, y, ch) ==
  /\ Sound(g) /\ Drawn(f, g)
  /\ \A p \in Pixel : g.back[p] = IF Within(p, x, y, GlyphW, GlyphH) THEN ch ELSE f.back[p]

\* blit_char paints one glyph and marks it.
LEMMA BlitChar ==
  ASSUME NEW f, Sound(f), NEW ch \in Colour, NEW x \in Nat, NEW y \in Nat
  PROVE  Blits(f, blit_char(f, x, y, ch), x, y, ch)
<1> DEFINE g == blit_char(f, x, y, ch)
<1> SUFFICES /\ Sound(g) /\ Drawn(f, g)
             /\ \A p \in Pixel : g.back[p] = IF Within(p, x, y, GlyphW, GlyphH) THEN ch
                                             ELSE f.back[p]
  BY Zenon DEF Blits
<1>1. GlyphW \in Nat /\ GlyphH \in Nat /\ Width \in Nat /\ Height \in Nat
  BY Zenon, Sizes
<1>2. CASE x >= Width \/ y >= Height
  <2>1. g = f
    BY Zenon, <1>2 DEF blit_char
  <2>2. ASSUME NEW p \in Pixel PROVE ~Within(p, x, y, GlyphW, GlyphH)
    <3>1. p[1] \in Nat /\ p[1] < Width /\ p[2] \in Nat /\ p[2] < Height
      BY Zenon, PixelFacts
    <3>. QED
      BY <1>1, <1>2, <3>1 DEF Within
  <2>3. Drawn(f, f)
    BY Zenon DEF Drawn, Sound
  <2>. HIDE DEF g
  <2>. QED
    BY Zenon, <2>1, <2>2, <2>3 DEF g
<1>3. CASE ~(x >= Width \/ y >= Height)
  <2> DEFINE e == fill_rect(f, x, y, GlyphW, GlyphH, ch)
  <2>1. g = e
    BY Zenon, <1>3 DEF blit_char
  <2>2. Framed(f)
    BY Zenon DEF Sound
  <2>3. /\ Drawn(f, e) /\ Marked(f, e)
        /\ \A p \in Pixel : e.back[p] = IF Within(p, x, y, GlyphW, GlyphH) THEN ch
                                        ELSE f.back[p]
    <3>1. Fills(f, e, x, y, GlyphW, GlyphH, ch)
      BY Zenon, <1>1, <2>2, FillRect
    <3>. QED
      BY Zenon, <3>1 DEF Fills
  <2>. HIDE DEF e, g
  <2>4. Sound(e)
    BY Zenon, <2>3, MarkedIsSound
  <2>. QED
    BY Zenon, <2>1, <2>3, <2>4 DEF g
<1>. QED
  BY Zenon, <1>2, <1>3

\* A scroll moves the window's pixels up one line of text, blanks the last one
\* and leaves the bar alone; all that moved is dirty.
LEMMA Scroll ==
  ASSUME NEW f, Sound(f)
  PROVE  LET g == scroll_up_bounded(f, BarY, GlyphH)
         IN  /\ Sound(g) /\ Drawn(f, g)
             /\ \A p \in Pixel :
                  g.back[p] = IF p[2] < BarY - GlyphH THEN f.back[<<p[1], p[2] + GlyphH>>]
                              ELSE IF p[2] < BarY THEN BG ELSE f.back[p]
<1> DEFINE b == Scrolled(f.back, BarY, GlyphH)
           up == [f EXCEPT !.back = b]
           e == fill_rect(up, 0, BarY - GlyphH, Width, GlyphH, BG)
           g == mark_dirty_rect(e, 0, 0, Width, BarY)
<1>1. /\ BarY \in Nat /\ GlyphH \in Nat /\ Width \in Nat /\ Height \in Nat /\ 0 \in Nat
      /\ BarY - GlyphH \in Nat /\ GlyphH # 0 /\ BarY < Height
      /\ ~(GlyphH = 0 \/ GlyphH >= BarY)
  BY Sizes
<1>2. scroll_up_bounded(f, BarY, GlyphH) = g
  BY Zenon, <1>1 DEF scroll_up_bounded, Smaller
<1>3. f \in Frame /\ Framed(f) /\ f.back \in [Pixel -> Colour]
  BY Zenon, FrameFields DEF Sound, Framed, Buffer
<1>4. \A p \in Pixel : p[2] < BarY - GlyphH => <<p[1], p[2] + GlyphH>> \in Pixel
  <2>1. ASSUME NEW p \in Pixel, p[2] < BarY - GlyphH
        PROVE  /\ p[1] \in Nat /\ p[1] < Width
               /\ p[2] + GlyphH \in Nat /\ p[2] + GlyphH < Height
    <3>1. p[1] \in Nat /\ p[1] < Width /\ p[2] \in Nat /\ p[2] < Height
      BY Zenon, PixelFacts
    <3>. QED
      BY <1>1, <2>1, <3>1
  <2>. QED
    BY Zenon, <2>1, PixelFacts
<1>5. b \in Buffer
  BY Zenon, <1>3, <1>4 DEF Scrolled, Buffer
<1>6. \A p \in Pixel : b[p] = IF p[2] < BarY - GlyphH THEN f.back[<<p[1], p[2] + GlyphH>>]
                              ELSE f.back[p]
  BY Zenon DEF Scrolled
<1>. HIDE DEF b
<1>7. /\ up \in Frame /\ up.back = b /\ up.dirty = f.dirty /\ up.present_buf = f.present_buf
      /\ up.ready_dirty = f.ready_dirty /\ up.frame_ready = f.frame_ready
  BY <1>3, <1>5 DEF Frame
<1>. HIDE DEF up
<1>8. Framed(up) /\ Drawn(f, up)
  BY Zenon, <1>3, <1>7 DEF Framed, Drawn
<1>9. /\ Drawn(up, e)
      /\ \A p \in Pixel : e.back[p] = IF Within(p, 0, BarY - GlyphH, Width, GlyphH) THEN BG
                                      ELSE b[p]
  <2>1. Fills(up, e, 0, BarY - GlyphH, Width, GlyphH, BG)
    BY Zenon, <1>1, <1>8, FillRect, Colours
  <2>. QED
    BY Zenon, <1>7, <2>1 DEF Fills
<1>. HIDE DEF e
<1>10. Framed(e)
  BY Zenon, <1>9 DEF Drawn
<1>11. /\ Drawn(e, g) /\ g.back = e.back
       /\ \A p \in Pixel : Within(p, 0, 0, Width, BarY) => p \in Covered(g.dirty)
  BY Zenon, <1>1, <1>10, MarkDirty
<1>. HIDE DEF g
<1>12. ASSUME NEW p \in Pixel
       PROVE  /\ Within(p, 0, BarY - GlyphH, Width, GlyphH)
                   <=> ~(p[2] < BarY - GlyphH) /\ p[2] < BarY
              /\ p[2] < BarY => Within(p, 0, 0, Width, BarY)
              /\ p[2] < BarY - GlyphH => p[2] < BarY
  <2>1. p[1] \in Nat /\ p[1] < Width /\ p[2] \in Nat /\ p[2] < Height
    BY Zenon, PixelFacts
  <2>. QED
    BY <1>1, <2>1 DEF Within
<1>13. \A p \in Pixel :
         g.back[p] = IF p[2] < BarY - GlyphH THEN f.back[<<p[1], p[2] + GlyphH>>]
                     ELSE IF p[2] < BarY THEN BG ELSE f.back[p]
  <2>1. ASSUME NEW p \in Pixel
        PROVE  g.back[p] = IF p[2] < BarY - GlyphH THEN f.back[<<p[1], p[2] + GlyphH>>]
                           ELSE IF p[2] < BarY THEN BG ELSE f.back[p]
    <3>1. g.back[p] = IF Within(p, 0, BarY - GlyphH, Width, GlyphH) THEN BG ELSE b[p]
      BY Zenon, <1>9, <1>11
    <3>2. CASE p[2] < BarY - GlyphH
      BY Zenon, <1>6, <1>12, <3>1, <3>2
    <3>3. CASE ~(p[2] < BarY - GlyphH)
      BY Zenon, <1>6, <1>12, <3>1, <3>3
    <3>. QED
      BY Zenon, <3>2, <3>3
  <2>. QED
    BY Zenon, <2>1
<1>14. Drawn(f, g)
  BY Zenon, <1>8, <1>9, <1>11 DEF Drawn
<1>15. Marked(f, g)
  BY Zenon, <1>11, <1>12, <1>13 DEF Marked
<1>16. Sound(g)
  BY Zenon, <1>14, <1>15, MarkedIsSound
<1>. QED
  BY Zenon, <1>2, <1>13, <1>14, <1>16

(* ----------------------- the window of cells ---------------------------- *)
Corner(r, c) == <<(c - 1) * GlyphW, (r - 1) * GlyphH>>
Lines(b) == [r \in 1 .. Rows |-> [c \in 1 .. Cols |-> b[Corner(r, c)]]]

\* What the console prints into, and how the terminal sees it.
Consoles == [f : Frame, cx : 0 .. Cols, cy : 0 .. Rows - 1]
View(s) == [lines |-> Lines(s.f.back), row |-> s.cy + 1, col |-> s.cx]

\* What printing to a console over f0 may reach: the bar stays as it was.
Reached(f0) ==
  {s \in Consoles : /\ Kept(f0, s.f)
                    /\ \A p \in Pixel : p[2] >= BarY => s.f.back[p] = f0.back[p]}

\* The cells lie on the screen, above the bar.
LEMMA Corners ==
  ASSUME NEW r \in 1 .. Rows, NEW c \in 1 .. Cols
  PROVE  /\ Corner(r, c) \in Pixel
         /\ Corner(r, c)[1] = (c - 1) * GlyphW /\ Corner(r, c)[2] = (r - 1) * GlyphH
         /\ (r - 1) * GlyphH \in Nat /\ (r - 1) * GlyphH + GlyphH <= BarY
<1>1. /\ GlyphW \in Nat \ {0} /\ GlyphH \in Nat \ {0} /\ Width \in Nat /\ Height \in Nat
      /\ Cols \in Nat /\ Cols * GlyphW <= Width /\ Rows \in Nat
      /\ BarY \in Nat /\ BarY + 2 * GlyphH <= Height
  BY Sizes
<1>2. ASSUME NEW n \in Nat, NEW g \in Nat \ {0}, NEW k \in 1 .. n
      PROVE  (k - 1) * g \in Nat /\ (k - 1) * g + g <= n * g
  <2>1. k - 1 \in Nat /\ n - k \in Nat
    OBVIOUS
  <2>2. (k - 1) * g \in Nat /\ (n - k) * g \in Nat
    BY Zenon, <2>1, Times
  <2>3. n * g = (k - 1) * g + g + (n - k) * g
    OBVIOUS
  <2>. QED
    BY <2>2, <2>3
<1>3. /\ (c - 1) * GlyphW \in Nat /\ (c - 1) * GlyphW + GlyphW <= Cols * GlyphW
      /\ (r - 1) * GlyphH \in Nat /\ (r - 1) * GlyphH + GlyphH <= Rows * GlyphH
  BY Zenon, <1>1, <1>2
<1> DEFINE x == (c - 1) * GlyphW
           y == (r - 1) * GlyphH
           w == Cols * GlyphW
<1>4. x \in Nat /\ x + GlyphW <= w /\ w <= Width /\ y \in Nat /\ y + GlyphH <= BarY /\ w \in Nat
  BY Zenon, <1>1, <1>3, Times DEF BarY
<1>5. Corner(r, c) = <<x, y>>
  BY Zenon DEF Corner
<1>. HIDE DEF x, y, w
<1>6. x < Width /\ y < Height
  BY <1>1, <1>4
<1>7. <<x, y>> \in Pixel
  BY Zenon, <1>4, <1>6, PixelFacts
<1>8. <<x, y>>[1] = x /\ <<x, y>>[2] = y
  OBVIOUS
<1>. QED
  BY Zenon, <1>4, <1>5, <1>7, <1>8 DEF x, y

\* The pixels of one character cell are those of no other, and none of the bar.
LEMMA OwnCell ==
  ASSUME NEW i \in 0 .. Cols - 1, NEW j \in 0 .. Rows - 1
  PROVE  /\ i * GlyphW \in Nat /\ j * GlyphH \in Nat
         /\ \A r \in 1 .. Rows, c \in 1 .. Cols :
              Within(Corner(r, c), i * GlyphW, j * GlyphH, GlyphW, GlyphH)
                <=> r = j + 1 /\ c = i + 1
         /\ \A p \in Pixel :
              Within(p, i * GlyphW, j * GlyphH, GlyphW, GlyphH) => ~(p[2] >= BarY)
<1>1. /\ GlyphW \in Nat \ {0} /\ GlyphH \in Nat \ {0} /\ Cols \in Nat /\ Rows \in Nat
      /\ BarY \in Nat
  BY Sizes
<1>2. i \in Nat /\ j \in Nat /\ j + 1 \in 1 .. Rows /\ i + 1 \in 1 .. Cols
  BY <1>1
<1>3. i * GlyphW \in Nat /\ j * GlyphH \in Nat
  BY <1>1, <1>2, Times
<1>4. ASSUME NEW a \in Int, NEW b \in Int, NEW g \in Nat \ {0}
      PROVE  (a * g <= b * g /\ b * g < a * g + g) <=> a = b
  OBVIOUS
<1>5. ASSUME NEW r \in 1 .. Rows, NEW c \in 1 .. Cols
      PROVE  Within(Corner(r, c), i * GlyphW, j * GlyphH, GlyphW, GlyphH)
               <=> r = j + 1 /\ c = i + 1
  <2>1. r - 1 \in Int /\ c - 1 \in Int /\ i \in Int /\ j \in Int
    BY <1>2
  <2>2. /\ (i * GlyphW <= (c - 1) * GlyphW /\ (c - 1) * GlyphW < i * GlyphW + GlyphW)
             <=> i = c - 1
        /\ (j * GlyphH <= (r - 1) * GlyphH /\ (r - 1) * GlyphH < j * GlyphH + GlyphH)
             <=> j = r - 1
    BY Zenon, <1>1, <1>4, <2>1
  <2>3. (i = c - 1 <=> c = i + 1) /\ (j = r - 1 <=> r = j + 1)
    BY <1>2
  <2>4. Corner(r, c)[1] = (c - 1) * GlyphW /\ Corner(r, c)[2] = (r - 1) * GlyphH
    BY Zenon, Corners
  <2>. QED
    BY Zenon, <2>2, <2>3, <2>4 DEF Within
<1>6. ASSUME NEW p \in Pixel, Within(p, i * GlyphW, j * GlyphH, GlyphW, GlyphH)
      PROVE  ~(p[2] >= BarY)
  <2>1. p[2] \in Nat
    BY Zenon, PixelFacts
  <2>2. (j + 1 - 1) * GlyphH + GlyphH <= BarY
    <3>1. \A r \in 1 .. Rows, c \in 1 .. Cols : (r - 1) * GlyphH + GlyphH <= BarY
      BY Zenon, Corners
    <3>. QED
      BY <1>2, <3>1
  <2>3. (j + 1 - 1) * GlyphH = j * GlyphH
    BY <1>2
  <2> DEFINE y == j * GlyphH
  <2>4. y \in Nat /\ p[2] < y + GlyphH /\ y + GlyphH <= BarY
    BY Zenon, <1>3, <1>6, <2>2, <2>3 DEF Within
  <2>. HIDE DEF y
  <2>. QED
    BY <1>1, <2>1, <2>4
<1>. QED
  BY Zenon, <1>3, <1>5, <1>6

\* The types of a console that a call has reached.
LEMMA ReachedFacts ==
  ASSUME NEW f0, NEW s \in Reached(f0)
  PROVE  /\ s \in Consoles /\ s.f \in Frame /\ Sound(s.f)
         /\ s.cx \in 0 .. Cols /\ s.cy \in 0 .. Rows - 1
         /\ s.cx \in Nat /\ s.cy \in Nat /\ s.cx <= Cols /\ s.cy < Rows
<1>1. s \in Consoles /\ Sound(s.f)
  BY Zenon DEF Reached, Kept
<1>2. s.f \in Frame /\ s.cx \in 0 .. Cols /\ s.cy \in 0 .. Rows - 1
  BY Zenon, <1>1 DEF Consoles
<1>3. Cols \in Nat /\ Rows \in Nat
  BY Zenon, Sizes
<1>. QED
  BY <1>1, <1>2, <1>3

\* Painting above the bar and moving the cursor stays within reach.
LEMMA StaysReached ==
  ASSUME NEW f0, NEW s \in Reached(f0), NEW g, Sound(g), Drawn(s.f, g),
         \A p \in Pixel : p[2] >= BarY => g.back[p] = s.f.back[p],
         NEW i \in 0 .. Cols, NEW j \in 0 .. Rows - 1
  PROVE  [f |-> g, cx |-> i, cy |-> j] \in Reached(f0)
<1> DEFINE t == [f |-> g, cx |-> i, cy |-> j]
<1>1. g \in Frame
  BY Zenon DEF Sound, Framed
<1>2. t \in Consoles /\ t.f = g
  BY <1>1 DEF Consoles
<1>. HIDE DEF t
<1>3. Kept(f0, s.f) /\ \A p \in Pixel : p[2] >= BarY => s.f.back[p] = f0.back[p]
  BY Zenon DEF Reached
<1>4. Kept(f0, g)
  BY Zenon, <1>3 DEF Drawn, Kept
<1>. QED
  BY Zenon, <1>2, <1>3, <1>4 DEF Reached, t

\* The window that a console shows.
LEMMA ViewOf ==
  ASSUME NEW g, NEW i, NEW j
  PROVE  View([f |-> g, cx |-> i, cy |-> j])
           = [lines |-> Lines(g.back), row |-> j + 1, col |-> i]
BY DEF View

\* The cells after a scroll.
LEMMA ScrolledLines ==
  ASSUME NEW f, Sound(f)
  PROVE  Lines(scroll_up_bounded(f, BarY, GlyphH).back) = Window!Scrolled(Lines(f.back))
<1> DEFINE g == scroll_up_bounded(f, BarY, GlyphH)
           old == f.back
           new == g.back
<1>1. \A p \in Pixel : new[p] = IF p[2] < BarY - GlyphH THEN old[<<p[1], p[2] + GlyphH>>]
                                ELSE IF p[2] < BarY THEN BG ELSE old[p]
  BY Zenon, Scroll
<1>. HIDE DEF new, old
<1>2. GlyphH \in Nat \ {0} /\ Rows \in Nat /\ Cols \in Nat /\ BarY \in Nat /\ BarY = Rows * GlyphH
  BY Zenon, Sizes DEF BarY
<1>3. ASSUME NEW r \in 1 .. Rows, NEW c \in 1 .. Cols
      PROVE  new[Corner(r, c)] = IF r < Rows THEN old[Corner(r + 1, c)] ELSE BG
  <2> DEFINE p == Corner(r, c)
             x == (c - 1) * GlyphW
             y == (r - 1) * GlyphH
  <2>1. p \in Pixel /\ p[1] = x /\ p[2] = y /\ y \in Nat /\ y + GlyphH <= BarY
    BY Zenon, Corners
  <2>2. y + GlyphH = r * GlyphH
    BY <1>2
  <2>3. CASE r < Rows
    <3>1. r + 1 \in 1 .. Rows /\ r + 1 - 1 = r
      BY <1>2, <2>3
    <3>2. r * GlyphH + GlyphH <= BarY
      <4>1. \A q \in 1 .. Rows : (q - 1) * GlyphH + GlyphH <= BarY
        BY Zenon, Corners
      <4>. QED
        BY <3>1, <4>1
    <3>3. Corner(r + 1, c) = <<x, y + GlyphH>>
      <4>1. (r + 1 - 1) * GlyphH = y + GlyphH
        BY <1>2
      <4>. QED
        BY <4>1 DEF Corner
    <3>. HIDE DEF p, x, y
    <3>4. p[2] < BarY - GlyphH
      BY <1>2, <2>1, <2>2, <3>2
    <3>. QED
      BY Zenon, <1>1, <2>1, <2>3, <3>3, <3>4 DEF p
  <2>4. CASE ~(r < Rows)
    <3>1. r = Rows
      BY <1>2, <2>4
    <3>. HIDE DEF p, x, y
    <3>2. ~(p[2] < BarY - GlyphH) /\ p[2] < BarY
      BY <1>2, <2>1, <2>2, <3>1
    <3>. QED
      BY Zenon, <1>1, <2>1, <2>4, <3>2 DEF p
  <2>. QED
    BY Zenon, <2>3, <2>4
<1>4. Window!Scrolled(Lines(old))
        = [r \in 1 .. Rows |-> IF r < Rows THEN [c \in 1 .. Cols |-> old[Corner(r + 1, c)]]
                               ELSE [c \in 1 .. Cols |-> BG]]
  <2>1. \A r \in 1 .. Rows : r < Rows => r + 1 \in 1 .. Rows
    BY <1>2
  <2>2. Window!BlankLine = [c \in 1 .. Cols |-> BG]
    BY Zenon DEF Window!BlankLine, Window!Blank, BG
  <2>3. \A r \in 1 .. Rows : r < Rows =>
           Lines(old)[r + 1] = [c \in 1 .. Cols |-> old[Corner(r + 1, c)]]
    BY Zenon, <2>1 DEF Lines
  <2>. QED
    BY Zenon, <2>2, <2>3 DEF Window!Scrolled
<1>5. \A r \in 1 .. Rows :
        [c \in 1 .. Cols |-> new[Corner(r, c)]]
          = IF r < Rows THEN [c \in 1 .. Cols |-> old[Corner(r + 1, c)]]
            ELSE [c \in 1 .. Cols |-> BG]
  BY Zenon, <1>3
<1>6. Lines(new) = [r \in 1 .. Rows |-> IF r < Rows THEN [c \in 1 .. Cols |-> old[Corner(r + 1, c)]]
                               ELSE [c \in 1 .. Cols |-> BG]]
  BY Zenon, <1>5 DEF Lines
<1>. QED
  BY Zenon, <1>4, <1>6 DEF new, old

\* The line feed of the window, by cases.
LEMMA LineFeedOf ==
  ASSUME NEW ls, NEW i \in Int, NEW j
  PROVE  Window!LineFeed([lines |-> ls, row |-> i, col |-> j])
           = IF i < Rows THEN [lines |-> ls, row |-> i + 1, col |-> 0]
             ELSE [lines |-> Window!Scrolled(ls), row |-> i, col |-> 0]
BY DEF Window!LineFeed

\* newline is the window's line feed.
LEMMA NewlineStep ==
  ASSUME NEW f0, NEW s \in Reached(f0)
  PROVE  /\ newline(s) \in Reached(f0) /\ newline(s).cx = 0
         /\ View(newline(s)) = Window!LineFeed(View(s))
<1>1. /\ s \in Consoles /\ Sound(s.f) /\ s.cy \in Nat /\ s.cy < Rows
      /\ s.cx \in 0 .. Cols
  BY Zenon, ReachedFacts
<1>2. Cols \in Nat /\ Rows \in Nat /\ Rows >= 2
  BY Zenon, Sizes
<1>3. 0 \in 0 .. Cols
  BY <1>2
<1> DEFINE L == Lines(s.f.back)
<1>4. View(s) = [lines |-> L, row |-> s.cy + 1, col |-> s.cx]
  BY Zenon DEF View
<1>. HIDE DEF L
<1>7. s.cy + 1 \in Int
  BY <1>1
<1>5. CASE s.cy + 1 < Rows
  <2>1. newline(s) = [f |-> s.f, cx |-> 0, cy |-> s.cy + 1]
    BY <1>1, <1>5 DEF newline, Consoles
  <2>2. s.cy + 1 \in 0 .. Rows - 1
    BY <1>1, <1>2, <1>5
  <2>3. Drawn(s.f, s.f)
    BY Zenon, <1>1 DEF Drawn, Sound
  <2>4. [f |-> s.f, cx |-> 0, cy |-> s.cy + 1] \in Reached(f0)
    BY Zenon, <1>1, <1>3, <2>2, <2>3, StaysReached
  <2>5. View(newline(s)) = [lines |-> L, row |-> s.cy + 1 + 1, col |-> 0]
    BY Zenon, <2>1, ViewOf DEF L
  <2>6. Window!LineFeed(View(s)) = [lines |-> L, row |-> s.cy + 1 + 1, col |-> 0]
    BY ZenonT(30), <1>4, <1>5, <1>7, LineFeedOf
  <2>7. newline(s).cx = 0
    BY <2>1
  <2>. QED
    BY Zenon, <2>1, <2>4, <2>5, <2>6, <2>7
<1>6. CASE ~(s.cy + 1 < Rows)
  <2> DEFINE g == scroll_up_bounded(s.f, BarY, GlyphH)
  <2>1. newline(s) = [f |-> g, cx |-> 0, cy |-> Rows - 1]
    BY Zenon, <1>6 DEF newline, BarY
  <2>2. Rows - 1 \in 0 .. Rows - 1 /\ s.cy = Rows - 1 /\ Rows - 1 + 1 = s.cy + 1
    BY <1>1, <1>2, <1>6
  <2>3. /\ Sound(g) /\ Drawn(s.f, g)
        /\ \A p \in Pixel :
             g.back[p] = IF p[2] < BarY - GlyphH THEN s.f.back[<<p[1], p[2] + GlyphH>>]
                         ELSE IF p[2] < BarY THEN BG ELSE s.f.back[p]
    BY Zenon, <1>1, Scroll
  <2>4. Lines(g.back) = Window!Scrolled(L)
    BY Zenon, <1>1, ScrolledLines DEF L
  <2>. HIDE DEF g
  <2>5. ASSUME NEW p \in Pixel, p[2] >= BarY PROVE g.back[p] = s.f.back[p]
    <3>1. p[2] \in Nat /\ BarY \in Nat /\ GlyphH \in Nat
      BY Zenon, PixelFacts, Sizes
    <3>2. ~(p[2] < BarY - GlyphH) /\ ~(p[2] < BarY)
      BY <2>5, <3>1
    <3>. QED
      BY Zenon, <2>3, <3>2
  <2>6. [f |-> g, cx |-> 0, cy |-> Rows - 1] \in Reached(f0)
    BY ZenonT(30), <1>3, <2>2, <2>3, <2>5, StaysReached
  <2>7. View(newline(s)) = [lines |-> Window!Scrolled(L), row |-> s.cy + 1, col |-> 0]
    BY <2>1, <2>2, <2>4, ViewOf
  <2>8. Window!LineFeed(View(s)) = [lines |-> Window!Scrolled(L), row |-> s.cy + 1, col |-> 0]
    BY Zenon, <1>4, <1>6, <1>7, LineFeedOf
  <2>9. newline(s).cx = 0
    BY <2>1
  <2>. QED
    BY Zenon, <2>1, <2>6, <2>7, <2>8, <2>9
<1>. QED
  BY Zenon, <1>5, <1>6

\* Painting f gave g: the cell in column i of line j has colour ch.
PutIn(f, g, i, j, ch) ==
  /\ Sound(g) /\ Drawn(f, g)
  /\ \A p \in Pixel : g.back[p] = IF Within(p, i * GlyphW, j * GlyphH, GlyphW, GlyphH) THEN ch
                                  ELSE f.back[p]

\* Painting one character cell changes that cell of the window and no other.
LEMMA OneCell ==
  ASSUME NEW f0, NEW s \in Reached(f0), NEW i \in 0 .. Cols - 1, NEW j \in 0 .. Rows - 1,
         NEW ch, NEW g, PutIn(s.f, g, i, j, ch)
  PROVE  /\ Lines(g.back) = [Lines(s.f.back) EXCEPT ![j + 1][i + 1] = ch]
         /\ \A k \in 0 .. Cols : [f |-> g, cx |-> k, cy |-> j] \in Reached(f0)
<1> DEFINE new == g.back
           old == s.f.back
<1>1. /\ \A r \in 1 .. Rows, c \in 1 .. Cols :
           Within(Corner(r, c), i * GlyphW, j * GlyphH, GlyphW, GlyphH)
             <=> r = j + 1 /\ c = i + 1
      /\ \A p \in Pixel :
           Within(p, i * GlyphW, j * GlyphH, GlyphW, GlyphH) => ~(p[2] >= BarY)
  BY Zenon, OwnCell
<1>2. \A p \in Pixel : p[2] >= BarY => g.back[p] = s.f.back[p]
  BY Zenon, <1>1 DEF PutIn
<1>3. \A k \in 0 .. Cols : [f |-> g, cx |-> k, cy |-> j] \in Reached(f0)
  BY Zenon, <1>2, StaysReached DEF PutIn
<1>4. \A r \in 1 .. Rows, c \in 1 .. Cols : Corner(r, c) \in Pixel
  BY Zenon, Corners
<1>5. \A r \in 1 .. Rows, c \in 1 .. Cols :
        new[Corner(r, c)] = IF r = j + 1 /\ c = i + 1 THEN ch ELSE old[Corner(r, c)]
  BY Zenon, <1>1, <1>4 DEF PutIn
<1>6. Cols \in Nat /\ Rows \in Nat
  BY Zenon, Sizes
<1>7. j + 1 \in 1 .. Rows /\ i + 1 \in 1 .. Cols
  BY <1>6
<1>. HIDE DEF new, old
<1>8. Lines(new) = [Lines(old) EXCEPT ![j + 1][i + 1] = ch]
  <2> DEFINE row(b, r) == [c \in 1 .. Cols |-> b[Corner(r, c)]]
             cells == [row(old, j + 1) EXCEPT ![i + 1] = ch]
  <2>1. cells = [c \in 1 .. Cols |-> IF c = i + 1 THEN ch ELSE old[Corner(j + 1, c)]]
    BY Zenon, <1>7
  <2>2. \A r \in 1 .. Rows : row(new, r) = IF r = j + 1 THEN cells ELSE row(old, r)
    BY Zenon, <1>5, <2>1
  <2>3. Lines(old)[j + 1] = row(old, j + 1)
    BY Zenon, <1>7 DEF Lines
  <2>4. [Lines(old) EXCEPT ![j + 1][i + 1] = ch]
          = [r \in 1 .. Rows |-> IF r = j + 1 THEN cells ELSE row(old, r)]
    <3>1. [Lines(old) EXCEPT ![j + 1][i + 1] = ch] = [Lines(old) EXCEPT ![j + 1] = cells]
      BY Zenon, <2>3
    <3>2. \A x : [Lines(old) EXCEPT ![j + 1] = x]
                   = [r \in 1 .. Rows |-> IF r = j + 1 THEN x ELSE row(old, r)]
      BY Zenon, <1>7 DEF Lines
    <3>. QED
      BY Zenon, <3>1, <3>2
  <2>5. Lines(new) = [r \in 1 .. Rows |-> row(new, r)]
    BY Zenon DEF Lines
  <2>. HIDE DEF row, cells
  <2>. QED
    BY Zenon, <2>2, <2>4, <2>5
<1>. QED
  BY Zenon, <1>3, <1>8 DEF new, old

\* The cursor went from s to t over one cell, which now shows ch.
Advanced(s, t, ch) ==
  /\ t.cx = s.cx + 1 /\ t.cy = s.cy
  /\ Lines(t.f.back) = [Lines(s.f.back) EXCEPT ![s.cy + 1][s.cx + 1] = ch]

\* put_glyph is the window's glyph.
LEMMA GlyphStep ==
  ASSUME NEW f0, NEW s \in Reached(f0), NEW ch \in Colour
  PROVE  /\ put_glyph(s, ch) \in Reached(f0)
         /\ s.cx < Cols => Advanced(s, put_glyph(s, ch), ch)
         /\ View(put_glyph(s, ch)) = Window!Glyph(View(s), ch)
<1> DEFINE u == IF s.cx >= Cols THEN newline(s) ELSE s
           g == blit_char(u.f, u.cx * GlyphW, u.cy * GlyphH, ch)
<1>1. put_glyph(s, ch) = [f |-> g, cx |-> u.cx + 1, cy |-> u.cy]
  BY Zenon DEF put_glyph
<1>2. Cols \in Nat /\ Cols >= 1
  BY Zenon, Sizes
<1>3. s.cx \in Nat /\ s.cx <= Cols
  BY Zenon, ReachedFacts
<1>4. u \in Reached(f0)
  BY Zenon, NewlineStep
<1>5. s.cx >= Cols => u.cx = 0
  BY Zenon, NewlineStep
<1>6. ~(s.cx >= Cols) => u = s
  BY Zenon
<1>7. View(u) = IF s.cx >= Cols THEN Window!LineFeed(View(s)) ELSE View(s)
  BY Zenon, NewlineStep
<1>. HIDE DEF u
<1>8. /\ Sound(u.f) /\ u.cx \in Nat /\ u.cy \in Nat /\ u.cy \in 0 .. Rows - 1
      /\ u.cx \in 0 .. Cols
  BY Zenon, <1>4, ReachedFacts
<1>9. u.cx \in 0 .. Cols - 1 /\ u.cx + 1 \in 0 .. Cols
  BY <1>2, <1>3, <1>5, <1>6, <1>8
<1>10. u.cx * GlyphW \in Nat /\ u.cy * GlyphH \in Nat
  BY Zenon, <1>8, <1>9, OwnCell
<1>11. /\ Sound(g) /\ Drawn(u.f, g)
       /\ \A p \in Pixel : g.back[p] = IF Within(p, u.cx * GlyphW, u.cy * GlyphH, GlyphW, GlyphH)
                                       THEN ch ELSE u.f.back[p]
  <2>1. Blits(u.f, g, u.cx * GlyphW, u.cy * GlyphH, ch)
    BY Zenon, <1>8, <1>10, BlitChar
  <2>. HIDE DEF g
  <2>. QED
    BY Zenon, <2>1 DEF Blits
<1>16. PutIn(u.f, g, u.cx, u.cy, ch)
  BY Zenon, <1>11 DEF PutIn
<1>. HIDE DEF g
<1>12. /\ Lines(g.back) = [Lines(u.f.back) EXCEPT ![u.cy + 1][u.cx + 1] = ch]
       /\ \A k \in 0 .. Cols : [f |-> g, cx |-> k, cy |-> u.cy] \in Reached(f0)
  BY Zenon, <1>4, <1>8, <1>9, <1>16, OneCell
<1>13. s.cx < Cols => Advanced(s, put_glyph(s, ch), ch)
  <2>1. s.cx < Cols => u = s
    BY <1>2, <1>3, <1>6
  <2>2. /\ put_glyph(s, ch).cx = u.cx + 1 /\ put_glyph(s, ch).cy = u.cy
        /\ put_glyph(s, ch).f = g
    BY <1>1
  <2>. QED
    BY Zenon, <1>12, <2>1, <2>2 DEF Advanced
<1>14. View(put_glyph(s, ch)) = [lines |-> [Lines(u.f.back) EXCEPT ![u.cy + 1][u.cx + 1] = ch],
                                 row |-> u.cy + 1, col |-> u.cx + 1]
  <2>1. View(put_glyph(s, ch)) = [lines |-> Lines(g.back), row |-> u.cy + 1, col |-> u.cx + 1]
    BY ZenonT(30), <1>1, ViewOf
  <2>. QED
    BY Zenon, <1>12, <2>1
<1>15. Window!Glyph(View(s), ch)
         = [lines |-> [Lines(u.f.back) EXCEPT ![u.cy + 1][u.cx + 1] = ch],
            row |-> u.cy + 1, col |-> u.cx + 1]
  <2>1. View(s).col = s.cx
    BY DEF View
  <2>2. Window!Glyph(View(s), ch)
          = [lines |-> [View(u).lines EXCEPT ![View(u).row][View(u).col + 1] = ch],
             row |-> View(u).row, col |-> View(u).col + 1]
    BY Zenon, <1>7, <2>1 DEF Window!Glyph
  <2>3. View(u).lines = Lines(u.f.back) /\ View(u).row = u.cy + 1 /\ View(u).col = u.cx
    BY DEF View
  <2>. QED
    BY Zenon, <2>2, <2>3
<1>. QED
  BY Zenon, <1>1, <1>9, <1>12, <1>13, <1>14, <1>15

\* The terminal's characters, one by one.
LEMMA CharOf ==
  ASSUME NEW t, NEW ch
  PROVE  /\ ch = "newline" => Window!Char(t, ch) = Window!LineFeed(t)
         /\ ch = "return" => Window!Char(t, ch) = [t EXCEPT !.col = 0]
         /\ ch = "backspace" =>
              Window!Char(t, ch) = IF t.col = 0 THEN t
                                   ELSE [lines |-> [t.lines EXCEPT ![t.row][t.col] = BG],
                                         row |-> t.row, col |-> t.col - 1]
         /\ ch = "tab" => Window!Char(t, ch) = Window!Tab(t)
         /\ ch \notin {"newline", "return", "backspace", "tab"} =>
              Window!Char(t, ch) = Window!Glyph(t, ch)
<1>1. Window!Blank = BG
  BY Zenon DEF Window!Blank, BG
<1>. QED
  BY Zenon, <1>1 DEF Window!Char

\* put_char, by cases.
LEMMA PutCharOf ==
  ASSUME NEW s, NEW ch
  PROVE  /\ ch = "newline" => put_char(s, ch) = newline(s)
         /\ ch = "return" => put_char(s, ch) = [s EXCEPT !.cx = 0]
         /\ ch = "backspace" => put_char(s, ch) = backspace(s)
         /\ ch = "tab" => put_char(s, ch) = tab(s)
         /\ ch \notin {"newline", "return", "backspace", "tab"} =>
              put_char(s, ch) = put_glyph(s, ch)
BY Zenon DEF put_char

\* A carriage return is the window's.
LEMMA ReturnStep ==
  ASSUME NEW f0, NEW s \in Reached(f0)
  PROVE  /\ [s EXCEPT !.cx = 0] \in Reached(f0)
         /\ View([s EXCEPT !.cx = 0]) = [View(s) EXCEPT !.col = 0]
<1>1. s \in Consoles /\ Sound(s.f) /\ s.cy \in 0 .. Rows - 1
  BY Zenon, ReachedFacts
<1>2. [s EXCEPT !.cx = 0] = [f |-> s.f, cx |-> 0, cy |-> s.cy]
  BY <1>1 DEF Consoles
<1>3. 0 \in 0 .. Cols
  BY Sizes
<1>4. Drawn(s.f, s.f)
  BY Zenon, <1>1 DEF Drawn, Sound
<1>5. [f |-> s.f, cx |-> 0, cy |-> s.cy] \in Reached(f0)
  BY Zenon, <1>1, <1>3, <1>4, StaysReached
<1>6. View([f |-> s.f, cx |-> 0, cy |-> s.cy])
        = [lines |-> Lines(s.f.back), row |-> s.cy + 1, col |-> 0]
  BY Zenon, ViewOf
<1>7. [View(s) EXCEPT !.col = 0] = [lines |-> Lines(s.f.back), row |-> s.cy + 1, col |-> 0]
  BY DEF View
<1>. QED
  BY Zenon, <1>2, <1>5, <1>6, <1>7

\* backspace is the window's.
LEMMA BackspaceStep ==
  ASSUME NEW f0, NEW s \in Reached(f0)
  PROVE  /\ backspace(s) \in Reached(f0)
         /\ View(backspace(s)) = Window!Char(View(s), "backspace")
<1>1. View(s).lines = Lines(s.f.back) /\ View(s).row = s.cy + 1 /\ View(s).col = s.cx
  BY DEF View
<1>2. CASE s.cx = 0
  <2>1. backspace(s) = s
    BY Zenon, <1>2 DEF backspace
  <2>. QED
    BY Zenon, <1>1, <1>2, <2>1, CharOf
<1>3. CASE s.cx # 0
  <2> DEFINE i == s.cx - 1
             g == fill_rect(s.f, i * GlyphW, s.cy * GlyphH, GlyphW, GlyphH, BG)
  <2>1. backspace(s) = [f |-> g, cx |-> i, cy |-> s.cy]
    BY Zenon, <1>3 DEF backspace
  <2>2. s.cx \in Nat /\ s.cx <= Cols /\ s.cy \in 0 .. Rows - 1 /\ Sound(s.f)
    BY Zenon, ReachedFacts
  <2>3. GlyphW \in Nat /\ GlyphH \in Nat /\ Cols \in Nat
    BY Zenon, Sizes
  <2>4. i \in 0 .. Cols - 1 /\ i \in 0 .. Cols /\ i + 1 = s.cx
    BY <1>3, <2>2, <2>3
  <2>. HIDE DEF i
  <2>5. i * GlyphW \in Nat /\ s.cy * GlyphH \in Nat
    BY Zenon, <2>2, <2>4, OwnCell
  <2>6. /\ Drawn(s.f, g) /\ Marked(s.f, g)
        /\ \A p \in Pixel : g.back[p] = IF Within(p, i * GlyphW, s.cy * GlyphH, GlyphW, GlyphH)
                                        THEN BG ELSE s.f.back[p]
    <3>1. Framed(s.f) /\ BG \in Colour
      BY Zenon, <2>2, Colours DEF Sound
    <3>2. Fills(s.f, g, i * GlyphW, s.cy * GlyphH, GlyphW, GlyphH, BG)
      BY Zenon, <2>3, <2>5, <3>1, FillRect
    <3>. QED
      BY Zenon, <3>2 DEF Fills
  <2>. HIDE DEF g
  <2>7. PutIn(s.f, g, i, s.cy, BG)
    BY Zenon, <2>2, <2>6, MarkedIsSound DEF PutIn
  <2>8. /\ Lines(g.back) = [Lines(s.f.back) EXCEPT ![s.cy + 1][i + 1] = BG]
        /\ \A k \in 0 .. Cols : [f |-> g, cx |-> k, cy |-> s.cy] \in Reached(f0)
    BY Zenon, <2>2, <2>4, <2>7, OneCell
  <2>9. View(backspace(s)) = [lines |-> [Lines(s.f.back) EXCEPT ![s.cy + 1][s.cx] = BG],
                              row |-> s.cy + 1, col |-> i]
    <3>1. View(backspace(s)) = [lines |-> Lines(g.back), row |-> s.cy + 1, col |-> i]
      BY ZenonT(30), <2>1, ViewOf
    <3>. QED
      BY Zenon, <2>4, <2>8, <3>1
  <2>10. Window!Char(View(s), "backspace")
           = [lines |-> [Lines(s.f.back) EXCEPT ![s.cy + 1][s.cx] = BG],
              row |-> s.cy + 1, col |-> i]
    <3>1. Window!Char(View(s), "backspace")
            = IF View(s).col = 0 THEN View(s)
              ELSE [lines |-> [View(s).lines EXCEPT ![View(s).row][View(s).col] = BG],
                    row |-> View(s).row, col |-> View(s).col - 1]
      BY Zenon, CharOf
    <3>. QED
      BY Zenon, <1>1, <1>3, <3>1 DEF i
  <2>. QED
    BY Zenon, <2>1, <2>4, <2>8, <2>9, <2>10
<1>. QED
  BY Zenon, <1>2, <1>3

(* ---------------------------- tabs and texts ---------------------------- *)
TabTurn(t, next) == IF t.cx < next /\ t.cx < Cols THEN put_glyph(t, BG) ELSE t

IsTab(turn, s, next) ==
  turn = [n \in 0 .. Cols |-> IF n = 0 THEN s ELSE TabTurn(turn[n - 1], next)]

\* Line j of the window, its cells i + 1 to k blanked.
Blanked(ls, j, i, k) ==
  [ls EXCEPT ![j] = [c \in 1 .. Cols |-> IF c \in i + 1 .. k THEN BG ELSE ls[j][c]]]

Grows(ls, j, i, k) == [Blanked(ls, j, i, k) EXCEPT ![j][k + 1] = BG] = Blanked(ls, j, i, k + 1)

\* One more blank in a line continues the blanks before it.
LEMMA BlankedMore ==
  ASSUME NEW b, NEW j \in 1 .. Rows, NEW i \in Nat, NEW k \in Nat, i <= k, k < Cols
  PROVE  Grows(Lines(b), j, i, k)
<1> DEFINE ls == Lines(b)
           before == [c \in 1 .. Cols |-> IF c \in i + 1 .. k THEN BG ELSE ls[j][c]]
           after == [c \in 1 .. Cols |-> IF c \in i + 1 .. k + 1 THEN BG ELSE ls[j][c]]
<1>1. Cols \in Nat
  BY Zenon, Sizes
<1>2. ls = [r \in 1 .. Rows |-> ls[r]]
  BY Zenon DEF Lines
<1>. HIDE DEF ls
<1>3. [before EXCEPT ![k + 1] = BG] = after
  <2>1. \A c \in 1 .. Cols : c \in i + 1 .. k + 1 <=> (c = k + 1 \/ c \in i + 1 .. k)
    BY <1>1
  <2>. QED
    BY Zenon, <2>1
<1>. HIDE DEF before, after
<1>4. [[ls EXCEPT ![j] = before] EXCEPT ![j][k + 1] = BG]
        = [ls EXCEPT ![j] = [before EXCEPT ![k + 1] = BG]]
  BY Zenon, <1>2
<1>. QED
  BY Zenon, <1>3, <1>4 DEF Grows, Blanked, ls, before, after

\* The loop of a tab has a run.
LEMMA TabExists ==
  ASSUME NEW f0, NEW s \in Reached(f0), NEW next
  PROVE  \E turn : IsTab(turn, s, next)
<1> DEFINE S == Reached(f0)
           step == [p \in (1 .. Cols) \X S |-> TabTurn(p[2], next)]
<1>1. s \in S /\ \A t \in S : TabTurn(t, next) \in S
  BY Zenon, GlyphStep, Colours DEF TabTurn
<1>. HIDE DEF S
<1>2. \A k \in 1 .. Cols, t \in S : <<k, t>> \in (1 .. Cols) \X S /\ step[<<k, t>>] = TabTurn(t, next)
  OBVIOUS
<1>3. step \in [(1 .. Cols) \X S -> S]
  BY <1>1
<1>. HIDE DEF step
<1>4. Cols \in Nat
  BY Zenon, Sizes
<1>5. PICK f : IsRun(f, Cols, S, s, step)
  BY Zenon, <1>1, <1>3, <1>4, Loop
<1>6. \A k \in 0 .. Cols : k # 0 => k \in 1 .. Cols /\ k - 1 \in 0 .. Cols
  BY <1>4
<1>7. \A k \in 0 .. Cols : f[k] = IF k = 0 THEN s ELSE TabTurn(f[k - 1], next)
  BY Zenon, <1>2, <1>5, <1>6 DEF IsRun
<1>8. f = [k \in 0 .. Cols |-> f[k]]
  BY Zenon, <1>5 DEF IsRun
<1>9. f = [k \in 0 .. Cols |-> IF k = 0 THEN s ELSE TabTurn(f[k - 1], next)]
  BY Zenon, <1>7, <1>8
<1>. QED
  BY Zenon, <1>9 DEF IsTab

\* A tab blanks the cells up to the stop and leaves the cursor there.
LEMMA TabStep ==
  ASSUME NEW f0, NEW s \in Reached(f0)
  PROVE  /\ tab(s) \in Reached(f0)
         /\ View(tab(s)) = Window!Tab(View(s))
<1> DEFINE next == (s.cx \div TabStop + 1) * TabStop
           stop == IF next < Cols THEN next ELSE Cols
           turn == CHOOSE t : IsTab(t, s, next)
           L == Lines(s.f.back)
<1>1. /\ s.cx \in Nat /\ s.cy \in Nat /\ s.cx <= Cols /\ s.cy < Rows /\ Cols \in Nat
      /\ TabStop \in Nat \ {0} /\ Rows \in Nat
  BY Zenon, ReachedFacts, Sizes
<1>2. tab(s) = turn[Cols]
  BY Zenon DEF tab, IsTab, TabTurn
<1>3. IsTab(turn, s, next)
  BY Zenon, TabExists
<1>4. next \in Nat /\ s.cx < next
  <2>1. ASSUME NEW x \in Nat, NEW t \in Nat \ {0}
        PROVE  (x \div t + 1) * t \in Nat /\ x < (x \div t + 1) * t
    OBVIOUS
  <2>. QED
    BY Zenon, <1>1, <2>1
<1>. HIDE DEF turn, next
<1>5. /\ stop \in Nat /\ s.cx <= stop /\ stop <= Cols
      /\ \A k \in Nat : (k < next /\ k < Cols) <=> k < stop
  BY <1>1, <1>4
<1>6. Window!Tab(View(s)) = [lines |-> Blanked(L, s.cy + 1, s.cx, stop), row |-> s.cy + 1, col |-> stop]
  <2>1. View(s).lines = L /\ View(s).row = s.cy + 1 /\ View(s).col = s.cx
    BY DEF View
  <2>2. Window!Blank = BG
    BY Zenon DEF Window!Blank, BG
  <2>. QED
    BY Zenon, <2>1, <2>2 DEF Window!Tab, Blanked, next
<1>. HIDE DEF stop, L
<1>7. turn[0] = s /\ \A k \in 1 .. Cols : turn[k] = TabTurn(turn[k - 1], next)
  <2>1. 0 \in 0 .. Cols /\ \A k \in 1 .. Cols : k \in 0 .. Cols /\ k # 0
    BY <1>1
  <2>. QED
    BY Zenon, <1>3, <2>1 DEF IsTab
<1> DEFINE At(k) == IF s.cx + k < stop THEN s.cx + k ELSE stop
           A == {k \in 0 .. Cols : /\ turn[k] \in Reached(f0)
                                   /\ turn[k].cy = s.cy /\ turn[k].cx = At(k)
                                   /\ Lines(turn[k].f.back) = Blanked(L, s.cy + 1, s.cx, At(k))}
<1>8. 0 \in A
  <2>1. 0 \in 0 .. Cols /\ At(0) = s.cx /\ s.cx + 1 .. s.cx = {}
    BY <1>1, <1>5
  <2>2. Blanked(L, s.cy + 1, s.cx, s.cx) = L
    <3>1. s.cy + 1 \in 1 .. Rows
      BY <1>1
    <3>2. L = [r \in 1 .. Rows |-> L[r]]
      BY Zenon DEF L, Lines
    <3>3. L[s.cy + 1] = [c \in 1 .. Cols |-> L[s.cy + 1][c]]
      BY Zenon, <3>1 DEF L, Lines
    <3>4. \A c : c \notin s.cx + 1 .. s.cx
      BY Zenon, <2>1
    <3>5. [c \in 1 .. Cols |-> IF c \in s.cx + 1 .. s.cx THEN BG ELSE L[s.cy + 1][c]] = L[s.cy + 1]
      BY Zenon, <3>3, <3>4
    <3>6. \A r \in 1 .. Rows : [L EXCEPT ![r] = L[r]] = L
      BY Zenon, <3>2
    <3>. QED
      BY Zenon, <3>1, <3>5, <3>6 DEF Blanked
  <2>. HIDE DEF At
  <2>. QED
    BY Zenon, <1>7, <2>1, <2>2 DEF L
<1>9. ASSUME NEW k \in 1 .. Cols, k - 1 \in A PROVE k \in A
  <2> DEFINE t == turn[k - 1]
  <2>1. /\ t \in Reached(f0) /\ t.cy = s.cy /\ t.cx = At(k - 1)
        /\ Lines(t.f.back) = Blanked(L, s.cy + 1, s.cx, At(k - 1))
    BY Zenon, <1>9
  <2>2. turn[k] = TabTurn(t, next) /\ k \in 0 .. Cols
    <3>1. k \in 0 .. Cols
      BY <1>1
    <3>. QED
      BY Zenon, <1>7, <3>1
  <2>3. At(k - 1) \in Nat /\ s.cx <= At(k - 1) /\ At(k - 1) <= stop
        /\ (At(k - 1) < stop => At(k) = At(k - 1) + 1)
        /\ (~(At(k - 1) < stop) => At(k) = At(k - 1))
    BY <1>1, <1>5
  <2> DEFINE i == At(k - 1)
  <2>. HIDE DEF At, t
  <2>4. CASE i < stop
    <3>1. t.cx < next /\ t.cx < Cols
      BY Zenon, <1>5, <2>1, <2>3, <2>4
    <3>2. turn[k] = put_glyph(t, BG)
      BY Zenon, <2>2, <3>1 DEF TabTurn
    <3>3. /\ turn[k] \in Reached(f0) /\ turn[k].cx = i + 1 /\ turn[k].cy = s.cy
          /\ Lines(turn[k].f.back) = [Lines(t.f.back) EXCEPT ![s.cy + 1][i + 1] = BG]
      <4>1. BG \in Colour
        BY Zenon, Colours
      <4>2. put_glyph(t, BG) \in Reached(f0)
        BY Zenon, <2>1, <4>1, GlyphStep
      <4>3. Advanced(t, put_glyph(t, BG), BG)
        BY Zenon, <2>1, <3>1, <4>1, GlyphStep
      <4>. QED
        BY Zenon, <2>1, <3>2, <4>2, <4>3 DEF Advanced
    <3>4. [Blanked(L, s.cy + 1, s.cx, i) EXCEPT ![s.cy + 1][i + 1] = BG]
            = Blanked(L, s.cy + 1, s.cx, i + 1)
      <4>1. s.cy + 1 \in 1 .. Rows /\ i < Cols /\ s.cx \in Nat /\ i \in Nat /\ s.cx <= i
        BY <1>1, <1>5, <2>3, <2>4
      <4>. HIDE DEF i
      <4>. QED
        <5>1. Grows(L, s.cy + 1, s.cx, i)
          BY ZenonT(30), <4>1, BlankedMore DEF L
        <5>. QED
          BY Zenon, <5>1 DEF Grows
    <3>. QED
      BY ZenonT(30), <2>1, <2>2, <2>3, <2>4, <3>3, <3>4
  <2>5. CASE ~(i < stop)
    <3>1. ~(t.cx < next /\ t.cx < Cols)
      BY Zenon, <1>5, <2>1, <2>3, <2>5
    <3>2. turn[k] = t
      BY Zenon, <2>2, <3>1 DEF TabTurn
    <3>. QED
      BY Zenon, <2>1, <2>2, <2>3, <2>5, <3>2
  <2>. QED
    BY Zenon, <2>4, <2>5
<1>10. Cols \in A /\ At(Cols) = stop
  <2>1. Cols \in 0 .. Cols /\ At(Cols) = stop
    BY <1>1, <1>5
  <2>. HIDE DEF A, At
  <2>. QED
    BY ZenonT(30), <1>1, <1>8, <1>9, <2>1, Turns
<1>. HIDE DEF At
<1>11. View(turn[Cols]) = [lines |-> Lines(turn[Cols].f.back), row |-> turn[Cols].cy + 1,
                           col |-> turn[Cols].cx]
  BY Zenon DEF View
<1>. QED
  BY ZenonT(30), <1>2, <1>6, <1>10, <1>11

\* put_char is the window's step for that character.
LEMMA CharStep ==
  ASSUME NEW f0, NEW s \in Reached(f0), NEW ch \in STRING
  PROVE  /\ put_char(s, ch) \in Reached(f0)
         /\ View(put_char(s, ch)) = Window!Char(View(s), ch)
<1>1. CASE ch = "newline"
  <2>1. put_char(s, ch) = newline(s)
    BY Zenon, <1>1, PutCharOf
  <2>2. Window!Char(View(s), ch) = Window!LineFeed(View(s))
    BY Zenon, <1>1, CharOf
  <2>. QED
    BY Zenon, <2>1, <2>2, NewlineStep
<1>2. CASE ch = "return"
  <2>1. put_char(s, ch) = [s EXCEPT !.cx = 0]
    BY Zenon, <1>2, PutCharOf
  <2>2. Window!Char(View(s), ch) = [View(s) EXCEPT !.col = 0]
    BY Zenon, <1>2, CharOf
  <2>. QED
    <3>1. [s EXCEPT !.cx = 0] \in Reached(f0)
      BY Zenon, ReturnStep
    <3>2. View([s EXCEPT !.cx = 0]) = [View(s) EXCEPT !.col = 0]
      BY Zenon, ReturnStep
    <3>. QED
      BY Zenon, <2>1, <2>2, <3>1, <3>2
<1>3. CASE ch = "backspace"
  BY ZenonT(30), <1>3, PutCharOf, BackspaceStep
<1>4. CASE ch = "tab"
  <2>1. put_char(s, ch) = tab(s)
    BY Zenon, <1>4, PutCharOf
  <2>2. Window!Char(View(s), ch) = Window!Tab(View(s))
    BY Zenon, <1>4, CharOf
  <2>. QED
    BY Zenon, <2>1, <2>2, TabStep
<1>5. CASE ch \notin {"newline", "return", "backspace", "tab"}
  <2>1. ch \in Colour
    BY Zenon, Colours
  <2>2. put_char(s, ch) = put_glyph(s, ch)
    BY Zenon, <1>5, PutCharOf
  <2>3. Window!Char(View(s), ch) = Window!Glyph(View(s), ch)
    BY Zenon, <1>5, CharOf
  <2>. QED
    BY Zenon, <2>1, <2>2, <2>3, GlyphStep
<1>. QED
  BY Zenon, <1>1, <1>2, <1>3, <1>4, <1>5

IsWriting(upto, s, text) ==
  upto = [n \in 0 .. Len(text) |-> IF n = 0 THEN s ELSE put_char(upto[n - 1], text[n])]

IsWritten(upto, t, text) ==
  upto = [n \in 0 .. Len(text) |-> IF n = 0 THEN t ELSE Window!Char(upto[n - 1], text[n])]

\* The loop over a text has a run.
LEMMA WritingExists ==
  ASSUME NEW f0, NEW s \in Reached(f0), NEW text \in Seq(STRING)
  PROVE  \E upto : IsWriting(upto, s, text)
<1> DEFINE S == Reached(f0)
           N == Len(text)
           step == [p \in (1 .. N) \X S |-> put_char(p[2], text[p[1]])]
<1>1. N \in Nat /\ \A k \in 1 .. N : text[k] \in STRING
  OBVIOUS
<1>2. s \in S /\ \A t \in S, k \in 1 .. N : put_char(t, text[k]) \in S
  BY Zenon, <1>1, CharStep
<1>. HIDE DEF S, N
<1>3. \A k \in 1 .. N, t \in S : /\ <<k, t>> \in (1 .. N) \X S
                                 /\ step[<<k, t>>] = put_char(t, text[k])
  OBVIOUS
<1>4. step \in [(1 .. N) \X S -> S]
  BY <1>2
<1>. HIDE DEF step
<1>5. PICK f : IsRun(f, N, S, s, step)
  BY Zenon, <1>1, <1>2, <1>4, Loop
<1>6. \A k \in 0 .. N : k # 0 => k \in 1 .. N /\ k - 1 \in 0 .. N
  BY <1>1
<1>7. \A k \in 0 .. N : f[k] = IF k = 0 THEN s ELSE put_char(f[k - 1], text[k])
  BY Zenon, <1>3, <1>5, <1>6 DEF IsRun
<1>8. f = [k \in 0 .. N |-> f[k]]
  BY Zenon, <1>5 DEF IsRun
<1>9. f = [k \in 0 .. N |-> IF k = 0 THEN s ELSE put_char(f[k - 1], text[k])]
  BY Zenon, <1>7, <1>8
<1>. QED
  BY Zenon, <1>9 DEF IsWriting, N

\* Printing a text is writing it to the terminal.
LEMMA WriteStep ==
  ASSUME NEW f0, NEW s \in Reached(f0), NEW text \in Seq(STRING)
  PROVE  /\ write_string(s, text) \in Reached(f0)
         /\ View(write_string(s, text)) = Window!Written(View(s), text)
<1> DEFINE N == Len(text)
           upto == CHOOSE f : IsWriting(f, s, text)
           seen == CHOOSE f : IsWritten(f, View(s), text)
           h == [k \in 0 .. N |-> View(upto[k])]
<1>1. N \in Nat /\ \A k \in 1 .. N : text[k] \in STRING
  OBVIOUS
<1>2. write_string(s, text) = upto[N]
  BY Zenon DEF write_string, IsWriting
<1>3. Window!Written(View(s), text) = seen[N]
  BY Zenon DEF Window!Written, IsWritten
<1>4. IsWriting(upto, s, text)
  BY Zenon, WritingExists
<1>. HIDE DEF upto
<1>5. /\ 0 \in 0 .. N /\ N \in 0 .. N
      /\ \A k \in 0 .. N : k # 0 => k \in 1 .. N /\ k - 1 \in 0 .. N
      /\ \A k \in 1 .. N : k # 0 /\ k \in 0 .. N /\ k - 1 \in 0 .. N
  BY <1>1
<1>6. upto[0] = s /\ \A k \in 1 .. N : upto[k] = put_char(upto[k - 1], text[k])
  BY Zenon, <1>4, <1>5 DEF IsWriting
<1>7. \A k \in 0 .. N : upto[k] \in Reached(f0)
  <2> DEFINE A == {k \in 0 .. N : upto[k] \in Reached(f0)}
  <2>1. 0 \in A
    BY Zenon, <1>5, <1>6
  <2>2. \A k \in 1 .. N : k - 1 \in A => k \in A
    BY ZenonT(30), <1>1, <1>5, <1>6, CharStep
  <2>3. \A k \in 0 .. N : k \in A
    <3>. HIDE DEF A, N
    <3>. QED
      BY Zenon, <1>1, <2>1, <2>2, Turns
  <2>. QED
    BY Zenon, <2>3
<1>8. \A k \in 1 .. N : View(upto[k]) = Window!Char(View(upto[k - 1]), text[k])
  BY ZenonT(30), <1>1, <1>5, <1>6, <1>7, CharStep
<1>9. IsWritten(h, View(s), text)
  <2>1. \A k \in 0 .. N : h[k] = IF k = 0 THEN View(s) ELSE Window!Char(h[k - 1], text[k])
    BY Zenon, <1>5, <1>6, <1>8
  <2>2. h = [k \in 0 .. N |-> h[k]]
    BY Zenon
  <2>. HIDE DEF h
  <2>. QED
    BY Zenon, <2>1, <2>2 DEF IsWritten
<1>10. IsWritten(seen, View(s), text)
  BY Zenon, <1>9
<1>. HIDE DEF seen
<1>11. seen[0] = View(s) /\ \A k \in 1 .. N : seen[k] = Window!Char(seen[k - 1], text[k])
  BY Zenon, <1>5, <1>10 DEF IsWritten
<1>12. seen[N] = View(upto[N])
  <2> DEFINE A == {k \in 0 .. N : seen[k] = View(upto[k])}
  <2>1. 0 \in A
    BY Zenon, <1>5, <1>6, <1>11
  <2>2. \A k \in 1 .. N : k - 1 \in A => k \in A
    BY ZenonT(30), <1>5, <1>8, <1>11
  <2>3. \A k \in 0 .. N : k \in A
    <3>. HIDE DEF A, N
    <3>. QED
      BY Zenon, <1>1, <2>1, <2>2, Turns
  <2>. QED
    BY Zenon, <1>5, <2>3
<1>. QED
  BY Zenon, <1>2, <1>3, <1>5, <1>7, <1>12

(* ------------------------ the bar and the clearing ---------------------- *)
\* What drawing the bar over f0 may reach: the window stays as it was.
BarFrames(f0) ==
  {g \in Frame : Kept(f0, g) /\ \A p \in Pixel : p[2] < BarY => g.back[p] = f0.back[p]}

\* A drawing below the window leaves the window alone.
LEMMA BarFill ==
  ASSUME NEW f0, NEW f \in BarFrames(f0), NEW g, Sound(g), Drawn(f, g),
         \A p \in Pixel : p[2] < BarY => g.back[p] = f.back[p]
  PROVE  g \in BarFrames(f0)
<1>1. g \in Frame
  BY Zenon DEF Sound, Framed
<1>2. Kept(f0, f) /\ \A p \in Pixel : p[2] < BarY => f.back[p] = f0.back[p]
  BY Zenon DEF BarFrames
<1>3. Kept(f0, g)
  BY Zenon, <1>2 DEF Kept, Drawn
<1>. QED
  BY Zenon, <1>1, <1>2, <1>3 DEF BarFrames

\* A rectangle below the window has no pixel of it.
LEMMA BelowWindow ==
  ASSUME NEW p \in Pixel, NEW x \in Nat, NEW y \in Nat, NEW w \in Nat, NEW h \in Nat,
         y >= BarY, p[2] < BarY
  PROVE  ~Within(p, x, y, w, h)
<1>1. p[2] \in Nat /\ BarY \in Nat
  BY Zenon, PixelFacts, Sizes
<1>. QED
  BY <1>1 DEF Within

BarTurn(g, text, n) ==
  IF Fits(n)
  THEN blit_char(g, Inset + (n - 1) * GlyphW, BarY + (2 * GlyphH - GlyphH) \div 2, text[n])
  ELSE g

IsBar(upto, f, text) ==
  upto = [n \in 0 .. Len(text) |-> IF n = 0 THEN BareBar(f) ELSE BarTurn(upto[n - 1], text, n)]

\* A glyph of the bar leaves the window alone.
LEMMA BarTurnStep ==
  ASSUME NEW f0, NEW f \in BarFrames(f0), NEW text \in Seq(STRING), NEW n \in 1 .. Len(text)
  PROVE  BarTurn(f, text, n) \in BarFrames(f0)
<1> DEFINE x == Inset + (n - 1) * GlyphW
           y == BarY + (2 * GlyphH - GlyphH) \div 2
           g == blit_char(f, x, y, text[n])
<1>1. text[n] \in Colour
  <2>1. text[n] \in STRING
    OBVIOUS
  <2>. QED
    BY Zenon, <2>1, Colours
<1>2. Inset \in Nat /\ GlyphW \in Nat /\ GlyphH \in Nat /\ BarY \in Nat
  BY Zenon, Sizes
<1>3. x \in Nat
  <2>1. n - 1 \in Nat
    OBVIOUS
  <2>2. (n - 1) * GlyphW \in Nat
    BY Zenon, <1>2, <2>1, Times
  <2>. QED
    BY <1>2, <2>2
<1>4. y \in Nat /\ y >= BarY
  BY <1>2
<1>5. CASE Fits(n)
  <2>1. BarTurn(f, text, n) = g
    BY Zenon, <1>5 DEF BarTurn
  <2>. HIDE DEF x, y
  <2>2. Sound(f)
    BY Zenon DEF BarFrames, Kept
  <2>3. /\ Sound(g) /\ Drawn(f, g)
        /\ \A p \in Pixel : g.back[p] = IF Within(p, x, y, GlyphW, GlyphH) THEN text[n]
                                        ELSE f.back[p]
    <3>1. Blits(f, g, x, y, text[n])
      BY Zenon, <1>1, <1>3, <1>4, <2>2, BlitChar
    <3>. HIDE DEF g
    <3>. QED
      BY Zenon, <3>1 DEF Blits
  <2>4. \A p \in Pixel : p[2] < BarY => ~Within(p, x, y, GlyphW, GlyphH)
    BY Zenon, <1>2, <1>3, <1>4, BelowWindow
  <2>. HIDE DEF g
  <2>5. \A p \in Pixel : p[2] < BarY => g.back[p] = f.back[p]
    BY Zenon, <2>3, <2>4
  <2>. QED
    BY Zenon, <2>1, <2>3, <2>5, BarFill
<1>6. CASE ~Fits(n)
  BY Zenon, <1>6 DEF BarTurn
<1>. QED
  BY Zenon, <1>5, <1>6

\* The bar's background leaves the window alone.
LEMMA BareBarStep ==
  ASSUME NEW f, Sound(f)
  PROVE  BareBar(f) \in BarFrames(f)
<1> DEFINE e == fill_rect(f, 0, BarY, Width, 2 * GlyphH, BarColor)
           g == fill_rect(e, 0, BarY, Width, 1, Border)
<1>1. /\ BarY \in Nat /\ Width \in Nat /\ 2 * GlyphH \in Nat /\ 1 \in Nat /\ 0 \in Nat
      /\ BarY >= BarY
  BY Sizes
<1>2. f \in BarFrames(f) /\ Framed(f)
  BY Zenon DEF BarFrames, Kept, Sound, Framed
<1>3. \A p \in Pixel : p[2] < BarY => /\ ~Within(p, 0, BarY, Width, 2 * GlyphH)
                                      /\ ~Within(p, 0, BarY, Width, 1)
  BY Zenon, <1>1, BelowWindow
<1>4. Fills(f, e, 0, BarY, Width, 2 * GlyphH, BarColor)
  BY Zenon, <1>1, <1>2, FillRect, Colours
<1>. HIDE DEF e
<1>5. Sound(e) /\ Framed(e) /\ Drawn(f, e) /\ \A p \in Pixel : p[2] < BarY => e.back[p] = f.back[p]
  BY Zenon, <1>3, <1>4, MarkedIsSound DEF Fills, Drawn
<1>6. e \in BarFrames(f)
  BY Zenon, <1>2, <1>5, BarFill
<1>7. Fills(e, g, 0, BarY, Width, 1, Border)
  BY Zenon, <1>1, <1>5, FillRect, Colours
<1>8. BareBar(f) = g
  BY Zenon DEF BareBar, e
<1>. HIDE DEF g
<1>9. Sound(g) /\ Drawn(e, g) /\ \A p \in Pixel : p[2] < BarY => g.back[p] = e.back[p]
  BY Zenon, <1>3, <1>5, <1>7, MarkedIsSound DEF Fills
<1>. QED
  BY Zenon, <1>6, <1>8, <1>9, BarFill

\* The bar touches no pixel of the window.
LEMMA BarStep ==
  ASSUME NEW f, Sound(f), NEW text \in Seq(STRING)
  PROVE  BarDrawn(f, text) \in BarFrames(f)
<1> DEFINE S == BarFrames(f)
           N == Len(text)
           step == [p \in (1 .. N) \X S |-> BarTurn(p[2], text, p[1])]
           upto == CHOOSE u : IsBar(u, f, text)
<1>1. N \in Nat
  OBVIOUS
<1>2. BareBar(f) \in S /\ \A g \in S, k \in 1 .. N : BarTurn(g, text, k) \in S
  BY Zenon, BareBarStep, BarTurnStep
<1>3. BarDrawn(f, text) = upto[N]
  BY Zenon DEF BarDrawn, IsBar, BarTurn
<1>. HIDE DEF upto
<1>4. /\ 0 \in 0 .. N /\ N \in 0 .. N
      /\ \A k \in 0 .. N : k # 0 => k \in 1 .. N /\ k - 1 \in 0 .. N
      /\ \A k \in 1 .. N : k # 0 /\ k \in 0 .. N /\ k - 1 \in 0 .. N
  BY <1>1
<1>5. IsBar(upto, f, text)
  <2>1. \E u : IsBar(u, f, text)
    <3>. HIDE DEF S, N
    <3>1. \A k \in 1 .. N, g \in S : /\ <<k, g>> \in (1 .. N) \X S
                                     /\ step[<<k, g>>] = BarTurn(g, text, k)
      OBVIOUS
    <3>2. step \in [(1 .. N) \X S -> S]
      BY <1>2
    <3>. HIDE DEF step
    <3>3. PICK u : IsRun(u, N, S, BareBar(f), step)
      BY Zenon, <1>1, <1>2, <3>2, Loop
    <3>4. \A k \in 0 .. N : u[k] = IF k = 0 THEN BareBar(f) ELSE BarTurn(u[k - 1], text, k)
      BY Zenon, <1>4, <3>1, <3>3 DEF IsRun
    <3>5. u = [k \in 0 .. N |-> u[k]]
      BY Zenon, <3>3 DEF IsRun
    <3>6. u = [k \in 0 .. N |-> IF k = 0 THEN BareBar(f) ELSE BarTurn(u[k - 1], text, k)]
      BY Zenon, <3>4, <3>5
    <3>. QED
      BY Zenon, <3>6 DEF IsBar, N
  <2>. QED
    BY Zenon, <2>1 DEF upto
<1>6. upto[0] = BareBar(f) /\ \A k \in 1 .. N : upto[k] = BarTurn(upto[k - 1], text, k)
  BY Zenon, <1>4, <1>5 DEF IsBar
<1> DEFINE A == {k \in 0 .. N : upto[k] \in S}
<1>7. 0 \in A
  BY Zenon, <1>2, <1>4, <1>6
<1>8. \A k \in 1 .. N : k - 1 \in A => k \in A
  BY Zenon, <1>2, <1>4, <1>6
<1>9. \A k \in 0 .. N : k \in A
  <2>. HIDE DEF A, N
  <2>. QED
    BY Zenon, <1>1, <1>7, <1>8, Turns
<1>. QED
  BY Zenon, <1>3, <1>4, <1>9

\* Filling the screen.
LEMMA FillAll ==
  ASSUME NEW f, Sound(f), NEW rgb \in Colour
  PROVE  LET g == fill_rect(f, 0, 0, Width, Height, rgb)
         IN  /\ Kept(f, g) /\ g.back = Filled(rgb)
             /\ g.dirty.any /\ Inside(g.dirty) = Pixel
             /\ Lines(g.back) = [r \in 1 .. Rows |-> [c \in 1 .. Cols |-> rgb]]
<1> DEFINE g == fill_rect(f, 0, 0, Width, Height, rgb)
<1>1. Width \in Nat \ {0} /\ Height \in Nat \ {0} /\ 0 \in Nat /\ Width \in Nat /\ Height \in Nat
  BY Sizes
<1>2. Fills(f, g, 0, 0, Width, Height, rgb)
  <2>1. Framed(f)
    BY Zenon DEF Sound
  <2>. QED
    BY Zenon, <1>1, <2>1, FillRect
<1>. HIDE DEF g
<1>3. \A p \in Pixel : Within(p, 0, 0, Width, Height)
  <2>1. ASSUME NEW p \in Pixel PROVE Within(p, 0, 0, Width, Height)
    <3>1. p[1] \in Nat /\ p[1] < Width /\ p[2] \in Nat /\ p[2] < Height
      BY Zenon, PixelFacts
    <3>. QED
      BY <1>1, <3>1 DEF Within
  <2>. QED
    BY Zenon, <2>1
<1>4. Sound(g) /\ Kept(f, g)
  BY Zenon, <1>2, MarkedIsSound DEF Fills, Drawn, Kept
<1>5. \A p \in Pixel : g.back[p] = rgb
  BY Zenon, <1>2, <1>3 DEF Fills
<1>6. g.back = Filled(rgb)
  <2>1. g.back \in [Pixel -> Colour]
    BY Zenon, <1>4, FrameFields DEF Sound, Framed, Buffer
  <2>. QED
    BY Zenon, <1>5, <2>1 DEF Filled
<1>7. \A p \in Pixel : p \in Covered(g.dirty)
  BY Zenon, <1>2, <1>3 DEF Fills
<1>8. <<0, 0>> \in Pixel
  <2>1. 0 < Width /\ 0 < Height
    BY <1>1
  <2>. QED
    BY Zenon, <1>1, <2>1, PixelFacts
<1>9. g.dirty.any
  BY Zenon, <1>7, <1>8 DEF Covered
<1>10. Inside(g.dirty) = Pixel
  BY Zenon, <1>7, <1>9 DEF Covered, Inside
<1>11. \A r \in 1 .. Rows, c \in 1 .. Cols : g.back[Corner(r, c)] = rgb
  BY Zenon, <1>5, Corners
<1>12. Lines(g.back) = [r \in 1 .. Rows |-> [c \in 1 .. Cols |-> rgb]]
  BY Zenon, <1>11 DEF Lines
<1>. QED
  BY Zenon, <1>4, <1>6, <1>9, <1>10, <1>12 DEF g

\* The swap keeps what was painted and leaves both buffers alike.
LEMMA Commit ==
  ASSUME NEW f, Sound(f)
  PROVE  LET c == commit(f)
         IN  /\ Sound(c) /\ ~c.dirty.any
             /\ c.back = f.back /\ c.present_buf = f.back
             /\ IF f.dirty.any THEN c.frame_ready = TRUE /\ c.ready_dirty = f.dirty ELSE c = f
<1> DEFINE c == commit(f)
<1>1. /\ f \in Frame /\ Rect(f.dirty) /\ f.back \in [Pixel -> Colour] /\ f.dirty \in Area
      /\ f.present_buf \in [Pixel -> Colour]
      /\ \A p \in Pixel \ Covered(f.dirty) : f.back[p] = f.present_buf[p]
  BY Zenon, FrameFields DEF Sound, Framed, Buffer
<1>2. CASE ~f.dirty.any
  <2>1. c = f
    BY Zenon, <1>2 DEF commit
  <2>2. Covered(f.dirty) = {}
    BY Zenon, <1>2 DEF Covered
  <2>3. f.present_buf = f.back
    <3>1. \A p \in Pixel : f.back[p] = f.present_buf[p]
      BY Zenon, <1>1, <2>2
    <3>2. /\ f.back = [p \in Pixel |-> f.back[p]]
          /\ f.present_buf = [p \in Pixel |-> f.present_buf[p]]
      BY Zenon, <1>1
    <3>. QED
      BY Zenon, <3>1, <3>2
  <2>. HIDE DEF c
  <2>. QED
    BY Zenon, <1>2, <2>1, <2>3 DEF c
<1>3. CASE f.dirty.any
  <2> DEFINE b == Copied(f.back, f.present_buf, f.dirty)
  <2>1. c = [back |-> b, present_buf |-> f.back, dirty |-> Clean, ready_dirty |-> f.dirty,
             frame_ready |-> TRUE]
    BY Zenon, <1>3 DEF commit
  <2>2. Covered(f.dirty) = Inside(f.dirty)
    BY Zenon, <1>3 DEF Covered
  <2>3. b = f.back
    BY Zenon, <1>1, <2>2 DEF Copied
  <2>. HIDE DEF b
  <2>4. Clean \in Area /\ ~Clean.any /\ Rect(Clean)
    BY DEF Clean, Area, Rect
  <2>5. /\ c \in Frame /\ c.back = f.back /\ c.present_buf = f.back /\ c.dirty = Clean
        /\ c.ready_dirty = f.dirty /\ c.frame_ready = TRUE
    BY <1>1, <2>1, <2>3, <2>4 DEF Frame, Buffer
  <2>. HIDE DEF c
  <2>6. Sound(c)
    BY Zenon, <1>1, <2>4, <2>5 DEF Sound, Framed
  <2>. QED
    BY Zenon, <1>3, <2>4, <2>5, <2>6 DEF c
<1>. QED
  BY Zenon, <1>2, <1>3

\* Presenting leaves the painted buffer and what is dirty.
LEMMA PresentedFrame ==
  ASSUME NEW f, Sound(f)
  PROVE  LET c == Presented(f)
         IN  /\ Sound(c) /\ c.dirty = f.dirty /\ c.back = f.back /\ c.frame_ready = FALSE
<1> DEFINE c == Presented(f)
<1>1. f \in Frame /\ Rect(f.dirty)
  BY Zenon DEF Sound, Framed
<1>2. Clean \in Area /\ Rect(Clean)
  BY DEF Clean, Area, Rect
<1>3. /\ c \in Frame /\ c.back = f.back /\ c.present_buf = f.present_buf /\ c.dirty = f.dirty
      /\ c.ready_dirty = Clean /\ c.frame_ready = FALSE
  BY <1>1, <1>2 DEF Frame, Presented
<1>. HIDE DEF c
<1>4. Sound(c)
  BY Zenon, <1>1, <1>2, <1>3 DEF Sound, Framed
<1>. QED
  BY Zenon, <1>3, <1>4 DEF c

(* ----------------------------- the invariant ---------------------------- *)
Presents == {"TRANSFER_TO_HOST_2D", "RESOURCE_FLUSH"}
Command == [type : Presents \cup Probing \cup {"dead"}, rect : Area]
Queue == [avail : Nat, seen : Nat, used : Nat, last_used : Nat,
          cmd : Command, resp : {"none", "ok", "err"}]
Mode == [w : Nat \ {0}, h : Nat \ {0}]

\* The device has room for pixel p.
Room(p) == p[1] < mode.w /\ p[2] < mode.h

\* The device's last column: a rectangle to the right of the device is clamped to it.
Edge == {p \in Pixel : Room(p) /\ p[1] = mode.w - 1}

\* The backing holds the part of the frame that is being presented.
Loaded == \A p \in Inside(fb.ready_dirty) : Room(p) => gpu_fb[Offset(p)] = fb.back[p]

\* Buffer b holds what the backing does of the region the device was sent.
Carries(b) == \A p \in Inside(Region(fb.ready_dirty)) : b[p] = gpu_fb[Offset(p)]

Typed ==
  /\ cx \in 0 .. Cols /\ cy \in 0 .. Rows - 1
  /\ Sound(fb) /\ ~fb.dirty.any
  /\ lost \in SUBSET Pixel
  /\ mode \in Mode /\ DOMAIN gpu_fb = 0 .. mode.w * mode.h - 1
  /\ ready \in BOOLEAN /\ vq \in Queue
  /\ ~ready => fb.back = Filled(BG) /\ mode = [w |-> Width, h |-> Height]
  /\ Width <= mode.w /\ Height <= mode.h => smashed # "heap"

\* The request in flight is about the part being presented.
Flight ==
  /\ fb.frame_ready <=> pc \in Presents
  /\ pc \in Presents => /\ vq.cmd = Request(pc, Region(fb.ready_dirty)) /\ ready
                        /\ fb.ready_dirty.any /\ backend # "Mmio"
  /\ pc \notin Presents => vq.cmd.type \notin Presents

\* That part is where the request needs it: in the backing, then in the device's
\* copy once the transfer was answered well, then on the screen once the flush was.
Carried ==
  smashed = "no" =>
    /\ pc \in Presents => Loaded /\ fb.ready_dirty.y1 <= mode.h
    /\ pc = "TRANSFER_TO_HOST_2D" /\ vq.resp = "ok" => Carries(host)
    /\ pc = "RESOURCE_FLUSH" => Carries(host)
    /\ pc = "RESOURCE_FLUSH" /\ vq.resp = "ok" => Carries(screen)

\* No long row ever spoils the last column of the backing.
Edged ==
  smashed = "no" /\ backend # "Mmio" /\ Width < 2 * mode.w
    => \A p \in Edge \ lost : gpu_fb[Offset(p)] = fb.back[p]

\* Away from the part being presented the screen is current.
Current ==
  ready /\ smashed = "no" /\ (backend = "Mmio" \/ Width < 2 * mode.w)
    => \A p \in Shown \ lost : \/ pc \in Presents /\ p \in Inside(fb.ready_dirty)
                               \/ screen[p] = fb.back[p]

IInv == Typed /\ Flight /\ Carried /\ Edged /\ Current

(* ------------------------------ the device ------------------------------ *)
\* A row ends before the next begins.
LEMMA RowOrder ==
  ASSUME NEW w \in Nat \ {0}, NEW a \in Nat, NEW b \in Nat, a < b
  PROVE  a * w \in Nat /\ b * w \in Nat /\ a * w + w <= b * w
<1>1. b - a - 1 \in Nat
  OBVIOUS
<1>2. (b - a - 1) * w \in Nat /\ a * w \in Nat /\ b * w \in Nat
  BY <1>1, Times
<1>3. b * w = (b - a - 1) * w + a * w + w
  <2>1. b = (b - a - 1) + a + 1
    OBVIOUS
  <2>2. ASSUME NEW c \in Nat PROVE (c + a + 1) * w = c * w + a * w + w
    OBVIOUS
  <2>. QED
    BY <1>1, <2>1, <2>2
<1>. QED
  BY <1>2, <1>3

\* What a pixel's offset is made of.
LEMMA OffsetFacts ==
  ASSUME mode \in Mode, NEW p \in Pixel
  PROVE  /\ mode.w \in Nat \ {0} /\ mode.h \in Nat \ {0}
         /\ p[1] \in Nat /\ p[1] < Width /\ p[2] \in Nat /\ p[2] < Height
         /\ p[2] * mode.w \in Nat /\ Offset(p) = p[2] * mode.w + p[1]
<1>1. mode.w \in Nat \ {0} /\ mode.h \in Nat \ {0}
  BY Zenon DEF Mode
<1>2. p[1] \in Nat /\ p[1] < Width /\ p[2] \in Nat /\ p[2] < Height
  BY Zenon, PixelFacts
<1>3. p[2] * mode.w \in Nat
  BY <1>1, <1>2, Times
<1>. QED
  BY Zenon, <1>1, <1>2, <1>3 DEF Offset

\* A pixel the device has room for lies in the backing.
LEMMA RoomIsBacked ==
  ASSUME mode \in Mode, NEW p \in Pixel, Room(p)
  PROVE  Offset(p) \in 0 .. mode.w * mode.h - 1
<1>1. /\ mode.w \in Nat \ {0} /\ mode.h \in Nat \ {0} /\ p[1] \in Nat /\ p[2] \in Nat
      /\ p[2] * mode.w \in Nat /\ Offset(p) = p[2] * mode.w + p[1]
  BY Zenon, OffsetFacts
<1>2. p[1] < mode.w /\ p[2] < mode.h
  BY Zenon DEF Room
<1>3. mode.h * mode.w \in Nat /\ p[2] * mode.w + mode.w <= mode.h * mode.w
  BY <1>1, <1>2, RowOrder
<1>4. ASSUME NEW a \in Nat, NEW b \in Nat PROVE a * b = b * a
  OBVIOUS
<1>5. mode.h * mode.w = mode.w * mode.h
  BY Zenon, <1>1, <1>4
<1> DEFINE y == p[2] * mode.w
           n == mode.h * mode.w
<1>6. /\ y \in Nat /\ n \in Nat /\ y + mode.w <= n /\ Offset(p) = y + p[1]
  BY Zenon, <1>1, <1>3
<1>. HIDE DEF y, n
<1>7. Offset(p) \in 0 .. n - 1
  BY <1>1, <1>2, <1>6
<1>. QED
  BY Zenon, <1>5, <1>7 DEF n

\* Two pixels share an offset only when one lies beyond the device's row, above
\* the other.
LEMMA OffsetsDiffer ==
  ASSUME mode \in Mode, NEW p \in Pixel, NEW q \in Pixel, Room(p), Offset(q) = Offset(p), q # p
  PROVE  ~(p[2] <= q[2]) /\ p[1] + mode.w <= q[1]
<1> DEFINE w == mode.w
           a == p[2] * w
           b == q[2] * w
<1>1. /\ w \in Nat \ {0} /\ p[1] \in Nat /\ p[2] \in Nat /\ q[1] \in Nat /\ q[2] \in Nat
      /\ a \in Nat /\ b \in Nat /\ b + q[1] = a + p[1]
  BY Zenon, OffsetFacts
<1>2. p[1] < w
  BY Zenon DEF Room
<1>3. /\ p[2] < q[2] => a + w <= b
      /\ q[2] < p[2] => b + w <= a
  BY <1>1, RowOrder
<1>4. p[2] # q[2]
  <2>1. ASSUME p[2] = q[2] PROVE FALSE
    <3>1. a = b
      BY <2>1
    <3>. HIDE DEF a, b, w
    <3>2. q[1] = p[1]
      BY <1>1, <3>1
    <3>. QED
      BY Zenon, <2>1, <3>2, PixelFacts
  <2>. QED
    BY Zenon, <2>1
<1>. HIDE DEF a, b, w
<1>5. ~(p[2] <= q[2]) /\ p[1] + w <= q[1]
  BY <1>1, <1>2, <1>3, <1>4
<1>. QED
  BY Zenon, <1>5 DEF w

\* A rectangle is cut to the screen.
LEMMA InsideScreen == \A r : Inside(r) \in SUBSET Pixel
BY Zenon DEF Inside

\* The rectangle's pixels are in b, and the last column is touched by its own only.
IsBlit(b, src, r) ==
  /\ DOMAIN b = DOMAIN gpu_fb
  /\ \A p \in Inside(r) : Room(p) => b[Offset(p)] = src[p]
  /\ Width < 2 * mode.w => \A p \in Edge \ Inside(r) : b[Offset(p)] = gpu_fb[Offset(p)]

\* What the copy to the backing does.
LEMMA BlitFacts ==
  ASSUME mode \in Mode, DOMAIN gpu_fb = 0 .. mode.w * mode.h - 1, NEW src, NEW r
  PROVE  IsBlit(Blitted(src, r), src, r)
<1> DEFINE From(o) == {q \in Inside(r) : Offset(q) = o}
           Last(o) == CHOOSE p \in From(o) : \A q \in From(o) : q[2] <= p[2]
<1>1. /\ DOMAIN Blitted(src, r) = DOMAIN gpu_fb
      /\ \A o \in DOMAIN gpu_fb :
           Blitted(src, r)[o] = IF From(o) = {} THEN gpu_fb[o] ELSE src[Last(o)]
  BY Zenon DEF Blitted
<1>2. \A q \in Inside(r) : q \in Pixel
  BY Zenon, InsideScreen
<1>3. ASSUME NEW p \in Inside(r), Room(p) PROVE Blitted(src, r)[Offset(p)] = src[p]
  <2>1. Offset(p) \in DOMAIN gpu_fb /\ p \in From(Offset(p))
    BY Zenon, <1>2, <1>3, RoomIsBacked
  <2>2. \A q \in From(Offset(p)) : p[2] <= q[2] => q = p
    BY Zenon, <1>2, <1>3, OffsetsDiffer
  <2>3. \A q \in From(Offset(p)) : q[2] <= p[2]
    <3>1. ASSUME NEW q \in From(Offset(p)) PROVE q[2] <= p[2]
      <4>1. q[2] \in Nat /\ p[2] \in Nat /\ (p[2] <= q[2] => q = p)
        BY Zenon, <1>2, <2>2, PixelFacts
      <4>. QED
        BY <4>1
    <3>. QED
      BY Zenon, <3>1
  <2>. HIDE DEF From
  <2>4. Last(Offset(p)) \in From(Offset(p)) /\ p[2] <= Last(Offset(p))[2]
    BY Zenon, <2>1, <2>3
  <2>5. Last(Offset(p)) = p
    BY Zenon, <2>2, <2>4
  <2>. QED
    BY Zenon, <1>1, <2>1, <2>5
<1>4. ASSUME Width < 2 * mode.w, NEW p \in Edge, p \notin Inside(r)
      PROVE  Blitted(src, r)[Offset(p)] = gpu_fb[Offset(p)]
  <2>1. p \in Pixel /\ Room(p) /\ p[1] = mode.w - 1
    BY Zenon DEF Edge
  <2>2. ASSUME NEW q \in From(Offset(p)) PROVE FALSE
    <3>1. q \in Pixel /\ q # p /\ Offset(q) = Offset(p)
      BY Zenon, <1>2, <1>4
    <3>2. p[1] + mode.w <= q[1]
      BY Zenon, <2>1, <3>1, OffsetsDiffer
    <3>3. /\ mode.w \in Nat \ {0} /\ q[1] \in Nat /\ q[1] < Width
      BY Zenon, <3>1, OffsetFacts
    <3>4. Width \in Nat
      BY Zenon, Sizes
    <3>. QED
      BY <1>4, <2>1, <3>2, <3>3, <3>4
  <2>3. Offset(p) \in DOMAIN gpu_fb
    BY Zenon, <2>1, RoomIsBacked
  <2>. QED
    BY Zenon, <1>1, <2>2, <2>3
<1>. QED
  BY Zenon, <1>1, <1>3, <1>4 DEF IsBlit

\* A copy that stays in the backing is not cut at the bottom, and on a device as
\* large as the framebuffer every copy does.
LEMMA StaysInside ==
  ASSUME mode \in Mode, NEW r \in Area, Rect(r), r.any
  PROVE  /\ ~RunsPast(r) => r.y1 <= mode.h
         /\ Width <= mode.w /\ Height <= mode.h => ~RunsPast(r)
<1>1. /\ r.x0 \in Nat /\ r.x1 \in Nat /\ r.y0 \in Nat /\ r.y1 \in Nat
      /\ mode.w \in Nat \ {0} /\ mode.h \in Nat \ {0}
  BY Zenon DEF Area, Mode
<1>2. r.x0 < r.x1 /\ r.x1 <= Width /\ r.y0 < r.y1 /\ r.y1 <= Height
  BY Zenon DEF Rect
<1>3. Width \in Nat /\ Height \in Nat
  BY Zenon, Sizes
<1>4. ASSUME NEW a \in Nat, NEW b \in Nat PROVE a * b = b * a
  OBVIOUS
<1>5. mode.h * mode.w = mode.w * mode.h
  BY Zenon, <1>1, <1>4
<1>6. ASSUME ~(r.y1 <= mode.h) PROVE RunsPast(r)
  <2> DEFINE p == <<r.x0, r.y1 - 1>>
  <2>1. /\ r.y1 - 1 \in Nat /\ r.x0 < Width /\ r.y1 - 1 < Height /\ mode.h <= r.y1 - 1
        /\ r.y0 <= r.y1 - 1 /\ r.y1 - 1 < r.y1 /\ r.x0 <= r.x0
    BY <1>1, <1>2, <1>3, <1>6
  <2>2. p \in Pixel /\ p[1] = r.x0 /\ p[2] = r.y1 - 1
    BY Zenon, <1>1, <2>1, PixelFacts
  <2>. HIDE DEF p
  <2>3. p \in Inside(r)
    BY Zenon, <1>2, <2>1, <2>2 DEF Inside
  <2>4. /\ p[2] \in Nat /\ p[1] \in Nat /\ p[2] * mode.w \in Nat
        /\ Offset(p) = p[2] * mode.w + p[1]
    BY Zenon, <2>2, OffsetFacts
  <2>5. mode.h * mode.w \in Nat /\ mode.h * mode.w <= p[2] * mode.w
    <3>1. CASE mode.h = p[2]
      BY <2>4, <3>1
    <3>2. CASE mode.h # p[2]
      <4>1. mode.h < p[2]
        BY <1>1, <2>1, <2>2, <3>2
      <4>. QED
        BY <1>1, <2>4, <4>1, RowOrder
    <3>. QED
      BY Zenon, <3>1, <3>2
  <2>6. ASSUME NEW n \in Nat, NEW y \in Nat, NEW x \in Nat, n <= y PROVE y + x >= n
    BY <2>6
  <2>7. Offset(p) >= mode.w * mode.h
    BY Zenon, <1>5, <2>4, <2>5, <2>6
  <2>. QED
    BY Zenon, <2>3, <2>7 DEF RunsPast
<1>7. ASSUME Width <= mode.w, Height <= mode.h, NEW p \in Inside(r), Offset(p) >= mode.w * mode.h
      PROVE  FALSE
  <2>1. p \in Pixel
    BY Zenon, InsideScreen
  <2>2. p[1] \in Nat /\ p[1] < Width /\ p[2] \in Nat /\ p[2] < Height
    BY Zenon, <2>1, PixelFacts
  <2>3. Room(p)
    BY <1>1, <1>3, <1>7, <2>2 DEF Room
  <2>4. Offset(p) \in 0 .. mode.w * mode.h - 1
    BY Zenon, <2>1, <2>3, RoomIsBacked
  <2>5. mode.w * mode.h \in Nat
    BY <1>1, Times
  <2>6. ASSUME NEW n \in Nat, NEW o \in 0 .. n - 1 PROVE ~(o >= n)
    OBVIOUS
  <2>. QED
    BY Zenon, <1>7, <2>4, <2>5, <2>6
<1>. QED
  BY Zenon, <1>6, <1>7 DEF RunsPast

\* The region the device is sent: on the device, all that it can show of the
\* rectangle, and beyond the rectangle only pixels of the last column.
LEMMA RegionFacts ==
  ASSUME mode \in Mode, NEW r \in Area, Rect(r), r.any
  PROVE  /\ Region(r) \in Area
         /\ \A p \in Inside(r) : Room(p) => p \in Inside(Region(r))
         /\ r.y1 <= mode.h => \A p \in Inside(Region(r)) : p \in Inside(r) \/ p \in Edge
<1> DEFINE w == mode.w
           h == mode.h
           x == IF r.x0 < w - 1 THEN r.x0 ELSE w - 1
           y == IF r.y0 < h - 1 THEN r.y0 ELSE h - 1
           s == Region(r)
<1>1. /\ r.x0 \in Nat /\ r.x1 \in Nat /\ r.y0 \in Nat /\ r.y1 \in Nat
      /\ w \in Nat \ {0} /\ h \in Nat \ {0}
  BY Zenon DEF Area, Mode
<1>2. r.x0 < r.x1 /\ r.x1 <= Width /\ r.y0 < r.y1 /\ r.y1 <= Height
  BY Zenon DEF Rect
<1>3. s = [any |-> TRUE, x0 |-> x, y0 |-> y,
           x1 |-> x + (IF r.x1 - r.x0 < w - x THEN r.x1 - r.x0 ELSE w - x),
           y1 |-> y + (IF r.y1 - r.y0 < h - y THEN r.y1 - r.y0 ELSE h - y)]
  BY Zenon DEF Region, Smaller
<1>. HIDE DEF w, h, s
<1>4. /\ s.x0 = x /\ s.y0 = y
      /\ s.x1 = x + (IF r.x1 - r.x0 < w - x THEN r.x1 - r.x0 ELSE w - x)
      /\ s.y1 = y + (IF r.y1 - r.y0 < h - y THEN r.y1 - r.y0 ELSE h - y)
  BY Zenon, <1>3
<1>5. x \in Nat /\ y \in Nat /\ s.x1 \in Nat /\ s.y1 \in Nat
  BY <1>1, <1>2, <1>4
<1>6. s \in Area
  BY <1>3, <1>4, <1>5 DEF Area
<1>7. ASSUME NEW p \in Pixel
      PROVE  /\ p[1] \in Nat /\ p[2] \in Nat
             /\ p \in Inside(r) <=> r.x0 <= p[1] /\ p[1] < r.x1 /\ r.y0 <= p[2] /\ p[2] < r.y1
             /\ p \in Inside(s) <=> s.x0 <= p[1] /\ p[1] < s.x1 /\ s.y0 <= p[2] /\ p[2] < s.y1
             /\ Room(p) <=> p[1] < w /\ p[2] < h
             /\ p \in Edge <=> Room(p) /\ p[1] = w - 1
  BY Zenon, PixelFacts DEF Inside, Room, Edge, w, h
<1>8. ASSUME NEW p \in Pixel, p \in Inside(r), Room(p) PROVE p \in Inside(s)
  <2>1. /\ p[1] \in Nat /\ p[2] \in Nat /\ p[1] < w /\ p[2] < h
        /\ r.x0 <= p[1] /\ p[1] < r.x1 /\ r.y0 <= p[2] /\ p[2] < r.y1
    BY Zenon, <1>7, <1>8
  <2>2. s.x0 <= p[1] /\ p[1] < s.x1 /\ s.y0 <= p[2] /\ p[2] < s.y1
    BY <1>1, <1>2, <1>4, <2>1
  <2>. QED
    BY Zenon, <1>7, <2>2
<1>9. ASSUME r.y1 <= h, NEW p \in Pixel, p \in Inside(s) PROVE p \in Inside(r) \/ p \in Edge
  <2>1. /\ p[1] \in Nat /\ p[2] \in Nat
        /\ s.x0 <= p[1] /\ p[1] < s.x1 /\ s.y0 <= p[2] /\ p[2] < s.y1
    BY Zenon, <1>7, <1>9
  <2>2. /\ p[1] < w /\ p[2] < h
        /\ \/ r.x0 <= p[1] /\ p[1] < r.x1 /\ r.y0 <= p[2] /\ p[2] < r.y1
           \/ p[1] = w - 1
    BY <1>1, <1>2, <1>4, <1>9, <2>1
  <2>. QED
    BY Zenon, <1>7, <2>2
<1>10. \A p : p \in Inside(r) \/ p \in Inside(s) => p \in Pixel
  BY Zenon, InsideScreen
<1>. QED
  BY Zenon, <1>6, <1>8, <1>9, <1>10 DEF s, h

(* ------------------------------- the queue ------------------------------ *)
LEMMA StepNat == ASSUME NEW i \in Nat PROVE Step(i) \in Nat
<1>1. IdxWrap \in Nat \ {0}
  BY Zenon, Sizes
<1>. QED
  BY <1>1 DEF Step

\* submit_request puts the command in the queue, with no response yet.
LEMMA Submitted ==
  ASSUME NEW q \in Queue, NEW c \in Command
  PROVE  /\ submit_request(q, c) \in Queue
         /\ submit_request(q, c).cmd = c /\ submit_request(q, c).resp = "none"
<1>1. Step(q.avail) \in Nat
  BY Zenon, StepNat DEF Queue
<1>. QED
  BY <1>1 DEF submit_request, Queue

\* The device that takes a request leaves command and response.
LEMMA ConsumedQueue ==
  ASSUME vq \in Queue
  PROVE  Consumed \in Queue /\ Consumed.cmd = vq.cmd /\ Consumed.resp = vq.resp
<1>1. Step(vq.last_used) \in Nat
  BY Zenon, StepNat DEF Queue
<1>. QED
  BY <1>1 DEF Consumed, Queue

\* The clean area is an area, and empty.
LEMMA CleanArea == Clean \in Area /\ Rect(Clean) /\ ~Clean.any
BY DEF Clean, Area, Rect

\* A queue given back presents nothing.
LEMMA ReturnedQueue ==
  ASSUME NEW q \in Queue
  PROVE  Returned(q) \in Queue /\ Returned(q).cmd.type \notin Presents
<1>1. Dead \in Command /\ Dead.type \notin Presents
  BY CleanArea DEF Dead, Request, Command, Presents
<1>2. Returned(q) \in Queue /\ Returned(q).cmd = Dead
  BY <1>1 DEF Returned, Queue
<1>. QED
  BY Zenon, <1>1, <1>2

\* The requests of the probe are none of the present's.
LEMMA ProbeRequests ==
  /\ Len(Requests) = 4
  /\ \A i \in 1 .. 4 : /\ Requests[i] \in Probing /\ Requests[i] \notin Presents
                       /\ [Nothing EXCEPT !.type = Requests[i]] \in Command
                       /\ [Nothing EXCEPT !.type = Requests[i]].type = Requests[i]
  /\ "SET_SCANOUT" \notin Presents /\ "idle" \notin Presents
  /\ \A x \in Probing : x \notin Presents
<1>1. Len(Requests) = 4 /\ DOMAIN Requests = 1 .. 4
  BY DEF Requests
<1>2. \A i \in 1 .. 4 : Requests[i] \in Probing
  BY Zenon, <1>1 DEF Probing
<1>3. \A i \in 1 .. 4 : Requests[i] \notin Presents
  BY DEF Requests, Presents
<1>4. \A x : [Nothing EXCEPT !.type = x] = [type |-> x, rect |-> Clean]
  BY DEF Nothing, Request
<1>5. \A x \in Probing : [type |-> x, rect |-> Clean] \in Command
  BY CleanArea DEF Command
<1>6. \A x : [type |-> x, rect |-> Clean].type = x
  OBVIOUS
<1>7. "SET_SCANOUT" \notin Presents /\ "idle" \notin Presents
  BY DEF Presents
<1>8. \A x \in Probing : x \notin Presents
  BY Zenon, <1>1, <1>3 DEF Probing
<1>. QED
  BY ZenonT(30), <1>1, <1>2, <1>3, <1>4, <1>5, <1>6, <1>7, <1>8

(* -------------------------------- the steps ----------------------------- *)
IsCopy(b, src, dst, r) == \A p \in Pixel : b[p] = IF p \in Inside(r) THEN src[p] ELSE dst[p]

\* What a copy of a rectangle does.
LEMMA CopiedBuffer ==
  ASSUME NEW src, NEW dst, NEW r
  PROVE  IsCopy(Copied(src, dst, r), src, dst, r)
BY Zenon DEF Copied, IsCopy

\* The device keeps its size: what is said of a pixel stays true of it.
LEMMA SameMode ==
  ASSUME mode' = mode
  PROVE  /\ \A p : Room(p)' <=> Room(p)
         /\ Edge' = Edge
         /\ backend' = backend => Shown' = Shown
         /\ Region(fb.ready_dirty)' = Region(fb'.ready_dirty)
         /\ Loaded' <=> \A p \in Inside(fb'.ready_dirty) :
                           Room(p) => gpu_fb'[Offset(p)] = fb'.back[p]
         /\ Carries(host)' <=> \A p \in Inside(Region(fb'.ready_dirty)) :
                                  host'[p] = gpu_fb'[Offset(p)]
         /\ Carries(screen)' <=> \A p \in Inside(Region(fb'.ready_dirty)) :
                                    screen'[p] = gpu_fb'[Offset(p)]
         /\ Edged' <=> (smashed' = "no" /\ backend' # "Mmio" /\ Width < 2 * mode.w
                          => \A p \in Edge \ lost' : gpu_fb'[Offset(p)] = fb'.back[p])
         /\ Current' <=>
              (ready' /\ smashed' = "no" /\ (backend' = "Mmio" \/ Width < 2 * mode.w)
                 => \A p \in Shown' \ lost' : \/ pc' \in Presents /\ p \in Inside(fb'.ready_dirty)
                                              \/ screen'[p] = fb'.back[p])
<1>1. \A p : Room(p)' <=> Room(p)
  BY Zenon DEF Room
<1>2. Edge' = Edge
  BY Zenon DEF Edge, Room
<1>3. backend' = backend => Shown' = Shown
  BY Zenon DEF Shown
<1>4. Region(fb.ready_dirty)' = Region(fb'.ready_dirty)
  BY Zenon DEF Region, Smaller
<1>5. Loaded' <=> \A p \in Inside(fb'.ready_dirty) :
                     Room(p) => gpu_fb'[Offset(p)] = fb'.back[p]
  BY Zenon DEF Loaded, Room, Offset
<1>6. Carries(host)' <=> \A p \in Inside(Region(fb'.ready_dirty)) :
                            host'[p] = gpu_fb'[Offset(p)]
  BY Zenon, <1>4 DEF Carries, Offset
<1>7. Carries(screen)' <=> \A p \in Inside(Region(fb'.ready_dirty)) :
                              screen'[p] = gpu_fb'[Offset(p)]
  BY Zenon, <1>4 DEF Carries, Offset
<1>8. Edged' <=> (smashed' = "no" /\ backend' # "Mmio" /\ Width < 2 * mode.w
                    => \A p \in Edge \ lost' : gpu_fb'[Offset(p)] = fb'.back[p])
  BY Zenon, <1>2 DEF Edged, Offset
<1>9. Current' <=>
        (ready' /\ smashed' = "no" /\ (backend' = "Mmio" \/ Width < 2 * mode.w)
           => \A p \in Shown' \ lost' : \/ pc' \in Presents /\ p \in Inside(fb'.ready_dirty)
                                        \/ screen'[p] = fb'.back[p])
  BY Zenon DEF Current
<1>. QED
  BY Zenon, <1>1, <1>2, <1>3, <1>4, <1>5, <1>6, <1>7, <1>8, <1>9

\* Nothing is in flight after the step.
LEMMA IdleFlight ==
  ASSUME pc' \notin Presents, ~fb'.frame_ready, vq'.cmd.type \notin Presents
  PROVE  Flight' /\ Carried'
BY Zenon DEF Flight, Carried, Presents

\* A frame is painted over the one on the screen, committed and presented.
LEMMA PresentStep ==
  ASSUME IInv, smashed = "no", ready, pc = "idle", NEW g, Kept(fb, g), present(g),
         cx' \in 0 .. Cols, cy' \in 0 .. Rows - 1, UNCHANGED <<ready, backend, mode, host>>
  PROVE  IInv' /\ fb'.back = g.back
<1> DEFINE c == commit(g)
           R == Inside(g.dirty)
<1>1. /\ Sound(c) /\ ~c.dirty.any /\ c.back = g.back /\ c.present_buf = g.back
      /\ IF g.dirty.any THEN c.frame_ready = TRUE /\ c.ready_dirty = g.dirty ELSE c = g
  BY Zenon, Commit DEF Kept
<1>2. /\ Sound(g) /\ g.present_buf = fb.present_buf /\ g.frame_ready = fb.frame_ready
      /\ g.back \in Buffer /\ g.dirty \in Area /\ Rect(g.dirty)
  BY Zenon, FrameFields DEF Kept, Sound, Framed
<1>3. /\ Sound(fb) /\ ~fb.dirty.any /\ ~fb.frame_ready /\ "idle" \notin Presents
      /\ mode \in Mode /\ DOMAIN gpu_fb = 0 .. mode.w * mode.h - 1 /\ vq \in Queue
      /\ lost \in SUBSET Pixel /\ vq.cmd.type \notin Presents /\ ready \in BOOLEAN
  BY Zenon, ProbeRequests DEF IInv, Typed, Flight
<1>9. backend = "Mmio" \/ Width < 2 * mode.w => \A p \in Shown \ lost : screen[p] = fb.back[p]
  BY Zenon, <1>3 DEF IInv, Current
<1>10. backend # "Mmio" /\ Width < 2 * mode.w => \A p \in Edge \ lost : gpu_fb[Offset(p)] = fb.back[p]
  BY Zenon DEF IInv, Edged
<1>11. Shown \in SUBSET Pixel /\ Edge \in SUBSET Pixel /\ (backend = "Mmio" => Shown = Pixel)
  BY Zenon DEF Shown, Edge
<1>4. \A p \in Pixel : ~g.dirty.any \/ p \notin R => g.back[p] = fb.back[p]
  BY ZenonT(30), <1>2, <1>3 DEF Sound, Covered
<1>8. ready' /\ ready' \in BOOLEAN /\ backend' = backend /\ mode' = mode /\ host' = host
  BY <1>3
<1>12. Shown' = Shown
  BY Zenon, <1>8, SameMode
<1>5. present(g) <=>
        IF ~c.frame_ready
        THEN fb' = c /\ UNCHANGED <<gpu_fb, screen, vq, pc, lost, smashed>>
        ELSE IF backend = "Mmio"
        THEN /\ screen' = Copied(c.present_buf, screen, c.ready_dirty)
             /\ fb' = Presented(c)
             /\ lost' = lost \ Inside(c.ready_dirty)
             /\ UNCHANGED <<gpu_fb, vq, pc, smashed>>
        ELSE /\ gpu_fb' = Blitted(c.present_buf, c.ready_dirty)
             /\ smashed' = IF RunsPast(c.ready_dirty) THEN "heap" ELSE "no"
             /\ fb' = c
             /\ vq' = submit_request(vq, Request("TRANSFER_TO_HOST_2D", Region(c.ready_dirty)))
             /\ pc' = "TRANSFER_TO_HOST_2D"
             /\ UNCHANGED <<screen, lost>>
  BY Zenon DEF present
<1>. HIDE DEF c
<1>6. CASE ~g.dirty.any
  <2>1. c = g /\ ~c.frame_ready
    BY Zenon, <1>1, <1>2, <1>3, <1>6
  <2>2. /\ fb' = g /\ gpu_fb' = gpu_fb /\ screen' = screen /\ vq' = vq /\ pc' = pc
        /\ lost' = lost /\ smashed' = smashed
    BY Zenon, <1>5, <2>1
  <2>3. \A p \in Pixel : fb'.back[p] = fb.back[p]
    BY Zenon, <1>4, <1>6, <2>2
  <2>4. IInv'
    <3>1. Typed'
      BY ZenonT(30), <1>2, <1>3, <1>6, <1>8, <2>2 DEF Typed
    <3>2. Flight' /\ Carried'
      BY ZenonT(30), <1>2, <1>3, <2>2, IdleFlight
    <3>3. Edged'
      <4>1. ASSUME backend # "Mmio", Width < 2 * mode.w, NEW p \in Edge \ lost
            PROVE  gpu_fb'[Offset(p)] = fb'.back[p]
        BY Zenon, <1>10, <1>11, <2>2, <2>3, <4>1
      <4>2. backend' # "Mmio" /\ Width < 2 * mode.w
              => \A p \in Edge \ lost' : gpu_fb'[Offset(p)] = fb'.back[p]
        BY Zenon, <1>8, <2>2, <4>1
      <4>. QED
        BY Zenon, <1>8, <4>2, SameMode
    <3>4. Current'
      BY ZenonT(30), <1>8, <1>9, <1>11, <1>12, <2>2, <2>3, SameMode
    <3>. QED
      BY Zenon, <3>1, <3>2, <3>3, <3>4 DEF IInv
  <2>. QED
    BY Zenon, <2>2, <2>4
<1>7. CASE g.dirty.any
  <2>1. c.frame_ready /\ c.ready_dirty = g.dirty /\ R \in SUBSET Pixel
    BY Zenon, <1>1, <1>7, InsideScreen
  <2>2. CASE backend = "Mmio"
    <3>1. /\ screen' = Copied(g.back, screen, g.dirty) /\ fb' = Presented(c)
          /\ lost' = lost \ R /\ gpu_fb' = gpu_fb /\ vq' = vq /\ pc' = pc
          /\ smashed' = smashed
      BY ZenonT(30), <1>1, <1>5, <2>1, <2>2
    <3>2. /\ Sound(fb') /\ ~fb'.dirty.any /\ fb'.back = g.back /\ ~fb'.frame_ready
      BY Zenon, <1>1, <3>1, PresentedFrame
    <3> DEFINE copy == Copied(g.back, screen, g.dirty)
    <3>3. \A p \in Pixel : copy[p] = IF p \in R THEN g.back[p] ELSE screen[p]
      <4>1. IsCopy(copy, g.back, screen, g.dirty)
        BY Zenon, CopiedBuffer
      <4>. QED
        BY Zenon, <4>1 DEF IsCopy
    <3>6. screen' = copy
      BY Zenon, <3>1
    <3>. HIDE DEF copy
    <3>4. \A p \in Pixel \ lost' : screen'[p] = fb'.back[p]
      BY ZenonT(30), <1>4, <1>9, <1>11, <2>2, <3>1, <3>2, <3>3, <3>6
    <3>5. lost' \in SUBSET Pixel
      BY Zenon, <1>3, <3>1
    <3>7. IInv'
      <4>1. Typed'
        BY Zenon, <1>3, <1>8, <3>1, <3>2, <3>5 DEF Typed, IInv
      <4>2. Flight' /\ Carried'
        BY Zenon, <1>3, <3>1, <3>2, IdleFlight
      <4>3. Edged'
        BY Zenon, <1>8, <2>2 DEF Edged
      <4>4. Current'
        BY Zenon, <1>8, <1>11, <1>12, <2>2, <3>4, SameMode
      <4>. QED
        BY Zenon, <4>1, <4>2, <4>3, <4>4 DEF IInv
    <3>. QED
      BY Zenon, <3>2, <3>7
  <2>3. CASE backend # "Mmio"
    <3> DEFINE region == Region(g.dirty)
               req == Request("TRANSFER_TO_HOST_2D", region)
               blit == Blitted(g.back, g.dirty)
    <3>1. /\ gpu_fb' = blit /\ fb' = c /\ vq' = submit_request(vq, req)
          /\ smashed' = IF RunsPast(g.dirty) THEN "heap" ELSE "no"
          /\ lost' = lost /\ screen' = screen /\ pc' = "TRANSFER_TO_HOST_2D"
      BY Zenon, <1>1, <1>5, <2>1, <2>3
    <3>2. /\ DOMAIN blit = DOMAIN gpu_fb
          /\ \A p \in R : Room(p) => blit[Offset(p)] = g.back[p]
          /\ Width < 2 * mode.w => \A p \in Edge \ R : blit[Offset(p)] = gpu_fb[Offset(p)]
      <4>1. IsBlit(blit, g.back, g.dirty)
        BY Zenon, <1>3, BlitFacts
      <4>. QED
        BY Zenon, <4>1 DEF IsBlit
    <3>. HIDE DEF blit
    <3>3. /\ smashed' = "no" => g.dirty.y1 <= mode.h
          /\ Width <= mode.w /\ Height <= mode.h => smashed' # "heap"
      BY Zenon, <1>2, <1>3, <1>7, <3>1, StaysInside
    <3>4. region \in Area
      BY Zenon, <1>2, <1>3, <1>7, RegionFacts
    <3>10. Region(fb.ready_dirty)' = region
      BY Zenon, <1>8, <2>1, <3>1, SameMode
    <3>. HIDE DEF region
    <3>5. req \in Command
      BY <3>4 DEF Request, Command, Presents
    <3>6. vq' \in Queue /\ vq'.cmd = req /\ vq'.resp = "none"
      BY ZenonT(30), <1>3, <3>1, <3>5, Submitted
    <3>7. /\ pc' \in Presents /\ pc' # "RESOURCE_FLUSH" /\ vq'.resp # "ok"
          /\ vq'.cmd = Request(pc', Region(fb.ready_dirty)')
      BY Zenon, <3>1, <3>6, <3>10 DEF Presents
    <3>8. IInv'
      <4>1. Typed'
        BY ZenonT(30), <1>1, <1>3, <1>8, <3>1, <3>2, <3>3, <3>6 DEF Typed
      <4>2. Flight'
        <5>1. fb'.frame_ready /\ fb'.ready_dirty.any
          BY Zenon, <1>7, <2>1, <3>1
        <5>. QED
          BY Zenon, <1>8, <2>3, <3>7, <5>1 DEF Flight
      <4>3. Carried'
        <5>1. Loaded'
          <6>1. \A p \in Inside(fb'.ready_dirty) :
                   Room(p) => gpu_fb'[Offset(p)] = fb'.back[p]
            BY Zenon, <1>1, <2>1, <3>1, <3>2
          <6>. QED
            BY Zenon, <1>8, <6>1, SameMode
        <5>2. smashed' = "no" => fb'.ready_dirty.y1 <= mode'.h
          BY Zenon, <1>8, <2>1, <3>1, <3>3
        <5>. QED
          BY Zenon, <3>7, <5>1, <5>2 DEF Carried
      <4>4. Edged'
        <5>1. ASSUME Width < 2 * mode.w, NEW p \in Edge \ lost PROVE blit[Offset(p)] = g.back[p]
          <6>1. p \in Pixel /\ Room(p)
            BY Zenon DEF Edge
          <6>2. CASE p \in R
            BY Zenon, <3>2, <6>1, <6>2
          <6>3. CASE p \notin R
            <7>1. blit[Offset(p)] = gpu_fb[Offset(p)]
              BY Zenon, <3>2, <5>1, <6>3
            <7>2. gpu_fb[Offset(p)] = fb.back[p]
              BY Zenon, <1>10, <2>3, <5>1
            <7>. QED
              BY Zenon, <1>4, <6>1, <6>3, <7>1, <7>2
          <6>. QED
            BY Zenon, <6>2, <6>3
        <5>. QED
          BY ZenonT(30), <1>1, <1>8, <3>1, <5>1, SameMode
      <4>5. Current'
        <5>1. Width < 2 * mode.w =>
                \A p \in Shown \ lost : p \in R \/ screen[p] = g.back[p]
          BY Zenon, <1>4, <1>9, <1>11
        <5>2. backend' # "Mmio" /\ pc' \in Presents
          BY Zenon, <1>8, <2>3, <3>7
        <5>3. Width < 2 * mode.w =>
                \A p \in Shown' \ lost' : p \in Inside(fb'.ready_dirty) \/ screen'[p] = fb'.back[p]
          BY Zenon, <1>1, <1>12, <2>1, <3>1, <5>1
        <5>. QED
          BY Zenon, <1>8, <5>2, <5>3, SameMode
      <4>. QED
        BY Zenon, <4>1, <4>2, <4>3, <4>4, <4>5 DEF IInv
    <3>. QED
      BY Zenon, <1>1, <3>1, <3>8
  <2>. QED
    BY Zenon, <2>2, <2>3
<1>. QED
  BY Zenon, <1>6, <1>7

\* A step of the probe: nothing is presented before or after it.
LEMMA QuietStep ==
  ASSUME IInv, pc \notin Presents, pc' \notin Presents, vq' \in Queue,
         vq'.cmd.type \notin Presents,
         UNCHANGED <<fb, cx, cy, ready, backend, mode, device, lost, smashed>>
  PROVE  IInv'
<1>1. /\ fb' = fb /\ cx' = cx /\ cy' = cy /\ ready' = ready /\ gpu_fb' = gpu_fb
      /\ host' = host /\ screen' = screen /\ lost' = lost /\ backend' = backend
      /\ mode' = mode /\ smashed' = smashed
  BY Zenon DEF device
<1>5. (ready' <=> ready) /\ ready' \in BOOLEAN
  <2>1. ready \in BOOLEAN
    BY Zenon DEF IInv, Typed
  <2>. QED
    BY <1>1, <2>1
<1>2. Typed'
  BY Zenon, <1>1, <1>5 DEF IInv, Typed
<1>3. Flight' /\ Carried'
  <2>1. ~fb'.frame_ready
    BY Zenon, <1>1 DEF IInv, Flight
  <2>. QED
    BY Zenon, <2>1, IdleFlight
<1>4. Edged' /\ Current'
  <2>1. Shown' = Shown
    BY Zenon, <1>1, SameMode
  <2>2. Edged'
    BY Zenon, <1>1, SameMode DEF IInv, Edged
  <2>3. Current'
    BY Zenon, <1>1, <1>5, <2>1, SameMode DEF IInv, Current
  <2>. QED
    BY Zenon, <2>2, <2>3
<1>. QED
  BY Zenon, <1>2, <1>3, <1>4 DEF IInv

\* The steps from the search for the device to its last answer.
LEMMA ProbeStep ==
  ASSUME IInv,
         probe_absent \/ probe_found \/ probe_next \/ probe_refused \/ probe_timeout
  PROVE  IInv' /\ UNCHANGED <<fb, cx, cy>>
<1>1. vq \in Queue /\ (pc \notin Presents => vq.cmd.type \notin Presents)
  BY Zenon DEF IInv, Typed, Flight
<1>2. /\ \A i \in 1 .. 4 : /\ Requests[i] \notin Presents
                           /\ [Nothing EXCEPT !.type = Requests[i]] \in Command
                           /\ [Nothing EXCEPT !.type = Requests[i]].type = Requests[i]
      /\ "idle" \notin Presents /\ Len(Requests) = 4
      /\ \A x \in Probing : x \notin Presents
  BY Zenon, ProbeRequests
<1>3. \A q \in Queue, i \in 1 .. 4 :
        LET r == submit_request(q, [Nothing EXCEPT !.type = Requests[i]])
        IN  r \in Queue /\ r.cmd.type \notin Presents
  <2>1. ASSUME NEW q \in Queue, NEW i \in 1 .. 4
        PROVE  LET r == submit_request(q, [Nothing EXCEPT !.type = Requests[i]])
               IN  r \in Queue /\ r.cmd.type \notin Presents
    <3> DEFINE c == [Nothing EXCEPT !.type = Requests[i]]
    <3>1. c \in Command /\ c.type \notin Presents
      BY Zenon, <1>2
    <3>. HIDE DEF c
    <3>2. submit_request(q, c) \in Queue /\ submit_request(q, c).cmd = c
      BY Zenon, <3>1, Submitted
    <3>3. submit_request(q, c).cmd.type \notin Presents
      BY Zenon, <3>1, <3>2
    <3>. QED
      BY Zenon, <3>2, <3>3 DEF c
  <2>. QED
    BY Zenon, <2>1
<1>4. Consumed \in Queue
  BY Zenon, <1>1, ConsumedQueue
<1>5. CASE probe_absent
  <2>1. /\ pc = "idle" /\ pc' = pc /\ vq' = vq
        /\ UNCHANGED <<fb, cx, cy, ready, backend, mode, device, lost, smashed>>
    BY Zenon, <1>5 DEF probe_absent, console
  <2>. QED
    BY Zenon, <1>1, <1>2, <2>1, QuietStep
<1>6. CASE probe_found
  <2>1. /\ pc = "idle" /\ pc' = Requests[1]
        /\ vq' = submit_request(vq, [Nothing EXCEPT !.type = Requests[1]])
        /\ UNCHANGED <<fb, cx, cy, ready, backend, mode, device, lost, smashed>>
    BY Zenon, <1>6 DEF probe_found, console
  <2>2. 1 \in 1 .. 4
    OBVIOUS
  <2>3. vq' \in Queue /\ vq'.cmd.type \notin Presents /\ pc' \notin Presents /\ pc \notin Presents
    BY ZenonT(30), <1>1, <1>2, <1>3, <2>1, <2>2
  <2>. QED
    BY Zenon, <2>1, <2>3, QuietStep
<1>7. CASE probe_next
  <2>1. PICK i \in 1 .. Len(Requests) - 1 :
        /\ pc = Requests[i] /\ pc' = Requests[i + 1]
        /\ vq' = submit_request(Consumed, [Nothing EXCEPT !.type = Requests[i + 1]])
        /\ UNCHANGED <<fb, cx, cy, ready, backend, mode, device, lost, smashed>>
    BY Zenon, <1>7 DEF probe_next, console
  <2>2. i \in 1 .. 4 /\ i + 1 \in 1 .. 4
    BY <1>2
  <2>3. vq' \in Queue /\ vq'.cmd.type \notin Presents
    BY Zenon, <1>3, <1>4, <2>1, <2>2
  <2>4. pc' \notin Presents /\ pc \notin Presents
    BY Zenon, <1>2, <2>1, <2>2
  <2>. QED
    BY ZenonT(30), <2>1, <2>3, <2>4, QuietStep
<1>8. ASSUME NEW q \in Queue, ProbeFails(q), pc \in Probing
      PROVE  IInv' /\ UNCHANGED <<fb, cx, cy>>
  <2>1. /\ pc' = "idle" /\ vq' = Returned(q)
        /\ UNCHANGED <<fb, cx, cy, ready, backend, mode, device, lost, smashed>>
    BY Zenon, <1>8 DEF ProbeFails, console
  <2>2. vq' \in Queue /\ vq'.cmd.type \notin Presents
    BY Zenon, <2>1, ReturnedQueue
  <2>3. pc' \notin Presents /\ pc \notin Presents
    BY Zenon, <1>2, <1>8, <2>1
  <2>. QED
    BY Zenon, <2>1, <2>2, <2>3, QuietStep
<1>9. CASE probe_refused
  BY Zenon, <1>4, <1>8, <1>9 DEF probe_refused
<1>10. CASE probe_timeout
  BY Zenon, <1>1, <1>8, <1>10 DEF probe_timeout
<1>. QED
  BY Zenon, <1>5, <1>6, <1>7, <1>9, <1>10

\* Over a multiboot framebuffer: the new screen shows nothing yet, and that is known.
LEMMA BackendStep ==
  ASSUME IInv, set_backend
  PROVE  IInv' /\ UNCHANGED <<fb, cx, cy>>
<1>1. /\ pc = "SET_SCANOUT" /\ pc' = "idle" /\ vq' = Returned(Consumed)
      /\ lost' = Pixel /\ mode' = mode /\ smashed' = smashed
      /\ fb' = fb /\ cx' = cx /\ cy' = cy /\ ready' = ready /\ gpu_fb' = gpu_fb
  BY Zenon DEF set_backend, console
<1>2. pc \notin Presents /\ pc' \notin Presents
  BY Zenon, <1>1, ProbeRequests
<1>3. vq' \in Queue /\ vq'.cmd.type \notin Presents
  BY Zenon, <1>1, ConsumedQueue, ReturnedQueue DEF IInv, Typed
<1>4. \A p : p \notin Shown' \ lost' /\ p \notin Edge' \ lost'
  BY Zenon, <1>1 DEF Shown, Edge
<1>5. Typed'
  BY Zenon, <1>1, <1>3 DEF IInv, Typed
<1>6. Flight' /\ Carried'
  <2>1. ~fb'.frame_ready
    BY Zenon, <1>1, <1>2 DEF IInv, Flight
  <2>. QED
    BY Zenon, <1>2, <1>3, <2>1, IdleFlight
<1>7. Edged' /\ Current'
  BY Zenon, <1>4 DEF Edged, Current
<1>. QED
  BY Zenon, <1>1, <1>5, <1>6, <1>7 DEF IInv

\* Without one: a cleared frame is presented on the whole screen.
LEMMA FirstFrameStep ==
  ASSUME IInv, init_virtio_gpu
  PROVE  IInv' /\ fb'.back = fb.back /\ UNCHANGED <<cx, cy>>
<1> DEFINE g == fb_clear(fb)
           c == commit(g)
           region == Region(c.ready_dirty)
           req == Request("TRANSFER_TO_HOST_2D", region)
           blit == Blitted(c.present_buf, c.ready_dirty)
<1>1. /\ ~ready /\ ready' = TRUE /\ fb' = c /\ gpu_fb' = blit
      /\ vq' = submit_request(Consumed, req) /\ pc' = "TRANSFER_TO_HOST_2D"
      /\ cx' = cx /\ cy' = cy /\ lost' = lost /\ mode' = mode /\ smashed' = smashed
      /\ backend' = "VirtioGpu"
  BY Zenon DEF init_virtio_gpu, console
<1>2. /\ Sound(fb) /\ fb.back = Filled(BG) /\ vq \in Queue
      /\ mode \in Mode /\ mode = [w |-> Width, h |-> Height]
      /\ DOMAIN gpu_fb = 0 .. mode.w * mode.h - 1
  BY Zenon, <1>1 DEF IInv, Typed
<1>3. /\ Kept(fb, g) /\ g.back = Filled(BG) /\ g.dirty.any /\ Inside(g.dirty) = Pixel
  BY Zenon, <1>2, FillAll, Colours DEF fb_clear
<1>. HIDE DEF g
<1>4. /\ Sound(c) /\ ~c.dirty.any /\ c.back = g.back /\ c.present_buf = g.back
      /\ c.frame_ready = TRUE /\ c.ready_dirty = g.dirty
  BY Zenon, <1>3, Commit DEF Kept
<1>. HIDE DEF c
<1>5. c.ready_dirty \in Area /\ c.ready_dirty.any /\ Rect(c.ready_dirty)
  BY Zenon, <1>3, <1>4, FrameFields DEF Sound, Framed
<1>6. region \in Area /\ c.ready_dirty.y1 <= mode.h
  <2>1. mode.h = Height
    BY <1>2
  <2>2. c.ready_dirty.y1 <= Height
    BY Zenon, <1>5 DEF Rect
  <2>. QED
    BY Zenon, <1>2, <1>5, <2>1, <2>2, RegionFacts
<1>7. Region(fb.ready_dirty)' = region
  BY Zenon, <1>1, SameMode
<1>. HIDE DEF region
<1>8. req \in Command
  BY <1>6 DEF Request, Command, Presents
<1>9. vq' \in Queue /\ vq'.cmd = req /\ vq'.resp = "none"
  BY Zenon, <1>1, <1>2, <1>8, ConsumedQueue, Submitted
<1>10. IsBlit(blit, c.present_buf, c.ready_dirty)
  BY Zenon, <1>2, BlitFacts
<1>. HIDE DEF blit
<1>11. /\ DOMAIN gpu_fb' = DOMAIN gpu_fb
       /\ \A p \in Pixel : Room(p) => gpu_fb'[Offset(p)] = fb'.back[p]
  BY ZenonT(30), <1>1, <1>3, <1>4, <1>10 DEF IsBlit
<1>12. /\ pc' \in Presents /\ pc' # "RESOURCE_FLUSH" /\ vq'.resp # "ok"
       /\ vq'.cmd = Request(pc', Region(fb.ready_dirty)')
  BY Zenon, <1>1, <1>7, <1>9 DEF Presents
<1>13. Typed'
  <2>1. ready' \in BOOLEAN /\ ready'
    BY Zenon, <1>1
  <2>2. mode' \in Mode /\ DOMAIN gpu_fb' = 0 .. mode'.w * mode'.h - 1
    BY Zenon, <1>1, <1>2, <1>11
  <2>. QED
    BY Zenon, <1>1, <1>4, <1>9, <2>1, <2>2 DEF IInv, Typed
<1>14. Flight'
  <2>1. fb'.frame_ready /\ ready' /\ fb'.ready_dirty.any /\ backend' # "Mmio"
    BY Zenon, <1>1, <1>4, <1>5
  <2>. QED
    BY Zenon, <1>12, <2>1 DEF Flight
<1>15. Carried'
  <2>1. \A p \in Inside(fb'.ready_dirty) : Room(p) => gpu_fb'[Offset(p)] = fb'.back[p]
    BY Zenon, <1>11, InsideScreen
  <2>2. Loaded'
    BY Zenon, <1>1, <2>1, SameMode
  <2>3. fb'.ready_dirty.y1 <= mode'.h
    BY Zenon, <1>1, <1>6
  <2>. QED
    BY Zenon, <1>12, <2>2, <2>3 DEF Carried
<1>16. Edged'
  <2>1. \A p \in Edge : gpu_fb'[Offset(p)] = fb'.back[p]
    BY Zenon, <1>11 DEF Edge
  <2>. QED
    BY Zenon, <1>1, <2>1, SameMode
<1>17. Current'
  <2>1. \A p \in Shown' : p \in Inside(fb'.ready_dirty)
    BY Zenon, <1>1, <1>3, <1>4 DEF Shown
  <2>. QED
    BY Zenon, <1>12, <2>1 DEF Current
<1>. QED
  BY ZenonT(30), <1>1, <1>2, <1>3, <1>4, <1>13, <1>14, <1>15, <1>16, <1>17 DEF IInv

\* The transfer was answered well and the flush goes out.
LEMMA RegionStep ==
  ASSUME IInv, smashed = "no", present_region
  PROVE  IInv' /\ UNCHANGED <<fb, cx, cy>>
<1> DEFINE region == Region(fb.ready_dirty)
           req == Request("RESOURCE_FLUSH", region)
<1>1. /\ pc = "TRANSFER_TO_HOST_2D" /\ vq.resp = "ok" /\ pc' = "RESOURCE_FLUSH"
      /\ vq' = submit_request(Consumed, req)
      /\ fb' = fb /\ cx' = cx /\ cy' = cy /\ ready' = ready /\ gpu_fb' = gpu_fb
      /\ host' = host /\ screen' = screen /\ lost' = lost /\ backend' = backend
      /\ mode' = mode /\ smashed' = smashed
  BY Zenon DEF present_region, console, device
<1>2. /\ Sound(fb) /\ vq \in Queue /\ ready \in BOOLEAN /\ fb.ready_dirty \in Area
      /\ Rect(fb.ready_dirty) /\ mode \in Mode /\ pc \in Presents /\ pc' \in Presents
  BY Zenon, <1>1, FrameFields DEF IInv, Typed, Sound, Framed, Presents
<1>3. ready /\ fb.frame_ready /\ fb.ready_dirty.any /\ backend # "Mmio"
  BY Zenon, <1>1, <1>2 DEF IInv, Flight
<1>10. Loaded /\ Carries(host) /\ fb.ready_dirty.y1 <= mode.h
  BY Zenon, <1>1, <1>2 DEF IInv, Carried
<1>4. ready' /\ ready' \in BOOLEAN
  BY <1>1, <1>2, <1>3
<1>11. region \in Area
  BY Zenon, <1>2, <1>3, RegionFacts
<1>12. Region(fb.ready_dirty)' = region
  BY Zenon, <1>1, SameMode
<1>. HIDE DEF region
<1>5. req \in Command
  BY <1>11 DEF Request, Command, Presents
<1>6. vq' \in Queue /\ vq'.cmd = req /\ vq'.resp = "none"
  BY Zenon, <1>1, <1>2, <1>5, ConsumedQueue, Submitted
<1>7. Typed'
  BY Zenon, <1>1, <1>4, <1>6 DEF IInv, Typed
<1>8. Flight' /\ Carried'
  <2>1. fb'.frame_ready /\ fb'.ready_dirty.any /\ backend' # "Mmio"
    BY Zenon, <1>1, <1>3
  <2>2. /\ vq'.cmd = Request(pc', Region(fb.ready_dirty)')
        /\ vq'.resp # "ok" /\ pc' # "TRANSFER_TO_HOST_2D"
    BY Zenon, <1>1, <1>6, <1>12
  <2>3. Loaded'
    BY Zenon, <1>1, <1>10, SameMode DEF Loaded
  <2>4. Carries(host)'
    BY Zenon, <1>1, <1>10, SameMode DEF Carries
  <2>5. fb'.ready_dirty.y1 <= mode'.h
    BY Zenon, <1>1, <1>10
  <2>6. Flight'
    BY Zenon, <1>2, <1>4, <2>1, <2>2 DEF Flight
  <2>7. Carried'
    BY Zenon, <1>2, <2>2, <2>3, <2>4, <2>5 DEF Carried
  <2>. QED
    BY Zenon, <2>6, <2>7
<1>9. Edged' /\ Current'
  <2>1. Shown' = Shown
    BY Zenon, <1>1, SameMode
  <2>2. Edged'
    BY Zenon, <1>1, SameMode DEF IInv, Edged
  <2>3. Current'
    BY Zenon, <1>1, <1>2, <1>3, <2>1, SameMode DEF IInv, Current
  <2>. QED
    BY Zenon, <2>2, <2>3
<1>. QED
  BY Zenon, <1>1, <1>7, <1>8, <1>9 DEF IInv

\* The present ends: what was to be shown is on the screen, or is known to be lost.
LEMMA EndStep ==
  ASSUME IInv, smashed = "no", NEW q \in Queue, NEW done \in BOOLEAN, PresentEnds(q, done),
         pc \in Presents, done => Carries(screen)
  PROVE  IInv' /\ fb'.back = fb.back /\ UNCHANGED <<cx, cy>>
<1> DEFINE R == Inside(fb.ready_dirty)
<1>1. /\ pc' = "idle" /\ vq' = Returned(q) /\ fb' = Presented(fb)
      /\ lost' = IF done THEN lost \ R ELSE lost \cup R
      /\ cx' = cx /\ cy' = cy /\ ready' = ready /\ gpu_fb' = gpu_fb
      /\ screen' = screen /\ backend' = backend /\ mode' = mode /\ smashed' = smashed
  BY Zenon DEF PresentEnds, console, device
<1>2. /\ Sound(fb) /\ ready \in BOOLEAN /\ lost \in SUBSET Pixel /\ ~fb.dirty.any
      /\ mode \in Mode /\ fb.ready_dirty \in Area /\ Rect(fb.ready_dirty)
  BY Zenon, FrameFields DEF IInv, Typed, Sound, Framed
<1>3. ready /\ fb.ready_dirty.any /\ backend # "Mmio"
  BY Zenon DEF IInv, Flight
<1>11. Loaded
  BY Zenon DEF IInv, Carried
<1>4. ready' /\ ready' \in BOOLEAN
  BY <1>1, <1>2, <1>3
<1>5. Sound(fb') /\ fb'.dirty = fb.dirty /\ fb'.back = fb.back /\ fb'.frame_ready = FALSE
  <2>1. LET c == Presented(fb)
        IN  Sound(c) /\ c.dirty = fb.dirty /\ c.back = fb.back /\ c.frame_ready = FALSE
    BY Zenon, <1>2, PresentedFrame
  <2>. QED
    BY Zenon, <1>1, <2>1
<1>6. vq' \in Queue /\ vq'.cmd.type \notin Presents
  BY Zenon, <1>1, ReturnedQueue
<1>7. lost' \in SUBSET Pixel
  BY Zenon, <1>1, <1>2, InsideScreen
<1>8. Typed'
  <2>1. ~fb'.dirty.any
    BY Zenon, <1>2, <1>5
  <2>. QED
    BY ZenonT(30), <1>1, <1>4, <1>5, <1>6, <1>7, <2>1 DEF IInv, Typed
<1>9. Flight' /\ Carried'
  BY Zenon, <1>1, <1>5, <1>6, ProbeRequests, IdleFlight
<1>12. \A p \in R : Room(p) => gpu_fb[Offset(p)] = fb.back[p]
  BY Zenon, <1>11 DEF Loaded
<1>13. \A p : p \notin lost' => p \in R \/ p \notin lost
  BY Zenon, <1>1
<1>14. \A p : p \in R /\ p \notin lost' => done
  BY Zenon, <1>1
<1>15. Edged'
  <2>1. Width < 2 * mode.w => \A p \in Edge \ lost : gpu_fb[Offset(p)] = fb.back[p]
    BY Zenon, <1>3 DEF IInv, Edged
  <2>2. \A p \in Edge : Room(p)
    BY Zenon DEF Edge
  <2>3. Width < 2 * mode.w => \A p \in Edge \ lost' : gpu_fb[Offset(p)] = fb.back[p]
    BY Zenon, <1>12, <1>13, <2>1, <2>2
  <2>. QED
    BY Zenon, <1>1, <1>5, <2>3, SameMode
<1>10. Current'
  <2>1. Width < 2 * mode.w => \A p \in Shown \ lost : p \in R \/ screen[p] = fb.back[p]
    BY Zenon, <1>3 DEF IInv, Current
  <2>2. \A p \in Shown : Room(p)
    BY Zenon, <1>3 DEF Shown, Room
  <2>3. \A p \in R : Room(p) => p \in Inside(Region(fb.ready_dirty))
    BY Zenon, <1>2, <1>3, RegionFacts
  <2>4. \A p \in R : done /\ Room(p) => screen[p] = fb.back[p]
    BY Zenon, <1>12, <2>3 DEF Carries
  <2>5. Width < 2 * mode.w => \A p \in Shown \ lost' : screen[p] = fb.back[p]
    BY Zenon, <1>13, <1>14, <2>1, <2>2, <2>4
  <2>6. Shown' = Shown
    BY Zenon, <1>1, SameMode
  <2>. QED
    <3>1. Width < 2 * mode.w => \A p \in Shown' \ lost' : screen'[p] = fb'.back[p]
      BY Zenon, <1>1, <1>5, <2>5, <2>6
    <3>2. backend' # "Mmio"
      BY Zenon, <1>1, <1>3
    <3>. QED
      BY Zenon, <1>1, <3>1, <3>2, SameMode
<1>. QED
  BY Zenon, <1>1, <1>5, <1>8, <1>9, <1>10, <1>15 DEF IInv

\* The device answers: an answer of the request in flight moves the part being
\* presented one buffer on; one that comes after its request was given up and
\* replaced does the new request's work, early.
LEMMA DeviceStep ==
  ASSUME IInv, smashed = "no", device_answers
  PROVE  IInv' /\ UNCHANGED <<fb, cx, cy>>
<1>1. /\ fb' = fb /\ cx' = cx /\ cy' = cy /\ ready' = ready /\ gpu_fb' = gpu_fb
      /\ pc' = pc /\ lost' = lost /\ backend' = backend /\ mode' = mode
  BY Zenon DEF device_answers
<1>2. /\ Sound(fb) /\ vq \in Queue /\ ready \in BOOLEAN /\ mode \in Mode
      /\ fb.ready_dirty \in Area /\ Rect(fb.ready_dirty)
  BY Zenon, FrameFields DEF IInv, Typed, Sound, Framed
<1>3. (ready' <=> ready) /\ ready' \in BOOLEAN
  BY <1>1, <1>2
<1>4. Step(vq.seen) \in Nat /\ Step(vq.used) \in Nat
  BY Zenon, <1>2, StepNat DEF Queue
<1>5. fb'.frame_ready <=> fb.frame_ready
  BY Zenon, <1>1
<1>8. Region(fb.ready_dirty)' = Region(fb.ready_dirty) /\ Shown' = Shown
  BY Zenon, <1>1, SameMode
<1>9. ASSUME vq'.cmd = vq.cmd PROVE Flight'
  BY Zenon, <1>1, <1>3, <1>5, <1>8, <1>9 DEF IInv, Flight
<1>6. CASE vq.cmd = Dead
  <2>1. vq' = [vq EXCEPT !.seen = Step(@), !.used = Step(@)] /\ smashed' = "stack"
    BY Zenon, <1>6 DEF device_answers
  <2>2. vq' \in Queue /\ vq'.cmd = vq.cmd
    BY <1>2, <1>4, <2>1 DEF Queue
  <2>3. smashed' # "heap" /\ smashed' # "no"
    BY <2>1
  <2>4. Typed'
    BY Zenon, <1>1, <1>3, <2>2, <2>3 DEF IInv, Typed
  <2>5. Carried' /\ Edged' /\ Current'
    BY Zenon, <2>3 DEF Carried, Edged, Current
  <2>. QED
    BY Zenon, <1>1, <1>9, <2>2, <2>4, <2>5 DEF IInv
<1>7. CASE vq.cmd # Dead
  <2>1. PICK answer \in {"ok", "err"} :
          /\ vq' = [vq EXCEPT !.seen = Step(@), !.used = Step(@), !.resp = answer]
          /\ host' = IF answer = "ok" /\ vq.cmd.type = "TRANSFER_TO_HOST_2D"
                     THEN Transferred(vq.cmd.rect) ELSE host
          /\ screen' = IF answer = "ok" /\ vq.cmd.type = "RESOURCE_FLUSH"
                       THEN Copied(host, screen, vq.cmd.rect) ELSE screen
          /\ smashed' = smashed
    BY Zenon, <1>7 DEF device_answers
  <2>2. vq' \in Queue /\ vq'.cmd = vq.cmd /\ vq'.resp = answer
    BY <1>2, <1>4, <2>1 DEF Queue
  <2>3. CASE pc \notin Presents
    <3>1. vq.cmd.type \notin Presents
      BY Zenon, <2>3 DEF IInv, Flight
    <3>2. host' = host /\ screen' = screen
      BY Zenon, <2>1, <3>1 DEF Presents
    <3>3. UNCHANGED <<fb, cx, cy, ready, backend, mode, device, lost, smashed>>
      BY Zenon, <1>1, <2>1, <3>2 DEF device
    <3>. QED
      BY Zenon, <1>1, <2>2, <2>3, <3>1, <3>3, QuietStep
  <2>4. CASE pc \in Presents
    <3> DEFINE s == Region(fb.ready_dirty)
               S == Inside(s)
    <3>1. /\ vq.cmd = Request(pc, s) /\ ready /\ fb.frame_ready /\ fb.ready_dirty.any
          /\ backend # "Mmio"
      BY Zenon, <2>4 DEF IInv, Flight
    <3>2. vq.cmd.type = pc /\ vq.cmd.rect = s
      BY <3>1 DEF Request
    <3>3. Loaded /\ fb.ready_dirty.y1 <= mode.h
      BY Zenon, <2>4 DEF IInv, Carried
    <3>4. \A p \in S : p \in Pixel /\ (p \in Inside(fb.ready_dirty) \/ p \in Edge)
      BY Zenon, <1>2, <3>1, <3>3, RegionFacts, InsideScreen
    <3>5. \A p \in Pixel : Transferred(s)[p] = IF p \in S THEN gpu_fb[Offset(p)] ELSE host[p]
      BY Zenon DEF Transferred
    <3>6. \A p \in Pixel : Copied(host, screen, s)[p] = IF p \in S THEN host[p] ELSE screen[p]
      BY Zenon DEF Copied
    <3>7. /\ Carries(host) <=> \A p \in S : host[p] = gpu_fb[Offset(p)]
          /\ Carries(host)' <=> \A p \in S : host'[p] = gpu_fb[Offset(p)]
          /\ Carries(screen)' <=> \A p \in S : screen'[p] = gpu_fb[Offset(p)]
      BY Zenon, <1>1, SameMode DEF Carries
    <3>8. pc = "RESOURCE_FLUSH" => Carries(host)
      BY Zenon DEF IInv, Carried
    <3>. HIDE DEF s
    <3>9. /\ answer = "ok" /\ pc = "TRANSFER_TO_HOST_2D" => Carries(host)'
          /\ pc = "RESOURCE_FLUSH" => Carries(host)'
          /\ answer = "ok" /\ pc = "RESOURCE_FLUSH" => Carries(screen)'
          /\ \A p \in Pixel : \/ screen'[p] = screen[p]
                              \/ p \in S /\ screen'[p] = gpu_fb[Offset(p)]
      <4>1. CASE answer = "ok" /\ pc = "TRANSFER_TO_HOST_2D"
        <5>1. host' = Transferred(s) /\ screen' = screen /\ pc # "RESOURCE_FLUSH"
          BY ZenonT(30), <2>1, <3>2, <4>1
        <5>2. \A p \in S : host'[p] = gpu_fb[Offset(p)]
          BY Zenon, <3>4, <3>5, <5>1
        <5>. QED
          BY Zenon, <3>7, <5>1, <5>2
      <4>2. CASE answer = "ok" /\ pc = "RESOURCE_FLUSH"
        <5>1. /\ screen' = Copied(host, screen, s) /\ host' = host
              /\ pc # "TRANSFER_TO_HOST_2D"
          BY ZenonT(30), <2>1, <3>2, <4>2
        <5>2. \A p \in S : host[p] = gpu_fb[Offset(p)]
          BY Zenon, <3>7, <3>8, <4>2
        <5>3. \A p \in S : screen'[p] = gpu_fb[Offset(p)]
          BY Zenon, <3>4, <3>6, <5>1, <5>2
        <5>4. \A p \in Pixel : p \notin S => screen'[p] = screen[p]
          BY Zenon, <3>6, <5>1
        <5>. QED
          BY Zenon, <3>7, <5>1, <5>2, <5>3, <5>4
      <4>3. CASE answer # "ok"
        <5>1. host' = host /\ screen' = screen
          BY Zenon, <2>1, <4>3
        <5>. QED
          BY Zenon, <3>7, <3>8, <4>3, <5>1
      <4>. QED
        BY ZenonT(30), <2>4, <4>1, <4>2, <4>3 DEF Presents
    <3>10. Typed'
      BY Zenon, <1>1, <1>3, <2>1, <2>2 DEF IInv, Typed
    <3>11. Carried'
      <4>1. Loaded'
        BY Zenon, <1>1, <3>3, SameMode DEF Loaded
      <4>2. fb'.ready_dirty.y1 <= mode'.h
        BY Zenon, <1>1, <3>3
      <4>. QED
        BY Zenon, <1>1, <2>2, <3>9, <4>1, <4>2 DEF Carried
    <3>12. Edged'
      BY Zenon, <1>1, <2>1, SameMode DEF IInv, Edged
    <3>13. Current'
      <4>1. Width < 2 * mode.w =>
              \A p \in Shown \ lost : p \in Inside(fb.ready_dirty) \/ screen[p] = fb.back[p]
        BY Zenon, <3>1 DEF IInv, Current
      <4>2. Width < 2 * mode.w => \A p \in Edge \ lost : gpu_fb[Offset(p)] = fb.back[p]
        BY Zenon, <3>1 DEF IInv, Edged
      <4>3. \A p \in Shown : p \in Pixel
        BY Zenon DEF Shown
      <4>4. Width < 2 * mode.w =>
              \A p \in Shown \ lost : p \in Inside(fb.ready_dirty) \/ screen'[p] = fb.back[p]
        <5>1. ASSUME Width < 2 * mode.w, NEW p \in Shown \ lost, p \notin Inside(fb.ready_dirty)
              PROVE  screen'[p] = fb.back[p]
          <6>1. p \in Pixel /\ screen[p] = fb.back[p]
            BY Zenon, <4>1, <4>3, <5>1
          <6>2. p \in S => gpu_fb[Offset(p)] = fb.back[p]
            BY Zenon, <3>4, <4>2, <5>1
          <6>. QED
            BY Zenon, <3>9, <6>1, <6>2
        <5>. QED
          BY Zenon, <5>1
      <4>. QED
        BY Zenon, <1>1, <1>8, <2>4, <3>1, <4>4, SameMode
    <3>. QED
      BY Zenon, <1>1, <1>9, <2>2, <3>10, <3>11, <3>12, <3>13 DEF IInv
  <2>. QED
    BY Zenon, <2>3, <2>4
<1>. QED
  BY Zenon, <1>6, <1>7

\* However a present ends, the back buffer stays what it was.
LEMMA EndingStep ==
  ASSUME IInv, smashed = "no", present_done \/ present_refused \/ present_timeout
  PROVE  IInv' /\ fb'.back = fb.back /\ UNCHANGED <<cx, cy>>
<1>1. vq \in Queue /\ Consumed \in Queue
  BY Zenon, ConsumedQueue DEF IInv, Typed
<1>2. CASE present_done
  <2>1. pc = "RESOURCE_FLUSH" /\ vq.resp = "ok" /\ PresentEnds(Consumed, TRUE)
    BY Zenon, <1>2 DEF present_done
  <2>2. Carries(screen) /\ pc \in Presents
    BY Zenon, <2>1 DEF IInv, Carried, Presents
  <2>. QED
    BY ZenonT(30), <1>1, <2>1, <2>2, EndStep
<1>3. CASE present_refused
  <2>1. pc \in Presents /\ PresentEnds(Consumed, FALSE)
    BY Zenon, <1>3 DEF present_refused, Presents
  <2>. QED
    BY Zenon, <1>1, <2>1, EndStep
<1>4. CASE present_timeout
  <2>1. pc \in Presents /\ PresentEnds(vq, FALSE)
    BY Zenon, <1>4 DEF present_timeout, Presents
  <2>. QED
    BY Zenon, <1>1, <2>1, EndStep
<1>. QED
  BY Zenon, <1>2, <1>3, <1>4

(* ------------------- the window seen through the pixels ------------------ *)
Bar(b) == [p \in {q \in Pixel : q[2] >= BarY} |-> b[p]]

\* The lines of the refinement are those of the painted buffer.
LEMMA WindowLines ==
  /\ [r \in 1..Rows |-> [c \in 1..Cols |-> Cell(r, c)]] = Lines(fb.back)
  /\ [r \in 1..Rows |-> [c \in 1..Cols |-> Cell(r, c)]]' = Lines(fb'.back)
BY Zenon DEF Lines, Corner, Cell

\* The bar of the refinement is that of the painted buffer.
LEMMA WindowBar ==
  /\ [p \in {q \in Pixel : q[2] >= BarY} |-> fb.back[p]] = Bar(fb.back)
  /\ [p \in {q \in Pixel : q[2] >= BarY} |-> fb.back[p]]' = Bar(fb'.back)
BY Zenon DEF Bar

\* A step that leaves the back buffer and the cursor alone is no step of the
\* window.
LEMMA WindowStays ==
  ASSUME fb'.back = fb.back, cx' = cx, cy' = cy
  PROVE  UNCHANGED Window!vars
<1>1. (cy + 1)' = cy + 1
  BY Zenon
<1>. QED
  BY Zenon, <1>1, WindowLines, WindowBar DEF Window!vars

\* Printing: the window is written as the text says, the bar stays.
LEMMA WritePaints ==
  ASSUME IInv, smashed = "no", NEW text \in Texts, write_fmt(text)
  PROVE  IInv' /\ Window!Write(text)
<1> DEFINE s == [f |-> fb, cx |-> cx, cy |-> cy]
           t == write_string(s, text)
<1>1. /\ ready /\ pc = "idle" /\ UNCHANGED <<ready, backend, mode, host>>
      /\ cx' = t.cx /\ cy' = t.cy /\ present(t.f)
  BY Zenon DEF write_fmt, Painter
<1>2. Sound(fb) /\ cx \in 0..Cols /\ cy \in 0..Rows-1
  BY Zenon DEF IInv, Typed
<1>3. text \in Seq(STRING)
  BY Zenon, ScreenAssumption
<1>4. s \in Reached(fb)
  <2>1. fb \in Frame /\ Kept(fb, fb)
    BY Zenon, <1>2 DEF Sound, Framed, Kept
  <2>2. s \in Consoles /\ s.f = fb
    BY <1>2, <2>1 DEF Consoles
  <2>. QED
    BY Zenon, <2>1, <2>2 DEF Reached
<1>5. t \in Reached(fb) /\ View(t) = Window!Written(View(s), text)
  <2>. HIDE DEF s
  <2>. QED  BY ZenonT(30), <1>2, <1>3, <1>4, WriteStep
<1>6. View(s) = [lines |-> Lines(fb.back), row |-> cy + 1, col |-> cx]
  BY DEF View
<1>. HIDE DEF t, s
<1>7. /\ t.cx \in 0..Cols /\ t.cy \in 0..Rows-1 /\ Kept(fb, t.f)
      /\ \A p \in Pixel : p[2] >= BarY => t.f.back[p] = fb.back[p]
  BY Zenon, <1>5 DEF Reached, Consoles
<1>8. IInv' /\ fb'.back = t.f.back
  BY ZenonT(30), <1>1, <1>7, PresentStep
<1>9. /\ View(t).lines = Lines(t.f.back) /\ View(t).row = t.cy + 1 /\ View(t).col = t.cx
  BY DEF View
<1>10. Bar(fb'.back) = Bar(fb.back)
  BY Zenon, <1>7, <1>8 DEF Bar
<1>11. (cy + 1)' = t.cy + 1
  BY Zenon, <1>1
<1>. QED
  BY ZenonT(30), <1>1, <1>5, <1>6, <1>8, <1>9, <1>10, <1>11, WindowLines, WindowBar
  DEF Window!Write

\* Drawing the bar: the window stays.
LEMMA BarPaints ==
  ASSUME IInv, smashed = "no", NEW text \in BarTexts, draw_status_bar(text)
  PROVE  IInv' /\ Window!DrawBar
<1>1. /\ ready /\ pc = "idle" /\ UNCHANGED <<ready, backend, mode, host>>
      /\ cx' = cx /\ cy' = cy /\ present(BarDrawn(fb, text))
  BY Zenon DEF draw_status_bar, Painter, console
<1>2. Sound(fb) /\ cx \in 0..Cols /\ cy \in 0..Rows-1
  BY Zenon DEF IInv, Typed
<1>3. text \in Seq(STRING)
  BY Zenon, ScreenAssumption
<1>4. BarDrawn(fb, text) \in BarFrames(fb)
  BY Zenon, <1>2, <1>3, BarStep
<1>5. /\ Kept(fb, BarDrawn(fb, text))
      /\ \A p \in Pixel : p[2] < BarY => BarDrawn(fb, text).back[p] = fb.back[p]
  BY Zenon, <1>4 DEF BarFrames
<1>6. IInv' /\ fb'.back = BarDrawn(fb, text).back
  BY ZenonT(30), <1>1, <1>2, <1>5, PresentStep
<1>7. ASSUME NEW r \in 1..Rows, NEW c \in 1..Cols
      PROVE  Corner(r, c) \in Pixel /\ Corner(r, c)[2] < BarY
  <2>1. /\ Corner(r, c) \in Pixel /\ Corner(r, c)[2] = (r - 1) * GlyphH
        /\ (r - 1) * GlyphH \in Nat /\ (r - 1) * GlyphH + GlyphH <= BarY
    BY Zenon, Corners
  <2>2. GlyphH \in Nat \ {0} /\ BarY \in Nat
    BY Zenon, Sizes
  <2>3. ASSUME NEW a \in Nat, NEW g \in Nat \ {0}, NEW b \in Nat, a + g <= b
        PROVE  a < b
    BY <2>3
  <2>. QED
    BY Zenon, <2>1, <2>2, <2>3
<1>8. Lines(fb'.back) = Lines(fb.back)
  BY ZenonT(30), <1>5, <1>6, <1>7 DEF Lines
<1>9. (cy + 1)' = cy + 1
  BY Zenon, <1>1
<1>. QED
  BY ZenonT(30), <1>1, <1>6, <1>8, <1>9, WindowLines DEF Window!DrawBar

\* Clearing and presenting an owner's image fill the window with one cell.
LEMMA ClearPaints ==
  ASSUME IInv, smashed = "no", clear
  PROVE  IInv' /\ Window!Clear
<1> DEFINE g == fb_clear(fb)
<1>1. /\ ready /\ pc = "idle" /\ UNCHANGED <<ready, backend, mode, host>>
      /\ cx' = 0 /\ cy' = 0 /\ present(g)
  BY Zenon DEF clear, Painter
<1>2. Sound(fb) /\ BG \in Colour
  BY Zenon, Colours DEF IInv, Typed
<1>3. Kept(fb, g) /\ Lines(g.back) = [r \in 1..Rows |-> [c \in 1..Cols |-> BG]]
  BY Zenon, <1>2, FillAll DEF fb_clear
<1>. HIDE DEF g
<1>4. 0 \in 0..Cols /\ 0 \in 0..Rows-1
  <2>1. Cols \in Nat /\ Rows \in Nat /\ Rows >= 2
    BY Zenon, Sizes
  <2>. QED
    BY <2>1
<1>5. IInv' /\ fb'.back = g.back
  BY ZenonT(30), <1>1, <1>3, <1>4, PresentStep
<1>6. (cy + 1)' = 1
  BY <1>1
<1>. QED
  BY ZenonT(30), <1>1, <1>3, <1>5, <1>6, WindowLines
  DEF Window!Clear, Window!BlankLine, Window!Blank, BG

\* sys_fb_present preserves the invariant and draws over the window.
LEMMA ImagePaints ==
  ASSUME IInv, smashed = "no", sys_fb_present
  PROVE  IInv' /\ Window!Overdraw
<1> DEFINE g == fill_rect(fb, 0, 0, Width, Height, Image)
<1>1. /\ ready /\ pc = "idle" /\ UNCHANGED <<ready, backend, mode, host>>
      /\ cx' = cx /\ cy' = cy /\ present(g)
  BY Zenon DEF sys_fb_present, Painter, console
<1>2. Sound(fb) /\ Image \in Colour /\ cx \in 0..Cols /\ cy \in 0..Rows-1
  BY Zenon, Colours DEF IInv, Typed
<1>3. Kept(fb, g) /\ Lines(g.back) = [r \in 1..Rows |-> [c \in 1..Cols |-> Image]]
  BY Zenon, <1>2, FillAll
<1>. HIDE DEF g
<1>4. IInv' /\ fb'.back = g.back
  BY Zenon, <1>1, <1>2, <1>3, PresentStep
<1>5. (cy + 1)' = cy + 1
  BY Zenon, <1>1
<1>. QED
  BY ZenonT(30), <1>1, <1>3, <1>4, <1>5, WindowLines DEF Window!Overdraw

(* ------------------------------ the theorems ----------------------------- *)
LEMMA Starts ==
  ASSUME Init
  PROVE  IInv /\ Window!Init
<1>1. /\ fb = NewFb /\ cx = 0 /\ cy = 0 /\ ready \in BOOLEAN
      /\ backend = "Mmio" /\ mode \in IF ready THEN Modes ELSE {[w |-> Width, h |-> Height]}
      /\ gpu_fb = [o \in 0 .. mode.w * mode.h - 1 |-> Off]
      /\ screen = Filled(IF ready THEN BG ELSE Off)
      /\ vq = NewQueue /\ pc = "idle" /\ lost = {} /\ smashed = "no"
  BY Zenon DEF Init
<1>2. BG \in Colour /\ Off \in Colour
  BY Zenon, Colours
<1>3. ASSUME NEW c \in Colour
      PROVE  Filled(c) \in Buffer /\ \A p \in Pixel : Filled(c)[p] = c
  BY ZenonT(30), <1>3 DEF Filled, Buffer
<1>4. /\ fb.back = Filled(BG) /\ fb.present_buf = Filled(BG)
      /\ fb.dirty = Clean /\ fb.ready_dirty = Clean /\ ~fb.frame_ready
      /\ fb = [back |-> Filled(BG), present_buf |-> Filled(BG), dirty |-> Clean,
               ready_dirty |-> Clean, frame_ready |-> FALSE]
  BY <1>1 DEF NewFb
<1>5. Clean \in Area /\ ~Clean.any
  BY DEF Clean, Area
<1>6. Filled(BG) \in Buffer
  BY ZenonT(30), <1>2, <1>3
<1>7. fb \in Frame
  BY <1>4, <1>5, <1>6 DEF Frame
<1>8. Sound(fb) /\ ~fb.dirty.any
  BY ZenonT(30), <1>4, <1>5, <1>7 DEF Sound, Framed, Rect
<1>9. vq \in Queue /\ vq.cmd.type = "dead"
  <2>1. Dead \in Command /\ Dead.type = "dead"
    BY <1>5 DEF Dead, Request, Command
  <2>. QED
    BY <1>1, <2>1 DEF NewQueue, Queue
<1>10. cx \in 0 .. Cols /\ cy \in 0 .. Rows - 1
  <2>1. Cols \in Nat /\ Rows \in Nat /\ Rows >= 2
    BY Zenon, Sizes
  <2>. QED
    BY <1>1, <2>1
<1>11. ready => screen = Filled(BG)
  BY Zenon, <1>1
<1>18. mode \in Mode /\ (~ready => mode = [w |-> Width, h |-> Height])
  <2>1. Width \in Nat \ {0} /\ Height \in Nat \ {0} /\ Modes \subseteq Mode
    BY Zenon, Sizes, ScreenAssumption DEF Mode
  <2>2. [w |-> Width, h |-> Height] \in Mode
    BY <2>1 DEF Mode
  <2>. QED
    BY Zenon, <1>1, <2>1, <2>2
<1>19. DOMAIN gpu_fb = 0 .. mode.w * mode.h - 1 /\ smashed # "heap"
  BY Zenon, <1>1
<1>12. Typed
  BY ZenonT(30), <1>1, <1>4, <1>8, <1>9, <1>10, <1>18, <1>19 DEF Typed
<1>13. pc \notin Presents /\ vq.cmd.type \notin Presents
  BY Zenon, <1>1, <1>9 DEF Presents
<1>14. Flight /\ Carried
  BY Zenon, <1>4, <1>13 DEF Flight, Carried, Presents
<1>15. Edged /\ Current
  BY Zenon, <1>1, <1>4, <1>11 DEF Edged, Current
<1>16. Lines(fb.back) = [r \in 1..Rows |-> [c \in 1..Cols |-> BG]]
  <2>1. \A r \in 1..Rows, c \in 1..Cols : Corner(r, c) \in Pixel
    BY Zenon, Corners
  <2>. QED
    <3>1. \A r \in 1..Rows, c \in 1..Cols : fb.back[Corner(r, c)] = BG
      BY ZenonT(30), <1>2, <1>3, <1>4, <2>1
    <3>. QED
      BY Zenon, <3>1 DEF Lines
<1>17. cy + 1 = 1
  BY <1>1
<1>. QED
  BY ZenonT(30), <1>1, <1>12, <1>14, <1>15, <1>16, <1>17, WindowLines
  DEF IInv, Window!Init, Window!BlankLine, Window!Blank, BG

\* Every step keeps the invariant and is a step of the window or none.
LEMMA Steps ==
  ASSUME IInv, [Next]_vars
  PROVE  IInv' /\ [Window!Next]_(Window!vars)
<1>12. Next => smashed = "no" /\ KernelOrDevice
  BY Zenon DEF Next
<1>1. CASE smashed = "no" /\ (\E text \in Texts : write_fmt(text))
  BY Zenon, <1>1, WritePaints DEF Window!Next
<1>2. CASE smashed = "no" /\ (\E text \in BarTexts : draw_status_bar(text))
  BY Zenon, <1>2, BarPaints DEF Window!Next
<1>3. CASE smashed = "no" /\ clear
  BY Zenon, <1>3, ClearPaints DEF Window!Next
<1>4. CASE smashed = "no" /\ sys_fb_present
  BY Zenon, <1>4, ImagePaints DEF Window!Next
<1>5. CASE probe_absent \/ probe_found \/ probe_next \/ probe_refused \/ probe_timeout
  <2>1. IInv' /\ fb'.back = fb.back /\ cx' = cx /\ cy' = cy
    BY ZenonT(30), <1>5, ProbeStep
  <2>. QED
    BY Zenon, <2>1, WindowStays
<1>6. CASE set_backend
  <2>1. IInv' /\ fb'.back = fb.back /\ cx' = cx /\ cy' = cy
    BY ZenonT(30), <1>6, BackendStep
  <2>. QED
    BY Zenon, <2>1, WindowStays
<1>7. CASE init_virtio_gpu
  <2>1. IInv' /\ fb'.back = fb.back /\ cx' = cx /\ cy' = cy
    BY ZenonT(30), <1>7, FirstFrameStep
  <2>. QED
    BY Zenon, <2>1, WindowStays
<1>8. CASE smashed = "no" /\ present_region
  <2>1. IInv' /\ fb'.back = fb.back /\ cx' = cx /\ cy' = cy
    BY Zenon, <1>8, RegionStep
  <2>. QED
    BY Zenon, <2>1, WindowStays
<1>9. CASE smashed = "no" /\ (present_done \/ present_refused \/ present_timeout)
  <2>1. IInv' /\ fb'.back = fb.back /\ cx' = cx /\ cy' = cy
    BY ZenonT(30), <1>9, EndingStep
  <2>. QED
    BY Zenon, <2>1, WindowStays
<1>10. CASE smashed = "no" /\ device_answers
  <2>1. IInv' /\ fb'.back = fb.back /\ cx' = cx /\ cy' = cy
    BY Zenon, <1>10, DeviceStep
  <2>. QED
    BY Zenon, <2>1, WindowStays
<1>11. CASE UNCHANGED vars
  <2>1. /\ fb' = fb /\ cx' = cx /\ cy' = cy /\ ready' = ready /\ gpu_fb' = gpu_fb
        /\ host' = host /\ screen' = screen /\ vq' = vq /\ pc' = pc /\ lost' = lost
        /\ backend' = backend /\ mode' = mode /\ smashed' = smashed
    BY Zenon, <1>11 DEF vars
  <2>2. Typed'
    BY Zenon, <2>1 DEF IInv, Typed
  <2>3. Region(fb.ready_dirty)' = Region(fb.ready_dirty) /\ Shown' = Shown
    BY Zenon, <2>1, SameMode
  <2>4. Flight'
    BY Zenon, <2>1, <2>3 DEF IInv, Flight
  <2>5. Carried'
    <3>1. (Loaded' <=> Loaded)
      BY Zenon, <2>1, SameMode DEF Loaded
    <3>2. (Carries(host)' <=> Carries(host)) /\ (Carries(screen)' <=> Carries(screen))
      BY Zenon, <2>1, SameMode DEF Carries
    <3>. QED
      BY Zenon, <2>1, <3>1, <3>2 DEF IInv, Carried
  <2>6. Edged'
    BY Zenon, <2>1, SameMode DEF IInv, Edged
  <2>7. Current'
    BY Zenon, <2>1, <2>3, SameMode DEF IInv, Current
  <2>8. IInv'
    BY Zenon, <2>2, <2>4, <2>5, <2>6, <2>7 DEF IInv
  <2>. QED
    BY Zenon, <2>1, <2>8, WindowStays
<1>. QED
  BY ZenonT(30), <1>1, <1>2, <1>3, <1>4, <1>5, <1>6, <1>7, <1>8, <1>9, <1>10, <1>11, <1>12
  DEF KernelOrDevice

\* The buffers agree where nothing is dirty, the part being presented is in
\* each buffer a request was answered for, the last column of the backing is never
\* spoilt by long rows, and the rest of the screen is current: always, whatever
\* size the device has and whatever it answers, refuses or answers late, until
\* memory is written that is not there.
THEOREM Invariance == Spec => []IInv
<1>1. Init => IInv
  BY Zenon, Starts
<1>2. IInv /\ [Next]_vars => IInv'
  BY Zenon, Steps
<1>. QED
  BY <1>1, <1>2, PTL DEF Spec

\* On any screen and with any glyphs the cursor stays in the window, dirty
\* rectangles stay on the screen (the unchecked copies of commit and present_mmio
\* are in bounds), a frame is pending exactly while it is being presented, and the
\* unchecked copy of present_virtio_gpu stays in its backing on any device at least
\* as large as the framebuffer.
THEOREM TypeCorrectness == Spec => []TypeOK
<1>1. IInv => TypeOK
  BY Zenon DEF IInv, Typed, Flight, Presents, Sound, Framed, TypeOK
<1>. QED
  BY <1>1, Invariance, PTL

\* Between two calls the screen shows what the kernel painted except where the
\* present itself failed: present_region's transfer and flush carry the dirty
\* part through every buffer, however the device interleaves its answers, and a
\* device of another size shows its part of the picture: present_region's clamps
\* and the rows copied with the device's stride agree.
THEOREM ScreenCurrent == Spec => []ScreenIsCurrent
<1>1. IInv => ScreenIsCurrent
  <2>1. "idle" \notin Presents
    BY Zenon DEF Presents
  <2>. QED
    BY Zenon, <2>1 DEF IInv, Current, ScreenIsCurrent
<1>. QED
  BY <1>1, Invariance, PTL

\* For every size of screen and glyph, every text and every behaviour of the
\* device, the console's pixels are the window the abstract terminal describes:
\* put_char, newline, tab, backspace and the bounded scroll implement its
\* lines, and printing leaves the status bar alone.
THEOREM Refinement == Spec => ImplementsTerminal
<1>1. Init => Window!Init
  BY Zenon, Starts
<1>2. IInv /\ [Next]_vars => [Window!Next]_(Window!vars)
  BY Zenon, Steps
<1>. QED
  BY <1>1, <1>2, Invariance, PTL DEF Spec, ImplementsTerminal, Window!Spec
=============================================================================
