------------------------------ MODULE Display -------------------------------
(* The text console (drivers/console.rs) over the double-buffered            *)
(* framebuffer (drivers/fb.rs), presented either by a copy to the scanout or *)
(* through virtio-gpu (virtio/gpu.rs) and its one virtqueue                  *)
(* (virtio/queue.rs).  The kernel holds the framebuffer lock from the first  *)
(* pixel to the end of the present, so the only concurrency is with the      *)
(* device: it answers late, with an error, or after the driver gave up.      *)
(*                                                                           *)
(* A glyph is GlyphW x GlyphH pixels of one value, the character itself (its *)
(* colour included); the space is the background.  A row of the framebuffer  *)
(* has no padding after it.  The size the device reports is its own.         *)
EXTENDS Integers, Sequences

CONSTANTS Width, Height,    \* of the screen, in pixels
          GlyphW, GlyphH,   \* of a character cell
          Modes,            \* sizes the device may report, as records w, h
          Inset,            \* where the status text starts (8 pixels)
          TabStop,          \* 4
          Texts, BarTexts,  \* what print and the status bar may write
          Image,            \* a pixel of what the framebuffer's owner draws
          IdxWrap,          \* ring indices are taken modulo this (2^16)
          MaxFrames,        \* bound: frames painted
          MaxFailures       \* bound: requests given up on or answered with an error

Cols == Width \div GlyphW
Rows == IF Height \div GlyphH >= 2 THEN Height \div GlyphH - 2 ELSE 0

ASSUME ScreenAssumption ==
  /\ {Width, Height, GlyphW, GlyphH, TabStop, IdxWrap} \subseteq Nat \ {0}
  /\ Cols >= 1 /\ Rows >= 2
  /\ Modes \subseteq [w : Nat \ {0}, h : Nat \ {0}]
  /\ Inset \in Nat /\ {MaxFrames, MaxFailures} \subseteq Nat
  /\ Texts \cup BarTexts \subseteq Seq(STRING)

VARIABLES fb,        \* struct Fb: back, present_buf, dirty, ready_dirty, frame_ready
          cx, cy,    \* the console's cursor
          ready,     \* the Fb and the console exist (FB, CONSOLE are set)
          backend,   \* PresentBackend
          gpu,       \* "unprobed", "active" or "absent"
          mode,      \* VirtioGpu::width and height
          gpu_fb,    \* VirtioGpu::fb, the backing the device copies from, by offset
          host,      \* the device's copy of resource 1, at the framebuffer's pixels
          screen,    \* what is displayed there: by the MMIO scanout, then by the device
          vq,        \* the control queue, both sides
          pc,        \* the request the driver is waiting for, or "idle"
          frames,    \* frames painted by the console, the bar or a process
          failures,  \* requests given up on or answered with an error
          lost,      \* pixels whose last present failed
          smashed    \* "stack": the device used buffers that had left it; "heap":
                     \* a row was copied past the end of gpu_fb; else "no"

console == <<cx, cy>>
device == <<gpu_fb, host, screen>>
vars == <<fb, cx, cy, ready, backend, gpu, mode, gpu_fb, host, screen, vq, pc,
          frames, failures, lost, smashed>>

Pixel == (0..Width-1) \X (0..Height-1)
BG == "space"
BarColor == "bar"
Border == "cyan"
Off == "off"
Filled(colour) == [p \in Pixel |-> colour]

Smaller(a, b) == IF a < b THEN a ELSE b
Larger(a, b) == IF a > b THEN a ELSE b

(* ------------------------------ drivers/fb.rs --------------------------- *)
Clean == [any |-> FALSE, x0 |-> 0, y0 |-> 0, x1 |-> 0, y1 |-> 0]
Inside(r) == {p \in Pixel : r.x0 <= p[1] /\ p[1] < r.x1 /\ r.y0 <= p[2] /\ p[2] < r.y1}
Clipped(x, y, w, h) ==
  [any |-> TRUE, x0 |-> Smaller(x, Width), y0 |-> Smaller(y, Height),
   x1 |-> Smaller(x + w, Width), y1 |-> Smaller(y + h, Height)]

\* Two buffers of the background, nothing painted yet.
NewFb == [back |-> Filled(BG), present_buf |-> Filled(BG), dirty |-> Clean,
          ready_dirty |-> Clean, frame_ready |-> FALSE]

\* Slip: the rectangle already dirty is forgotten.
Joined_Last(d, r) == r
\* The rectangle that covers both.
Joined(d, r) ==
  [any |-> TRUE, x0 |-> Smaller(d.x0, r.x0), y0 |-> Smaller(d.y0, r.y0),
   x1 |-> Larger(d.x1, r.x1), y1 |-> Larger(d.y1, r.y1)]

mark_dirty_rect(f, x, y, w, h) ==
  LET r == Clipped(x, y, w, h)
  IN  IF r.x0 >= r.x1 \/ r.y0 >= r.y1 THEN f
      ELSE [f EXCEPT !.dirty = IF f.dirty.any THEN Joined(f.dirty, r) ELSE r]

fill_rect(f, x, y, w, h, rgb) ==
  LET r == Clipped(x, y, w, h)
  IN  mark_dirty_rect([f EXCEPT !.back =
                         [p \in Pixel |-> IF p \in Inside(r) THEN rgb ELSE f.back[p]]],
                      x, y, w, h)

fb_clear(f) == fill_rect(f, 0, 0, Width, Height, BG)

blit_char(f, x, y, ch) ==
  IF x >= Width \/ y >= Height THEN f ELSE fill_rect(f, x, y, GlyphW, GlyphH, ch)

Scrolled(back, lim, n) ==
  [p \in Pixel |-> IF p[2] < lim - n THEN back[<<p[1], p[2] + n>>] ELSE back[p]]

\* Slip: the freed line keeps its old text.
scroll_up_bounded_Dirty(f, max_y, n) ==
  mark_dirty_rect([f EXCEPT !.back = Scrolled(f.back, max_y, n)], 0, 0, Width, max_y)
scroll_up_bounded(f, max_y, n) ==
  IF n = 0 \/ n >= max_y THEN f
  ELSE LET lim == Smaller(max_y, Height)
           up == [f EXCEPT !.back = Scrolled(f.back, lim, n)]
       IN  mark_dirty_rect(fill_rect(up, 0, lim - n, Width, n, BG), 0, 0, Width, lim)

\* The pixels of dst inside r replaced by those of src.
Copied(src, dst, r) == [p \in Pixel |-> IF p \in Inside(r) THEN src[p] ELSE dst[p]]

\* The buffers change places and the dirty part is copied back, so that the
\* next frame is painted over what this one shows.
commit(f) ==
  IF ~f.dirty.any THEN f
  ELSE [back |-> Copied(f.back, f.present_buf, f.dirty), present_buf |-> f.back,
        dirty |-> Clean, ready_dirty |-> f.dirty, frame_ready |-> TRUE]

Presented(f) == [f EXCEPT !.frame_ready = FALSE, !.ready_dirty = Clean]

(* --------------------------- drivers/console.rs ------------------------- *)
\* Printing works on the pixels and the cursor together: s.f, s.cx, s.cy.
\* Slip: the scroll comes one line late.
newline_Late(s) ==
  IF s.cy < Rows THEN [s EXCEPT !.cx = 0, !.cy = @ + 1]
  ELSE [f |-> scroll_up_bounded(s.f, Rows * GlyphH, GlyphH), cx |-> 0, cy |-> Rows - 1]
newline(s) ==
  IF s.cy + 1 < Rows THEN [s EXCEPT !.cx = 0, !.cy = @ + 1]
  ELSE [f |-> scroll_up_bounded(s.f, Rows * GlyphH, GlyphH), cx |-> 0, cy |-> Rows - 1]

put_glyph(s, ch) ==
  LET u == IF s.cx >= Cols THEN newline(s) ELSE s
  IN  [f |-> blit_char(u.f, u.cx * GlyphW, u.cy * GlyphH, ch), cx |-> u.cx + 1, cy |-> u.cy]

backspace(s) ==
  IF s.cx = 0 THEN s
  ELSE [f |-> fill_rect(s.f, (s.cx - 1) * GlyphW, s.cy * GlyphH, GlyphW, GlyphH, BG),
        cx |-> s.cx - 1, cy |-> s.cy]

\* Spaces until the next stop or the last column: no more turns than columns.
tab(s) ==
  LET next == (s.cx \div TabStop + 1) * TabStop
      turn[n \in 0..Cols] ==
        IF n = 0 THEN s
        ELSE LET t == turn[n - 1]
             IN  IF t.cx < next /\ t.cx < Cols THEN put_glyph(t, BG) ELSE t
  IN  turn[Cols]

put_char(s, ch) ==
  CASE ch = "newline"   -> newline(s)
    [] ch = "return"    -> [s EXCEPT !.cx = 0]
    [] ch = "backspace" -> backspace(s)
    [] ch = "tab"       -> tab(s)
    [] OTHER            -> put_glyph(s, ch)

write_string(s, text) ==
  LET upto[n \in 0..Len(text)] ==
        IF n = 0 THEN s ELSE put_char(upto[n - 1], text[n])
  IN  upto[Len(text)]

\* The bar: background, a one-pixel border on top, then glyphs until the next
\* one would not fit.
BarY == Rows * GlyphH
Fits(i) == Inset + i * GlyphW <= Width
BareBar(f) ==
  fill_rect(fill_rect(f, 0, BarY, Width, 2 * GlyphH, BarColor), 0, BarY, Width, 1, Border)
BarDrawn(f, text) ==
  LET y == BarY + (2 * GlyphH - GlyphH) \div 2
      upto[n \in 0..Len(text)] ==
        IF n = 0 THEN BareBar(f)
        ELSE IF Fits(n) THEN blit_char(upto[n - 1], Inset + (n - 1) * GlyphW, y, text[n])
        ELSE upto[n - 1]
  IN  upto[Len(text)]

(* ------------------- virtio/queue.rs and virtio/gpu.rs ------------------ *)
\* Descriptors 0 and 1 serve every request: vq.cmd is what descriptor 0 points
\* at now, vq.resp what descriptor 1's buffer holds.  Once the driver returns
\* both are dead stack memory.
Request(type, r) == [type |-> type, rect |-> r]
Dead == Request("dead", Clean)
Step(i) == (i + 1) % IdxWrap

\* The driver's avail.idx and last_used, the device's place in the avail ring
\* and used.idx.
NewQueue == [avail |-> 0, seen |-> 0, used |-> 0, last_used |-> 0,
             cmd |-> Dead, resp |-> "none"]

submit_request(q, cmd) == [q EXCEPT !.avail = Step(@), !.cmd = cmd, !.resp = "none"]

Answered == pc # "idle" /\ vq.used # vq.last_used
Consumed == [vq EXCEPT !.last_used = Step(@)]
GaveUp == pc # "idle" /\ vq.used = vq.last_used /\ failures < MaxFailures
Returned(q) == [q EXCEPT !.cmd = Dead, !.resp = "none"]

\* Where the driver puts a pixel: its rows are as long as the device's.
Offset(p) == p[2] * mode.w + p[1]

\* The rows of r copied one after the other, over what lies there: a row that is
\* longer than the device's runs into the next.
Blitted(src, r) ==
  [o \in DOMAIN gpu_fb |->
     LET from == {p \in Inside(r) : Offset(p) = o}
     IN  IF from = {} THEN gpu_fb[o]
         ELSE src[CHOOSE p \in from : \A q \in from : q[2] <= p[2]]]

\* Nothing compares the framebuffer's size with the device's.
RunsPast(r) == \E p \in Inside(r) : Offset(p) >= mode.w * mode.h

\* What present_region makes of a rectangle: its corner, then its size, clamped to
\* the device.
Region(r) ==
  LET x == Smaller(r.x0, mode.w - 1)
      y == Smaller(r.y0, mode.h - 1)
  IN  [any |-> TRUE, x0 |-> x, y0 |-> y,
       x1 |-> x + Smaller(r.x1 - r.x0, mode.w - x), y1 |-> y + Smaller(r.y1 - r.y0, mode.h - y)]

\* The device reads the rectangle from the backing.
Transferred(r) == [p \in Pixel |-> IF p \in Inside(r) THEN gpu_fb[Offset(p)] ELSE host[p]]

\* The device takes the next available entry, reads the descriptors as they are
\* now and answers.  Dead buffers are read and written all the same.
device_answers ==
  /\ vq.seen # vq.avail
  /\ IF vq.cmd = Dead
     THEN /\ vq' = [vq EXCEPT !.seen = Step(@), !.used = Step(@)]
          /\ smashed' = "stack"
          /\ UNCHANGED <<host, screen, failures>>
     ELSE \E answer \in {"ok", "err"} :
          /\ answer = "err" => failures < MaxFailures
          /\ failures' = IF answer = "err" THEN failures + 1 ELSE failures
          /\ vq' = [vq EXCEPT !.seen = Step(@), !.used = Step(@), !.resp = answer]
          /\ host' = IF answer = "ok" /\ vq.cmd.type = "TRANSFER_TO_HOST_2D"
                     THEN Transferred(vq.cmd.rect) ELSE host
          /\ screen' = IF answer = "ok" /\ vq.cmd.type = "RESOURCE_FLUSH"
                       THEN Copied(host, screen, vq.cmd.rect) ELSE screen
          /\ UNCHANGED smashed
  /\ UNCHANGED <<fb, cx, cy, ready, backend, gpu, mode, gpu_fb, pc, frames, lost>>

\* present(): painted is the Fb after the paint, before commit.
present(painted) ==
  LET f == commit(painted)
  IN  IF ~f.frame_ready
      THEN fb' = f /\ UNCHANGED <<gpu_fb, screen, vq, pc, lost, smashed>>
      ELSE IF backend = "Mmio"
      THEN /\ screen' = Copied(f.present_buf, screen, f.ready_dirty)
           /\ fb' = Presented(f)
           /\ lost' = lost \ Inside(f.ready_dirty)
           /\ UNCHANGED <<gpu_fb, vq, pc, smashed>>
      ELSE /\ gpu_fb' = Blitted(f.present_buf, f.ready_dirty)
           /\ smashed' = IF RunsPast(f.ready_dirty) THEN "heap" ELSE "no"
           /\ fb' = f
           /\ vq' = submit_request(vq, Request("TRANSFER_TO_HOST_2D", Region(f.ready_dirty)))
           /\ pc' = "TRANSFER_TO_HOST_2D"
           /\ UNCHANGED <<screen, lost>>

\* The transfer was answered well: the flush is requested.
present_region ==
  /\ Answered /\ pc = "TRANSFER_TO_HOST_2D" /\ vq.resp = "ok"
  /\ vq' = submit_request(Consumed, Request("RESOURCE_FLUSH", Region(fb.ready_dirty)))
  /\ pc' = "RESOURCE_FLUSH"
  /\ UNCHANGED <<fb, console, ready, backend, gpu, mode, device, frames, failures, lost, smashed>>

\* present() drops the result of present_region: either way the frame is no
\* longer ready and nothing remembers the part that was not shown.
PresentEnds(q, done) ==
  /\ pc' = "idle"
  /\ vq' = Returned(q)
  /\ fb' = Presented(fb)
  /\ lost' = IF done THEN lost \ Inside(fb.ready_dirty) ELSE lost \cup Inside(fb.ready_dirty)
  /\ UNCHANGED <<console, ready, backend, gpu, mode, device, frames, smashed>>

present_done ==
  /\ Answered /\ pc = "RESOURCE_FLUSH" /\ vq.resp = "ok"
  /\ PresentEnds(Consumed, TRUE) /\ UNCHANGED failures

present_refused ==
  /\ Answered /\ pc \in {"TRANSFER_TO_HOST_2D", "RESOURCE_FLUSH"} /\ vq.resp # "ok"
  /\ PresentEnds(Consumed, FALSE) /\ UNCHANGED failures

present_timeout ==
  /\ GaveUp /\ pc \in {"TRANSFER_TO_HOST_2D", "RESOURCE_FLUSH"}
  /\ failures' = failures + 1
  /\ PresentEnds(vq, FALSE)

(* ------------------- finding and starting the device -------------------- *)
Requests == <<"GET_DISPLAY_INFO", "RESOURCE_CREATE_2D", "RESOURCE_ATTACH_BACKING",
              "SET_SCANOUT">>
Probing == {Requests[i] : i \in DOMAIN Requests}
Nothing == Request("none", Clean)

\* No device on the bus, or its transport is refused (capabilities, version,
\* features): the kernel goes on with what it has.
probe_absent ==
  /\ gpu = "unprobed" /\ pc = "idle"
  /\ gpu' = "absent"
  /\ UNCHANGED <<fb, console, ready, backend, mode, device, vq, pc, frames, failures, lost, smashed>>

\* The transport is reset, the queue set up, DRIVER_OK written; the first
\* request goes out.
probe_found ==
  /\ gpu = "unprobed" /\ pc = "idle"
  /\ pc' = Requests[1]
  /\ vq' = submit_request(vq, [Nothing EXCEPT !.type = Requests[1]])
  /\ UNCHANGED <<fb, console, ready, backend, gpu, mode, device, frames, failures, lost, smashed>>

probe_next ==
  \E i \in 1..Len(Requests)-1 :
    /\ Answered /\ pc = Requests[i] /\ vq.resp = "ok"
    /\ pc' = Requests[i + 1]
    /\ vq' = submit_request(Consumed, [Nothing EXCEPT !.type = Requests[i + 1]])
    /\ UNCHANGED <<fb, console, ready, backend, gpu, mode, device, frames, failures, lost, smashed>>

\* Over a multiboot framebuffer only the backend changes: the device's screen
\* has none of the pixels painted so far.
set_backend ==
  /\ Answered /\ pc = "SET_SCANOUT" /\ vq.resp = "ok" /\ ready
  /\ gpu' = "active" /\ backend' = "VirtioGpu"
  /\ vq' = Returned(Consumed) /\ pc' = "idle"
  /\ screen' = Filled(Off) /\ lost' = Pixel
  /\ UNCHANGED <<fb, console, ready, mode, gpu_fb, host, frames, failures, smashed>>

\* Without one a new Fb of the device's size is made, cleared and presented, then
\* the console.
init_virtio_gpu ==
  /\ Answered /\ pc = "SET_SCANOUT" /\ vq.resp = "ok" /\ ~ready
  /\ gpu' = "active" /\ backend' = "VirtioGpu" /\ ready' = TRUE
  /\ LET f == commit(fb_clear(fb))
     IN  /\ fb' = f
         /\ gpu_fb' = Blitted(f.present_buf, f.ready_dirty)
         /\ vq' = submit_request(Consumed, Request("TRANSFER_TO_HOST_2D", Region(f.ready_dirty)))
         /\ pc' = "TRANSFER_TO_HOST_2D"
  /\ UNCHANGED <<console, mode, host, screen, frames, failures, lost, smashed>>

ProbeFails(q) ==
  /\ gpu' = "absent" /\ pc' = "idle" /\ vq' = Returned(q)
  /\ UNCHANGED <<fb, console, ready, backend, mode, device, frames, lost, smashed>>

probe_refused ==
  /\ Answered /\ pc \in Probing /\ vq.resp # "ok"
  /\ ProbeFails(Consumed) /\ UNCHANGED failures

probe_timeout ==
  /\ GaveUp /\ pc \in Probing
  /\ failures' = failures + 1
  /\ ProbeFails(vq)

(* -------------------------- what the kernel calls ----------------------- *)
Painter ==
  /\ ready /\ pc = "idle" /\ frames < MaxFrames
  /\ frames' = frames + 1
  /\ UNCHANGED <<ready, backend, gpu, mode, host, failures>>

write_fmt(text) ==
  /\ Painter
  /\ LET s == write_string([f |-> fb, cx |-> cx, cy |-> cy], text)
     IN  cx' = s.cx /\ cy' = s.cy /\ present(s.f)

clear ==
  /\ Painter
  /\ cx' = 0 /\ cy' = 0
  /\ present(fb_clear(fb))

draw_status_bar(text) ==
  /\ Painter
  /\ UNCHANGED console
  /\ present(BarDrawn(fb, text))

\* The owner of the framebuffer presents its own image: every pixel is put.
sys_fb_present ==
  /\ Painter
  /\ UNCHANGED console
  /\ present(fill_rect(fb, 0, 0, Width, Height, Image))

Init ==
  /\ fb = NewFb
  /\ cx = 0 /\ cy = 0
  /\ ready \in BOOLEAN
  /\ backend = "Mmio" /\ gpu = "unprobed"
  /\ mode \in IF ready THEN Modes ELSE {[w |-> Width, h |-> Height]}
  /\ gpu_fb = [o \in 0 .. mode.w * mode.h - 1 |-> Off] /\ host = Filled(Off)
  /\ screen = Filled(IF ready THEN BG ELSE Off)
  /\ vq = NewQueue
  /\ pc = "idle" /\ frames = 0 /\ failures = 0 /\ lost = {} /\ smashed = "no"

KernelOrDevice ==
  \/ \E text \in Texts : write_fmt(text)
  \/ \E text \in BarTexts : draw_status_bar(text)
  \/ clear \/ sys_fb_present
  \/ probe_absent \/ probe_found \/ probe_next \/ probe_refused \/ probe_timeout
  \/ set_backend \/ init_virtio_gpu
  \/ present_region \/ present_done \/ present_refused \/ present_timeout
  \/ device_answers

\* Once a dead buffer was used, or a row written past the end of the backing, the
\* kernel's memory may hold anything: nothing is said of what follows.
Next == smashed = "no" /\ KernelOrDevice

Spec == Init /\ [][Next]_vars

(* ------------------------------ properties ------------------------------ *)
Rect(r) == r.any => r.x0 < r.x1 /\ r.x1 <= Width /\ r.y0 < r.y1 /\ r.y1 <= Height

\* The cursor stays in the window (one past the last column at most), dirty
\* rectangles stay on the screen so that the unchecked copies of commit and
\* present_mmio are in bounds, and a frame is pending only while it is presented.
\* The unchecked copy of present_virtio_gpu is in bounds on a device at least as
\* large as the framebuffer.
TypeOK ==
  /\ cx \in 0..Cols /\ cy \in 0..Rows-1
  /\ Rect(fb.dirty) /\ Rect(fb.ready_dirty)
  /\ ~fb.dirty.any
  /\ fb.frame_ready <=> pc \in {"TRANSFER_TO_HOST_2D", "RESOURCE_FLUSH"}
  /\ lost \subseteq Pixel
  /\ Width <= mode.w /\ Height <= mode.h => smashed # "heap"

\* The pixels that what shows them has room for.
Shown == {p \in Pixel : backend = "Mmio" \/ (p[1] < mode.w /\ p[2] < mode.h)}

\* Between two calls every pixel the kernel painted is on the screen, as far as
\* the screen reaches, whichever backend shows it, except those whose own present
\* failed (and, until they are painted again, those painted before the backend
\* changed).  A device of another size shows its part of the picture unspoilt:
\* what long rows leave in the rows after them never comes to the screen, unless
\* they are twice as long as the device's.  Late answers of requests that were
\* given up never make a present succeed wrongly.  The promise ends when memory
\* was written that was no longer there, or never was.
ScreenIsCurrent ==
  ready /\ pc = "idle" /\ smashed = "no" /\ (backend = "Mmio" \/ Width < 2 * mode.w)
    => \A p \in Shown \ lost : screen[p] = fb.back[p]

\* Seen through its pixels the console is a terminal: text wraps, scrolls and
\* erases as the abstract window does and never touches the status bar.
Cell(r, c) == fb.back[<<(c - 1) * GlyphW, (r - 1) * GlyphH>>]
Window == INSTANCE Terminal WITH
            lines <- [r \in 1..Rows |-> [c \in 1..Cols |-> Cell(r, c)]],
            row <- cy + 1, col <- cx,
            bar <- [p \in {q \in Pixel : q[2] >= BarY} |-> fb.back[p]]
ImplementsTerminal == Window!Spec
=============================================================================
