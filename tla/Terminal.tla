------------------------------ MODULE Terminal ------------------------------
(***************************************************************************)
(* The terminal: the keyboard ring of console.c with its line editing, raw *)
(* mode and sleeping readers; the text screen of cgaputc(); the display    *)
(* driver (display.c, vga.c) with its two modes and palettes; and the      *)
(* session of an aidraw process that takes the screen, waits for a key and *)
(* gives the screen back.  A step is what is done under one hold of        *)
(* input.lock, or one system call.                                         *)
(***************************************************************************)
EXTENDS Integers, Sequences, FiniteSets, SequencesExt

CONSTANTS
  Drawers, Readers,      \* aidraw processes; processes that read lines
  Keys, MaxKeys,         \* keys typed, and how many
  MaxPrints,             \* characters that other processes print
  Sizes,                 \* numbers of bytes that read() asks for
  MaxReads,              \* calls of a reader
  INPUT_BUF, Wrap,       \* the ring and where its counters wrap around
  Columns, Rows,         \* of the screen that scrolls: 80 and 24
  Chunks                 \* writes that a picture takes

VARIABLES
  input,      \* [buf, r, w, e, raw]
  screen,     \* text memory and cursor
  disp,       \* [mode, palette, cga256, text_saved, saved, picture]
  proc,       \* of each process: [pc, killed, n, target]
  ilock,      \* who holds the lock of the console's inode
  hist        \* history: keys taken, bytes read, prints, and what went wrong

vars == <<input, screen, disp, proc, ilock, hist>>
Proc == Drawers \cup Readers
uint(n) == n % Wrap
-----------------------------------------------------------------------------
(* The screen.                                                             *)

Cells == 0..(Columns * (Rows + 1) - 1)
Blank == [crt |-> [i \in Cells |-> " "], pos |-> 0]
Placed(s, c) ==
  CASE c = "nl" -> [s EXCEPT !.pos = @ + Columns - (@ % Columns)]
    [] c = "bs" -> [s EXCEPT !.pos = IF @ > 0 THEN @ - 1 ELSE @]
    [] OTHER -> [crt |-> [s.crt EXCEPT ![s.pos] = c], pos |-> s.pos + 1]
Scrolled(s) ==
  IF s.pos \div Columns < Rows THEN s
  ELSE LET pos == s.pos - Columns
       IN  [pos |-> pos,
            crt |-> [i \in Cells |-> IF i >= pos /\ i < Rows * Columns THEN "0"
                                     ELSE IF i < (Rows - 1) * Columns THEN s.crt[i + Columns] ELSE s.crt[i]]]
cgaputc(s, c) == LET t == Scrolled(Placed(s, c)) IN [t EXCEPT !.crt[t.pos] = " "]
\* In graphics mode the text memory is not there: only the cursor moves.
Shown(s, c) == IF disp.mode = "text" THEN cgaputc(s, c) ELSE [s EXCEPT !.pos = cgaputc(s, c).pos]
\* Characters go to the screen, and to the history of what text mode printed.
consputc(cs, typed, prints) ==
  /\ screen' = FoldLeft(Shown, screen, cs)
  /\ hist' = [hist EXCEPT !.typed = typed, !.prints = prints,
                          !.text = IF disp.mode = "text" THEN FoldLeft(cgaputc, @, cs) ELSE @]
-----------------------------------------------------------------------------
(* Keyboard input.                                                         *)

At(i) == input.buf[uint(i) % INPUT_BUF]
Ring(i, j) == [k \in 1..uint(j - i) |-> At(i + k - 1)]
Wake == [p \in Proc |-> IF proc[p].pc = "sleep" THEN [proc[p] EXCEPT !.pc = "read"] ELSE proc[p]]

HasRoom == uint(input.e - input.r) < INPUT_BUF
RECURSIVE KillLine(_)
KillLine(e) == IF e # input.w /\ At(e - 1) # "nl" THEN KillLine(uint(e - 1)) ELSE e
Wakes(e, c) == input.raw \/ c \in {"nl", "eof"} \/ e = uint(input.r + INPUT_BUF)

consoleintr(c) ==
  /\ Len(hist.typed) < MaxKeys
  /\ \/ /\ c \in {"kill", "del"}
        /\ LET e == IF c = "kill" THEN KillLine(input.e)
                    ELSE IF input.e # input.w THEN uint(input.e - 1) ELSE input.e
           IN  /\ input' = [input EXCEPT !.e = e]
               /\ consputc([k \in 1..uint(input.e - e) |-> "bs"], Append(hist.typed, <<c, FALSE>>), hist.prints)
        /\ UNCHANGED proc
     \/ /\ c \notin {"kill", "del"}
        /\ HasRoom
        /\ LET e == uint(input.e + 1) IN
             /\ input' = [input EXCEPT !.buf[input.e % INPUT_BUF] = c, !.e = e, !.w = IF Wakes(e, c) THEN e ELSE @]
             /\ proc' = IF Wakes(e, c) THEN Wake ELSE proc
             /\ consputc(<<c>>, Append(hist.typed, <<c, input.raw \/ e = uint(input.r + INPUT_BUF)>>), hist.prints)
  /\ UNCHANGED <<disp, ilock>>

\* Mutant: ^D is not kept for the next read.
SaveEof_never(n, target) == FALSE
SaveEof(n, target) == n < target
\* The inner loop of consoleread() from r with n bytes to go: how far it gets.
RECURSIVE Take(_, _, _)
Take(r, n, target) ==
  IF r = input.w THEN [r |-> r, n |-> n, over |-> n = 0]
  ELSE IF n = 0 THEN [r |-> r, n |-> 0, over |-> TRUE]
  ELSE IF At(r) = "eof" THEN [r |-> IF SaveEof(n, target) THEN r ELSE uint(r + 1), n |-> n, over |-> TRUE]
  ELSE IF At(r) = "nl" THEN [r |-> uint(r + 1), n |-> n - 1, over |-> TRUE]
  ELSE Take(uint(r + 1), n - 1, target)

read(p, n) ==
  /\ p \in Readers /\ proc[p].pc = "run" /\ ~proc[p].killed
  /\ hist.reads < MaxReads
  /\ proc' = [proc EXCEPT ![p] = [@ EXCEPT !.pc = "read", !.n = n, !.target = n]]
  /\ hist' = [hist EXCEPT !.reads = @ + 1]
  /\ UNCHANGED <<input, screen, disp, ilock>>

After(p) == IF p \in Drawers THEN "rawoff" ELSE "run"
\* Up to the next sleep() or the end of the call.
consoleread(p) ==
  LET t == Take(input.r, proc[p].n, proc[p].target)
  IN  /\ proc[p].pc = "read"
      /\ input' = [input EXCEPT !.r = t.r]
      /\ hist' = [hist EXCEPT !.got = @ \o Ring(input.r, t.r),
                              !.zeros = IF t.over /\ t.n = proc[p].target THEN @ + 1 ELSE @]
      /\ proc' = [proc EXCEPT ![p] = [@ EXCEPT !.n = t.n, !.pc = IF t.over THEN After(p) ELSE IF proc[p].killed THEN "ilock" ELSE "sleep"]]
      /\ UNCHANGED <<screen, disp, ilock>>
\* A killed reader locks the inode, which nobody unlocked or will unlock.
consoleread_killed(p) ==
  /\ proc[p].pc = "ilock" /\ ilock = "free"
  /\ ilock' = "held"
  /\ proc' = [proc EXCEPT ![p].pc = After(p)]
  /\ UNCHANGED <<input, screen, disp, hist>>

HandsOver(raw) == raw /\ input.r # input.e
SetRaw(raw) ==
  /\ input' = [input EXCEPT !.raw = raw, !.w = IF HandsOver(raw) THEN input.e ELSE @]
  /\ hist' = [hist EXCEPT !.typed = IF HandsOver(raw) THEN Append(@, <<"raw", TRUE>>) ELSE @]
-----------------------------------------------------------------------------
(* The display.                                                            *)

\* Mutant: the cursor stays where output in graphics mode left it.
Restored_text(saved, pos) == [saved EXCEPT !.pos = pos]
Restored(saved, pos) == saved
\* The palette is one entry of it, red, green and blue of 6 bits, kept in a word.
Text == <<42, 21, 63>>
cgaSavePalette(rgb) == rgb[1] * 2^18 + rgb[2] * 2^10 + rgb[3] * 4
cgaRestorePalette(v) == <<(v \div 2^18) % 64, (v \div 2^10) % 64, (v \div 4) % 64>>
setdefaultVGApalette == cgaRestorePalette(168)    \* vga256_24bit[1] = 0x0000a8
\* Mutant: the palette is saved after the new one is set.
vgaMode13_late(d) ==
  [d EXCEPT !.mode = "graphics", !.cga256 = cgaSavePalette(setdefaultVGApalette), !.palette = setdefaultVGApalette]
\* All the other registers that a mode sets are its name.
vgaMode13(d) ==
  [d EXCEPT !.mode = "graphics", !.cga256 = cgaSavePalette(d.palette), !.palette = setdefaultVGApalette]
vgaMode3(d) == [d EXCEPT !.mode = "text", !.palette = cgaRestorePalette(d.cga256)]
displayioctl(value) ==
  IF value = "graphics"
  THEN /\ disp' = [vgaMode13(disp) EXCEPT !.text_saved = TRUE, !.saved = IF disp.text_saved THEN @ ELSE screen]
       /\ UNCHANGED screen
  ELSE /\ disp' = [vgaMode3(disp) EXCEPT !.text_saved = FALSE]
       /\ screen' = IF disp.text_saved THEN Restored(disp.saved, screen.pos) ELSE screen

Session == {"blit", "rawon", "read", "sleep", "ilock", "rawoff", "mode3"}
Drawing == {d \in Drawers : proc[d].pc \in Session}
Goes(p, pc) == proc' = [proc EXCEPT ![p].pc = pc]

\* aidraw: ai_query() fails, the response is refused, or it has a picture.
main(p) ==
  /\ p \in Drawers /\ proc[p].pc = "run" /\ ~proc[p].killed
  /\ \/ Goes(p, "exit")
     \/ Goes(p, "mode13")
  /\ UNCHANGED <<input, screen, disp, ilock, hist>>
\* set_display_mode(): open() may fail.
mode13(p) ==
  /\ proc[p].pc = "mode13" /\ ~proc[p].killed
  /\ \/ Goes(p, "exit") /\ UNCHANGED <<screen, disp, hist>>
     \/ /\ displayioctl("graphics")
        /\ proc' = [proc EXCEPT ![p] = [@ EXCEPT !.pc = "blit", !.n = 0]]
        /\ hist' = [hist EXCEPT !.overlap = @ \/ Drawing # {}]
  /\ UNCHANGED <<input, ilock>>
\* canvas_blit(): one write(), or the open() fails.
canvas_blit(p) ==
  /\ proc[p].pc = "blit" /\ ~proc[p].killed
  /\ \/ proc[p].n = 0 /\ Goes(p, "mode3") /\ UNCHANGED disp
     \/ /\ disp' = [disp EXCEPT !.picture[proc[p].n] = p]    \* displaywrite()
        /\ proc' = [proc EXCEPT ![p] = [@ EXCEPT !.n = @ + 1, !.pc = IF proc[p].n + 1 = Chunks THEN "rawon" ELSE "blit"]]
  /\ UNCHANGED <<input, screen, ilock, hist>>
\* wait_for_keypress()
rawon(p) ==
  /\ proc[p].pc = "rawon" /\ ~proc[p].killed
  /\ SetRaw(TRUE)
  /\ proc' = [q \in Proc |-> IF q = p THEN [proc[p] EXCEPT !.pc = "read", !.n = 1, !.target = 1]
                             ELSE IF HandsOver(TRUE) THEN Wake[q] ELSE proc[q]]
  /\ UNCHANGED <<screen, disp, ilock>>
rawoff(p) ==
  /\ proc[p].pc = "rawoff" /\ ~proc[p].killed
  /\ SetRaw(FALSE)
  /\ Goes(p, "mode3")
  /\ UNCHANGED <<screen, disp, ilock>>
mode3(p) ==
  /\ proc[p].pc = "mode3" /\ ~proc[p].killed
  /\ Goes(p, "exit")
  /\ \/ displayioctl("text") /\ UNCHANGED hist
     \/ hist' = [hist EXCEPT !.aborted = TRUE] /\ UNCHANGED <<screen, disp>>
  /\ UNCHANGED <<input, ilock>>

consolewrite(c) ==
  /\ hist.prints < MaxPrints
  /\ consputc(<<c>>, hist.typed, hist.prints + 1)
  /\ UNCHANGED <<input, disp, proc, ilock>>

\* kill() wakes a sleeper; a killed process ends before it is in user code again.
kill(p) ==
  /\ ~proc[p].killed /\ proc[p].pc # "exit"
  /\ proc' = [proc EXCEPT ![p] = [@ EXCEPT !.killed = TRUE, !.pc = IF @ = "sleep" THEN "read" ELSE @]]
  /\ UNCHANGED <<input, screen, disp, ilock, hist>>
die(p) ==
  /\ proc[p].killed /\ proc[p].pc \notin {"read", "sleep", "ilock", "exit"}
  /\ Goes(p, "exit")
  /\ hist' = [hist EXCEPT !.aborted = @ \/ (p \in Drawers /\ proc[p].pc \in Session)]
  /\ UNCHANGED <<input, screen, disp, ilock>>
-----------------------------------------------------------------------------
Init ==
  /\ input = [buf |-> [i \in 0..(INPUT_BUF - 1) |-> "a"], r |-> 0, w |-> 0, e |-> 0, raw |-> FALSE]
  /\ screen = Blank
  /\ disp = [mode |-> "text", palette |-> Text, cga256 |-> 0, text_saved |-> FALSE, saved |-> Blank,
             picture |-> [i \in 0..(Chunks - 1) |-> "none"]]
  /\ proc = [p \in Proc |-> [pc |-> "run", killed |-> FALSE, n |-> 0, target |-> 0]]
  /\ ilock = "free"
  /\ hist = [typed |-> <<>>, got |-> <<>>, text |-> Blank, prints |-> 0, reads |-> 0, zeros |-> 0, overlap |-> FALSE, aborted |-> FALSE]

Next ==
  \/ \E c \in Keys : consoleintr(c)
  \/ \E c \in {"a", "nl"} : consolewrite(c)
  \/ \E p \in Proc : \/ \E n \in Sizes : read(p, n)
                     \/ consoleread(p) \/ consoleread_killed(p) \/ main(p) \/ mode13(p) \/ canvas_blit(p)
                     \/ rawon(p) \/ rawoff(p) \/ mode3(p) \/ kill(p) \/ die(p)
Spec == Init /\ [][Next]_vars
-----------------------------------------------------------------------------
\* A line editor over a stack: done can no longer be erased, open can.
Edit(l, k) ==
  LET all == IF k[1] \in {"raw", "del", "kill"} THEN l.open ELSE Append(l.open, k[1]) IN
    CASE k[1] = "kill" -> [l EXCEPT !.open = <<>>]
      [] k[1] = "del" -> [l EXCEPT !.open = IF @ = <<>> THEN @ ELSE Front(@)]
      [] OTHER -> IF k[2] \/ k[1] \in {"nl", "eof"} THEN [done |-> l.done \o all, open |-> <<>>] ELSE [l EXCEPT !.open = all]
\* What the readers got and what is waiting for them is, in order and across the
\* wrap of the counters, what was typed and not erased in time; nothing that is
\* still being edited reaches a reader, no reader sleeps on finished input, and
\* every ^D that is used up made one read() return no bytes.
InputInOrder ==
  LET l == FoldLeft(Edit, [done |-> <<>>, open |-> <<>>], hist.typed) IN
    /\ hist.got \o Ring(input.r, input.w) = l.done
    /\ Ring(input.w, input.e) = l.open
    /\ hist.zeros = Len(SelectSeq(hist.got, LAMBDA c : c = "eof"))
    /\ \A p \in Proc : proc[p].pc = "sleep" => input.r = input.w

\* The cursor stays on the part of the screen that scrolls, and in text mode the
\* screen shows all that was printed in text mode and nothing else, except after
\* overlapping or aborted sessions.
ScreenKept ==
  /\ screen.pos < Columns * Rows
  /\ disp.mode = "text" => hist.aborted \/ screen = hist.text

\* When no session is on, the terminal is as it was before: text mode, cooked
\* input, and the text palette; two sessions at once lose only the palette, and
\* one that is killed or cannot open the display may leave everything changed.
SessionRestores ==
  Drawing = {} /\ ~hist.aborted =>
    disp.mode = "text" /\ ~input.raw /\ (hist.overlap \/ disp.palette = Text)
=============================================================================
