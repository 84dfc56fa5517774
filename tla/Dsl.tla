-------------------------------- MODULE Dsl --------------------------------
(***************************************************************************)
(* The host agent (agent.py): from a prompt, through the replies of two    *)
(* model backends that may say anything, to the drawing commands sent to   *)
(* the guest; and what aidraw.c accepts of them.                           *)
(*                                                                         *)
(* A prompt is the set of the keywords it contains.  A reply is what is in *)
(* it: json, the commands of the JSON object (none when there is no valid  *)
(* one), and text, the lines it has when read as plain text.  A command or *)
(* line is [cmd, vals].  In vals, Junk stands for what int() rejects and   *)
(* for a field that is missing or contradictory; Huge for a JSON number    *)
(* beyond any float, on which int() raises OverflowError.                  *)
(***************************************************************************)
EXTENDS Integers, Sequences, FiniteSets, SequencesExt, FiniteSetsExt

CONSTANTS Prompts,            \* prompts a guest may send
          Replies,            \* replies a backend may give
          MAX_MODEL_REPAIRS

VARIABLE host

Junk == 100000
Huge == 200000
NoReply == [json |-> <<>>, text |-> <<>>]
Ln(c, v) == [cmd |-> c, vals |-> v]
EndLine == Ln("END", <<>>)

Polygons == {"POLYGON", "FILLPOLYGON"}
Arity1 == {"CLEAR"}
Arity4 == {"CIRCLE", "FILLCIRCLE"}
Arity5 == {"LINE", "RECT", "FILLRECT", "ELLIPSE", "FILLELLIPSE"}
Arity7 == {"TRIANGLE", "FILLTRIANGLE"}
Commands == Arity1 \cup {"PIXEL"} \cup Arity4 \cup Arity5 \cup Arity7 \cup Polygons \cup {"END"}
\* COMMAND_ARITY; a polygon has its number of points, the points and a colour.
COMMAND_ARITY(c, count) ==
  CASE c = "END" -> 0 [] c \in Arity1 -> 1 [] c = "PIXEL" -> 3 [] c \in Arity4 -> 4
    [] c \in Arity5 -> 5 [] c \in Arity7 -> 7 [] c \in Polygons -> 2 + 2 * count
-----------------------------------------------------------------------------
(* Validation.                                                             *)

Count(l) == IF l.vals = <<>> THEN Junk ELSE l.vals[1]
ValidLine(l) ==
  LET v == l.vals IN
    /\ l.cmd \in Polygons => Len(v) >= 7 /\ Count(l) \in 3..16
    /\ Len(v) = COMMAND_ARITY(l.cmd, Count(l))
    /\ \A i \in DOMAIN v : i < Len(v) => -4096 <= v[i] /\ v[i] <= 4096
    /\ v[Len(v)] \in 0..15

\* Mutant: END is passed on and never added.
Closed_found(all, lines) == IF Len(all) > Len(lines) THEN Append(lines, EndLine) ELSE lines
Closed(all, lines) == Append(lines, EndLine)

\* The lines to send, or none when the text is refused.  What follows END is not
\* looked at, nor is a line that starts with no command.
validate_response(text) ==
  LET known == SelectSeq(text, LAMBDA l : l.cmd \in Commands)
      ends == {i \in DOMAIN known : known[i].cmd = "END"}
      lines == IF ends = {} THEN known ELSE SubSeq(known, 1, Min(ends) - 1)
  IN  IF known = <<>> \/ \E i \in DOMAIN lines : ~ValidLine(lines[i]) THEN <<>> ELSE Closed(known, lines)

Field(c, i) == IF i <= Len(c.vals) THEN c.vals[i] ELSE Junk
\* What command_to_dsl() raises: nothing, ValueError or OverflowError.
command_to_dsl(c) ==
  LET bad == {i \in 1..COMMAND_ARITY(c.cmd, Count(c)) : Field(c, i) \in {Junk, Huge}}
  IN  IF c.cmd \notin Commands \/ (c.cmd \in Polygons /\ Count(c) \notin 3..16) THEN "value"
      ELSE IF bad = {} THEN "none" ELSE IF Field(c, Min(bad)) = Huge THEN "overflow" ELSE "value"
\* The outcome of the commands in order: that of the first that fails.
Raised(cs) ==
  LET bad == {i \in DOMAIN cs : command_to_dsl(cs[i]) # "none"}
  IN  IF cs = <<>> THEN "value" ELSE IF bad = {} THEN "none" ELSE command_to_dsl(cs[Min(bad)])
validate_json_response(cs) ==
  IF Raised(cs) # "none" THEN <<>>
  ELSE validate_response([i \in DOMAIN cs |-> Ln(cs[i].cmd, SubSeq(cs[i].vals, 1, COMMAND_ARITY(cs[i].cmd, Count(cs[i]))))])

Vehicles == {"car", "bus", "truck", "vehicle"}
semantic_validate_response(prompt, body) ==
  LET n(S) == Cardinality({i \in DOMAIN body : body[i].cmd \in S})
      round == n({"CIRCLE", "FILLCIRCLE", "ELLIPSE", "FILLELLIPSE"})
      rect == n({"RECT", "FILLRECT"})
      triangle == n({"TRIANGLE", "FILLTRIANGLE"})
      line == n({"LINE"} \cup Polygons) + triangle
  IN  /\ prompt \cap Vehicles # {} => round >= 2 /\ rect >= 1
      /\ "house" \in prompt => rect >= 1 /\ line + triangle >= 2
      /\ "flag" \in prompt => rect >= 2 \/ triangle >= 1
      /\ prompt \cap {"smiley", "smile", "face"} # {} => round >= 3 /\ line >= 1
      /\ prompt \cap {"mountain", "peak"} # {} => line >= 1 \/ triangle >= 1
      /\ "sunset" \in prompt => round >= 1
-----------------------------------------------------------------------------
(* Fallbacks.                                                              *)

Fill(x, y, w, h, c) == Ln("FILLRECT", <<x, y, w, h, c>>)
Box(x, y, w, h, c) == Ln("RECT", <<x, y, w, h, c>>)
Edge(x, y, u, v, c) == Ln("LINE", <<x, y, u, v, c>>)
Disc(x, y, r, c) == Ln("FILLCIRCLE", <<x, y, r, c>>)
Ring(x, y, r, c) == Ln("CIRCLE", <<x, y, r, c>>)
Clear(c) == Ln("CLEAR", <<c>>)

vehicle_template(prompt) ==
  IF "bus" \in prompt
  THEN <<Clear(9), Fill(0, 150, 320, 50, 2), Fill(40, 95, 220, 55, 12), Box(40, 95, 220, 55, 15)>>
         \o [k \in 1..5 |-> Fill(18 + 37 * k, 108, 30, 18, 15)]
         \o <<Disc(90, 155, 18, 0), Disc(210, 155, 18, 0), Ring(90, 155, 18, 7), Ring(210, 155, 18, 7), EndLine>>
  ELSE <<Clear(9), Fill(0, 150, 320, 50, 2), Fill(60, 115, 150, 32, 12), Fill(95, 90, 70, 30, 12),
         Box(60, 115, 150, 32, 15), Box(95, 90, 70, 30, 15), Fill(105, 98, 22, 14, 15), Fill(132, 98, 22, 14, 15),
         Disc(95, 150, 16, 0), Disc(180, 150, 16, 0), Ring(95, 150, 16, 7), Ring(180, 150, 16, 7), EndLine>>
canned_response(prompt) ==
  IF {"flag", "us"} \subseteq prompt
  THEN <<Clear(15), Fill(0, 0, 320, 200, 15), Fill(0, 0, 128, 112, 1)>>
         \o [k \in 1..5 |-> Fill(0, 36 * k - 18, 320, 18, 12)] \o <<EndLine>>
  ELSE IF prompt \cap {"smiley", "face"} # {}
  THEN <<Clear(9), Disc(160, 100, 58, 14), Ring(160, 100, 58, 15), Disc(138, 82, 7, 0), Disc(182, 82, 7, 0),
         Edge(130, 130, 146, 144, 0), Edge(146, 144, 174, 144, 0), Edge(174, 144, 190, 130, 0), EndLine>>
  ELSE IF "house" \in prompt
  THEN <<Clear(9), Fill(0, 145, 320, 55, 2), Fill(96, 86, 112, 70, 6), Box(96, 86, 112, 70, 15),
         Fill(138, 118, 28, 38, 4), Box(138, 118, 28, 38, 15), Edge(96, 86, 152, 48, 12), Edge(152, 48, 208, 86, 12),
         Edge(96, 87, 152, 49, 12), Edge(152, 49, 208, 87, 12), EndLine>>
  ELSE <<Clear(9), Fill(0, 140, 320, 60, 2), Disc(250, 45, 24, 14), Ring(250, 45, 24, 15), Fill(90, 85, 95, 70, 6),
         Box(90, 85, 95, 70, 15), Fill(123, 118, 26, 37, 4), Box(123, 118, 26, 37, 15), Edge(90, 85, 138, 52, 4),
         Edge(138, 52, 185, 85, 4), EndLine>>
Fallback(prompt) ==
  IF prompt \cap Vehicles # {} THEN vehicle_template(prompt) ELSE canned_response(prompt)
-----------------------------------------------------------------------------
(* run_agent() and generate_response().                                    *)

backend_attempt_order == <<"claude", "gemini">>

Init == host = [st |-> "idle", prompt |-> {}, backend |-> 0, attempt |-> 0, cand |-> NoReply, body |-> <<>>]

\* The connection closes, or a request comes; one that is not DRAW has no prompt.
read_request ==
  /\ host.st \in {"idle", "answered"}
  /\ \/ host' = [host EXCEPT !.st = "closed"]
     \/ \E p \in Prompts : host' = [host EXCEPT !.st = "ask", !.prompt = p, !.backend = 1, !.body = <<>>]

\* The next backend's turn, or the fallback's.
GiveUp ==
  host' = IF host.backend < Len(backend_attempt_order)
          THEN [host EXCEPT !.st = "ask", !.backend = @ + 1, !.cand = NoReply, !.attempt = 0]
          ELSE [host EXCEPT !.st = "answered", !.body = Fallback(host.prompt), !.cand = NoReply, !.attempt = 0]

\* A request to a backend fails (no key, an HTTP error, no text) or yields a text.
maybe_generate_with_backend ==
  /\ host.st = "ask"
  /\ \/ GiveUp
     \/ \E r \in Replies : host' = [host EXCEPT !.st = "check", !.cand = r, !.attempt = 0]

Validated(r) ==
  LET v == validate_json_response(r.json) IN IF v = <<>> THEN validate_response(r.text) ELSE v
\* One round of the loop: the candidate is sent, the agent dies of an exception
\* nobody catches, the backend is asked for a repair, or it has had its chances.
check ==
  /\ host.st = "check"
  /\ LET v == Validated(host.cand) IN
       IF Raised(host.cand.json) = "overflow" THEN host' = [host EXCEPT !.st = "dead"]
       ELSE IF v # <<>> /\ semantic_validate_response(host.prompt, v)
       THEN host' = [host EXCEPT !.st = "answered", !.body = v, !.cand = NoReply, !.attempt = 0]
       ELSE IF host.attempt = MAX_MODEL_REPAIRS THEN GiveUp
       ELSE host' = [host EXCEPT !.st = "repair"]
repair_output ==
  /\ host.st = "repair"
  /\ \/ GiveUp
     \/ \E r \in Replies : host' = [host EXCEPT !.st = "check", !.cand = r, !.attempt = @ + 1]

Next == read_request \/ maybe_generate_with_backend \/ check \/ repair_output
Spec == Init /\ [][Next]_host
-----------------------------------------------------------------------------
(* The guest's side.                                                       *)

\* The numbers parse_line() and parse_polygon() read after a command's name.
Wanted(l) ==
  CASE l.cmd = "END" -> 0 [] l.cmd = "CLEAR" -> 1 [] l.cmd = "PIXEL" -> 3
    [] l.cmd \in {"CIRCLE", "FILLCIRCLE"} -> 4
    [] l.cmd \in {"LINE", "RECT", "FILLRECT", "ELLIPSE", "FILLELLIPSE"} -> 5
    [] l.cmd \in {"TRIANGLE", "FILLTRIANGLE"} -> 7
    [] l.cmd \in {"POLYGON", "FILLPOLYGON"} /\ Count(l) \in 3..16 -> 2 * Count(l) + 2
    [] OTHER -> -1
parse_line(l) == Len(l.vals) = Wanted(l) /\ \A i \in DOMAIN l.vals : l.vals[i] # Junk
\* main(): every line up to END is accepted, and there is an END.
Drawable(body) ==
  \E n \in DOMAIN body : body[n].cmd = "END" /\ \A i \in 1..n : parse_line(body[i])

Subjects == {"house", "flag", "mountain", "sunset"}
\* Whatever the backends say, the agent only answers with a body that aidraw
\* draws to its END, with palette colours and coordinates far from overflowing,
\* and, for a prompt with one subject, one that shows that subject: the
\* fallbacks keep the rules the replies are held to.  The exception is "smile"
\* without "smiley" or "face", for which the canned response has no face.
AnswerFits ==
  host.st = "answered" =>
    /\ Drawable(host.body)
    /\ \A i \in DOMAIN host.body : LET v == host.body[i].vals IN
         \A k \in DOMAIN v : IF k = Len(v) THEN v[k] \in 0..15 ELSE v[k] \in -4096..4096
    /\ \/ semantic_validate_response(host.prompt, host.body)
       \/ host.body = Fallback(host.prompt)
            /\ (Cardinality(host.prompt \cap Subjects) > 1 \/ (host.prompt = {"smile"}))
=============================================================================
