-------------------------------- MODULE MCAi --------------------------------
(***************************************************************************)
(* The AI drawing feature for TLC: the transport in the kernel, the host   *)
(* agent and the drawing library.  They share no state, and a behaviour is *)
(* of the one that kind names; the variables of the others stay at rest.   *)
(***************************************************************************)
EXTENDS AiBridge, Integers

VARIABLES kind, shape, canvas, host

drawVars == <<shape, canvas>>

\* Shapes on, across and off a canvas of 4 by 4, degenerate ones included.
Shape(c, S) == {[cmd |-> c, a |-> a] : a \in S}
X == -2..5
C == {-1, 1, 3}
R == -1..4
P == {-2, 0, 3}
MCShapes ==
  Shape("CLEAR", {<<>>}) \cup Shape("PIXEL", X \X X) \cup Shape("LINE", X \X (0..5) \X X \X (-1..4))
    \cup UNION {Shape(c, C \X C \X R \X R) : c \in {"RECT", "FILLRECT", "ELLIPSE", "FILLELLIPSE"}}
    \cup UNION {Shape(c, C \X {-1, 1} \X (-1..7)) : c \in {"CIRCLE", "FILLCIRCLE"}}
    \cup UNION {Shape(c, P \X P \X P \X P \X P \X P) : c \in {"TRIANGLE", "POLYGON", "FILLTRIANGLE", "FILLPOLYGON"}}
    \cup Shape("FILLPOLYGON", P \X P \X P \X P \X P \X P \X {1} \X {3})
Draw == INSTANCE Draw WITH CANVAS_WIDTH <- 4, CANVAS_HEIGHT <- 4, POLYGON_MAX_POINTS <- 4, Shapes <- MCShapes

\* Every command with every list of values, in a reply of its own, and replies
\* that mix forms, stop early, or fail late.
A == INSTANCE Dsl WITH MAX_MODEL_REPAIRS <- 2, Prompts <- {}, Replies <- {}
Vals == {<<>>, <<7>>, <<16>>, <<1, 1, 1>>, <<1, -4096, 4096, 15>>, <<1, 1, 1, 1, 1>>, <<1, 4097, 1, 1, 1>>,
         <<1, 1, A!Junk, 1, 1>>, <<1, 1, A!Huge, 1, 1>>, <<1, A!Junk, A!Huge, 1>>,
         <<3, 1, 2, 3, 4, 5, 6>>, <<3, 1, 2, 3, 4, 5, 6, 7>>, <<2, 1, 2, 3, 4, 5>>}
One == {A!Ln(c, v) : c \in A!Commands \cup {"SURE"}, v \in Vals}
MCReplies ==
  LET disc == A!Disc(1, 1, 1, 1)
      box == A!Box(1, 1, 1, 1, 1)
      edge == A!Edge(1, 1, 1, 1, 1)
  IN  {[json |-> <<l>>, text |-> <<>>] : l \in One} \cup {[json |-> <<>>, text |-> <<l>>] : l \in One}
        \cup {[json |-> <<>>, text |-> <<disc, disc, disc, box, box, edge, edge>>],
              [json |-> <<A!Ln("LINE", <<1>>)>>, text |-> <<edge, A!EndLine, A!Ln("CLEAR", <<>>)>>],
              [json |-> <<box, box, A!Ln("CLEAR", <<A!Junk>>), A!Ln("CLEAR", <<A!Huge>>)>>, text |-> <<>>],
              [json |-> <<box, A!Ln("TRIANGLE", <<1, 1, 1, 1, 1, 1, 1>>), A!EndLine, A!Ln("PIXEL", <<1, 1, 1>>)>>,
               text |-> <<>>]}
MCPrompts == {{}, {"car"}, {"bus", "us"}, {"house", "us"}, {"flag"}, {"flag", "us"}, {"smile"},
              {"smile", "smiley"}, {"face"}, {"mountain"}, {"sunset"}, {"flag", "house", "us"}}
Agent == INSTANCE Dsl WITH MAX_MODEL_REPAIRS <- 2, Prompts <- MCPrompts, Replies <- MCReplies

NoDraw == shape = 0 /\ canvas = <<>>
NoHost == host = 0
MCInit ==
  /\ Init
  /\ \/ kind = "transport" /\ NoDraw /\ NoHost
     \/ kind = "draw" /\ Draw!Init /\ NoHost
     \/ kind = "host" /\ NoDraw /\ Agent!Init

\* MaxReq requests are made; the picture is drawn; the agent has lost its
\* connection or died.
Over ==
  \/ kind = "transport"
  \/ kind = "draw" /\ canvas # <<>>
  \/ kind = "host" /\ host.st \in {"closed", "dead"}
MCNext ==
  \/ kind = "transport" /\ Next /\ UNCHANGED <<kind, drawVars, host>>
  \/ kind = "draw" /\ Draw!Next /\ UNCHANGED <<kind, vars, host>>
  \/ kind = "host" /\ Agent!Next /\ UNCHANGED <<kind, vars, drawVars>>
  \/ Over /\ UNCHANGED <<kind, vars, drawVars, host>>
MCSpec == MCInit /\ [][MCNext]_<<kind, vars, drawVars, host>> /\ Fairness

\* Every shape paints what its geometry demands and nothing it forbids, however
\* the canvas cuts it (drawlib.c).
Rasterised == kind = "draw" => Draw!Rasterised
\* Whatever the backends reply, what the agent sends is a drawing aidraw accepts
\* and that shows what was asked for (agent.py, aidraw.c).
AnswerFits == kind = "host" => Agent!AnswerFits
=============================================================================
