--------------------------- MODULE AiBridgeProofs ---------------------------
(***************************************************************************)
(* Proofs about AiBridge with one client, for any number of requests and   *)
(* any lengths of answers.                                                 *)
(***************************************************************************)
EXTENDS AiBridge, Integers, TLAPS

Request == 1..MaxReq
Messages == {Begin, End} \cup {Line(r) : r \in Request}
InQuery == {"send", "wait", "sleep"}

Types ==
  /\ active \in BOOLEAN /\ draining \in BOOLEAN /\ suppress_console \in BOOLEAN
  /\ in_response \in BOOLEAN /\ complete \in BOOLEAN /\ failed \in BOOLEAN
  /\ response \in Seq(Nat)
  /\ pc \in [Proc -> InQuery \cup {"idle", "done"}]
  /\ nreq \in 0..MaxReq
  /\ req \in [Proc -> 0..nreq]
  /\ result \in [Proc -> Seq(Nat)]
  /\ requests \in Seq(Request)
  /\ answer \in [Request -> Nat]
  /\ wire \in Seq(Messages)
  /\ burst \in {"none", "ai", "console"}
  /\ leaked \in BOOLEAN

\* Nothing that a listener would take for the start of an answer is due.
Quiet == requests = <<>> /\ \A i \in 1..Len(wire) : wire[i] # Begin

\* The host has request r still to answer ...
Asked(r) == requests = <<r>> /\ answer[r] = 0 /\ \A i \in 1..Len(wire) : wire[i] # Begin

\* ... or has sent its answer, of which nothing was received, behind k lines
\* that are the rest of an earlier one ...
Answered(r, k) ==
  /\ requests = <<>>
  /\ Len(wire) = k + answer[r] + 2
  /\ \A i \in 1..k : wire[i] # Begin
  /\ wire[k + 1] = Begin
  /\ \A i \in (k + 2)..(k + answer[r] + 1) : wire[i] = Line(r)
  /\ wire[Len(wire)] = End

\* ... or the answer is being received.
Receiving(r) ==
  /\ requests = <<>>
  /\ Len(wire) + Len(response) = answer[r] + 1
  /\ wire # <<>>
  /\ \A i \in 1..(Len(wire) - 1) : wire[i] = Line(r)
  /\ wire[Len(wire)] = End
  /\ response = [i \in 1..Len(response) |-> r]

\* What is on the line in both directions.
LineInv(p) ==
  /\ ~Listening => Quiet
  /\ Listening /\ ~in_response =>
       \/ Quiet
       \/ \E r \in 1..nreq : (active => r = req[p]) /\ (Asked(r) \/ \E k \in Nat : Answered(r, k))
  /\ Listening /\ in_response =>
       burst # "console" /\ \E r \in 1..nreq : (active => r = req[p]) /\ Receiving(r)

Answer(p) == [i \in 1..answer[req[p]] |-> req[p]]

\* The client against the flags of the bridge.
ClientInv(p) ==
  /\ active => ~draining /\ ~complete /\ pc[p] \in InQuery /\ req[p] \in 1..nreq
  /\ draining => ~complete
  /\ suppress_console => active
  /\ pc[p] = "send" => active /\ ~in_response /\ Quiet /\ answer[req[p]] = 0
  /\ pc[p] = "sleep" => active
  /\ pc[p] = "wait" => active \/ complete
  /\ pc[p] = "wait" /\ complete => ~Listening /\ (failed \/ response = Answer(p))
  /\ pc[p] = "done" /\ result[p] # Failure => ~Listening /\ result[p] = Answer(p)
  /\ \A r \in Request : r > nreq => answer[r] = 0

\* Whatever reaches nobody, or the console, is the rest of an answer that did
\* not fit.
RestInv ==
  /\ wire # <<>> /\ ~Listening => Overflowed
  /\ burst = "console" => Overflowed
  /\ leaked => Overflowed

IInv(p) == Types /\ LineInv(p) /\ ClientInv(p) /\ RestInv
-----------------------------------------------------------------------------
(* Lines and sequences of them.                                            *)

\* The framing lines of an answer are not lines of it.
LEMMA MessagesDiffer ==
  /\ Begin # End
  /\ \A r : Line(r) # Begin /\ Line(r) # End /\ Line(r).of = r
BY DEF Begin, End, Line

\* Taking the first line off the wire.
LEMMA TakeLine ==
  ASSUME NEW S, NEW w \in Seq(S), w # <<>>
  PROVE  /\ Len(w) \in Nat /\ Len(w) > 0 /\ Head(w) = w[1] /\ w[1] \in S
         /\ Tail(w) \in Seq(S) /\ Len(Tail(w)) = Len(w) - 1
         /\ \A i \in 1..(Len(w) - 1) : Tail(w)[i] = w[i + 1]
OBVIOUS

\* An answer of n lines behind what is on the wire.
LEMMA PutFrame ==
  ASSUME NEW w \in Seq(Messages), NEW r \in Request, NEW n \in Nat,
         NEW v, v = w \o <<Begin>> \o [i \in 1..n |-> Line(r)] \o <<End>>
  PROVE  /\ v \in Seq(Messages) /\ Len(v) = Len(w) + n + 2
         /\ \A i \in 1..Len(w) : v[i] = w[i]
         /\ v[Len(w) + 1] = Begin
         /\ \A i \in (Len(w) + 2)..(Len(w) + n + 1) : v[i] = Line(r)
         /\ v[Len(w) + n + 2] = End
<1> DEFINE S == Messages
           b == Begin
           e == End
           l == Line(r)
<1>0. b \in S /\ e \in S /\ l \in S /\ w \in Seq(S)
  BY DEF Messages
<1> HIDE DEF S, b, e, l
<1> DEFINE f == [i \in 1..n |-> l]
           v1 == w \o <<b>>
           v2 == v1 \o f
           u == v2 \o <<e>>
<1>1. f \in Seq(S) /\ Len(f) = n /\ \A i \in 1..n : f[i] = l
  BY <1>0
<1>2. v1 \in Seq(S) /\ Len(v1) = Len(w) + 1 /\ v1[Len(w) + 1] = b /\ \A i \in 1..Len(w) : v1[i] = w[i]
  BY <1>0
<1> HIDE DEF f, v1
<1>3. /\ v2 \in Seq(S) /\ Len(v2) = Len(v1) + n /\ \A i \in 1..Len(v1) : v2[i] = v1[i]
      /\ \A i \in 1..n : v2[Len(v1) + i] = l
  <2>1. /\ v2 \in Seq(S) /\ Len(v2) = Len(v1) + Len(f)
        /\ \A i \in 1..Len(v1) : v2[i] = v1[i]
        /\ \A i \in 1..Len(f) : v2[Len(v1) + i] = f[i]
    <3>1. \A s, t \in Seq(S) :
             /\ s \o t \in Seq(S) /\ Len(s \o t) = Len(s) + Len(t)
             /\ \A i \in 1..Len(s) : (s \o t)[i] = s[i]
             /\ \A i \in 1..Len(t) : (s \o t)[Len(s) + i] = t[i]
      OBVIOUS
    <3> QED
      BY <1>1, <1>2, <3>1, Zenon
  <2> QED
    BY <1>1, <2>1
<1> HIDE DEF v2
<1>4. u \in Seq(S) /\ Len(u) = Len(v2) + 1 /\ u[Len(v2) + 1] = e /\ \A i \in 1..Len(v2) : u[i] = v2[i]
  BY <1>0, <1>3
<1> HIDE DEF u
<1>5. Len(w) \in Nat /\ Len(v1) = Len(w) + 1 /\ Len(v2) = Len(w) + n + 1
  BY <1>2, <1>3
<1>6. \A i \in 1..Len(w) : u[i] = w[i]
  <2>1. \A i \in 1..Len(w) : i \in 1..Len(v1) /\ i \in 1..Len(v2)
    BY <1>5
  <2> QED
    BY <1>2, <1>3, <1>4, <2>1
<1>7. u[Len(w) + 1] = b
  <2>1. Len(w) + 1 \in 1..Len(v1) /\ Len(w) + 1 \in 1..Len(v2)
    BY <1>5
  <2> QED
    BY <1>2, <1>3, <1>4, <2>1
<1>8. \A i \in (Len(w) + 2)..(Len(w) + n + 1) : u[i] = l
  <2> TAKE i \in (Len(w) + 2)..(Len(w) + n + 1)
  <2>1. i - Len(v1) \in 1..n /\ Len(v1) + (i - Len(v1)) = i /\ i \in 1..Len(v2)
    BY <1>5
  <2> QED
    BY <1>3, <1>4, <2>1
<1>9. Len(u) = Len(w) + n + 2 /\ Len(w) + n + 2 = Len(v2) + 1
  BY <1>4, <1>5
<1>10. v = u
  BY DEF u, v2, v1, f, b, e, l
<1> QED
  BY <1>4, <1>6, <1>7, <1>8, <1>9, <1>10 DEF S, b, e, l
-----------------------------------------------------------------------------
(* The invariant.                                                          *)

\* The bridge starts free, with nothing on the line.
LEMMA InitIInv == ASSUME NEW p, Proc = {p}, Init PROVE IInv(p)
<1>1. Types
  <2>1. <<>> \in Seq(Nat) /\ <<>> \in Seq(Request) /\ <<>> \in Seq(Messages) /\ Failure \in Seq(Nat)
    BY DEF Failure
  <2>2. 0 \in 0..MaxReq /\ 0 \in 0..0 /\ 0 \in Nat
    BY AiBridgeAssumption
  <2> QED
    BY <2>1, <2>2 DEF Init, Types, Request, InQuery
<1>2. LineInv(p) /\ ClientInv(p) /\ RestInv
  BY AiBridgeAssumption DEF Init, LineInv, ClientInv, RestInv, Listening, Quiet, InQuery, Request
<1> QED
  BY <1>1, <1>2 DEF IInv

\* Every step keeps the types.
LEMMA TypesStep ==
  ASSUME NEW p, Proc = {p}, IInv(p), [Next]_vars
  PROVE  Types'
<1> USE DEF IInv, Types, aiVars, procVars, hostVars, outVars, InQuery
<1>1. ASSUME aiquery(p) PROVE Types'
  <2>1. nreq' \in 0..MaxReq /\ nreq' = nreq + 1
    BY <1>1, AiBridgeAssumption DEF aiquery
  <2>2. req' \in [Proc -> 0..nreq']
    BY <1>1, <2>1, AiBridgeAssumption DEF aiquery
  <2>3. Failure \in Seq(Nat) /\ <<>> \in Seq(Nat)
    BY DEF Failure
  <2> QED
    BY <1>1, <2>1, <2>2, <2>3 DEF aiquery, Reset
<1>2. ASSUME ai_send(p) PROVE Types'
  <2>1. req[p] \in 1..nreq
    BY <1>2 DEF ai_send, ClientInv
  <2>2. req[p] \in Request
    BY <2>1, AiBridgeAssumption DEF Request
  <2>3. requests' = requests \/ requests' = Append(requests, req[p])
    BY <1>2 DEF ai_send, Recognised
  <2>4. requests' \in Seq(Request)
    <3>1. \A x \in Request : Append(requests, x) \in Seq(Request)
      OBVIOUS
    <3> QED
      BY <2>2, <2>3, <3>1, Zenon
  <2> QED
    BY <1>2, <2>4 DEF ai_send
<1>3. ASSUME ai_return(p) PROVE Types'
  <2>1. \A f \in BOOLEAN : Outcome(f) \in Seq(Nat)
    BY DEF Outcome, Failure
  <2> QED
    BY <1>3, <2>1 DEF ai_return
<1>4. ASSUME ai_giveup(p) PROVE Types'
  <2>1. Failure \in Seq(Nat)
    BY DEF Failure
  <2> QED
    BY <1>4, <2>1 DEF ai_giveup, Abandon
<1>5. ASSUME ai_sleep(p) PROVE Types'
  BY <1>5 DEF ai_sleep, Wakeup
<1>6. ASSUME resume(p) PROVE Types'
  <2>1. Failure \in Seq(Nat)
    BY DEF Failure
  <2> QED
    BY <1>6, <2>1 DEF resume
<1>7. ASSUME ai_tick PROVE Types'
  BY <1>7 DEF ai_tick, TickWakes, Wakeup
<1>8. ASSUME consputc PROVE Types'
  BY <1>8 DEF consputc, Wakeup
<1>9. ASSUME uartputc PROVE Types'
  BY <1>9 DEF uartputc, Wakeup
<1>10. ASSUME uartintr PROVE Types'
  BY <1>10 DEF uartintr, Wakeup
<1>11. ASSUME uartintr_end PROVE Types'
  BY <1>11 DEF uartintr_end, Wakeup
<1>12. ASSUME ai_uart_rx PROVE Types'
  <2>1. wire' \in Seq(Messages) /\ Head(wire) \in Messages
    BY <1>12 DEF ai_uart_rx
  <2>2. response' \in Seq(Nat)
    <3>1. \A l \in Messages : l.of \in Nat
      BY AiBridgeAssumption DEF Messages, Begin, End, Line, Request
    <3>2. Head(wire).of \in Nat
      BY <2>1, <3>1
    <3>3. response' \in {response, <<>>, Append(response, Head(wire).of)}
      BY <1>12 DEF ai_uart_rx, ai_finish_locked
    <3>4. <<>> \in Seq(Nat) /\ \A x \in Nat : Append(response, x) \in Seq(Nat)
      OBVIOUS
    <3> QED
      BY <3>2, <3>3, <3>4, Zenon
  <2>3. pc' \in [Proc -> InQuery \cup {"idle", "done"}]
    BY <1>12 DEF ai_uart_rx, ai_finish_locked, Wakeup
  <2>4. /\ active' \in BOOLEAN /\ draining' \in BOOLEAN /\ suppress_console' \in BOOLEAN
        /\ in_response' \in BOOLEAN /\ complete' \in BOOLEAN /\ failed' \in BOOLEAN
    BY <1>12 DEF ai_uart_rx, ai_finish_locked
  <2>5. UNCHANGED <<req, result, nreq, requests, answer, burst, leaked>>
    BY <1>12 DEF ai_uart_rx
  <2> QED
    BY <2>1, <2>2, <2>3, <2>4, <2>5
<1>13. ASSUME consoleintr PROVE Types'
  <2>1. wire' \in Seq(Messages)
    BY <1>13 DEF consoleintr
  <2> QED
    BY <1>13, <2>1 DEF consoleintr
<1>14. ASSUME NEW n \in AnswerLens, agent(n) PROVE Types'
  <2> DEFINE r == Head(requests)
  <2>1. r \in Request /\ requests' \in Seq(Request)
    BY <1>14 DEF agent
  <2>2. n \in Nat /\ answer' \in [Request -> Nat]
    BY <1>14, <2>1, AiBridgeAssumption DEF agent
  <2>3. Begin \in Messages /\ End \in Messages /\ Line(r) \in Messages
    BY <2>1 DEF Messages
  <2> HIDE DEF r
  <2>4. wire' \in Seq(Messages)
    <3>1. wire' = wire \o <<Begin>> \o [i \in 1..n |-> Line(r)] \o <<End>>
      BY <1>14 DEF agent, r
    <3> QED
      BY <2>1, <2>2, <3>1, PutFrame
  <2> QED
    BY <1>14, <2>1, <2>2, <2>4 DEF agent
<1>15. CASE UNCHANGED vars
  BY <1>15 DEF vars, Wakeup
<1> HIDE DEF IInv, Types, aiVars, procVars, hostVars, outVars, InQuery
<1> QED
  BY <1>1, <1>2, <1>3, <1>4, <1>5, <1>6, <1>7, <1>8, <1>9, <1>10, <1>11, <1>12, <1>13, <1>14, <1>15 DEF Next

\* A line taken off the wire, whoever takes it.
LEMMA WireShift ==
  ASSUME wire \in Seq(Messages), wire # <<>>, wire' = Tail(wire)
  PROVE  /\ Len(wire) \in Nat /\ Len(wire) > 0 /\ Len(wire') = Len(wire) - 1
         /\ Head(wire) = wire[1] /\ wire[1] \in Messages
         /\ \A i \in 1..(Len(wire) - 1) : wire'[i] = wire[i + 1]
BY TakeLine

\* A line that nobody takes for the start of an answer leaves the same due.
LEMMA Skipped ==
  ASSUME Types, wire # <<>>, wire' = Tail(wire), UNCHANGED <<requests, answer>>, NEW r \in Request
  PROVE  /\ Quiet => Quiet'
         /\ Asked(r) => Asked(r)'
         /\ \A k \in Nat : Answered(r, k) => \/ \E j \in Nat : k = j + 1 /\ Answered(r, j)'
                                             \/ k = 0 /\ wire[1] = Begin /\ Quiet'
<1>1. /\ Len(wire) \in Nat /\ Len(wire) > 0 /\ Len(wire') = Len(wire) - 1
      /\ \A i \in 1..(Len(wire) - 1) : wire'[i] = wire[i + 1]
  BY WireShift DEF Types
<1>2. Quiet => Quiet'
  BY <1>1 DEF Quiet
<1>3. Asked(r) => Asked(r)'
  BY <1>1 DEF Asked
<1>4. ASSUME NEW k \in Nat, Answered(r, k)
      PROVE  (\E j \in Nat : k = j + 1 /\ Answered(r, j)') \/ (k = 0 /\ wire[1] = Begin /\ Quiet')
  <2> DEFINE a == answer[r]
  <2>1. a \in Nat /\ Len(wire) = k + a + 2 /\ wire[k + 1] = Begin /\ wire[Len(wire)] = End
    BY <1>4 DEF Answered, Types
  <2>2. \A i \in (k + 2)..(k + a + 1) : wire[i] = Line(r)
    BY <1>4 DEF Answered
  <2>3. \A i \in 1..k : wire[i] # Begin
    BY <1>4 DEF Answered
  <2>4. requests = <<>> /\ requests' = <<>> /\ answer'[r] = a
    BY <1>4 DEF Answered
  <2> HIDE DEF a
  <2>5. CASE k = 0
    <3>1. \A i \in 1..Len(wire') : wire'[i] # Begin
      <4> TAKE i \in 1..Len(wire')
      <4>1. i \in 1..(Len(wire) - 1) /\ (i + 1 \in (k + 2)..(k + a + 1) \/ i + 1 = Len(wire))
        BY <1>1, <2>1, <2>5
      <4> QED
        BY <1>1, <2>1, <2>2, <4>1, MessagesDiffer
    <3> QED
      BY <2>1, <2>4, <2>5, <3>1 DEF Quiet
  <2>6. CASE k > 0
    <3>0. PICK j \in Nat : k = j + 1
      <4>1. k - 1 \in Nat /\ k = (k - 1) + 1
        BY <2>6
      <4> QED
        BY <4>1
    <3>1. Len(wire') = j + a + 2
      BY <1>1, <2>1, <3>0
    <3>2. \A i \in 1..j : wire'[i] # Begin
      <4> TAKE i \in 1..j
      <4>1. i \in 1..(Len(wire) - 1) /\ i + 1 \in 1..k
        BY <1>1, <2>1, <3>0
      <4> QED
        BY <1>1, <2>3, <4>1
    <3>3. wire'[j + 1] = Begin
      BY <1>1, <2>1, <3>0
    <3>4. \A i \in (j + 2)..(j + a + 1) : wire'[i] = Line(r)
      <4> TAKE i \in (j + 2)..(j + a + 1)
      <4>1. i \in 1..(Len(wire) - 1) /\ i + 1 \in (k + 2)..(k + a + 1)
        BY <1>1, <2>1, <3>0
      <4> QED
        BY <1>1, <2>2, <4>1
    <3>5. wire'[Len(wire')] = End
      <4>1. Len(wire') \in 1..(Len(wire) - 1) /\ Len(wire') + 1 = Len(wire)
        BY <1>1, <2>1
      <4> QED
        BY <1>1, <2>1, <4>1
    <3>6. Answered(r, j)'
      BY <2>4, <3>1, <3>2, <3>3, <3>4, <3>5 DEF Answered
    <3> QED
      BY <3>0, <3>6, Zenon
  <2> QED
    BY <2>5, <2>6
<1> QED
  BY <1>2, <1>3, <1>4

\* The host answers the only request.
LEMMA FrameSent ==
  ASSUME Types, NEW n \in AnswerLens, agent(n), NEW r \in Request, Asked(r)
  PROVE  (\E k \in Nat : Answered(r, k)') /\ answer'[r] = n /\ n \in Nat
         /\ answer' = [answer EXCEPT ![r] = n]
<1>1. Head(requests) = r /\ Tail(requests) = <<>>
  BY DEF Asked
<1>2. n \in Nat /\ answer' = [answer EXCEPT ![r] = n] /\ answer'[r] = n /\ requests' = <<>>
  BY <1>1, AiBridgeAssumption DEF agent, Types
<1>3. wire' = wire \o <<Begin>> \o [i \in 1..n |-> Line(r)] \o <<End>>
  BY <1>1 DEF agent
<1>4. Begin \in Messages /\ End \in Messages /\ Line(r) \in Messages /\ wire \in Seq(Messages)
  BY DEF Messages, Types
<1>5. /\ Len(wire') = Len(wire) + n + 2
      /\ \A i \in 1..Len(wire) : wire'[i] = wire[i]
      /\ wire'[Len(wire) + 1] = Begin
      /\ \A i \in (Len(wire) + 2)..(Len(wire) + n + 1) : wire'[i] = Line(r)
      /\ wire'[Len(wire) + n + 2] = End
  BY <1>2, <1>3, <1>4, PutFrame
<1>6. \A i \in 1..Len(wire) : wire'[i] # Begin
  BY <1>5 DEF Asked
<1>7. \A k : k = Len(wire) => Answered(r, k)'
  BY <1>2, <1>5, <1>6 DEF Answered
<1>8. Len(wire) \in Nat
  BY <1>4
<1> QED
  BY <1>2, <1>7, <1>8

\* What is on the line is the same when nothing on it changes.
LEMMA KeptLine ==
  ASSUME UNCHANGED <<wire, requests, answer>>
  PROVE  /\ Quiet' <=> Quiet
         /\ \A r : Asked(r)' <=> Asked(r)
         /\ \A r, k : Answered(r, k)' <=> Answered(r, k)
         /\ response' = response => \A r : Receiving(r)' <=> Receiving(r)
BY DEF Quiet, Asked, Answered, Receiving

\* LineInv is kept when the line, the flags and the number of the request are.
LEMMA KeptLineInv ==
  ASSUME NEW p, LineInv(p), UNCHANGED <<wire, requests, answer, response, in_response, nreq>>,
         burst' = burst \/ burst' = "none" \/ ~Listening,
         Listening' = Listening, active' => active /\ req'[p] = req[p]
  PROVE  LineInv(p)'
BY KeptLine DEF LineInv

\* The host holds at most one request, and answers it to a bridge that waits
\* for its start.
LEMMA OneRequest ==
  ASSUME NEW p, Types, LineInv(p), requests # <<>>
  PROVE  Listening /\ ~in_response /\ \E r \in 1..nreq : (active => r = req[p]) /\ Asked(r)
BY DEF LineInv, Quiet, Asked, Answered, Receiving

\* Taking a line off a quiet wire leaves it quiet.
LEMMA SkippedQuiet ==
  ASSUME Types, wire # <<>>, wire' = Tail(wire), requests' = requests
  PROVE  Quiet => Quiet'
<1>1. /\ Len(wire) \in Nat /\ Len(wire) > 0 /\ Len(wire') = Len(wire) - 1
      /\ \A i \in 1..(Len(wire) - 1) : wire'[i] = wire[i + 1]
  BY WireShift DEF Types
<1> QED
  BY <1>1 DEF Quiet

\* BEGIN_RESP is taken: the answer is being received from its first line on.
LEMMA StartReceiving ==
  ASSUME Types, NEW r \in Request, Answered(r, 0), wire # <<>>, wire' = Tail(wire),
         UNCHANGED <<requests, answer>>, response' = <<>>
  PROVE  Receiving(r)'
<1> DEFINE a == answer[r]
<1>1. /\ Len(wire) \in Nat /\ Len(wire) > 0 /\ Len(wire') = Len(wire) - 1
      /\ \A i \in 1..(Len(wire) - 1) : wire'[i] = wire[i + 1]
  BY WireShift DEF Types
<1>2. a \in Nat /\ Len(wire) = a + 2 /\ wire[Len(wire)] = End /\ requests' = <<>> /\ answer'[r] = a
  BY DEF Types, Answered
<1>3. \A i \in 2..(a + 1) : wire[i] = Line(r)
  <2>1. \A i \in (0 + 2)..(0 + answer[r] + 1) : wire[i] = Line(r)
    BY DEF Answered
  <2>2. \A i \in 2..(a + 1) : i \in (0 + 2)..(0 + answer[r] + 1)
    BY <1>2
  <2> QED
    BY <2>1, <2>2
<1> HIDE DEF a
<1>4. \A i \in 1..(Len(wire') - 1) : wire'[i] = Line(r)
  <2> TAKE i \in 1..(Len(wire') - 1)
  <2>1. i \in 1..(Len(wire) - 1) /\ i + 1 \in 2..(a + 1)
    BY <1>1, <1>2
  <2> QED
    BY <1>1, <1>3, <2>1
<1>5. wire'[Len(wire')] = End
  BY <1>1, <1>2
<1>6. Len(response') = 0 /\ response' = [i \in 1..Len(response') |-> r]
  OBVIOUS
<1>7. wire' # <<>> /\ Len(wire') + Len(response') = a + 1
  <2>1. Len(wire') # 0 /\ Len(<<>>) = 0
    BY <1>1, <1>2
  <2>2. wire' # <<>>
    BY <2>1, Zenon
  <2> QED
    BY <1>1, <1>2, <1>6, <2>2
<1> QED
  BY <1>2, <1>4, <1>5, <1>6, <1>7 DEF Receiving

\* A line that fits is taken.
LEMMA GoOnReceiving ==
  ASSUME Types, NEW r \in Request, Receiving(r), wire # <<>>, wire' = Tail(wire), wire[1] # End,
         UNCHANGED <<requests, answer>>, response' = Append(response, wire[1].of)
  PROVE  Receiving(r)' /\ wire[1] = Line(r)
<1>1. /\ Len(wire) \in Nat /\ Len(wire) > 0 /\ Len(wire') = Len(wire) - 1
      /\ \A i \in 1..(Len(wire) - 1) : wire'[i] = wire[i + 1]
  BY WireShift DEF Types
<1>2. /\ Len(wire) + Len(response) = answer[r] + 1 /\ wire[Len(wire)] = End
      /\ requests' = <<>> /\ answer' = answer
      /\ \A i \in 1..(Len(wire) - 1) : wire[i] = Line(r)
  BY DEF Receiving
<1>3. Len(wire) > 1
  BY <1>1, <1>2
<1>4. wire[1] = Line(r)
  BY <1>1, <1>2, <1>3
<1>5. response' = Append(response, r)
  BY <1>4, MessagesDiffer
<1>6. response \in Seq(Nat) /\ Len(response) \in Nat /\ r \in Nat /\ answer[r] \in Nat
  BY AiBridgeAssumption DEF Types, Request
<1>7. Len(response') = Len(response) + 1 /\ response' = [i \in 1..Len(response') |-> r]
  <2>1. response = [i \in 1..Len(response) |-> r]
    BY DEF Receiving
  <2>2. response' \in Seq(Nat) /\ Len(response') = Len(response) + 1
    BY <1>5, <1>6
  <2>3. \A i \in 1..(Len(response) + 1) : response'[i] = r
    <3> TAKE i \in 1..(Len(response) + 1)
    <3>1. CASE i = Len(response) + 1
      BY <1>5, <1>6, <3>1
    <3>2. CASE i # Len(response) + 1
      <4>1. i \in 1..Len(response)
        BY <1>6, <3>2
      <4>2. response'[i] = response[i]
        BY <1>5, <1>6, <4>1
      <4> QED
        BY <2>1, <4>1, <4>2
    <3> QED
      BY <3>1, <3>2
  <2> QED
    BY SMTT(40), <2>2, <2>3
<1>8. Len(wire') + Len(response') = answer'[r] + 1 /\ wire' # <<>>
  <2>1. Len(wire') > 0
    BY <1>1, <1>3
  <2>2. wire' # <<>>
    BY <2>1
  <2>3. answer'[r] = answer[r]
    BY <1>2
  <2> QED
    BY <1>1, <1>2, <1>6, <1>7, <2>2, <2>3
<1>9. \A i \in 1..(Len(wire') - 1) : wire'[i] = Line(r)
  BY <1>1, <1>2
<1>10. wire'[Len(wire')] = End
  BY <1>1, <1>2, <1>3
<1> QED
  BY <1>2, <1>4, <1>7, <1>8, <1>9, <1>10 DEF Receiving

\* What is left of an answer has no start in it.
LEMMA RestQuiet ==
  ASSUME Types, NEW r \in Request, Receiving(r), wire # <<>>, wire' = Tail(wire), requests' = requests
  PROVE  Quiet'
<1>1. Len(wire) \in Nat /\ \A i \in 1..Len(wire) : i \in 1..(Len(wire) - 1) \/ i = Len(wire)
  BY DEF Types
<1>2. Quiet
  BY <1>1, MessagesDiffer DEF Receiving, Quiet
<1> QED
  BY <1>2, SkippedQuiet

\* Every step keeps what is known of the line.
LEMMA LineStep ==
  ASSUME NEW p, Proc = {p}, IInv(p), [Next]_vars
  PROVE  LineInv(p)'
<1> USE DEF IInv
<1>1. ASSUME aiquery(p) PROVE LineInv(p)'
  <2>1. UNCHANGED <<wire, requests, answer>> /\ ~active /\ nreq' = nreq + 1 /\ burst' = burst
    BY <1>1 DEF aiquery, hostVars, ClientInv, InQuery
  <2>2. CASE Busy
    <3>1. UNCHANGED <<active, draining, in_response, response>>
      BY <1>1, <2>2 DEF aiquery, aiVars
    <3>2. \A r \in 1..nreq : r \in 1..nreq'
      BY <2>1 DEF Types
    <3> QED
      BY <2>1, <3>1, <3>2, KeptLine DEF LineInv, Listening
  <2>3. CASE ~Busy
    <3>1. Quiet
      BY <2>3 DEF Busy, Listening, LineInv
    <3>2. Quiet' /\ in_response' = FALSE /\ active' = TRUE
      BY <1>1, <2>1, <2>3, <3>1, KeptLine DEF aiquery, Reset
    <3> QED
      BY <3>2 DEF LineInv, Listening
  <2> QED
    BY <2>2, <2>3
<1>2. ASSUME ai_send(p) PROVE LineInv(p)'
  <2>1. /\ active /\ ~in_response /\ Quiet /\ answer[req[p]] = 0 /\ req[p] \in 1..nreq
        /\ UNCHANGED <<active, draining, in_response, wire, answer, req, nreq>>
    BY <1>2 DEF ai_send, aiVars, ClientInv
  <2>2. requests' = <<>> \/ requests' = <<req[p]>>
    BY <1>2, <2>1 DEF ai_send, Recognised, Quiet
  <2>3. CASE requests' = <<>>
    BY <2>1, <2>3 DEF LineInv, Quiet, Listening
  <2>4. CASE requests' = <<req[p]>>
    <3>1. PICK r \in 1..nreq : r = req[p]
      BY <2>1
    <3>2. Asked(r)'
      BY <2>1, <2>4, <3>1 DEF Asked, Quiet
    <3> QED
      BY <2>1, <3>1, <3>2 DEF LineInv, Listening
  <2> QED
    BY <2>2, <2>3, <2>4
<1>3. ASSUME ai_return(p) PROVE LineInv(p)'
  <2>1. Listening' = Listening
    BY <1>3 DEF ai_return, aiVars, Listening
  <2> QED
    BY <1>3, <2>1, KeptLineInv DEF ai_return, aiVars, procVars, hostVars, outVars, InQuery, Types, ClientInv
<1>4. ASSUME ai_giveup(p) PROVE LineInv(p)'
  <2>1. active /\ Listening
    BY <1>4 DEF ai_giveup, ClientInv, Listening
  <2>2. Listening' /\ ~active'
    BY <1>4 DEF ai_giveup, Abandon, Listening
  <2>3. UNCHANGED <<wire, requests, answer, response, in_response, nreq, burst>>
    BY <1>4 DEF ai_giveup, hostVars
  <2> QED
    BY <2>1, <2>2, <2>3, KeptLine DEF LineInv
<1>5. ASSUME ai_sleep(p) PROVE LineInv(p)'
  <2>1. Listening' = Listening
    BY <1>5 DEF ai_sleep, aiVars, Listening
  <2> QED
    BY <1>5, <2>1, KeptLineInv DEF ai_sleep, aiVars, procVars, hostVars, outVars, InQuery, Types, ClientInv
<1>6. ASSUME resume(p) PROVE LineInv(p)'
  <2>1. Listening' = Listening /\ ~active /\ ~active'
    BY <1>6 DEF resume, aiVars, Listening, ClientInv, InQuery
  <2> QED
    BY <1>6, <2>1, KeptLineInv DEF resume, aiVars, hostVars
<1>7. ASSUME ai_tick PROVE LineInv(p)'
  <2>1. Listening' = Listening
    BY <1>7 DEF ai_tick, aiVars, Listening
  <2> QED
    BY <1>7, <2>1, KeptLineInv DEF ai_tick, aiVars, procVars, hostVars, outVars, InQuery, Types, ClientInv
<1>8. ASSUME consputc PROVE LineInv(p)'
  <2>1. Listening' = Listening
    BY <1>8 DEF consputc, aiVars, Listening
  <2> QED
    BY <1>8, <2>1, KeptLineInv DEF consputc, aiVars, procVars, hostVars, outVars, InQuery, Types, ClientInv
<1>9. ASSUME uartputc PROVE LineInv(p)'
  <2>1. Listening' = Listening
    BY <1>9 DEF uartputc, aiVars, Listening
  <2> QED
    BY <1>9, <2>1, KeptLineInv DEF uartputc, aiVars, procVars, hostVars, outVars, InQuery, Types, ClientInv
<1>10. ASSUME uartintr PROVE LineInv(p)'
  <2>1. Listening' = Listening /\ (burst' = "console" => ~Listening)
    BY <1>10 DEF uartintr, aiVars, Listening, ForAi
  <2>2. burst' = "ai" \/ burst' = "console"
    BY <1>10 DEF uartintr
  <2>3. UNCHANGED <<wire, requests, answer, response, in_response, nreq, active, req>>
    BY <1>10 DEF uartintr, aiVars, procVars, hostVars
  <2> QED
    BY <2>1, <2>2, <2>3, KeptLine DEF LineInv
<1>11. ASSUME uartintr_end PROVE LineInv(p)'
  <2>1. Listening' = Listening
    BY <1>11 DEF uartintr_end, aiVars, Listening
  <2> QED
    BY <1>11, <2>1, KeptLineInv DEF uartintr_end, aiVars, procVars, hostVars, outVars, InQuery, Types, ClientInv
<1>12. ASSUME ai_uart_rx PROVE LineInv(p)'
  <2>1. UNCHANGED <<requests, answer, req, nreq, burst>> /\ burst = "ai" /\ wire # <<>> /\ wire' = Tail(wire)
    BY <1>12 DEF ai_uart_rx, hostVars
  <2>2. \A r \in 1..nreq : r \in Request
    BY AiBridgeAssumption DEF Types, Request
  <2>3. Quiet => Quiet'
    BY <2>1, SkippedQuiet
  <2>4. Head(wire) = wire[1] /\ Len(wire) \in Nat /\ Len(wire) > 0 /\ Len(wire') = Len(wire) - 1
        /\ \A i \in 1..(Len(wire) - 1) : wire'[i] = wire[i + 1]
    BY <2>1, WireShift DEF Types
  <2>5. CASE ~Listening
    <3>1. UNCHANGED <<active, draining>>
      BY <1>12, <2>5 DEF ai_uart_rx, aiVars
    <3> QED
      BY <2>3, <2>5, <3>1 DEF LineInv, Listening
  <2>6. CASE Listening /\ ~in_response
    <3>1. /\ UNCHANGED <<active, draining>> /\ Listening' /\ in_response' = (wire[1] = Begin)
          /\ response' = IF wire[1] = Begin THEN <<>> ELSE response
      BY <1>12, <2>4, <2>6 DEF ai_uart_rx, Listening
    <3>2. Quiet \/ \E r \in 1..nreq : (active => r = req[p]) /\ (Asked(r) \/ \E k \in Nat : Answered(r, k))
      BY <2>6 DEF LineInv
    <3>3. CASE wire[1] # Begin
      <4>1. ASSUME NEW r \in 1..nreq, Asked(r) \/ \E k \in Nat : Answered(r, k)
            PROVE  Asked(r)' \/ \E k \in Nat : Answered(r, k)'
        BY <2>1, <2>2, <3>3, <4>1, Skipped
      <4>2. Quiet' \/ \E r \in 1..nreq' : (active' => r = req'[p]) /\ (Asked(r)' \/ \E k \in Nat : Answered(r, k)')
        BY <2>1, <2>3, <3>1, <3>2, <4>1
      <4> QED
        BY <3>1, <3>3, <4>2 DEF LineInv
    <3>4. CASE wire[1] = Begin
      <4>1. 1 \in 1..Len(wire)
        BY <2>4
      <4>2. ~Quiet /\ \A r : ~Asked(r)
        BY <3>4, <4>1 DEF Quiet, Asked
      <4>3. PICK r \in 1..nreq, k \in Nat : (active => r = req[p]) /\ Answered(r, k)
        BY <3>2, <4>2
      <4>4. k = 0
        <5>1. k > 0 => 1 \in 1..k
          OBVIOUS
        <5> QED
          BY <3>4, <4>3, <5>1 DEF Answered
      <4>5. answer[r] \in Nat
        BY <2>2 DEF Types
      <4>6. Receiving(r)'
        <5>1. Answered(r, 0) /\ r \in Request /\ response' = <<>>
          BY <2>2, <3>1, <3>4, <4>3, <4>4
        <5> QED
          BY <2>1, <5>1, StartReceiving
      <4> QED
        BY <2>1, <3>1, <3>4, <4>3, <4>6 DEF LineInv
    <3> QED
      BY <3>3, <3>4
  <2>7. CASE Listening /\ in_response
    <3>1. PICK r \in 1..nreq : (active => r = req[p]) /\ Receiving(r)
      BY <2>7 DEF LineInv
    <3>2. CASE wire[1] = End \/ Full
      <4>1. ~Listening'
        BY <1>12, <2>4, <2>7, <3>2 DEF ai_uart_rx, ai_finish_locked, Listening
      <4>2. Quiet'
        BY <2>1, <2>2, <3>1, RestQuiet
      <4> QED
        BY <4>1, <4>2 DEF LineInv
    <3>3. CASE wire[1] # End /\ ~Full
      <4>1. UNCHANGED <<active, draining, in_response>> /\ response' = Append(response, wire[1].of)
        BY <1>12, <2>4, <2>7, <3>3 DEF ai_uart_rx
      <4>2. Receiving(r)'
        BY <2>1, <2>2, <3>1, <3>3, <4>1, GoOnReceiving
      <4>3. burst' # "console" /\ Listening'
        BY <2>1, <2>7, <4>1 DEF Listening
      <4> QED
        BY <2>1, <2>7, <3>1, <4>1, <4>2, <4>3 DEF LineInv
    <3> QED
      BY <3>2, <3>3
  <2> QED
    BY <2>5, <2>6, <2>7
<1>13. ASSUME consoleintr PROVE LineInv(p)'
  <2>1. /\ UNCHANGED <<active, draining, in_response, requests, answer, req, nreq>>
        /\ burst = "console" /\ wire # <<>> /\ wire' = Tail(wire)
    BY <1>13 DEF consoleintr, aiVars, procVars, hostVars
  <2>2. ~(Listening /\ in_response) /\ Listening' = Listening
    BY <2>1 DEF LineInv, Listening
  <2>3. \A r \in 1..nreq : r \in Request
    BY AiBridgeAssumption DEF Types, Request
  <2>4. Quiet => Quiet'
    BY <2>1, SkippedQuiet
  <2>5. ASSUME NEW r \in 1..nreq, Asked(r) \/ \E k \in Nat : Answered(r, k)
        PROVE  Quiet' \/ Asked(r)' \/ \E k \in Nat : Answered(r, k)'
    BY <2>1, <2>3, <2>5, Skipped
  <2>6. CASE ~Listening
    BY <2>2, <2>4, <2>6 DEF LineInv
  <2>7. CASE Listening
    <3>1. ~in_response /\ ~in_response' /\ Listening'
      BY <2>1, <2>2, <2>7
    <3>2. Quiet \/ \E r \in 1..nreq : (active => r = req[p]) /\ (Asked(r) \/ \E k \in Nat : Answered(r, k))
      BY <2>7, <3>1 DEF LineInv
    <3>3. Quiet' \/ \E r \in 1..nreq' : (active' => r = req'[p]) /\ (Asked(r)' \/ \E k \in Nat : Answered(r, k)')
      BY <2>1, <2>4, <2>5, <3>2
    <3> QED
      BY <3>1, <3>3 DEF LineInv
  <2> QED
    BY <2>6, <2>7
<1>14. ASSUME NEW n \in AnswerLens, agent(n) PROVE LineInv(p)'
  <2>1. requests # <<>> /\ UNCHANGED <<active, draining, in_response, req, nreq>>
    BY <1>14 DEF agent, aiVars, procVars
  <2>2. Listening /\ ~in_response /\ Listening' /\ ~in_response'
    BY <2>1, OneRequest DEF Listening
  <2>3. PICK r \in 1..nreq : (active => r = req[p]) /\ Asked(r)
    BY <2>1, OneRequest
  <2>4. r \in Request
    BY AiBridgeAssumption DEF Types, Request
  <2>5. \E k \in Nat : Answered(r, k)'
    BY <1>14, <2>3, <2>4, FrameSent
  <2> QED
    BY <2>1, <2>2, <2>3, <2>5 DEF LineInv
<1>15. CASE UNCHANGED vars
  <2>1. Listening' = Listening
    BY <1>15 DEF vars, Listening
  <2> QED
    BY <1>15, <2>1, KeptLineInv DEF vars
<1> HIDE DEF IInv
<1> QED
  BY <1>1, <1>2, <1>3, <1>4, <1>5, <1>6, <1>7, <1>8, <1>9, <1>10, <1>11, <1>12, <1>13, <1>14, <1>15 DEF Next

\* When the answer is over the response is all of it; when it is cut, it did
\* not fit.
LEMMA WholeAnswer ==
  ASSUME Types, NEW r \in Request, Receiving(r), wire # <<>>
  PROVE  /\ wire[1] = End => Len(wire) = 1 /\ response = [i \in 1..answer[r] |-> r]
         /\ wire[1] # End /\ Full => answer[r] > MaxLines
<1>1. /\ Len(wire) \in Nat /\ Len(wire) > 0 /\ Len(response) \in Nat /\ answer[r] \in Nat
      /\ MaxLines \in Nat
  BY AiBridgeAssumption DEF Types
<1>2. /\ Len(wire) + Len(response) = answer[r] + 1 /\ wire[Len(wire)] = End
      /\ \A i \in 1..(Len(wire) - 1) : wire[i] = Line(r)
      /\ response = [i \in 1..Len(response) |-> r]
  BY DEF Receiving
<1>3. ASSUME wire[1] = End PROVE Len(wire) = 1 /\ response = [i \in 1..answer[r] |-> r]
  <2>1. Len(wire) = 1
    <3> DEFINE w == Len(wire)
    <3>0. w \in Nat /\ w > 0
      BY <1>1
    <3> HIDE DEF w
    <3>1. w # 1 => 1 \in 1..(w - 1)
      BY <3>0
    <3> QED
      BY <1>2, <1>3, <3>1, MessagesDiffer DEF w
  <2>2. Len(response) = answer[r]
    BY <1>1, <1>2, <2>1
  <2> QED
    BY <1>2, <2>1, <2>2
<1>4. ASSUME wire[1] # End, Full PROVE answer[r] > MaxLines
  <2>1. Len(wire) > 1
    BY <1>1, <1>2, <1>4
  <2> QED
    BY <1>1, <1>2, <1>4, <2>1 DEF Full
<1> QED
  BY <1>3, <1>4

\* Nobody asks of the line what it does not hold.
LEMMA KeptAnswer ==
  ASSUME NEW p, UNCHANGED <<answer, req>> PROVE Answer(p)' = Answer(p)
BY DEF Answer

\* ClientInv is kept when nothing it speaks of changes.
LEMMA KeptClient ==
  ASSUME NEW p, ClientInv(p), UNCHANGED <<active, draining, complete, suppress_console, in_response, failed, response>>,
         UNCHANGED <<pc, req, result, nreq, answer, wire, requests>>
  PROVE  ClientInv(p)'
BY KeptLine, KeptAnswer DEF ClientInv, Listening

\* Every step keeps the client and the bridge in step.
LEMMA ClientStep ==
  ASSUME NEW p, Proc = {p}, IInv(p), [Next]_vars
  PROVE  ClientInv(p)'
<1> USE DEF IInv, ClientInv
<1>1. ASSUME aiquery(p) PROVE ClientInv(p)'
  <2>1. UNCHANGED <<wire, requests, answer>> /\ ~active /\ nreq' = nreq + 1 /\ req'[p] = nreq + 1 /\ nreq + 1 \in Request
    BY <1>1, AiBridgeAssumption DEF aiquery, hostVars, InQuery, Types, Request
  <2>2. \A r \in Request : r > nreq' => answer'[r] = 0
    BY <2>1, AiBridgeAssumption DEF Types, Request
  <2>3. CASE Busy
    <3>1. pc'[p] = "done" /\ result'[p] = Failure /\ UNCHANGED <<active, draining, complete, suppress_console>>
      BY <1>1, <2>3 DEF aiquery, aiVars, Types
    <3> QED
      BY <2>1, <2>2, <3>1
  <2>4. CASE ~Busy
    <3>1. /\ pc'[p] = "send" /\ active' = TRUE /\ draining' = FALSE /\ complete' = FALSE /\ in_response' = FALSE
      BY <1>1, <2>4 DEF aiquery, Reset, Types
    <3>2. Quiet'
      BY <2>1, <2>4, KeptLine DEF LineInv, Busy, Listening
    <3>3. answer'[req'[p]] = 0 /\ req'[p] \in 1..nreq'
      BY <2>1 DEF Types, Request
    <3> QED
      BY <2>1, <2>2, <3>1, <3>2, <3>3 DEF InQuery
  <2> QED
    BY <2>3, <2>4
<1>2. ASSUME ai_send(p) PROVE ClientInv(p)'
  <2>1. pc'[p] = "wait" /\ UNCHANGED <<active, draining, complete, suppress_console, failed, response, req, result, nreq, answer>>
    BY <1>2 DEF ai_send, aiVars, Types
  <2> QED
    BY <1>2, <2>1, KeptAnswer DEF ai_send, InQuery, Listening
<1>3. ASSUME ai_return(p) PROVE ClientInv(p)'
  <2>1. pc'[p] = "done" /\ UNCHANGED <<active, draining, complete, suppress_console, failed, response, req, nreq, answer>>
    BY <1>3 DEF ai_return, aiVars, hostVars, Types
  <2>2. result'[p] = Failure \/ (~failed /\ result'[p] = response)
    BY <1>3 DEF ai_return, Outcome, Types
  <2>3. complete /\ pc[p] = "wait"
    BY <1>3 DEF ai_return
  <2> QED
    BY <2>1, <2>2, <2>3, KeptAnswer DEF Listening
<1>4. ASSUME ai_giveup(p) PROVE ClientInv(p)'
  <2>1. /\ pc'[p] = "done" /\ result'[p] = Failure /\ ~active' /\ ~suppress_console' /\ ~complete'
        /\ UNCHANGED <<nreq, answer>>
    BY <1>4 DEF ai_giveup, Abandon, hostVars, Types
  <2> QED
    BY <2>1
<1>5. ASSUME ai_sleep(p) PROVE ClientInv(p)'
  <2>1. pc'[p] = "sleep" /\ pc[p] = "wait" /\ ~complete /\ UNCHANGED <<active, draining, complete, suppress_console, req, nreq, answer>>
    BY <1>5 DEF ai_sleep, aiVars, hostVars, Types
  <2> QED
    BY <2>1 DEF InQuery
<1>6. ASSUME resume(p) PROVE ClientInv(p)'
  <2>1. pc'[p] = "idle" /\ pc[p] = "done" /\ UNCHANGED <<active, draining, complete, suppress_console, nreq, answer>>
    BY <1>6 DEF resume, aiVars, hostVars, Types
  <2> QED
    BY <2>1 DEF InQuery
<1>7. ASSUME ai_tick PROVE ClientInv(p)'
  <2>1. /\ active /\ pc' = Wakeup
        /\ UNCHANGED <<active, draining, complete, suppress_console, in_response, failed, response, req, result, nreq, answer, wire, requests>>
    BY <1>7 DEF ai_tick, TickWakes, aiVars, hostVars
  <2>2. pc'[p] = IF pc[p] = "sleep" THEN "wait" ELSE pc[p]
    BY <2>1 DEF Wakeup
  <2> QED
    BY <2>1, <2>2, KeptLine, KeptAnswer DEF InQuery, Listening
<1>8. ASSUME consputc PROVE ClientInv(p)'
  BY <1>8, KeptClient DEF consputc, aiVars, procVars, hostVars
<1>9. ASSUME uartputc PROVE ClientInv(p)'
  BY <1>9, KeptClient DEF uartputc, aiVars, procVars, hostVars
<1>10. ASSUME uartintr PROVE ClientInv(p)'
  BY <1>10, KeptClient DEF uartintr, aiVars, procVars, hostVars
<1>11. ASSUME uartintr_end PROVE ClientInv(p)'
  BY <1>11, KeptClient DEF uartintr_end, aiVars, procVars, hostVars
<1>12. ASSUME ai_uart_rx PROVE ClientInv(p)'
  <2>1. UNCHANGED <<requests, answer, req, result, nreq>> /\ wire # <<>> /\ wire' = Tail(wire) /\ Head(wire) = wire[1]
    BY <1>12, WireShift DEF ai_uart_rx, hostVars, Types
  <2>2. Quiet => Quiet'
    BY <2>1, SkippedQuiet
  <2>3. CASE ~Listening
    <3>1. UNCHANGED <<active, draining, complete, suppress_console, in_response, failed, response, pc>>
      BY <1>12, <2>3 DEF ai_uart_rx, aiVars
    <3> QED
      BY <2>1, <2>2, <3>1, KeptAnswer DEF Listening
  <2>4. CASE Listening /\ ~in_response
    <3>1. UNCHANGED <<active, draining, complete, suppress_console, failed, pc>> /\ in_response' = (wire[1] = Begin)
      BY <1>12, <2>1, <2>4 DEF ai_uart_rx
    <3>2. pc[p] = "wait" => ~complete
      BY <2>4
    <3>3. Quiet => ~in_response'
      <4>1. 1 \in 1..Len(wire)
        BY <2>1 DEF Types
      <4> QED
        BY <3>1, <4>1 DEF Quiet
    <3> QED
      BY <2>1, <2>2, <2>4, <3>1, <3>2, <3>3, KeptAnswer DEF Listening
  <2>5. CASE Listening /\ in_response /\ (wire[1] = End \/ Full)
    <3>1. /\ complete' /\ ~active' /\ ~draining' /\ ~suppress_console' /\ pc' = Wakeup
          /\ failed' = (wire[1] # End) /\ response' = response
      BY <1>12, <2>1, <2>5 DEF ai_uart_rx, ai_finish_locked
    <3>2. pc'[p] = IF pc[p] = "sleep" THEN "wait" ELSE pc[p]
      BY <3>1 DEF Wakeup
    <3>3. ~(pc[p] = "done" /\ result[p] # Failure) /\ pc[p] # "send"
      BY <2>5
    <3>4. pc'[p] = "wait" /\ ~failed' => response' = Answer(p)'
      <4> SUFFICES ASSUME pc'[p] = "wait", ~failed' PROVE response' = Answer(p)'
        OBVIOUS
      <4>1. active
        BY <2>5, <3>2 DEF Listening
      <4>2. Receiving(req[p]) /\ req[p] \in Request
        BY <2>5, <4>1, AiBridgeAssumption DEF LineInv, Types, Request
      <4>3. response = Answer(p)
        BY <2>1, <3>1, <4>2, WholeAnswer DEF Answer
      <4> QED
        BY <2>1, <3>1, <4>3, KeptAnswer
    <3> QED
      BY SMTT(40), <2>1, <3>1, <3>2, <3>3, <3>4 DEF Listening, InQuery
  <2>6. CASE Listening /\ in_response /\ ~(wire[1] = End \/ Full)
    <3>1. UNCHANGED <<active, draining, complete, suppress_console, in_response, failed, pc>>
      BY <1>12, <2>1, <2>6 DEF ai_uart_rx
    <3>2. pc[p] = "wait" => ~complete
      BY <2>6
    <3> QED
      BY <2>1, <2>2, <2>6, <3>1, <3>2, KeptAnswer DEF Listening
  <2> QED
    BY <2>3, <2>4, <2>5, <2>6
<1>13. ASSUME consoleintr PROVE ClientInv(p)'
  <2>1. /\ UNCHANGED <<active, draining, complete, suppress_console, in_response, failed, response>>
        /\ UNCHANGED <<pc, req, result, nreq, answer, requests>> /\ wire # <<>> /\ wire' = Tail(wire)
    BY <1>13 DEF consoleintr, aiVars, procVars, hostVars
  <2>2. Quiet => Quiet'
    BY <2>1, SkippedQuiet
  <2> QED
    BY <2>1, <2>2, KeptAnswer DEF Listening
<1>14. ASSUME NEW n \in AnswerLens, agent(n) PROVE ClientInv(p)'
  <2>1. /\ UNCHANGED <<active, draining, complete, suppress_console, in_response, failed, response>>
        /\ UNCHANGED <<pc, req, result, nreq>> /\ requests # <<>>
    BY <1>14 DEF agent, aiVars, procVars
  <2>2. Listening /\ Listening' /\ ~Quiet
    BY <2>1, OneRequest DEF Listening, Quiet
  <2>3. PICK r \in 1..nreq : Asked(r)
    BY <2>1, OneRequest
  <2>4. r \in Request
    BY AiBridgeAssumption DEF Types, Request
  <2>5. answer' = [answer EXCEPT ![r] = n]
    BY <1>14, <2>3, <2>4, FrameSent
  <2>6. \A q \in Request : q > nreq => answer'[q] = 0
    <3>1. \A q \in Request : q > nreq => q # r
      BY AiBridgeAssumption DEF Types, Request
    <3> QED
      BY <2>5, <3>1 DEF Types
  <2> QED
    BY <2>1, <2>2, <2>6
<1>15. CASE UNCHANGED vars
  BY <1>15, KeptClient DEF vars
<1> HIDE DEF IInv, ClientInv
<1> QED
  BY <1>1, <1>2, <1>3, <1>4, <1>5, <1>6, <1>7, <1>8, <1>9, <1>10, <1>11, <1>12, <1>13, <1>14, <1>15 DEF Next

\* An answer that did not fit is never forgotten: the host answers once.
LEMMA OverflowStays ==
  ASSUME NEW p, Types, LineInv(p), Overflowed,
         UNCHANGED answer \/ \E n \in AnswerLens : agent(n)
  PROVE  Overflowed'
<1>1. CASE UNCHANGED answer
  BY <1>1 DEF Overflowed
<1>2. ASSUME NEW n \in AnswerLens, agent(n) PROVE Overflowed'
  <2>1. requests # <<>>
    BY <1>2 DEF agent
  <2>2. PICK r \in 1..nreq : Asked(r)
    BY <2>1, OneRequest
  <2>3. r \in Request
    BY AiBridgeAssumption DEF Types, Request
  <2>4. answer' = [answer EXCEPT ![r] = n] /\ answer[r] = 0
    BY <1>2, <2>2, <2>3, FrameSent DEF Asked
  <2>5. PICK q \in Request : answer[q] > MaxLines
    BY DEF Overflowed, Request
  <2>6. q # r
    BY <2>4, <2>5, AiBridgeAssumption
  <2>7. answer'[q] > MaxLines
    BY <2>4, <2>5, <2>6 DEF Types
  <2> QED
    BY <2>7 DEF Overflowed, Request
<1> QED
  BY <1>1, <1>2

\* No step loses a line that fits.
LEMMA RestStep ==
  ASSUME NEW p, Proc = {p}, IInv(p), [Next]_vars
  PROVE  RestInv'
<1> USE DEF IInv, RestInv
<1>1. ASSUME aiquery(p) PROVE RestInv'
  <2>0. Overflowed => Overflowed'
    BY <1>1, OverflowStays DEF aiquery, hostVars
  <2>1. Listening => Listening'
    BY <1>1 DEF aiquery, aiVars, Listening
  <2> QED
    BY <1>1, <2>0, <2>1 DEF aiquery
<1>2. ASSUME ai_send(p) PROVE RestInv'
  <2>0. Overflowed => Overflowed'
    BY <1>2, OverflowStays DEF ai_send, hostVars
  <2> QED
    BY <1>2, <2>0 DEF ai_send, aiVars, Listening
<1>3. ASSUME ai_return(p) PROVE RestInv'
  <2>0. Overflowed => Overflowed'
    BY <1>3, OverflowStays DEF ai_return, hostVars
  <2> QED
    BY <1>3, <2>0 DEF ai_return, aiVars, Listening
<1>4. ASSUME ai_giveup(p) PROVE RestInv'
  <2>0. Overflowed => Overflowed'
    BY <1>4, OverflowStays DEF ai_giveup, hostVars
  <2>1. Listening'
    BY <1>4 DEF ai_giveup, Abandon, Listening
  <2> QED
    BY <1>4, <2>0, <2>1 DEF ai_giveup
<1>5. ASSUME ai_sleep(p) PROVE RestInv'
  <2>0. Overflowed => Overflowed'
    BY <1>5, OverflowStays DEF ai_sleep, hostVars
  <2> QED
    BY <1>5, <2>0 DEF ai_sleep, aiVars, Listening
<1>6. ASSUME resume(p) PROVE RestInv'
  <2>0. Overflowed => Overflowed'
    BY <1>6, OverflowStays DEF resume, hostVars
  <2> QED
    BY <1>6, <2>0 DEF resume, aiVars, Listening
<1>7. ASSUME ai_tick PROVE RestInv'
  <2>0. Overflowed => Overflowed'
    BY <1>7, OverflowStays DEF ai_tick, hostVars
  <2> QED
    BY <1>7, <2>0 DEF ai_tick, aiVars, Listening
<1>8. ASSUME consputc PROVE RestInv'
  <2>0. Overflowed => Overflowed'
    BY <1>8, OverflowStays DEF consputc, hostVars
  <2> QED
    BY <1>8, <2>0 DEF consputc, aiVars, Listening
<1>9. ASSUME uartputc PROVE RestInv'
  <2>0. Overflowed => Overflowed'
    BY <1>9, OverflowStays DEF uartputc, hostVars
  <2> QED
    BY <1>9, <2>0 DEF uartputc, aiVars, Listening
<1>10. ASSUME uartintr PROVE RestInv'
  <2>0. Overflowed => Overflowed'
    BY <1>10, OverflowStays DEF uartintr, hostVars
  <2>1. burst' = "console" => Overflowed
    BY <1>10 DEF uartintr, ForAi, Listening
  <2>2. UNCHANGED <<wire, leaked>> /\ Listening' = Listening
    BY <1>10 DEF uartintr, aiVars, Listening
  <2> QED
    BY <2>0, <2>1, <2>2
<1>11. ASSUME uartintr_end PROVE RestInv'
  <2>0. Overflowed => Overflowed'
    BY <1>11, OverflowStays DEF uartintr_end, hostVars
  <2> QED
    BY <1>11, <2>0 DEF uartintr_end, aiVars, Listening
<1>12. ASSUME ai_uart_rx PROVE RestInv'
  <2>0. Overflowed => Overflowed'
    BY <1>12, OverflowStays DEF ai_uart_rx, hostVars
  <2>1. UNCHANGED <<burst, leaked, answer>> /\ wire # <<>> /\ wire' = Tail(wire) /\ Head(wire) = wire[1]
    BY <1>12, WireShift DEF ai_uart_rx, hostVars, Types
  <2>2. CASE ~Listening
    BY <2>0, <2>1, <2>2
  <2>3. CASE Listening /\ in_response /\ (wire[1] = End \/ Full)
    <3>1. PICK r \in 1..nreq : Receiving(r)
      BY <2>3 DEF LineInv
    <3>2. r \in Request
      BY AiBridgeAssumption DEF Types, Request
    <3>3. CASE wire[1] = End
      <4>1. Len(wire) = 1
        BY <2>1, <3>1, <3>2, <3>3, WholeAnswer
      <4>2. wire' = <<>>
        <5>1. wire \in Seq(Messages)
          BY DEF Types
        <5>2. Tail(wire) \in Seq(Messages) /\ Len(Tail(wire)) = 0
          BY <2>1, <4>1, <5>1
        <5>3. \A v \in Seq(Messages) : Len(v) = 0 => v = <<>>
          OBVIOUS
        <5> QED
          BY <2>1, <5>2, <5>3, Zenon
      <4> QED
        BY <2>0, <2>1, <4>2
    <3>4. CASE wire[1] # End /\ Full
      <4>1. answer[r] > MaxLines
        BY <2>1, <3>1, <3>2, <3>4, WholeAnswer
      <4>2. Overflowed
        BY <3>2, <4>1 DEF Overflowed, Request
      <4> QED
        BY <2>0, <4>2
    <3> QED
      BY <2>3, <3>3, <3>4
  <2>4. CASE Listening /\ ~(in_response /\ (wire[1] = End \/ Full))
    <3>1. Listening'
      BY <1>12, <2>1, <2>4 DEF ai_uart_rx, Listening
    <3> QED
      BY <2>0, <2>1, <3>1
  <2> QED
    BY <2>2, <2>3, <2>4
<1>13. ASSUME consoleintr PROVE RestInv'
  <2>0. Overflowed => Overflowed'
    BY <1>13, OverflowStays DEF consoleintr, hostVars
  <2> QED
    BY <1>13, <2>0 DEF consoleintr
<1>14. ASSUME NEW n \in AnswerLens, agent(n) PROVE RestInv'
  <2>0. Overflowed => Overflowed'
    BY <1>14, OverflowStays
  <2>1. Listening'
    BY <1>14, OneRequest DEF agent, aiVars, Listening
  <2>2. UNCHANGED <<burst, leaked>>
    BY <1>14 DEF agent
  <2> QED
    BY <2>0, <2>1, <2>2
<1>15. CASE UNCHANGED vars
  <2>1. Overflowed => Overflowed'
    BY <1>15, OverflowStays DEF vars
  <2> QED
    BY <1>15, <2>1 DEF vars, Listening
<1> HIDE DEF IInv, RestInv
<1> QED
  BY <1>1, <1>2, <1>3, <1>4, <1>5, <1>6, <1>7, <1>8, <1>9, <1>10, <1>11, <1>12, <1>13, <1>14, <1>15 DEF Next

\* The inductive invariant of a bridge with one client.
LEMMA Inductive == ASSUME NEW p, Proc = {p} PROVE Spec => []IInv(p)
<1>1. Init => IInv(p)
  BY InitIInv
<1>2. IInv(p) /\ [Next]_vars => IInv(p)'
  BY TypesStep, LineStep, ClientStep, RestStep DEF IInv
<1> QED
  BY <1>1, <1>2, PTL DEF Spec
-----------------------------------------------------------------------------
\* With one client, ai_query() returns the whole answer to its own prompt or an
\* error, whatever the host's answers are, however late they come and however
\* often the client has given up before.
THEOREM OneClientOwnResponse == ASSUME NEW p, Proc = {p} PROVE Spec => []OwnResponse
<1>1. IInv(p) => OwnResponse
  BY DEF IInv, ClientInv, OwnResponse, Answer
<1> QED
  BY <1>1, Inductive, PTL

\* With one client, no line of an answer reaches the console and no answer comes
\* to a free bridge unless one did not fit, and the console's output is held back
\* only in a query.
THEOREM OneClientBridgeSound == ASSUME NEW p, Proc = {p} PROVE Spec => []BridgeSound
<1>1. IInv(p) => BridgeSound
  <2> SUFFICES ASSUME IInv(p) PROVE BridgeSound
    OBVIOUS
  <2>1. LeakedOnlyByOverflow
    BY DEF IInv, RestInv, LeakedOnlyByOverflow
  <2>2. BusyWhileAnswerDue
    BY DEF IInv, RestInv, LineInv, Quiet, Listening, BusyWhileAnswerDue
  <2>3. SuppressedOnlyInQuery
    BY DEF IInv, ClientInv, InQuery, SuppressedOnlyInQuery
  <2> QED
    BY <2>1, <2>2, <2>3 DEF BridgeSound
<1> QED
  BY <1>1, Inductive, PTL
=============================================================================
